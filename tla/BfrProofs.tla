------------------------------- MODULE BfrProofs ------------------------------
(***************************************************************************)
(* The telemetry buffer is correct for any number of readers, any size of  *)
(* the ring, the sockets and the records.  Whatever records come, every    *)
(* tmq_ref counts the readers that hold it.  As long as records come whole, *)
(* each in one block, every reader gets every row once, in order and under *)
(* its time stamp, and no assertion fails.                                 *)
(***************************************************************************)
EXTENDS Bfr, TmQueueProofs

-----------------------------------------------------------------------------
(* The invariant that holds whatever records come.                         *)

ItemType == [id : Nat, tsp : Nat]

RingType == [0 .. TotalQrows - 1 -> ItemType]

(* What may be read from the ring, also from beside it: with records that do not
   come whole the chain may count more rows than the ring has. *)
Words == Nat \cup {ring[slot].id : ring \in RingType, slot \in Int}
             \cup {ring[slot].tsp : ring \in RingType, slot \in Int}

OutType == [slot : Int, id : Words, tsp : Words]

SentType == [id : Words, tsp : Words]

ReaderType == [tmqr : Nat, n_Qrows : Nat, ready : BOOLEAN, iov : Seq(OutType)]

InputType == [state : {"HDR", "HDR2", "DATA"}, nb : 0 .. MaxRec,
              room : 0 .. TotalQrows, off : 0 .. MaxRec,
              buf : 0 .. TotalQrows, ctr : 0 .. CtrMod - 1]

Fates == {"none", "commit_rows", "retire_rows", "do_read_reply",
          "run_read_queue", "blocking"}

StateType == [q : QueueType, mem : RingType,
              nrefs : Nat, nstamps : Nat, input : InputType, blocked : BOOLEAN,
              order : Seq(Readers), calls : Seq(Nat \ {0}),
              reader : [Readers -> ReaderType], sock : [Readers -> 0 .. SockCap],
              log : [Readers -> Seq(SentType)], committed : Nat, failed : Fates]

(* No two tmq_refs of the chain have one name, and none a name to come. *)
Named(ch, n) == \A i \in 1 .. Len(ch) :
                  /\ ch[i].id \in 1 .. n
                  /\ \A j \in 1 .. Len(ch) : ch[i].id = ch[j].id => i = j

(* The readers that hold a tmq_ref. *)
Holders(h, id) == {r \in Readers : h[r].tmqr = id}

(* Readers hold what is in the chain, and are counted there. *)
Counts(ch, h) ==
  /\ \A r \in Readers : h[r].tmqr # 0 => \E i \in 1 .. Len(ch) : ch[i].id = h[r].tmqr
  /\ \A i \in 1 .. Len(ch) : ch[i].ref_count = Cardinality(Holders(h, ch[i].id))

(* A reader that is not connected has nothing. *)
OrderRight(s) ==
  /\ IsInjective(s.order)
  /\ \A r \in Readers \ ToSet(s.order) : s.reader[r] = Idle /\ s.log[r] = <<>>

(* Each call of run_read_queue but the last is at a reader. *)
CallsRight(s) ==
  \A i \in 1 .. Len(s.calls) : /\ s.calls[i] <= Len(s.order) + 1
                               /\ i < Len(s.calls) => s.calls[i] <= Len(s.order)

(* The rows there is room for are of the record, and there is room for them. *)
InputRight(in) ==
  /\ in.off + in.nb <= MaxRec
  /\ in.state = "DATA" => in.room <= in.nb /\ in.buf + in.room <= TotalQrows

Sound(s) ==
  /\ s \in StateType
  /\ InputRight(s.input)
  /\ s.input.state # "HDR" => s.q.chain # <<>>
  /\ Named(s.q.chain, s.nrefs)
  /\ Counts(s.q.chain, s.reader)
  /\ OrderRight(s)
  /\ CallsRight(s)

(* Input that is read has somewhere to go. *)
Awake(s) == s.failed = "none" /\ s.input.state = "DATA" /\ ~s.blocked => s.input.room > 0

SoundInv == Sound(d) /\ Awake(d) /\ arrived \in Nat

-----------------------------------------------------------------------------
(* The constants, and the smaller of two numbers.                          *)

LEMMA Sizes ==
  /\ TotalQrows \in Nat /\ TotalQrows > 0 /\ CtrMod \in Nat /\ CtrMod > 0
  /\ NRowMinf \in Nat /\ NRowMinf > 0
  /\ MaxRec \in Nat /\ MaxRec > 0 /\ SockCap \in Nat /\ SockCap > 0
  /\ IsFiniteSet(Readers)
BY QueueAssumption, BfrAssumption

LEMMA MinOfTwo ==
  ASSUME NEW a \in Int, NEW b \in Int
  PROVE  /\ Min({a, b}) \in {a, b}
         /\ Min({a, b}) <= a
         /\ Min({a, b}) <= b
<1> DEFINE P(x) == x \in {a, b} /\ \A y \in {a, b} : x <= y
<1>1. \E x : P(x)
  <2>1. CASE a <= b
    BY <2>1
  <2>2. CASE b <= a
    BY <2>2
  <2> QED
    BY <2>1, <2>2
<1>2. Min({a, b}) = CHOOSE x \in {a, b} : \A y \in {a, b} : x <= y
  BY DEF Min
<1>3. P(Min({a, b}))
  BY <1>1, <1>2
<1> QED
  BY <1>3

(* The least of some naturals. *)
LEMMA MinOfNaturals ==
  ASSUME NEW S \in SUBSET Nat, S # {}
  PROVE  Min(S) \in S /\ \A y \in S : Min(S) <= y
<1>1. \E x \in S : \A y \in S : x <= y
  BY LeastNatural
<1> QED
  BY <1>1 DEF Min

(* What the type says of each field. *)
LEMMA Fields ==
  ASSUME NEW s \in StateType
  PROVE  /\ s.q \in QueueType /\ s.mem \in RingType
         /\ s.nrefs \in Nat /\ s.nstamps \in Nat /\ s.input \in InputType
         /\ s.blocked \in BOOLEAN /\ s.order \in Seq(Readers)
         /\ s.calls \in Seq(Nat \ {0}) /\ s.reader \in [Readers -> ReaderType]
         /\ s.sock \in [Readers -> 0 .. SockCap]
         /\ s.log \in [Readers -> Seq(SentType)] /\ s.committed \in Nat
         /\ s.failed \in Fates
BY DEF StateType

LEMMA QueueFields ==
  ASSUME NEW x \in QueueType
  PROVE  /\ x.first \in 0 .. TotalQrows - 1 /\ x.last \in 0 .. TotalQrows - 1
         /\ x.full \in BOOLEAN /\ x.chain \in Seq(TmqRefType) /\ Len(x.chain) \in Nat
         /\ \A i \in 1 .. Len(x.chain) : x.chain[i] \in TmqRefType
BY DEF QueueType

LEMMA RefFields ==
  ASSUME NEW ref \in TmqRefType
  PROVE  /\ ref.id \in Nat /\ ref.tsp \in Nat /\ ref.n_Qrows \in Nat /\ ref.Qrow \in Nat
         /\ ref.Qrows_retired \in Nat /\ ref.ref_count \in Nat
         /\ ref.MFCtr_start \in Nat /\ ref.row_start \in Nat
         /\ ref.MFCtr_next \in Nat /\ ref.row_next \in Nat
BY DEF TmqRefType

LEMMA InputFields ==
  ASSUME NEW in \in InputType
  PROVE  /\ in.state \in {"HDR", "HDR2", "DATA"} /\ in.nb \in 0 .. MaxRec
         /\ in.room \in 0 .. TotalQrows /\ in.off \in 0 .. MaxRec
         /\ in.buf \in 0 .. TotalQrows /\ in.ctr \in 0 .. CtrMod - 1
BY DEF InputType

-----------------------------------------------------------------------------
(* Readers and the chain they hold.                                        *)

(* What a change of the chain leaves alone in a tmq_ref readers hold. *)
SameRef(ref, ref2) == ref2.id = ref.id /\ ref2.ref_count = ref.ref_count

LEMMA SameRefs ==
  ASSUME NEW ch, NEW ch2, NEW h, NEW n \in Nat, NEW n2 \in Nat, n <= n2,
         Len(ch2) = Len(ch), \A i \in 1 .. Len(ch) : SameRef(ch[i], ch2[i]),
         Named(ch, n), Counts(ch, h)
  PROVE  Named(ch2, n2) /\ Counts(ch2, h)
BY DEF SameRef, Named, Counts

(* A tmq_ref nobody holds is put after the last one. *)
LEMMA AddRef ==
  ASSUME NEW ch, NEW ch2, NEW h \in [Readers -> ReaderType], NEW n \in Nat,
         Len(ch) \in Nat, Len(ch2) = Len(ch) + 1,
         \A i \in 1 .. Len(ch) : SameRef(ch[i], ch2[i]),
         ch2[Len(ch) + 1].id = n + 1, ch2[Len(ch) + 1].ref_count = 0,
         Named(ch, n), Counts(ch, h)
  PROVE  Named(ch2, n + 1) /\ Counts(ch2, h)
<1> DEFINE N == Len(ch)
<1>1. \A i \in 1 .. N : ch2[i].id \in 1 .. n
  BY DEF SameRef, Named
<1>2. Named(ch2, n + 1)
  BY <1>1 DEF SameRef, Named
<1>3. Holders(h, n + 1) = {}
  <2> SUFFICES ASSUME NEW r \in Readers, h[r].tmqr = n + 1
               PROVE  FALSE
    BY DEF Holders
  <2> QED
    BY DEF Counts, Named
<1>4. Cardinality(Holders(h, n + 1)) = 0
  BY <1>3, FS_EmptySet
<1>5. ASSUME NEW r \in Readers, h[r].tmqr # 0
      PROVE  \E i \in 1 .. Len(ch2) : ch2[i].id = h[r].tmqr
  <2>1. PICK i \in 1 .. N : ch[i].id = h[r].tmqr
    BY <1>5 DEF Counts
  <2>2. ch2[i].id = h[r].tmqr /\ i \in 1 .. Len(ch2)
    BY <2>1 DEF SameRef
  <2> QED
    BY <2>2
<1>6. ASSUME NEW i \in 1 .. Len(ch2)
      PROVE  ch2[i].ref_count = Cardinality(Holders(h, ch2[i].id))
  <2>1. CASE i \in 1 .. N
    BY <2>1 DEF Counts, SameRef
  <2>2. CASE i = N + 1
    BY <2>2, <1>4
  <2> QED
    BY <2>1, <2>2
<1> QED
  BY <1>2, <1>5, <1>6 DEF Counts

(* The head nobody holds is taken off. *)
LEMMA DropRef ==
  ASSUME NEW ch \in Seq(TmqRefType), Len(ch) > 1, NEW h \in [Readers -> ReaderType],
         NEW n \in Nat, ch[1].ref_count = 0, Named(ch, n), Counts(ch, h)
  PROVE  Named(Tail(ch), n) /\ Counts(Tail(ch), h)
<1> DEFINE N == Len(ch)
           ch2 == Tail(ch)
<1>1. N \in Nat /\ Len(ch2) = N - 1 /\ \A i \in 1 .. N - 1 : ch2[i] = ch[i + 1]
  OBVIOUS
<1> HIDE DEF ch2
<1>2. Named(ch2, n)
  <2> SUFFICES ASSUME NEW i \in 1 .. N - 1
               PROVE  /\ ch2[i].id \in 1 .. n
                      /\ \A j \in 1 .. N - 1 : ch2[i].id = ch2[j].id => i = j
    BY <1>1 DEF Named
  <2>1. i + 1 \in 1 .. N /\ \A j \in 1 .. N - 1 : j + 1 \in 1 .. N
    BY <1>1
  <2>2. ch[i + 1].id \in 1 .. n /\ \A j \in 1 .. N : ch[i + 1].id = ch[j].id => i + 1 = j
    BY <2>1 DEF Named
  <2>3. ASSUME NEW j \in 1 .. N - 1, ch2[i].id = ch2[j].id
        PROVE  i = j
    <3>1. ch[i + 1].id = ch[j + 1].id
      BY <2>3, <1>1
    <3>2. i + 1 = j + 1
      BY <3>1, <2>1, <2>2
    <3> QED
      BY <3>2
  <2> QED
    BY <2>2, <2>3, <1>1
<1>3. Holders(h, ch[1].id) = {}
  <2>1. IsFiniteSet(Holders(h, ch[1].id))
    BY Sizes, FS_Subset DEF Holders
  <2>2. Cardinality(Holders(h, ch[1].id)) = 0
    BY DEF Counts
  <2> QED
    BY <2>1, <2>2, FS_EmptySet
<1>4. ASSUME NEW r \in Readers, h[r].tmqr # 0
      PROVE  \E i \in 1 .. Len(ch2) : ch2[i].id = h[r].tmqr
  <2>1. PICK i \in 1 .. N : ch[i].id = h[r].tmqr
    BY <1>4 DEF Counts
  <2>2. i # 1
    BY <2>1, <1>3 DEF Holders
  <2>3. i - 1 \in 1 .. Len(ch2) /\ ch2[i - 1] = ch[i]
    BY <2>2, <1>1
  <2> QED
    BY <2>1, <2>3
<1>5. \A i \in 1 .. Len(ch2) : ch2[i].ref_count = Cardinality(Holders(h, ch2[i].id))
  BY <1>1 DEF Counts
<1> QED
  BY <1>2, <1>4, <1>5 DEF Counts, ch2

-----------------------------------------------------------------------------
(* What the queue's operations do to the tmq_refs, beyond their rows.      *)

LEMMA AppendRowsRef ==
  ASSUME NEW ref \in TmqRefType, NEW n \in Nat
  PROVE  /\ SameRef(ref, AppendRows(ref, n))
         /\ AppendRows(ref, n).Qrows_retired = ref.Qrows_retired
<1> DEFINE next == LabelAfter(Expected(ref), n)
           total == ref.n_Qrows + n
<1>1. AppendRows(ref, n) = [ref EXCEPT !.MFCtr_next = next.ctr,
                                       !.row_next = next.row, !.n_Qrows = total]
  BY DEF AppendRows
<1> HIDE DEF next, total
<1> QED
  BY <1>1 DEF SameRef, TmqRefType

(* A commit counts no reader, and gives a new tmq_ref the next name. *)
LEMMA CommitRefs ==
  ASSUME NEW tmq \in QueueType, tmq.chain # <<>>, NEW id \in Nat,
         NEW lab \in Labels, NEW n \in Nat
  PROVE  LET old == tmq.chain
             new == ChainAfterCommit(tmq, id, lab, n)
         IN \/ /\ Len(new) = Len(old)
               /\ \A i \in 1 .. Len(old) :
                    SameRef(old[i], new[i]) /\ new[i].Qrows_retired = old[i].Qrows_retired
            \/ /\ Len(new) = Len(old) + 1
               /\ \A i \in 1 .. Len(old) : new[i] = old[i]
               /\ new[Len(new)].id = id /\ new[Len(new)].ref_count = 0
               /\ new[Len(new)].Qrows_retired = 0
<1> DEFINE old == tmq.chain
           new == ChainAfterCommit(tmq, id, lab, n)
           last == LastRef(tmq)
<1>1. /\ old \in Seq(TmqRefType) /\ Len(old) \in Nat /\ Len(old) > 0
      /\ last = old[Len(old)] /\ last \in TmqRefType /\ tmq.last \in Nat
  BY QueueFields, Sizes DEF LastRef
<1>2. lab.ctr \in Nat /\ lab.row \in Nat
  BY DEF Labels
<1> HIDE DEF last
<1>3. CASE Continues(last, lab)
  <2> DEFINE ref == Relabel(last, lab)
             ref2 == AppendRows(ref, n)
  <2>1. /\ ref \in TmqRefType /\ SameRef(last, ref)
        /\ ref.Qrows_retired = last.Qrows_retired
    BY <1>1, <1>2 DEF Relabel, TmqRefType, SameRef
  <2> HIDE DEF ref
  <2>2. SameRef(last, ref2) /\ ref2.Qrows_retired = last.Qrows_retired
    BY <2>1, AppendRowsRef DEF SameRef
  <2>3. new = [old EXCEPT ![Len(old)] = ref2]
    BY <1>3, <1>1 DEF ChainAfterCommit, ref, last
  <2> HIDE DEF new, old, ref2
  <2>4. Len(new) = Len(old) /\ new[Len(old)] = ref2
    BY <1>1, <2>3
  <2>5. ASSUME NEW i \in 1 .. Len(old), i # Len(old)
        PROVE  new[i] = old[i]
    BY <1>1, <2>3, <2>5
  <2> QED
    BY <1>1, <2>2, <2>4, <2>5 DEF SameRef, new, old
<1>4. CASE ~Continues(last, lab)
  <2> DEFINE ref == NewRef(id, last.tsp, lab, tmq.last)
             ref2 == AppendRows(ref, n)
  <2>1. /\ ref \in TmqRefType /\ ref.id = id /\ ref.ref_count = 0
        /\ ref.Qrows_retired = 0
    BY <1>1, <1>2 DEF NewRef, TmqRefType
  <2> HIDE DEF ref
  <2>2. ref2.id = id /\ ref2.ref_count = 0 /\ ref2.Qrows_retired = 0
    BY <2>1, AppendRowsRef DEF SameRef
  <2>3. new = Append(old, ref2)
    BY <1>4 DEF ChainAfterCommit, ref, last
  <2> HIDE DEF new, old, ref2
  <2>4. Len(new) = Len(old) + 1 /\ new[Len(old) + 1] = ref2
    BY <1>1, <2>3
  <2>5. ASSUME NEW i \in 1 .. Len(old)
        PROVE  new[i] = old[i]
    BY <1>1, <2>3
  <2> QED
    BY <1>1, <2>2, <2>4, <2>5 DEF new, old
<1> QED
  BY <1>3, <1>4

LEMMA CommitType ==
  ASSUME NEW tmq \in QueueType, NEW id \in Nat, NEW lab \in Labels, NEW n \in Nat,
         CommitAsserts(tmq, n)
  PROVE  CommitRows(tmq, id, lab, n) \in QueueType
<1>1. tmq.chain # <<>> /\ tmq.last + n <= TotalQrows
  BY DEF CommitAsserts
<1>2. ChainAfterCommit(tmq, id, lab, n) \in Seq(TmqRefType)
  BY <1>1, CommitChain
<1>3. Wrap(tmq.last + n) \in 0 .. TotalQrows - 1
  BY <1>1, QueueFields, Sizes DEF Wrap
<1> QED
  BY <1>2, <1>3 DEF CommitRows, QueueType

(* retire_rows counts no reader, and takes off a head nobody holds. *)
LEMMA RetireRefs ==
  ASSUME NEW tmq \in QueueType, NEW n \in Nat, RetireAsserts(tmq, n)
  PROVE  LET old == tmq.chain
             new == RetireRows(tmq, n).chain
         IN \/ /\ Len(new) = Len(old)
               /\ \A i \in 1 .. Len(old) :
                    /\ SameRef(old[i], new[i])
                    /\ i > 1 => new[i] = old[i]
               /\ new[1].Qrows_retired = old[1].Qrows_retired + n
               /\ new[1].n_Qrows = old[1].n_Qrows - n
            \/ /\ Exhausted(tmq, n)
               /\ new = Tail(old)
<1> DEFINE old == tmq.chain
           first == Wrap(tmq.first + n)
           head == old[1]
           ref == RetireFrom(head, n, first)
           start == LabelAfter(Starting(ref), n)
<1>1. /\ old \in Seq(TmqRefType) /\ Len(old) \in Nat /\ Len(old) > 0
      /\ head \in TmqRefType /\ n <= head.n_Qrows
  BY QueueFields DEF RetireAsserts
<1>2. CASE Exhausted(tmq, n)
  BY <1>2 DEF RetireRows
<1>3. CASE ~Exhausted(tmq, n)
  <2>1. RetireRows(tmq, n).chain = [old EXCEPT ![1] = RestartAfter(ref, n)]
    BY <1>3 DEF RetireRows
  <2>2. ref = [head EXCEPT !.Qrow = first, !.n_Qrows = @ - n, !.Qrows_retired = @ + n]
    BY DEF RetireFrom
  <2>3. RestartAfter(ref, n) = [ref EXCEPT !.MFCtr_start = start.ctr,
                                           !.row_start = start.row]
    BY DEF RestartAfter
  <2> HIDE DEF start, first, head
  <2>4. SameRef(head, RestartAfter(ref, n))
    BY <1>1, <2>2, <2>3 DEF SameRef, TmqRefType
  <2>5. /\ RestartAfter(ref, n).Qrows_retired = head.Qrows_retired + n
        /\ RestartAfter(ref, n).n_Qrows = head.n_Qrows - n
    BY <1>1, <2>2, <2>3 DEF TmqRefType
  <2> QED
    BY <1>1, <2>1, <2>4, <2>5 DEF SameRef, head
<1> QED
  BY <1>2, <1>3

LEMMA RetireType ==
  ASSUME NEW tmq \in QueueType, NEW n \in Nat, RetireAsserts(tmq, n)
  PROVE  RetireRows(tmq, n) \in QueueType
<1>1. tmq.chain # <<>> /\ n <= tmq.chain[1].n_Qrows
  BY QueueFields, RefFields DEF RetireAsserts
<1>2. RetireRows(tmq, n).chain \in Seq(TmqRefType)
  BY <1>1, RetireChain
<1>3. Wrap(tmq.first + n) \in 0 .. TotalQrows - 1
  BY QueueFields, Sizes DEF RetireAsserts, Wrap
<1>4. /\ RetireRows(tmq, n).first = Wrap(tmq.first + n)
      /\ RetireRows(tmq, n).last = tmq.last
      /\ RetireRows(tmq, n).full = (tmq.full /\ n = 0)
      /\ DOMAIN RetireRows(tmq, n) = {"first", "last", "full", "chain"}
  BY DEF RetireRows
<1>5. RetireRows(tmq, n) = [first |-> RetireRows(tmq, n).first, last |-> RetireRows(tmq, n).last,
                            full |-> RetireRows(tmq, n).full, chain |-> RetireRows(tmq, n).chain]
  BY DEF RetireRows
<1> QED
  BY <1>2, <1>3, <1>4, <1>5, QueueFields DEF QueueType

-----------------------------------------------------------------------------
(* The queue side keeps the invariant.                                     *)

(* What data_state_T3 and what it calls leave alone. *)
QueueStep(s, t) ==
  /\ t.mem = s.mem /\ t.nstamps = s.nstamps /\ t.blocked = s.blocked
  /\ t.order = s.order /\ t.calls = s.calls /\ t.reader = s.reader
  /\ t.sock = s.sock /\ t.log = s.log
  /\ s.q.chain # <<>> => t.q.chain # <<>>
  /\ t.input.state # "HDR" => s.input.state # "HDR"

SameRecord(in, in2) ==
  /\ in2.state = in.state /\ in2.nb = in.nb /\ in2.room = in.room
  /\ in2.off = in.off /\ in2.buf = in.buf

LEMMA Failing ==
  ASSUME NEW s, Sound(s), NEW what \in Fates
  PROVE  /\ Sound(Fail(s, what)) /\ QueueStep(s, Fail(s, what))
         /\ Fail(s, what).failed = what /\ Fail(s, what).q = s.q
         /\ Fail(s, what).input = s.input /\ Fail(s, what).committed = s.committed
<1> DEFINE t == Fail(s, what)
<1>1. s \in StateType
  BY DEF Sound
<1>2. t \in StateType /\ t.failed = what
  BY <1>1 DEF Fail, StateType
<1>3. /\ QueueStep(s, t) /\ t.q = s.q /\ t.input = s.input /\ t.committed = s.committed
      /\ t.nrefs = s.nrefs
  BY <1>1 DEF Fail, StateType, QueueStep
<1> HIDE DEF t
<1>4. Sound(t)
  BY <1>2, <1>3 DEF Sound, QueueStep, OrderRight, CallsRight
<1> QED
  BY <1>2, <1>3, <1>4 DEF t

(* What keeps the invariant on the queue side. *)
LEMMA QueueSound ==
  ASSUME NEW s, Sound(s), NEW t \in StateType, QueueStep(s, t),
         InputRight(t.input), Named(t.q.chain, t.nrefs), Counts(t.q.chain, s.reader)
  PROVE  Sound(t)
BY DEF Sound, QueueStep, OrderRight, CallsRight

LEMMA CommitBlockSound ==
  ASSUME NEW s, Sound(s), CommitAsserts(s.q, s.input.off)
  PROVE  LET t == CommitBlock(s)
         IN /\ Sound(t) /\ QueueStep(s, t) /\ SameRecord(s.input, t.input)
            /\ t.failed = s.failed /\ t.committed = s.committed + s.input.off
            /\ \E lab \in Labels :
                 t.q = CommitRows(s.q, s.nrefs + 1, lab, s.input.off)
<1> DEFINE t == CommitBlock(s)
           off == s.input.off
           lab == [ctr |-> s.input.ctr, row |-> 0]
           q2 == CommitRows(s.q, s.nrefs + 1, lab, off)
           more == s.nrefs + Len(q2.chain) - Len(s.q.chain)
           in == [s.input EXCEPT !.ctr = (@ + off) % CtrMod]
           com == s.committed + off
<1>1. /\ s \in StateType /\ Named(s.q.chain, s.nrefs) /\ Counts(s.q.chain, s.reader)
      /\ InputRight(s.input)
  BY DEF Sound
<1>2. /\ s.q \in QueueType /\ s.nrefs \in Nat /\ s.input \in InputType
      /\ s.reader \in [Readers -> ReaderType] /\ s.committed \in Nat
  BY <1>1, Fields
<1>3. off \in 0 .. MaxRec /\ s.input.ctr \in 0 .. CtrMod - 1
  BY <1>2, InputFields
<1>4. lab \in Labels
  BY <1>3, Sizes DEF Labels
<1>5. off \in Nat /\ com \in Nat
  BY <1>2, <1>3, Sizes
<1>6. s.q.chain # <<>>
  BY DEF CommitAsserts
<1>7. q2 \in QueueType /\ q2.chain = ChainAfterCommit(s.q, s.nrefs + 1, lab, off)
  <2>1. s.nrefs + 1 \in Nat
    BY <1>2
  <2> QED
    BY <2>1, <1>2, <1>4, <1>5, CommitType DEF CommitRows
<1>8. Named(q2.chain, more) /\ Counts(q2.chain, s.reader) /\ more \in Nat
  <2> DEFINE old == s.q.chain
             new == q2.chain
  <2>1. Len(old) \in Nat /\ Len(new) \in Nat
    BY <1>2, <1>7, QueueFields
  <2>2. \/ /\ Len(new) = Len(old)
           /\ \A i \in 1 .. Len(old) : SameRef(old[i], new[i])
        \/ /\ Len(new) = Len(old) + 1
           /\ \A i \in 1 .. Len(old) : new[i] = old[i]
           /\ new[Len(new)].id = s.nrefs + 1 /\ new[Len(new)].ref_count = 0
    <3>1. s.nrefs + 1 \in Nat
      BY <1>2
    <3> DEFINE id == s.nrefs + 1
    <3> HIDE DEF id, lab, off
    <3>2. id \in Nat
      BY <3>1 DEF id
    <3>3. q2.chain = ChainAfterCommit(s.q, id, lab, off)
      BY <1>7 DEF id
    <3> HIDE DEF q2
    <3>4. \/ /\ Len(new) = Len(old)
             /\ \A i \in 1 .. Len(old) : SameRef(old[i], new[i])
          \/ /\ Len(new) = Len(old) + 1
             /\ \A i \in 1 .. Len(old) : new[i] = old[i]
             /\ new[Len(new)].id = id /\ new[Len(new)].ref_count = 0
      BY <3>2, <3>3, <1>2, <1>4, <1>5, <1>6, CommitRefs, SMTT(30)
    <3> QED
      BY <3>4 DEF id
  <2> HIDE DEF new, old, q2
  <2>3. CASE Len(new) = Len(old) /\ \A i \in 1 .. Len(old) : SameRef(old[i], new[i])
    <3>1. more = s.nrefs
      BY <2>1, <2>3, <1>2 DEF new, old
    <3>2. s.nrefs <= s.nrefs
      BY <1>2
    <3>3. Named(new, s.nrefs) /\ Counts(new, s.reader)
      BY <3>2, <2>1, <2>3, <1>1, <1>2, SameRefs DEF old
    <3> HIDE DEF more
    <3> QED
      BY <3>1, <3>3, <1>2 DEF new
  <2>4. CASE /\ Len(new) = Len(old) + 1
             /\ \A i \in 1 .. Len(old) : new[i] = old[i]
             /\ new[Len(new)].id = s.nrefs + 1 /\ new[Len(new)].ref_count = 0
    <3>1. more = s.nrefs + 1
      BY <2>1, <2>4, <1>2 DEF new, old
    <3>2. \A i \in 1 .. Len(old) : SameRef(old[i], new[i])
      BY <2>4 DEF SameRef
    <3>3. Named(new, s.nrefs + 1) /\ Counts(new, s.reader)
      BY <3>2, <2>1, <2>4, <1>1, <1>2, AddRef DEF old
    <3>4. s.nrefs + 1 \in Nat
      BY <1>2
    <3> HIDE DEF more
    <3> QED
      BY <3>1, <3>3, <3>4 DEF new
  <2> QED
    BY <2>2, <2>3, <2>4
<1>14. q2.chain # <<>>
  <2> DEFINE old == s.q.chain
             new == q2.chain
             id == s.nrefs + 1
  <2>1. id \in Nat /\ new = ChainAfterCommit(s.q, id, lab, off)
    BY <1>2, <1>7
  <2>2. Len(old) \in Nat /\ Len(old) > 0
    BY <1>2, <1>6, QueueFields
  <2> HIDE DEF id, q2, lab, off
  <2>3. Len(new) = Len(old) \/ Len(new) = Len(old) + 1
    BY <2>1, <1>2, <1>4, <1>5, <1>6, CommitRefs
  <2>4. new # <<>>
    BY <2>2, <2>3
  <2> QED
    BY <2>4
<1>9. t = [s EXCEPT !.q = q2, !.nrefs = more, !.committed = com, !.input = in]
  BY <1>1 DEF CommitBlock, StateType
<1>10. in \in InputType /\ SameRecord(s.input, in)
  <2> DEFINE c == (s.input.ctr + off) % CtrMod
  <2>1. c \in 0 .. CtrMod - 1
    BY <1>3, <1>5, Sizes
  <2>2. in = [s.input EXCEPT !.ctr = c]
    OBVIOUS
  <2> HIDE DEF c, in
  <2> QED
    BY <2>1, <2>2, <1>2 DEF InputType, SameRecord
<1>11. InputRight(in)
  BY <1>1, <1>10 DEF InputRight, SameRecord
<1> HIDE DEF q2, more, com, in, t
<1>12. /\ t \in StateType /\ QueueStep(s, t) /\ t.q = q2 /\ t.nrefs = more
       /\ t.committed = com /\ t.input = in /\ t.failed = s.failed
  BY <1>1, <1>5, <1>7, <1>8, <1>9, <1>10, <1>14 DEF StateType, QueueStep, SameRecord
<1>13. Sound(t)
  BY <1>8, <1>11, <1>12, QueueSound
<1> QED
  BY <1>4, <1>10, <1>12, <1>13 DEF t, q2, com

LEMMA RetireOfSound ==
  ASSUME NEW s, Sound(s), NEW n \in Nat, RetireAsserts(s.q, n)
  PROVE  LET t == RetireOf(s, n)
         IN /\ Sound(t) /\ QueueStep(s, t) /\ t.input = s.input
            /\ t.failed = s.failed /\ t.committed = s.committed
            /\ t.q = RetireRows(s.q, n)
<1> DEFINE t == RetireOf(s, n)
           q2 == RetireRows(s.q, n)
<1>1. /\ s \in StateType /\ Named(s.q.chain, s.nrefs) /\ Counts(s.q.chain, s.reader)
      /\ InputRight(s.input)
  BY DEF Sound
<1>2. s.q \in QueueType /\ s.nrefs \in Nat /\ s.reader \in [Readers -> ReaderType]
  BY <1>1, Fields
<1>3. q2 \in QueueType
  BY <1>2, RetireType
<1>4. Named(q2.chain, s.nrefs) /\ Counts(q2.chain, s.reader)
  <2>1. CASE /\ Len(q2.chain) = Len(s.q.chain)
             /\ \A i \in 1 .. Len(s.q.chain) : SameRef(s.q.chain[i], q2.chain[i])
    BY <2>1, <1>1, <1>2, SameRefs, SMTT(30)
  <2>2. CASE Exhausted(s.q, n) /\ q2.chain = Tail(s.q.chain)
    <3>1. Len(s.q.chain) > 1 /\ s.q.chain[1].ref_count = 0 /\ s.q.chain \in Seq(TmqRefType)
      BY <2>2, <1>2, QueueFields DEF Exhausted
    <3> QED
      BY <3>1, <2>2, <1>1, <1>2, DropRef
  <2> QED
    BY <2>1, <2>2, <1>2, RetireRefs
<1>5. t = [s EXCEPT !.q = q2]
  BY <1>1 DEF RetireOf, StateType
<1>8. q2.chain # <<>>
  <2>1. /\ s.q.chain \in Seq(TmqRefType) /\ s.q.chain # <<>>
        /\ q2.chain \in Seq(TmqRefType)
    BY <1>2, <1>3, QueueFields DEF RetireAsserts
  <2>2. Len(q2.chain) = Len(s.q.chain) \/ (Len(s.q.chain) > 1 /\ q2.chain = Tail(s.q.chain))
    BY <1>2, RetireRefs DEF Exhausted
  <2> DEFINE old == s.q.chain
             new == q2.chain
  <2> HIDE DEF old, new, q2
  <2>3. /\ old \in Seq(TmqRefType) /\ old # <<>> /\ new \in Seq(TmqRefType)
        /\ Len(new) = Len(old) \/ (Len(old) > 1 /\ new = Tail(old))
    BY <2>1, <2>2 DEF old, new
  <2>4. new # <<>>
    BY <2>3
  <2> QED
    BY <2>4 DEF new
<1> HIDE DEF q2, t
<1>6. /\ t \in StateType /\ QueueStep(s, t) /\ t.q = q2 /\ t.nrefs = s.nrefs
      /\ t.committed = s.committed /\ t.input = s.input /\ t.failed = s.failed
  BY <1>1, <1>3, <1>5, <1>8 DEF StateType, QueueStep
<1>7. Sound(t)
  BY <1>1, <1>4, <1>6, QueueSound
<1> QED
  BY <1>6, <1>7 DEF t, q2

(* min_reader: how far the rows of first_tmqr may be retired. *)
LEMMA MinReaderBounds ==
  ASSUME NEW s, Sound(s), s.q.chain # <<>>
  PROVE  LET n == MinReader(s)
         IN /\ n \in Nat /\ n <= Retired(s) + s.q.chain[1].n_Qrows
            /\ \A r \in ToSet(s.order) :
                 s.reader[r].tmqr = s.q.chain[1].id => n <= s.reader[r].n_Qrows
<1> DEFINE all == Retired(s) + s.q.chain[1].n_Qrows
           Rs == {r \in ToSet(s.order) : s.reader[r].tmqr = s.q.chain[1].id}
           S == {all} \cup {s.reader[r].n_Qrows : r \in Rs}
<1>1. /\ s.q \in QueueType /\ s.order \in Seq(Readers)
      /\ s.reader \in [Readers -> ReaderType]
  BY Fields DEF Sound
<1>2. s.q.chain[1] \in TmqRefType
  BY <1>1, QueueFields
<1>3. all \in Nat
  BY <1>2, RefFields DEF Retired
<1>4. \A r \in Rs : s.reader[r].n_Qrows \in Nat
  BY <1>1 DEF ToSet, ReaderType
<1>5. S \in SUBSET Nat /\ S # {} /\ all \in S
  BY <1>3, <1>4
<1>6. Min(S) \in S /\ \A y \in S : Min(S) <= y
  <2> HIDE DEF S
  <2> QED
    BY <1>5, MinOfNaturals
<1>7. MinReader(s) = Min(S)
  BY DEF MinReader
<1>8. \A r \in Rs : s.reader[r].n_Qrows \in S
  OBVIOUS
<1> HIDE DEF S
<1> QED
  BY <1>5, <1>6, <1>7, <1>8

(* The loop over the empty heads stays in a set that each of its turns stays in. *)
LEMMA RetireCheckStays ==
  ASSUME NEW s, Len(s.q.chain) \in Nat, NEW S, s \in S,
         \A u \in S : DropHead(u) \in S
  PROVE  \E t \in S : TmqRetireCheck(s) = RetireHandled(t)
<1> DEFINE n == Len(s.q.chain)
           step == [a \in (1 .. n) \X S |-> DropHead(a[2])]
           F(f) == [i \in 0 .. n |-> IF i = 0 THEN s ELSE DropHead(f[i - 1])]
           dropped == CHOOSE f : f = F(f)
<1>1. n \in Nat
  OBVIOUS
<1>2. step \in [(1 .. n) \X S -> S]
  OBVIOUS
<1>3. \E f \in [0 .. n -> S] : Follows(f, s, step, n)
  <2> HIDE DEF n, step
  <2> QED
    BY <1>1, <1>2, Recursion, Zenon
<1>4. PICK f \in [0 .. n -> S] :
        f[0] = s /\ \A i \in 1 .. n : f[i] = step[<<i, f[i - 1]>>]
  BY <1>3 DEF Follows
<1>5. f = F(f)
  <2>1. ASSUME NEW i \in 1 .. n
        PROVE  step[<<i, f[i - 1]>>] = DropHead(f[i - 1])
    <3>1. f[i - 1] \in S
      OBVIOUS
    <3>2. <<i, f[i - 1]>> \in (1 .. n) \X S
      BY <3>1
    <3> QED
      BY <3>2
  <2> HIDE DEF step
  <2>2. ASSUME NEW i \in 0 .. n
        PROVE  f[i] = F(f)[i]
    <3>1. CASE i = 0
      BY <3>1, <1>4
    <3>2. CASE i \in 1 .. n
      BY <3>2, <1>4, <2>1
    <3> QED
      BY <3>1, <3>2
  <2>3. f = [i \in 0 .. n |-> f[i]] /\ F(f) = [i \in 0 .. n |-> F(f)[i]]
    OBVIOUS
  <2> QED
    BY <2>2, <2>3
<1>6. dropped = F(dropped)
  BY <1>5
<1>7. TmqRetireCheck(s) = RetireHandled(dropped[n])
  BY DEF TmqRetireCheck
<1> HIDE DEF dropped
<1>8. dropped[0] = s /\ \A i \in 1 .. n : dropped[i] = DropHead(dropped[i - 1])
  <2>1. dropped[0] = F(dropped)[0] /\ \A i \in 1 .. n : dropped[i] = F(dropped)[i]
    BY <1>6
  <2>2. F(dropped)[0] = s /\ \A i \in 1 .. n : F(dropped)[i] = DropHead(dropped[i - 1])
    BY <1>1
  <2> HIDE DEF F
  <2> QED
    BY <2>1, <2>2
<1>9. dropped[n] \in S
  <2> DEFINE T == {i \in 0 .. n : dropped[i] \in S}
  <2>1. 0 \in T
    BY <1>1, <1>8
  <2>2. ASSUME NEW i \in 1 .. n, i - 1 \in T
        PROVE  i \in T
    BY <2>2, <1>8
  <2>3. 0 .. n \subseteq T
    <3> HIDE DEF T, n
    <3> QED
      BY <1>1, <2>1, <2>2, Upwards
  <2> QED
    BY <1>1, <2>3
<1> QED
  BY <1>7, <1>9

LEMMA DropHeadSound ==
  ASSUME NEW s, Sound(s)
  PROVE  LET t == DropHead(s)
         IN /\ Sound(t) /\ QueueStep(s, t) /\ t.input = s.input
            /\ t.committed = s.committed
<1>1. QueueStep(s, s)
  BY DEF QueueStep
<1>2. CASE s.failed = "none" /\ EmptyHead(s)
  <2>1. DropHead(s) = RetireOf(s, 0)
    BY <1>2 DEF DropHead
  <2>2. CASE RetireAsserts(s.q, 0)
    BY <2>1, <2>2, RetireOfSound
  <2>3. CASE ~RetireAsserts(s.q, 0)
    <3>1. DropHead(s) = Fail(s, "retire_rows") /\ "retire_rows" \in Fates
      BY <2>1, <2>3 DEF RetireOf, Fates
    <3> QED
      BY <3>1, Failing
  <2> QED
    BY <2>2, <2>3
<1>3. CASE ~(s.failed = "none" /\ EmptyHead(s))
  <2>1. DropHead(s) = s
    BY <1>3 DEF DropHead
  <2> QED
    BY <2>1, <1>1
<1> QED
  BY <1>2, <1>3

LEMMA RetireHandledSound ==
  ASSUME NEW s, Sound(s)
  PROVE  LET t == RetireHandled(s)
         IN /\ Sound(t) /\ QueueStep(s, t) /\ t.input = s.input
            /\ t.committed = s.committed
<1>1. QueueStep(s, s)
  BY DEF QueueStep
<1>2. CASE s.failed = "none" /\ s.q.chain # <<>> /\ MinReader(s) > Retired(s)
  <2> DEFINE n == MinReader(s) - Retired(s)
  <2>1. n \in Nat
    <3>1. s.q \in QueueType
      BY Fields DEF Sound
    <3>2. s.q.chain[1] \in TmqRefType
      BY <3>1, <1>2, QueueFields
    <3>3. Retired(s) \in Nat
      BY <3>2, RefFields DEF Retired
    <3>4. MinReader(s) \in Nat
      BY <1>2, MinReaderBounds
    <3> QED
      BY <3>3, <3>4, <1>2
  <2>2. RetireHandled(s) = RetireOf(s, n)
    BY <1>2 DEF RetireHandled
  <2> HIDE DEF n
  <2>3. CASE RetireAsserts(s.q, n)
    BY <2>1, <2>2, <2>3, RetireOfSound
  <2>4. CASE ~RetireAsserts(s.q, n)
    <3>1. RetireHandled(s) = Fail(s, "retire_rows") /\ "retire_rows" \in Fates
      BY <2>2, <2>4 DEF RetireOf, Fates
    <3> QED
      BY <3>1, Failing
  <2> QED
    BY <2>3, <2>4
<1>3. CASE ~(s.failed = "none" /\ s.q.chain # <<>> /\ MinReader(s) > Retired(s))
  <2>1. RetireHandled(s) = s
    BY <1>3 DEF RetireHandled
  <2> QED
    BY <2>1, <1>1
<1> QED
  BY <1>2, <1>3

LEMMA TmqRetireCheckSound ==
  ASSUME NEW s, Sound(s)
  PROVE  LET t == TmqRetireCheck(s)
         IN /\ Sound(t) /\ QueueStep(s, t) /\ t.input = s.input
            /\ t.committed = s.committed
<1> DEFINE P(t) == /\ Sound(t) /\ QueueStep(s, t) /\ t.input = s.input
                   /\ t.committed = s.committed
           S == {t \in StateType : P(t)}
<1>1. s \in S
  BY DEF Sound, QueueStep
<1>2. ASSUME NEW u \in S
      PROVE  DropHead(u) \in S
  <2>1. P(u)
    OBVIOUS
  <2>2. P(DropHead(u))
    BY <2>1, DropHeadSound DEF QueueStep
  <2> QED
    BY <2>2 DEF Sound
<1>3. Len(s.q.chain) \in Nat
  BY Fields, QueueFields DEF Sound
<1>4. PICK t \in S : TmqRetireCheck(s) = RetireHandled(t)
  <2> HIDE DEF S
  <2> QED
    BY <1>1, <1>2, <1>3, RetireCheckStays
<1>5. P(t)
  OBVIOUS
<1>6. P(RetireHandled(t))
  BY <1>5, RetireHandledSound DEF QueueStep
<1> QED
  BY <1>4, <1>6

(* The room for a record's rows, from last on. *)
LEMMA FreeRows ==
  ASSUME NEW tmq \in QueueType
  PROVE  /\ AllocateRows(tmq) \in 0 .. TotalQrows
         /\ tmq.last + AllocateRows(tmq) <= TotalQrows
BY QueueFields, Sizes DEF AllocateRows

LEMMA AssignRoomSound ==
  ASSUME NEW s, Sound(s)
  PROVE  LET t == AssignRoom(s)
             free == AllocateRows(s.q)
         IN /\ Sound(t) /\ QueueStep(s, t) /\ t.q = s.q /\ t.failed = s.failed
            /\ t.committed = s.committed
            /\ t.input.nb = s.input.nb /\ t.input.buf = s.q.last
            /\ t.input.room = Min({free, s.input.nb})
            /\ t.input.room <= free /\ t.input.room <= t.input.nb
            /\ t.input.room = free \/ t.input.room = t.input.nb
            /\ IF free > 0 /\ s.input.state = "HDR2"
               THEN t.input.state = "DATA" /\ t.input.off = 0
               ELSE t.input.state = s.input.state /\ t.input.off = s.input.off
<1> DEFINE free == AllocateRows(s.q)
           start == free > 0 /\ s.input.state = "HDR2"
           room == Min({free, s.input.nb})
           off == IF start THEN 0 ELSE s.input.off
           state == IF start THEN "DATA" ELSE s.input.state
           in == [s.input EXCEPT !.room = room, !.buf = s.q.last, !.off = off, !.state = state]
           t == AssignRoom(s)
<1>1. /\ s \in StateType /\ s.q \in QueueType /\ s.input \in InputType
      /\ InputRight(s.input)
  BY Fields DEF Sound
<1>2. /\ free \in 0 .. TotalQrows /\ s.q.last + free <= TotalQrows
      /\ s.q.last \in 0 .. TotalQrows - 1
  BY <1>1, FreeRows, QueueFields
<1>3. /\ s.input.nb \in 0 .. MaxRec /\ s.input.off \in 0 .. MaxRec
      /\ s.input.state \in {"HDR", "HDR2", "DATA"}
  BY <1>1, InputFields
<1>4. room \in {free, s.input.nb} /\ room <= free /\ room <= s.input.nb
  <2>1. free \in Int /\ s.input.nb \in Int
    BY <1>2, <1>3, Sizes
  <2> HIDE DEF free
  <2> QED
    BY <2>1, MinOfTwo
<1> HIDE DEF free, room
<1>5. room \in 0 .. TotalQrows /\ room \in Nat
  BY <1>2, <1>3, <1>4, Sizes
<1>6. t = [s EXCEPT !.input = in]
  BY <1>1 DEF AssignRoom, StateType, free, room
<1>7. off \in 0 .. MaxRec /\ state \in {"HDR", "HDR2", "DATA"} /\ s.q.last \in 0 .. TotalQrows
  BY <1>2, <1>3, Sizes
<1> HIDE DEF start, off, state
<1>8. /\ in \in InputType /\ in.room = room /\ in.buf = s.q.last
      /\ in.off = off /\ in.state = state /\ in.nb = s.input.nb
  BY <1>1, <1>5, <1>7 DEF InputType
<1>9. InputRight(in)
  <2>1. off + s.input.nb <= MaxRec
    BY <1>1, <1>3, Sizes DEF InputRight, off
  <2>2. s.q.last + room <= TotalQrows
    BY <1>2, <1>4, <1>5, Sizes
  <2> QED
    BY <1>4, <1>8, <2>1, <2>2 DEF InputRight
<1> HIDE DEF in, t
<1>13. in.state # "HDR" => s.input.state # "HDR"
  BY <1>8 DEF state, start
<1>10. /\ t \in StateType /\ QueueStep(s, t) /\ t.q = s.q /\ t.nrefs = s.nrefs
       /\ t.committed = s.committed /\ t.input = in /\ t.failed = s.failed
  BY <1>1, <1>6, <1>8, <1>13 DEF StateType, QueueStep
<1>11. Sound(t)
  BY <1>9, <1>10, QueueSound DEF Sound
<1>12. IF start THEN t.input.state = "DATA" /\ t.input.off = 0
       ELSE t.input.state = s.input.state /\ t.input.off = s.input.off
  BY <1>8, <1>10 DEF off, state
<1> QED
  BY <1>4, <1>8, <1>10, <1>11, <1>12 DEF t, free, room, start

LEMMA DataStateSound ==
  ASSUME NEW s, Sound(s)
  PROVE  LET t == DataState(s)
         IN Sound(t) /\ QueueStep(s, t) /\ t.input.nb = s.input.nb
<1> DEFINE s1 == IF s.input.state = "DATA" THEN CommitBlock(s) ELSE s
           s2 == TmqRetireCheck(s1)
<1>1. Sound(s1) /\ QueueStep(s, s1) /\ s1.input.nb = s.input.nb
  <2>1. CASE s.input.state # "DATA"
    BY <2>1 DEF QueueStep
  <2>2. CASE s.input.state = "DATA" /\ CommitAsserts(s.q, s.input.off)
    BY <2>2, CommitBlockSound DEF SameRecord
  <2>3. CASE s.input.state = "DATA" /\ ~CommitAsserts(s.q, s.input.off)
    <3>1. s1 = Fail(s, "commit_rows") /\ "commit_rows" \in Fates
      BY <2>3 DEF CommitBlock, Fates
    <3> QED
      BY <3>1, Failing
  <2> QED
    BY <2>1, <2>2, <2>3
<1> HIDE DEF s1
<1>2. Sound(s2) /\ QueueStep(s1, s2) /\ s2.input = s1.input
  BY <1>1, TmqRetireCheckSound
<1>3. DataState(s) = IF s2.failed # "none" THEN s2 ELSE AssignRoom(s2)
  BY DEF DataState, s1
<1> HIDE DEF s2
<1>4. CASE s2.failed # "none"
  BY <1>1, <1>2, <1>3, <1>4 DEF QueueStep
<1>5. CASE s2.failed = "none"
  <2> DEFINE t == AssignRoom(s2)
  <2>1. Sound(t) /\ QueueStep(s2, t) /\ t.input.nb = s2.input.nb
    BY <1>2, AssignRoomSound
  <2>2. DataState(s) = t
    BY <1>3, <1>5
  <2> HIDE DEF t
  <2> QED
    BY <1>1, <1>2, <2>1, <2>2 DEF QueueStep
<1> QED
  BY <1>4, <1>5

-----------------------------------------------------------------------------
(* The reader side: who holds what.                                        *)

(* One reader changes what it holds. *)
Moved(h, h2, r) ==
  /\ h2[r].tmqr # h[r].tmqr
  /\ \A p \in Readers : p # r => h2[p].tmqr = h[p].tmqr

(* The reference counts that go with it. *)
CountMoved(n, id, h, h2, r) == IF id = h[r].tmqr THEN n - 1
                               ELSE IF id = h2[r].tmqr THEN n + 1 ELSE n

LEMMA HoldersMove ==
  ASSUME NEW h, NEW h2, NEW r \in Readers, Moved(h, h2, r)
  PROVE  /\ Cardinality(Holders(h, h[r].tmqr)) > 0
         /\ \A id : Cardinality(Holders(h2, id)) =
                      CountMoved(Cardinality(Holders(h, id)), id, h, h2, r)
         /\ \A id : Cardinality(Holders(h2, id)) \in Nat
<1> USE DEF Moved, CountMoved
<1> DEFINE a == h[r].tmqr
           b == h2[r].tmqr
<1>1. \A id : IsFiniteSet(Holders(h, id)) /\ IsFiniteSet(Holders(h2, id))
  BY Sizes, FS_Subset DEF Holders
<1>2. \A id : Cardinality(Holders(h, id)) \in Nat /\ Cardinality(Holders(h2, id)) \in Nat
  BY <1>1, FS_CardinalityType
<1>3. /\ r \in Holders(h, a) /\ Holders(h2, a) = Holders(h, a) \ {r}
      /\ r \notin Holders(h, b) /\ Holders(h2, b) = Holders(h, b) \cup {r}
      /\ \A id : id # a /\ id # b => Holders(h2, id) = Holders(h, id)
  BY DEF Holders
<1>4. Cardinality(Holders(h2, a)) = Cardinality(Holders(h, a)) - 1
  <2>1. IsFiniteSet(Holders(h, a)) /\ r \in Holders(h, a)
    BY <1>1, <1>3
  <2>2. Cardinality(Holders(h, a) \ {r}) = Cardinality(Holders(h, a)) - 1
    BY <2>1, FS_RemoveElement, Zenon
  <2> QED
    BY <2>2, <1>3
<1>5. Cardinality(Holders(h2, b)) = Cardinality(Holders(h, b)) + 1
  BY <1>1, <1>3, FS_AddElement
<1>6. Cardinality(Holders(h, a)) > 0
  BY <1>2, <1>4
<1>7. \A id : id # a /\ id # b => Cardinality(Holders(h2, id)) = Cardinality(Holders(h, id))
  BY <1>3
<1> QED
  BY <1>2, <1>4, <1>5, <1>6, <1>7

LEMMA Recount ==
  ASSUME NEW ch, NEW ch2, NEW n, NEW h, NEW h2, NEW r \in Readers,
         Named(ch, n), Counts(ch, h), Moved(h, h2, r),
         h2[r].tmqr # 0 => \E i \in 1 .. Len(ch) : ch[i].id = h2[r].tmqr,
         Len(ch2) = Len(ch),
         \A i \in 1 .. Len(ch) :
           /\ ch2[i].id = ch[i].id
           /\ ch2[i].ref_count = CountMoved(ch[i].ref_count, ch[i].id, h, h2, r)
  PROVE  Named(ch2, n) /\ Counts(ch2, h2)
<1>1. Named(ch2, n)
  BY DEF Named
<1>2. ASSUME NEW p \in Readers, h2[p].tmqr # 0
      PROVE  \E i \in 1 .. Len(ch2) : ch2[i].id = h2[p].tmqr
  <2>1. \E i \in 1 .. Len(ch) : ch[i].id = h2[p].tmqr
    BY <1>2 DEF Counts, Moved
  <2> QED
    BY <2>1
<1>3. ASSUME NEW i \in 1 .. Len(ch2)
      PROVE  ch2[i].ref_count = Cardinality(Holders(h2, ch2[i].id))
  <2>1. ch[i].ref_count = Cardinality(Holders(h, ch[i].id))
    BY DEF Counts
  <2>2. Cardinality(Holders(h2, ch[i].id)) =
          CountMoved(Cardinality(Holders(h, ch[i].id)), ch[i].id, h, h2, r)
    BY HoldersMove
  <2> QED
    BY <2>1, <2>2
<1> QED
  BY <1>1, <1>2, <1>3 DEF Counts

(* The tmq_ref a reader holds is where At finds it. *)
LEMMA AtIsThere ==
  ASSUME NEW tmq, NEW n, Named(tmq.chain, n), NEW id,
         \E i \in 1 .. Len(tmq.chain) : tmq.chain[i].id = id
  PROVE  At(tmq, id) \in 1 .. Len(tmq.chain) /\ tmq.chain[At(tmq, id)].id = id
BY DEF At

(* A tmq_ref that only counts its readers anew. *)
SameRows(ref, ref2) ==
  /\ ref2.id = ref.id /\ ref2.tsp = ref.tsp /\ ref2.Qrow = ref.Qrow
  /\ ref2.n_Qrows = ref.n_Qrows /\ ref2.Qrows_retired = ref.Qrows_retired

SameQueueRows(tmq, tmq2) ==
  /\ tmq2.first = tmq.first /\ tmq2.last = tmq.last /\ tmq2.full = tmq.full
  /\ Len(tmq2.chain) = Len(tmq.chain)
  /\ \A i \in 1 .. Len(tmq.chain) : SameRows(tmq.chain[i], tmq2.chain[i])

(* What read_reply and what it calls leave alone, for a reader r. *)
ReaderStep(s, t, r) ==
  /\ t.mem = s.mem /\ t.nrefs = s.nrefs /\ t.nstamps = s.nstamps /\ t.input = s.input
  /\ t.blocked = s.blocked /\ t.order = s.order /\ t.committed = s.committed
  /\ SameQueueRows(s.q, t.q)
  /\ \A p \in Readers : p # r => t.reader[p] = s.reader[p] /\ t.log[p] = s.log[p]

(* Another run_read_queue may begin. *)
Topped(s) == s.calls # <<>> => Place(s) <= Len(s.order)

(* None, or one, has begun. *)
Called(s, t) == t.calls = s.calls \/ t.calls = Append(s.calls, 1)

LEMMA OneMoreCall ==
  ASSUME NEW s, Sound(s), Topped(s)
  PROVE  /\ Append(s.calls, 1) \in Seq(Nat \ {0})
         /\ \A t : t.calls = Append(s.calls, 1) /\ t.order = s.order => CallsRight(t)
<1>1. s.calls \in Seq(Nat \ {0}) /\ s.order \in Seq(Readers)
  BY Fields DEF Sound
<1>2. Append(s.calls, 1) \in Seq(Nat \ {0})
  BY <1>1
<1>3. ASSUME NEW t, t.calls = Append(s.calls, 1), t.order = s.order
      PROVE  CallsRight(t)
  <2>1. Len(t.calls) = Len(s.calls) + 1 /\ t.calls[Len(s.calls) + 1] = 1
    BY <1>1, <1>3
  <2>2. \A i \in 1 .. Len(s.calls) : t.calls[i] = s.calls[i]
    BY <1>1, <1>3
  <2>3. \A i \in 1 .. Len(s.calls) : s.calls[i] <= Len(s.order)
    BY <1>1 DEF Topped, Place, Sound, CallsRight
  <2>4. Len(s.order) \in Nat /\ Len(s.calls) \in Nat
    BY <1>1
  <2> QED
    BY <1>1, <1>3, <2>1, <2>2, <2>3, <2>4 DEF CallsRight
<1> QED
  BY <1>2, <1>3

(* What keeps the invariant on the reader side. *)
LEMMA ReaderSound ==
  ASSUME NEW s, Sound(s), NEW t \in StateType, NEW r \in ToSet(s.order),
         ReaderStep(s, t, r), Called(s, t), Topped(s),
         Named(t.q.chain, s.nrefs), Counts(t.q.chain, t.reader)
  PROVE  Sound(t)
<1>1. CallsRight(t)
  <2>1. CASE t.calls = s.calls
    BY <2>1 DEF Sound, CallsRight, ReaderStep
  <2>2. CASE t.calls = Append(s.calls, 1)
    BY <2>2, OneMoreCall DEF ReaderStep
  <2> QED
    BY <2>1, <2>2 DEF Called
<1>2. OrderRight(t)
  <2>1. \A p \in Readers \ ToSet(s.order) : p # r
    OBVIOUS
  <2> QED
    BY <2>1 DEF Sound, OrderRight, ReaderStep
<1>3. s.q.chain # <<>> => t.q.chain # <<>>
  <2>1. s.q.chain \in Seq(TmqRefType) /\ t.q.chain \in Seq(TmqRefType)
    BY Fields, QueueFields DEF Sound
  <2>2. Len(t.q.chain) = Len(s.q.chain)
    BY DEF ReaderStep, SameQueueRows
  <2> QED
    BY <2>1, <2>2
<1>4. InputRight(t.input) /\ (t.input.state # "HDR" => t.q.chain # <<>>)
  BY <1>3 DEF Sound, ReaderStep
<1>5. Named(t.q.chain, t.nrefs)
  BY DEF ReaderStep
<1> QED
  BY <1>1, <1>2, <1>4, <1>5 DEF Sound

-----------------------------------------------------------------------------
(* The reader side: what is written.                                       *)

LEMMA SameHolds ==
  ASSUME NEW ch, NEW h, NEW h2, Counts(ch, h),
         \A p \in Readers : h2[p].tmqr = h[p].tmqr
  PROVE  Counts(ch, h2)
<1>1. \A id : Holders(h2, id) = Holders(h, id)
  BY DEF Holders
<1> QED
  BY <1>1 DEF Counts

LEMMA SameQueueItself ==
  ASSUME NEW tmq
  PROVE  SameQueueRows(tmq, tmq)
BY DEF SameQueueRows, SameRows

(* A message of r goes on: what it holds and how far it got are as before; when
   the message is out r is ready, and another run_read_queue may have begun. *)
Going(s, t, r) ==
  /\ Sound(t) /\ ReaderStep(s, t, r)
  /\ t.q = s.q /\ t.log = s.log /\ t.failed = s.failed
  /\ t.reader[r].tmqr = s.reader[r].tmqr /\ t.reader[r].n_Qrows = s.reader[r].n_Qrows
  /\ t.reader[r].iov = <<>> => t.reader[r].ready
  /\ \/ t.calls = s.calls
     \/ t.calls = Append(s.calls, 1) /\ t.reader[r].ready

LEMMA WriteVSound ==
  ASSUME NEW s, Sound(s), Topped(s), NEW r \in ToSet(s.order),
         NEW items \in Seq(OutType), items # <<>>
  PROVE  Going(s, WriteV(s, r, items), r)
<1> DEFINE k == Min({Len(items), SockCap - s.sock[r]})
           rest == SubSeq(items, k + 1, Len(items))
           n == s.sock[r] + k
           rd == [s.reader[r] EXCEPT !.iov = rest]
           u == [s EXCEPT !.reader[r].iov = rest, !.sock[r] = @ + k]
<1>1. /\ s \in StateType /\ s.order \in Seq(Readers) /\ s.reader \in [Readers -> ReaderType]
      /\ s.sock \in [Readers -> 0 .. SockCap] /\ s.blocked \in BOOLEAN
      /\ s.calls \in Seq(Nat \ {0})
  BY Fields DEF Sound
<1>2. r \in Readers /\ s.sock[r] \in 0 .. SockCap /\ s.reader[r] \in ReaderType
  BY <1>1 DEF ToSet
<1>3. k \in {Len(items), SockCap - s.sock[r]} /\ k <= Len(items) /\ k <= SockCap - s.sock[r]
  <2> DEFINE a == Len(items)
             b == SockCap - s.sock[r]
  <2>1. a \in Int /\ b \in Int
    BY <1>2, Sizes
  <2> HIDE DEF a, b
  <2>2. Min({a, b}) \in {a, b} /\ Min({a, b}) <= a /\ Min({a, b}) <= b
    BY <2>1, MinOfTwo
  <2> QED
    BY <2>2 DEF a, b
<1> HIDE DEF k
<1>4. k \in 0 .. Len(items) /\ n \in 0 .. SockCap
  BY <1>2, <1>3, Sizes
<1>5. rest \in Seq(OutType) /\ (rest = <<>> => k > 0)
  <2>1. k \in Nat /\ k <= Len(items) /\ Len(items) \in Nat /\ Len(items) > 0
    BY <1>4
  <2>2. rest \in Seq(OutType)
    BY <2>1
  <2>3. Len(rest) = Len(items) - k
    BY <2>1
  <2> QED
    BY <2>1, <2>2, <2>3
<1>6. WriteV(s, r, items) = Written(u, r, k)
  BY DEF WriteV, k
<1> HIDE DEF rest, n
<1>7. rd \in ReaderType /\ rd.iov = rest /\ rd.tmqr = s.reader[r].tmqr
      /\ rd.n_Qrows = s.reader[r].n_Qrows /\ rd.ready = s.reader[r].ready
  BY <1>2, <1>5 DEF ReaderType
<1> HIDE DEF rd
<1>8. u = [s EXCEPT !.reader = [s.reader EXCEPT ![r] = rd], !.sock = [s.sock EXCEPT ![r] = n]]
  BY <1>1, <1>2 DEF rd, n
<1> HIDE DEF u
<1>9. /\ u \in StateType /\ u.q = s.q /\ u.log = s.log /\ u.failed = s.failed
      /\ u.calls = s.calls /\ u.blocked = s.blocked /\ u.order = s.order
      /\ u.reader = [s.reader EXCEPT ![r] = rd]
      /\ u.mem = s.mem /\ u.nrefs = s.nrefs /\ u.nstamps = s.nstamps /\ u.input = s.input
      /\ u.committed = s.committed
  BY <1>1, <1>2, <1>4, <1>7, <1>8 DEF StateType
<1>10. u.reader[r] = rd /\ \A p \in Readers : p # r => u.reader[p] = s.reader[p]
  BY <1>1, <1>2, <1>9
<1>11. ReaderStep(s, u, r)
  BY <1>9, <1>10, SameQueueItself DEF ReaderStep
<1>12. Sound(u)
  <2>1. Counts(u.q.chain, u.reader)
    <3>1. \A p \in Readers : u.reader[p].tmqr = s.reader[p].tmqr
      BY <1>7, <1>10
    <3>2. Counts(s.q.chain, s.reader)
      BY DEF Sound
    <3>3. Counts(s.q.chain, u.reader)
      BY <3>1, <3>2, SameHolds
    <3> QED
      BY <3>3, <1>9
  <2> QED
    BY <2>1, <1>9, <1>11, ReaderSound DEF Called, Sound
<1>13. CASE k = 0 \/ rest # <<>>
  <2>1. Written(u, r, k) = u
    BY <1>7, <1>10, <1>13 DEF Written
  <2>2. rest # <<>>
    BY <1>5, <1>13
  <2> QED
    BY <2>1, <2>2, <1>6, <1>7, <1>9, <1>10, <1>11, <1>12 DEF Going
<1>14. CASE ~(k = 0 \/ rest # <<>>)
  <2> DEFINE rd2 == [rd EXCEPT !.ready = TRUE]
             v == [u EXCEPT !.reader[r].ready = TRUE]
             w == [v EXCEPT !.calls = Append(@, 1)]
  <2>1. /\ rd2 \in ReaderType /\ rd2.ready /\ rd2.tmqr = s.reader[r].tmqr
        /\ rd2.n_Qrows = s.reader[r].n_Qrows
    BY <1>7 DEF ReaderType
  <2> HIDE DEF rd2
  <2>2. v = [u EXCEPT !.reader = [u.reader EXCEPT ![r] = rd2]]
    BY <1>9, <1>10, <1>1, <1>2 DEF rd2
  <2>3. Written(u, r, k) = IF u.blocked THEN RunReadQueue(v) ELSE v
    BY <1>7, <1>10, <1>14 DEF Written
  <2>4. u.reader \in [Readers -> ReaderType]
    BY <1>9, Fields
  <2> HIDE DEF v
  <2>5. /\ v \in StateType /\ v.q = s.q /\ v.log = s.log /\ v.failed = s.failed
        /\ v.calls = s.calls /\ v.blocked = s.blocked /\ v.order = s.order
        /\ v.reader = [u.reader EXCEPT ![r] = rd2]
        /\ v.mem = s.mem /\ v.nrefs = s.nrefs /\ v.nstamps = s.nstamps /\ v.input = s.input
        /\ v.committed = s.committed
    BY <1>2, <1>9, <2>1, <2>2, <2>4 DEF StateType
  <2>6. v.reader[r] = rd2 /\ \A p \in Readers : p # r => v.reader[p] = s.reader[p]
    BY <1>2, <1>10, <2>4, <2>5
  <2>7. Counts(v.q.chain, v.reader)
    <3>1. \A p \in Readers : v.reader[p].tmqr = s.reader[p].tmqr
      BY <2>1, <2>6
    <3>2. Counts(s.q.chain, s.reader)
      BY DEF Sound
    <3>3. Counts(s.q.chain, v.reader)
      BY <3>1, <3>2, SameHolds
    <3> QED
      BY <3>3, <2>5
  <2>8. ReaderStep(s, v, r) /\ Sound(v)
    <3>1. ReaderStep(s, v, r)
      BY <2>5, <2>6, SameQueueItself DEF ReaderStep
    <3> QED
      BY <3>1, <2>5, <2>7, ReaderSound DEF Called, Sound
  <2>9. CASE ~s.blocked
    BY <2>1, <2>3, <2>5, <2>6, <2>8, <2>9, <1>6, <1>9 DEF Going
  <2>10. CASE s.blocked
    <3>1. Append(s.calls, 1) \in Seq(Nat \ {0})
      BY OneMoreCall
    <3>2. w = RunReadQueue(v) /\ w = [v EXCEPT !.calls = Append(s.calls, 1)]
      BY <2>5 DEF RunReadQueue
    <3> HIDE DEF w
    <3>3. /\ w \in StateType /\ w.q = s.q /\ w.log = s.log /\ w.failed = s.failed
          /\ w.calls = Append(s.calls, 1) /\ w.blocked = s.blocked /\ w.order = s.order
          /\ w.reader = v.reader
          /\ w.mem = s.mem /\ w.nrefs = s.nrefs /\ w.nstamps = s.nstamps /\ w.input = s.input
          /\ w.committed = s.committed
      BY <2>5, <3>1, <3>2 DEF StateType
    <3>4. ReaderStep(s, w, r)
      BY <3>3, <2>6, SameQueueItself DEF ReaderStep
    <3>5. Sound(w)
      BY <3>3, <3>4, <2>5, <2>7, ReaderSound DEF Called, Sound
    <3>6. WriteV(s, r, items) = w
      BY <2>3, <2>10, <3>2, <1>6, <1>9
    <3>7. w.reader[r] = rd2
      BY <2>6, <3>3
    <3> QED
      BY <2>1, <3>3, <3>4, <3>5, <3>6, <3>7 DEF Going
  <2> QED
    BY <2>9, <2>10
<1> QED
  BY <1>13, <1>14

LEMMA ContentsType ==
  ASSUME NEW items \in Seq(OutType)
  PROVE  /\ Contents(items) \in Seq(SentType) /\ Len(Contents(items)) = Len(items)
         /\ \A k \in 1 .. Len(items) :
              Contents(items)[k] = [id |-> items[k].id, tsp |-> items[k].tsp]
<1>1. ASSUME NEW k \in 1 .. Len(items)
      PROVE  [id |-> items[k].id, tsp |-> items[k].tsp] \in SentType
  <2>1. items[k] \in OutType
    OBVIOUS
  <2> QED
    BY <2>1 DEF OutType, SentType
<1> QED
  BY <1>1 DEF Contents

(* A message to r begins: its log has the contents. *)
Begun(s, t, r, items) ==
  /\ Sound(t) /\ ReaderStep(s, t, r)
  /\ t.q = s.q /\ t.log[r] = s.log[r] \o Contents(items) /\ t.failed = s.failed
  /\ t.reader[r].tmqr = s.reader[r].tmqr /\ t.reader[r].n_Qrows = s.reader[r].n_Qrows
  /\ t.reader[r].iov = <<>> => t.reader[r].ready
  /\ \/ t.calls = s.calls
     \/ t.calls = Append(s.calls, 1) /\ t.reader[r].ready

LEMMA ReplySound ==
  ASSUME NEW s, Sound(s), Topped(s), NEW r \in ToSet(s.order),
         NEW items \in Seq(OutType), items # <<>>, s.reader[r].iov = <<>>
  PROVE  Begun(s, Reply(s, r, items), r, items)
<1> DEFINE u == [s EXCEPT !.log[r] = @ \o Contents(items)]
           lg == s.log[r] \o Contents(items)
           t == Reply(s, r, items)
<1>1. /\ s \in StateType /\ s.order \in Seq(Readers) /\ s.log \in [Readers -> Seq(SentType)]
  BY Fields DEF Sound
<1>2. r \in Readers /\ s.log[r] \in Seq(SentType)
  BY <1>1 DEF ToSet
<1>3. lg \in Seq(SentType)
  BY <1>2, ContentsType
<1>4. u = [s EXCEPT !.log = [s.log EXCEPT ![r] = lg]]
  BY <1>1, <1>2
<1>5. t = WriteV(u, r, items)
  BY DEF Reply
<1> HIDE DEF lg, u
<1>6. /\ u \in StateType /\ u.log = [s.log EXCEPT ![r] = lg]
      /\ u.q = s.q /\ u.mem = s.mem /\ u.nrefs = s.nrefs /\ u.nstamps = s.nstamps
      /\ u.input = s.input /\ u.blocked = s.blocked /\ u.order = s.order
      /\ u.calls = s.calls /\ u.reader = s.reader /\ u.sock = s.sock
      /\ u.committed = s.committed /\ u.failed = s.failed
  BY <1>1, <1>2, <1>3, <1>4 DEF StateType
<1>7. u.log[r] = lg /\ \A p \in Readers : p # r => u.log[p] = s.log[p]
  BY <1>1, <1>2, <1>6
<1>8. ReaderStep(s, u, r)
  BY <1>6, <1>7, SameQueueItself DEF ReaderStep
<1>9. Sound(u)
  BY <1>6, <1>8, ReaderSound DEF Called, Sound
<1>10. Topped(u) /\ r \in ToSet(u.order)
  BY <1>6 DEF Topped, Place
<1>11. Going(u, t, r)
  BY <1>5, <1>9, <1>10, WriteVSound
<1> HIDE DEF t
<1>12. Sound(t) /\ ReaderStep(s, t, r)
  BY <1>8, <1>11, <1>6 DEF Going, ReaderStep
<1>13. t.log[r] = s.log[r] \o Contents(items)
  BY <1>7, <1>11 DEF Going, lg
<1> QED
  BY <1>6, <1>11, <1>12, <1>13 DEF Going, Begun, t

-----------------------------------------------------------------------------
(* The reader side: where a reader is in the chain.                        *)

(* Nothing but r's place in the chain has changed. *)
Placed(s, t, r, rd) ==
  /\ Sound(t) /\ ReaderStep(s, t, r)
  /\ t.log = s.log /\ t.failed = s.failed /\ t.calls = s.calls
  /\ t.reader[r] = rd

(* r holds what it held. *)
LEMMA KeepSound ==
  ASSUME NEW s, Sound(s), Topped(s), NEW r \in ToSet(s.order), NEW rd \in ReaderType,
         rd.tmqr = s.reader[r].tmqr
  PROVE  Placed(s, [s EXCEPT !.reader[r] = rd], r, rd)
<1> DEFINE t == [s EXCEPT !.reader[r] = rd]
<1>1. s \in StateType /\ s.order \in Seq(Readers) /\ s.reader \in [Readers -> ReaderType]
  BY Fields DEF Sound
<1>2. r \in Readers
  BY <1>1 DEF ToSet
<1>3. /\ t \in StateType /\ t.q = s.q /\ t.log = s.log /\ t.failed = s.failed
      /\ t.calls = s.calls /\ t.blocked = s.blocked /\ t.order = s.order
      /\ t.reader = [s.reader EXCEPT ![r] = rd]
      /\ t.mem = s.mem /\ t.nrefs = s.nrefs /\ t.nstamps = s.nstamps /\ t.input = s.input
      /\ t.committed = s.committed
  BY <1>1, <1>2 DEF StateType
<1> HIDE DEF t
<1>4. t.reader[r] = rd /\ \A p \in Readers : p # r => t.reader[p] = s.reader[p]
  BY <1>1, <1>2, <1>3
<1>5. ReaderStep(s, t, r)
  BY <1>3, <1>4, SameQueueItself DEF ReaderStep
<1>6. Counts(t.q.chain, t.reader)
  <2>1. \A p \in Readers : t.reader[p].tmqr = s.reader[p].tmqr
    BY <1>4
  <2>2. Counts(s.q.chain, s.reader)
    BY DEF Sound
  <2>3. Counts(s.q.chain, t.reader)
    BY <2>1, <2>2, SameHolds
  <2> QED
    BY <2>3, <1>3
<1>7. Sound(t)
  BY <1>3, <1>5, <1>6, ReaderSound DEF Called, Sound
<1> QED
  BY <1>3, <1>4, <1>5, <1>7 DEF Placed, t

(* r holds another tmq_ref, or one for the first time. *)
LEMMA HoldSound ==
  ASSUME NEW s, Sound(s), Topped(s), NEW r \in ToSet(s.order), NEW rd \in ReaderType,
         rd.tmqr # s.reader[r].tmqr, NEW ch \in Seq(TmqRefType),
         Len(ch) = Len(s.q.chain),
         \E i \in 1 .. Len(ch) : s.q.chain[i].id = rd.tmqr,
         \A i \in 1 .. Len(ch) :
           /\ SameRows(s.q.chain[i], ch[i])
           /\ ch[i].ref_count = CountMoved(s.q.chain[i].ref_count, s.q.chain[i].id,
                                           s.reader, [s.reader EXCEPT ![r] = rd], r)
  PROVE  LET t == [s EXCEPT !.q.chain = ch, !.reader[r] = rd]
         IN Placed(s, t, r, rd) /\ t.q.chain = ch
<1> DEFINE t == [s EXCEPT !.q.chain = ch, !.reader[r] = rd]
           q2 == [s.q EXCEPT !.chain = ch]
           h2 == [s.reader EXCEPT ![r] = rd]
<1>1. /\ s \in StateType /\ s.order \in Seq(Readers) /\ s.reader \in [Readers -> ReaderType]
      /\ s.q \in QueueType
  BY Fields DEF Sound
<1>2. r \in Readers
  BY <1>1 DEF ToSet
<1>3. /\ q2 \in QueueType /\ q2.chain = ch /\ q2.first = s.q.first
      /\ q2.last = s.q.last /\ q2.full = s.q.full
  BY <1>1 DEF QueueType
<1>4. h2 \in [Readers -> ReaderType] /\ h2[r] = rd /\ \A p \in Readers : p # r => h2[p] = s.reader[p]
  BY <1>1, <1>2
<1>5. SameQueueRows(s.q, q2)
  BY <1>3 DEF SameQueueRows
<1>6. Named(ch, s.nrefs) /\ Counts(ch, h2)
  <2> DEFINE old == s.q.chain
             h == s.reader
  <2>1. Named(old, s.nrefs) /\ Counts(old, h)
    BY DEF Sound
  <2>2. Moved(h, h2, r)
    BY <1>4 DEF Moved
  <2>3. h2[r].tmqr # 0 => \E i \in 1 .. Len(old) : old[i].id = h2[r].tmqr
    BY <1>4
  <2>4. /\ Len(ch) = Len(old)
        /\ \A i \in 1 .. Len(old) :
             /\ ch[i].id = old[i].id
             /\ ch[i].ref_count = CountMoved(old[i].ref_count, old[i].id, h, h2, r)
    BY DEF SameRows
  <2> HIDE DEF h2, old, h
  <2> QED
    BY <2>1, <2>2, <2>3, <2>4, <1>2, Recount
<1>7. t = [s EXCEPT !.q = q2, !.reader = h2]
  BY <1>1
<1> HIDE DEF t, q2, h2
<1>8. /\ t \in StateType /\ t.q = q2 /\ t.log = s.log /\ t.failed = s.failed
      /\ t.calls = s.calls /\ t.blocked = s.blocked /\ t.order = s.order
      /\ t.reader = h2
      /\ t.mem = s.mem /\ t.nrefs = s.nrefs /\ t.nstamps = s.nstamps /\ t.input = s.input
      /\ t.committed = s.committed
  BY <1>1, <1>3, <1>4, <1>7 DEF StateType
<1>9. ReaderStep(s, t, r)
  BY <1>4, <1>5, <1>8 DEF ReaderStep
<1>10. Named(t.q.chain, s.nrefs) /\ Counts(t.q.chain, t.reader)
  BY <1>3, <1>6, <1>8
<1>11. Sound(t)
  BY <1>8, <1>9, <1>10, ReaderSound DEF Called
<1> QED
  BY <1>3, <1>4, <1>8, <1>9, <1>11 DEF Placed, t

(* dereference(true) from the tmq_ref in place i to one after it. *)
LEMMA MoveToSound ==
  ASSUME NEW s, Sound(s), Topped(s), NEW r \in ToSet(s.order),
         NEW i \in 1 .. Len(s.q.chain), NEW j \in i .. Len(s.q.chain),
         s.reader[r].tmqr = s.q.chain[i].id
  PROVE  Placed(s, MoveTo(s, r, i, j), r,
                IF i = j THEN s.reader[r]
                ELSE [s.reader[r] EXCEPT !.tmqr = s.q.chain[j].id, !.n_Qrows = 0])
<1> DEFINE ch == s.q.chain
           rd == [s.reader[r] EXCEPT !.tmqr = ch[j].id, !.n_Qrows = 0]
           t == MoveTo(s, r, i, j)
<1>1. /\ s \in StateType /\ s.order \in Seq(Readers) /\ s.reader \in [Readers -> ReaderType]
      /\ s.q \in QueueType /\ Named(ch, s.nrefs) /\ Counts(ch, s.reader)
  BY Fields DEF Sound
<1>2. r \in Readers /\ s.reader[r] \in ReaderType
  BY <1>1 DEF ToSet
<1>3. CASE i = j
  <2>1. t = s
    BY <1>3, ZenonT(30) DEF MoveTo
  <2>2. ReaderStep(s, s, r)
    BY SameQueueItself DEF ReaderStep
  <2> QED
    BY <2>1, <2>2, <1>3 DEF Placed
<1>4. CASE i # j
  <2>1. /\ ch \in Seq(TmqRefType) /\ Len(ch) \in Nat /\ j \in 1 .. Len(ch)
        /\ ch[i] \in TmqRefType /\ ch[j] \in TmqRefType
    BY <1>1, QueueFields
  <2>2. /\ ch[i].ref_count \in Nat /\ ch[j].ref_count \in Nat
        /\ ch[j].id \in Nat
    BY <2>1, RefFields
  <2>3. ch[i].id # ch[j].id
    BY <1>1, <1>4, <2>1 DEF Named
  <2>4. rd \in ReaderType /\ rd.tmqr = ch[j].id
    BY <1>2, <2>2 DEF ReaderType
  <2>5. ch[i].ref_count > 0
    <3> DEFINE h2 == [s.reader EXCEPT ![r] = rd]
    <3>1. h2[r] = rd /\ \A p \in Readers : p # r => h2[p] = s.reader[p]
      BY <1>1, <1>2
    <3> HIDE DEF h2
    <3>2. Moved(s.reader, h2, r)
      BY <3>1, <2>3, <2>4 DEF Moved
    <3>3. Cardinality(Holders(s.reader, s.reader[r].tmqr)) > 0
      BY <3>2, <1>2, HoldersMove
    <3> QED
      BY <3>3, <1>1 DEF Counts
  <2> DEFINE less == ch[i].ref_count - 1
             more == ch[j].ref_count + 1
             refi == [ch[i] EXCEPT !.ref_count = less]
             refj == [ch[j] EXCEPT !.ref_count = more]
             ch2 == [ch EXCEPT ![i] = refi, ![j] = refj]
  <2>6. less \in Nat /\ more \in Nat
    BY <2>2, <2>5
  <2> HIDE DEF rd
  <2>7. t = [s EXCEPT !.q.chain = ch2, !.reader[r] = rd]
    <3> DEFINE ch1 == [ch EXCEPT ![i] = refi]
               rd1 == [s.reader[r] EXCEPT !.tmqr = ch[j].id]
               a == [s EXCEPT !.q.chain[i].ref_count = @ - 1]
               b == [a EXCEPT !.q.chain[j].ref_count = @ + 1]
               c == [b EXCEPT !.reader[r].tmqr = s.q.chain[j].id]
               e == [c EXCEPT !.reader[r].n_Qrows = 0]
    <3>1. t = e
      BY <1>4, ZenonT(30) DEF MoveTo
    <3>2. a = [s EXCEPT !.q = [s.q EXCEPT !.chain = ch1]]
      BY <1>1, <2>1
    <3> HIDE DEF a
    <3>3. a.q.chain = ch1 /\ ch1[j] = ch[j] /\ a.q = [s.q EXCEPT !.chain = ch1]
          /\ a.reader = s.reader
      <4>1. ch1[j] = ch[j]
        BY <2>1, <1>4
      <4> HIDE DEF ch1
      <4>2. a.q = [s.q EXCEPT !.chain = ch1] /\ a.reader = s.reader
        BY <3>2, <1>1 DEF StateType
      <4>3. a.q.chain = ch1
        BY <4>2, <1>1 DEF QueueType
      <4> QED
        BY <4>1, <4>2, <4>3
    <3>4. b = [a EXCEPT !.q = [a.q EXCEPT !.chain = [a.q.chain EXCEPT
                                 ![j] = [a.q.chain[j] EXCEPT !.ref_count = @ + 1]]]]
      OBVIOUS
    <3>5. [a.q.chain EXCEPT ![j] = [a.q.chain[j] EXCEPT !.ref_count = @ + 1]] = ch2
      BY <3>3, <2>1
    <3> HIDE DEF b, ch1, ch2
    <3>6. b = [a EXCEPT !.q = [s.q EXCEPT !.chain = ch2]]
      BY <3>3, <3>4, <3>5, <1>1 DEF QueueType
    <3>7. b = [s EXCEPT !.q = [s.q EXCEPT !.chain = ch2]]
      BY <3>2, <3>6, <1>1 DEF StateType
    <3>8. b.reader = s.reader
      BY <3>7, <1>1 DEF StateType
    <3>9. c = [b EXCEPT !.reader = [s.reader EXCEPT ![r] = rd1]]
      BY <3>8
    <3> HIDE DEF c, rd1
    <3>10. c.reader = [s.reader EXCEPT ![r] = rd1]
      BY <3>7, <3>9, <1>1 DEF StateType
    <3>11. c.reader[r] = rd1
      BY <3>10, <1>1, <1>2
    <3>12. e = [c EXCEPT !.reader = [c.reader EXCEPT ![r] = [rd1 EXCEPT !.n_Qrows = 0]]]
      BY <3>11
    <3>13. [rd1 EXCEPT !.n_Qrows = 0] = rd
      BY DEF rd1, rd
    <3>14. [c.reader EXCEPT ![r] = rd] = [s.reader EXCEPT ![r] = rd]
      BY <3>10, <1>1, <1>2
    <3>15. e = [c EXCEPT !.reader = [s.reader EXCEPT ![r] = rd]]
      BY <3>12, <3>13, <3>14
    <3>16. e = [s EXCEPT !.q = [s.q EXCEPT !.chain = ch2], !.reader = [s.reader EXCEPT ![r] = rd]]
      BY <3>7, <3>9, <3>15, <1>1 DEF StateType
    <3> QED
      BY <3>1, <3>16, <1>1
  <2>8. /\ refi \in TmqRefType /\ SameRows(ch[i], refi) /\ refi.ref_count = less
        /\ refj \in TmqRefType /\ SameRows(ch[j], refj) /\ refj.ref_count = more
    <3> HIDE DEF less, more
    <3> QED
      BY <2>1, <2>6 DEF TmqRefType, SameRows
  <2> HIDE DEF refi, refj
  <2>9. /\ ch2 \in Seq(TmqRefType) /\ Len(ch2) = Len(ch)
        /\ ch2[i] = refi /\ ch2[j] = refj
        /\ \A k \in 1 .. Len(ch) : k # i /\ k # j => ch2[k] = ch[k]
    BY <2>1, <2>8, <1>4
  <2> HIDE DEF ch2
  <2>10. ASSUME NEW k \in 1 .. Len(ch2)
         PROVE  /\ SameRows(ch[k], ch2[k])
                /\ ch2[k].ref_count = CountMoved(ch[k].ref_count, ch[k].id, s.reader,
                                                 [s.reader EXCEPT ![r] = rd], r)
    <3> DEFINE h == s.reader
               h2 == [s.reader EXCEPT ![r] = rd]
    <3>1. h2[r].tmqr = ch[j].id /\ h[r].tmqr = ch[i].id
      BY <1>1, <1>2, <2>4
    <3> HIDE DEF h, h2, less, more, ch
    <3>2. CASE k = i
      <4>1. ch[k].id = h[r].tmqr
        BY <3>1, <3>2
      <4>2. CountMoved(ch[k].ref_count, ch[k].id, h, h2, r) = less
        BY <4>1, <3>2 DEF CountMoved, less
      <4>3. SameRows(ch[k], ch2[k]) /\ ch2[k].ref_count = less
        BY <3>2, <2>8, <2>9
      <4> QED
        BY <4>2, <4>3 DEF h, h2
    <3>3. CASE k = j
      <4>1. ch[k].id = h2[r].tmqr /\ ch[k].id # h[r].tmqr
        BY <3>1, <3>3, <2>3
      <4>2. CountMoved(ch[k].ref_count, ch[k].id, h, h2, r) = more
        BY <4>1, <3>3 DEF CountMoved, more
      <4>3. SameRows(ch[k], ch2[k]) /\ ch2[k].ref_count = more
        BY <3>3, <2>8, <2>9
      <4> QED
        BY <4>2, <4>3 DEF h, h2
    <3>4. CASE k # i /\ k # j
      <4>1. ch[k].id # ch[i].id /\ ch[k].id # ch[j].id
        BY <3>4, <2>1, <2>9, <1>1 DEF Named
      <4>2. SameRows(ch[k], ch[k]) /\ ch2[k] = ch[k]
        BY <2>9, <3>4 DEF SameRows
      <4>3. ch[k].id # h[r].tmqr /\ ch[k].id # h2[r].tmqr
        BY <3>1, <4>1
      <4>4. CountMoved(ch[k].ref_count, ch[k].id, h, h2, r) = ch[k].ref_count
        BY <4>3 DEF CountMoved
      <4> QED
        BY <4>2, <4>4 DEF h, h2
    <3> QED
      BY <3>2, <3>3, <3>4 DEF h2, h, ch
  <2>11. \E k \in 1 .. Len(ch2) : ch[k].id = rd.tmqr
    BY <2>1, <2>4, <2>9
  <2>12. rd.tmqr # s.reader[r].tmqr
    BY <2>3, <2>4
  <2>13. Placed(s, [s EXCEPT !.q.chain = ch2, !.reader[r] = rd], r, rd)
    <3> DEFINE n == Len(ch2)
    <3> QED
      BY <2>4, <2>9, <2>10, <2>11, <2>12, HoldSound
  <2> QED
    BY <2>7, <2>13, <1>4 DEF rd
<1> QED
  BY <1>3, <1>4

-----------------------------------------------------------------------------
(* The reader side: read_reply.                                            *)

LEMMA PlacedAgain ==
  ASSUME NEW s, NEW u, NEW t, NEW r, NEW rd, NEW rd2,
         Placed(s, u, r, rd), Placed(u, t, r, rd2)
  PROVE  Placed(s, t, r, rd2)
BY DEF Placed, ReaderStep, SameQueueRows, SameRows

(* What is read from the ring is a word. *)
LEMMA RowOutType ==
  ASSUME NEW s, Sound(s), NEW slot \in Int
  PROVE  RowOut(s, slot) \in OutType
<1>1. s.mem \in RingType
  BY Fields DEF Sound
<1>2. s.mem[slot].id \in Words /\ s.mem[slot].tsp \in Words
  <2>1. s.mem[slot].id \in {ring[at].id : ring \in RingType, at \in Int}
    BY <1>1
  <2>2. s.mem[slot].tsp \in {ring[at].tsp : ring \in RingType, at \in Int}
    BY <1>1
  <2> QED
    BY <2>1, <2>2 DEF Words
<1> QED
  BY <1>2 DEF RowOut, OutType

LEMMA TstampOutType ==
  ASSUME NEW tsp \in Nat
  PROVE  TstampOut(tsp) \in OutType
<1>1. tsp \in Words /\ 0 \in Words
  BY DEF Words
<1> QED
  BY <1>1 DEF TstampOut, OutType

(* A message to r: r is placed in the chain first, then the message begins. *)
Given(s, t, r, rd, items) ==
  \E u : Placed(s, u, r, rd) /\ Begun(u, t, r, items)

(* The message that starts a reader. *)
LEMMA StartReaderSound ==
  ASSUME NEW s, Sound(s), Topped(s), NEW r \in ToSet(s.order),
         s.reader[r].iov = <<>>, s.reader[r].tmqr = 0
  PROVE  IF s.q.chain = <<>>
         THEN Placed(s, StartReader(s, r), r, [s.reader[r] EXCEPT !.ready = TRUE])
         ELSE Given(s, StartReader(s, r), r,
                    [s.reader[r] EXCEPT !.tmqr = s.q.chain[1].id, !.n_Qrows = 0],
                    <<TstampOut(s.q.chain[1].tsp)>>)
<1>1. /\ s \in StateType /\ s.order \in Seq(Readers) /\ s.reader \in [Readers -> ReaderType]
      /\ s.q \in QueueType /\ Named(s.q.chain, s.nrefs)
  BY Fields DEF Sound
<1>2. r \in Readers /\ s.reader[r] \in ReaderType
  BY <1>1 DEF ToSet
<1>3. CASE s.q.chain = <<>>
  <2> DEFINE rd == [s.reader[r] EXCEPT !.ready = TRUE]
  <2>1. rd \in ReaderType /\ rd.tmqr = s.reader[r].tmqr
    BY <1>2 DEF ReaderType
  <2>2. StartReader(s, r) = [s EXCEPT !.reader[r] = rd]
    BY <1>1, <1>3 DEF StartReader, StateType
  <2> HIDE DEF rd
  <2>3. Placed(s, StartReader(s, r), r, rd)
    BY <2>1, <2>2, KeepSound
  <2> QED
    BY <2>3, <1>3 DEF rd
<1>4. CASE s.q.chain # <<>>
  <2> DEFINE ch == s.q.chain
             rd == [s.reader[r] EXCEPT !.tmqr = ch[1].id, !.n_Qrows = 0]
             more == ch[1].ref_count + 1
             ref == [ch[1] EXCEPT !.ref_count = more]
             ch2 == [ch EXCEPT ![1] = ref]
             u == [s EXCEPT !.q.chain = ch2, !.reader[r] = rd]
             items == <<TstampOut(ch[1].tsp)>>
  <2>1. /\ ch \in Seq(TmqRefType) /\ Len(ch) \in Nat /\ Len(ch) > 0 /\ ch[1] \in TmqRefType
        /\ ch[1].id \in Nat /\ ch[1].ref_count \in Nat /\ ch[1].tsp \in Nat
        /\ ch[1].id # 0
    BY <1>1, <1>4, QueueFields, RefFields DEF Named
  <2>2. rd \in ReaderType /\ rd.tmqr = ch[1].id /\ rd.iov = <<>>
    BY <1>2, <2>1 DEF ReaderType
  <2>3. more \in Nat
    BY <2>1
  <2> HIDE DEF more
  <2>4. ref \in TmqRefType /\ SameRows(ch[1], ref) /\ ref.ref_count = more
    BY <2>1, <2>3 DEF TmqRefType, SameRows
  <2>5. StartReader(s, r) = Reply(u, r, items)
    <3> DEFINE v == [s EXCEPT !.q.chain[1].ref_count = @ + 1,
                              !.reader[r].tmqr = ch[1].id,
                              !.reader[r].n_Qrows = 0]
    <3>1. StartReader(s, r) = Reply(v, r, items)
      BY <1>4 DEF StartReader
    <3>2. u = [s EXCEPT !.q = [s.q EXCEPT !.chain = ch2], !.reader = [s.reader EXCEPT ![r] = rd]]
      BY <1>1
    <3>3. v = [s EXCEPT !.q = [s.q EXCEPT !.chain = ch2], !.reader = [s.reader EXCEPT ![r] = rd]]
      <4> DEFINE rd1 == [s.reader[r] EXCEPT !.tmqr = ch[1].id]
                 a == [s EXCEPT !.q.chain[1].ref_count = @ + 1]
                 b == [a EXCEPT !.reader[r].tmqr = ch[1].id]
                 c == [b EXCEPT !.reader[r].n_Qrows = 0]
      <4>1. v = c
        OBVIOUS
      <4>2. a = [s EXCEPT !.q = [s.q EXCEPT !.chain = ch2]]
        BY <1>1, <2>1 DEF more
      <4> HIDE DEF a, ch2
      <4>3. a.reader = s.reader
        BY <4>2, <1>1 DEF StateType
      <4>4. b = [a EXCEPT !.reader = [s.reader EXCEPT ![r] = rd1]]
        BY <4>3
      <4> HIDE DEF b, rd1
      <4>5. b.reader = [s.reader EXCEPT ![r] = rd1]
        BY <4>2, <4>4, <1>1 DEF StateType
      <4>6. b.reader[r] = rd1
        BY <4>5, <1>1, <1>2
      <4>7. c = [b EXCEPT !.reader = [b.reader EXCEPT ![r] = [rd1 EXCEPT !.n_Qrows = 0]]]
        BY <4>6
      <4>8. [rd1 EXCEPT !.n_Qrows = 0] = rd
        BY DEF rd1
      <4> HIDE DEF rd
      <4>9. [b.reader EXCEPT ![r] = rd] = [s.reader EXCEPT ![r] = rd]
        BY <4>5, <1>1, <1>2
      <4>10. c = [b EXCEPT !.reader = [s.reader EXCEPT ![r] = rd]]
        BY <4>7, <4>8, <4>9
      <4>11. c = [s EXCEPT !.q = [s.q EXCEPT !.chain = ch2], !.reader = [s.reader EXCEPT ![r] = rd]]
        BY <4>2, <4>4, <4>10, <1>1 DEF StateType
      <4> HIDE DEF c, v
      <4> QED
        BY <4>1, <4>11 DEF ch2, rd
    <3> QED
      BY <3>1, <3>2, <3>3
  <2> HIDE DEF ref
  <2>6. /\ ch2 \in Seq(TmqRefType) /\ Len(ch2) = Len(ch) /\ ch2[1] = ref
        /\ \A k \in 1 .. Len(ch) : k # 1 => ch2[k] = ch[k]
    BY <2>1, <2>4
  <2> HIDE DEF ch2, rd
  <2>7. ASSUME NEW k \in 1 .. Len(ch2)
        PROVE  /\ SameRows(ch[k], ch2[k])
               /\ ch2[k].ref_count = CountMoved(ch[k].ref_count, ch[k].id, s.reader,
                                                [s.reader EXCEPT ![r] = rd], r)
    <3> DEFINE h == s.reader
               h2 == [s.reader EXCEPT ![r] = rd]
    <3>1. h2[r].tmqr = ch[1].id /\ h[r].tmqr = 0
      BY <1>1, <1>2, <2>2
    <3>2. ch[k].id # 0 /\ (k # 1 => ch[k].id # ch[1].id)
      BY <2>1, <2>6, <1>1 DEF Named
    <3> HIDE DEF h, h2, ch
    <3>3. CASE k = 1
      <4>1. CountMoved(ch[k].ref_count, ch[k].id, h, h2, r) = more
        BY <3>1, <3>2, <3>3 DEF CountMoved, more
      <4>2. SameRows(ch[k], ch2[k]) /\ ch2[k].ref_count = more
        BY <3>3, <2>4, <2>6
      <4> QED
        BY <4>1, <4>2 DEF h, h2
    <3>4. CASE k # 1
      <4>1. SameRows(ch[k], ch[k]) /\ ch2[k] = ch[k]
        BY <2>6, <3>4 DEF SameRows
      <4>2. CountMoved(ch[k].ref_count, ch[k].id, h, h2, r) = ch[k].ref_count
        BY <3>1, <3>2, <3>4 DEF CountMoved
      <4> QED
        BY <4>1, <4>2 DEF h, h2
    <3> QED
      BY <3>3, <3>4 DEF h, h2, ch
  <2>8. \E k \in 1 .. Len(ch2) : ch[k].id = rd.tmqr
    BY <2>1, <2>2, <2>6
  <2>9. rd.tmqr # s.reader[r].tmqr
    BY <2>1, <2>2
  <2>10. Placed(s, u, r, rd)
    BY <2>2, <2>6, <2>7, <2>8, <2>9, HoldSound
  <2> HIDE DEF u
  <2>11. Sound(u) /\ Topped(u) /\ r \in ToSet(u.order) /\ u.reader[r].iov = <<>>
    BY <2>2, <2>10 DEF Placed, ReaderStep, Topped, Place
  <2>12. items \in Seq(OutType) /\ items # <<>>
    BY <2>1, TstampOutType
  <2>13. Begun(u, StartReader(s, r), r, items)
    BY <2>5, <2>11, <2>12, ReplySound
  <2>14. Given(s, StartReader(s, r), r, rd, items)
    BY <2>10, <2>13 DEF Given
  <2> QED
    BY <2>14, <1>4 DEF rd
<1> QED
  BY <1>3, <1>4

(* The rows of a message, from where a reader got to. *)
RowsAsItems(s, ref, done, n) ==
  [k \in 1 .. n |-> RowOut(s, Wrap(Wrap(ref.Qrow + done - ref.Qrows_retired) + k - 1))]

LEMMA ReplyRowsSound ==
  ASSUME NEW s, Sound(s), Topped(s), NEW r \in ToSet(s.order), s.reader[r].iov = <<>>,
         NEW ref \in TmqRefType, NEW done \in Nat, RowsReady(ref, done) > 0
  PROVE  \E n \in 1 .. RowsReady(ref, done) :
           Given(s, ReplyRows(s, r, ref, done), r,
                 [s.reader[r] EXCEPT !.n_Qrows = done + n], RowsAsItems(s, ref, done, n))
<1> DEFINE ready == RowsReady(ref, done)
           most == IF r \in FastReaders THEN 1 ELSE TotalQrows
           n == Min({ready, most})
           far == done + n
           rd == [s.reader[r] EXCEPT !.n_Qrows = far]
           u == [s EXCEPT !.reader[r] = rd]
           start == Wrap(ref.Qrow + done - ref.Qrows_retired)
           items == RowsAsItems(s, ref, done, n)
<1>1. /\ s \in StateType /\ s.order \in Seq(Readers) /\ s.reader \in [Readers -> ReaderType]
  BY Fields DEF Sound
<1>2. r \in Readers /\ s.reader[r] \in ReaderType
  BY <1>1 DEF ToSet
<1>3. ready \in Int /\ ready > 0 /\ most \in Int /\ most > 0
  BY RefFields, Sizes DEF RowsReady
<1>4. n \in 1 .. ready
  <2> HIDE DEF ready, most
  <2>1. n \in {ready, most} /\ n <= ready
    BY <1>3, MinOfTwo
  <2> QED
    BY <2>1, <1>3
<1>5. n \in Nat /\ n > 0 /\ far \in Nat
  BY <1>3, <1>4
<1>6. start \in Int
  BY RefFields, Sizes DEF Wrap
<1>7. items = [k \in 1 .. n |-> RowOut(s, Wrap(start + k - 1))]
  BY DEF RowsAsItems
<1> HIDE DEF n, start, ready, most
<1>8. items \in Seq(OutType) /\ items # <<>>
  <2>1. ASSUME NEW k \in 1 .. n
        PROVE  RowOut(s, Wrap(start + k - 1)) \in OutType
    <3>1. Wrap(start + k - 1) \in Int
      BY <1>5, <1>6, Sizes DEF Wrap
    <3> QED
      BY <3>1, RowOutType
  <2> HIDE DEF items
  <2>2. items \in Seq(OutType) /\ Len(items) = n
    BY <2>1, <1>5, <1>7
  <2> QED
    BY <2>2, <1>5
<1> HIDE DEF items, far
<1>9. rd \in ReaderType /\ rd.tmqr = s.reader[r].tmqr /\ rd.iov = <<>>
  BY <1>2, <1>5 DEF ReaderType
<1> HIDE DEF rd
<1>10. Placed(s, u, r, rd)
  BY <1>9, KeepSound
<1>11. ReplyRows(s, r, ref, done) = Reply(u, r, items)
  <2> DEFINE v == [s EXCEPT !.reader[r].n_Qrows = done + n]
  <2>1. u = v
    BY <1>1, <1>2 DEF rd, far
  <2>2. v.mem = s.mem
    BY <1>1 DEF StateType
  <2>3. [k \in 1 .. n |-> RowOut(v, Wrap(start + k - 1))] = items
    BY <2>2, <1>7 DEF RowOut
  <2>4. ReplyRows(s, r, ref, done) =
          Reply(v, r, [k \in 1 .. n |-> RowOut(s, Wrap(start + k - 1))])
    BY DEF ReplyRows, n, start, ready, most
  <2> HIDE DEF u, v
  <2> QED
    BY <2>1, <2>4, <1>7
<1> HIDE DEF u
<1>12. Sound(u) /\ Topped(u) /\ r \in ToSet(u.order) /\ u.reader[r].iov = <<>>
  BY <1>9, <1>10 DEF Placed, ReaderStep, Topped, Place
<1>13. Begun(u, ReplyRows(s, r, ref, done), r, items)
  BY <1>8, <1>11, <1>12, ReplySound
<1>14. Given(s, ReplyRows(s, r, ref, done), r, rd, items)
  BY <1>10, <1>13 DEF Given
<1> QED
  BY <1>4, <1>14 DEF rd, far, items, ready

(* How far r is in the tmq_ref in place k, when it set out from the one in place i. *)
Stood(s, r, i, k) == Done(IF k = i THEN s.reader[r].n_Qrows ELSE 0, s.q.chain[k])

(* The walk of r along the chain from place i ends at place j: it is given rows
   of that tmq_ref, or the next time stamp, or nothing. *)
Walk(s, t, r, i, j) ==
  LET ch   == s.q.chain
      done == Stood(s, r, i, j)
      At0(k, n) == [s.reader[r] EXCEPT !.tmqr = ch[k].id, !.n_Qrows = n]
  IN /\ ch[i].id = s.reader[r].tmqr
     /\ done \in Nat
     /\ \A k \in i .. j - 1 : RowsReady(ch[k], Stood(s, r, i, k)) <= 0 /\ ch[k].tsp = ch[k + 1].tsp
     /\ \/ \E n \in 1 .. RowsReady(ch[j], done) :
             Given(s, t, r, At0(j, done + n), RowsAsItems(s, ch[j], done, n))
        \/ /\ RowsReady(ch[j], done) <= 0
           /\ Placed(s, t, r, At0(j, done))
        \/ /\ RowsReady(ch[j], done) <= 0 /\ j < Len(ch)
           /\ Given(s, t, r, At0(j + 1, 0), <<TstampOut(ch[j + 1].tsp)>>)

LEMMA WalkChainSound ==
  ASSUME NEW s, Sound(s), Topped(s), NEW r \in ToSet(s.order),
         s.reader[r].iov = <<>>, s.reader[r].tmqr # 0
  PROVE  \E i \in 1 .. Len(s.q.chain) : \E j \in i .. Len(s.q.chain) :
           Walk(s, WalkChain(s, r), r, i, j)
<1> DEFINE ch == s.q.chain
           N == Len(ch)
           i == At(s.q, s.reader[r].tmqr)
           S == {k \in i .. N : StopsAt(s, r, i, k)}
           j == Min(S)
           there == MoveTo(s, r, i, j)
           done == Done(there.reader[r].n_Qrows, ch[j])
           t == [there EXCEPT !.reader[r].n_Qrows = done]
           rd0 == s.reader[r]
           rd1 == IF i = j THEN rd0 ELSE [rd0 EXCEPT !.tmqr = ch[j].id, !.n_Qrows = 0]
           rd2 == [rd0 EXCEPT !.tmqr = ch[j].id, !.n_Qrows = done]
           res == WalkChain(s, r)
<1>1. /\ s \in StateType /\ s.order \in Seq(Readers) /\ s.reader \in [Readers -> ReaderType]
      /\ s.q \in QueueType /\ Named(ch, s.nrefs) /\ Counts(ch, s.reader)
  BY Fields DEF Sound
<1>2. r \in Readers /\ rd0 \in ReaderType
  BY <1>1 DEF ToSet
<1>3. ch \in Seq(TmqRefType) /\ N \in Nat /\ \A k \in 1 .. N : ch[k] \in TmqRefType
  BY <1>1, QueueFields
<1>4. i \in 1 .. N /\ ch[i].id = s.reader[r].tmqr
  <2>1. \E k \in 1 .. Len(s.q.chain) : s.q.chain[k].id = s.reader[r].tmqr
    BY <1>1, <1>2 DEF Counts
  <2> QED
    BY <2>1, <1>1, AtIsThere
<1> HIDE DEF i
<1>5. res = IF RowsReady(ch[j], done) > 0 THEN ReplyRows(t, r, ch[j], done)
            ELSE IF j = N THEN t
            ELSE Reply(MoveTo(t, r, j, j + 1), r, <<TstampOut(ch[j + 1].tsp)>>)
  BY DEF WalkChain, i
<1>6. j \in S /\ \A k \in S : j <= k
  <2>1. N \in S
    BY <1>3, <1>4 DEF StopsAt
  <2>2. S \in SUBSET Nat /\ S # {}
    BY <2>1, <1>4
  <2> HIDE DEF S
  <2> QED
    BY <2>2, MinOfNaturals
<1> HIDE DEF j, res
<1>7. j \in i .. N /\ j \in 1 .. N
  BY <1>4, <1>6
<1>8. ASSUME NEW k \in i .. j - 1
      PROVE  /\ RowsReady(ch[k], Stood(s, r, i, k)) <= 0
             /\ ch[k].tsp = ch[k + 1].tsp
  <2>1. k \in i .. N /\ k \in 1 .. N /\ k < j
    BY <1>4, <1>7
  <2>2. ~StopsAt(s, r, i, k)
    BY <2>1, <1>6, <1>7, <1>4
  <2>3. ~(RowsReady(ch[k], Stood(s, r, i, k)) > 0) /\ ~NewStamp(s, k)
    BY <2>2 DEF StopsAt, Stood
  <2>4. rd0.n_Qrows \in Nat /\ ch[k] \in TmqRefType
    BY <1>2, <1>3, <2>1 DEF ReaderType
  <2>5. Stood(s, r, i, k) \in Nat
    BY <2>4, RefFields DEF Stood, Done
  <2>6. RowsReady(ch[k], Stood(s, r, i, k)) \in Int
    BY <2>4, <2>5, RefFields DEF RowsReady
  <2> QED
    BY <2>3, <2>6 DEF NewStamp
<1> HIDE DEF S
<1>9. Placed(s, there, r, rd1)
  BY <1>4, <1>7, MoveToSound
<1> HIDE DEF there
<1>10. done = Stood(s, r, i, j) /\ done \in Nat /\ ch[j] \in TmqRefType
  <2>1. rd1.n_Qrows = IF j = i THEN rd0.n_Qrows ELSE 0
    BY <1>2 DEF ReaderType
  <2>2. ch[j] \in TmqRefType /\ rd0.n_Qrows \in Nat
    BY <1>2, <1>3, <1>7 DEF ReaderType
  <2>3. done = Stood(s, r, i, j)
    BY <2>1, <1>9 DEF Placed, Stood
  <2> QED
    BY <2>1, <2>2, <2>3, <1>9, RefFields DEF Placed, Done
<1> HIDE DEF done
<1>11. /\ rd2 \in ReaderType /\ rd2.tmqr = ch[j].id /\ rd2.iov = <<>> /\ rd2.n_Qrows = done
       /\ rd2 = [rd1 EXCEPT !.n_Qrows = done] /\ rd1.tmqr = ch[j].id
  <2>1. ch[j].id \in Nat
    BY <1>10, RefFields
  <2>2. rd1.tmqr = ch[j].id
    BY <1>2, <1>4 DEF ReaderType
  <2> QED
    BY <2>1, <2>2, <1>2, <1>4, <1>10 DEF ReaderType
<1> HIDE DEF rd1
<1>12. Placed(s, t, r, rd2)
  <2>1. Sound(there) /\ Topped(there) /\ r \in ToSet(there.order) /\ there.reader[r] = rd1
    BY <1>9 DEF Placed, ReaderStep, Topped, Place
  <2>2. there \in StateType /\ there.reader \in [Readers -> ReaderType]
    BY <2>1, Fields DEF Sound
  <2>3. t = [there EXCEPT !.reader[r] = rd2]
    BY <2>1, <2>2, <1>11
  <2> HIDE DEF rd2, t
  <2>4. Placed(there, t, r, rd2)
    BY <2>1, <2>3, <1>11, KeepSound
  <2> QED
    BY <2>4, <1>9, PlacedAgain
<1> HIDE DEF t
<1>13. /\ Sound(t) /\ Topped(t) /\ r \in ToSet(t.order) /\ t.reader[r] = rd2
       /\ Len(t.q.chain) = N /\ t.mem = s.mem
       /\ \A k \in 1 .. N : SameRows(ch[k], t.q.chain[k])
  BY <1>12 DEF Placed, ReaderStep, SameQueueRows, Topped, Place
<1>14. RowsReady(ch[j], done) \in Int
  BY <1>10, RefFields DEF RowsReady
<1>15. CASE RowsReady(ch[j], done) > 0
  <2>1. PICK n \in 1 .. RowsReady(ch[j], done) :
          Given(t, ReplyRows(t, r, ch[j], done), r,
                [t.reader[r] EXCEPT !.n_Qrows = done + n], RowsAsItems(t, ch[j], done, n))
    BY <1>15, <1>10, <1>11, <1>13, ReplyRowsSound
  <2>2. RowsAsItems(t, ch[j], done, n) = RowsAsItems(s, ch[j], done, n)
    BY <1>13 DEF RowsAsItems, RowOut
  <2>3. [t.reader[r] EXCEPT !.n_Qrows = done + n] =
          [rd0 EXCEPT !.tmqr = ch[j].id, !.n_Qrows = done + n]
    BY <1>13, <1>2 DEF ReaderType
  <2>4. res = ReplyRows(t, r, ch[j], done)
    BY <1>5, <1>15
  <2>5. Given(t, res, r, [rd0 EXCEPT !.tmqr = ch[j].id, !.n_Qrows = done + n],
              RowsAsItems(s, ch[j], done, n))
    BY <2>1, <2>2, <2>3, <2>4
  <2>6. Given(s, res, r, [rd0 EXCEPT !.tmqr = ch[j].id, !.n_Qrows = done + n],
              RowsAsItems(s, ch[j], done, n))
    BY <2>5, <1>12, PlacedAgain DEF Given
  <2>7. Walk(s, res, r, i, j)
    BY <2>6, <1>4, <1>8, <1>10 DEF Walk
  <2> QED
    BY <2>7, <1>4, <1>7 DEF res
<1>16. CASE ~(RowsReady(ch[j], done) > 0) /\ j = N
  <2>1. res = t
    BY <1>5, <1>16
  <2>2. RowsReady(ch[j], done) <= 0
    BY <1>14, <1>16
  <2>3. Walk(s, res, r, i, j)
    BY <2>1, <2>2, <1>4, <1>8, <1>10, <1>12 DEF Walk
  <2> QED
    BY <2>3, <1>4, <1>7 DEF res
<1>17. CASE ~(RowsReady(ch[j], done) > 0) /\ j # N
  <2> DEFINE u == MoveTo(t, r, j, j + 1)
             rd3 == [rd0 EXCEPT !.tmqr = ch[j + 1].id, !.n_Qrows = 0]
             items == <<TstampOut(ch[j + 1].tsp)>>
  <2>1. j + 1 \in 1 .. N /\ j + 1 \in j .. N /\ j < N /\ j # j + 1
    BY <1>3, <1>7, <1>17
  <2>2. t.reader[r].tmqr = t.q.chain[j].id /\ t.q.chain[j + 1].id = ch[j + 1].id
    BY <2>1, <1>7, <1>11, <1>13 DEF SameRows
  <2>3. Placed(t, u, r, [t.reader[r] EXCEPT !.tmqr = t.q.chain[j + 1].id, !.n_Qrows = 0])
    BY <2>1, <2>2, <1>7, <1>13, MoveToSound
  <2>4. [t.reader[r] EXCEPT !.tmqr = t.q.chain[j + 1].id, !.n_Qrows = 0] = rd3
    BY <2>2, <1>13, <1>2 DEF ReaderType
  <2>5. rd3.iov = <<>>
    BY <1>2 DEF ReaderType
  <2> HIDE DEF u, rd3
  <2>6. Placed(s, u, r, rd3)
    BY <2>3, <2>4, <1>12, PlacedAgain
  <2>7. Sound(u) /\ Topped(u) /\ r \in ToSet(u.order) /\ u.reader[r].iov = <<>>
    BY <2>5, <2>6 DEF Placed, ReaderStep, Topped, Place
  <2>8. items \in Seq(OutType) /\ items # <<>>
    <3>1. ch[j + 1].tsp \in Nat
      BY <2>1, <1>3, RefFields
    <3> QED
      BY <3>1, TstampOutType
  <2>9. res = Reply(u, r, items)
    BY <1>5, <1>17 DEF u
  <2>10. Begun(u, res, r, items)
    BY <2>7, <2>8, <2>9, ReplySound
  <2>11. Given(s, res, r, rd3, items)
    BY <2>6, <2>10 DEF Given
  <2>12. RowsReady(ch[j], done) <= 0
    BY <1>14, <1>17
  <2>13. Walk(s, res, r, i, j)
    BY <2>1, <2>11, <2>12, <1>4, <1>8, <1>10 DEF Walk, rd3
  <2> QED
    BY <2>13, <1>4, <1>7 DEF res
<1> QED
  BY <1>15, <1>16, <1>17

-----------------------------------------------------------------------------
(* The calls of run_read_queue.                                            *)

(* A reader visited: what read_reply may have done. *)
Replied(s, t, r) ==
  /\ Sound(t) /\ ReaderStep(s, t, r) /\ t.failed = s.failed
  /\ \/ t.calls = s.calls
     \/ t.calls = Append(s.calls, 1) /\ t.reader[r].ready

LEMMA GivenReplied ==
  ASSUME NEW s, NEW t, NEW r, NEW rd, NEW items, Given(s, t, r, rd, items)
  PROVE  Replied(s, t, r)
BY DEF Given, Placed, Begun, Replied, ReaderStep, SameQueueRows, SameRows

LEMMA PlacedReplied ==
  ASSUME NEW s, NEW t, NEW r, NEW rd, Placed(s, t, r, rd)
  PROVE  Replied(s, t, r)
BY DEF Placed, Replied

LEMMA ReadReplySound ==
  ASSUME NEW s, Sound(s), Topped(s), NEW r \in ToSet(s.order)
  PROVE  Replied(s, ReadReply(s, r), r)
<1>1. CASE s.reader[r].iov # <<>>
  BY <1>1, SameQueueItself DEF ReadReply, Replied, ReaderStep
<1>2. CASE s.reader[r].iov = <<>> /\ s.reader[r].tmqr = 0
  <2>1. ReadReply(s, r) = StartReader(s, r)
    BY <1>2 DEF ReadReply
  <2> QED
    BY <2>1, <1>2, StartReaderSound, GivenReplied, PlacedReplied
<1>3. CASE s.reader[r].iov = <<>> /\ s.reader[r].tmqr # 0
  <2> DEFINE t == WalkChain(s, r)
  <2>1. ReadReply(s, r) = t
    BY <1>3 DEF ReadReply
  <2>2. \E i \in 1 .. Len(s.q.chain) : \E j \in i .. Len(s.q.chain) : Walk(s, t, r, i, j)
    BY <1>3, WalkChainSound
  <2> HIDE DEF t
  <2>3. Replied(s, t, r)
    BY <2>2, GivenReplied, PlacedReplied DEF Walk
  <2> QED
    BY <2>1, <2>3
<1> QED
  BY <1>1, <1>2, <1>3

(* The stack of calls changes. *)
LEMMA CallsSound ==
  ASSUME NEW s, Sound(s), NEW c \in Seq(Nat \ {0}),
         \A i \in 1 .. Len(c) : /\ c[i] <= Len(s.order) + 1
                                /\ i < Len(c) => c[i] <= Len(s.order)
  PROVE  LET t == [s EXCEPT !.calls = c]
         IN /\ Sound(t) /\ t.calls = c /\ t.q = s.q /\ t.mem = s.mem /\ t.input = s.input
            /\ t.blocked = s.blocked /\ t.order = s.order /\ t.reader = s.reader
            /\ t.log = s.log /\ t.committed = s.committed /\ t.failed = s.failed
            /\ t.nrefs = s.nrefs /\ t.nstamps = s.nstamps /\ t.sock = s.sock
<1> DEFINE t == [s EXCEPT !.calls = c]
<1>1. s \in StateType
  BY DEF Sound
<1>2. /\ t \in StateType /\ t.calls = c /\ t.q = s.q /\ t.mem = s.mem /\ t.input = s.input
      /\ t.blocked = s.blocked /\ t.order = s.order /\ t.reader = s.reader
      /\ t.log = s.log /\ t.committed = s.committed /\ t.failed = s.failed
      /\ t.nrefs = s.nrefs /\ t.nstamps = s.nstamps /\ t.sock = s.sock
  BY <1>1 DEF StateType
<1> HIDE DEF t
<1>3. CallsRight(t)
  BY <1>2 DEF CallsRight
<1>4. Sound(t)
  BY <1>2, <1>3 DEF Sound, OrderRight
<1> QED
  BY <1>2, <1>4 DEF t

(* What of a state is not about its readers and calls. *)
SameQueueSide(s, t) ==
  /\ t.q = s.q /\ t.mem = s.mem /\ t.input = s.input /\ t.blocked = s.blocked
  /\ t.order = s.order /\ t.log = s.log /\ t.committed = s.committed
  /\ t.failed = s.failed /\ t.nrefs = s.nrefs /\ t.nstamps = s.nstamps

(* Only whether they are ready has changed of the readers. *)
SameButReady(h, h2) ==
  \A p \in Readers : /\ h2[p].tmqr = h[p].tmqr /\ h2[p].n_Qrows = h[p].n_Qrows
                     /\ h2[p].iov = h[p].iov

LEMMA RunReadQueueSound ==
  ASSUME NEW s, Sound(s), Topped(s)
  PROVE  LET t == RunReadQueue(s)
         IN /\ Sound(t) /\ SameQueueSide(s, t) /\ t.reader = s.reader
            /\ t.calls = Append(s.calls, 1)
<1> DEFINE c == Append(s.calls, 1)
<1>1. c \in Seq(Nat \ {0})
  BY OneMoreCall
<1>2. s \in StateType
  BY DEF Sound
<1>3. CallsRight([s EXCEPT !.calls = c])
  <2>1. [s EXCEPT !.calls = c].calls = c /\ [s EXCEPT !.calls = c].order = s.order
    BY <1>2 DEF StateType
  <2> QED
    BY <2>1, OneMoreCall
<1>4. \A i \in 1 .. Len(c) : /\ c[i] <= Len(s.order) + 1
                             /\ i < Len(c) => c[i] <= Len(s.order)
  BY <1>2, <1>3 DEF CallsRight, StateType
<1>5. RunReadQueue(s) = [s EXCEPT !.calls = c]
  BY DEF RunReadQueue
<1> HIDE DEF c
<1>6. LET t == [s EXCEPT !.calls = c]
      IN Sound(t) /\ SameQueueSide(s, t) /\ t.reader = s.reader /\ t.calls = c
  BY <1>1, <1>4, CallsSound DEF SameQueueSide
<1> QED
  BY <1>5, <1>6 DEF c

(* The reader the innermost call is at. *)
LEMMA PlaceThere ==
  ASSUME NEW s, Sound(s), Topped(s), s.calls # <<>>
  PROVE  /\ Place(s) \in 1 .. Len(s.order) /\ s.order[Place(s)] \in ToSet(s.order)
         /\ s.order[Place(s)] \in Readers
<1>1. s.calls \in Seq(Nat \ {0}) /\ s.order \in Seq(Readers)
  BY Fields DEF Sound
<1>2. Place(s) \in Nat \ {0}
  BY <1>1 DEF Place
<1>3. Place(s) \in 1 .. Len(s.order)
  BY <1>1, <1>2 DEF Topped
<1> QED
  BY <1>1, <1>3 DEF ToSet

(* The call is at the next reader. *)
LEMMA NextPlaceSound ==
  ASSUME NEW s, Sound(s), Topped(s), s.calls # <<>>
  PROVE  LET t == [s EXCEPT !.calls[Len(s.calls)] = @ + 1]
         IN /\ Sound(t) /\ SameQueueSide(s, t) /\ t.reader = s.reader
            /\ Len(t.calls) = Len(s.calls)
<1> DEFINE n == Len(s.calls)
           c == [s.calls EXCEPT ![n] = @ + 1]
<1>1. s.calls \in Seq(Nat \ {0}) /\ s.order \in Seq(Readers) /\ n \in Nat /\ n > 0
  BY Fields DEF Sound
<1>2. s.calls[n] \in 1 .. Len(s.order)
  BY PlaceThere DEF Place
<1>3. /\ c \in Seq(Nat \ {0}) /\ Len(c) = n /\ c[n] = s.calls[n] + 1
      /\ \A i \in 1 .. n : i # n => c[i] = s.calls[i]
  BY <1>1, <1>2
<1>4. [s EXCEPT !.calls[Len(s.calls)] = @ + 1] = [s EXCEPT !.calls = c]
  OBVIOUS
<1> HIDE DEF c
<1>5. \A i \in 1 .. Len(c) : /\ c[i] <= Len(s.order) + 1
                             /\ i < Len(c) => c[i] <= Len(s.order)
  BY <1>1, <1>2, <1>3 DEF Sound, CallsRight
<1>6. LET t == [s EXCEPT !.calls = c]
      IN Sound(t) /\ SameQueueSide(s, t) /\ t.reader = s.reader /\ t.calls = c
  BY <1>3, <1>5, CallsSound DEF SameQueueSide
<1> QED
  BY <1>3, <1>4, <1>6

(* The reader visited is ready when nothing of it is on its way. *)
GoneOn(s, t) ==
  /\ Sound(t) /\ SameQueueSide(s, t) /\ SameButReady(s.reader, t.reader)
  /\ Len(t.calls) = Len(s.calls)
  /\ IF s.calls = <<>> THEN t.reader = s.reader
     ELSE \A p \in Readers :
            t.reader[p].ready <=> \/ s.reader[p].ready
                                  \/ p = s.order[Place(s)] /\ s.reader[p].iov = <<>>

LEMMA GoOnSound ==
  ASSUME NEW s, Sound(s), Topped(s)
  PROVE  GoneOn(s, GoOn(s))
<1>1. CASE s.calls = <<>>
  BY <1>1 DEF GoOn, GoneOn, SameQueueSide, SameButReady
<1>2. CASE s.calls # <<>>
  <2> DEFINE r == s.order[Place(s)]
             now == s.reader[r].ready \/ s.reader[r].iov = <<>>
             rd == [s.reader[r] EXCEPT !.ready = now]
             u == [s EXCEPT !.reader[r] = rd]
             t == [u EXCEPT !.calls[Len(u.calls)] = @ + 1]
  <2>1. r \in ToSet(s.order) /\ r \in Readers
    BY <1>2, PlaceThere
  <2>2. s \in StateType /\ s.reader \in [Readers -> ReaderType] /\ s.reader[r] \in ReaderType
    BY <2>1, Fields DEF Sound
  <2>3. now \in BOOLEAN
    BY <2>2 DEF ReaderType
  <2> HIDE DEF r
  <2>4. u.calls = s.calls
    BY <2>2 DEF StateType
  <2>5. GoOn(s) = t
    <3>1. GoOn(s) = [s EXCEPT !.reader[r].ready = @ \/ s.reader[r].iov = <<>>,
                              !.calls[Len(s.calls)] = @ + 1]
      BY <1>2 DEF GoOn, r
    <3>2. [s EXCEPT !.reader[r].ready = @ \/ s.reader[r].iov = <<>>] = u
      BY <2>1, <2>2 DEF StateType
    <3> HIDE DEF u
    <3> QED
      BY <3>1, <3>2, <2>4
  <2> HIDE DEF now
  <2>6. /\ rd \in ReaderType /\ rd.tmqr = s.reader[r].tmqr /\ rd.n_Qrows = s.reader[r].n_Qrows
        /\ rd.iov = s.reader[r].iov /\ rd.ready = now
    BY <2>2, <2>3 DEF ReaderType
  <2> HIDE DEF rd
  <2>7. Placed(s, u, r, rd)
    BY <2>1, <2>6, KeepSound
  <2>8. u.q = s.q
    BY <2>2 DEF StateType
  <2> HIDE DEF u
  <2>9. Sound(u) /\ Topped(u) /\ u.calls # <<>> /\ SameQueueSide(s, u)
    BY <2>7, <2>8, <1>2 DEF Placed, ReaderStep, Topped, Place, SameQueueSide
  <2>10. Sound(t) /\ SameQueueSide(u, t) /\ t.reader = u.reader /\ Len(t.calls) = Len(u.calls)
    BY <2>9, NextPlaceSound
  <2> HIDE DEF t
  <2>11. \A p \in Readers : p # r => t.reader[p] = s.reader[p]
    BY <2>7, <2>10 DEF Placed, ReaderStep
  <2>12. t.reader[r] = rd
    BY <2>7, <2>10 DEF Placed
  <2>13. SameQueueSide(s, t) /\ Len(t.calls) = Len(s.calls)
    BY <2>4, <2>9, <2>10 DEF SameQueueSide
  <2>14. SameButReady(s.reader, t.reader)
    BY <2>6, <2>11, <2>12 DEF SameButReady
  <2>15. ASSUME NEW p \in Readers
         PROVE  t.reader[p].ready <=> s.reader[p].ready \/ (p = r /\ s.reader[p].iov = <<>>)
    <3>1. CASE p = r
      <4>1. t.reader[r].ready = now
        BY <2>6, <2>12
      <4> QED
        BY <4>1, <3>1, Zenon DEF now
    <3>2. CASE p # r
      BY <3>2, <2>11
    <3> QED
      BY <3>1, <3>2
  <2>16. GoneOn(s, t)
    <3>1. \A p \in Readers :
            t.reader[p].ready <=> \/ s.reader[p].ready
                                  \/ p = s.order[Place(s)] /\ s.reader[p].iov = <<>>
      BY <2>15 DEF r
    <3> QED
      BY <3>1, <2>10, <2>13, <2>14, <1>2, Zenon DEF GoneOn
  <2> QED
    BY <2>5, <2>16
<1> QED
  BY <1>1, <1>2

(* A reader that is visited is not ready while its read_reply runs. *)
LEMMA UnreadySound ==
  ASSUME NEW s, Sound(s), Topped(s), NEW r \in ToSet(s.order)
  PROVE  LET u == [s EXCEPT !.reader[r].ready = FALSE]
         IN /\ Placed(s, u, r, [s.reader[r] EXCEPT !.ready = FALSE])
            /\ Sound(u) /\ Topped(u) /\ r \in ToSet(u.order) /\ SameQueueSide(s, u)
            /\ u.calls = s.calls
<1> DEFINE rd == [s.reader[r] EXCEPT !.ready = FALSE]
           u == [s EXCEPT !.reader[r] = rd]
<1>1. /\ s \in StateType /\ s.order \in Seq(Readers) /\ s.reader \in [Readers -> ReaderType]
  BY Fields DEF Sound
<1>2. r \in Readers /\ s.reader[r] \in ReaderType
  BY <1>1 DEF ToSet
<1>3. rd \in ReaderType /\ rd.tmqr = s.reader[r].tmqr
  BY <1>2 DEF ReaderType
<1>4. [s EXCEPT !.reader[r].ready = FALSE] = u
  BY <1>1, <1>2
<1>5. u.q = s.q
  BY <1>1 DEF StateType
<1> HIDE DEF rd
<1>6. Placed(s, u, r, rd)
  BY <1>3, KeepSound
<1> HIDE DEF u
<1>7. /\ Sound(u) /\ Topped(u) /\ r \in ToSet(u.order) /\ SameQueueSide(s, u)
      /\ u.calls = s.calls
  BY <1>5, <1>6 DEF Placed, ReaderStep, Topped, Place, SameQueueSide
<1> QED
  BY <1>4, <1>6, <1>7 DEF rd

LEMMA FailSound ==
  ASSUME NEW s, Sound(s), NEW what \in Fates
  PROVE  LET t == Fail(s, what)
         IN /\ Sound(t) /\ t.input = s.input /\ t.blocked = s.blocked /\ t.failed = what
<1>1. s \in StateType
  BY DEF Sound
<1>2. Fail(s, what).input = s.input /\ Fail(s, what).failed = what
      /\ Fail(s, what).blocked = s.blocked
  BY <1>1 DEF Fail, StateType
<1> QED
  BY <1>2, Failing

LEMMA VisitReaderSound ==
  ASSUME NEW s, Sound(s), Topped(s), s.calls # <<>>, s.failed = "none"
  PROVE  LET t == VisitReader(s, s.order[Place(s)])
         IN Sound(t) /\ t.input = s.input /\ t.blocked = s.blocked
<1> DEFINE r == s.order[Place(s)]
           res == VisitReader(s, r)
<1>1. r \in ToSet(s.order) /\ r \in Readers
  BY PlaceThere
<1> HIDE DEF r
<1>2. CASE s.reader[r].ready
  <2> DEFINE u == [s EXCEPT !.reader[r].ready = FALSE]
             t == ReadReply(u, r)
  <2>1. /\ Sound(u) /\ Topped(u) /\ r \in ToSet(u.order) /\ SameQueueSide(s, u)
        /\ u.calls = s.calls
    BY <1>1, UnreadySound
  <2>2. res = IF t.failed # "none" \/ Len(t.calls) > Len(s.calls) THEN t ELSE GoOn(t)
    BY <1>2 DEF VisitReader
  <2> HIDE DEF u
  <2>3. Replied(u, t, r)
    BY <2>1, ReadReplySound
  <2> HIDE DEF t
  <2>4. Sound(t) /\ t.input = s.input /\ t.blocked = s.blocked /\ t.order = s.order
    BY <2>1, <2>3 DEF Replied, ReaderStep, SameQueueSide
  <2>5. CASE t.failed # "none" \/ Len(t.calls) > Len(s.calls)
    BY <2>2, <2>4, <2>5 DEF r
  <2>6. CASE ~(t.failed # "none" \/ Len(t.calls) > Len(s.calls))
    <3>1. t.calls = s.calls
      <4>1. s.calls \in Seq(Nat \ {0})
        BY Fields DEF Sound
      <4>2. Len(Append(s.calls, 1)) > Len(s.calls)
        BY <4>1
      <4> QED
        BY <4>2, <2>1, <2>3, <2>6 DEF Replied
    <3>2. Topped(t)
      BY <3>1, <2>4 DEF Topped, Place
    <3>3. GoneOn(t, GoOn(t))
      BY <3>2, <2>4, GoOnSound
    <3>4. res = GoOn(t)
      BY <2>2, <2>6
    <3> QED
      BY <3>3, <3>4, <2>4 DEF GoneOn, SameQueueSide, r
  <2> QED
    BY <2>5, <2>6 DEF r
<1>3. CASE ~s.reader[r].ready /\ s.reader[r].iov = <<>>
  <2>1. res = Fail(s, "run_read_queue")
    BY <1>3 DEF VisitReader
  <2>2. "run_read_queue" \in Fates
    BY DEF Fates
  <2> HIDE DEF res
  <2> QED
    BY <2>1, <2>2, FailSound DEF r, res
<1>4. CASE ~s.reader[r].ready /\ s.reader[r].iov # <<>>
  <2>1. res = [s EXCEPT !.calls[Len(s.calls)] = @ + 1]
    BY <1>4 DEF VisitReader
  <2> HIDE DEF res
  <2>2. Sound(res) /\ SameQueueSide(s, res)
    BY <2>1, NextPlaceSound
  <2> QED
    BY <2>2 DEF SameQueueSide, r, res
<1> QED
  BY <1>2, <1>3, <1>4

(* blocked_writer changes. *)
LEMMA BlockedSound ==
  ASSUME NEW s, Sound(s), NEW b \in BOOLEAN
  PROVE  LET t == [s EXCEPT !.blocked = b]
         IN /\ Sound(t) /\ t.blocked = b /\ t.q = s.q /\ t.mem = s.mem /\ t.input = s.input
            /\ t.calls = s.calls /\ t.order = s.order /\ t.reader = s.reader
            /\ t.log = s.log /\ t.committed = s.committed /\ t.failed = s.failed
            /\ t.nrefs = s.nrefs /\ t.nstamps = s.nstamps /\ t.sock = s.sock
<1> DEFINE t == [s EXCEPT !.blocked = b]
<1>1. s \in StateType
  BY DEF Sound
<1>2. /\ t \in StateType /\ t.blocked = b /\ t.q = s.q /\ t.mem = s.mem /\ t.input = s.input
      /\ t.calls = s.calls /\ t.order = s.order /\ t.reader = s.reader
      /\ t.log = s.log /\ t.committed = s.committed /\ t.failed = s.failed
      /\ t.nrefs = s.nrefs /\ t.nstamps = s.nstamps /\ t.sock = s.sock
  BY <1>1 DEF StateType
<1> HIDE DEF t
<1>3. Sound(t)
  BY <1>2 DEF Sound, OrderRight, CallsRight
<1> QED
  BY <1>2, <1>3 DEF t

(* A blocked writer goes on when there is room for rows. *)
LEMMA RunWriteQueueSound ==
  ASSUME NEW s, Sound(s), Awake(s)
  PROVE  LET t == RunWriteQueue(s)
         IN /\ Sound(t) /\ Awake(t) /\ t.calls = s.calls /\ t.order = s.order
            /\ t.reader = s.reader
<1>1. CASE ~s.blocked
  BY <1>1 DEF RunWriteQueue
<1>2. CASE s.blocked
  <2> DEFINE u == DataState(s)
             b == (u.input.room = 0)
             t == [u EXCEPT !.blocked = b]
  <2>1. Sound(u) /\ QueueStep(s, u)
    BY DataStateSound
  <2>2. RunWriteQueue(s) = t
    BY <1>2 DEF RunWriteQueue
  <2> HIDE DEF u
  <2>3. b \in BOOLEAN /\ u.input.room \in Nat
    <3>1. u.input.room \in 0 .. TotalQrows
      BY <2>1, Fields, InputFields DEF Sound
    <3> QED
      BY <3>1, Sizes
  <2> HIDE DEF b
  <2>4. /\ Sound(t) /\ t.blocked = b /\ t.input = u.input /\ t.calls = u.calls
        /\ t.order = u.order /\ t.reader = u.reader
    BY <2>1, <2>3, BlockedSound
  <2> HIDE DEF t
  <2>5. Awake(t)
    <3>1. t.blocked <=> u.input.room = 0
      BY <2>4 DEF b
    <3>2. ~t.blocked => t.input.room > 0
      BY <3>1, <2>3, <2>4
    <3> QED
      BY <3>2 DEF Awake
  <2> QED
    BY <2>1, <2>2, <2>4, <2>5 DEF QueueStep
<1> QED
  BY <1>1, <1>2

(* The record coming in changes. *)
LEMMA InputSound ==
  ASSUME NEW s, Sound(s), NEW in \in InputType, InputRight(in),
         in.state # "HDR" => s.q.chain # <<>>
  PROVE  LET t == [s EXCEPT !.input = in]
         IN /\ Sound(t) /\ t.input = in /\ t.q = s.q /\ t.mem = s.mem
            /\ t.blocked = s.blocked /\ t.calls = s.calls /\ t.order = s.order
            /\ t.reader = s.reader /\ t.log = s.log /\ t.committed = s.committed
            /\ t.failed = s.failed /\ t.nrefs = s.nrefs /\ t.nstamps = s.nstamps
            /\ t.sock = s.sock
<1> DEFINE t == [s EXCEPT !.input = in]
<1>1. s \in StateType
  BY DEF Sound
<1>2. /\ t \in StateType /\ t.input = in /\ t.q = s.q /\ t.mem = s.mem
      /\ t.blocked = s.blocked /\ t.calls = s.calls /\ t.order = s.order
      /\ t.reader = s.reader /\ t.log = s.log /\ t.committed = s.committed
      /\ t.failed = s.failed /\ t.nrefs = s.nrefs /\ t.nstamps = s.nstamps
      /\ t.sock = s.sock
  BY <1>1 DEF StateType
<1> HIDE DEF t
<1>3. Sound(t)
  BY <1>2 DEF Sound, OrderRight, CallsRight
<1> QED
  BY <1>2, <1>3 DEF t

LEMMA FinishSound ==
  ASSUME NEW s, Sound(s), s.calls = <<>>, NEW new_rows \in BOOLEAN
  PROVE  Sound(Finish(s, new_rows)) /\ Awake(Finish(s, new_rows))
<1>1. Topped(s)
  BY DEF Topped
<1>2. s.input.room \in Nat
  <2>1. s.input.room \in 0 .. TotalQrows
    BY Fields, InputFields DEF Sound
  <2> QED
    BY <2>1, Sizes
<1>3. CASE s.failed # "none"
  BY <1>3 DEF Finish, Awake
<1>4. CASE s.failed = "none" /\ s.input.state # "HDR" /\ s.input.room = 0 /\ Blocking
  <2> DEFINE u == [s EXCEPT !.blocked = TRUE]
  <2>1. Finish(s, new_rows) = RunReadQueue(u)
    BY <1>4 DEF Finish
  <2>2. Sound(u) /\ u.blocked /\ u.calls = s.calls
    BY BlockedSound
  <2>3. Topped(u)
    BY <2>2, <1>1 DEF Topped
  <2> HIDE DEF u
  <2>4. Sound(RunReadQueue(u)) /\ SameQueueSide(u, RunReadQueue(u))
    BY <2>2, <2>3, RunReadQueueSound
  <2>5. Awake(RunReadQueue(u))
    BY <2>2, <2>4 DEF Awake, SameQueueSide
  <2> QED
    BY <2>1, <2>4, <2>5
<1>5. CASE s.failed = "none" /\ s.input.state # "HDR" /\ s.input.room = 0 /\ ~Blocking
  <2> DEFINE u == Fail(s, "blocking")
  <2>1. Finish(s, new_rows) = u
    BY <1>5 DEF Finish
  <2>2. "blocking" \in Fates
    BY DEF Fates
  <2>3. Sound(u) /\ u.failed = "blocking"
    BY <2>2, FailSound
  <2> HIDE DEF u
  <2> QED
    BY <2>1, <2>3 DEF Awake
<1>6. CASE s.failed = "none" /\ ~(s.input.state # "HDR" /\ s.input.room = 0)
  <2>1. Awake(s)
    BY <1>2, <1>6 DEF Awake
  <2> DEFINE u == RunReadQueue(s)
  <2>2. Finish(s, new_rows) = IF new_rows THEN u ELSE s
    BY <1>6 DEF Finish
  <2>3. Sound(u) /\ SameQueueSide(s, u)
    BY <1>1, RunReadQueueSound
  <2> HIDE DEF u
  <2>4. Awake(u)
    BY <2>1, <2>3 DEF Awake, SameQueueSide
  <2> QED
    BY <2>1, <2>2, <2>3, <2>4
<1> QED
  BY <1>3, <1>4, <1>5, <1>6

LEMMA EndRecordSound ==
  ASSUME NEW s, Sound(s)
  PROVE  LET t == EndRecord(s)
         IN /\ Sound(t) /\ t.q = s.q /\ t.mem = s.mem /\ t.blocked = s.blocked
            /\ t.calls = s.calls /\ t.order = s.order /\ t.reader = s.reader
            /\ t.log = s.log /\ t.committed = s.committed /\ t.failed = s.failed
            /\ t.nrefs = s.nrefs /\ t.nstamps = s.nstamps
            /\ t.input = IF s.input.nb = 0 THEN [s.input EXCEPT !.state = "HDR"] ELSE s.input
<1>1. CASE s.input.nb # 0
  BY <1>1 DEF EndRecord
<1>2. CASE s.input.nb = 0
  <2> DEFINE in == [s.input EXCEPT !.state = "HDR"]
  <2>1. s \in StateType /\ s.input \in InputType /\ InputRight(s.input)
    BY Fields DEF Sound
  <2>2. in \in InputType /\ in.state = "HDR" /\ in.off = s.input.off /\ in.nb = s.input.nb
    BY <2>1 DEF InputType
  <2>3. EndRecord(s) = [s EXCEPT !.input = in]
    BY <1>2 DEF EndRecord
  <2> HIDE DEF in
  <2>4. InputRight(in)
    BY <2>1, <2>2 DEF InputRight
  <2>5. LET t == [s EXCEPT !.input = in]
        IN /\ Sound(t) /\ t.q = s.q /\ t.mem = s.mem /\ t.blocked = s.blocked
           /\ t.calls = s.calls /\ t.order = s.order /\ t.reader = s.reader
           /\ t.log = s.log /\ t.committed = s.committed /\ t.failed = s.failed
           /\ t.nrefs = s.nrefs /\ t.nstamps = s.nstamps /\ t.input = in
    BY <2>2, <2>4, InputSound
  <2> QED
    BY <2>3, <2>5, <1>2 DEF in
<1> QED
  BY <1>1, <1>2

-----------------------------------------------------------------------------
(* The input client's actions keep the invariant.                          *)

(* A time stamp makes a tmq_ref that nobody holds. *)
LEMMA TstampSound ==
  ASSUME NEW s, Sound(s)
  PROVE  LET t == [s EXCEPT !.q = CommitTstamp(@, s.nrefs + 1, s.nstamps + 1, s.input.ctr),
                            !.nrefs = @ + 1, !.nstamps = @ + 1]
         IN /\ Sound(t) /\ t.calls = s.calls /\ t.order = s.order /\ t.reader = s.reader
            /\ t.q = CommitTstamp(s.q, s.nrefs + 1, s.nstamps + 1, s.input.ctr)
            /\ t.nstamps = s.nstamps + 1 /\ t.mem = s.mem /\ t.input = s.input
            /\ t.blocked = s.blocked /\ t.log = s.log /\ t.committed = s.committed
            /\ t.failed = s.failed /\ t.nrefs = s.nrefs + 1
<1> DEFINE id == s.nrefs + 1
           tsp == s.nstamps + 1
           lab == [ctr |-> s.input.ctr, row |-> 0]
           ref == NewRef(id, tsp, lab, s.q.last)
           ch2 == Append(s.q.chain, ref)
           q2 == CommitTstamp(s.q, id, tsp, s.input.ctr)
           t == [s EXCEPT !.q = q2, !.nrefs = id, !.nstamps = tsp]
<1>1. /\ s \in StateType /\ s.q \in QueueType /\ s.input \in InputType
      /\ s.nrefs \in Nat /\ s.nstamps \in Nat /\ s.reader \in [Readers -> ReaderType]
      /\ Named(s.q.chain, s.nrefs) /\ Counts(s.q.chain, s.reader)
  BY Fields DEF Sound
<1>2. id \in Nat /\ tsp \in Nat /\ s.input.ctr \in Nat /\ s.q.last \in Nat
  BY <1>1, InputFields, QueueFields, Sizes
<1>3. [s EXCEPT !.q = CommitTstamp(@, s.nrefs + 1, s.nstamps + 1, s.input.ctr),
                !.nrefs = @ + 1, !.nstamps = @ + 1] = t
  BY <1>1 DEF StateType
<1>4. ref \in TmqRefType /\ ref.id = id /\ ref.ref_count = 0
  BY <1>2 DEF NewRef, TmqRefType
<1>5. q2 = [first |-> s.q.first, last |-> s.q.last, full |-> s.q.full, chain |-> ch2]
  BY DEF CommitTstamp
<1> HIDE DEF ref
<1>6. /\ ch2 \in Seq(TmqRefType) /\ Len(ch2) = Len(s.q.chain) + 1
      /\ ch2[Len(s.q.chain) + 1] = ref
      /\ \A i \in 1 .. Len(s.q.chain) : ch2[i] = s.q.chain[i]
  BY <1>1, <1>4, QueueFields
<1> HIDE DEF ch2
<1>7. q2 \in QueueType /\ q2.chain = ch2
  BY <1>1, <1>5, <1>6 DEF QueueType
<1>8. Named(ch2, id) /\ Counts(ch2, s.reader)
  <2>1. \A i \in 1 .. Len(s.q.chain) : SameRef(s.q.chain[i], ch2[i])
    BY <1>6 DEF SameRef
  <2>2. Len(s.q.chain) \in Nat
    BY <1>1, QueueFields
  <2> QED
    BY <2>1, <2>2, <1>1, <1>4, <1>6, AddRef
<1> HIDE DEF q2, id, tsp
<1>9. /\ t \in StateType /\ t.calls = s.calls /\ t.order = s.order /\ t.reader = s.reader
      /\ t.q = q2 /\ t.nstamps = tsp /\ t.mem = s.mem /\ t.input = s.input
      /\ t.blocked = s.blocked /\ t.log = s.log /\ t.committed = s.committed
      /\ t.failed = s.failed /\ t.nrefs = id
  BY <1>1, <1>2, <1>7 DEF StateType
<1> HIDE DEF t
<1>10. t.q.chain # <<>>
  <2>1. Len(ch2) > 0
    BY <1>1, <1>6, QueueFields
  <2> QED
    BY <2>1, <1>6, <1>7, <1>9
<1>11. Sound(t)
  BY <1>7, <1>8, <1>9, <1>10 DEF Sound, OrderRight, CallsRight
<1> QED
  BY <1>3, <1>9, <1>11 DEF q2, id, tsp

LEMMA RecvTstampSound ==
  ASSUME SoundInv, RecvTstamp
  PROVE  SoundInv'
<1> DEFINE t == [d EXCEPT !.q = CommitTstamp(@, d.nrefs + 1, d.nstamps + 1, d.input.ctr),
                          !.nrefs = @ + 1, !.nstamps = @ + 1]
<1>1. d' = Finish(t, TRUE) /\ arrived' = arrived /\ d.calls = <<>>
  BY DEF RecvTstamp, Reading, Running
<1>2. Sound(t) /\ t.calls = d.calls
  BY TstampSound DEF SoundInv
<1> HIDE DEF t
<1>3. Sound(Finish(t, TRUE)) /\ Awake(Finish(t, TRUE))
  BY <1>1, <1>2, FinishSound
<1> QED
  BY <1>1, <1>3 DEF SoundInv

(* The header of a record of n rows. *)
HeaderIn(s, n, gap) ==
  [s.input EXCEPT !.state = "HDR2", !.nb = n, !.off = 0, !.room = 0,
                  !.ctr = (@ + gap) % CtrMod]

Headed(s, n, gap) ==
  [s EXCEPT !.input.state = "HDR2", !.input.nb = n, !.input.off = 0,
            !.input.room = 0, !.input.ctr = (@ + gap) % CtrMod]

LEMMA HeaderSound ==
  ASSUME NEW s, Sound(s), s.q.chain # <<>>, NEW n \in 1 .. MaxRec, NEW gap \in Nat
  PROVE  LET t == Headed(s, n, gap)
             in == HeaderIn(s, n, gap)
         IN /\ t = [s EXCEPT !.input = in] /\ in \in InputType /\ InputRight(in)
            /\ in.state = "HDR2" /\ in.nb = n /\ in.off = 0 /\ in.room = 0
            /\ Sound(t) /\ t.calls = s.calls
<1> DEFINE in == HeaderIn(s, n, gap)
           t == Headed(s, n, gap)
           c == (s.input.ctr + gap) % CtrMod
<1>1. s \in StateType /\ s.input \in InputType
  BY Fields DEF Sound
<1>2. c \in 0 .. CtrMod - 1
  <2>1. s.input.ctr \in Nat
    BY <1>1, InputFields, Sizes
  <2> QED
    BY <2>1, Sizes, SMTT(30)
<1>3. in = [s.input EXCEPT !.state = "HDR2", !.nb = n, !.off = 0, !.room = 0, !.ctr = c]
  BY DEF HeaderIn
<1> HIDE DEF c
<1>4. /\ in \in InputType /\ in.state = "HDR2" /\ in.nb = n /\ in.off = 0 /\ in.room = 0
  <2> HIDE DEF in
  <2>1. n \in 0 .. MaxRec /\ 0 \in 0 .. MaxRec /\ 0 \in 0 .. TotalQrows
    BY Sizes
  <2> QED
    BY <2>1, <1>1, <1>2, <1>3 DEF InputType
<1>5. InputRight(in)
  BY <1>4, Sizes DEF InputRight
<1>6. t = [s EXCEPT !.input = in]
  BY <1>1 DEF StateType, InputType, HeaderIn, Headed
<1> HIDE DEF in, t
<1>7. Sound(t) /\ t.calls = s.calls
  BY <1>4, <1>5, <1>6, InputSound
<1> QED
  BY <1>4, <1>5, <1>6, <1>7 DEF in, t

LEMMA RecvHeaderSound ==
  ASSUME SoundInv, NEW n \in 1 .. MaxRec, NEW gap \in 0 .. MaxMissing, RecvHeader(n, gap)
  PROVE  SoundInv'
<1> DEFINE s == Headed(d, n, gap)
           t == DataState(s)
<1>1. /\ d' = Finish(t, FALSE) /\ arrived' = arrived /\ d.calls = <<>> /\ d.q.chain # <<>>
  BY DEF RecvHeader, Reading, Running, Headed
<1>2. gap \in Nat
  BY BfrAssumption
<1>3. Sound(s) /\ s.calls = <<>>
  <2>1. Sound(d)
    BY DEF SoundInv
  <2>2. d.q.chain # <<>> /\ d.calls = <<>>
    BY <1>1
  <2>3. Sound(s) /\ s.calls = d.calls
    BY <2>1, <2>2, <1>2, HeaderSound
  <2> QED
    BY <2>2, <2>3
<1> HIDE DEF s
<1>4. Sound(t) /\ t.calls = <<>>
  BY <1>3, DataStateSound DEF QueueStep
<1> HIDE DEF t
<1>5. Sound(Finish(t, FALSE)) /\ Awake(Finish(t, FALSE))
  BY <1>4, FinishSound
<1> QED
  BY <1>1, <1>5 DEF SoundInv

(* A row of the record has arrived. *)
RowIn(in) == [in EXCEPT !.buf = @ + 1, !.room = @ - 1, !.nb = @ - 1, !.off = @ + 1]

LEMMA RowArrives ==
  ASSUME NEW s, Sound(s), s.input.state = "DATA", s.input.room > 0, NEW n \in Nat
  PROVE  LET row == [id |-> n, tsp |-> LastRef(s.q).tsp]
             t == [s EXCEPT !.mem[s.input.buf] = row,
                            !.input.buf = @ + 1, !.input.room = @ - 1,
                            !.input.nb = @ - 1, !.input.off = @ + 1]
             in == RowIn(s.input)
         IN /\ Sound(t) /\ t.input = in /\ row \in ItemType
            /\ t.mem = [s.mem EXCEPT ![s.input.buf] = row]
            /\ s.input.buf \in 0 .. TotalQrows - 1 /\ s.mem \in RingType
            /\ in.state = "DATA" /\ in.buf = s.input.buf + 1 /\ in.room = s.input.room - 1
            /\ in.nb = s.input.nb - 1 /\ in.off = s.input.off + 1
            /\ t.q = s.q /\ t.blocked = s.blocked /\ t.calls = s.calls /\ t.order = s.order
            /\ t.reader = s.reader /\ t.log = s.log /\ t.committed = s.committed
            /\ t.failed = s.failed /\ t.nrefs = s.nrefs /\ t.nstamps = s.nstamps
<1> DEFINE in == RowIn(s.input)
           buf == s.input.buf
           row == [id |-> n, tsp |-> LastRef(s.q).tsp]
           mem2 == [s.mem EXCEPT ![buf] = row]
           u == [s EXCEPT !.mem = mem2]
           t == [s EXCEPT !.mem[s.input.buf] = row,
                          !.input.buf = @ + 1, !.input.room = @ - 1,
                          !.input.nb = @ - 1, !.input.off = @ + 1]
<1>1. /\ s \in StateType /\ s.input \in InputType /\ s.q \in QueueType
      /\ InputRight(s.input) /\ s.q.chain # <<>> /\ s.mem \in RingType
  BY Fields DEF Sound
<1>2. /\ s.input.nb \in 0 .. MaxRec /\ s.input.room \in 0 .. TotalQrows
      /\ s.input.off \in 0 .. MaxRec /\ buf \in 0 .. TotalQrows
      /\ s.input.off + s.input.nb <= MaxRec /\ s.input.room <= s.input.nb
      /\ buf + s.input.room <= TotalQrows
  BY <1>1, InputFields DEF InputRight
<1>3. /\ buf \in 0 .. TotalQrows - 1 /\ buf + 1 \in 0 .. TotalQrows
      /\ s.input.room - 1 \in 0 .. TotalQrows /\ s.input.nb - 1 \in 0 .. MaxRec
      /\ s.input.off + 1 \in 0 .. MaxRec
  BY <1>2, Sizes
<1>4. /\ in \in InputType /\ in.state = "DATA" /\ in.buf = buf + 1
      /\ in.room = s.input.room - 1 /\ in.nb = s.input.nb - 1 /\ in.off = s.input.off + 1
  BY <1>1, <1>3 DEF RowIn, InputType
<1>5. InputRight(in)
  <2> HIDE DEF in
  <2> QED
    BY <1>2, <1>4, Sizes DEF InputRight
<1>6. row \in ItemType
  <2>1. LastRef(s.q) \in TmqRefType
    <3>1. s.q.chain \in Seq(TmqRefType)
      BY <1>1, QueueFields
    <3>2. Len(s.q.chain) \in 1 .. Len(s.q.chain)
      BY <3>1, <1>1
    <3> QED
      BY <3>1, <3>2 DEF LastRef
  <2> QED
    BY <2>1, RefFields DEF ItemType
<1> HIDE DEF row
<1>7. mem2 \in RingType
  BY <1>1, <1>3, <1>6 DEF RingType
<1>8. t = [u EXCEPT !.input = in]
  BY <1>1 DEF StateType, InputType, RowIn
<1> HIDE DEF mem2, in
<1>9. /\ u \in StateType /\ u.mem = mem2 /\ u.input = s.input
      /\ u.q = s.q /\ u.blocked = s.blocked /\ u.calls = s.calls /\ u.order = s.order
      /\ u.reader = s.reader /\ u.log = s.log /\ u.committed = s.committed
      /\ u.failed = s.failed /\ u.nrefs = s.nrefs /\ u.nstamps = s.nstamps
  BY <1>1, <1>7 DEF StateType
<1> HIDE DEF u
<1>10. Sound(u)
  BY <1>9 DEF Sound, OrderRight, CallsRight
<1> HIDE DEF t
<1>11. /\ Sound(t) /\ t.input = in /\ t.mem = mem2
       /\ t.q = s.q /\ t.blocked = s.blocked /\ t.calls = s.calls /\ t.order = s.order
       /\ t.reader = s.reader /\ t.log = s.log /\ t.committed = s.committed
       /\ t.failed = s.failed /\ t.nrefs = s.nrefs /\ t.nstamps = s.nstamps
  BY <1>1, <1>4, <1>5, <1>8, <1>9, <1>10, InputSound
<1> QED
  BY <1>1, <1>3, <1>4, <1>6, <1>11 DEF t, in, mem2, row

LEMMA RecvRowSound ==
  ASSUME SoundInv, RecvRow
  PROVE  SoundInv'
<1> DEFINE s == [d EXCEPT !.mem[d.input.buf] = [id |-> arrived + 1, tsp |-> LastRef(d.q).tsp],
                          !.input.buf = @ + 1, !.input.room = @ - 1,
                          !.input.nb = @ - 1, !.input.off = @ + 1]
           t == EndRecord(DataState(s))
<1>1. /\ d' = IF s.input.room > 0 THEN s ELSE Finish(t, TRUE)
      /\ arrived' = arrived + 1 /\ d.calls = <<>> /\ ~d.blocked /\ d.failed = "none"
      /\ d.input.state = "DATA"
  BY DEF RecvRow, Reading, Running
<1>2. arrived + 1 \in Nat /\ d.input.room > 0
  BY <1>1 DEF SoundInv, Awake
<1>3. Sound(s) /\ s.calls = <<>>
  BY <1>1, <1>2, RowArrives DEF SoundInv
<1> HIDE DEF s
<1>4. CASE s.input.room > 0
  BY <1>1, <1>2, <1>3, <1>4 DEF SoundInv, Awake
<1>5. CASE ~(s.input.room > 0)
  <2>1. Sound(DataState(s)) /\ DataState(s).calls = <<>>
    BY <1>3, DataStateSound DEF QueueStep
  <2>2. Sound(t) /\ t.calls = <<>>
    BY <2>1, EndRecordSound
  <2> HIDE DEF t
  <2>3. Sound(Finish(t, TRUE)) /\ Awake(Finish(t, TRUE))
    BY <2>2, FinishSound
  <2> QED
    BY <1>1, <1>2, <1>5, <2>3 DEF SoundInv
<1> QED
  BY <1>4, <1>5

-----------------------------------------------------------------------------
(* The run of the calls keeps the invariant.                               *)

LEMMA VisitSound ==
  ASSUME SoundInv, Visit
  PROVE  SoundInv'
<1> DEFINE t == VisitReader(d, d.order[Place(d)])
<1>1. /\ d.failed = "none" /\ d.calls # <<>> /\ Place(d) <= Len(d.order)
      /\ d' = t /\ arrived' = arrived
  BY DEF Visit
<1>2. Sound(d) /\ Topped(d)
  BY <1>1 DEF SoundInv, Topped
<1>3. Sound(t) /\ t.input = d.input /\ t.blocked = d.blocked
  BY <1>1, <1>2, VisitReaderSound
<1> HIDE DEF t
<1>4. Awake(t)
  BY <1>1, <1>3 DEF SoundInv, Awake
<1> QED
  BY <1>1, <1>3, <1>4 DEF SoundInv

(* The innermost call ends. *)
LEMMA PopSound ==
  ASSUME NEW s, Sound(s), s.calls # <<>>
  PROVE  LET t == [s EXCEPT !.calls = Front(@)]
         IN /\ Sound(t) /\ Topped(t) /\ SameQueueSide(s, t) /\ t.reader = s.reader
<1> DEFINE n == Len(s.calls)
           c == Front(s.calls)
           t == [s EXCEPT !.calls = c]
<1>1. /\ s \in StateType /\ s.calls \in Seq(Nat \ {0}) /\ n \in Nat /\ n > 0
      /\ s.order \in Seq(Readers)
  BY Fields DEF Sound
<1>2. /\ c \in Seq(Nat \ {0}) /\ Len(c) = n - 1
      /\ \A i \in 1 .. n - 1 : c[i] = s.calls[i]
  BY <1>1 DEF Front
<1>3. [s EXCEPT !.calls = Front(@)] = t
  BY <1>1 DEF StateType
<1>4. \A i \in 1 .. Len(c) : c[i] <= Len(s.order) /\ c[i] <= Len(s.order) + 1
  <2> SUFFICES ASSUME NEW i \in 1 .. n - 1
               PROVE  s.calls[i] <= Len(s.order) /\ s.calls[i] <= Len(s.order) + 1
    BY <1>2
  <2>1. i \in 1 .. n /\ i < n
    BY <1>1
  <2> QED
    BY <2>1 DEF Sound, CallsRight
<1> HIDE DEF c
<1>5. /\ Sound(t) /\ t.calls = c /\ SameQueueSide(s, t) /\ t.reader = s.reader
      /\ t.order = s.order
  BY <1>2, <1>4, CallsSound, ZenonT(30) DEF SameQueueSide
<1> HIDE DEF t
<1>6. Topped(t)
  <2>1. ASSUME c # <<>>
        PROVE  Len(c) \in 1 .. Len(c)
    BY <2>1, <1>2
  <2> QED
    BY <2>1, <1>4, <1>5 DEF Topped, Place
<1> QED
  BY <1>3, <1>5, <1>6

LEMMA ReturnSound ==
  ASSUME SoundInv, Return
  PROVE  SoundInv'
<1> DEFINE u == [d EXCEPT !.calls = Front(@)]
           s == RunWriteQueue(u)
<1>1. /\ d.failed = "none" /\ d.calls # <<>> /\ arrived' = arrived
      /\ d' = IF s.failed # "none" THEN s ELSE GoOn(s)
  BY DEF Return
<1>2. Sound(u) /\ Topped(u) /\ SameQueueSide(d, u)
  BY <1>1, PopSound DEF SoundInv
<1> HIDE DEF u
<1>3. Awake(u)
  BY <1>2 DEF SoundInv, Awake, SameQueueSide
<1>4. Sound(s) /\ Awake(s) /\ s.calls = u.calls /\ s.order = u.order
  BY <1>2, <1>3, RunWriteQueueSound
<1>5. Topped(s)
  BY <1>2, <1>4 DEF Topped, Place
<1> HIDE DEF s
<1>6. GoneOn(s, GoOn(s))
  BY <1>4, <1>5, GoOnSound
<1>7. Sound(GoOn(s)) /\ Awake(GoOn(s))
  BY <1>4, <1>6 DEF GoneOn, SameQueueSide, Awake
<1> QED
  BY <1>1, <1>4, <1>7 DEF SoundInv

-----------------------------------------------------------------------------
(* The output clients' actions keep the invariant.                         *)

LEMMA ConnectSound ==
  ASSUME SoundInv, NEW r \in Readers, Connect(r)
  PROVE  SoundInv'
<1> DEFINE o == Append(d.order, r)
           s == [d EXCEPT !.order = o]
<1>1. /\ d.failed = "none" /\ d.calls = <<>> /\ r \notin ToSet(d.order)
      /\ d' = (IF s.blocked THEN RunReadQueue(s) ELSE s) /\ arrived' = arrived
  BY DEF Connect, Running
<1>2. /\ Sound(d) /\ d \in StateType /\ d.order \in Seq(Readers) /\ OrderRight(d)
  BY Fields DEF SoundInv, Sound
<1>3. /\ o \in Seq(Readers) /\ Len(o) = Len(d.order) + 1 /\ o[Len(d.order) + 1] = r
      /\ \A i \in 1 .. Len(d.order) : o[i] = d.order[i]
  BY <1>2
<1>4. IsInjective(o)
  <2>1. \A i, j \in 1 .. Len(d.order) : d.order[i] = d.order[j] => i = j
    BY <1>2 DEF OrderRight, IsInjective
  <2>2. \A i \in 1 .. Len(d.order) : d.order[i] # r
    BY <1>1, <1>2 DEF ToSet
  <2> HIDE DEF o
  <2>3. \A i, j \in 1 .. Len(o) : o[i] = o[j] => i = j
    BY <2>1, <2>2, <1>3
  <2> QED
    BY <2>3, <1>3 DEF IsInjective
<1>5. ToSet(o) = ToSet(d.order) \cup {r}
  <2> HIDE DEF o
  <2> QED
    BY <1>2, <1>3 DEF ToSet
<1> HIDE DEF o
<1>6. /\ s \in StateType /\ s.order = o /\ s.q = d.q /\ s.nrefs = d.nrefs
      /\ s.input = d.input /\ s.reader = d.reader /\ s.calls = d.calls
      /\ s.log = d.log /\ s.failed = d.failed /\ s.blocked = d.blocked
  BY <1>2, <1>3 DEF StateType
<1> HIDE DEF s
<1>7. OrderRight(s)
  BY <1>2, <1>4, <1>5, <1>6 DEF OrderRight
<1>8. CallsRight(s)
  BY <1>1, <1>6 DEF CallsRight
<1>9. Sound(s) /\ Awake(s)
  BY <1>2, <1>6, <1>7, <1>8 DEF Sound, SoundInv, Awake
<1>10. Topped(s)
  BY <1>1, <1>6 DEF Topped
<1>11. Sound(RunReadQueue(s)) /\ Awake(RunReadQueue(s))
  <2>1. Sound(RunReadQueue(s)) /\ SameQueueSide(s, RunReadQueue(s))
    BY <1>9, <1>10, RunReadQueueSound
  <2> QED
    BY <2>1, <1>9 DEF Awake, SameQueueSide
<1> QED
  BY <1>1, <1>9, <1>11 DEF SoundInv

(* What is left of a list without repetitions has none. *)
LEMMA OnlyInjective ==
  ASSUME NEW E, NEW o \in Seq(E), IsInjective(o), NEW S
  PROVE  IsInjective(Only(o, S))
<1>1. PICK pick \in [0 .. Len(o) -> Seq(E)] : Picks(pick, o, S)
  BY OnlySteps
<1> DEFINE Fine(m) == /\ Holds(pick[m], o, S, m)
                      /\ \A i, j \in 1 .. Len(pick[m]) : pick[m][i] = pick[m][j] => i = j
           T == {m \in 0 .. Len(o) : Fine(m)}
<1>2. 0 \in T
  BY <1>1 DEF Picks, Holds
<1>3. ASSUME NEW m \in 1 .. Len(o), m - 1 \in T
      PROVE  m \in T
  <2> DEFINE p == pick[m - 1]
             x == pick[m]
  <2>1. p \in Seq(E) /\ m - 1 \in Nat /\ o[m] \in E
    BY <1>1
  <2>2. Holds(p, o, S, m - 1) /\ \A i, j \in 1 .. Len(p) : p[i] = p[j] => i = j
    BY <1>3
  <2>3. x = IF o[m] \in S THEN Append(p, o[m]) ELSE p
    BY <1>1 DEF Picks
  <2> HIDE DEF x, p
  <2>4. Holds(x, o, S, m)
    BY <2>1, <2>2, <2>3, HoldsNext
  <2>5. \A i \in 1 .. Len(p) : p[i] # o[m]
    <3> SUFFICES ASSUME NEW i \in 1 .. Len(p), p[i] = o[m]
                 PROVE  FALSE
      OBVIOUS
    <3>1. PICK k \in 1 .. m - 1 : o[k] = o[m]
      BY <2>2 DEF Holds
    <3>2. k \in DOMAIN o /\ m \in DOMAIN o /\ k # m
      BY <3>1
    <3> QED
      BY <3>1, <3>2 DEF IsInjective
  <2>6. ASSUME NEW i \in 1 .. Len(x), NEW j \in 1 .. Len(x), x[i] = x[j]
        PROVE  i = j
    <3>1. CASE o[m] \notin S
      BY <3>1, <2>2, <2>3, <2>6
    <3>2. CASE o[m] \in S
      <4>1. /\ Len(x) = Len(p) + 1 /\ x[Len(p) + 1] = o[m] /\ Len(p) \in Nat
            /\ \A k \in 1 .. Len(p) : x[k] = p[k]
        BY <3>2, <2>1, <2>3
      <4> QED
        BY <4>1, <2>2, <2>5, <2>6
    <3> QED
      BY <3>1, <3>2
  <2>7. Fine(m)
    BY <2>4, <2>6 DEF x
  <2> QED
    BY <2>7
<1>4. Len(o) \in Nat /\ Len(o) \in 0 .. Len(o)
  OBVIOUS
<1>5. 0 .. Len(o) \subseteq T
  <2> HIDE DEF T
  <2> QED
    BY <1>2, <1>3, <1>4, Upwards
<1>6. Fine(Len(o)) /\ Only(o, S) = pick[Len(o)] /\ pick[Len(o)] \in Seq(E)
  BY <1>1, <1>4, <1>5 DEF Picks
<1> QED
  BY <1>6 DEF IsInjective

(* A reader that leaves is taken out of the order. *)
LEMMA OrderWithout ==
  ASSUME NEW o \in Seq(Readers), IsInjective(o), NEW r
  PROVE  LET o2 == Only(o, Readers \ {r})
         IN o2 \in Seq(Readers) /\ IsInjective(o2) /\ ToSet(o2) = ToSet(o) \ {r}
<1> DEFINE o2 == Only(o, Readers \ {r})
<1>1. o2 \in Seq(Readers) /\ Holds(o2, o, Readers \ {r}, Len(o))
  BY OnlyMembers
<1>2. IsInjective(o2)
  BY OnlyInjective
<1> HIDE DEF o2
<1>3. ToSet(o2) = ToSet(o) \ {r}
  BY <1>1 DEF Holds, ToSet
<1> QED
  BY <1>1, <1>2, <1>3 DEF o2

(* The chain without the count of a reader that leaves. *)
LEMMA LetGoRefs ==
  ASSUME NEW s, Sound(s), NEW r \in Readers
  PROVE  LET q2 == LetGo(s, r)
             h2 == [s.reader EXCEPT ![r] = Idle]
         IN /\ q2 \in QueueType /\ SameQueueRows(s.q, q2)
            /\ Named(q2.chain, s.nrefs) /\ Counts(q2.chain, h2)
<1> DEFINE h == s.reader
           h2 == [s.reader EXCEPT ![r] = Idle]
           ch == s.q.chain
           q2 == LetGo(s, r)
<1>1. /\ s \in StateType /\ h \in [Readers -> ReaderType] /\ s.q \in QueueType
      /\ Named(ch, s.nrefs) /\ Counts(ch, h)
  BY Fields DEF Sound
<1>2. h2[r].tmqr = 0 /\ \A p \in Readers : p # r => h2[p] = h[p]
  BY <1>1 DEF Idle
<1>3. /\ ch \in Seq(TmqRefType) /\ Len(ch) \in Nat
      /\ \A i \in 1 .. Len(ch) : ch[i] \in TmqRefType
  BY <1>1, QueueFields
<1>4. CASE h[r].tmqr = 0
  <2>1. q2 = s.q
    BY <1>4 DEF LetGo
  <2>2. \A p \in Readers : h2[p].tmqr = h[p].tmqr
    BY <1>2, <1>4
  <2> HIDE DEF h2, h, ch
  <2>3. Counts(ch, h2)
    BY <2>2, <1>1, SameHolds
  <2> QED
    BY <2>1, <2>3, <1>1, SameQueueItself DEF h2, ch
<1>5. CASE h[r].tmqr # 0
  <2> DEFINE i == At(s.q, h[r].tmqr)
             less == ch[i].ref_count - 1
             ref == [ch[i] EXCEPT !.ref_count = less]
             ch2 == [ch EXCEPT ![i] = ref]
  <2>1. i \in 1 .. Len(ch) /\ ch[i].id = h[r].tmqr
    <3>1. \E k \in 1 .. Len(s.q.chain) : s.q.chain[k].id = s.reader[r].tmqr
      BY <1>1, <1>5 DEF Counts
    <3> QED
      BY <3>1, <1>1, AtIsThere
  <2>2. q2 = [s.q EXCEPT !.chain = ch2]
    BY <1>1, <1>5 DEF LetGo
  <2> HIDE DEF i
  <2>3. Moved(h, h2, r)
    BY <1>2, <1>5 DEF Moved
  <2>4. ch[i] \in TmqRefType /\ less \in Nat
    <3> HIDE DEF h2, h, ch
    <3>1. Cardinality(Holders(h, h[r].tmqr)) > 0
      BY <2>3, HoldersMove
    <3>2. ch[i].ref_count > 0
      BY <3>1, <2>1, <1>1 DEF Counts
    <3> QED
      BY <3>2, <2>1, <1>3, RefFields
  <2> HIDE DEF less
  <2>5. ref \in TmqRefType /\ SameRows(ch[i], ref) /\ ref.ref_count = less
    BY <2>4 DEF TmqRefType, SameRows
  <2> HIDE DEF ref
  <2>6. /\ ch2 \in Seq(TmqRefType) /\ Len(ch2) = Len(ch) /\ ch2[i] = ref
        /\ \A k \in 1 .. Len(ch) : k # i => ch2[k] = ch[k]
    BY <2>1, <2>5, <1>3
  <2> HIDE DEF ch2
  <2>7. ASSUME NEW k \in 1 .. Len(ch)
        PROVE  /\ SameRows(ch[k], ch2[k])
               /\ ch2[k].ref_count = CountMoved(ch[k].ref_count, ch[k].id, h, h2, r)
    <3> HIDE DEF h, h2, ch
    <3>1. CASE k = i
      <4>1. CountMoved(ch[k].ref_count, ch[k].id, h, h2, r) = less
        BY <3>1, <2>1 DEF CountMoved, less
      <4>2. SameRows(ch[k], ch2[k]) /\ ch2[k].ref_count = less
        BY <3>1, <2>5, <2>6
      <4> QED
        BY <4>1, <4>2
    <3>2. CASE k # i
      <4>1. ch2[k] = ch[k] /\ SameRows(ch[k], ch[k])
        BY <3>2, <2>6 DEF SameRows
      <4>2. ch[k].id # h[r].tmqr /\ ch[k].id # h2[r].tmqr
        BY <3>2, <2>1, <1>1, <1>2 DEF Named
      <4>3. CountMoved(ch[k].ref_count, ch[k].id, h, h2, r) = ch[k].ref_count
        BY <4>2 DEF CountMoved
      <4> QED
        BY <4>1, <4>3
    <3> QED
      BY <3>1, <3>2
  <2>8. Named(ch2, s.nrefs) /\ Counts(ch2, h2)
    <3>1. \A k \in 1 .. Len(ch) :
            /\ ch2[k].id = ch[k].id
            /\ ch2[k].ref_count = CountMoved(ch[k].ref_count, ch[k].id, h, h2, r)
      BY <2>7 DEF SameRows
    <3> HIDE DEF h, h2, ch
    <3> QED
      BY <3>1, <2>3, <2>6, <1>1, <1>2, Recount
  <2>9. /\ q2 \in QueueType /\ q2.chain = ch2 /\ q2.first = s.q.first
        /\ q2.last = s.q.last /\ q2.full = s.q.full
    BY <2>2, <2>6, <1>1 DEF QueueType
  <2>10. SameQueueRows(s.q, q2)
    BY <2>6, <2>7, <2>9 DEF SameQueueRows
  <2> HIDE DEF h2, q2
  <2> QED
    BY <2>8, <2>9, <2>10 DEF h2, q2
<1> QED
  BY <1>4, <1>5

(* What a reader leaves behind. *)
LEMMA LeaveState ==
  ASSUME NEW s, Sound(s), s.calls = <<>>, NEW r \in ToSet(s.order)
  PROVE  LET t == [s EXCEPT !.q = LetGo(s, r), !.order = Only(@, Readers \ {r}),
                            !.reader[r] = Idle, !.sock[r] = 0, !.log[r] = <<>>]
         IN /\ Sound(t) /\ SameQueueRows(s.q, t.q) /\ t.mem = s.mem /\ t.input = s.input
            /\ t.blocked = s.blocked /\ t.failed = s.failed /\ t.committed = s.committed
            /\ t.nrefs = s.nrefs /\ t.nstamps = s.nstamps /\ t.calls = s.calls
            /\ t.reader = [s.reader EXCEPT ![r] = Idle]
            /\ t.log = [s.log EXCEPT ![r] = <<>>]
            /\ ToSet(t.order) = ToSet(s.order) \ {r}
<1> DEFINE q2 == LetGo(s, r)
           o2 == Only(s.order, Readers \ {r})
           h2 == [s.reader EXCEPT ![r] = Idle]
           k2 == [s.sock EXCEPT ![r] = 0]
           l2 == [s.log EXCEPT ![r] = <<>>]
           t == [s EXCEPT !.q = q2, !.order = o2, !.reader = h2, !.sock = k2, !.log = l2]
<1>1. /\ s \in StateType /\ s.order \in Seq(Readers) /\ s.reader \in [Readers -> ReaderType]
      /\ s.sock \in [Readers -> 0 .. SockCap] /\ s.log \in [Readers -> Seq(SentType)]
      /\ OrderRight(s) /\ s.q \in QueueType
  BY Fields DEF Sound
<1>2. r \in Readers
  BY <1>1 DEF ToSet
<1>3. /\ q2 \in QueueType /\ SameQueueRows(s.q, q2)
      /\ Named(q2.chain, s.nrefs) /\ Counts(q2.chain, h2)
  BY <1>2, LetGoRefs
<1>4. /\ o2 \in Seq(Readers) /\ IsInjective(o2) /\ ToSet(o2) = ToSet(s.order) \ {r}
  BY <1>1, OrderWithout DEF OrderRight
<1>5. /\ h2 \in [Readers -> ReaderType] /\ k2 \in [Readers -> 0 .. SockCap]
      /\ l2 \in [Readers -> Seq(SentType)]
  <2>1. Idle \in ReaderType
    BY DEF Idle, ReaderType
  <2>2. <<>> \in Seq(SentType) /\ 0 \in 0 .. SockCap
    BY Sizes
  <2> QED
    BY <2>1, <2>2, <1>1
<1>6. /\ h2[r] = Idle /\ l2[r] = <<>>
      /\ \A p \in Readers : p # r => h2[p] = s.reader[p] /\ l2[p] = s.log[p]
  BY <1>1, <1>2
<1>7. [s EXCEPT !.q = LetGo(s, r), !.order = Only(@, Readers \ {r}),
                !.reader[r] = Idle, !.sock[r] = 0, !.log[r] = <<>>] = t
  BY <1>1 DEF StateType
<1> HIDE DEF q2, o2, h2, k2, l2
<1>8. /\ t \in StateType /\ t.q = q2 /\ t.order = o2 /\ t.reader = h2 /\ t.log = l2
      /\ t.mem = s.mem /\ t.input = s.input /\ t.blocked = s.blocked /\ t.failed = s.failed
      /\ t.committed = s.committed /\ t.nrefs = s.nrefs /\ t.nstamps = s.nstamps
      /\ t.calls = s.calls
  BY <1>1, <1>3, <1>4, <1>5 DEF StateType
<1> HIDE DEF t
<1>9. OrderRight(t)
  <2>1. \A p \in Readers \ ToSet(o2) : p = r \/ p \in Readers \ ToSet(s.order)
    BY <1>4
  <2> QED
    BY <2>1, <1>1, <1>4, <1>6, <1>8 DEF OrderRight
<1>10. CallsRight(t)
  BY <1>8 DEF CallsRight
<1>11. t.input.state # "HDR" => t.q.chain # <<>>
  <2>1. Len(q2.chain) = Len(s.q.chain)
    BY <1>3 DEF SameQueueRows
  <2>2. s.q.chain \in Seq(TmqRefType) /\ q2.chain \in Seq(TmqRefType)
    BY <1>1, <1>3, QueueFields
  <2>3. s.q.chain # <<>> => q2.chain # <<>>
    BY <2>1, <2>2
  <2> QED
    BY <2>3, <1>8 DEF Sound
<1>12. Sound(t)
  BY <1>3, <1>8, <1>9, <1>10, <1>11 DEF Sound
<1> QED
  BY <1>3, <1>4, <1>7, <1>8, <1>12 DEF h2, l2

LEMMA LeaveSound ==
  ASSUME SoundInv, NEW r \in Readers, Disconnect(r)
  PROVE  SoundInv'
<1> DEFINE t == [d EXCEPT !.q = LetGo(d, r), !.order = Only(@, Readers \ {r}),
                          !.reader[r] = Idle, !.sock[r] = 0, !.log[r] = <<>>]
<1>1. r \in ToSet(d.order) /\ d.calls = <<>> /\ d' = t /\ arrived' = arrived
  BY DEF Disconnect, Running
<1>2. Sound(d)
  BY DEF SoundInv
<1>3. Sound(t) /\ t.input = d.input /\ t.blocked = d.blocked /\ t.failed = d.failed
  <2>1. r \in ToSet(d.order) /\ d.calls = <<>>
    BY <1>1
  <2> QED
    BY <2>1, <1>2, LeaveState
<1> HIDE DEF t
<1> QED
  BY <1>1, <1>3 DEF SoundInv, Awake

LEMMA PeerReadsSound ==
  ASSUME SoundInv, NEW r \in Readers, PeerReads(r)
  PROVE  /\ SoundInv' /\ arrived' = arrived
         /\ SameQueueSide(d, d') /\ d'.reader = d.reader /\ d'.calls = d.calls
<1> DEFINE k2 == [d.sock EXCEPT ![r] = @ - 1]
           t == [d EXCEPT !.sock = k2]
<1>1. Sound(d) /\ d \in StateType /\ d.sock \in [Readers -> 0 .. SockCap] /\ arrived \in Nat
  BY Fields DEF SoundInv, Sound
<1>2. d' = t /\ arrived' = arrived /\ d.sock[r] > 0
  BY <1>1 DEF PeerReads
<1>3. k2 \in [Readers -> 0 .. SockCap]
  BY <1>1, <1>2, Sizes
<1> HIDE DEF k2
<1>4. /\ t \in StateType /\ SameQueueSide(d, t) /\ t.reader = d.reader /\ t.calls = d.calls
  BY <1>1, <1>3 DEF StateType, SameQueueSide
<1> HIDE DEF t
<1>5. Sound(t)
  BY <1>1, <1>4 DEF Sound, OrderRight, CallsRight, SameQueueSide
<1> QED
  BY <1>1, <1>2, <1>4, <1>5 DEF SoundInv, Awake, SameQueueSide

LEMMA WritableSound ==
  ASSUME SoundInv, NEW r \in Readers, Writable(r)
  PROVE  SoundInv' /\ Going(d, d', r) /\ arrived' = arrived /\ d.failed = "none"
<1> DEFINE items == d.reader[r].iov
           t == WriteV(d, r, items)
<1>1. /\ d' = t /\ arrived' = arrived /\ d.failed = "none" /\ d.calls = <<>> /\ items # <<>>
  BY DEF Writable, CanWrite, Running
<1>2. Sound(d) /\ Awake(d) /\ d.reader \in [Readers -> ReaderType] /\ arrived \in Nat
  BY Fields DEF SoundInv, Sound
<1>3. Topped(d)
  BY <1>1 DEF Topped
<1>4. r \in ToSet(d.order)
  BY <1>1, <1>2 DEF Sound, OrderRight, Idle
<1>5. items \in Seq(OutType)
  BY <1>2 DEF ReaderType
<1> HIDE DEF items
<1>6. Going(d, t, r)
  BY <1>1, <1>2, <1>3, <1>4, <1>5, WriteVSound
<1> HIDE DEF t
<1>7. Sound(t) /\ Awake(t)
  BY <1>2, <1>6 DEF Going, ReaderStep, Awake
<1> QED
  BY <1>1, <1>2, <1>6, <1>7 DEF SoundInv

-----------------------------------------------------------------------------
(* The invariant holds, whatever records come.                             *)

LEMMA InitSound ==
  ASSUME BfrInit
  PROVE  SoundInv
<1>1. /\ d.q = EmptyQueue /\ d.mem = [slot \in 0 .. TotalQrows - 1 |-> NoRow]
      /\ d.nrefs = 0 /\ d.nstamps = 0
      /\ d.input = [state |-> "HDR", nb |-> 0, room |-> 0, off |-> 0, buf |-> 0, ctr |-> 0]
      /\ d.blocked = FALSE /\ d.order = <<>> /\ d.calls = <<>>
      /\ d.reader = [r \in Readers |-> Idle] /\ d.sock = [r \in Readers |-> 0]
      /\ d.log = [r \in Readers |-> <<>>] /\ d.committed = 0 /\ d.failed = "none"
      /\ arrived = 0
  BY DEF BfrInit
<1>2. EmptyQueue \in QueueType /\ EmptyQueue.chain = <<>>
  BY Sizes DEF EmptyQueue, QueueType
<1>3. [slot \in 0 .. TotalQrows - 1 |-> NoRow] \in RingType
  BY DEF RingType, NoRow, ItemType
<1>4. d.input \in InputType /\ InputRight(d.input)
  BY <1>1, Sizes DEF InputType, InputRight
<1>5. Idle \in ReaderType
  BY DEF Idle, ReaderType
<1>6. d.reader \in [Readers -> ReaderType] /\ d.sock \in [Readers -> 0 .. SockCap]
      /\ d.log \in [Readers -> Seq(SentType)]
  BY <1>1, <1>5, Sizes
<1>7. "none" \in Fates
  BY DEF Fates
<1>8. d \in StateType
  <2>1. d.order \in Seq(Readers) /\ d.calls \in Seq(Nat \ {0})
    BY <1>1
  <2>2. d.q \in QueueType /\ d.mem \in RingType
    BY <1>1, <1>2, <1>3
  <2>3. d = [q |-> d.q, mem |-> d.mem, nrefs |-> d.nrefs, nstamps |-> d.nstamps,
             input |-> d.input, blocked |-> d.blocked, order |-> d.order, calls |-> d.calls,
             reader |-> d.reader, sock |-> d.sock, log |-> d.log,
             committed |-> d.committed, failed |-> d.failed]
    BY DEF BfrInit
  <2>4. /\ d.nrefs \in Nat /\ d.nstamps \in Nat /\ d.blocked \in BOOLEAN
        /\ d.committed \in Nat /\ d.failed \in Fates
    <3>1. d.blocked \in BOOLEAN
      BY <1>1, Zenon
    <3>2. /\ d.nrefs \in Nat /\ d.nstamps \in Nat /\ d.committed \in Nat
      BY <1>1
    <3>3. d.failed \in Fates
      BY <1>1, <1>7, Zenon
    <3> QED
      BY <3>1, <3>2, <3>3
  <2> QED
    BY <2>1, <2>2, <2>3, <2>4, <1>4, <1>6 DEF StateType
<1>9. Named(d.q.chain, d.nrefs) /\ Counts(d.q.chain, d.reader)
  <2>1. \A r \in Readers : d.reader[r].tmqr = 0
    BY <1>1 DEF Idle
  <2> QED
    BY <2>1, <1>1, <1>2 DEF Named, Counts
<1>10. OrderRight(d) /\ CallsRight(d)
  BY <1>1 DEF OrderRight, CallsRight, IsInjective
<1> QED
  BY <1>1, <1>4, <1>8, <1>9, <1>10 DEF SoundInv, Sound, Awake

LEMMA NextSound ==
  ASSUME SoundInv, [BfrNext]_bfrvars
  PROVE  SoundInv'
<1>1. CASE UNCHANGED bfrvars
  <2>1. d' = d /\ arrived' = arrived
    BY <1>1 DEF bfrvars
  <2> QED
    BY <2>1 DEF SoundInv
<1>2. CASE RecvTstamp
  BY <1>2, RecvTstampSound
<1>3. ASSUME NEW n \in 1 .. MaxRec, NEW gap \in 0 .. MaxMissing, RecvHeader(n, gap)
      PROVE  SoundInv'
  BY <1>3, RecvHeaderSound
<1>4. CASE RecvRow
  BY <1>4, RecvRowSound
<1>5. CASE Visit
  BY <1>5, VisitSound
<1>6. CASE Return
  BY <1>6, ReturnSound
<1>7. ASSUME NEW r \in Readers, Connect(r) \/ Disconnect(r) \/ PeerReads(r) \/ Writable(r)
      PROVE  SoundInv'
  BY <1>7, ConnectSound, LeaveSound, PeerReadsSound, WritableSound
<1> QED
  BY <1>1, <1>2, <1>3, <1>4, <1>5, <1>6, <1>7 DEF BfrNext

(* What the buffer is made of fits together in every state, whatever records
   come and however the readers read. *)
THEOREM BufferSound == BfrSpec => []SoundInv
<1>1. BfrInit => SoundInv
  BY InitSound
<1>2. SoundInv /\ [BfrNext]_bfrvars => SoundInv'
  BY NextSound
<1> QED
  BY <1>1, <1>2, PTL DEF BfrSpec

LEMMA SoundRefCounts ==
  ASSUME SoundInv
  PROVE  RefCounts
<1>1. Sound(d) /\ d \in StateType
  BY DEF SoundInv, Sound
<1>2. BfrTypeOK
  <2>1. IsInjective(d.order) /\ ToSet(d.order) \subseteq Readers
    <3>1. d.order \in Seq(Readers)
      BY <1>1, Fields
    <3> QED
      BY <3>1, <1>1 DEF Sound, OrderRight, ToSet
  <2>2. \A r \in Readers : d.sock[r] \in 0 .. SockCap
    BY <1>1, Fields
  <2> QED
    BY <2>1, <2>2, <1>1, Fields DEF BfrTypeOK, InputType, Fates
<1>3. \A r \in Readers : d.reader[r].tmqr # 0 => r \in ToSet(d.order)
  BY <1>1 DEF Sound, OrderRight, Idle
<1>4. ToSet(d.order) \subseteq Readers
  BY <1>2 DEF BfrTypeOK
<1>5. \A r \in Holding : \E i \in 1 .. Len(d.q.chain) : d.q.chain[i].id = d.reader[r].tmqr
  BY <1>1, <1>4 DEF Holding, Sound, Counts
<1>6. ASSUME NEW i \in 1 .. Len(d.q.chain)
      PROVE  d.q.chain[i].ref_count =
               Cardinality({r \in Holding : d.reader[r].tmqr = d.q.chain[i].id})
  <2>1. d.q.chain[i].id # 0
    BY <1>1 DEF Sound, Named
  <2>2. {r \in Holding : d.reader[r].tmqr = d.q.chain[i].id} =
          Holders(d.reader, d.q.chain[i].id)
    BY <2>1, <1>3, <1>4 DEF Holding, Holders
  <2> QED
    BY <2>2, <1>1 DEF Sound, Counts
<1> QED
  BY <1>2, <1>5, <1>6 DEF RefCounts

(* Every tmq_ref of the chain counts the readers that hold it, and what a reader
   holds is in the chain, for any number of readers and whatever records come
   (bfr.cc:435-445, 542-548, 616-620; tm_queue.cc:36-42, 205). *)
THEOREM RefCountsHold == BfrSpec => []RefCounts
<1>1. SoundInv => RefCounts
  BY SoundRefCounts
<1> QED
  BY <1>1, BufferSound, PTL

-----------------------------------------------------------------------------
(* The rows and their places in the ring, when records come whole.         *)

(* Rows in the ring. *)
Filled(x) == IF x.full THEN TotalQrows
             ELSE IF x.last >= x.first THEN x.last - x.first
             ELSE x.last - x.first + TotalQrows

(* com rows have been committed and ret retired; bs[i] of them came before those
   of the tmq_ref in place i.  What has been retired of a tmq_ref came before
   its rows, and only the first one has had any retired. *)
Laid(x, bs, com, ret, stamps) ==
  /\ x \in QueueType /\ bs \in Seq(Nat) /\ com \in Nat /\ ret \in Nat /\ stamps \in Nat
  /\ ChainInv(x.chain, bs, x.first, com, ret, stamps)
  /\ ret <= com /\ com - ret = Filled(x)
  /\ x.full => x.first = x.last
  /\ \A i \in 1 .. Len(x.chain) : /\ x.chain[i].Qrows_retired <= bs[i]
                                  /\ i > 1 => x.chain[i].Qrows_retired = 0

LEMMA LaidFacts ==
  ASSUME NEW x, NEW bs, NEW com, NEW ret, NEW stamps, Laid(x, bs, com, ret, stamps)
  PROVE  /\ x.chain \in Seq(TmqRefType) /\ bs \in Seq(Nat) /\ Len(bs) = Len(x.chain)
         /\ Len(x.chain) \in Nat /\ Counted(x.chain, bs)
         /\ x.first \in 0 .. TotalQrows - 1 /\ x.last \in 0 .. TotalQrows - 1
         /\ x.full \in BOOLEAN
         /\ com \in Nat /\ ret \in Nat /\ stamps \in Nat
         /\ com - ret <= TotalQrows /\ x.last = Wrap(x.first + (com - ret))
<1>1. /\ x.first \in 0 .. TotalQrows - 1 /\ x.last \in 0 .. TotalQrows - 1
      /\ x.full \in BOOLEAN /\ x.chain \in Seq(TmqRefType) /\ Len(x.chain) \in Nat
  BY QueueFields DEF Laid
<1>2. Len(bs) = Len(x.chain)
  BY DEF Laid, ChainInv
<1>3. Counted(x.chain, bs)
  BY <1>1, <1>2, CountedChain DEF Laid
<1>4. /\ com \in Nat /\ ret \in Nat /\ ret <= com /\ com - ret = Filled(x)
      /\ x.full => x.first = x.last
  BY DEF Laid
<1> DEFINE first == x.first
           last == x.last
           full == x.full
<1>5. com - ret = IF full THEN TotalQrows
                  ELSE IF last >= first THEN last - first
                  ELSE last - first + TotalQrows
  BY <1>4 DEF Filled
<1>6. /\ first \in 0 .. TotalQrows - 1 /\ last \in 0 .. TotalQrows - 1 /\ full \in BOOLEAN
      /\ (full => first = last) /\ TotalQrows \in Nat /\ TotalQrows > 0
  BY <1>1, <1>4, Sizes
<1> HIDE DEF first, last, full
<1>7. com - ret <= TotalQrows /\ last = Wrap(first + (com - ret))
  BY ONLY <1>4, <1>5, <1>6, SMTT(60) DEF Wrap
<1> QED
  BY <1>1, <1>2, <1>3, <1>4, <1>7 DEF Laid, first, last

LEMMA LaidAt ==
  ASSUME NEW x, NEW bs, NEW com, NEW ret, NEW stamps, Laid(x, bs, com, ret, stamps),
         NEW i \in 1 .. Len(x.chain)
  PROVE  /\ x.chain[i].Qrow = Wrap(x.first + (bs[i] - ret))
         /\ ret <= bs[i] /\ bs[i] + x.chain[i].n_Qrows <= com
         /\ x.chain[i].tsp <= stamps
         /\ x.chain[i].n_Qrows \in Nat /\ x.chain[i].tsp \in Nat /\ bs[i] \in Nat
         /\ x.chain[i].Qrows_retired \in Nat /\ x.chain[i].Qrows_retired <= bs[i]
         /\ x.chain[i].id \in Nat
<1>1. Counted(x.chain, bs) /\ x.chain \in Seq(TmqRefType)
  BY LaidFacts
<1>2. ChainInv(x.chain, bs, x.first, com, ret, stamps)
  BY DEF Laid
<1>3. x.chain[i] \in TmqRefType
  BY <1>1
<1>4. x.chain[i].Qrows_retired \in Nat /\ x.chain[i].id \in Nat
  BY <1>3, RefFields
<1>5. x.chain[i].Qrows_retired <= bs[i]
  BY DEF Laid
<1> QED
  BY <1>1, <1>2, <1>4, <1>5, ChainInvAt

(* A slot reached in two steps. *)
LEMMA WrapTwice ==
  ASSUME NEW f \in 0 .. TotalQrows - 1, NEW a \in Nat, NEW b \in Nat,
         a + b <= TotalQrows
  PROVE  Wrap(Wrap(f + a) + b) = Wrap(f + (a + b))
BY Sizes, SMTT(60) DEF Wrap

(* What is committed goes into free slots and fills them. *)
LEMMA CommitFills ==
  ASSUME NEW x \in QueueType, NEW n \in Nat \ {0}, n <= AllocateRows(x), NEW id, NEW lab
  PROVE  LET y == CommitRows(x, id, lab, n)
         IN /\ y.first = x.first /\ y.last \in 0 .. TotalQrows - 1 /\ y.full \in BOOLEAN
            /\ y.full => y.first = y.last
            /\ Filled(y) = Filled(x) + n
<1> DEFINE y == CommitRows(x, id, lab, n)
           first == x.first
           last == x.last
           end == Wrap(last + n)
<1>1. y.first = first /\ y.last = end /\ y.full = (x.full \/ end = first)
  BY DEF CommitRows
<1>2. /\ first \in 0 .. TotalQrows - 1 /\ last \in 0 .. TotalQrows - 1
      /\ TotalQrows \in Nat /\ n \in Nat /\ n > 0
  BY QueueFields, Sizes
<1>3. ~x.full
  BY DEF AllocateRows
<1>4. Filled(x) = IF last >= first THEN last - first ELSE last - first + TotalQrows
  BY <1>3 DEF Filled
<1>5. n <= IF first > last THEN first - last ELSE TotalQrows - last
  BY <1>3 DEF AllocateRows
<1>6. y.full = (end = first)
  BY <1>1, <1>3
<1>7. Filled(y) = IF end = first THEN TotalQrows
                  ELSE IF end >= first THEN end - first
                  ELSE end - first + TotalQrows
  BY <1>1, <1>6 DEF Filled
<1> DEFINE occ == Filled(x)
           occ2 == Filled(y)
<1> HIDE DEF first, last, y, occ, occ2
<1>8. end \in 0 .. TotalQrows - 1
  BY ONLY <1>2, <1>5, SMTT(60) DEF Wrap
<1>9. (IF end = first THEN TotalQrows
       ELSE IF end >= first THEN end - first
       ELSE end - first + TotalQrows)
        = (IF last >= first THEN last - first ELSE last - first + TotalQrows) + n
  BY ONLY <1>2, <1>5, SMTT(60) DEF Wrap
<1> HIDE DEF end
<1>10. occ2 = occ + n
  BY <1>4, <1>7, <1>9 DEF occ, occ2
<1> QED
  BY <1>1, <1>6, <1>8, <1>10 DEF y, first, occ, occ2

(* What a change of the queue does to a tmq_ref that stays: rows may be added
   to it, or retired of it. *)
Kept(ref, b, ref2, b2) ==
  /\ ref2.id = ref.id /\ ref2.tsp = ref.tsp
  /\ b2 - ref2.Qrows_retired = b - ref.Qrows_retired
  /\ ref.Qrows_retired + ref.n_Qrows <= ref2.Qrows_retired + ref2.n_Qrows

(* ch2 and bs2 are ch and bs with n more rows in the last tmq_ref. *)
Fuller(ch, bs, ch2, bs2, n) ==
  LET N == Len(ch)
  IN /\ N > 0 /\ Len(ch2) = N /\ bs2 = bs
     /\ \A i \in 1 .. N - 1 : ch2[i] = ch[i]
     /\ ch2[N].id = ch[N].id /\ ch2[N].tsp = ch[N].tsp
     /\ ch2[N].n_Qrows = ch[N].n_Qrows + n
     /\ ch2[N].Qrows_retired = ch[N].Qrows_retired

(* ch2 and bs2 are ch and bs with a new tmq_ref of the n rows after com. *)
Longer(ch, bs, ch2, bs2, com, n, id, tsp) ==
  LET N == Len(ch)
  IN /\ Len(ch2) = N + 1 /\ Len(bs2) = N + 1
     /\ \A i \in 1 .. N : ch2[i] = ch[i] /\ bs2[i] = bs[i]
     /\ ch2[N + 1].id = id /\ ch2[N + 1].tsp = tsp
     /\ ch2[N + 1].n_Qrows = n /\ ch2[N + 1].Qrows_retired = 0
     /\ bs2[N + 1] = com

(* ch2 and bs2 are ch and bs with n rows retired of the first tmq_ref. *)
Emptier(ch, bs, ch2, bs2, n) ==
  LET N == Len(ch)
  IN /\ N > 0 /\ Len(ch2) = N /\ Len(bs2) = N
     /\ \A i \in 2 .. N : ch2[i] = ch[i] /\ bs2[i] = bs[i]
     /\ ch2[1].id = ch[1].id /\ ch2[1].tsp = ch[1].tsp
     /\ ch2[1].n_Qrows = ch[1].n_Qrows - n /\ n <= ch[1].n_Qrows
     /\ ch2[1].Qrows_retired = ch[1].Qrows_retired + n
     /\ bs2[1] = bs[1] + n

(* ch2 and bs2 are ch and bs without the first tmq_ref, which had n rows. *)
Shorter(ch, bs, ch2, bs2, n) ==
  LET N == Len(ch)
  IN /\ N > 1 /\ Len(ch2) = N - 1 /\ Len(bs2) = N - 1
     /\ ch[1].n_Qrows = n
     /\ \A i \in 1 .. N - 1 : ch2[i] = ch[i + 1] /\ bs2[i] = bs[i + 1]

(* A tmq_ref put after the last one leaves the chain laid out. *)
LEMMA LongerLaid ==
  ASSUME NEW x, NEW bs, NEW com, NEW ret, NEW stamps, Laid(x, bs, com, ret, stamps),
         NEW y \in QueueType, NEW bs2 \in Seq(Nat), NEW n \in Nat, NEW id, NEW tsp \in Nat,
         NEW stamps2 \in Nat, stamps <= stamps2, tsp <= stamps2,
         Longer(x.chain, bs, y.chain, bs2, com, n, id, tsp),
         y.chain[Len(x.chain) + 1].Qrow = x.last,
         \A i \in 1 .. Len(x.chain) : x.chain[i].tsp <= tsp,
         y.first = x.first, Filled(y) = Filled(x) + n, y.full => y.first = y.last
  PROVE  Laid(y, bs2, com + n, ret, stamps2)
<1> DEFINE N == Len(x.chain)
           old == x.chain
           new == y.chain
<1>1. /\ Counted(old, bs) /\ Len(bs) = N /\ N \in Nat
      /\ x.first \in 0 .. TotalQrows - 1 /\ com \in Nat /\ ret \in Nat /\ stamps \in Nat
      /\ x.last = Wrap(x.first + (com - ret))
  BY LaidFacts
<1>2. ret <= com /\ com - ret = Filled(x) /\ ChainInv(old, bs, x.first, com, ret, stamps)
  BY DEF Laid
<1>3. /\ Len(new) = N + 1 /\ Len(bs2) = N + 1
      /\ \A i \in 1 .. N : new[i] = old[i] /\ bs2[i] = bs[i]
      /\ new[N + 1].tsp = tsp /\ new[N + 1].n_Qrows = n
      /\ new[N + 1].Qrows_retired = 0 /\ bs2[N + 1] = com
  BY DEF Longer
<1>4. Extended(old, bs, N, new, bs2, x.first, com, ret, stamps, stamps2, n)
  BY <1>1, <1>2, <1>3 DEF Extended
<1>5. ChainInv(new, bs2, y.first, com + n, ret, stamps2)
  BY <1>4, ExtendChain
<1>6. ASSUME NEW i \in 1 .. N + 1
      PROVE  new[i].Qrows_retired <= bs2[i] /\ (i > 1 => new[i].Qrows_retired = 0)
  <2>1. CASE i = N + 1
    BY <2>1, <1>1, <1>3
  <2>2. CASE i \in 1 .. N
    <3>1. old[i].Qrows_retired <= bs[i] /\ (i > 1 => old[i].Qrows_retired = 0)
      BY <2>2 DEF Laid
    <3> QED
      BY <3>1, <2>2, <1>3
  <2>3. i = N + 1 \/ i \in 1 .. N
    <3> HIDE DEF N
    <3> QED
      BY <1>1
  <2> QED
    BY <2>1, <2>2, <2>3
<1>7. com + n - ret = Filled(y) /\ ret <= com + n /\ com + n \in Nat
  <2> DEFINE f == Filled(x)
             g == Filled(y)
  <2>1. com - ret = f /\ g = f + n
    BY <1>2
  <2> HIDE DEF f, g
  <2>2. com + n - ret = g
    BY <2>1, <1>1
  <2> QED
    BY <2>2, <1>1, <1>2 DEF g
<1>8. \A i \in 1 .. Len(new) : /\ new[i].Qrows_retired <= bs2[i]
                               /\ i > 1 => new[i].Qrows_retired = 0
  BY <1>3, <1>6
<1> DEFINE c == com + n
<1>9. c - ret = Filled(y) /\ ret <= c /\ c \in Nat /\ ret \in Nat
  BY <1>1, <1>7
<1>10. ChainInv(new, bs2, y.first, c, ret, stamps2)
  BY <1>5
<1> HIDE DEF c, N
<1>11. Laid(y, bs2, c, ret, stamps2)
  BY <1>8, <1>9, <1>10 DEF Laid
<1> QED
  BY <1>11 DEF c

(* n rows put behind the newest ones. *)
LEMMA CommitLaid ==
  ASSUME NEW x, NEW bs, NEW com, NEW ret, NEW stamps, Laid(x, bs, com, ret, stamps),
         x.chain # <<>>, NEW n \in Nat \ {0}, n <= AllocateRows(x),
         NEW id \in Nat, NEW lab \in Labels
  PROVE  LET y == CommitRows(x, id, lab, n)
         IN \E bs2 \in Seq(Nat) :
              /\ Laid(y, bs2, com + n, ret, stamps)
              /\ \/ Fuller(x.chain, bs, y.chain, bs2, n)
                 \/ Longer(x.chain, bs, y.chain, bs2, com, n, id, LastRef(x).tsp)
<1> DEFINE y == CommitRows(x, id, lab, n)
           old == x.chain
           new == y.chain
           N == Len(old)
<1>1. x \in QueueType /\ com \in Nat /\ n \in Nat /\ x.first \in 0 .. TotalQrows - 1
      /\ ret \in Nat /\ stamps \in Nat /\ ret <= com /\ com - ret = Filled(x)
      /\ ChainInv(old, bs, x.first, com, ret, stamps)
      /\ x.last = Wrap(x.first + (com - ret))
  BY LaidFacts DEF Laid
<1>2. /\ Counted(old, bs) /\ bs \in Seq(Nat) /\ Len(bs) = N /\ N \in Nat
      /\ old \in Seq(TmqRefType)
  BY LaidFacts
<1>3. N > 0
  BY <1>2
<1>4. /\ y.first = x.first /\ y.last \in 0 .. TotalQrows - 1 /\ y.full \in BOOLEAN
      /\ y.full => y.first = y.last
      /\ Filled(y) = Filled(x) + n
  BY <1>1, CommitFills
<1>5. CommitAsserts(x, n)
  <2> DEFINE free == AllocateRows(x)
  <2>1. /\ free \in 0 .. TotalQrows /\ x.last + free <= TotalQrows /\ n <= free
        /\ x.last \in 0 .. TotalQrows - 1
    BY <1>1, FreeRows, QueueFields
  <2>2. x.full => free = 0
    BY DEF AllocateRows
  <2> HIDE DEF free
  <2>3. x.last + n <= TotalQrows /\ free # 0
    BY <2>1, Sizes
  <2> QED
    BY <2>2, <2>3 DEF CommitAsserts
<1>6. y \in QueueType
  BY <1>1, <1>5, CommitType
<1>7. new = ChainAfterCommit(x, id, lab, n)
  BY DEF CommitRows
<1>8. /\ new \in Seq(TmqRefType)
      /\ \A i \in 1 .. N - 1 : new[i] = old[i]
      /\ \/ /\ Len(new) = N
            /\ new[N].n_Qrows = old[N].n_Qrows + n
            /\ new[N].Qrow = old[N].Qrow
            /\ new[N].tsp = old[N].tsp
         \/ /\ Len(new) = N + 1
            /\ new[N] = old[N]
            /\ new[Len(new)].n_Qrows = n
            /\ new[Len(new)].Qrow = x.last
            /\ new[Len(new)].tsp = old[N].tsp
  <2> DEFINE z == ChainAfterCommit(x, id, lab, n)
  <2>1. x \in QueueType /\ n \in Nat
    BY <1>1
  <2>2. /\ z \in Seq(TmqRefType)
        /\ \A i \in 1 .. N - 1 : z[i] = old[i]
        /\ \/ /\ Len(z) = N
              /\ z[N].n_Qrows = old[N].n_Qrows + n
              /\ z[N].Qrow = old[N].Qrow
              /\ z[N].tsp = old[N].tsp
           \/ /\ Len(z) = N + 1
              /\ z[N] = old[N]
              /\ z[Len(z)].n_Qrows = n
              /\ z[Len(z)].Qrow = x.last
              /\ z[Len(z)].tsp = old[N].tsp
    BY <2>1, CommitChain, SMTT(30)
  <2> HIDE DEF z
  <2>3. new = z
    BY <1>7 DEF z
  <2> HIDE DEF new
  <2> QED
    BY <2>2, <2>3
<1>9. \/ /\ Len(new) = N
         /\ \A i \in 1 .. N : SameRef(old[i], new[i]) /\ new[i].Qrows_retired = old[i].Qrows_retired
      \/ /\ Len(new) = N + 1
         /\ \A i \in 1 .. N : new[i] = old[i]
         /\ new[Len(new)].id = id /\ new[Len(new)].ref_count = 0
         /\ new[Len(new)].Qrows_retired = 0
  BY <1>1, <1>7, CommitRefs
<1>10. LastRef(x) = old[N]
  BY DEF LastRef
<1> HIDE DEF y
<1>11. CASE Len(new) = N
  <2>1. /\ new[N].n_Qrows = old[N].n_Qrows + n /\ new[N].Qrow = old[N].Qrow
        /\ new[N].tsp = old[N].tsp
    BY <1>8, <1>11, <1>2
  <2>2. \A i \in 1 .. N : /\ new[i].id = old[i].id
                          /\ new[i].Qrows_retired = old[i].Qrows_retired
    BY <1>9, <1>11, <1>2 DEF SameRef
  <2>3. new[N].id = old[N].id /\ new[N].Qrows_retired = old[N].Qrows_retired
    BY <2>2, <1>2, <1>3
  <2>4. Fuller(old, bs, new, bs, n)
    BY <1>3, <1>8, <1>11, <2>1, <2>3 DEF Fuller
  <2>5. Grown(old, bs, N, new, x.first, com, ret, stamps, n)
    BY <1>1, <1>2, <1>3, <1>8, <1>11, <2>1 DEF Grown
  <2>6. ChainInv(new, bs, y.first, com + n, ret, stamps)
    BY <2>5, <1>4, GrowChain
  <2>7. \A i \in 1 .. Len(new) : /\ new[i].Qrows_retired <= bs[i]
                                 /\ i > 1 => new[i].Qrows_retired = 0
    BY <2>2, <1>11 DEF Laid
  <2>8. com + n - ret = Filled(y) /\ ret <= com + n /\ com + n \in Nat
    <3> DEFINE f == Filled(x)
               g == Filled(y)
    <3>1. com - ret = f /\ g = f + n
      BY <1>1, <1>4
    <3> HIDE DEF f, g
    <3>2. com + n - ret = g
      BY <3>1, <1>1
    <3> QED
      BY <3>2, <1>1 DEF g
  <2>9. Laid(y, bs, com + n, ret, stamps)
    BY <1>1, <1>2, <1>4, <1>6, <2>6, <2>7, <2>8 DEF Laid
  <2> QED
    BY <1>2, <2>4, <2>9 DEF y
<1>12. CASE Len(new) = N + 1
  <2> DEFINE bs2 == Append(bs, com)
             tsp == old[N].tsp
  <2>1. /\ bs2 \in Seq(Nat) /\ Len(bs2) = N + 1 /\ bs2[N + 1] = com
        /\ \A i \in 1 .. N : bs2[i] = bs[i]
    BY <1>1, <1>2
  <2>2. /\ new[N + 1].n_Qrows = n /\ new[N + 1].Qrow = x.last /\ new[N + 1].tsp = tsp
    BY <1>8, <1>12, <1>2
  <2>3. /\ \A i \in 1 .. N : new[i] = old[i]
        /\ new[N + 1].id = id /\ new[N + 1].Qrows_retired = 0
    BY <1>9, <1>12, <1>2
  <2> HIDE DEF bs2
  <2>4. Longer(old, bs, new, bs2, com, n, id, tsp)
    BY <1>12, <2>1, <2>2, <2>3 DEF Longer
  <2>5. N \in 1 .. Len(old)
    BY <1>2, <1>3
  <2>6. tsp \in Nat /\ tsp <= stamps
    BY <2>5, LaidAt
  <2>7. ASSUME NEW i \in 1 .. N PROVE old[i].tsp <= tsp
    <3>1. CASE i = N
      BY <3>1, <2>6
    <3>2. CASE i < N
      BY <3>2, <2>5, <1>1 DEF ChainInv
    <3> QED
      BY <3>1, <3>2, <1>2
  <2>8. Laid(y, bs2, com + n, ret, stamps)
    <3>1. n \in Nat /\ stamps \in Nat /\ stamps <= stamps
      BY <1>1
    <3>2. y.chain[Len(x.chain) + 1].Qrow = x.last
      BY <2>2
    <3>3. \A i \in 1 .. Len(x.chain) : x.chain[i].tsp <= tsp
      BY <2>7
    <3>4. Longer(x.chain, bs, y.chain, bs2, com, n, id, tsp)
      BY <2>4
    <3> HIDE DEF tsp, new, old
    <3> QED
      BY <1>4, <1>6, <2>1, <2>6, <3>1, <3>2, <3>3, <3>4, LongerLaid
  <2> QED
    BY <1>10, <2>1, <2>4, <2>8 DEF y
<1> QED
  BY <1>8, <1>11, <1>12

(* A time stamp. *)
LEMMA StampLaid ==
  ASSUME NEW x, NEW bs, NEW com, NEW ret, NEW stamps, Laid(x, bs, com, ret, stamps),
         NEW id \in Nat, NEW ctr \in 0 .. CtrMod - 1
  PROVE  LET y == CommitTstamp(x, id, stamps + 1, ctr)
         IN \E bs2 \in Seq(Nat) :
              /\ Laid(y, bs2, com, ret, stamps + 1)
              /\ Longer(x.chain, bs, y.chain, bs2, com, 0, id, stamps + 1)
<1> DEFINE y == CommitTstamp(x, id, stamps + 1, ctr)
           lab == [ctr |-> ctr, row |-> 0]
           ref == NewRef(id, stamps + 1, lab, x.last)
           old == x.chain
           N == Len(old)
           bs2 == Append(bs, com)
<1>1. /\ x \in QueueType /\ com \in Nat /\ ret \in Nat /\ stamps \in Nat
      /\ bs \in Seq(Nat) /\ Len(bs) = N /\ N \in Nat /\ old \in Seq(TmqRefType)
      /\ (x.full => x.first = x.last)
      /\ x.first \in 0 .. TotalQrows - 1 /\ x.last \in 0 .. TotalQrows - 1
      /\ x.full \in BOOLEAN
  BY LaidFacts DEF Laid
<1>13. x.last \in Nat
  BY <1>1, Sizes
<1>2. /\ ref \in TmqRefType /\ ref.n_Qrows = 0 /\ ref.Qrow = x.last /\ ref.id = id
      /\ ref.tsp = stamps + 1 /\ ref.Qrows_retired = 0
  BY <1>1, <1>13, Sizes DEF NewRef, TmqRefType
<1> HIDE DEF ref
<1>3. y = [first |-> x.first, last |-> x.last, full |-> x.full, chain |-> Append(old, ref)]
  BY DEF CommitTstamp, ref
<1>4. /\ y.first = x.first /\ y.last = x.last /\ y.full = x.full
      /\ y.chain = Append(old, ref)
  BY <1>3
<1>5. /\ y.chain \in Seq(TmqRefType) /\ Len(y.chain) = N + 1
      /\ y.chain[N + 1] = ref /\ \A i \in 1 .. N : y.chain[i] = old[i]
  <2> DEFINE new == y.chain
  <2>1. new = Append(old, ref)
    BY <1>4
  <2> HIDE DEF new, old
  <2>2. /\ new \in Seq(TmqRefType) /\ Len(new) = N + 1
        /\ new[N + 1] = ref /\ \A i \in 1 .. N : new[i] = old[i]
    BY <1>1, <1>2, <2>1
  <2> QED
    BY <2>2 DEF new
<1>6. y \in QueueType
  BY <1>1, <1>3, <1>4, <1>5 DEF QueueType
<1>7. /\ bs2 \in Seq(Nat) /\ Len(bs2) = N + 1 /\ bs2[N + 1] = com
      /\ \A i \in 1 .. N : bs2[i] = bs[i]
  BY <1>1
<1> HIDE DEF y, bs2
<1>8. Longer(old, bs, y.chain, bs2, com, 0, id, stamps + 1)
  BY <1>2, <1>5, <1>7 DEF Longer
<1>9. \A i \in 1 .. N : old[i].tsp <= stamps + 1
  <2> SUFFICES ASSUME NEW i \in 1 .. N PROVE old[i].tsp <= stamps + 1
    OBVIOUS
  <2>1. old[i].tsp <= stamps /\ old[i].tsp \in Nat
    BY LaidAt
  <2> QED
    BY <2>1, <1>1
<1>10. Filled(y) = Filled(x)
  BY <1>4 DEF Filled
<1>11. Filled(x) \in Nat
  BY <1>1, Sizes DEF Filled
<1>12. Laid(y, bs2, com + 0, ret, stamps + 1)
  <2> DEFINE tsp == stamps + 1
  <2>1. tsp \in Nat /\ stamps <= tsp /\ 0 \in Nat /\ tsp <= tsp
    BY <1>1
  <2>2. y.chain[Len(old) + 1].Qrow = x.last
    BY <1>2, <1>5
  <2>3. Filled(y) = Filled(x) + 0 /\ (y.full => y.first = y.last)
    BY <1>1, <1>4, <1>10, <1>11
  <2> HIDE DEF tsp
  <2> QED
    BY <1>4, <1>6, <1>7, <1>8, <1>9, <2>1, <2>2, <2>3, LongerLaid DEF tsp
<1> QED
  BY <1>1, <1>7, <1>8, <1>12 DEF y

(* The rows of the first tmq_ref are those first points to: what retire_rows
   asserts holds of them. *)
LEMMA RetireAllowed ==
  ASSUME NEW x, NEW bs, NEW com, NEW ret, NEW stamps, Laid(x, bs, com, ret, stamps),
         x.chain # <<>>, NEW n \in Nat, n <= x.chain[1].n_Qrows
  PROVE  RetireAsserts(x, n) /\ n <= com - ret
<1> DEFINE first == x.first
           last == x.last
           occ == com - ret
           head == x.chain[1]
<1>1. /\ first \in 0 .. TotalQrows - 1 /\ last \in 0 .. TotalQrows - 1 /\ x.full \in BOOLEAN
      /\ com \in Nat /\ ret \in Nat /\ Len(x.chain) \in Nat /\ x.chain \in Seq(TmqRefType)
      /\ Len(bs) = Len(x.chain)
  BY LaidFacts
<1>2. 1 \in 1 .. Len(x.chain)
  BY <1>1
<1>3. /\ head.Qrow = Wrap(first + (bs[1] - ret)) /\ bs[1] + head.n_Qrows <= com
      /\ head.n_Qrows \in Nat /\ bs[1] \in Nat
  BY <1>2, LaidAt
<1>4. bs[1] = ret
  BY <1>2, <1>1 DEF Laid, ChainInv
<1>5. head.Qrow = first
  <2>1. bs[1] - ret = 0
    BY <1>1, <1>4
  <2>2. first + 0 = first /\ Wrap(first) = first
    BY <1>1, Sizes DEF Wrap
  <2> HIDE DEF first, head
  <2>3. Wrap(first + 0) = first
    BY <2>2
  <2> QED
    BY <1>3, <2>1, <2>3
<1>6. n <= occ
  <2> HIDE DEF head
  <2> QED
    BY <1>1, <1>3, <1>4 DEF head
<1>7. /\ occ = Filled(x) /\ (x.full => first = last)
  BY DEF Laid
<1> HIDE DEF first, last, occ
<1>8. IF first < last THEN first + n <= last
      ELSE first + n >= TotalQrows => first + n - TotalQrows <= last
  <2>1. occ = IF x.full THEN TotalQrows
              ELSE IF last >= first THEN last - first ELSE last - first + TotalQrows
    BY <1>7 DEF Filled, first, last
  <2> QED
    BY <2>1, <1>1, <1>6, <1>7, Sizes
<1> QED
  BY <1>5, <1>6, <1>8 DEF RetireAsserts, first, last, occ, head

(* What retiring n rows does to the ring. *)
LEMMA RetireEmpties ==
  ASSUME NEW x, NEW bs, NEW com, NEW ret, NEW stamps, Laid(x, bs, com, ret, stamps),
         NEW n \in Nat, n <= com - ret
  PROVE  LET y == RetireRows(x, n)
         IN /\ y.first = Wrap(x.first + n) /\ y.last = x.last
            /\ y.full => y.first = y.last
            /\ com - (ret + n) = Filled(y)
<1> DEFINE y == RetireRows(x, n)
           first == x.first
           last == x.last
           start == Wrap(first + n)
           occ == Filled(x)
           occ2 == Filled(y)
<1>1. /\ first \in 0 .. TotalQrows - 1 /\ last \in 0 .. TotalQrows - 1 /\ x.full \in BOOLEAN
      /\ com \in Nat /\ ret \in Nat /\ com - ret <= TotalQrows
  BY LaidFacts
<1>2. y.first = start /\ y.last = last /\ y.full = (x.full /\ n = 0)
  BY DEF RetireRows
<1>3. com - ret = occ /\ (x.full => first = last)
  BY DEF Laid
<1>4. occ = IF x.full THEN TotalQrows
            ELSE IF last >= first THEN last - first ELSE last - first + TotalQrows
  BY DEF Filled
<1>5. occ2 = IF y.full THEN TotalQrows
             ELSE IF last >= start THEN last - start ELSE last - start + TotalQrows
  BY <1>2 DEF Filled
<1> DEFINE full == x.full
           full2 == y.full
<1>6. full2 <=> full /\ n = 0
  BY <1>2
<1> HIDE DEF first, last, occ, occ2, full, full2, y
<1>7. full2 => start = last
  BY <1>1, <1>3, <1>6, Sizes DEF Wrap, full
<1>8. CASE n = 0
  <2>1. start = first /\ (full2 <=> full)
    BY <1>1, <1>6, <1>8, Sizes DEF Wrap, full
  <2>2. occ2 = occ
    BY <1>4, <1>5, <2>1 DEF full, full2
  <2> QED
    BY <1>1, <1>2, <1>3, <1>7, <1>8, <2>2 DEF y, occ2, full2, first, last
<1>9. CASE n > 0
  <2>1. ~full2
    BY <1>6, <1>9
  <2>2. occ2 = IF last >= start THEN last - start ELSE last - start + TotalQrows
    BY <1>5, <2>1 DEF full2
  <2>3. occ = IF full THEN TotalQrows
              ELSE IF last >= first THEN last - first ELSE last - first + TotalQrows
    BY <1>4 DEF full
  <2>4. /\ full \in BOOLEAN /\ (full => first = last) /\ n <= occ
    BY <1>1, <1>3, <1>4 DEF full
  <2>5. occ2 = occ - n
    BY <1>1, <1>9, <2>2, <2>3, <2>4, Sizes, SMTT(60) DEF Wrap
  <2> QED
    BY <1>1, <1>2, <1>3, <1>7, <2>5 DEF y, occ2, full2, first, last
<1> QED
  BY <1>8, <1>9

(* n rows of the first tmq_ref retired. *)
LEMMA RetireLaid ==
  ASSUME NEW x, NEW bs, NEW com, NEW ret, NEW stamps, Laid(x, bs, com, ret, stamps),
         x.chain # <<>>, NEW n \in Nat, n <= x.chain[1].n_Qrows
  PROVE  LET y == RetireRows(x, n)
         IN \E bs2 \in Seq(Nat) :
              /\ Laid(y, bs2, com, ret + n, stamps)
              /\ \/ Emptier(x.chain, bs, y.chain, bs2, n)
                 \/ Shorter(x.chain, bs, y.chain, bs2, n)
<1> DEFINE y == RetireRows(x, n)
           old == x.chain
           new == y.chain
           N == Len(old)
<1>1. /\ x \in QueueType /\ com \in Nat /\ n \in Nat /\ x.first \in 0 .. TotalQrows - 1
      /\ ret \in Nat /\ stamps \in Nat /\ ret <= com /\ com - ret <= TotalQrows
      /\ ChainInv(old, bs, x.first, com, ret, stamps)
  BY LaidFacts DEF Laid
<1>2. /\ Counted(old, bs) /\ bs \in Seq(Nat) /\ Len(bs) = N /\ N \in Nat
      /\ old \in Seq(TmqRefType)
  BY LaidFacts
<1>3. N > 0
  BY <1>2
<1>4. RetireAsserts(x, n) /\ n <= com - ret
  BY RetireAllowed
<1>5. /\ y.first = Wrap(x.first + n) /\ (y.full => y.first = y.last)
      /\ com - (ret + n) = Filled(y)
  BY <1>4, RetireEmpties
<1>6. y \in QueueType
  BY <1>1, <1>4, RetireType
<1>7. /\ new \in Seq(TmqRefType)
      /\ \/ /\ Len(new) = N
            /\ new[1].n_Qrows = old[1].n_Qrows - n
            /\ new[1].Qrow = Wrap(x.first + n)
            /\ new[1].tsp = old[1].tsp
            /\ \A i \in 2 .. N : new[i] = old[i]
         \/ /\ old[1].n_Qrows = n
            /\ N > 1
            /\ new = Tail(old)
  <2> HIDE DEF y
  <2> QED
    BY <1>1, RetireChain, SMTT(60) DEF y
<1>8. \/ /\ Len(new) = N
         /\ \A i \in 1 .. N : SameRef(old[i], new[i])
         /\ new[1].Qrows_retired = old[1].Qrows_retired + n
      \/ new = Tail(old)
  <2> HIDE DEF y
  <2> QED
    BY <1>1, <1>4, RetireRefs, SMTT(60) DEF y
<1>9. ret + n \in Nat /\ ret + n <= com
  BY <1>1, <1>4
<1>10. \A i \in 1 .. N : /\ old[i].Qrows_retired <= bs[i] /\ bs[i] \in Nat
                         /\ old[i].Qrows_retired \in Nat
                         /\ i > 1 => old[i].Qrows_retired = 0
  BY LaidAt DEF Laid
<1>11. bs[1] \in Nat /\ old[1].Qrows_retired \in Nat /\ old[1].Qrows_retired <= bs[1]
  BY <1>2, <1>3, <1>10
<1> HIDE DEF y
<1>12. CASE Len(new) = N
  <2> DEFINE bs2 == [bs EXCEPT ![1] = bs[1] + n]
  <2>1. /\ bs2 \in Seq(Nat) /\ Len(bs2) = N /\ bs2[1] = bs[1] + n
        /\ \A i \in 2 .. N : bs2[i] = bs[i]
    BY <1>1, <1>2, <1>3, <1>11, SMTT(30)
  <2>2. new # Tail(old)
    <3> HIDE DEF new, old
    <3> QED
      BY <1>2, <1>3, <1>12
  <2>3. /\ new[1].n_Qrows = old[1].n_Qrows - n /\ new[1].Qrow = Wrap(x.first + n)
        /\ new[1].tsp = old[1].tsp /\ \A i \in 2 .. N : new[i] = old[i]
    BY <1>7, <2>2
  <2>4. /\ new[1].id = old[1].id /\ new[1].Qrows_retired = old[1].Qrows_retired + n
    <3>1. 1 \in 1 .. N
      BY <1>2, <1>3
    <3> QED
      BY <1>8, <2>2, <3>1 DEF SameRef
  <2> HIDE DEF bs2
  <2>5. Emptier(old, bs, new, bs2, n)
    BY <1>3, <1>12, <2>1, <2>3, <2>4 DEF Emptier
  <2>6. Shrunk(old, bs, N, new, bs2, x.first, com, ret, stamps, n)
    BY <1>1, <1>2, <1>3, <1>12, <2>1, <2>3 DEF Shrunk
  <2>7. ChainInv(new, bs2, y.first, com, ret + n, stamps)
    BY <1>5, <2>6, ShrinkChain
  <2>8. ASSUME NEW i \in 1 .. Len(new)
        PROVE  new[i].Qrows_retired <= bs2[i] /\ (i > 1 => new[i].Qrows_retired = 0)
    <3>1. CASE i = 1
      <4>1. old[1].Qrows_retired + n <= bs[1] + n
        <5> DEFINE a == old[1].Qrows_retired
                   b == bs[1]
        <5>1. a \in Nat /\ b \in Nat /\ a <= b
          BY <1>11
        <5> HIDE DEF a, b
        <5>2. a + n <= b + n
          BY <5>1
        <5> QED
          BY <5>2 DEF a, b
      <4> QED
        BY <3>1, <4>1, <2>1, <2>4
    <3>2. CASE i \in 2 .. N
      <4>1. new[i] = old[i] /\ bs2[i] = bs[i] /\ i \in 1 .. N
        BY <3>2, <2>1, <2>3
      <4> QED
        BY <4>1, <1>10
    <3>3. i = 1 \/ i \in 2 .. N
      <4> HIDE DEF N, new
      <4> QED
        BY <1>2, <1>12
    <3> QED
      BY <3>1, <3>2, <3>3
  <2>9. Laid(y, bs2, com, ret + n, stamps)
    BY <1>1, <1>5, <1>6, <1>9, <2>1, <2>7, <2>8 DEF Laid
  <2> QED
    BY <2>1, <2>5, <2>9 DEF y
<1>13. CASE Len(new) # N
  <2> DEFINE bs2 == Tail(bs)
  <2>1. new = Tail(old) /\ old[1].n_Qrows = n /\ N > 1
    BY <1>7, <1>13
  <2>2. /\ bs2 \in Seq(Nat) /\ Len(bs2) = N - 1
        /\ \A i \in 1 .. N - 1 : bs2[i] = bs[i + 1]
    BY <1>2, <2>1
  <2>3. Len(new) = N - 1 /\ \A i \in 1 .. N - 1 : new[i] = old[i + 1]
    <3> HIDE DEF new, old
    <3> QED
      BY <1>2, <2>1
  <2> HIDE DEF bs2
  <2>4. Shorter(old, bs, new, bs2, n)
    BY <2>1, <2>2, <2>3 DEF Shorter
  <2>5. Dropped(old, bs, N, new, bs2, x.first, com, ret, stamps, n)
    BY <1>1, <1>2, <2>1, <2>2, <2>3 DEF Dropped
  <2>6. ChainInv(new, bs2, y.first, com, ret + n, stamps)
    BY <1>5, <2>5, DropChain
  <2>7. ASSUME NEW i \in 1 .. Len(new)
        PROVE  new[i].Qrows_retired <= bs2[i] /\ (i > 1 => new[i].Qrows_retired = 0)
    <3>1. i \in 1 .. N - 1 /\ i + 1 \in 1 .. N /\ i + 1 > 1
      <4> HIDE DEF N, new
      <4> QED
        BY <1>2, <2>3
    <3>2. new[i] = old[i + 1] /\ bs2[i] = bs[i + 1]
      BY <3>1, <2>2, <2>3
    <3> QED
      BY <3>1, <3>2, <1>10
  <2>8. Laid(y, bs2, com, ret + n, stamps)
    BY <1>1, <1>5, <1>6, <1>9, <2>2, <2>6, <2>7 DEF Laid
  <2> QED
    BY <2>2, <2>4, <2>8 DEF y
<1> QED
  BY <1>12, <1>13

(* The slot of row b. *)
SlotOfRow(x, ret, b) == Wrap(x.first + (b - ret - 1))

(* The rows of each tmq_ref are in their slots, under its time stamp. *)
InRing(x, cells, bs, ret) ==
  \A i \in 1 .. Len(x.chain) : \A b \in bs[i] + 1 .. bs[i] + x.chain[i].n_Qrows :
    cells[SlotOfRow(x, ret, b)] = [id |-> b, tsp |-> x.chain[i].tsp]

LEMMA RowsLaid ==
  ASSUME NEW x, NEW bs, NEW com, NEW ret, NEW stamps, Laid(x, bs, com, ret, stamps),
         NEW i \in 1 .. Len(x.chain), NEW b \in bs[i] + 1 .. bs[i] + x.chain[i].n_Qrows
  PROVE  b \in ret + 1 .. com /\ b \in Nat
<1> DEFINE n == x.chain[i].n_Qrows
           a == bs[i]
<1>1. ret <= a /\ a + n <= com /\ n \in Nat /\ a \in Nat
  BY LaidAt
<1>2. b \in a + 1 .. a + n /\ ret \in Nat /\ com \in Nat
  BY LaidFacts
<1> HIDE DEF n, a
<1> QED
  BY <1>1, <1>2

(* The slot of a row stays when rows before it are retired. *)
LEMMA SlotStays ==
  ASSUME NEW x, NEW bs, NEW com, NEW ret, NEW stamps, Laid(x, bs, com, ret, stamps),
         NEW n \in Nat, NEW y, y.first = Wrap(x.first + n), NEW b \in ret + n + 1 .. com
  PROVE  SlotOfRow(y, ret + n, b) = SlotOfRow(x, ret, b)
<1> DEFINE first == x.first
           c == b - (ret + n) - 1
<1>1. /\ first \in 0 .. TotalQrows - 1 /\ com \in Nat /\ ret \in Nat
      /\ com - ret <= TotalQrows
  BY LaidFacts
<1>2. /\ c \in Nat /\ n + c <= TotalQrows /\ n + c = b - ret - 1
  BY <1>1, Sizes
<1> HIDE DEF first, c
<1>3. Wrap(Wrap(first + n) + c) = Wrap(first + (n + c))
  BY <1>1, <1>2, WrapTwice
<1> QED
  BY <1>2, <1>3 DEF SlotOfRow, first, c

(* The slots that are free are those of the rows to come. *)
LEMMA SlotToCome ==
  ASSUME NEW x, NEW bs, NEW com, NEW ret, NEW stamps, Laid(x, bs, com, ret, stamps),
         NEW k \in Nat \ {0}, k <= AllocateRows(x)
  PROVE  SlotOfRow(x, ret, com + k) = x.last + k - 1
<1> DEFINE first == x.first
           last == x.last
           full == x.full
           b == com + k
<1>1. /\ first \in 0 .. TotalQrows - 1 /\ last \in 0 .. TotalQrows - 1 /\ com \in Nat
      /\ ret \in Nat
  BY LaidFacts
<1>2. ~full /\ k <= IF first > last THEN first - last ELSE TotalQrows - last
  BY DEF AllocateRows
<1>3. com - ret = IF last >= first THEN last - first ELSE last - first + TotalQrows
  BY <1>2 DEF Laid, Filled
<1> HIDE DEF first, last, full
<1>4. Wrap(first + (b - ret - 1)) = last + k - 1
  BY <1>1, <1>2, <1>3, Sizes, SMTT(60) DEF Wrap
<1> HIDE DEF b
<1>5. SlotOfRow(x, ret, b) = last + k - 1
  BY <1>4 DEF SlotOfRow, first
<1> QED
  BY <1>5 DEF last, b

(* No row of the ring is in a slot that is free. *)
LEMMA SlotTaken ==
  ASSUME NEW x, NEW bs, NEW com, NEW ret, NEW stamps, Laid(x, bs, com, ret, stamps),
         NEW b \in ret + 1 .. com, NEW k \in Nat, k < AllocateRows(x)
  PROVE  /\ SlotOfRow(x, ret, b) # x.last + k
         /\ SlotOfRow(x, ret, b) \in 0 .. TotalQrows - 1
<1> DEFINE first == x.first
           last == x.last
           full == x.full
           c == b - ret - 1
<1>1. /\ first \in 0 .. TotalQrows - 1 /\ last \in 0 .. TotalQrows - 1 /\ com \in Nat
      /\ ret \in Nat /\ c \in Nat /\ c < com - ret
  BY LaidFacts
<1>2. ~full /\ k < IF first > last THEN first - last ELSE TotalQrows - last
  BY DEF AllocateRows
<1>3. com - ret = IF last >= first THEN last - first ELSE last - first + TotalQrows
  BY <1>2 DEF Laid, Filled
<1> HIDE DEF first, last, full, c
<1>4. Wrap(first + c) # last + k /\ Wrap(first + c) \in 0 .. TotalQrows - 1
  BY <1>1, <1>2, <1>3, Sizes, SMTT(60) DEF Wrap
<1> QED
  BY <1>4 DEF SlotOfRow, first, last, c

LEMMA FullerRing ==
  ASSUME NEW x, NEW bs, NEW com, NEW ret, NEW stamps, Laid(x, bs, com, ret, stamps),
         NEW n \in Nat, n <= AllocateRows(x), NEW y, y.first = x.first, NEW bs2, NEW cells,
         Fuller(x.chain, bs, y.chain, bs2, n), InRing(x, cells, bs, ret),
         \A k \in 1 .. n : cells[x.last + k - 1] = [id |-> com + k, tsp |-> LastRef(x).tsp]
  PROVE  InRing(y, cells, bs2, ret)
<1> DEFINE N == Len(x.chain)
           old == x.chain
           new == y.chain
<1>1. /\ N \in Nat /\ N > 0 /\ Len(new) = N /\ bs2 = bs
      /\ \A i \in 1 .. N - 1 : new[i] = old[i]
      /\ new[N].tsp = old[N].tsp /\ new[N].n_Qrows = old[N].n_Qrows + n
  BY LaidFacts DEF Fuller
<1>2. \A b : SlotOfRow(y, ret, b) = SlotOfRow(x, ret, b)
  BY DEF SlotOfRow
<1> SUFFICES ASSUME NEW i \in 1 .. N, NEW b \in bs[i] + 1 .. bs[i] + new[i].n_Qrows
             PROVE  cells[SlotOfRow(x, ret, b)] = [id |-> b, tsp |-> new[i].tsp]
  BY <1>1, <1>2 DEF InRing
<1>3. /\ bs[i] \in Nat /\ old[i].n_Qrows \in Nat /\ com \in Nat
  BY LaidAt, LaidFacts
<1>4. CASE i # N
  <2>1. new[i] = old[i]
    BY <1>1, <1>4
  <2> QED
    BY <2>1 DEF InRing
<1>5. CASE i = N
  <2>1. com = bs[N] + old[N].n_Qrows
    BY <1>1 DEF Laid, ChainInv
  <2>2. CASE b \in bs[N] + 1 .. bs[N] + old[N].n_Qrows
    BY <2>2, <1>1, <1>5 DEF InRing
  <2>3. CASE b \notin bs[N] + 1 .. bs[N] + old[N].n_Qrows
    <3> DEFINE k == b - com
               m == old[N].n_Qrows
               a == bs[N]
    <3>1. b \in a + 1 .. a + (m + n) /\ b \notin a + 1 .. a + m /\ a \in Nat /\ m \in Nat
      BY <2>3, <1>1, <1>3, <1>5
    <3>2. com = a + m
      BY <2>1
    <3> HIDE DEF m, a
    <3>3. k \in 1 .. n /\ b = com + k
      BY <3>1, <3>2
    <3> HIDE DEF k
    <3>4. SlotOfRow(x, ret, b) = x.last + k - 1
      <4>1. AllocateRows(x) \in Nat
        BY FreeRows, Sizes DEF Laid
      <4>2. k \in Nat \ {0} /\ k <= AllocateRows(x)
        BY <3>3, <4>1
      <4> QED
        BY <3>3, <4>2, SlotToCome
    <3> QED
      BY <3>3, <3>4, <1>1, <1>5 DEF LastRef
  <2> QED
    BY <2>2, <2>3
<1> QED
  BY <1>4, <1>5

LEMMA LongerRing ==
  ASSUME NEW x, NEW bs, NEW com, NEW ret, NEW stamps, Laid(x, bs, com, ret, stamps),
         NEW n \in Nat, n <= AllocateRows(x), NEW y, y.first = x.first, NEW bs2, NEW cells,
         NEW id, NEW tsp,
         Longer(x.chain, bs, y.chain, bs2, com, n, id, tsp), InRing(x, cells, bs, ret),
         \A k \in 1 .. n : cells[x.last + k - 1] = [id |-> com + k, tsp |-> tsp]
  PROVE  InRing(y, cells, bs2, ret)
<1> DEFINE N == Len(x.chain)
           old == x.chain
           new == y.chain
<1>1. /\ N \in Nat /\ Len(new) = N + 1
      /\ \A i \in 1 .. N : new[i] = old[i] /\ bs2[i] = bs[i]
      /\ new[N + 1].tsp = tsp /\ new[N + 1].n_Qrows = n /\ bs2[N + 1] = com /\ com \in Nat
  BY LaidFacts DEF Longer
<1>2. \A b : SlotOfRow(y, ret, b) = SlotOfRow(x, ret, b)
  BY DEF SlotOfRow
<1> SUFFICES ASSUME NEW i \in 1 .. N + 1, NEW b \in bs2[i] + 1 .. bs2[i] + new[i].n_Qrows
             PROVE  cells[SlotOfRow(x, ret, b)] = [id |-> b, tsp |-> new[i].tsp]
  BY <1>1, <1>2 DEF InRing
<1>3. CASE i \in 1 .. N
  BY <1>1, <1>3 DEF InRing
<1>4. CASE i = N + 1
  <2> DEFINE k == b - com
  <2>1. b \in com + 1 .. com + n
    BY <1>1, <1>4
  <2>2. k \in 1 .. n /\ b = com + k
    BY <2>1, <1>1
  <2> HIDE DEF k
  <2>3. SlotOfRow(x, ret, b) = x.last + k - 1
    <3>1. AllocateRows(x) \in Nat
      BY FreeRows, Sizes DEF Laid
    <3>2. k \in Nat \ {0} /\ k <= AllocateRows(x)
      BY <2>2, <3>1
    <3> QED
      BY <2>2, <3>2, SlotToCome
  <2> QED
    BY <2>2, <2>3, <1>1, <1>4
<1>5. i \in 1 .. N \/ i = N + 1
  <2> HIDE DEF N
  <2> QED
    BY <1>1
<1> QED
  BY <1>3, <1>4, <1>5

LEMMA EmptierRing ==
  ASSUME NEW x, NEW bs, NEW com, NEW ret, NEW stamps, Laid(x, bs, com, ret, stamps),
         NEW n \in Nat, NEW y, y.first = Wrap(x.first + n), NEW bs2, NEW cells,
         Emptier(x.chain, bs, y.chain, bs2, n), InRing(x, cells, bs, ret)
  PROVE  InRing(y, cells, bs2, ret + n)
<1> DEFINE N == Len(x.chain)
           old == x.chain
           new == y.chain
<1>1. /\ N \in Nat /\ N > 0 /\ Len(new) = N
      /\ \A i \in 2 .. N : new[i] = old[i] /\ bs2[i] = bs[i]
      /\ new[1].tsp = old[1].tsp /\ new[1].n_Qrows = old[1].n_Qrows - n
      /\ n <= old[1].n_Qrows /\ bs2[1] = bs[1] + n
  BY LaidFacts DEF Emptier
<1>2. /\ ret \in Nat /\ com \in Nat /\ 1 \in 1 .. N
      /\ \A i \in 1 .. N : bs[i] \in Nat /\ old[i].n_Qrows \in Nat
  BY <1>1, LaidAt, LaidFacts
<1>3. bs[1] = ret
  BY <1>1 DEF Laid, ChainInv
<1> SUFFICES ASSUME NEW i \in 1 .. N, NEW b \in bs2[i] + 1 .. bs2[i] + new[i].n_Qrows
             PROVE  cells[SlotOfRow(y, ret + n, b)] = [id |-> b, tsp |-> new[i].tsp]
  BY <1>1 DEF InRing
<1>4. b \in bs[i] + 1 .. bs[i] + old[i].n_Qrows /\ b > ret + n /\ new[i].tsp = old[i].tsp
  <2>1. CASE i = 1
    <3> DEFINE m == old[1].n_Qrows
               a == bs[1]
    <3>1. b \in (a + n) + 1 .. (a + n) + (m - n) /\ m \in Nat /\ a \in Nat /\ n <= m /\ a = ret
      BY <2>1, <1>1, <1>2, <1>3
    <3> HIDE DEF m, a
    <3>2. b \in a + 1 .. a + m /\ b > ret + n
      BY <3>1
    <3> QED
      BY <3>2, <2>1, <1>1 DEF m, a
  <2>2. CASE i # 1
    <3>1. i \in 2 .. N /\ 1 < i
      BY <2>2
    <3>2. new[i] = old[i] /\ bs2[i] = bs[i]
      BY <3>1, <1>1
    <3>3. bs[1] + old[1].n_Qrows <= bs[i]
      BY <3>1, <1>1, <1>2 DEF Laid, ChainInv
    <3> DEFINE m == old[1].n_Qrows
               a == bs[i]
    <3>4. ret + m <= a /\ n <= m /\ m \in Nat /\ a \in Nat /\ b >= a + 1
      BY <3>2, <3>3, <1>1, <1>2, <1>3
    <3> HIDE DEF m, a
    <3>5. b > ret + n
      BY <3>4, <1>2
    <3> QED
      BY <3>2, <3>5
  <2> QED
    BY <2>1, <2>2
<1>5. b \in ret + 1 .. com
  BY <1>4, RowsLaid
<1>6. b \in ret + n + 1 .. com
  BY <1>2, <1>4, <1>5
<1>7. SlotOfRow(y, ret + n, b) = SlotOfRow(x, ret, b)
  BY <1>6, SlotStays
<1> QED
  BY <1>4, <1>7 DEF InRing

LEMMA ShorterRing ==
  ASSUME NEW x, NEW bs, NEW com, NEW ret, NEW stamps, Laid(x, bs, com, ret, stamps),
         NEW n \in Nat, NEW y, y.first = Wrap(x.first + n), NEW bs2, NEW cells,
         Shorter(x.chain, bs, y.chain, bs2, n), InRing(x, cells, bs, ret)
  PROVE  InRing(y, cells, bs2, ret + n)
<1> DEFINE N == Len(x.chain)
           old == x.chain
           new == y.chain
<1>1. /\ N \in Nat /\ N > 1 /\ Len(new) = N - 1 /\ old[1].n_Qrows = n
      /\ \A i \in 1 .. N - 1 : new[i] = old[i + 1] /\ bs2[i] = bs[i + 1]
  BY LaidFacts DEF Shorter
<1>2. /\ ret \in Nat /\ com \in Nat /\ 1 \in 1 .. N
      /\ \A i \in 1 .. N : bs[i] \in Nat /\ old[i].n_Qrows \in Nat
  BY <1>1, LaidAt, LaidFacts
<1>3. bs[1] = ret
  BY <1>1 DEF Laid, ChainInv
<1> SUFFICES ASSUME NEW i \in 1 .. N - 1, NEW b \in bs2[i] + 1 .. bs2[i] + new[i].n_Qrows
             PROVE  cells[SlotOfRow(y, ret + n, b)] = [id |-> b, tsp |-> new[i].tsp]
  BY <1>1 DEF InRing
<1> DEFINE j == i + 1
<1>4. j \in 1 .. N /\ 1 < j /\ new[i] = old[j] /\ bs2[i] = bs[j]
  BY <1>1
<1> HIDE DEF j
<1>5. b \in bs[j] + 1 .. bs[j] + old[j].n_Qrows
  BY <1>4
<1>6. b > ret + n
  <2>1. bs[1] + old[1].n_Qrows <= bs[j]
    BY <1>1, <1>2, <1>4 DEF Laid, ChainInv
  <2> QED
    BY <2>1, <1>1, <1>2, <1>3, <1>4, <1>5
<1>7. b \in ret + 1 .. com
  BY <1>4, <1>5, RowsLaid
<1>8. b \in ret + n + 1 .. com
  BY <1>2, <1>6, <1>7
<1>9. SlotOfRow(y, ret + n, b) = SlotOfRow(x, ret, b)
  BY <1>8, SlotStays
<1> QED
  BY <1>4, <1>5, <1>9 DEF InRing

-----------------------------------------------------------------------------
(* What was written to a reader.                                           *)

(* The rows of a log come one after the other, each under its time stamp. *)
LogRight(log) ==
  /\ log \in Seq(ItemType)
  /\ \A j, k \in 1 .. Len(log) : NextRow(log, j, k) => log[k].id = log[j].id + 1
  /\ \A k \in 1 .. Len(log) - 1 : log[k + 1].id > 0 => log[k + 1].tsp = log[k].tsp

HasRows(log) == \E j \in 1 .. Len(log) : log[j].id > 0

(* The last row of a log, if it has rows, is row p. *)
LastRowIs(log, p) ==
  \A j \in 1 .. Len(log) :
    log[j].id > 0 /\ (\A m \in j + 1 .. Len(log) : log[m].id = 0) => log[j].id = p

(* log2 is log and a time stamp, or log and the n rows after row p. *)
LoggedStamp(tsp) == <<[id |-> 0, tsp |-> tsp]>>

LoggedRows(p, n, tsp) == [k \in 1 .. n |-> [id |-> p + k, tsp |-> tsp]]

Onto(log, items, log2) == log2 = log \o items

(* A time stamp is written. *)
LEMMA LogStamp ==
  ASSUME NEW log, LogRight(log), NEW tsp \in Nat,
         NEW log2, Onto(log, LoggedStamp(tsp), log2)
  PROVE  /\ LogRight(log2) /\ log2 # <<>> /\ log2[Len(log2)].tsp = tsp
         /\ HasRows(log2) => HasRows(log)
         /\ \A p : LastRowIs(log, p) => LastRowIs(log2, p)
<1> DEFINE N == Len(log)
           item == [id |-> 0, tsp |-> tsp]
<1>1. log \in Seq(ItemType) /\ N \in Nat /\ item \in ItemType
  BY DEF LogRight, ItemType
<1>2. /\ log2 \in Seq(ItemType) /\ Len(log2) = N + 1 /\ log2[N + 1] = item
      /\ \A j \in 1 .. N : log2[j] = log[j]
  <2>1. log2 = log \o <<item>>
    BY DEF LoggedStamp, Onto
  <2> HIDE DEF item
  <2> QED
    BY <1>1, <2>1
<1>3. log2[N + 1].id = 0 /\ log2[N + 1].tsp = tsp
  BY <1>2
<1>4. LogRight(log2)
  <2>1. ASSUME NEW j \in 1 .. N + 1, NEW k \in 1 .. N + 1, NextRow(log2, j, k)
        PROVE  log2[k].id = log2[j].id + 1
    <3>1. j < k /\ log2[j].id > 0 /\ log2[k].id > 0
      BY <2>1 DEF NextRow
    <3>2. k # N + 1
      BY <3>1, <1>3
    <3>3. j \in 1 .. N /\ k \in 1 .. N
      BY <3>1, <3>2, <1>1
    <3>4. NextRow(log, j, k)
      <4>1. ASSUME NEW m \in j + 1 .. k - 1 PROVE log[m].id = 0
        <5>1. m \in 1 .. N /\ log2[m].id = 0
          BY <2>1, <3>3 DEF NextRow
        <5> QED
          BY <5>1, <1>2
      <4> QED
        BY <3>1, <3>3, <4>1, <1>2 DEF NextRow
    <3>5. log[k].id = log[j].id + 1
      BY <3>3, <3>4 DEF LogRight
    <3> QED
      BY <3>3, <3>5, <1>2
  <2>2. ASSUME NEW k \in 1 .. N + 1 - 1, log2[k + 1].id > 0
        PROVE  log2[k + 1].tsp = log2[k].tsp
    <3>1. k # N
      BY <2>2, <1>3
    <3>2. k \in 1 .. N - 1 /\ k \in 1 .. N /\ k + 1 \in 1 .. N
      BY <3>1, <1>1
    <3> QED
      BY <3>2, <2>2, <1>2 DEF LogRight
  <2> QED
    BY <1>2, <2>1, <2>2 DEF LogRight
<1>5. log2 # <<>>
  BY <1>1, <1>2
<1>6. HasRows(log2) => HasRows(log)
  <2> SUFFICES ASSUME NEW j \in 1 .. N + 1, log2[j].id > 0
               PROVE  \E k \in 1 .. N : log[k].id > 0
    BY <1>2 DEF HasRows
  <2>1. j # N + 1
    BY <1>3
  <2>2. j \in 1 .. N
    BY <2>1, <1>1
  <2> QED
    BY <2>2, <1>2
<1>7. ASSUME NEW p, LastRowIs(log, p)
      PROVE  LastRowIs(log2, p)
  <2> SUFFICES ASSUME NEW j \in 1 .. N + 1, log2[j].id > 0,
                      \A m \in j + 1 .. N + 1 : log2[m].id = 0
               PROVE  log2[j].id = p
    BY <1>2 DEF LastRowIs
  <2>1. j # N + 1
    BY <1>3
  <2>2. j \in 1 .. N
    BY <2>1, <1>1
  <2>3. ASSUME NEW m \in j + 1 .. N PROVE log[m].id = 0
    <3>1. m \in j + 1 .. N + 1 /\ m \in 1 .. N
      BY <2>2, <1>1
    <3> QED
      BY <3>1, <1>2
  <2>4. log2[j] = log[j]
    BY <2>2, <1>2
  <2> QED
    BY <1>7, <2>2, <2>3, <2>4 DEF LastRowIs
<1> QED
  BY <1>2, <1>3, <1>4, <1>5, <1>6, <1>7

(* The n rows after row p are written. *)
LEMMA LogRows ==
  ASSUME NEW log, LogRight(log), log # <<>>, NEW tsp \in Nat, log[Len(log)].tsp = tsp,
         NEW p \in Nat, LastRowIs(log, p), NEW n \in Nat \ {0}, NEW log2,
         Onto(log, LoggedRows(p, n, tsp), log2)
  PROVE  /\ LogRight(log2) /\ log2 # <<>> /\ log2[Len(log2)].tsp = tsp
         /\ LastRowIs(log2, p + n)
<1> DEFINE N == Len(log)
           items == [k \in 1 .. n |-> [id |-> p + k, tsp |-> tsp]]
           M == N + n
<1>1. log \in Seq(ItemType) /\ N \in Nat /\ N > 0 /\ n \in Nat /\ n > 0
  BY DEF LogRight
<1>2. items \in Seq(ItemType) /\ Len(items) = n
  <2>1. \A k \in 1 .. n : [id |-> p + k, tsp |-> tsp] \in ItemType
    BY DEF ItemType
  <2> QED
    BY <2>1, SMTT(30)
<1>3. \A k \in 1 .. n : items[k].id = p + k /\ items[k].tsp = tsp
  OBVIOUS
<1>4. /\ log2 \in Seq(ItemType) /\ Len(log2) = M
      /\ \A j \in 1 .. N : log2[j] = log[j]
      /\ \A j \in N + 1 .. M : log2[j] = items[j - N]
  <2>1. log2 = log \o items
    BY DEF LoggedRows, Onto
  <2> HIDE DEF items
  <2>5. log2 \in Seq(ItemType)
    BY ONLY <1>1, <1>2, <2>1
  <2>6. Len(log2) = M
    <3>1. Len(log2) = Len(log) + Len(items)
      BY <1>1, <1>2, <2>1, ConcatProperties
    <3> QED
      BY ONLY <1>2, <3>1
  <2>2. log2 \in Seq(ItemType) /\ Len(log2) = M
    BY <2>5, <2>6
  <2>3. ASSUME NEW j \in 1 .. N PROVE log2[j] = log[j]
    BY ONLY <1>1, <1>2, <2>1, <2>3
  <2>4. ASSUME NEW j \in N + 1 .. M PROVE log2[j] = items[j - N]
    BY ONLY <1>1, <1>2, <2>1, <2>4
  <2> QED
    BY <2>2, <2>3, <2>4
<1> HIDE DEF items
<1>5. ASSUME NEW j \in N + 1 .. M
      PROVE  log2[j].id = p + (j - N) /\ log2[j].tsp = tsp /\ log2[j].id > 0
  <2>1. j - N \in 1 .. n
    BY <1>1
  <2>2. log2[j].id = p + (j - N) /\ log2[j].tsp = tsp
    BY <2>1, <1>3, <1>4
  <2> QED
    BY <2>1, <2>2
<1>6. ASSUME NEW j \in 1 .. M, NEW k \in 1 .. M, NextRow(log2, j, k)
      PROVE  log2[k].id = log2[j].id + 1
  <2>1. /\ j < k /\ log2[j].id > 0 /\ log2[k].id > 0
        /\ \A m \in j + 1 .. k - 1 : log2[m].id = 0
    BY <1>6 DEF NextRow
  <2>2. CASE k <= N
    <3>1. j \in 1 .. N /\ k \in 1 .. N
      BY <2>1, <2>2, <1>1
    <3>2. ASSUME NEW m \in j + 1 .. k - 1 PROVE log[m].id = 0
      <4>1. m \in 1 .. N /\ log2[m].id = 0
        BY <2>1, <3>1
      <4> QED
        BY <4>1, <1>4
    <3>3. NextRow(log, j, k)
      BY <2>1, <3>1, <3>2, <1>4 DEF NextRow
    <3>4. log[k].id = log[j].id + 1
      BY <3>1, <3>3 DEF LogRight
    <3> QED
      BY <3>1, <3>4, <1>4
  <2>3. CASE k > N /\ j <= N
    <3>1. k = N + 1
      <4> SUFFICES ASSUME k # N + 1 PROVE FALSE
        OBVIOUS
      <4>1. N + 1 \in j + 1 .. k - 1 /\ N + 1 \in N + 1 .. M
        BY <2>3, <1>1
      <4>2. log2[N + 1].id = 0
        BY <4>1, <2>1
      <4>3. log2[N + 1].id > 0
        BY <4>1, <1>5
      <4> QED
        BY ONLY <4>2, <4>3
    <3>2. k \in N + 1 .. M /\ k - N = 1
      BY <3>1, <1>1
    <3>3. log2[k].id = p + 1
      BY <3>2, <1>5
    <3>4. j \in 1 .. N
      BY <2>3, <1>1
    <3>5. ASSUME NEW m \in j + 1 .. N PROVE log[m].id = 0
      <4>1. m \in j + 1 .. k - 1 /\ m \in 1 .. N
        BY <3>1, <3>4, <1>1
      <4> QED
        BY <4>1, <2>1, <1>4
    <3>6. log[j].id > 0
      BY <2>1, <3>4, <1>4
    <3>7. log[j].id = p
      BY <3>4, <3>5, <3>6 DEF LastRowIs
    <3> QED
      BY <3>3, <3>4, <3>7, <1>4
  <2>4. CASE j > N
    <3>1. k = j + 1
      <4> SUFFICES ASSUME k # j + 1 PROVE FALSE
        OBVIOUS
      <4>1. j + 1 \in j + 1 .. k - 1 /\ j + 1 \in N + 1 .. M
        BY <2>1, <2>4, <1>1
      <4>2. log2[j + 1].id = 0
        BY <4>1, <2>1
      <4>3. log2[j + 1].id > 0
        BY <4>1, <1>5
      <4> QED
        BY ONLY <4>2, <4>3
    <3>2. j \in N + 1 .. M /\ k \in N + 1 .. M
      BY <2>1, <2>4, <1>1
    <3>3. log2[j].id = p + (j - N) /\ log2[k].id = p + (k - N)
      BY <3>2, <1>5
    <3> QED
      BY <3>1, <3>2, <3>3, <1>1
  <2> QED
    BY <2>2, <2>3, <2>4, <1>1
<1>7. ASSUME NEW k \in 1 .. M - 1, log2[k + 1].id > 0
      PROVE  log2[k + 1].tsp = log2[k].tsp
  <2>1. CASE k < N
    <3>1. k \in 1 .. N - 1 /\ k \in 1 .. N /\ k + 1 \in 1 .. N
      BY <2>1, <1>1
    <3> QED
      BY <3>1, <1>4, <1>7 DEF LogRight
  <2>2. CASE k = N
    <3>1. N + 1 \in N + 1 .. M /\ N \in 1 .. N
      BY <1>1
    <3>2. log2[N + 1].tsp = tsp /\ log2[N].tsp = tsp
      BY <3>1, <1>4, <1>5
    <3> QED
      BY <3>2, <2>2
  <2>3. CASE k > N
    <3>1. k \in N + 1 .. M /\ k + 1 \in N + 1 .. M
      BY <2>3, <1>1
    <3> QED
      BY <3>1, <1>5
  <2> QED
    BY <2>1, <2>2, <2>3, <1>1
<1>8. LogRight(log2)
  BY <1>4, <1>6, <1>7 DEF LogRight
<1>9. M \in N + 1 .. M /\ M - N = n /\ M \in Nat /\ M > 0
  BY <1>1
<1>10. log2[M].tsp = tsp /\ log2[M].id = p + n
  BY <1>5, <1>9
<1>11. log2 # <<>>
  BY <1>4, <1>9
<1>12. LastRowIs(log2, p + n)
  <2> SUFFICES ASSUME NEW j \in 1 .. M, \A m \in j + 1 .. M : log2[m].id = 0
               PROVE  log2[j].id = p + n
    BY <1>4 DEF LastRowIs
  <2>1. j = M
    <3> SUFFICES ASSUME j # M PROVE FALSE
      OBVIOUS
    <3>1. M \in j + 1 .. M
      BY <1>9
    <3>2. log2[M].id = 0
      BY <3>1
    <3> QED
      BY <3>2, <1>1, <1>10
  <2> QED
    BY <2>1, <1>10
<1> QED
  BY <1>4, <1>8, <1>10, <1>11, <1>12

-----------------------------------------------------------------------------
(* What was written to a reader, and the rows that are still to come.      *)

(* A reader handled n rows of ref, of whose rows, retired ones not counted, b
   came before: its log is under the time stamp of ref and ends with that row. *)
Stands(log, n, ref, b) ==
  /\ n <= ref.Qrows_retired + ref.n_Qrows
  /\ log # <<>> /\ log[Len(log)].tsp = ref.tsp
  /\ HasRows(log) => ref.Qrows_retired <= n
  /\ LastRowIs(log, (b - ref.Qrows_retired) + n)

Followed(ch, bs, rd, log) ==
  /\ LogRight(log)
  /\ rd.tmqr = 0 => log = <<>>
  /\ \A i \in 1 .. Len(ch) : ch[i].id = rd.tmqr => Stands(log, rd.n_Qrows, ch[i], bs[i])

Numbered(ref, b) == ref.n_Qrows \in Nat /\ ref.Qrows_retired \in Nat /\ b \in Nat

LEMMA LaidNumbers ==
  ASSUME NEW x, NEW bs, NEW com, NEW ret, NEW stamps, Laid(x, bs, com, ret, stamps),
         NEW i \in 1 .. Len(x.chain)
  PROVE  Numbered(x.chain[i], bs[i])
BY LaidAt DEF Numbered

(* What a reader holds is kept. *)
LEMMA StandsKept ==
  ASSUME NEW log, NEW n \in Nat, NEW ref, NEW b, NEW ref2, NEW b2,
         Stands(log, n, ref, b), Kept(ref, b, ref2, b2),
         Numbered(ref, b), Numbered(ref2, b2),
         ref2.Qrows_retired = ref.Qrows_retired \/ ref2.Qrows_retired <= n
  PROVE  Stands(log, n, ref2, b2)
<1> DEFINE a == ref.Qrows_retired
           a2 == ref2.Qrows_retired
           m == ref.n_Qrows
           m2 == ref2.n_Qrows
<1>1. a \in Nat /\ a2 \in Nat /\ m \in Nat /\ m2 \in Nat /\ b \in Nat /\ b2 \in Nat
  BY DEF Numbered
<1>2. b2 - a2 = b - a /\ a + m <= a2 + m2 /\ ref2.tsp = ref.tsp /\ (a2 = a \/ a2 <= n)
  BY DEF Kept
<1>3. /\ n <= a + m /\ log # <<>> /\ log[Len(log)].tsp = ref.tsp
      /\ HasRows(log) => a <= n
      /\ LastRowIs(log, (b - a) + n)
  BY DEF Stands
<1> HIDE DEF a, a2, m, m2
<1>4. n <= a2 + m2
  BY <1>1, <1>2, <1>3
<1>5. HasRows(log) => a2 <= n
  BY <1>2, <1>3
<1>6. LastRowIs(log, (b2 - a2) + n)
  BY <1>2, <1>3
<1> QED
  BY <1>2, <1>3, <1>4, <1>5, <1>6 DEF Stands, a, a2, m, m2

LEMMA FollowedFuller ==
  ASSUME NEW x, NEW bs, NEW com, NEW ret, NEW stamps, Laid(x, bs, com, ret, stamps),
         NEW y, NEW bs2, NEW com2, NEW ret2, NEW stamps2, Laid(y, bs2, com2, ret2, stamps2),
         NEW n \in Nat, Fuller(x.chain, bs, y.chain, bs2, n),
         NEW rd, rd.n_Qrows \in Nat, NEW log, Followed(x.chain, bs, rd, log)
  PROVE  Followed(y.chain, bs2, rd, log)
<1> DEFINE N == Len(x.chain)
           old == x.chain
           new == y.chain
<1>1. /\ N \in Nat /\ N > 0 /\ Len(new) = N /\ bs2 = bs
      /\ \A i \in 1 .. N - 1 : new[i] = old[i]
      /\ new[N].id = old[N].id /\ new[N].tsp = old[N].tsp
      /\ new[N].n_Qrows = old[N].n_Qrows + n
      /\ new[N].Qrows_retired = old[N].Qrows_retired
  BY LaidFacts DEF Fuller
<1> SUFFICES ASSUME NEW i \in 1 .. N, new[i].id = rd.tmqr
             PROVE  Stands(log, rd.n_Qrows, new[i], bs2[i])
  BY <1>1 DEF Followed
<1>2. Numbered(old[i], bs[i]) /\ Numbered(new[i], bs2[i])
  BY <1>1, LaidNumbers
<1>3. Kept(old[i], bs[i], new[i], bs2[i]) /\ new[i].Qrows_retired = old[i].Qrows_retired
  <2>1. CASE i = N
    <3> DEFINE a == old[N].Qrows_retired
               m == old[N].n_Qrows
    <3>1. a \in Nat /\ m \in Nat
      BY <2>1, <1>2 DEF Numbered
    <3>2. new[N].n_Qrows = m + n /\ new[N].Qrows_retired = a
      BY <1>1
    <3> HIDE DEF a, m
    <3>3. a + m <= a + (m + n)
      BY <3>1
    <3> QED
      BY <2>1, <1>1, <3>2, <3>3 DEF Kept, a, m
  <2>2. CASE i # N
    <3>1. new[i] = old[i] /\ bs2[i] = bs[i]
      BY <2>2, <1>1
    <3> DEFINE m == old[i].Qrows_retired + old[i].n_Qrows
    <3>2. m <= m
      BY <1>2 DEF Numbered
    <3> QED
      BY <3>1, <3>2 DEF Kept
  <2> QED
    BY <2>1, <2>2
<1>4. Stands(log, rd.n_Qrows, old[i], bs[i])
  <2>1. old[i].id = rd.tmqr
    BY <1>3 DEF Kept
  <2> QED
    BY <2>1 DEF Followed
<1> QED
  BY <1>2, <1>3, <1>4, StandsKept

LEMMA FollowedLonger ==
  ASSUME NEW x, NEW bs, NEW com, NEW ret, NEW stamps, Laid(x, bs, com, ret, stamps),
         NEW y, NEW bs2, NEW n, NEW id, NEW tsp,
         Longer(x.chain, bs, y.chain, bs2, com, n, id, tsp),
         NEW rd, rd.tmqr # id, NEW log, Followed(x.chain, bs, rd, log)
  PROVE  Followed(y.chain, bs2, rd, log)
<1> DEFINE N == Len(x.chain)
           old == x.chain
           new == y.chain
<1>1. /\ N \in Nat /\ Len(new) = N + 1
      /\ \A i \in 1 .. N : new[i] = old[i] /\ bs2[i] = bs[i]
      /\ new[N + 1].id = id
  BY LaidFacts DEF Longer
<1> SUFFICES ASSUME NEW i \in 1 .. N + 1, new[i].id = rd.tmqr
             PROVE  Stands(log, rd.n_Qrows, new[i], bs2[i])
  BY <1>1 DEF Followed
<1>2. i # N + 1
  BY <1>1
<1>3. i \in 1 .. N
  <2> HIDE DEF N
  <2> QED
    BY <1>1, <1>2
<1>4. new[i] = old[i] /\ bs2[i] = bs[i]
  BY <1>1, <1>3
<1> QED
  BY <1>3, <1>4 DEF Followed

LEMMA FollowedEmptier ==
  ASSUME NEW x, NEW bs, NEW com, NEW ret, NEW stamps, Laid(x, bs, com, ret, stamps),
         NEW y, NEW bs2, NEW com2, NEW ret2, NEW stamps2, Laid(y, bs2, com2, ret2, stamps2),
         NEW n \in Nat, Emptier(x.chain, bs, y.chain, bs2, n),
         NEW rd, rd.n_Qrows \in Nat, NEW log, Followed(x.chain, bs, rd, log),
         n > 0 /\ rd.tmqr = x.chain[1].id => x.chain[1].Qrows_retired + n <= rd.n_Qrows
  PROVE  Followed(y.chain, bs2, rd, log)
<1> DEFINE N == Len(x.chain)
           old == x.chain
           new == y.chain
<1>1. /\ N \in Nat /\ N > 0 /\ Len(new) = N
      /\ \A i \in 2 .. N : new[i] = old[i] /\ bs2[i] = bs[i]
      /\ new[1].id = old[1].id /\ new[1].tsp = old[1].tsp
      /\ new[1].n_Qrows = old[1].n_Qrows - n /\ n <= old[1].n_Qrows
      /\ new[1].Qrows_retired = old[1].Qrows_retired + n /\ bs2[1] = bs[1] + n
  BY LaidFacts DEF Emptier
<1> SUFFICES ASSUME NEW i \in 1 .. N, new[i].id = rd.tmqr
             PROVE  Stands(log, rd.n_Qrows, new[i], bs2[i])
  BY <1>1 DEF Followed
<1>2. Numbered(old[i], bs[i]) /\ Numbered(new[i], bs2[i])
  BY <1>1, LaidNumbers
<1>3. /\ Kept(old[i], bs[i], new[i], bs2[i])
      /\ new[i].Qrows_retired = old[i].Qrows_retired \/ new[i].Qrows_retired <= rd.n_Qrows
  <2>1. CASE i = 1
    <3> DEFINE a == old[1].Qrows_retired
               m == old[1].n_Qrows
               b == bs[1]
    <3>1. a \in Nat /\ m \in Nat /\ b \in Nat
      BY <2>1, <1>2 DEF Numbered
    <3>2. /\ new[1].n_Qrows = m - n /\ new[1].Qrows_retired = a + n /\ bs2[1] = b + n
          /\ n <= m
      BY <1>1
    <3>3. n > 0 => a + n <= rd.n_Qrows
      BY <2>1, <1>1
    <3> HIDE DEF a, m, b
    <3>4. /\ a + m <= (a + n) + (m - n)
          /\ (b + n) - (a + n) = b - a
          /\ a + n = a \/ a + n <= rd.n_Qrows
      BY <3>1, <3>2, <3>3
    <3> QED
      BY <2>1, <1>1, <3>2, <3>4 DEF Kept, a, m, b
  <2>2. CASE i # 1
    <3>1. new[i] = old[i] /\ bs2[i] = bs[i]
      BY <2>2, <1>1
    <3> DEFINE m == old[i].Qrows_retired + old[i].n_Qrows
    <3>2. m <= m
      BY <1>2 DEF Numbered
    <3> QED
      BY <3>1, <3>2 DEF Kept
  <2> QED
    BY <2>1, <2>2
<1>4. Stands(log, rd.n_Qrows, old[i], bs[i])
  <2>1. old[i].id = rd.tmqr
    BY <1>3 DEF Kept
  <2> QED
    BY <2>1 DEF Followed
<1> QED
  BY <1>2, <1>3, <1>4, StandsKept

LEMMA FollowedShorter ==
  ASSUME NEW x, NEW bs, NEW com, NEW ret, NEW stamps, Laid(x, bs, com, ret, stamps),
         NEW y, NEW bs2, NEW n, Shorter(x.chain, bs, y.chain, bs2, n),
         NEW rd, NEW log, Followed(x.chain, bs, rd, log)
  PROVE  Followed(y.chain, bs2, rd, log)
<1> DEFINE N == Len(x.chain)
           old == x.chain
           new == y.chain
<1>1. /\ N \in Nat /\ N > 1 /\ Len(new) = N - 1
      /\ \A i \in 1 .. N - 1 : new[i] = old[i + 1] /\ bs2[i] = bs[i + 1]
  BY LaidFacts DEF Shorter
<1> SUFFICES ASSUME NEW i \in 1 .. N - 1, new[i].id = rd.tmqr
             PROVE  Stands(log, rd.n_Qrows, new[i], bs2[i])
  BY <1>1 DEF Followed
<1>2. i + 1 \in 1 .. N
  BY <1>1
<1>3. new[i] = old[i + 1] /\ bs2[i] = bs[i + 1]
  BY <1>1
<1> QED
  BY <1>2, <1>3 DEF Followed

-----------------------------------------------------------------------------
(* The rows of the buffer: the queue, the ring and the logs agree.         *)

Right(s, bs, ret) ==
  /\ Laid(s.q, bs, s.committed, ret, s.nstamps)
  /\ InRing(s.q, s.mem, bs, ret)
  /\ \A r \in Readers : Followed(s.q.chain, bs, s.reader[r], s.log[r])

RowsRight(s) == \E bs \in Seq(Nat), ret \in Nat : Right(s, bs, ret)

(* All that this is about is the same in t. *)
SameStand(s, t) ==
  /\ t.q = s.q /\ t.mem = s.mem /\ t.committed = s.committed
  /\ t.nstamps = s.nstamps /\ t.log = s.log
  /\ \A p \in Readers : /\ t.reader[p].tmqr = s.reader[p].tmqr
                        /\ t.reader[p].n_Qrows = s.reader[p].n_Qrows

LEMMA StandRight ==
  ASSUME NEW s, RowsRight(s), NEW t, SameStand(s, t)
  PROVE  RowsRight(t)
<1>1. PICK bs \in Seq(Nat), ret \in Nat : Right(s, bs, ret)
  BY DEF RowsRight
<1>2. Laid(t.q, bs, t.committed, ret, t.nstamps) /\ InRing(t.q, t.mem, bs, ret)
  BY <1>1 DEF Right, SameStand
<1>3. ASSUME NEW r \in Readers
      PROVE  Followed(t.q.chain, bs, t.reader[r], t.log[r])
  <2>1. Followed(s.q.chain, bs, s.reader[r], s.log[r])
    BY <1>1 DEF Right
  <2>2. /\ t.q = s.q /\ t.log = s.log /\ t.reader[r].tmqr = s.reader[r].tmqr
        /\ t.reader[r].n_Qrows = s.reader[r].n_Qrows
    BY DEF SameStand
  <2> QED
    BY <2>1, <2>2 DEF Followed
<1> QED
  BY <1>2, <1>3 DEF Right, RowsRight

LEMMA ReaderFacts ==
  ASSUME NEW s, Sound(s)
  PROVE  /\ \A r \in Readers : /\ s.reader[r] \in ReaderType /\ s.reader[r].tmqr \in Nat
                               /\ s.reader[r].n_Qrows \in Nat
                               /\ s.reader[r].tmqr # s.nrefs + 1
         /\ s.q \in QueueType /\ s.q.chain \in Seq(TmqRefType) /\ Len(s.q.chain) \in Nat
         /\ s.nrefs \in Nat /\ s.nrefs + 1 \in Nat /\ s.committed \in Nat /\ s.nstamps \in Nat
         /\ s.input \in InputType /\ s.mem \in RingType
<1>1. /\ s.q \in QueueType /\ s.reader \in [Readers -> ReaderType] /\ s.nrefs \in Nat
      /\ s.committed \in Nat /\ s.nstamps \in Nat /\ s.input \in InputType
      /\ s.mem \in RingType
  BY Fields DEF Sound
<1>2. s.q.chain \in Seq(TmqRefType) /\ Len(s.q.chain) \in Nat
  BY <1>1, QueueFields
<1>3. ASSUME NEW r \in Readers
      PROVE  /\ s.reader[r] \in ReaderType /\ s.reader[r].tmqr \in Nat
             /\ s.reader[r].n_Qrows \in Nat /\ s.reader[r].tmqr # s.nrefs + 1
  <2>1. s.reader[r] \in ReaderType
    BY <1>1
  <2>2. s.reader[r].tmqr \in Nat /\ s.reader[r].n_Qrows \in Nat
    BY <2>1 DEF ReaderType
  <2> DEFINE id == s.reader[r].tmqr
             n == s.nrefs
  <2>3. id # 0 => id \in 1 .. n
    <3>1. id # 0 => \E i \in 1 .. Len(s.q.chain) : s.q.chain[i].id = id
      BY DEF Sound, Counts
    <3> QED
      BY <3>1 DEF Sound, Named
  <2> HIDE DEF id, n
  <2>4. n \in Nat
    BY <1>1 DEF n
  <2>5. id # n + 1
    BY <2>3, <2>4
  <2> QED
    BY <2>1, <2>2, <2>5 DEF id, n
<1> QED
  BY <1>1, <1>2, <1>3

(* The rows of a block have come in behind last. *)
BlockThere(s) ==
  \A k \in 1 .. s.input.off :
    s.mem[s.q.last + k - 1] = [id |-> s.committed + k, tsp |-> LastRef(s.q).tsp]

LEMMA CommitBlockRight ==
  ASSUME NEW s, Sound(s), RowsRight(s), s.q.chain # <<>>, s.input.off > 0,
         s.input.off <= AllocateRows(s.q), BlockThere(s)
  PROVE  CommitAsserts(s.q, s.input.off) /\ RowsRight(CommitBlock(s))
<1> DEFINE off == s.input.off
           t == CommitBlock(s)
           id == s.nrefs + 1
<1>1. off \in Nat \ {0}
  <2>1. off \in 0 .. MaxRec
    BY ReaderFacts, InputFields
  <2> QED
    BY <2>1, Sizes
<1>2. id \in Nat /\ s.q \in QueueType
  BY ReaderFacts
<1>3. CommitAsserts(s.q, off)
  <2> DEFINE last == s.q.last
             free == AllocateRows(s.q)
  <2>1. last + free <= TotalQrows /\ free \in 0 .. TotalQrows /\ last \in 0 .. TotalQrows - 1
    BY <1>2, FreeRows, QueueFields
  <2>2. ~s.q.full
    BY <1>1 DEF AllocateRows
  <2>3. off <= free
    OBVIOUS
  <2> HIDE DEF last, free, off
  <2>4. last + off <= TotalQrows
    BY <2>1, <2>3, <1>1, Sizes
  <2> QED
    BY <2>2, <2>4 DEF CommitAsserts, last
<1>4. /\ QueueStep(s, t) /\ t.committed = s.committed + off
      /\ \E lab \in Labels : t.q = CommitRows(s.q, id, lab, off)
  BY <1>3, CommitBlockSound
<1>5. PICK lab \in Labels : t.q = CommitRows(s.q, id, lab, off)
  BY <1>4
<1>6. /\ t.mem = s.mem /\ t.nstamps = s.nstamps /\ t.reader = s.reader /\ t.log = s.log
  BY <1>4 DEF QueueStep
<1>7. PICK bs \in Seq(Nat), ret \in Nat : Right(s, bs, ret)
  BY DEF RowsRight
<1>8. /\ Laid(s.q, bs, s.committed, ret, s.nstamps) /\ InRing(s.q, s.mem, bs, ret)
      /\ \A r \in Readers : Followed(s.q.chain, bs, s.reader[r], s.log[r])
  BY <1>7 DEF Right
<1>9. \A k \in 1 .. off :
        s.mem[s.q.last + k - 1] = [id |-> s.committed + k, tsp |-> LastRef(s.q).tsp]
  BY DEF BlockThere
<1>10. off <= AllocateRows(s.q) /\ s.q.chain # <<>>
  OBVIOUS
<1> DEFINE y == t.q
           tsp == LastRef(s.q).tsp
<1>11. /\ \A r \in Readers : s.reader[r].n_Qrows \in Nat /\ s.reader[r].tmqr # id
  BY ReaderFacts
<1>17. \A k \in 1 .. off : s.mem[s.q.last + k - 1] = [id |-> s.committed + k, tsp |-> tsp]
  BY <1>9
<1> HIDE DEF off, t, id
<1>12. PICK bs2 \in Seq(Nat) :
         /\ Laid(y, bs2, s.committed + off, ret, s.nstamps)
         /\ \/ Fuller(s.q.chain, bs, y.chain, bs2, off)
            \/ Longer(s.q.chain, bs, y.chain, bs2, s.committed, off, id, tsp)
  BY <1>1, <1>2, <1>5, <1>8, <1>10, CommitLaid
<1>13. y.first = s.q.first
  BY <1>5 DEF CommitRows
<1> HIDE DEF y, tsp
<1>14. InRing(y, s.mem, bs2, ret)
  <2>1. CASE Fuller(s.q.chain, bs, y.chain, bs2, off)
    BY <2>1, <1>1, <1>8, <1>10, <1>13, <1>17, FullerRing, SMTT(30) DEF tsp
  <2>2. CASE Longer(s.q.chain, bs, y.chain, bs2, s.committed, off, id, tsp)
    <3> DEFINE x == s.q
               cells == s.mem
               com == s.committed
    <3>1. /\ Longer(x.chain, bs, y.chain, bs2, com, off, id, tsp)
          /\ Laid(x, bs, com, ret, s.nstamps) /\ off <= AllocateRows(x)
          /\ y.first = x.first /\ InRing(x, cells, bs, ret)
          /\ \A k \in 1 .. off : cells[x.last + k - 1] = [id |-> com + k, tsp |-> tsp]
      BY <2>2, <1>8, <1>10, <1>13, <1>17
    <3>2. off \in Nat
      BY <1>1
    <3> HIDE DEF x, cells, com
    <3>3. InRing(y, cells, bs2, ret)
      BY <3>1, <3>2, LongerRing, SMTT(30)
    <3> QED
      BY <3>3 DEF cells
  <2> QED
    BY <2>1, <2>2, <1>12
<1>15. ASSUME NEW r \in Readers
       PROVE  Followed(y.chain, bs2, s.reader[r], s.log[r])
  <2> DEFINE rd == s.reader[r]
             log == s.log[r]
  <2>1. Followed(s.q.chain, bs, rd, log) /\ rd.n_Qrows \in Nat /\ rd.tmqr # id
    BY <1>8, <1>11
  <2> HIDE DEF rd, log
  <2>2. ASSUME Fuller(s.q.chain, bs, y.chain, bs2, off)
        PROVE  Followed(y.chain, bs2, rd, log)
    BY <2>1, <2>2, <1>1, <1>8, <1>12, FollowedFuller
  <2>3. ASSUME Longer(s.q.chain, bs, y.chain, bs2, s.committed, off, id, tsp)
        PROVE  Followed(y.chain, bs2, rd, log)
    BY <2>1, <2>3, <1>8, FollowedLonger
  <2>4. Followed(y.chain, bs2, rd, log)
    BY <2>2, <2>3, <1>12
  <2> QED
    BY <2>4 DEF rd, log
<1>16. Right(t, bs2, ret)
  BY <1>4, <1>6, <1>12, <1>14, <1>15 DEF Right, y
<1> QED
  BY <1>3, <1>16 DEF RowsRight, t, off

LEMMA RetireOfRight ==
  ASSUME NEW s, Sound(s), RowsRight(s), s.q.chain # <<>>,
         NEW n \in Nat, n <= s.q.chain[1].n_Qrows,
         n > 0 => \A r \in ToSet(s.order) : s.reader[r].tmqr = s.q.chain[1].id =>
                                              Retired(s) + n <= s.reader[r].n_Qrows
  PROVE  RetireAsserts(s.q, n) /\ RowsRight(RetireOf(s, n))
<1> DEFINE t == RetireOf(s, n)
           y == t.q
<1>1. PICK bs \in Seq(Nat), ret \in Nat : Right(s, bs, ret)
  BY DEF RowsRight
<1>2. /\ Laid(s.q, bs, s.committed, ret, s.nstamps) /\ InRing(s.q, s.mem, bs, ret)
      /\ \A r \in Readers : Followed(s.q.chain, bs, s.reader[r], s.log[r])
  BY <1>1 DEF Right
<1>3. RetireAsserts(s.q, n)
  BY <1>2, RetireAllowed
<1>4. /\ QueueStep(s, t) /\ t.committed = s.committed /\ y = RetireRows(s.q, n)
  BY <1>3, RetireOfSound
<1>5. /\ t.mem = s.mem /\ t.nstamps = s.nstamps /\ t.reader = s.reader /\ t.log = s.log
  BY <1>4 DEF QueueStep
<1>13. \E bs2 \in Seq(Nat) :
         /\ Laid(RetireRows(s.q, n), bs2, s.committed, ret + n, s.nstamps)
         /\ \/ Emptier(s.q.chain, bs, RetireRows(s.q, n).chain, bs2, n)
            \/ Shorter(s.q.chain, bs, RetireRows(s.q, n).chain, bs2, n)
  BY <1>2, RetireLaid
<1> HIDE DEF t
<1>6. PICK bs2 \in Seq(Nat) :
        /\ Laid(y, bs2, s.committed, ret + n, s.nstamps)
        /\ \/ Emptier(s.q.chain, bs, y.chain, bs2, n)
           \/ Shorter(s.q.chain, bs, y.chain, bs2, n)
  BY <1>4, <1>13
<1>7. y.first = Wrap(s.q.first + n)
  BY <1>4 DEF RetireRows
<1> HIDE DEF y
<1>8. InRing(y, s.mem, bs2, ret + n)
  <2>1. CASE Emptier(s.q.chain, bs, y.chain, bs2, n)
    BY <2>1, <1>2, <1>7, EmptierRing
  <2>2. CASE Shorter(s.q.chain, bs, y.chain, bs2, n)
    BY <2>2, <1>2, <1>7, ShorterRing
  <2> QED
    BY <2>1, <2>2, <1>6
<1>9. \A r \in Readers : n > 0 /\ s.reader[r].tmqr = s.q.chain[1].id =>
                           s.q.chain[1].Qrows_retired + n <= s.reader[r].n_Qrows
  <2> SUFFICES ASSUME NEW r \in Readers, n > 0, s.reader[r].tmqr = s.q.chain[1].id
               PROVE  s.q.chain[1].Qrows_retired + n <= s.reader[r].n_Qrows
    OBVIOUS
  <2>1. 1 \in 1 .. Len(s.q.chain)
    BY ReaderFacts
  <2>2. s.q.chain[1].id > 0
    <3>1. s.q.chain[1].id \in 1 .. s.nrefs
      BY <2>1 DEF Sound, Named
    <3> QED
      BY <3>1, ReaderFacts
  <2>3. r \in ToSet(s.order)
    <3>1. s.reader[r] # Idle
      BY <2>2 DEF Idle
    <3> QED
      BY <3>1 DEF Sound, OrderRight
  <2> QED
    BY <2>3 DEF Retired
<1>10. ASSUME NEW r \in Readers
       PROVE  Followed(y.chain, bs2, s.reader[r], s.log[r])
  <2> DEFINE rd == s.reader[r]
             log == s.log[r]
             x == s.q
  <2>1. /\ Followed(x.chain, bs, rd, log) /\ rd.n_Qrows \in Nat
        /\ Laid(x, bs, s.committed, ret, s.nstamps)
        /\ n > 0 /\ rd.tmqr = x.chain[1].id => x.chain[1].Qrows_retired + n <= rd.n_Qrows
        /\ Emptier(x.chain, bs, y.chain, bs2, n) \/ Shorter(x.chain, bs, y.chain, bs2, n)
    BY <1>2, <1>6, <1>9, ReaderFacts
  <2> HIDE DEF rd, log, x
  <2>2. ASSUME Emptier(x.chain, bs, y.chain, bs2, n)
        PROVE  Followed(y.chain, bs2, rd, log)
    BY <2>1, <2>2, <1>6, FollowedEmptier
  <2>3. ASSUME Shorter(x.chain, bs, y.chain, bs2, n)
        PROVE  Followed(y.chain, bs2, rd, log)
    BY <2>1, <2>3, FollowedShorter
  <2>4. Followed(y.chain, bs2, rd, log)
    BY <2>1, <2>2, <2>3
  <2> QED
    BY <2>4 DEF rd, log
<1>11. Right(t, bs2, ret + n)
  BY <1>4, <1>5, <1>6, <1>8, <1>10 DEF Right, y
<1>12. ret + n \in Nat
  OBVIOUS
<1> QED
  BY <1>3, <1>11, <1>12 DEF RowsRight, t

LEMMA DropHeadRight ==
  ASSUME NEW s, Sound(s), RowsRight(s)
  PROVE  DropHead(s).failed = s.failed /\ RowsRight(DropHead(s))
<1>1. CASE s.failed = "none" /\ EmptyHead(s)
  <2>1. DropHead(s) = RetireOf(s, 0)
    BY <1>1 DEF DropHead
  <2>2. s.q.chain # <<>> /\ s.q.chain[1].n_Qrows = 0
    BY <1>1, ReaderFacts DEF EmptyHead
  <2>3. RetireAsserts(s.q, 0) /\ RowsRight(RetireOf(s, 0))
    <3> DEFINE n == 0
    <3>1. n \in Nat /\ n <= s.q.chain[1].n_Qrows /\ ~(n > 0)
      BY <2>2
    <3> HIDE DEF n
    <3>2. RetireAsserts(s.q, n) /\ RowsRight(RetireOf(s, n))
      BY <2>2, <3>1, RetireOfRight
    <3> QED
      BY <3>2 DEF n
  <2> QED
    BY <2>1, <2>3, RetireOfSound
<1>2. CASE ~(s.failed = "none" /\ EmptyHead(s))
  BY <1>2 DEF DropHead
<1> QED
  BY <1>1, <1>2

LEMMA RetireHandledRight ==
  ASSUME NEW s, Sound(s), RowsRight(s)
  PROVE  RetireHandled(s).failed = s.failed /\ RowsRight(RetireHandled(s))
<1>1. CASE s.failed = "none" /\ s.q.chain # <<>> /\ MinReader(s) > Retired(s)
  <2> DEFINE min == MinReader(s)
             a == Retired(s)
             m == s.q.chain[1].n_Qrows
             n == min - a
  <2>1. RetireHandled(s) = RetireOf(s, n)
    BY <1>1 DEF RetireHandled
  <2>2. /\ min \in Nat /\ min <= a + m
        /\ \A r \in ToSet(s.order) :
             s.reader[r].tmqr = s.q.chain[1].id => min <= s.reader[r].n_Qrows
    BY <1>1, MinReaderBounds
  <2>3. a \in Nat /\ m \in Nat
    <3>1. s.q.chain[1] \in TmqRefType
      BY <1>1, ReaderFacts
    <3> QED
      BY <3>1, RefFields DEF Retired
  <2>4. min > a
    BY <1>1
  <2> HIDE DEF min, a, m
  <2>5. n \in Nat /\ n <= m /\ a + n = min
    BY <2>2, <2>3, <2>4
  <2> HIDE DEF n
  <2>6. /\ n <= s.q.chain[1].n_Qrows
        /\ \A r \in ToSet(s.order) :
             s.reader[r].tmqr = s.q.chain[1].id => Retired(s) + n <= s.reader[r].n_Qrows
    BY <2>2, <2>5 DEF a, m
  <2>7. RetireAsserts(s.q, n) /\ RowsRight(RetireOf(s, n))
    BY <1>1, <2>5, <2>6, RetireOfRight
  <2> QED
    BY <2>1, <2>5, <2>7, RetireOfSound
<1>2. CASE ~(s.failed = "none" /\ s.q.chain # <<>> /\ MinReader(s) > Retired(s))
  BY <1>2 DEF RetireHandled
<1> QED
  BY <1>1, <1>2

LEMMA TmqRetireCheckRight ==
  ASSUME NEW s, Sound(s), RowsRight(s)
  PROVE  TmqRetireCheck(s).failed = s.failed /\ RowsRight(TmqRetireCheck(s))
<1> DEFINE P(t) == Sound(t) /\ RowsRight(t) /\ t.failed = s.failed
           S == {t \in StateType : P(t)}
<1>1. s \in S
  BY DEF Sound
<1>2. ASSUME NEW u \in S
      PROVE  DropHead(u) \in S
  <2>1. P(u)
    OBVIOUS
  <2>2. P(DropHead(u))
    BY <2>1, DropHeadSound, DropHeadRight
  <2> QED
    BY <2>2 DEF Sound
<1>3. Len(s.q.chain) \in Nat
  BY ReaderFacts
<1>4. PICK t \in S : TmqRetireCheck(s) = RetireHandled(t)
  <2> HIDE DEF S
  <2> QED
    BY <1>1, <1>2, <1>3, RetireCheckStays
<1>5. P(t)
  OBVIOUS
<1>6. P(RetireHandled(t))
  BY <1>5, RetireHandledSound, RetireHandledRight
<1> QED
  BY <1>4, <1>6

(* t has room, as far as there is, for the rows of a record that in was of. *)
RoomMade(t, in) ==
  /\ t.input.nb = in.nb /\ t.input.buf = t.q.last
  /\ t.input.room <= AllocateRows(t.q) /\ t.input.room <= in.nb
  /\ t.input.room = AllocateRows(t.q) \/ t.input.room = in.nb
  /\ IF AllocateRows(t.q) > 0 /\ in.state = "HDR2"
     THEN t.input.state = "DATA" /\ t.input.off = 0
     ELSE t.input.state = in.state /\ t.input.off = in.off

LEMMA AssignRoomRight ==
  ASSUME NEW s, Sound(s), RowsRight(s)
  PROVE  LET t == AssignRoom(s)
         IN /\ t.failed = s.failed /\ RowsRight(t) /\ t.committed = s.committed
            /\ RoomMade(t, s.input)
<1> DEFINE t == AssignRoom(s)
           free == AllocateRows(s.q)
<1>1. /\ QueueStep(s, t) /\ t.q = s.q /\ t.failed = s.failed
      /\ t.committed = s.committed
      /\ t.input.nb = s.input.nb /\ t.input.buf = s.q.last
      /\ t.input.room <= free /\ t.input.room <= t.input.nb
      /\ t.input.room = free \/ t.input.room = t.input.nb
      /\ IF free > 0 /\ s.input.state = "HDR2"
         THEN t.input.state = "DATA" /\ t.input.off = 0
         ELSE t.input.state = s.input.state /\ t.input.off = s.input.off
  BY AssignRoomSound
<1> HIDE DEF t
<1>2. SameStand(s, t)
  BY <1>1 DEF QueueStep, SameStand
<1>3. RowsRight(t)
  BY <1>2, StandRight
<1>4. RoomMade(t, s.input)
  BY <1>1 DEF RoomMade
<1> QED
  BY <1>1, <1>3, <1>4 DEF t

(* The rows that came in, if any, are committed and fill the room made for them. *)
BlockReady(s) ==
  s.input.state = "DATA" =>
    s.input.off > 0 /\ s.input.off <= AllocateRows(s.q) /\ BlockThere(s)

LEMMA DataStateRight ==
  ASSUME NEW s, Sound(s), RowsRight(s), s.failed = "none", BlockReady(s)
  PROVE  LET t == DataState(s)
         IN /\ t.failed = "none" /\ RowsRight(t) /\ RoomMade(t, s.input)
            /\ s.input.state = "DATA" => t.committed = s.committed + s.input.off
            /\ s.input.state # "DATA" => t.committed = s.committed
<1> DEFINE s1 == IF s.input.state = "DATA" THEN CommitBlock(s) ELSE s
           s2 == TmqRetireCheck(s1)
           t == AssignRoom(s2)
<1>1. /\ Sound(s1) /\ RowsRight(s1) /\ s1.failed = "none" /\ SameRecord(s.input, s1.input)
      /\ s.input.state = "DATA" => s1.committed = s.committed + s.input.off
      /\ s.input.state # "DATA" => s1.committed = s.committed
  <2>1. CASE s.input.state # "DATA"
    BY <2>1 DEF SameRecord
  <2>2. CASE s.input.state = "DATA"
    <3>1. s.q.chain # <<>>
      BY <2>2 DEF Sound
    <3>2. CommitAsserts(s.q, s.input.off) /\ RowsRight(CommitBlock(s))
      BY <2>2, <3>1, CommitBlockRight DEF BlockReady
    <3>3. LET u == CommitBlock(s)
          IN /\ Sound(u) /\ SameRecord(s.input, u.input) /\ u.failed = s.failed
             /\ u.committed = s.committed + s.input.off
      BY <3>2, CommitBlockSound
    <3> QED
      BY <2>2, <3>2, <3>3
  <2> QED
    BY <2>1, <2>2
<1> HIDE DEF s1
<1>2. /\ Sound(s2) /\ RowsRight(s2) /\ s2.failed = "none" /\ s2.input = s1.input
      /\ s2.committed = s1.committed
  BY <1>1, TmqRetireCheckSound, TmqRetireCheckRight
<1>3. DataState(s) = IF s2.failed # "none" THEN s2 ELSE AssignRoom(s2)
  BY DEF DataState, s1
<1> HIDE DEF s2
<1>4. DataState(s) = t
  BY <1>2, <1>3
<1>5. /\ t.failed = "none" /\ RowsRight(t) /\ t.committed = s2.committed
      /\ RoomMade(t, s2.input)
  BY <1>2, AssignRoomRight
<1> HIDE DEF t
<1>6. RoomMade(t, s.input)
  BY <1>1, <1>2, <1>5 DEF SameRecord, RoomMade
<1> QED
  BY <1>1, <1>2, <1>4, <1>5, <1>6

-----------------------------------------------------------------------------
(* A reader walks along the chain and is given rows and time stamps.       *)

(* A step of reader r, if the others stand where they did. *)
StepOf(s, t, r) ==
  /\ SameQueueRows(s.q, t.q) /\ t.mem = s.mem
  /\ t.committed = s.committed /\ t.nstamps = s.nstamps
  /\ \A p \in Readers : p # r => t.reader[p] = s.reader[p] /\ t.log[p] = s.log[p]

LEMMA StepOfRight ==
  ASSUME NEW s, Sound(s), NEW bs, NEW ret, Right(s, bs, ret),
         NEW r \in Readers, NEW t, Sound(t), StepOf(s, t, r),
         Followed(s.q.chain, bs, t.reader[r], t.log[r])
  PROVE  Right(t, bs, ret)
<1> DEFINE x == s.q
           y == t.q
           com == s.committed
           stamps == s.nstamps
<1>1. /\ Laid(x, bs, com, ret, stamps) /\ InRing(x, s.mem, bs, ret)
      /\ \A p \in Readers : Followed(x.chain, bs, s.reader[p], s.log[p])
  BY DEF Right
<1>2. /\ SameQueueRows(x, y) /\ t.mem = s.mem /\ t.committed = com /\ t.nstamps = stamps
      /\ \A p \in Readers : p # r => t.reader[p] = s.reader[p] /\ t.log[p] = s.log[p]
  BY DEF StepOf
<1>3. y \in QueueType
  BY ReaderFacts
<1>4. Followed(x.chain, bs, t.reader[r], t.log[r])
  OBVIOUS
<1> HIDE DEF x, y, com, stamps
<1>5. /\ y.first = x.first /\ y.last = x.last /\ y.full = x.full
      /\ Len(y.chain) = Len(x.chain)
      /\ \A i \in 1 .. Len(x.chain) :
           /\ y.chain[i].id = x.chain[i].id /\ y.chain[i].tsp = x.chain[i].tsp
           /\ y.chain[i].Qrow = x.chain[i].Qrow /\ y.chain[i].n_Qrows = x.chain[i].n_Qrows
           /\ y.chain[i].Qrows_retired = x.chain[i].Qrows_retired
  BY <1>2 DEF SameQueueRows, SameRows
<1>6. Len(x.chain) \in Nat
  BY <1>1, LaidFacts
<1>7. ChainInv(y.chain, bs, y.first, com, ret, stamps)
  <2>1. ChainInv(x.chain, bs, x.first, com, ret, stamps)
    BY <1>1 DEF Laid
  <2> DEFINE N == Len(x.chain)
             old == x.chain
             new == y.chain
             first == x.first
  <2>2. /\ N \in Nat /\ Len(new) = N /\ Len(old) = N
        /\ \A i \in 1 .. N : /\ new[i].tsp = old[i].tsp /\ new[i].Qrow = old[i].Qrow
                             /\ new[i].n_Qrows = old[i].n_Qrows
    BY <1>5, <1>6
  <2>3. y.first = first /\ ChainInv(old, bs, first, com, ret, stamps)
    BY <1>5, <2>1
  <2> HIDE DEF N, old, new, first
  <2>4. /\ Len(bs) = N /\ (N = 0 => com = 0)
        /\ N > 0 => bs[1] = ret /\ com = bs[N] + old[N].n_Qrows
        /\ \A i \in 1 .. N : /\ old[i].Qrow = Wrap(first + (bs[i] - ret))
                             /\ ret <= bs[i] /\ bs[i] + old[i].n_Qrows <= com
                             /\ old[i].tsp <= stamps
        /\ \A i \in 1 .. N : i > 1 => bs[i] = bs[i - 1] + old[i - 1].n_Qrows
        /\ \A i, j \in 1 .. N :
             i < j => bs[i] + old[i].n_Qrows <= bs[j] /\ old[i].tsp <= old[j].tsp
    BY <2>2, <2>3 DEF ChainInv
  <2>5. \A i \in 1 .. N : i > 1 => bs[i] = bs[i - 1] + new[i - 1].n_Qrows
    <3> SUFFICES ASSUME NEW i \in 1 .. N, i > 1
                 PROVE  bs[i] = bs[i - 1] + new[i - 1].n_Qrows
      OBVIOUS
    <3>1. i - 1 \in 1 .. N
      BY <2>2
    <3> QED
      BY <3>1, <2>2, <2>4
  <2>6. N > 0 => com = bs[N] + new[N].n_Qrows
    BY <2>2, <2>4
  <2>7. ChainInv(new, bs, first, com, ret, stamps)
    BY <2>2, <2>4, <2>5, <2>6 DEF ChainInv
  <2> QED
    BY <2>3, <2>7 DEF new
<1>8. Laid(y, bs, com, ret, stamps)
  <2>1. /\ bs \in Seq(Nat) /\ com \in Nat /\ ret \in Nat /\ stamps \in Nat
        /\ ret <= com /\ com - ret = Filled(x)
        /\ x.full => x.first = x.last
        /\ \A i \in 1 .. Len(x.chain) : /\ x.chain[i].Qrows_retired <= bs[i]
                                        /\ i > 1 => x.chain[i].Qrows_retired = 0
    BY <1>1 DEF Laid
  <2>2. Filled(y) = Filled(x)
    BY <1>5 DEF Filled
  <2> QED
    BY <2>1, <2>2, <1>3, <1>5, <1>7 DEF Laid
<1>9. InRing(y, s.mem, bs, ret)
  BY <1>1, <1>5 DEF InRing, SlotOfRow
<1>10. ASSUME NEW rd, NEW log, Followed(x.chain, bs, rd, log)
       PROVE  Followed(y.chain, bs, rd, log)
  BY <1>5, <1>10 DEF Followed, Stands
<1>11. ASSUME NEW p \in Readers
       PROVE  Followed(y.chain, bs, t.reader[p], t.log[p])
  <2>1. Followed(x.chain, bs, t.reader[p], t.log[p])
    BY <1>1, <1>2, <1>4
  <2> QED
    BY <2>1, <1>10
<1> QED
  BY <1>2, <1>8, <1>9, <1>11 DEF Right, y

LEMMA ReaderRight ==
  ASSUME NEW s, Sound(s), NEW bs, NEW ret, Right(s, bs, ret),
         NEW r \in Readers, NEW t, Sound(t), ReaderStep(s, t, r),
         Followed(s.q.chain, bs, t.reader[r], t.log[r])
  PROVE  Right(t, bs, ret)
<1>1. StepOf(s, t, r)
  BY DEF ReaderStep, StepOf
<1> QED
  BY <1>1, StepOfRight

LEMMA GivenStands ==
  ASSUME NEW s, NEW t, NEW r, NEW rd, NEW items, Given(s, t, r, rd, items)
  PROVE  /\ t.log[r] = s.log[r] \o Contents(items)
         /\ t.reader[r].tmqr = rd.tmqr /\ t.reader[r].n_Qrows = rd.n_Qrows
BY DEF Given, Placed, Begun

(* A reader follows the chain when it stands right at the tmq_ref it holds. *)
LEMMA FollowedAt ==
  ASSUME NEW ch, NEW bs, NEW n \in Nat, Named(ch, n), NEW k \in 1 .. Len(ch),
         NEW rd, rd.tmqr = ch[k].id, NEW log, LogRight(log),
         Stands(log, rd.n_Qrows, ch[k], bs[k])
  PROVE  Followed(ch, bs, rd, log)
<1>1. ch[k].id # 0
  <2>1. ch[k].id \in 1 .. n
    BY DEF Named
  <2> QED
    BY <2>1
<1>2. \A i \in 1 .. Len(ch) : ch[i].id = rd.tmqr => i = k
  BY DEF Named
<1> QED
  BY <1>1, <1>2 DEF Followed

LEMMA NoRowsYet ==
  ASSUME NEW log, LogRight(log), ~HasRows(log), NEW p
  PROVE  LastRowIs(log, p)
BY DEF LogRight, HasRows, LastRowIs

(* The rows retired under a reader that has had none are behind it. *)
LEMMA DoneStands ==
  ASSUME NEW log, LogRight(log), NEW n \in Nat, NEW ref, NEW b, Numbered(ref, b),
         Stands(log, n, ref, b)
  PROVE  LET done == Done(n, ref)
         IN done \in Nat /\ Stands(log, done, ref, b) /\ ref.Qrows_retired <= done
<1> DEFINE done == Done(n, ref)
           a == ref.Qrows_retired
           m == ref.n_Qrows
<1>1. a \in Nat /\ m \in Nat /\ b \in Nat
  BY DEF Numbered
<1>2. done = IF n < a THEN a ELSE n
  BY DEF Done
<1>3. /\ n <= a + m /\ log # <<>> /\ log[Len(log)].tsp = ref.tsp
      /\ HasRows(log) => a <= n
      /\ LastRowIs(log, (b - a) + n)
  BY DEF Stands
<1> HIDE DEF done, a, m
<1>4. done \in Nat /\ a <= done /\ done <= a + m
  BY <1>1, <1>2, <1>3
<1>5. LastRowIs(log, (b - a) + done)
  <2>1. CASE HasRows(log)
    BY <2>1, <1>1, <1>2, <1>3
  <2>2. CASE ~HasRows(log)
    BY <2>2, NoRowsYet
  <2> QED
    BY <2>1, <2>2
<1>6. Stands(log, done, ref, b)
  BY <1>3, <1>4, <1>5 DEF Stands, a, m
<1> QED
  BY <1>4, <1>6 DEF done, a

(* A tmq_ref of whose rows none are left is followed by the next one. *)
LEMMA StandsNext ==
  ASSUME NEW log, NEW done \in Nat, NEW ref, NEW b, Numbered(ref, b),
         Stands(log, done, ref, b), RowsReady(ref, done) <= 0,
         NEW ref2, NEW b2, Numbered(ref2, b2), b2 = b + ref.n_Qrows,
         ref2.Qrows_retired = 0
  PROVE  /\ ref2.tsp = ref.tsp => Stands(log, 0, ref2, b2)
         /\ LastRowIs(log, b2)
         /\ \A log2 : log2 # <<>> /\ log2[Len(log2)].tsp = ref2.tsp /\ LastRowIs(log2, b2)
                        => Stands(log2, 0, ref2, b2)
<1> DEFINE a == ref.Qrows_retired
           m == ref.n_Qrows
           m2 == ref2.n_Qrows
<1>1. a \in Nat /\ m \in Nat /\ b \in Nat /\ m2 \in Nat /\ b2 \in Nat /\ b2 = b + m
  BY DEF Numbered
<1>2. /\ done <= a + m /\ log # <<>> /\ log[Len(log)].tsp = ref.tsp
      /\ LastRowIs(log, (b - a) + done)
  BY DEF Stands
<1>3. m + a - done <= 0
  BY DEF RowsReady
<1>4. ref2.Qrows_retired = 0 /\ ref2.n_Qrows = m2
  OBVIOUS
<1> HIDE DEF a, m, m2
<1>5. (b - a) + done = b2 /\ (b2 - 0) + 0 = b2 /\ 0 <= 0 + m2 /\ 0 <= 0
  BY <1>1, <1>2, <1>3
<1>6. LastRowIs(log, b2)
  BY <1>2, <1>5
<1>7. ASSUME NEW log2, log2 # <<>>, log2[Len(log2)].tsp = ref2.tsp, LastRowIs(log2, b2)
      PROVE  Stands(log2, 0, ref2, b2)
  BY <1>4, <1>5, <1>7 DEF Stands
<1> QED
  BY <1>2, <1>6, <1>7

LEMMA StampContents ==
  ASSUME NEW tsp \in Nat
  PROVE  Contents(<<TstampOut(tsp)>>) = LoggedStamp(tsp)
<1> DEFINE items == <<TstampOut(tsp)>>
           c == Contents(items)
<1>1. /\ items \in Seq(OutType) /\ Len(items) = 1
      /\ items[1].id = 0 /\ items[1].tsp = tsp
  BY TstampOutType DEF TstampOut
<1> HIDE DEF items
<1>2. c \in Seq(SentType) /\ Len(c) = 1 /\ c[1] = [id |-> 0, tsp |-> tsp]
  BY <1>1, ContentsType
<1> HIDE DEF c
<1>3. c = LoggedStamp(tsp)
  BY <1>2 DEF LoggedStamp
<1> QED
  BY <1>3 DEF c, items

LEMMA StartReaderRight ==
  ASSUME NEW s, Sound(s), RowsRight(s), Topped(s), NEW r \in ToSet(s.order),
         s.reader[r].iov = <<>>, s.reader[r].tmqr = 0
  PROVE  RowsRight(StartReader(s, r))
<1> DEFINE t == StartReader(s, r)
           ch == s.q.chain
<1>1. PICK bs \in Seq(Nat), ret \in Nat : Right(s, bs, ret)
  BY DEF RowsRight
<1>2. r \in Readers
  BY Fields DEF Sound, ToSet
<1>3. s.log[r] = <<>> /\ Laid(s.q, bs, s.committed, ret, s.nstamps)
  BY <1>1, <1>2 DEF Right, Followed
<1>4. CASE ch = <<>>
  <2>1. Placed(s, t, r, [s.reader[r] EXCEPT !.ready = TRUE])
    BY <1>4, StartReaderSound
  <2>2. s.reader[r] \in ReaderType
    BY <1>2, ReaderFacts
  <2> HIDE DEF t
  <2>3. /\ t.reader[r].tmqr = s.reader[r].tmqr /\ t.reader[r].n_Qrows = s.reader[r].n_Qrows
        /\ t.log = s.log
    BY <2>1, <2>2 DEF Placed, ReaderType
  <2>4. Followed(ch, bs, t.reader[r], t.log[r])
    <3>1. Followed(ch, bs, s.reader[r], s.log[r])
      BY <1>1, <1>2 DEF Right
    <3> QED
      BY <3>1, <2>3 DEF Followed
  <2>5. Right(t, bs, ret)
    BY <2>1, <2>4, <1>1, <1>2, ReaderRight DEF Placed
  <2> QED
    BY <2>5 DEF RowsRight, t
<1>5. CASE ch # <<>>
  <2> DEFINE rd == [s.reader[r] EXCEPT !.tmqr = ch[1].id, !.n_Qrows = 0]
             tsp == ch[1].tsp
             items == <<TstampOut(tsp)>>
             log2 == t.log[r]
  <2>1. Given(s, t, r, rd, items)
    BY <1>5, StartReaderSound
  <2>2. 1 \in 1 .. Len(ch) /\ Named(ch, s.nrefs) /\ s.nrefs \in Nat
    BY <1>5, ReaderFacts DEF Sound
  <2>3. tsp \in Nat /\ Numbered(ch[1], bs[1])
    BY <2>2, <1>3, LaidAt, LaidNumbers
  <2>4. rd.tmqr = ch[1].id /\ rd.n_Qrows = 0
    <3>1. s.reader[r] \in ReaderType
      BY <1>2, ReaderFacts
    <3> QED
      BY <3>1 DEF ReaderType
  <2> HIDE DEF rd, t, items
  <2>5. /\ log2 = <<>> \o Contents(items)
        /\ t.reader[r].tmqr = ch[1].id /\ t.reader[r].n_Qrows = 0
    <3>1. /\ t.log[r] = s.log[r] \o Contents(items)
          /\ t.reader[r].tmqr = rd.tmqr /\ t.reader[r].n_Qrows = rd.n_Qrows
      BY <2>1, GivenStands
    <3> QED
      BY <3>1, <2>4, <1>3
  <2>6. Contents(items) = LoggedStamp(tsp)
    BY <2>3, StampContents DEF items
  <2> DEFINE log == <<>>
             p == bs[1] - ch[1].Qrows_retired + 0
  <2>7. LogRight(log) /\ ~HasRows(log)
    BY DEF LogRight, HasRows
  <2>8. log2 = log \o LoggedStamp(tsp)
    BY <2>5, <2>6
  <2>9. LastRowIs(log, p)
    BY <2>7, NoRowsYet
  <2> HIDE DEF log, log2, tsp, p
  <2>10. /\ LogRight(log2) /\ log2 # <<>> /\ log2[Len(log2)].tsp = tsp
         /\ ~HasRows(log2) /\ LastRowIs(log2, p)
    <3>1. tsp \in Nat /\ LogRight(log) /\ Onto(log, LoggedStamp(tsp), log2)
      BY <2>3, <2>7, <2>8 DEF Onto
    <3>2. /\ LogRight(log2) /\ log2 # <<>> /\ log2[Len(log2)].tsp = tsp
          /\ HasRows(log2) => HasRows(log)
          /\ \A n : LastRowIs(log, n) => LastRowIs(log2, n)
      BY ONLY <3>1, LogStamp
    <3> QED
      BY <3>2, <2>7, <2>9
  <2>11. Stands(log2, 0, ch[1], bs[1])
    <3>1. 0 <= ch[1].Qrows_retired + ch[1].n_Qrows
      BY <2>3 DEF Numbered
    <3> QED
      BY <3>1, <2>10 DEF Stands, tsp, p
  <2>12. Followed(ch, bs, t.reader[r], log2)
    BY <2>2, <2>5, <2>10, <2>11, FollowedAt
  <2>13. Sound(t) /\ ReaderStep(s, t, r)
    BY <2>1, GivenReplied DEF Replied
  <2>14. Right(t, bs, ret)
    BY <2>12, <2>13, <1>1, <1>2, ReaderRight DEF log2
  <2> QED
    BY <2>14 DEF RowsRight, t
<1> QED
  BY <1>4, <1>5

(* Along its walk a reader stands right at each tmq_ref it comes by. *)
LEMMA WalkStands ==
  ASSUME NEW s, Sound(s), NEW bs, NEW ret, Right(s, bs, ret), NEW r \in Readers,
         NEW i \in 1 .. Len(s.q.chain), NEW j \in i .. Len(s.q.chain),
         s.q.chain[i].id = s.reader[r].tmqr,
         \A k \in i .. j - 1 : /\ RowsReady(s.q.chain[k], Stood(s, r, i, k)) <= 0
                               /\ s.q.chain[k].tsp = s.q.chain[k + 1].tsp,
         NEW k \in i .. j
  PROVE  /\ Stood(s, r, i, k) \in Nat
         /\ Stands(s.log[r], Stood(s, r, i, k), s.q.chain[k], bs[k])
         /\ s.q.chain[k].Qrows_retired <= Stood(s, r, i, k)
<1> DEFINE ch == s.q.chain
           log == s.log[r]
           f(m) == Stood(s, r, i, m)
           P(m) == /\ f(m) \in Nat /\ Stands(log, f(m), ch[m], bs[m])
                   /\ ch[m].Qrows_retired <= f(m)
           S == {m \in i .. j : ~P(m)}
<1>1. /\ Laid(s.q, bs, s.committed, ret, s.nstamps)
      /\ Followed(ch, bs, s.reader[r], log) /\ LogRight(log)
  BY DEF Right, Followed
<1>2. Len(ch) \in Nat /\ i \in Nat /\ j \in Nat /\ s.reader[r].n_Qrows \in Nat
  BY ReaderFacts
<1>3. \A m \in 1 .. Len(ch) : Numbered(ch[m], bs[m])
  BY <1>1, LaidNumbers
<1>4. P(i)
  <2> DEFINE n == s.reader[r].n_Qrows
  <2>1. Stands(log, n, ch[i], bs[i])
    BY <1>1 DEF Followed
  <2>2. f(i) = Done(n, ch[i])
    BY DEF Stood
  <2> HIDE DEF f, ch, log
  <2>3. i \in 1 .. Len(ch)
    BY DEF ch
  <2> QED
    BY <2>1, <2>2, <2>3, <1>1, <1>2, <1>3, DoneStands
<1>5. ASSUME NEW m \in i .. j - 1, P(m)
      PROVE  P(m + 1)
  <2>1. m \in 1 .. Len(ch) /\ m + 1 \in 1 .. Len(ch) /\ m + 1 # i /\ m + 1 > 1
    BY <1>2
  <2>2. RowsReady(ch[m], f(m)) <= 0 /\ ch[m + 1].tsp = ch[m].tsp
    OBVIOUS
  <2>3. ch[m + 1].Qrows_retired = 0
    BY <2>1, <1>1 DEF Laid
  <2>4. bs[m + 1] = bs[m] + ch[m].n_Qrows
    <3> DEFINE m2 == m + 1
    <3>1. m2 \in 1 .. Len(ch) /\ m2 > 1 /\ m2 - 1 = m
      BY <2>1, <1>2
    <3> HIDE DEF m2
    <3>2. bs[m2] = bs[m2 - 1] + ch[m2 - 1].n_Qrows
      BY <3>1, <1>1 DEF Laid, ChainInv
    <3> QED
      BY <3>1, <3>2 DEF m2
  <2>5. f(m + 1) = 0
    BY <2>1, <2>3 DEF Stood, Done
  <2>6. f(m) \in Nat /\ Stands(log, f(m), ch[m], bs[m])
    BY <1>5
  <2> HIDE DEF f, ch, log
  <2>7. Stands(log, 0, ch[m + 1], bs[m + 1])
    BY <2>1, <2>2, <2>3, <2>4, <2>6, <1>3, StandsNext
  <2> QED
    BY <2>3, <2>5, <2>7
<1>6. S = {}
  <2> SUFFICES ASSUME S # {}
               PROVE  FALSE
    OBVIOUS
  <2> DEFINE m == Min(S)
  <2>1. S \in SUBSET Nat
    BY <1>2
  <2>2. m \in S /\ \A y \in S : m <= y
    <3> HIDE DEF S
    <3> QED
      BY <2>1, MinOfNaturals
  <2> HIDE DEF m, P
  <2>3. m \in i .. j /\ ~P(m) /\ m # i
    BY <2>2, <1>4
  <2>4. m - 1 \in i .. j - 1
    BY <2>3, <1>2
  <2>5. m - 1 \notin S
    BY <2>2, <2>3, <1>2
  <2>6. P(m - 1)
    BY <2>4, <2>5, <1>2
  <2>7. P((m - 1) + 1)
    BY <2>4, <2>6, <1>5
  <2> QED
    BY <2>3, <2>7, <1>2
<1> QED
  BY <1>6

(* The rows a reader is given are those of the tmq_ref from the one on it got to. *)
LEMMA RowsContents ==
  ASSUME NEW s, Sound(s), NEW bs, NEW ret, Right(s, bs, ret),
         NEW j \in 1 .. Len(s.q.chain), NEW done \in Nat,
         s.q.chain[j].Qrows_retired <= done,
         NEW n \in 1 .. RowsReady(s.q.chain[j], done)
  PROVE  LET ref == s.q.chain[j]
             p == (bs[j] - ref.Qrows_retired) + done
         IN /\ p \in Nat
            /\ Contents(RowsAsItems(s, ref, done, n)) = LoggedRows(p, n, ref.tsp)
<1> DEFINE ref == s.q.chain[j]
           a == ref.Qrows_retired
           m == ref.n_Qrows
           b == bs[j]
           p == (b - a) + done
           first == s.q.first
           start == Wrap(ref.Qrow + done - a)
           slot(k) == Wrap(start + k - 1)
           items == RowsAsItems(s, ref, done, n)
           com == s.committed
<1>1. Laid(s.q, bs, com, ret, s.nstamps) /\ InRing(s.q, s.mem, bs, ret)
  BY DEF Right
<1>2. /\ a \in Nat /\ m \in Nat /\ b \in Nat /\ a <= b /\ ret <= b /\ b + m <= com
      /\ ref.Qrow = Wrap(first + (b - ret))
      /\ ret \in Nat /\ com \in Nat /\ com - ret <= TotalQrows /\ first \in 0 .. TotalQrows - 1
  <2>1. /\ a \in Nat /\ m \in Nat /\ b \in Nat /\ a <= b /\ ret <= b /\ b + m <= com
        /\ ref.Qrow = Wrap(first + (b - ret))
    BY <1>1, LaidAt
  <2>2. ret \in Nat /\ com \in Nat /\ com - ret <= TotalQrows /\ first \in 0 .. TotalQrows - 1
    BY <1>1, LaidFacts
  <2> QED
    BY <2>1, <2>2
<1>3. n \in Nat /\ n > 0 /\ n + done <= m + a /\ a <= done
  <2>1. n \in 1 .. (m + (a - done)) /\ a <= done
    BY DEF RowsReady
  <2> HIDE DEF m, a
  <2> QED
    BY <2>1, <1>2, SMTT(30)
<1>4. ASSUME NEW k \in 1 .. n
      PROVE  /\ slot(k) = SlotOfRow(s.q, ret, p + k) /\ slot(k) \in Int
             /\ p + k \in b + 1 .. b + m
  <2> DEFINE f == b - ret
             c == done - a
             e == k - 1
             q1 == ref.Qrow
  <2> HIDE DEF a, m, b, com, first, ref
  <2>1. /\ f \in Nat /\ c \in Nat /\ e \in Nat /\ (f + c) + e <= TotalQrows
        /\ f + c <= TotalQrows /\ p + k \in b + 1 .. b + m
        /\ (p + k) - ret - 1 = (f + c) + e
    <3>1. /\ a \in Nat /\ m \in Nat /\ b \in Nat /\ a <= b /\ ret <= b /\ b + m <= com
          /\ ret \in Nat /\ com \in Nat /\ com - ret <= TotalQrows /\ TotalQrows \in Nat
          /\ n \in Nat /\ n + done <= m + a /\ a <= done /\ done \in Nat
          /\ k \in Nat /\ k > 0 /\ k <= n
      BY <1>2, <1>3, Sizes
    <3>2. f \in Nat /\ c \in Nat /\ e \in Nat
      BY ONLY <3>1
    <3>3. f + c + e <= TotalQrows
      BY ONLY <3>1
    <3>4. p + k \in b + 1 .. b + m
      BY ONLY <3>1
    <3>5. (p + k) - ret - 1 = (f + c) + e
      BY ONLY <3>1
    <3> HIDE DEF f, c, e, p
    <3> QED
      BY <3>2, <3>3, <3>4, <3>5, Sizes
  <2>2. Wrap(Wrap(first + f) + c) = Wrap(first + (f + c))
    BY <2>1, <1>2, WrapTwice
  <2> DEFINE g == f + c
  <2>3. Wrap(Wrap(first + g) + e) = Wrap(first + (g + e))
    <3> HIDE DEF g, e
    <3>1. g \in Nat
      BY <2>1 DEF g
    <3>2. e \in Nat /\ g + e <= TotalQrows
      BY <2>1 DEF g
    <3> QED
      BY <3>1, <3>2, <1>2, WrapTwice
  <2>4. q1 = Wrap(first + f)
    BY <1>2
  <2>5. q1 \in Int /\ Wrap(q1 + c) \in Int
    BY <2>1, <2>4, <1>2, Sizes DEF Wrap
  <2>6. start = Wrap(q1 + c)
    <3>1. q1 + done - a = q1 + c
      <4> HIDE DEF q1
      <4> QED
        BY <2>5, <1>2
    <3> QED
      BY <3>1 DEF a
  <2> HIDE DEF start, q1
  <2>7. start + k - 1 = start + e
    BY <2>5, <2>6
  <2>8. start = Wrap(first + g)
    BY <2>2, <2>4, <2>6
  <2>9. slot(k) = Wrap(first + (g + e))
    BY <2>3, <2>7, <2>8
  <2>10. SlotOfRow(s.q, ret, p + k) = Wrap(first + ((p + k) - ret - 1))
    BY DEF SlotOfRow, first
  <2>11. slot(k) \in Int
    BY <2>9, <2>1, <1>2, Sizes DEF Wrap
  <2> QED
    BY <2>1, <2>9, <2>10, <2>11
<1> HIDE DEF slot, start
<1>5. p \in Nat
  <2> HIDE DEF a, b
  <2> QED
    BY <1>2
<1>6. ASSUME NEW k \in 1 .. n
      PROVE  /\ RowOut(s, slot(k)) \in OutType
             /\ RowOut(s, slot(k)).id = p + k /\ RowOut(s, slot(k)).tsp = ref.tsp
  <2> DEFINE row == p + k
  <2>1. row \in b + 1 .. b + m /\ slot(k) = SlotOfRow(s.q, ret, row) /\ slot(k) \in Int
    BY <1>4
  <2> HIDE DEF row
  <2>2. s.mem[SlotOfRow(s.q, ret, row)] = [id |-> row, tsp |-> ref.tsp]
    BY <2>1, <1>1 DEF InRing
  <2>3. RowOut(s, slot(k)) \in OutType
    BY <2>1, RowOutType
  <2> QED
    BY <2>1, <2>2, <2>3 DEF RowOut, row
<1>7. items = [k \in 1 .. n |-> RowOut(s, slot(k))]
  BY DEF RowsAsItems, slot, start
<1> HIDE DEF items
<1>8. items \in Seq(OutType) /\ Len(items) = n
  BY <1>3, <1>6, <1>7
<1> DEFINE cont == Contents(items)
<1>9. /\ cont \in Seq(SentType) /\ Len(cont) = n
      /\ \A k \in 1 .. n : cont[k] = [id |-> items[k].id, tsp |-> items[k].tsp]
  BY <1>8, ContentsType
<1>10. \A k \in 1 .. n : cont[k] = [id |-> p + k, tsp |-> ref.tsp]
  BY <1>6, <1>7, <1>9
<1> HIDE DEF cont, p, ref
<1>11. cont = [k \in 1 .. n |-> [id |-> p + k, tsp |-> ref.tsp]]
  BY <1>9, <1>10
<1> QED
  BY <1>5, <1>11 DEF cont, LoggedRows, p, items, ref

LEMMA WalkRight ==
  ASSUME NEW s, Sound(s), NEW bs, NEW ret, Right(s, bs, ret), NEW r \in Readers,
         NEW t, NEW i \in 1 .. Len(s.q.chain), NEW j \in i .. Len(s.q.chain),
         Walk(s, t, r, i, j)
  PROVE  Right(t, bs, ret)
<1> DEFINE ch == s.q.chain
           log == s.log[r]
           ref == ch[j]
           done == Stood(s, r, i, j)
           At0(k, n) == [s.reader[r] EXCEPT !.tmqr = ch[k].id, !.n_Qrows = n]
           a == ref.Qrows_retired
           m == ref.n_Qrows
           p == (bs[j] - a) + done
           log2 == t.log[r]
           rd2 == t.reader[r]
<1>1. /\ ch[i].id = s.reader[r].tmqr
      /\ \A k \in i .. j - 1 : /\ RowsReady(ch[k], Stood(s, r, i, k)) <= 0
                               /\ ch[k].tsp = ch[k + 1].tsp
      /\ \/ \E n \in 1 .. RowsReady(ref, done) :
              Given(s, t, r, At0(j, done + n), RowsAsItems(s, ref, done, n))
         \/ /\ RowsReady(ref, done) <= 0
            /\ Placed(s, t, r, At0(j, done))
         \/ /\ RowsReady(ref, done) <= 0 /\ j < Len(ch)
            /\ Given(s, t, r, At0(j + 1, 0), <<TstampOut(ch[j + 1].tsp)>>)
  BY DEF Walk
<1>2. /\ Laid(s.q, bs, s.committed, ret, s.nstamps) /\ LogRight(log)
      /\ Named(ch, s.nrefs) /\ s.nrefs \in Nat /\ Len(ch) \in Nat
  BY ReaderFacts DEF Right, Followed, Sound
<1>3. j \in 1 .. Len(ch) /\ j \in i .. j
  BY <1>2
<1>4. done \in Nat /\ Stands(log, done, ref, bs[j]) /\ a <= done
  BY <1>1, <1>3, WalkStands
<1>5. Numbered(ref, bs[j]) /\ ref.tsp \in Nat
  BY <1>2, <1>3, LaidNumbers, LaidAt
<1>6. /\ log # <<>> /\ log[Len(log)].tsp = ref.tsp /\ LastRowIs(log, p) /\ done <= a + m
  BY <1>4 DEF Stands
<1>7. \A k, n : At0(k, n).tmqr = ch[k].id /\ At0(k, n).n_Qrows = n
  <2>1. s.reader[r] \in ReaderType
    BY ReaderFacts
  <2> QED
    BY <2>1 DEF ReaderType
<1> HIDE DEF At0, done
<1>8. CASE \E n \in 1 .. RowsReady(ref, done) :
             Given(s, t, r, At0(j, done + n), RowsAsItems(s, ref, done, n))
  <2>1. PICK n \in 1 .. RowsReady(ref, done) :
          Given(s, t, r, At0(j, done + n), RowsAsItems(s, ref, done, n))
    BY <1>8
  <2>2. p \in Nat /\ Contents(RowsAsItems(s, ref, done, n)) = LoggedRows(p, n, ref.tsp)
    BY <1>3, <1>4, RowsContents
  <2>3. /\ log2 = log \o LoggedRows(p, n, ref.tsp)
        /\ rd2.tmqr = ref.id /\ rd2.n_Qrows = done + n
    <3> DEFINE items == RowsAsItems(s, ref, done, n)
               rd == At0(j, done + n)
    <3>1. /\ Contents(items) = LoggedRows(p, n, ref.tsp)
          /\ rd.tmqr = ref.id /\ rd.n_Qrows = done + n
      BY <2>1, <2>2, <1>7
    <3>3. Given(s, t, r, rd, items)
      BY <2>1
    <3> HIDE DEF items, rd, p
    <3>2. /\ t.log[r] = s.log[r] \o Contents(items)
          /\ t.reader[r].tmqr = rd.tmqr /\ t.reader[r].n_Qrows = rd.n_Qrows
      BY ONLY <3>3, GivenStands
    <3> QED
      BY <3>1, <3>2
  <2>4. /\ n \in Nat \ {0} /\ a \in Nat /\ m \in Nat /\ bs[j] \in Nat
        /\ done + n <= a + m /\ (HasRows(log2) => a <= done + n)
        /\ p + n = (bs[j] - a) + (done + n)
    <3>1. a \in Nat /\ m \in Nat /\ bs[j] \in Nat
      BY <1>5 DEF Numbered
    <3>2. n \in 1 .. (m + (a - done))
      BY <2>1 DEF RowsReady
    <3> DEFINE b == bs[j]
    <3> HIDE DEF a, m, b
    <3>3. /\ n \in Nat \ {0} /\ done + n <= a + m /\ a <= done + n
          /\ (b - a) + done + n = (b - a) + (done + n)
      BY <3>1, <3>2, <1>4 DEF b
    <3> QED
      BY <3>1, <3>3 DEF b
  <2>5. Onto(log, LoggedRows(p, n, ref.tsp), log2)
    BY <2>3 DEF Onto
  <2>6. Sound(t) /\ ReaderStep(s, t, r)
    BY <2>1, GivenReplied DEF Replied
  <2> DEFINE tsp == ref.tsp
             b == bs[j]
  <2>7. /\ LogRight(log2) /\ log2 # <<>> /\ log2[Len(log2)].tsp = tsp
        /\ LastRowIs(log2, p + n)
    <3>1. /\ LogRight(log) /\ log # <<>> /\ tsp \in Nat /\ log[Len(log)].tsp = tsp
          /\ p \in Nat /\ LastRowIs(log, p) /\ n \in Nat \ {0}
          /\ Onto(log, LoggedRows(p, n, tsp), log2)
      BY <2>2, <2>4, <2>5, <1>2, <1>5, <1>6
    <3> HIDE DEF p, tsp, log, log2
    <3> QED
      BY ONLY <3>1, LogRows
  <2>8. Stands(log2, rd2.n_Qrows, ref, b)
    <3>1. LastRowIs(log2, (b - a) + (done + n))
      BY <2>4, <2>7
    <3> HIDE DEF log2, rd2, b, ref
    <3>2. /\ done + n <= ref.Qrows_retired + ref.n_Qrows /\ log2 # <<>>
          /\ log2[Len(log2)].tsp = ref.tsp
          /\ HasRows(log2) => ref.Qrows_retired <= done + n
          /\ LastRowIs(log2, (b - ref.Qrows_retired) + (done + n))
      BY <2>4, <2>7, <3>1
    <3>3. rd2.n_Qrows = done + n
      BY <2>3
    <3> HIDE DEF tsp
    <3> QED
      BY <3>2, <3>3 DEF Stands
  <2>9. Followed(ch, bs, rd2, log2)
    <3> HIDE DEF rd2, log2
    <3> QED
      BY <2>3, <2>7, <2>8, <1>2, <1>3, FollowedAt
  <2> QED
    BY <2>6, <2>9, ReaderRight
<1>9. CASE RowsReady(ref, done) <= 0 /\ Placed(s, t, r, At0(j, done))
  <2>1. log2 = log /\ rd2.tmqr = ref.id /\ rd2.n_Qrows = done
    BY <1>7, <1>9 DEF Placed
  <2>2. Followed(ch, bs, rd2, log2)
    <3> HIDE DEF rd2, log2
    <3> QED
      BY <2>1, <1>2, <1>3, <1>4, FollowedAt
  <2> QED
    BY <2>2, <1>9, ReaderRight DEF Placed
<1>10. CASE /\ RowsReady(ref, done) <= 0 /\ j < Len(ch)
            /\ Given(s, t, r, At0(j + 1, 0), <<TstampOut(ch[j + 1].tsp)>>)
  <2> DEFINE k == j + 1
             next == ch[k]
             tsp == next.tsp
  <2>1. k \in 1 .. Len(ch) /\ k > 1 /\ k - 1 = j
    BY <1>2, <1>3, <1>10
  <2>2. Given(s, t, r, At0(k, 0), <<TstampOut(tsp)>>)
    BY <1>10
  <2> HIDE DEF k
  <2>3. /\ Numbered(next, bs[k]) /\ tsp \in Nat /\ next.Qrows_retired = 0
        /\ bs[k] = bs[j] + m
    <3>1. Numbered(next, bs[k]) /\ tsp \in Nat
      BY <2>1, <1>2, LaidNumbers, LaidAt
    <3>3. next.Qrows_retired = 0
      BY <2>1, <1>2 DEF Laid
    <3>2. bs[k] = bs[k - 1] + ch[k - 1].n_Qrows
      BY <2>1, <1>2 DEF Laid, ChainInv
    <3> QED
      BY <3>1, <3>2, <3>3, <2>1
  <2>4. Contents(<<TstampOut(tsp)>>) = LoggedStamp(tsp)
    BY <2>3, StampContents
  <2>5. log2 = log \o LoggedStamp(tsp) /\ rd2.tmqr = next.id /\ rd2.n_Qrows = 0
    <3> DEFINE items == <<TstampOut(tsp)>>
               rd == At0(k, 0)
    <3>1. Given(s, t, r, rd, items) /\ Contents(items) = LoggedStamp(tsp)
          /\ rd.tmqr = next.id /\ rd.n_Qrows = 0
      BY <2>2, <2>4, <1>7
    <3> HIDE DEF items, rd, tsp
    <3>2. /\ t.log[r] = s.log[r] \o Contents(items)
          /\ t.reader[r].tmqr = rd.tmqr /\ t.reader[r].n_Qrows = rd.n_Qrows
      BY <3>1, GivenStands
    <3> QED
      BY <3>1, <3>2
  <2>6. Onto(log, LoggedStamp(tsp), log2)
    BY <2>5 DEF Onto
  <2>7. /\ LastRowIs(log, bs[k])
        /\ \A l : l # <<>> /\ l[Len(l)].tsp = tsp /\ LastRowIs(l, bs[k])
                    => Stands(l, 0, next, bs[k])
    <3> HIDE DEF next, ref, log
    <3> QED
      BY <2>3, <1>4, <1>5, <1>10, StandsNext DEF m, next
  <2>8. /\ LogRight(log2) /\ log2 # <<>> /\ log2[Len(log2)].tsp = tsp
        /\ LastRowIs(log2, bs[k])
    <3>1. tsp \in Nat /\ LogRight(log)
      BY <2>3, <1>2
    <3> HIDE DEF tsp, log, log2
    <3>2. /\ LogRight(log2) /\ log2 # <<>> /\ log2[Len(log2)].tsp = tsp
          /\ \A n : LastRowIs(log, n) => LastRowIs(log2, n)
      BY ONLY <3>1, <2>6, LogStamp
    <3> QED
      BY <3>2, <2>7
  <2>9. Stands(log2, 0, next, bs[k])
    BY <2>7, <2>8
  <2>10. Followed(ch, bs, rd2, log2)
    <3> HIDE DEF rd2, log2
    <3>1. Stands(log2, rd2.n_Qrows, next, bs[k]) /\ rd2.tmqr = ch[k].id
      BY <2>5, <2>9
    <3> QED
      BY <3>1, <2>1, <2>8, <1>2, FollowedAt
  <2>11. Sound(t) /\ ReaderStep(s, t, r)
    BY <2>2, GivenReplied DEF Replied
  <2> QED
    BY <2>10, <2>11, ReaderRight
<1> QED
  BY <1>1, <1>8, <1>9, <1>10

LEMMA ReadReplyRight ==
  ASSUME NEW s, Sound(s), RowsRight(s), Topped(s), NEW r \in ToSet(s.order)
  PROVE  RowsRight(ReadReply(s, r))
<1>1. CASE s.reader[r].iov # <<>>
  BY <1>1 DEF ReadReply
<1>2. CASE s.reader[r].iov = <<>> /\ s.reader[r].tmqr = 0
  BY <1>2, StartReaderRight DEF ReadReply
<1>3. CASE s.reader[r].iov = <<>> /\ s.reader[r].tmqr # 0
  <2> DEFINE t == WalkChain(s, r)
  <2>1. ReadReply(s, r) = t
    BY <1>3 DEF ReadReply
  <2>2. PICK i \in 1 .. Len(s.q.chain) : \E j \in i .. Len(s.q.chain) : Walk(s, t, r, i, j)
    BY <1>3, WalkChainSound
  <2>3. PICK j \in i .. Len(s.q.chain) : Walk(s, t, r, i, j)
    BY <2>2
  <2>4. r \in Readers
    BY Fields DEF Sound, ToSet
  <2>5. PICK bs \in Seq(Nat), ret \in Nat : Right(s, bs, ret)
    BY DEF RowsRight
  <2> HIDE DEF t
  <2>6. Right(t, bs, ret)
    BY <2>3, <2>4, <2>5, WalkRight
  <2> QED
    BY <2>1, <2>6 DEF RowsRight
<1> QED
  BY <1>1, <1>2, <1>3

-----------------------------------------------------------------------------
(* The invariant.                                                          *)

(* The rows of a record that have arrived are those of the block that comes in,
   behind the ones committed; a writer waits before its record has begun. *)
Fresh(s, a) ==
  /\ s.input.state = "DATA" =>
       /\ a = s.committed + s.input.off /\ s.input.buf = s.q.last + s.input.off
       /\ s.input.room = s.input.nb /\ s.input.room >= 1
       /\ s.input.off + s.input.room <= AllocateRows(s.q)
       /\ BlockThere(s)
  /\ s.input.state # "DATA" => a = s.committed
  /\ s.input.state = "HDR2" => s.input.nb >= 1
  /\ s.blocked => s.input.state = "HDR2"

(* A reader that is not writing is ready for a message. *)
Ready(s) == \A r \in ToSet(s.order) : s.reader[r].ready \/ s.reader[r].iov # <<>>

(* The only assertion that can fail is the one of a writer that must not block. *)
Alive(s) == s.failed = "none" \/ (~Blocking /\ s.failed = "blocking")

(* The rows of the record that are to come have room in one piece. *)
InOneBlock(in) == in.state = "DATA" => in.room = in.nb

RightInv == /\ SoundInv /\ RowsRight(d) /\ Fresh(d, arrived) /\ Ready(d) /\ Alive(d)

RecordsWhole == InOneBlock(d.input)

(* What Fresh is about is the same. *)
SameInput(s, t) ==
  /\ t.input = s.input /\ t.blocked = s.blocked /\ t.mem = s.mem
  /\ t.committed = s.committed /\ SameQueueRows(s.q, t.q)

LEMMA SameFresh ==
  ASSUME NEW s, Sound(s), NEW a, Fresh(s, a), NEW t, SameInput(s, t)
  PROVE  Fresh(t, a)
<1> DEFINE x == s.q
           y == t.q
<1>1. /\ t.input = s.input /\ t.blocked = s.blocked /\ t.mem = s.mem
      /\ t.committed = s.committed /\ SameQueueRows(x, y)
  BY DEF SameInput
<1>2. Len(x.chain) \in Nat
  BY ReaderFacts
<1>3. s.input.state = "DATA" => x.chain # <<>>
  BY DEF Sound
<1> HIDE DEF x, y
<1>4. y.last = x.last /\ AllocateRows(y) = AllocateRows(x) /\ Len(y.chain) = Len(x.chain)
  BY <1>1 DEF SameQueueRows, AllocateRows
<1>5. s.input.state = "DATA" => LastRef(y).tsp = LastRef(x).tsp
  <2> SUFFICES ASSUME s.input.state = "DATA"
               PROVE  LastRef(y).tsp = LastRef(x).tsp
    OBVIOUS
  <2> DEFINE n == Len(x.chain)
  <2>1. n \in 1 .. Len(x.chain)
    <3>1. x.chain \in Seq(TmqRefType)
      BY ReaderFacts DEF x
    <3> QED
      BY <3>1, <1>2, <1>3
  <2>2. y.chain[n].tsp = x.chain[n].tsp
    BY <2>1, <1>1 DEF SameQueueRows, SameRows
  <2> QED
    BY <2>2, <1>4 DEF LastRef
<1>6. s.input.state = "DATA" /\ BlockThere(s) => BlockThere(t)
  BY <1>1, <1>4, <1>5 DEF BlockThere, x, y
<1> QED
  BY <1>1, <1>4, <1>6 DEF Fresh, x, y

LEMMA OneRowRecords ==
  ASSUME MaxRec = 1, NEW s, Sound(s), s.input.state = "DATA" => s.input.room >= 1
  PROVE  InOneBlock(s.input)
<1> SUFFICES ASSUME s.input.state = "DATA"
             PROVE  s.input.room = s.input.nb
  BY DEF InOneBlock
<1>1. s.input.off + s.input.nb <= 1 /\ s.input.room <= s.input.nb
  BY DEF Sound, InputRight
<1>2. /\ s.input.off \in 0 .. MaxRec /\ s.input.nb \in 0 .. MaxRec
      /\ s.input.room \in 0 .. TotalQrows
  BY ReaderFacts, InputFields
<1> QED
  BY <1>1, <1>2, Sizes

(* There is room for the record whose header came, or it waits. *)
LEMMA RoomFresh ==
  ASSUME NEW s, NEW a, NEW in, in.state = "HDR2", in.nb >= 1,
         Sound(s), RoomMade(s, in), a = s.committed,
         MaxRec = 1 \/ InOneBlock(s.input)
  PROVE  /\ s.input.room = 0 => s.input.state = "HDR2"
         /\ s.blocked = (s.input.room = 0) => Fresh(s, a)
         /\ ~s.blocked => Fresh(s, a)
<1> DEFINE free == AllocateRows(s.q)
           room == s.input.room
           nb == s.input.nb
           last == s.q.last
           com == s.committed
<1>1. /\ free \in 0 .. TotalQrows /\ room \in 0 .. TotalQrows /\ nb \in 0 .. MaxRec
      /\ last \in 0 .. TotalQrows - 1 /\ com \in Nat
  BY ReaderFacts, InputFields, FreeRows, QueueFields
<1>2. /\ nb = in.nb /\ s.input.buf = last /\ room <= free /\ room <= nb
      /\ room = free \/ room = nb
      /\ IF free > 0 THEN s.input.state = "DATA" /\ s.input.off = 0
         ELSE s.input.state = "HDR2"
  BY DEF RoomMade
<1>3. nb >= 1
  BY <1>2
<1>4. CASE free > 0
  <2>1. room >= 1
    <3> HIDE DEF free, room, nb
    <3> QED
      BY <1>1, <1>2, <1>3, <1>4, Sizes
  <2>2. room = nb
    <3>1. InOneBlock(s.input)
      BY <2>1, OneRowRecords
    <3> QED
      BY <3>1, <1>2, <1>4 DEF InOneBlock
  <2>3. s.input.state = "DATA" /\ s.input.off = 0 /\ s.input.buf = last
    BY <1>2, <1>4
  <2>4. BlockThere(s)
    BY <2>3 DEF BlockThere
  <2>5. com = com + 0 /\ last = last + 0 /\ 0 + room <= free /\ ~(room = 0)
    <3> HIDE DEF com, last, room, free
    <3> QED
      BY <1>1, <1>2, <2>1, Sizes
  <2> QED
    BY <2>1, <2>2, <2>3, <2>4, <2>5 DEF Fresh
<1>5. CASE ~(free > 0)
  <2>1. s.input.state = "HDR2"
    BY <1>2, <1>5
  <2> QED
    BY <2>1, <1>3 DEF Fresh
<1> QED
  BY <1>4, <1>5

LEMMA SameReady ==
  ASSUME NEW s, Ready(s), NEW t, t.order = s.order, t.reader = s.reader
  PROVE  Ready(t)
BY DEF Ready

LEMMA QueueRunRight ==
  ASSUME NEW s, Sound(s), Topped(s), RowsRight(s), Ready(s), NEW a, Fresh(s, a)
  PROVE  LET t == RunReadQueue(s)
         IN /\ RowsRight(t) /\ Ready(t) /\ Fresh(t, a)
            /\ t.failed = s.failed /\ t.input = s.input
<1> DEFINE t == RunReadQueue(s)
<1>1. SameQueueSide(s, t) /\ t.reader = s.reader
  BY RunReadQueueSound
<1>2. /\ t.q = s.q /\ t.mem = s.mem /\ t.input = s.input /\ t.blocked = s.blocked
      /\ t.order = s.order /\ t.log = s.log /\ t.committed = s.committed
      /\ t.failed = s.failed /\ t.nstamps = s.nstamps
  BY <1>1 DEF SameQueueSide
<1> HIDE DEF t
<1>3. SameStand(s, t) /\ SameInput(s, t)
  BY <1>1, <1>2, SameQueueItself DEF SameStand, SameInput
<1> QED
  BY <1>1, <1>2, <1>3, StandRight, SameReady, SameFresh DEF t

LEMMA FinishRight ==
  ASSUME NEW s, Sound(s), s.calls = <<>>, RowsRight(s), Ready(s), NEW a, Fresh(s, a),
         s.failed = "none", s.input.room = 0 => s.input.state # "DATA",
         NEW new_rows \in BOOLEAN
  PROVE  LET t == Finish(s, new_rows)
         IN /\ RowsRight(t) /\ Ready(t) /\ Fresh(t, a) /\ Alive(t)
            /\ t.input = s.input
<1> DEFINE t == Finish(s, new_rows)
<1>1. Topped(s)
  BY DEF Topped
<1>2. CASE s.input.state # "HDR" /\ s.input.room = 0 /\ Blocking
  <2> DEFINE u == [s EXCEPT !.blocked = TRUE]
  <2>1. t = RunReadQueue(u)
    BY <1>2 DEF Finish
  <2>2. /\ Sound(u) /\ u.blocked = TRUE /\ u.q = s.q /\ u.mem = s.mem /\ u.input = s.input
        /\ u.calls = s.calls /\ u.order = s.order /\ u.reader = s.reader
        /\ u.log = s.log /\ u.committed = s.committed /\ u.failed = s.failed
        /\ u.nstamps = s.nstamps
    BY BlockedSound
  <2> HIDE DEF u
  <2>3. Topped(u) /\ SameStand(s, u)
    BY <2>2 DEF Topped, SameStand
  <2>4. RowsRight(u) /\ Ready(u)
    BY <2>2, <2>3, StandRight, SameReady
  <2>5. s.input.state = "HDR2"
    <3>1. s.input.state \in {"HDR", "HDR2", "DATA"}
      BY ReaderFacts, InputFields
    <3> QED
      BY <3>1, <1>2
  <2>6. Fresh(u, a)
    BY <2>2, <2>5 DEF Fresh
  <2> DEFINE v == RunReadQueue(u)
  <2>7. /\ RowsRight(v) /\ Ready(v) /\ Fresh(v, a)
        /\ v.failed = u.failed /\ v.input = u.input
    BY <2>2, <2>3, <2>4, <2>6, QueueRunRight
  <2> HIDE DEF v, t
  <2>8. t = v
    BY <2>1 DEF v
  <2> QED
    BY <2>2, <2>7, <2>8 DEF Alive, t
<1>3. CASE s.input.state # "HDR" /\ s.input.room = 0 /\ ~Blocking
  <2>1. t = Fail(s, "blocking")
    BY <1>3 DEF Finish
  <2>2. "blocking" \in Fates
    BY DEF Fates
  <2>3. /\ QueueStep(s, t) /\ t.failed = "blocking" /\ t.q = s.q
        /\ t.input = s.input /\ t.committed = s.committed
    BY <2>1, <2>2, Failing
  <2> HIDE DEF t
  <2>4. SameStand(s, t) /\ SameInput(s, t) /\ t.order = s.order /\ t.reader = s.reader
    BY <2>3, SameQueueItself DEF QueueStep, SameStand, SameInput
  <2> QED
    BY <2>3, <2>4, <1>3, StandRight, SameReady, SameFresh DEF Alive, t
<1>4. CASE ~(s.input.state # "HDR" /\ s.input.room = 0)
  <2>1. t = IF new_rows THEN RunReadQueue(s) ELSE s
    BY <1>4 DEF Finish
  <2>2. CASE new_rows
    <3> DEFINE v == RunReadQueue(s)
    <3>1. /\ RowsRight(v) /\ Ready(v) /\ Fresh(v, a)
          /\ v.failed = s.failed /\ v.input = s.input
      BY <1>1, QueueRunRight
    <3>2. t = v
      BY <2>1, <2>2
    <3> HIDE DEF v, t
    <3> QED
      BY <3>1, <3>2 DEF Alive, t
  <2>3. CASE ~new_rows
    BY <2>1, <2>3 DEF Alive
  <2> QED
    BY <2>2, <2>3
<1> QED
  BY <1>2, <1>3, <1>4

LEMMA TstampRight ==
  ASSUME NEW s, Sound(s), RowsRight(s)
  PROVE  RowsRight([s EXCEPT !.q = CommitTstamp(@, s.nrefs + 1, s.nstamps + 1, s.input.ctr),
                             !.nrefs = @ + 1, !.nstamps = @ + 1])
<1> DEFINE t == [s EXCEPT !.q = CommitTstamp(@, s.nrefs + 1, s.nstamps + 1, s.input.ctr),
                          !.nrefs = @ + 1, !.nstamps = @ + 1]
           id == s.nrefs + 1
           stamps == s.nstamps
           ctr == s.input.ctr
           x == s.q
           y == t.q
           com == s.committed
<1>1. /\ Sound(t) /\ t.reader = s.reader /\ y = CommitTstamp(x, id, stamps + 1, ctr)
      /\ t.nstamps = stamps + 1 /\ t.mem = s.mem /\ t.log = s.log /\ t.committed = com
  BY TstampSound
<1>2. PICK bs \in Seq(Nat), ret \in Nat : Right(s, bs, ret)
  BY DEF RowsRight
<1>3. /\ Laid(x, bs, com, ret, stamps) /\ InRing(x, s.mem, bs, ret)
      /\ \A r \in Readers : Followed(x.chain, bs, s.reader[r], s.log[r])
  BY <1>2 DEF Right
<1>4. /\ id \in Nat /\ ctr \in 0 .. CtrMod - 1 /\ stamps \in Nat
      /\ \A r \in Readers : s.reader[r].tmqr # id
  BY ReaderFacts, InputFields
<1>5. AllocateRows(x) \in 0 .. TotalQrows
  BY ReaderFacts, FreeRows
<1> HIDE DEF id, stamps, ctr, t, x, com
<1>6. PICK bs2 \in Seq(Nat) :
        /\ Laid(CommitTstamp(x, id, stamps + 1, ctr), bs2, com, ret, stamps + 1)
        /\ Longer(x.chain, bs, CommitTstamp(x, id, stamps + 1, ctr).chain, bs2, com, 0, id,
                  stamps + 1)
  BY <1>3, <1>4, StampLaid
<1>7. y.first = x.first
  BY <1>1 DEF CommitTstamp
<1> HIDE DEF y
<1>8. Laid(y, bs2, com, ret, stamps + 1)
  BY <1>1, <1>6
<1> DEFINE tsp == stamps + 1
           n == 0
<1>9. Longer(x.chain, bs, y.chain, bs2, com, n, id, tsp)
  BY <1>1, <1>6
<1>10. n \in Nat /\ n <= AllocateRows(x) /\ 1 .. n = {}
  BY <1>5
<1> HIDE DEF tsp, n
<1>11. InRing(y, s.mem, bs2, ret)
  BY <1>3, <1>7, <1>9, <1>10, LongerRing
<1>12. ASSUME NEW r \in Readers
       PROVE  Followed(y.chain, bs2, s.reader[r], s.log[r])
  <2> DEFINE rd == s.reader[r]
             log == s.log[r]
  <2>1. Followed(x.chain, bs, rd, log) /\ rd.tmqr # id
    BY <1>3, <1>4
  <2> HIDE DEF rd, log
  <2>2. Followed(y.chain, bs2, rd, log)
    BY <2>1, <1>3, <1>9, FollowedLonger
  <2> QED
    BY <2>2 DEF rd, log
<1>13. Right(t, bs2, ret)
  BY <1>1, <1>8, <1>11, <1>12 DEF Right, y
<1> QED
  BY <1>13 DEF RowsRight, t

LEMMA RecvTstampRight ==
  ASSUME RightInv, RecvTstamp
  PROVE  RightInv'
<1> DEFINE u == [d EXCEPT !.q = CommitTstamp(@, d.nrefs + 1, d.nstamps + 1, d.input.ctr),
                          !.nrefs = @ + 1, !.nstamps = @ + 1]
           t == Finish(u, TRUE)
<1>1. /\ SoundInv /\ Sound(d) /\ RowsRight(d) /\ Fresh(d, arrived) /\ Ready(d)
  BY DEF RightInv, SoundInv
<1>2. /\ d.failed = "none" /\ d.calls = <<>> /\ ~d.blocked /\ d.input.state = "HDR"
      /\ d' = t /\ arrived' = arrived
  BY DEF RecvTstamp, Reading, Running
<1>3. /\ Sound(u) /\ u.calls = d.calls /\ u.order = d.order /\ u.reader = d.reader
      /\ u.input = d.input /\ u.blocked = d.blocked /\ u.committed = d.committed
      /\ u.failed = d.failed
  BY <1>1, TstampSound
<1>4. RowsRight(u)
  BY <1>1, TstampRight
<1> HIDE DEF u
<1>5. Fresh(u, arrived)
  BY <1>1, <1>2, <1>3 DEF Fresh
<1>6. Ready(u)
  BY <1>1, <1>3, SameReady
<1>7. RowsRight(t) /\ Ready(t) /\ Fresh(t, arrived) /\ Alive(t)
  BY <1>2, <1>3, <1>4, <1>5, <1>6, FinishRight
<1> HIDE DEF t
<1>8. SoundInv'
  BY <1>1, RecvTstampSound
<1> QED
  BY <1>2, <1>7, <1>8 DEF RightInv

LEMMA RecvHeaderRight ==
  ASSUME RightInv, MaxRec = 1 \/ RecordsWhole',
         NEW n \in 1 .. MaxRec, NEW gap \in 0 .. MaxMissing, RecvHeader(n, gap)
  PROVE  RightInv'
<1> DEFINE u == Headed(d, n, gap)
           v == DataState(u)
           t == Finish(v, FALSE)
<1>1. /\ SoundInv /\ Sound(d) /\ RowsRight(d) /\ Fresh(d, arrived) /\ Ready(d)
  BY DEF RightInv, SoundInv
<1>2. /\ d.failed = "none" /\ d.calls = <<>> /\ ~d.blocked /\ d.input.state = "HDR"
      /\ d.q.chain # <<>> /\ d' = t /\ arrived' = arrived
  BY DEF RecvHeader, Reading, Running, Headed
<1>3. gap \in Nat /\ n \in Nat /\ n >= 1
  BY BfrAssumption
<1>4. /\ u = [d EXCEPT !.input = HeaderIn(d, n, gap)]
      /\ HeaderIn(d, n, gap) \in InputType /\ InputRight(HeaderIn(d, n, gap))
      /\ HeaderIn(d, n, gap).state = "HDR2" /\ HeaderIn(d, n, gap).nb = n
      /\ Sound(u) /\ u.calls = d.calls
  BY <1>1, <1>2, <1>3, HeaderSound
<1> DEFINE in == HeaderIn(d, n, gap)
<1> HIDE DEF in
<1>5. /\ u.input = in /\ u.q = d.q /\ u.mem = d.mem
      /\ u.blocked = d.blocked /\ u.order = d.order
      /\ u.reader = d.reader /\ u.log = d.log /\ u.committed = d.committed
      /\ u.failed = d.failed /\ u.nstamps = d.nstamps
  BY <1>1, <1>2, <1>4, InputSound DEF in
<1> HIDE DEF u
<1>6. in.state = "HDR2" /\ in.nb = n
  BY <1>4 DEF in
<1>7. SameStand(d, u)
  BY <1>5 DEF SameStand
<1>8. RowsRight(u) /\ BlockReady(u)
  BY <1>1, <1>5, <1>6, <1>7, StandRight DEF BlockReady
<1>9. /\ v.failed = "none" /\ RowsRight(v) /\ RoomMade(v, in) /\ v.committed = d.committed
  BY <1>2, <1>4, <1>5, <1>6, <1>8, DataStateRight
<1>10. Sound(v) /\ QueueStep(u, v)
  BY <1>4, DataStateSound
<1> HIDE DEF v
<1>11. /\ v.blocked = FALSE /\ v.order = d.order /\ v.calls = <<>> /\ v.reader = d.reader
  <2>1. d.blocked \in BOOLEAN
    BY <1>1, Fields DEF Sound
  <2> QED
    BY <2>1, <1>2, <1>4, <1>5, <1>10 DEF QueueStep
<1>12. Ready(v)
  BY <1>1, <1>11, SameReady
<1>13. arrived = v.committed
  BY <1>1, <1>2, <1>9 DEF Fresh
<1>14. t.input = v.input
  <2>1. CASE ~(v.input.state # "HDR" /\ v.input.room = 0)
    BY <2>1, <1>9 DEF Finish
  <2>2. CASE v.input.state # "HDR" /\ v.input.room = 0 /\ Blocking
    <3> DEFINE w == [v EXCEPT !.blocked = TRUE]
    <3>1. Sound(w) /\ w.input = v.input /\ w.calls = <<>>
      BY <1>10, <1>11, BlockedSound
    <3> HIDE DEF w
    <3>2. SameQueueSide(w, RunReadQueue(w))
      BY <3>1, RunReadQueueSound DEF Topped
    <3> QED
      BY <2>2, <1>9, <3>1, <3>2 DEF Finish, SameQueueSide, w
  <2>3. CASE v.input.state # "HDR" /\ v.input.room = 0 /\ ~Blocking
    <3>1. Fail(v, "blocking").input = v.input
      BY <1>10, Failing DEF Fates
    <3> QED
      BY <2>3, <1>9, <3>1 DEF Finish
  <2> QED
    BY <2>1, <2>2, <2>3
<1>15. MaxRec = 1 \/ InOneBlock(v.input)
  <2> HIDE DEF t
  <2>1. (RecordsWhole)' => InOneBlock(v.input)
    BY <1>2, <1>14 DEF RecordsWhole
  <2> QED
    BY <2>1
<1>16. Fresh(v, arrived) /\ (v.input.room = 0 => v.input.state # "DATA")
  BY <1>3, <1>6, <1>9, <1>10, <1>11, <1>13, <1>15, RoomFresh
<1>17. RowsRight(t) /\ Ready(t) /\ Fresh(t, arrived) /\ Alive(t)
  BY <1>9, <1>10, <1>11, <1>12, <1>16, FinishRight
<1> HIDE DEF t
<1>18. SoundInv'
  BY <1>1, RecvHeaderSound
<1> QED
  BY <1>2, <1>17, <1>18 DEF RightInv

(* A row that comes in goes to a free slot. *)
RowPut(s, t, k, row) ==
  /\ t.mem = [s.mem EXCEPT ![s.q.last + k] = row]
  /\ t.q = s.q /\ t.committed = s.committed /\ t.nstamps = s.nstamps
  /\ t.log = s.log /\ t.reader = s.reader

LEMMA RowRight ==
  ASSUME NEW s, Sound(s), RowsRight(s), NEW k \in Nat, k < AllocateRows(s.q),
         NEW row, NEW t, RowPut(s, t, k, row)
  PROVE  RowsRight(t)
<1>1. PICK bs \in Seq(Nat), ret \in Nat : Right(s, bs, ret)
  BY DEF RowsRight
<1> DEFINE x == s.q
           com == s.committed
           slot == x.last + k
<1>2. /\ Laid(x, bs, com, ret, s.nstamps) /\ InRing(x, s.mem, bs, ret)
      /\ \A r \in Readers : Followed(x.chain, bs, s.reader[r], s.log[r])
  BY <1>1 DEF Right
<1>3. t.mem = [s.mem EXCEPT ![slot] = row] /\ s.mem \in RingType /\ k < AllocateRows(x)
  BY ReaderFacts DEF RowPut
<1> HIDE DEF x, com, slot
<1>4. ASSUME NEW i \in 1 .. Len(x.chain), NEW b \in bs[i] + 1 .. bs[i] + x.chain[i].n_Qrows
      PROVE  t.mem[SlotOfRow(x, ret, b)] = [id |-> b, tsp |-> x.chain[i].tsp]
  <2>1. b \in ret + 1 .. com
    BY <1>2, RowsLaid
  <2>2. SlotOfRow(x, ret, b) # slot /\ SlotOfRow(x, ret, b) \in 0 .. TotalQrows - 1
    BY <2>1, <1>2, <1>3, SlotTaken DEF slot
  <2>3. t.mem[SlotOfRow(x, ret, b)] = s.mem[SlotOfRow(x, ret, b)]
    BY <2>2, <1>3 DEF RingType
  <2> QED
    BY <2>3, <1>2 DEF InRing
<1>5. InRing(x, t.mem, bs, ret)
  BY <1>4 DEF InRing
<1>6. Right(t, bs, ret)
  BY <1>2, <1>5 DEF Right, x, com, RowPut
<1> QED
  BY <1>6 DEF RowsRight

LEMMA RecvRowRight ==
  ASSUME RightInv, RecvRow
  PROVE  RightInv'
<1> DEFINE row == [id |-> arrived + 1, tsp |-> LastRef(d.q).tsp]
           s == [d EXCEPT !.mem[d.input.buf] = row,
                          !.input.buf = @ + 1, !.input.room = @ - 1,
                          !.input.nb = @ - 1, !.input.off = @ + 1]
           off == d.input.off
           room == d.input.room
           nb == d.input.nb
           last == d.q.last
           com == d.committed
           free == AllocateRows(d.q)
<1>1. /\ SoundInv /\ Sound(d) /\ RowsRight(d) /\ Fresh(d, arrived) /\ Ready(d)
  BY DEF RightInv, SoundInv
<1>2. /\ d.failed = "none" /\ d.calls = <<>> /\ ~d.blocked /\ d.input.state = "DATA"
      /\ arrived' = arrived + 1
      /\ d' = IF s.input.room > 0 THEN s ELSE Finish(EndRecord(DataState(s)), TRUE)
  BY DEF RecvRow, Reading, Running
<1>3. /\ arrived = com + off /\ d.input.buf = last + off /\ room = nb /\ room >= 1
      /\ off + room <= free /\ BlockThere(d)
  BY <1>1, <1>2 DEF Fresh
<1>4. /\ off \in 0 .. MaxRec /\ room \in 0 .. TotalQrows /\ nb \in 0 .. MaxRec
      /\ last \in 0 .. TotalQrows - 1 /\ com \in Nat /\ free \in 0 .. TotalQrows
      /\ TotalQrows \in Nat /\ MaxRec \in Nat /\ arrived + 1 \in Nat
  <2>1. arrived \in Nat
    BY <1>1 DEF SoundInv
  <2> QED
    BY <2>1, <1>1, ReaderFacts, InputFields, FreeRows, QueueFields, Sizes
<1>5. d.input.room > 0
  <2> HIDE DEF room
  <2>1. room > 0
    BY <1>3, <1>4
  <2> QED
    BY <2>1 DEF room
<1> DEFINE in == RowIn(d.input)
<1>6. /\ Sound(s) /\ s.input = in /\ row \in ItemType
      /\ s.mem = [d.mem EXCEPT ![d.input.buf] = row]
      /\ d.input.buf \in 0 .. TotalQrows - 1 /\ d.mem \in RingType
      /\ in.state = "DATA" /\ in.buf = d.input.buf + 1 /\ in.room = room - 1
      /\ in.nb = nb - 1 /\ in.off = off + 1
      /\ s.q = d.q /\ s.blocked = d.blocked /\ s.calls = d.calls /\ s.order = d.order
      /\ s.reader = d.reader /\ s.log = d.log /\ s.committed = d.committed
      /\ s.failed = d.failed /\ s.nstamps = d.nstamps
  <2>1. arrived + 1 \in Nat
    BY <1>4
  <2>2. /\ Sound(s) /\ s.input = in /\ row \in ItemType
        /\ s.mem = [d.mem EXCEPT ![d.input.buf] = row]
    BY <2>1, <1>1, <1>2, <1>5, RowArrives, ZenonT(30)
  <2>3. d.input.buf \in 0 .. TotalQrows - 1 /\ d.mem \in RingType
    BY <2>1, <1>1, <1>2, <1>5, RowArrives
  <2>4. /\ in.state = "DATA" /\ in.buf = d.input.buf + 1 /\ in.room = room - 1
        /\ in.nb = nb - 1 /\ in.off = off + 1
    BY <2>1, <1>1, <1>2, <1>5, RowArrives
  <2>5. /\ s.q = d.q /\ s.blocked = d.blocked /\ s.calls = d.calls /\ s.order = d.order
        /\ s.reader = d.reader /\ s.log = d.log /\ s.committed = d.committed
        /\ s.failed = d.failed /\ s.nstamps = d.nstamps
    <3>1. d \in StateType
      BY <1>1 DEF Sound
    <3> QED
      BY <3>1 DEF StateType
  <2> QED
    BY <2>2, <2>3, <2>4, <2>5
<1> HIDE DEF s, in
<1>7. off \in Nat /\ off < free
  <2> HIDE DEF off, room, free
  <2> QED
    BY <1>3, <1>4
<1>8. s.mem = [d.mem EXCEPT ![last + off] = row]
  BY <1>3, <1>6
<1>9. RowsRight(s)
  <2>1. RowPut(d, s, off, row)
    BY <1>6, <1>8 DEF RowPut
  <2> HIDE DEF off, row
  <2> QED
    BY <2>1, <1>1, <1>7, RowRight
<1>10. BlockThere(s)
  <2> SUFFICES ASSUME NEW k \in 1 .. off + 1
               PROVE  s.mem[last + k - 1] = [id |-> com + k, tsp |-> LastRef(d.q).tsp]
    BY <1>6 DEF BlockThere
  <2>1. CASE k = off + 1
    <3>1. last + k - 1 = last + off /\ com + k = arrived + 1
      <4> HIDE DEF last, off, com
      <4> QED
        BY <2>1, <1>3, <1>4
    <3>2. s.mem[last + off] = row
      BY <1>3, <1>6, <1>8 DEF RingType
    <3> QED
      BY <3>1, <3>2
  <2>2. CASE k # off + 1
    <3>1. k \in 1 .. off /\ last + k - 1 # last + off
      <4> HIDE DEF last, off
      <4> QED
        BY <2>2, <1>4, <1>7
    <3>2. d.mem[last + k - 1] = [id |-> com + k, tsp |-> LastRef(d.q).tsp]
      BY <3>1, <1>3 DEF BlockThere
    <3>3. s.mem[last + k - 1] = d.mem[last + k - 1]
      <4> DEFINE slot == last + k - 1
                 slot2 == last + off
      <4>1. slot # slot2 /\ s.mem = [d.mem EXCEPT ![slot2] = row] /\ d.mem \in RingType
        BY <3>1, <1>6, <1>8
      <4>2. slot \in 0 .. TotalQrows - 1
        <5>1. last + free <= TotalQrows
          BY <1>1, ReaderFacts, FreeRows
        <5> HIDE DEF last, off, free
        <5> QED
          BY <5>1, <3>1, <1>4, <1>7
      <4> HIDE DEF slot, slot2
      <4>3. s.mem[slot] = d.mem[slot]
        BY <4>1, <4>2 DEF RingType
      <4> QED
        BY <4>3 DEF slot
    <3> QED
      BY <3>2, <3>3
  <2> QED
    BY <2>1, <2>2
<1>11. Ready(s)
  BY <1>1, <1>6, SameReady
<1>12. SoundInv'
  BY <1>1, RecvRowSound
<1> DEFINE a2 == arrived + 1
<1>13. /\ a2 = com + (off + 1) /\ in.buf = last + (off + 1) /\ in.room = in.nb
       /\ in.off + in.room <= free /\ in.off > 0 /\ in.off <= free
       /\ in.room \in Int
  <2> HIDE DEF off, room, nb, last, com, free, a2
  <2>1. a2 = arrived + 1 /\ in.buf = (last + off) + 1
    BY <1>3, <1>6 DEF a2
  <2>2. in.room = room - 1 /\ in.nb = nb - 1 /\ in.off = off + 1
    BY <1>6
  <2> QED
    BY <2>1, <2>2, <1>3, <1>4, <1>7
<1>14. CASE s.input.room > 0
  <2>1. d' = s
    BY <1>2, <1>14
  <2>2. Fresh(s, a2)
    <3>1. s.input.state = "DATA" /\ ~s.blocked
      BY <1>2, <1>6
    <3>2. in.room >= 1
      BY <1>6, <1>13, <1>14
    <3>3. /\ a2 = s.committed + s.input.off /\ s.input.buf = s.q.last + s.input.off
          /\ s.input.room = s.input.nb /\ s.input.room >= 1
          /\ s.input.off + s.input.room <= AllocateRows(s.q)
      BY <3>2, <1>6, <1>13
    <3> QED
      BY <3>1, <3>3, <1>10 DEF Fresh
  <2>3. Alive(s)
    BY <1>2, <1>6 DEF Alive
  <2> QED
    BY <2>1, <2>2, <2>3, <1>2, <1>9, <1>11, <1>12 DEF RightInv
<1>15. CASE ~(s.input.room > 0)
  <2> DEFINE v == DataState(s)
             w == EndRecord(v)
             t == Finish(w, TRUE)
  <2>1. d' = t
    BY <1>2, <1>15
  <2>2. in.nb = 0 /\ in.room = 0
    <3>1. in.room = in.nb /\ ~(in.room > 0)
      BY <1>6, <1>13, <1>15
    <3>2. in.room \in 0 .. TotalQrows
      BY <1>6, ReaderFacts, InputFields
    <3> QED
      BY <3>1, <3>2, <1>4
  <2>3. BlockReady(s)
    <3>1. s.input.off > 0 /\ s.input.off <= AllocateRows(s.q)
      BY <1>6, <1>13
    <3> QED
      BY <3>1, <1>10 DEF BlockReady
  <2>4. s.failed = "none"
    BY <1>2, <1>6
  <2>5. /\ v.failed = "none" /\ RowsRight(v) /\ RoomMade(v, s.input)
        /\ s.input.state = "DATA" => v.committed = s.committed + s.input.off
    BY <2>3, <2>4, <1>6, <1>9, DataStateRight
  <2>6. Sound(v) /\ QueueStep(s, v)
    BY <1>6, DataStateSound
  <2> HIDE DEF v
  <2>7. /\ v.order = d.order /\ v.reader = d.reader /\ v.calls = <<>> /\ ~v.blocked
    BY <2>6, <1>2, <1>6 DEF QueueStep
  <2>8. v.committed = a2
    BY <2>5, <1>6, <1>13
  <2>9. v.input.nb = 0
    BY <2>2, <2>5, <1>6 DEF RoomMade
  <2>10. /\ Sound(w) /\ w.q = v.q /\ w.mem = v.mem /\ w.blocked = v.blocked
         /\ w.calls = v.calls /\ w.order = v.order /\ w.reader = v.reader
         /\ w.log = v.log /\ w.committed = v.committed
         /\ w.failed = v.failed /\ w.nstamps = v.nstamps
         /\ w.input = [v.input EXCEPT !.state = "HDR"]
    BY <2>6, <2>9, EndRecordSound
  <2> HIDE DEF w
  <2>11. w.input.state = "HDR"
    <3>1. v.input \in InputType
      BY <2>6, ReaderFacts
    <3> QED
      BY <3>1, <2>10 DEF InputType
  <2>12. Fresh(w, a2)
    BY <2>7, <2>8, <2>10, <2>11 DEF Fresh
  <2>13. RowsRight(w) /\ Ready(w)
    <3>1. SameStand(v, w)
      BY <2>10 DEF SameStand
    <3> QED
      BY <3>1, <2>5, <2>7, <2>10, <1>1, StandRight, SameReady
  <2>14. RowsRight(t) /\ Ready(t) /\ Fresh(t, a2) /\ Alive(t)
    <3>1. w.calls = <<>> /\ w.failed = "none" /\ w.input.state # "DATA"
      BY <2>5, <2>7, <2>10, <2>11
    <3> HIDE DEF a2
    <3> QED
      BY <3>1, <2>10, <2>12, <2>13, FinishRight
  <2> HIDE DEF t
  <2> QED
    BY <2>1, <2>14, <1>2, <1>12 DEF RightInv
<1> QED
  BY <1>14, <1>15

LEMMA GoOnRight ==
  ASSUME NEW s, Sound(s), Topped(s), RowsRight(s), NEW a, Fresh(s, a),
         \A p \in ToSet(s.order) :
           \/ s.reader[p].ready \/ s.reader[p].iov # <<>>
           \/ s.calls # <<>> /\ p = s.order[Place(s)]
  PROVE  LET t == GoOn(s)
         IN /\ RowsRight(t) /\ Fresh(t, a) /\ Ready(t)
            /\ t.failed = s.failed /\ t.input = s.input
<1> DEFINE t == GoOn(s)
<1>1. GoneOn(s, t)
  BY GoOnSound
<1> HIDE DEF t
<1>2. /\ t.q = s.q /\ t.mem = s.mem /\ t.input = s.input /\ t.blocked = s.blocked
      /\ t.order = s.order /\ t.log = s.log /\ t.committed = s.committed
      /\ t.failed = s.failed /\ t.nstamps = s.nstamps
  BY <1>1 DEF GoneOn, SameQueueSide
<1>3. SameStand(s, t) /\ SameInput(s, t)
  BY <1>1, <1>2, SameQueueItself DEF SameStand, SameInput, GoneOn, SameButReady
<1>4. Ready(t)
  <2> SUFFICES ASSUME NEW p \in ToSet(s.order)
               PROVE  t.reader[p].ready \/ t.reader[p].iov # <<>>
    BY <1>2 DEF Ready
  <2>1. p \in Readers
    BY Fields DEF Sound, ToSet
  <2>2. t.reader[p].iov = s.reader[p].iov
    BY <2>1, <1>1 DEF GoneOn, SameButReady
  <2>3. CASE s.calls = <<>>
    BY <2>3, <1>1 DEF GoneOn
  <2>4. CASE s.calls # <<>>
    <3>1. t.reader[p].ready <=> \/ s.reader[p].ready
                                \/ p = s.order[Place(s)] /\ s.reader[p].iov = <<>>
      BY <2>1, <2>4, <1>1 DEF GoneOn
    <3> QED
      BY <3>1, <2>2, <2>4
  <2> QED
    BY <2>3, <2>4
<1> QED
  BY <1>2, <1>3, <1>4, StandRight, SameFresh DEF t

LEMMA VisitRight ==
  ASSUME RightInv, Visit
  PROVE  RightInv'
<1> DEFINE r == d.order[Place(d)]
           t == VisitReader(d, r)
<1>1. /\ SoundInv /\ Sound(d) /\ RowsRight(d) /\ Fresh(d, arrived) /\ Ready(d)
  BY DEF RightInv, SoundInv
<1>2. /\ d.failed = "none" /\ d.calls # <<>> /\ Topped(d) /\ d' = t /\ arrived' = arrived
  BY DEF Visit, Topped
<1>3. r \in ToSet(d.order) /\ r \in Readers
  BY <1>1, <1>2, PlaceThere
<1>4. SoundInv'
  BY <1>1, VisitSound
<1>5. ASSUME RowsRight(t), Fresh(t, arrived), Ready(t), t.failed = "none"
      PROVE  RightInv'
  <2> HIDE DEF t
  <2> QED
    BY <1>2, <1>4, <1>5 DEF RightInv, Alive
<1>6. CASE d.reader[r].ready
  <2> DEFINE u == [d EXCEPT !.reader[r].ready = FALSE]
             v == ReadReply(u, r)
  <2>1. /\ Placed(d, u, r, [d.reader[r] EXCEPT !.ready = FALSE])
        /\ Sound(u) /\ Topped(u) /\ r \in ToSet(u.order) /\ SameQueueSide(d, u)
        /\ u.calls = d.calls
    BY <1>1, <1>2, <1>3, UnreadySound
  <2>2. t = IF v.failed # "none" \/ Len(v.calls) > Len(d.calls) THEN v ELSE GoOn(v)
    BY <1>6 DEF VisitReader
  <2> HIDE DEF u
  <2>3. /\ u.q = d.q /\ u.mem = d.mem /\ u.input = d.input /\ u.blocked = d.blocked
        /\ u.order = d.order /\ u.log = d.log /\ u.committed = d.committed
        /\ u.failed = d.failed /\ u.nstamps = d.nstamps
    BY <2>1 DEF SameQueueSide
  <2>4. /\ \A p \in Readers : p # r => u.reader[p] = d.reader[p]
        /\ u.reader[r] = [d.reader[r] EXCEPT !.ready = FALSE]
    BY <2>1 DEF Placed, ReaderStep
  <2>5. SameStand(d, u)
    <3>1. d.reader[r] \in ReaderType
      BY <1>1, <1>3, ReaderFacts
    <3>2. u.reader[r].tmqr = d.reader[r].tmqr /\ u.reader[r].n_Qrows = d.reader[r].n_Qrows
      BY <3>1, <2>4 DEF ReaderType
    <3> QED
      BY <3>2, <2>3, <2>4 DEF SameStand
  <2>6. RowsRight(u)
    BY <2>5, <1>1, StandRight
  <2>7. RowsRight(v) /\ Replied(u, v, r)
    BY <2>1, <2>6, ReadReplyRight, ReadReplySound
  <2> HIDE DEF v
  <2>8. /\ Sound(v) /\ ReaderStep(u, v, r) /\ v.failed = "none"
        /\ \/ v.calls = d.calls
           \/ v.calls = Append(d.calls, 1) /\ v.reader[r].ready
    BY <2>1, <2>3, <2>7, <1>2 DEF Replied
  <2>9. /\ SameInput(d, v) /\ v.order = d.order
        /\ \A p \in Readers : p # r => v.reader[p] = d.reader[p]
    BY <2>3, <2>4, <2>8 DEF ReaderStep, SameInput
  <2>10. Fresh(v, arrived)
    BY <2>9, <1>1, SameFresh
  <2>11. \A p \in ToSet(d.order) : p = r \/ v.reader[p].ready \/ v.reader[p].iov # <<>>
    <3>1. \A p \in ToSet(d.order) : p \in Readers
      BY <1>1, Fields DEF Sound, ToSet
    <3> QED
      BY <3>1, <2>9, <1>1 DEF Ready
  <2>12. d.calls \in Seq(Nat \ {0})
    BY <1>1, Fields DEF Sound
  <2>13. CASE v.calls = d.calls
    <3> DEFINE w == GoOn(v)
    <3>1. t = w
      <4>1. ~(Len(d.calls) > Len(d.calls))
        BY <2>12
      <4> QED
        BY <4>1, <2>2, <2>8, <2>13
    <3>2. Topped(v) /\ v.calls # <<>> /\ v.order[Place(v)] = r
      BY <2>9, <2>13, <1>2 DEF Topped, Place
    <3>3. RowsRight(w) /\ Fresh(w, arrived) /\ Ready(w) /\ w.failed = v.failed
      <4> HIDE DEF r
      <4> QED
        BY <3>2, <2>7, <2>8, <2>9, <2>10, <2>11, GoOnRight
    <3> HIDE DEF w, t
    <3> QED
      BY <3>1, <3>3, <2>8, <1>5
  <2>14. CASE v.calls = Append(d.calls, 1) /\ v.reader[r].ready
    <3>1. t = v
      <4>1. Len(Append(d.calls, 1)) > Len(d.calls)
        BY <2>12
      <4> QED
        BY <4>1, <2>2, <2>14
    <3>2. Ready(v)
      BY <2>9, <2>11, <2>14 DEF Ready
    <3> HIDE DEF t
    <3> QED
      BY <3>1, <3>2, <2>7, <2>8, <2>10, <1>5
  <2> QED
    BY <2>8, <2>13, <2>14
<1>7. CASE ~d.reader[r].ready
  <2> DEFINE w == [d EXCEPT !.calls[Len(d.calls)] = @ + 1]
  <2>1. d.reader[r].iov # <<>>
    BY <1>1, <1>3, <1>7 DEF Ready
  <2>2. t = w
    BY <1>7, <2>1 DEF VisitReader
  <2>3. SameQueueSide(d, w) /\ w.reader = d.reader
    BY <1>1, <1>2, NextPlaceSound
  <2> HIDE DEF w, t
  <2>4. SameStand(d, w) /\ SameInput(d, w) /\ w.order = d.order /\ w.failed = d.failed
    BY <2>3, SameQueueItself DEF SameQueueSide, SameStand, SameInput
  <2>5. RowsRight(w) /\ Fresh(w, arrived) /\ Ready(w)
    BY <2>3, <2>4, <1>1, StandRight, SameFresh, SameReady
  <2> QED
    BY <2>2, <2>4, <2>5, <1>2, <1>5
<1> QED
  BY <1>6, <1>7

LEMMA ReturnRight ==
  ASSUME RightInv, MaxRec = 1 \/ RecordsWhole', Return
  PROVE  RightInv'
<1> DEFINE s == [d EXCEPT !.calls = Front(@)]
           t == RunWriteQueue(s)
           w == GoOn(t)
<1>1. /\ SoundInv /\ Sound(d) /\ RowsRight(d) /\ Fresh(d, arrived) /\ Ready(d)
  BY DEF RightInv, SoundInv
<1>2. /\ d.failed = "none" /\ d.calls # <<>> /\ arrived' = arrived
      /\ d' = IF t.failed # "none" THEN t ELSE w
  BY DEF Return
<1>3. /\ Sound(s) /\ Topped(s) /\ SameQueueSide(d, s) /\ s.reader = d.reader
  BY <1>1, <1>2, PopSound
<1>4. SoundInv'
  BY <1>1, ReturnSound
<1> HIDE DEF s
<1>5. /\ SameStand(d, s) /\ SameInput(d, s) /\ s.order = d.order /\ s.failed = "none"
      /\ s.input = d.input /\ s.committed = d.committed
  BY <1>2, <1>3, SameQueueItself DEF SameQueueSide, SameStand, SameInput
<1>6. RowsRight(s) /\ Fresh(s, arrived) /\ Ready(s)
  BY <1>1, <1>3, <1>5, StandRight, SameFresh, SameReady
<1>7. ASSUME Sound(t), Topped(t), RowsRight(t), Ready(t), t.failed = "none",
             MaxRec = 1 \/ InOneBlock(t.input) => Fresh(t, arrived)
      PROVE  RightInv'
  <2> HIDE DEF t
  <2>1. GoneOn(t, w)
    BY <1>7, GoOnSound
  <2>2. d' = w /\ w.input = t.input
    BY <1>2, <1>7, <2>1 DEF GoneOn, SameQueueSide
  <2>3. MaxRec = 1 \/ InOneBlock(t.input)
    <3> HIDE DEF w
    <3>1. (RecordsWhole)' => InOneBlock(t.input)
      BY <2>2 DEF RecordsWhole
    <3> QED
      BY <3>1
  <2>4. Fresh(t, arrived)
    BY <2>3, <1>7
  <2>5. RowsRight(w) /\ Fresh(w, arrived) /\ Ready(w) /\ w.failed = t.failed
    BY <2>4, <1>7, GoOnRight DEF Ready
  <2> HIDE DEF w
  <2> QED
    BY <2>2, <2>5, <1>2, <1>4, <1>7 DEF RightInv, Alive
<1>8. CASE ~s.blocked
  <2>1. t = s
    BY <1>8 DEF RunWriteQueue
  <2> HIDE DEF t
  <2> QED
    BY <2>1, <1>3, <1>5, <1>6, <1>7
<1>9. CASE s.blocked
  <2> DEFINE v == DataState(s)
             b == v.input.room = 0
  <2>1. t = [v EXCEPT !.blocked = b]
    BY <1>9 DEF RunWriteQueue
  <2>2. s.input.state = "HDR2" /\ s.input.nb >= 1
    BY <1>6, <1>9 DEF Fresh
  <2>3. BlockReady(s)
    BY <2>2 DEF BlockReady
  <2>4. /\ v.failed = "none" /\ RowsRight(v) /\ RoomMade(v, s.input)
        /\ v.committed = s.committed
    BY <2>2, <2>3, <1>3, <1>5, <1>6, DataStateRight
  <2>5. Sound(v) /\ QueueStep(s, v)
    BY <1>3, DataStateSound
  <2> HIDE DEF v
  <2>6. b \in BOOLEAN
    OBVIOUS
  <2> HIDE DEF b
  <2>7. /\ Sound(t) /\ t.blocked = b /\ t.q = v.q /\ t.mem = v.mem /\ t.input = v.input
        /\ t.calls = v.calls /\ t.order = v.order /\ t.reader = v.reader
        /\ t.log = v.log /\ t.committed = v.committed /\ t.failed = v.failed
        /\ t.nrefs = v.nrefs /\ t.nstamps = v.nstamps
    BY <2>1, <2>5, <2>6, BlockedSound
  <2> HIDE DEF t
  <2>8. SameStand(v, t) /\ RoomMade(t, s.input)
    BY <2>4, <2>7 DEF SameStand, RoomMade
  <2>9. /\ t.calls = s.calls /\ t.order = s.order /\ t.reader = s.reader
        /\ t.committed = s.committed
    BY <2>4, <2>5, <2>7 DEF QueueStep
  <2>10. RowsRight(t) /\ Ready(t) /\ Topped(t)
    BY <2>4, <2>8, <2>9, <1>3, <1>6, StandRight, SameReady DEF Topped, Place
  <2>11. arrived = t.committed
    <3>1. arrived = s.committed
      BY <2>2, <1>6 DEF Fresh
    <3> QED
      BY <3>1, <2>9
  <2>12. t.blocked = (t.input.room = 0)
    BY <2>7 DEF b
  <2>13. MaxRec = 1 \/ InOneBlock(t.input) => Fresh(t, arrived)
    BY <2>2, <2>7, <2>8, <2>11, <2>12, RoomFresh
  <2> QED
    BY <2>4, <2>7, <2>10, <2>13, <1>7
<1> QED
  BY <1>8, <1>9

LEMMA ConnectRight ==
  ASSUME RightInv, NEW r \in Readers, Connect(r)
  PROVE  RightInv'
<1> DEFINE o == Append(d.order, r)
           s == [d EXCEPT !.order = o]
           t == IF s.blocked THEN RunReadQueue(s) ELSE s
<1>1. /\ SoundInv /\ Sound(d) /\ RowsRight(d) /\ Fresh(d, arrived) /\ Ready(d) /\ Alive(d)
  BY DEF RightInv, SoundInv
<1>2. d.calls = <<>> /\ r \notin ToSet(d.order) /\ d' = t /\ arrived' = arrived
  BY DEF Connect, Running
<1>3. SoundInv'
  BY <1>1, ConnectSound
<1>4. d \in StateType /\ d.order \in Seq(Readers) /\ d.reader[r] = Idle
  BY <1>1, <1>2, Fields DEF Sound, OrderRight
<1>5. \A p \in ToSet(o) : p = r \/ p \in ToSet(d.order)
  BY <1>4 DEF ToSet
<1> HIDE DEF o
<1>6. /\ s.q = d.q /\ s.mem = d.mem /\ s.input = d.input /\ s.blocked = d.blocked
      /\ s.reader = d.reader /\ s.log = d.log /\ s.committed = d.committed
      /\ s.failed = d.failed /\ s.nstamps = d.nstamps /\ s.order = o
      /\ DOMAIN s = DOMAIN d
  BY <1>4 DEF StateType
<1>7. /\ t.q = d.q /\ t.mem = d.mem /\ t.input = d.input /\ t.blocked = d.blocked
      /\ t.reader = d.reader /\ t.log = d.log /\ t.committed = d.committed
      /\ t.failed = d.failed /\ t.nstamps = d.nstamps /\ t.order = o
  <2> DEFINE u == RunReadQueue(s)
  <2>1. /\ u.q = s.q /\ u.mem = s.mem /\ u.input = s.input /\ u.blocked = s.blocked
        /\ u.reader = s.reader /\ u.log = s.log /\ u.committed = s.committed
        /\ u.failed = s.failed /\ u.nstamps = s.nstamps /\ u.order = s.order
    BY <1>4, <1>6 DEF RunReadQueue, StateType
  <2>2. t = u \/ t = s
    OBVIOUS
  <2> HIDE DEF s, u, t
  <2> QED
    BY <2>1, <2>2, <1>6
<1> HIDE DEF t
<1>8. SameStand(d, t) /\ SameInput(d, t)
  BY <1>7, SameQueueItself DEF SameStand, SameInput
<1>9. Ready(t)
  BY <1>1, <1>4, <1>5, <1>7 DEF Ready, Idle
<1>10. RowsRight(t) /\ Fresh(t, arrived) /\ Alive(t)
  BY <1>1, <1>7, <1>8, StandRight, SameFresh DEF Alive
<1> QED
  BY <1>2, <1>3, <1>9, <1>10 DEF RightInv

(* A reader that is gone follows any chain. *)
LEMMA GoneFollows ==
  ASSUME NEW ch, NEW n, Named(ch, n), n \in Nat, NEW bs
  PROVE  Followed(ch, bs, Idle, <<>>)
<1>1. LogRight(<<>>)
  BY DEF LogRight
<1>2. \A i \in 1 .. Len(ch) : ch[i].id # Idle.tmqr
  BY DEF Named, Idle
<1> QED
  BY <1>1, <1>2 DEF Followed

LEMMA DisconnectRight ==
  ASSUME RightInv, NEW r \in Readers, Disconnect(r)
  PROVE  RightInv'
<1> DEFINE t == [d EXCEPT !.q = LetGo(d, r), !.order = Only(@, Readers \ {r}),
                          !.reader[r] = Idle, !.sock[r] = 0, !.log[r] = <<>>]
<1>1. /\ SoundInv /\ Sound(d) /\ RowsRight(d) /\ Fresh(d, arrived) /\ Ready(d) /\ Alive(d)
  BY DEF RightInv, SoundInv
<1>2. r \in ToSet(d.order) /\ d.calls = <<>> /\ d' = t /\ arrived' = arrived
  BY DEF Disconnect, Running
<1>3. SoundInv'
  BY <1>1, LeaveSound
<1>4. /\ Sound(t) /\ SameQueueRows(d.q, t.q) /\ t.mem = d.mem /\ t.input = d.input
      /\ t.blocked = d.blocked /\ t.failed = d.failed /\ t.committed = d.committed
      /\ t.nstamps = d.nstamps
      /\ t.reader = [d.reader EXCEPT ![r] = Idle]
      /\ t.log = [d.log EXCEPT ![r] = <<>>]
      /\ ToSet(t.order) = ToSet(d.order) \ {r}
  BY <1>1, <1>2, LeaveState, ZenonT(30)
<1> HIDE DEF t
<1>5. /\ t.reader[r] = Idle /\ t.log[r] = <<>>
      /\ \A p \in Readers : p # r => t.reader[p] = d.reader[p] /\ t.log[p] = d.log[p]
  <2>1. d.reader \in [Readers -> ReaderType] /\ d.log \in [Readers -> Seq(SentType)]
    BY <1>1, Fields DEF Sound
  <2> QED
    BY <2>1, <1>4
<1>6. StepOf(d, t, r) /\ SameInput(d, t)
  BY <1>4, <1>5 DEF StepOf, SameInput
<1>7. PICK bs \in Seq(Nat), ret \in Nat : Right(d, bs, ret)
  BY <1>1 DEF RowsRight
<1>8. Followed(d.q.chain, bs, t.reader[r], t.log[r])
  <2>1. Named(d.q.chain, d.nrefs) /\ d.nrefs \in Nat
    BY <1>1, ReaderFacts DEF Sound
  <2> QED
    BY <2>1, <1>5, GoneFollows
<1>9. RowsRight(t)
  <2>1. Right(t, bs, ret)
    BY <1>1, <1>4, <1>6, <1>7, <1>8, StepOfRight
  <2> QED
    BY <2>1 DEF RowsRight
<1>10. Fresh(t, arrived) /\ Alive(t)
  BY <1>1, <1>4, <1>6, SameFresh DEF Alive
<1>11. Ready(t)
  <2>1. \A p \in ToSet(d.order) : p \in Readers
    BY <1>1, Fields DEF Sound, ToSet
  <2> QED
    BY <2>1, <1>1, <1>4, <1>5 DEF Ready
<1> QED
  BY <1>2, <1>3, <1>9, <1>10, <1>11 DEF RightInv

LEMMA PeerReadsRight ==
  ASSUME RightInv, NEW r \in Readers, PeerReads(r)
  PROVE  RightInv'
<1>1. /\ SoundInv /\ Sound(d) /\ RowsRight(d) /\ Fresh(d, arrived) /\ Ready(d) /\ Alive(d)
  BY DEF RightInv, SoundInv
<1>2. /\ SoundInv' /\ arrived' = arrived
      /\ SameQueueSide(d, d') /\ d'.reader = d.reader
  BY <1>1, PeerReadsSound
<1>3. SameStand(d, d') /\ SameInput(d, d') /\ d'.order = d.order /\ d'.failed = d.failed
  BY <1>2, SameQueueItself DEF SameQueueSide, SameStand, SameInput
<1> DEFINE t == d'
<1>4. SameStand(d, t) /\ SameInput(d, t) /\ t.order = d.order /\ t.failed = d.failed
      /\ t.reader = d.reader
  BY <1>2, <1>3
<1>5. d' = t
  OBVIOUS
<1> HIDE DEF t
<1>6. RowsRight(t) /\ Fresh(t, arrived) /\ Ready(t) /\ Alive(t)
  BY <1>1, <1>4, StandRight, SameFresh, SameReady DEF Alive
<1> QED
  BY <1>2, <1>5, <1>6 DEF RightInv

LEMMA WritableRight ==
  ASSUME RightInv, NEW r \in Readers, Writable(r)
  PROVE  RightInv'
<1>1. /\ SoundInv /\ Sound(d) /\ RowsRight(d) /\ Fresh(d, arrived) /\ Ready(d)
  BY DEF RightInv, SoundInv
<1> DEFINE t == d'
<1>2. SoundInv' /\ Going(d, t, r) /\ arrived' = arrived /\ d.failed = "none"
  BY <1>1, WritableSound
<1>3. d' = t
  OBVIOUS
<1> HIDE DEF t
<1>4. /\ t.q = d.q /\ t.log = d.log /\ t.mem = d.mem /\ t.input = d.input
      /\ t.blocked = d.blocked /\ t.order = d.order /\ t.committed = d.committed
      /\ t.failed = d.failed /\ t.nstamps = d.nstamps
      /\ \A p \in Readers : p # r => t.reader[p] = d.reader[p]
      /\ t.reader[r].tmqr = d.reader[r].tmqr /\ t.reader[r].n_Qrows = d.reader[r].n_Qrows
      /\ t.reader[r].iov = <<>> => t.reader[r].ready
  BY <1>2 DEF Going, ReaderStep
<1>5. SameStand(d, t) /\ SameInput(d, t)
  BY <1>4, SameQueueItself DEF SameStand, SameInput
<1>6. Ready(t)
  <2>1. \A p \in ToSet(d.order) : p \in Readers
    BY <1>1, Fields DEF Sound, ToSet
  <2> QED
    BY <2>1, <1>1, <1>4 DEF Ready
<1>7. RowsRight(t) /\ Fresh(t, arrived) /\ Alive(t)
  BY <1>1, <1>2, <1>4, <1>5, StandRight, SameFresh DEF Alive
<1> QED
  BY <1>2, <1>3, <1>6, <1>7 DEF RightInv

-----------------------------------------------------------------------------
(* The rows of the buffer are right as long as records come whole.         *)

LEMMA InitRight ==
  ASSUME BfrInit
  PROVE  RightInv
<1>1. /\ d.q = EmptyQueue /\ d.nstamps = 0
      /\ d.input = [state |-> "HDR", nb |-> 0, room |-> 0, off |-> 0, buf |-> 0, ctr |-> 0]
      /\ d.blocked = FALSE /\ d.order = <<>>
      /\ d.reader = [r \in Readers |-> Idle]
      /\ d.log = [r \in Readers |-> <<>>] /\ d.committed = 0 /\ d.failed = "none"
      /\ arrived = 0
  BY DEF BfrInit
<1>2. SoundInv
  BY InitSound
<1>3. /\ d.q \in QueueType /\ d.q.chain = <<>> /\ d.q.first = 0 /\ d.q.last = 0
      /\ d.q.full = FALSE
  BY <1>1, <1>2, ReaderFacts DEF SoundInv, EmptyQueue
<1>4. Laid(d.q, <<>>, 0, 0, 0)
  <2>1. ChainInv(<<>>, <<>>, 0, 0, 0, 0)
    BY DEF ChainInv
  <2>2. Filled(d.q) = 0
    BY <1>3 DEF Filled
  <2>3. <<>> \in Seq(Nat)
    OBVIOUS
  <2> QED
    BY <2>1, <2>2, <2>3, <1>3 DEF Laid
<1>5. InRing(d.q, d.mem, <<>>, 0)
  BY <1>3 DEF InRing
<1>6. \A r \in Readers : Followed(d.q.chain, <<>>, d.reader[r], d.log[r])
  <2>1. Named(d.q.chain, 0)
    BY <1>3 DEF Named
  <2> QED
    BY <2>1, <1>1, GoneFollows
<1>7. RowsRight(d)
  <2>1. Right(d, <<>>, 0)
    BY <1>1, <1>4, <1>5, <1>6 DEF Right
  <2>2. <<>> \in Seq(Nat) /\ 0 \in Nat
    OBVIOUS
  <2> DEFINE bs == <<>>
  <2>3. Right(d, bs, 0) /\ bs \in Seq(Nat)
    BY <2>1, <2>2
  <2> HIDE DEF bs
  <2>4. \E x \in Seq(Nat), y \in Nat : Right(d, x, y)
    BY <2>2, <2>3
  <2> QED
    BY <2>4 DEF RowsRight
<1>8. Fresh(d, arrived) /\ Alive(d)
  BY <1>1 DEF Fresh, Alive
<1>9. Ready(d)
  BY <1>1 DEF Ready, ToSet
<1> QED
  BY <1>2, <1>7, <1>8, <1>9 DEF RightInv

LEMMA NextRight ==
  ASSUME RightInv, MaxRec = 1 \/ RecordsWhole', [BfrNext]_bfrvars
  PROVE  RightInv'
<1>1. CASE UNCHANGED bfrvars
  <2>1. d' = d /\ arrived' = arrived
    BY <1>1 DEF bfrvars
  <2>2. SoundInv'
    BY NextSound DEF RightInv
  <2> QED
    BY <2>1, <2>2 DEF RightInv
<1>2. CASE RecvTstamp
  BY <1>2, RecvTstampRight
<1>3. ASSUME NEW n \in 1 .. MaxRec, NEW gap \in 0 .. MaxMissing, RecvHeader(n, gap)
      PROVE  RightInv'
  BY <1>3, RecvHeaderRight
<1>4. CASE RecvRow
  BY <1>4, RecvRowRight
<1>5. CASE Visit
  BY <1>5, VisitRight
<1>6. CASE Return
  BY <1>6, ReturnRight
<1>7. ASSUME NEW r \in Readers, Connect(r) \/ Disconnect(r) \/ PeerReads(r) \/ Writable(r)
      PROVE  RightInv'
  BY <1>7, ConnectRight, DisconnectRight, PeerReadsRight, WritableRight
<1> QED
  BY <1>1, <1>2, <1>3, <1>4, <1>5, <1>6, <1>7 DEF BfrNext

LEMMA RightLogs ==
  ASSUME RightInv
  PROVE  StreamInOrder /\ StampedRight
<1>1. \A r \in Readers : LogRight(d.log[r])
  BY DEF RightInv, RowsRight, Right, Followed
<1>2. d.committed <= arrived
  <2>1. d.committed \in Nat /\ d.input.off \in 0 .. MaxRec
    BY ReaderFacts, InputFields DEF RightInv, SoundInv
  <2>2. arrived = d.committed \/ arrived = d.committed + d.input.off
    BY DEF RightInv, Fresh
  <2> QED
    BY <2>1, <2>2, Sizes
<1> QED
  BY <1>1, <1>2 DEF StreamInOrder, StampedRight, LogRight

LEMMA RightAlive ==
  ASSUME RightInv, Blocking
  PROVE  NoAssertFails
BY DEF RightInv, Alive, NoAssertFails

(* The queue, the ring, the record that comes in and what was written to each
   reader agree in every state, if records come whole (bfr.cc:201-335, 386-605). *)
THEOREM WholeRecordsRight == BfrSpec /\ []RecordsWhole => []RightInv
<1>1. BfrInit => RightInv
  BY InitRight
<1>2. RightInv /\ RecordsWhole' /\ [BfrNext]_bfrvars => RightInv'
  BY NextRight
<1> QED
  BY <1>1, <1>2, PTL DEF BfrSpec

(* A record of one row comes whole: with these nothing need be said of the
   records (bfr.cc:201-335, 386-605). *)
THEOREM OneRowRight ==
  ASSUME MaxRec = 1
  PROVE  BfrSpec => []RightInv
<1>1. BfrInit => RightInv
  BY InitRight
<1>2. RightInv /\ [BfrNext]_bfrvars => RightInv'
  BY NextRight
<1> QED
  BY <1>1, <1>2, PTL DEF BfrSpec

(* From the first row it is given on, a reader gets every row that arrived, once
   and in order, if records come whole, however many readers there are, however
   slow they are, and however long the queue is (bfr.cc:324-335, 358-383,
   464-541). *)
THEOREM StreamsInOrder == BfrSpec /\ []RecordsWhole => []StreamInOrder
<1>1. RightInv => StreamInOrder
  BY RightLogs
<1> QED
  BY <1>1, WholeRecordsRight, PTL

(* The same for records of one row, whatever comes. *)
THEOREM OneRowStreamsInOrder ==
  ASSUME MaxRec = 1
  PROVE  BfrSpec => []StreamInOrder
<1>1. RightInv => StreamInOrder
  BY RightLogs
<1> QED
  BY <1>1, OneRowRight, PTL

(* A row reaches a reader behind the time stamp it was received under, if records
   come whole (bfr.cc:435-460, 542-558). *)
THEOREM StampsRight == BfrSpec /\ []RecordsWhole => []StampedRight
<1>1. RightInv => StampedRight
  BY RightLogs
<1> QED
  BY <1>1, WholeRecordsRight, PTL

(* The same for records of one row, whatever comes. *)
THEOREM OneRowStampsRight ==
  ASSUME MaxRec = 1
  PROVE  BfrSpec => []StampedRight
<1>1. RightInv => StampedRight
  BY RightLogs
<1> QED
  BY <1>1, OneRowRight, PTL

(* With an input client that may block, no assertion fails, if records come
   whole: neither those of commit_rows and retire_rows nor those of the queues
   of readers (bfr.cc:220, 401, 573; tm_queue.cc:141-143, 186-188). *)
THEOREM NoAssertion ==
  ASSUME Blocking
  PROVE  BfrSpec /\ []RecordsWhole => []NoAssertFails
<1>1. RightInv => NoAssertFails
  BY RightAlive
<1> QED
  BY <1>1, WholeRecordsRight, PTL

(* The same for records of one row, whatever comes. *)
THEOREM OneRowNoAssertion ==
  ASSUME Blocking, MaxRec = 1
  PROVE  BfrSpec => []NoAssertFails
<1>1. RightInv => NoAssertFails
  BY RightAlive
<1> QED
  BY <1>1, OneRowRight, PTL
=============================================================================
