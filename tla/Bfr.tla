----------------------------------- MODULE Bfr ----------------------------------
(***************************************************************************)
(* The telemetry buffer tm_bfr (utils/bfr/bfr.cc): one input client writes *)
(* records into a telemetry queue, any number of output clients read it.   *)
(* The program is one event loop.  A handler is one action up to where it  *)
(* calls run_read_queue; from there on each reader visited is one, in      *)
(* between the peers may read.  The rows of a record arrive one by one, and *)
(* a socket to a reader takes as much of a message as it has room for.     *)
(*                                                                         *)
(* Records are of type TMTYPE_DATA_T3, the only one process_tm_info accepts: *)
(* a row is a minor frame, and its number is not sent (NRowMinf = 1).      *)
(*                                                                         *)
(* run_read_queue calls read_reply, which may call iwritten, which may call *)
(* run_read_queue again: d.calls is the stack of these calls, each with its *)
(* place in all_readers.  The rest of the record d:                        *)
(*   d.q, d.mem  the tm_queue and its rows    d.input   the record coming in *)
(*   d.blocked   blocked_writer, Fl_Read off  d.order   all_readers         *)
(*   d.reader    the bfr_output_clients       d.sock    rows in each socket *)
(*   d.log       history: what was written to each reader                  *)
(*   d.failed    the assertion that ended the program, "none" while it runs *)
(***************************************************************************)
EXTENDS TmQueueOps, Lists, FiniteSets, SequencesExt, FiniteSetsExt

CONSTANTS
  Readers,      \* the output clients that may connect
  FastReaders,  \* those that connect to tm_bfr/fast
  Blocking,     \* the input client connected to tm_bfr/input, not input-nb
  SockCap,      \* items a socket holds before a write would block
  MaxRec,       \* bound: rows in an input record
  MaxArrivals,  \* bound: rows that ever arrive
  MaxTstamps,   \* bound: time stamps that ever arrive, with the one of tm_info
  MaxMissing,   \* bound: rows that may be missing before a record
  MaxLeaves     \* bound: readers that disconnect

ASSUME BfrAssumption ==
  /\ FastReaders \subseteq Readers /\ IsFiniteSet(Readers)
  /\ Blocking \in BOOLEAN
  /\ SockCap \in Nat \ {0} /\ MaxRec \in Nat \ {0}
  /\ {MaxArrivals, MaxTstamps, MaxMissing, MaxLeaves} \subseteq Nat

VARIABLES d,        \* the program
          arrived,  \* history: rows that have arrived
          left      \* readers that have disconnected

bfrvars == <<d, arrived, left>>

Idle == [tmqr |-> 0, n_Qrows |-> 0, ready |-> TRUE, iov |-> <<>>]

NoRow == [id |-> 0, tsp |-> 0]

BfrInit ==
  /\ d = [q |-> EmptyQueue, mem |-> [slot \in 0 .. TotalQrows - 1 |-> NoRow],
          nrefs |-> 0, nstamps |-> 0,
          input |-> [state |-> "HDR", nb |-> 0, room |-> 0, off |-> 0,
                     buf |-> 0, ctr |-> 0],
          blocked |-> FALSE, order |-> <<>>, calls |-> <<>>,
          reader |-> [r \in Readers |-> Idle],
          sock |-> [r \in Readers |-> 0],
          log |-> [r \in Readers |-> <<>>],
          committed |-> 0, failed |-> "none"]
  /\ arrived = 0
  /\ left = {}

-----------------------------------------------------------------------------
(* The queue side: data_state_T3, tmq_retire_check, min_reader.            *)

Fail(s, what) == [s EXCEPT !.failed = what]

Retired(s) == s.q.chain[1].Qrows_retired

(* The rows received since the record's last header are committed. *)
CommitBlock(s) ==
  IF ~CommitAsserts(s.q, s.input.off) THEN Fail(s, "commit_rows")
  ELSE LET lab == [ctr |-> s.input.ctr, row |-> 0]
           q2  == CommitRows(s.q, s.nrefs + 1, lab, s.input.off)
       IN [s EXCEPT !.q = q2,
                    !.nrefs = @ + Len(q2.chain) - Len(s.q.chain),
                    !.committed = @ + s.input.off,
                    !.input.ctr = (@ + s.input.off) % CtrMod]

RetireOf(s, n) ==
  IF RetireAsserts(s.q, n) THEN [s EXCEPT !.q = RetireRows(@, n)]
  ELSE Fail(s, "retire_rows")

(* Rows of first_tmqr that every reader holding it has been given. *)
MinReader(s) ==
  Min({Retired(s) + s.q.chain[1].n_Qrows} \cup
      {s.reader[r].n_Qrows : r \in {r \in ToSet(s.order) :
                                      s.reader[r].tmqr = s.q.chain[1].id}})

(* Mutant of EmptyHead: a tmq_ref readers have left stays. *)
NeverEmpty(s) == FALSE

EmptyHead(s) == /\ Len(s.q.chain) > 1
                /\ s.q.chain[1].ref_count = 0
                /\ s.q.chain[1].n_Qrows = 0

DropHead(s) == IF s.failed = "none" /\ EmptyHead(s) THEN RetireOf(s, 0) ELSE s

RetireHandled(s) ==
  IF s.failed = "none" /\ s.q.chain # <<>> /\ MinReader(s) > Retired(s)
  THEN RetireOf(s, MinReader(s) - Retired(s))
  ELSE s

(* The empty tmq_refs at the head go first, then the rows of the one that
   is first now. *)
TmqRetireCheck(s) ==
  LET dropped[n \in 0 .. Len(s.q.chain)] ==
        IF n = 0 THEN s ELSE DropHead(dropped[n - 1])
  IN RetireHandled(dropped[Len(s.q.chain)])

(* Where the next rows of the record go and how many of them there is room
   for; off_queue starts again only behind a header. *)
AssignRoom(s) ==
  LET free == AllocateRows(s.q)
      start == free > 0 /\ s.input.state = "HDR2"
  IN [s EXCEPT !.input.room  = Min({free, s.input.nb}),
               !.input.buf   = s.q.last,
               !.input.off   = IF start THEN 0 ELSE @,
               !.input.state = IF start THEN "DATA" ELSE @]

DataState(s) ==
  LET s1 == IF s.input.state = "DATA" THEN CommitBlock(s) ELSE s
      s2 == TmqRetireCheck(s1)
  IN IF s2.failed # "none" THEN s2 ELSE AssignRoom(s2)

-----------------------------------------------------------------------------
(* The reader side: read_reply, do_read_reply, iwritten, the two queues.   *)

TstampOut(tsp) == [slot |-> -1, id |-> 0, tsp |-> tsp]

RowOut(s, slot) == [slot |-> slot, id |-> s.mem[slot].id, tsp |-> s.mem[slot].tsp]

At(q, id) == CHOOSE i \in 1 .. Len(q.chain) : q.chain[i].id = id

(* Rows of a tmq_ref that are still to go to a reader that handled n. *)
RowsReady(ref, n) == ref.n_Qrows + ref.Qrows_retired - n

(* run_read_queue begins with the first reader; see Visit. *)
RunReadQueue(s) == [s EXCEPT !.calls = Append(@, 1)]

(* iwritten, after k items went into the socket of r. *)
Written(s, r, k) ==
  IF k = 0 \/ s.reader[r].iov # <<>> THEN s
  ELSE LET s1 == [s EXCEPT !.reader[r].ready = TRUE]
       IN IF s.blocked THEN RunReadQueue(s1) ELSE s1

(* writev: the socket takes what it has room for of what iov points to. *)
WriteV(s, r, items) ==
  LET k == Min({Len(items), SockCap - s.sock[r]})
  IN Written([s EXCEPT !.reader[r].iov = SubSeq(items, k + 1, Len(items)),
                       !.sock[r] = @ + k], r, k)

(* The rows and time stamps of a message, wherever they are. *)
Contents(items) ==
  [k \in 1 .. Len(items) |-> [id |-> items[k].id, tsp |-> items[k].tsp]]

(* do_read_reply: a message of these items starts on its way to r. *)
Reply(s, r, items) ==
  IF s.reader[r].iov # <<>> THEN Fail(s, "do_read_reply")
  ELSE WriteV([s EXCEPT !.log[r] = @ \o Contents(items)], r, items)

(* The first message to a reader: tm_info with the time stamp of first_tmqr. *)
StartReader(s, r) ==
  IF s.q.chain = <<>> THEN [s EXCEPT !.reader[r].ready = TRUE]
  ELSE Reply([s EXCEPT !.q.chain[1].ref_count = @ + 1,
                       !.reader[r].tmqr = s.q.chain[1].id,
                       !.reader[r].n_Qrows = 0],
             r, <<TstampOut(s.q.chain[1].tsp)>>)

(* Mutant of ReplyRows: rows are handed out from the start of the tmq_ref. *)
ReplyRowsFromStart(s, r, ref, done) ==
  LET n == Min({RowsReady(ref, done), IF r \in FastReaders THEN 1 ELSE TotalQrows})
  IN Reply([s EXCEPT !.reader[r].n_Qrows = done + n], r,
           [k \in 1 .. n |-> RowOut(s, Wrap(ref.Qrow + k - 1))])

(* A data record: rows from where r got to, in up to two pieces of the ring. *)
ReplyRows(s, r, ref, done) ==
  LET n == Min({RowsReady(ref, done), IF r \in FastReaders THEN 1 ELSE TotalQrows})
      start == Wrap(ref.Qrow + done - ref.Qrows_retired)
  IN Reply([s EXCEPT !.reader[r].n_Qrows = done + n], r,
           [k \in 1 .. n |-> RowOut(s, Wrap(start + k - 1))])

(* Mutant of MoveTo: the tmq_ref left behind is not dereferenced. *)
MoveToKeeping(s, r, i, j) ==
  IF i = j THEN s
  ELSE [s EXCEPT !.q.chain[j].ref_count = @ + 1,
                 !.reader[r].tmqr = s.q.chain[j].id, !.reader[r].n_Qrows = 0]

(* dereference(true), from the tmq_ref in place i to a later one. *)
MoveTo(s, r, i, j) ==
  IF i = j THEN s
  ELSE [s EXCEPT !.q.chain[i].ref_count = @ - 1,
                 !.q.chain[j].ref_count = @ + 1,
                 !.reader[r].tmqr = s.q.chain[j].id,
                 !.reader[r].n_Qrows = 0]

(* Mutant of NewStamp: the time stamp of the next tmq_ref is never new. *)
NeverNewStamp(s, i) == FALSE

NewStamp(s, i) == s.q.chain[i].tsp # s.q.chain[i + 1].tsp

(* Rows of a tmq_ref behind a reader that handled n: those retired were missed. *)
Done(n, ref) == IF n < ref.Qrows_retired THEN ref.Qrows_retired ELSE n

(* The walk ends at a tmq_ref with rows, at the last one, before a new stamp. *)
StopsAt(s, r, i, j) ==
  LET ref == s.q.chain[j]
  IN \/ RowsReady(ref, Done(IF j = i THEN s.reader[r].n_Qrows ELSE 0, ref)) > 0
     \/ j = Len(s.q.chain)
     \/ NewStamp(s, j)

(* The rest of the chain, from the tmq_ref the reader holds: at most one
   message, the next rows or the next time stamp. *)
WalkChain(s, r) ==
  LET i    == At(s.q, s.reader[r].tmqr)
      j    == Min({k \in i .. Len(s.q.chain) : StopsAt(s, r, i, k)})
      ref  == s.q.chain[j]
      there == MoveTo(s, r, i, j)
      done == Done(there.reader[r].n_Qrows, ref)
      t    == [there EXCEPT !.reader[r].n_Qrows = done]
  IN IF RowsReady(ref, done) > 0 THEN ReplyRows(t, r, ref, done)
     ELSE IF j = Len(s.q.chain) THEN t
     ELSE Reply(MoveTo(t, r, j, j + 1), r, <<TstampOut(s.q.chain[j + 1].tsp)>>)

ReadReply(s, r) ==
  IF s.reader[r].iov # <<>> THEN s
  ELSE IF s.reader[r].tmqr = 0 THEN StartReader(s, r)
  ELSE WalkChain(s, r)

(* Room made by the readers lets a blocked writer go on. *)
RunWriteQueue(s) ==
  IF ~s.blocked THEN s
  ELSE LET s1 == DataState(s)
       IN [s1 EXCEPT !.blocked = (s1.input.room = 0)]

Place(s) == s.calls[Len(s.calls)]

(* read_reply to the reader visited has returned: the next one. *)
GoOn(s) ==
  IF s.calls = <<>> THEN s
  ELSE LET r == s.order[Place(s)]
       IN [s EXCEPT !.reader[r].ready = @ \/ s.reader[r].iov = <<>>,
                    !.calls[Len(s.calls)] = @ + 1]

(* A reader visited; if its message went out at once and the writer waits,
   another run_read_queue comes first. *)
VisitReader(s, r) ==
  IF s.reader[r].ready
  THEN LET t == ReadReply([s EXCEPT !.reader[r].ready = FALSE], r)
       IN IF t.failed # "none" \/ Len(t.calls) > Len(s.calls) THEN t ELSE GoOn(t)
  ELSE IF s.reader[r].iov = <<>> THEN Fail(s, "run_read_queue")
  ELSE [s EXCEPT !.calls[Len(s.calls)] = @ + 1]

(* A turn of the loop over all_readers. *)
Visit ==
  /\ d.failed = "none" /\ d.calls # <<>> /\ Place(d) <= Len(d.order)
  /\ d' = VisitReader(d, d.order[Place(d)])
  /\ UNCHANGED <<arrived, left>>

(* The end of run_read_queue, and of read_reply where it was called in one. *)
Return ==
  /\ d.failed = "none" /\ d.calls # <<>> /\ Place(d) > Len(d.order)
  /\ d' = LET s == RunWriteQueue([d EXCEPT !.calls = Front(@)])
          IN IF s.failed # "none" THEN s ELSE GoOn(s)
  /\ UNCHANGED <<arrived, left>>

-----------------------------------------------------------------------------
(* The input client.                                                       *)

(* The loop is between two handlers; it reads input unless Fl_Read is off. *)
Running == d.failed = "none" /\ d.calls = <<>>

Reading == Running /\ ~d.blocked

(* The end of protocol_input: a block without room blocks the writer. *)
Finish(s, new_rows) ==
  IF s.failed # "none" THEN s
  ELSE IF s.input.state # "HDR" /\ s.input.room = 0
  THEN IF Blocking THEN RunReadQueue([s EXCEPT !.blocked = TRUE])
       ELSE Fail(s, "blocking")
  ELSE IF new_rows THEN RunReadQueue(s) ELSE s

(* Mutant of EndRecord: the record goes on when all of it has arrived. *)
EndRecordLate(s) == IF s.input.nb < 0 THEN [s EXCEPT !.input.state = "HDR"] ELSE s

EndRecord(s) == IF s.input.nb = 0 THEN [s EXCEPT !.input.state = "HDR"] ELSE s

(* tm_info, the first message, and each time stamp make a new tmq_ref. *)
RecvTstamp ==
  /\ Reading
  /\ d.input.state = "HDR"
  /\ d.nstamps < MaxTstamps
  /\ d' = Finish([d EXCEPT !.q = CommitTstamp(@, d.nrefs + 1, d.nstamps + 1, d.input.ctr),
                           !.nrefs = @ + 1, !.nstamps = @ + 1], TRUE)
  /\ UNCHANGED <<arrived, left>>

(* The header of a record of n rows, gap rows after the last one. *)
RecvHeader(n, gap) ==
  /\ Reading
  /\ d.input.state = "HDR"
  /\ d.q.chain # <<>>
  /\ arrived + n <= MaxArrivals
  /\ d' = Finish(DataState([d EXCEPT !.input.state = "HDR2", !.input.nb = n,
                                     !.input.off = 0, !.input.room = 0,
                                     !.input.ctr = (@ + gap) % CtrMod]), FALSE)
  /\ UNCHANGED <<arrived, left>>

(* A row of the record arrives in the queue; the last row there is room for
   ends the block. *)
RecvRow ==
  LET s == [d EXCEPT !.mem[d.input.buf] = [id  |-> arrived + 1,
                                           tsp |-> LastRef(d.q).tsp],
                     !.input.buf = @ + 1, !.input.room = @ - 1,
                     !.input.nb = @ - 1, !.input.off = @ + 1]
  IN /\ Reading
     /\ d.input.state = "DATA"
     /\ arrived' = arrived + 1
     /\ d' = IF s.input.room > 0 THEN s
             ELSE Finish(EndRecord(DataState(s)), TRUE)
     /\ UNCHANGED left

-----------------------------------------------------------------------------
(* The output clients and their peers.                                     *)

(* A reader that connects is greeted; the greeting gone, its iwritten runs the
   queues when the writer is blocked. *)
Connect(r) ==
  LET s == [d EXCEPT !.order = Append(@, r)]
  IN
  /\ Running
  /\ r \notin ToSet(d.order) \cup left
  /\ d' = IF s.blocked THEN RunReadQueue(s) ELSE s
  /\ UNCHANGED <<arrived, left>>

(* dereference(false). *)
LetGo(s, r) ==
  IF s.reader[r].tmqr = 0 THEN s.q
  ELSE [s.q EXCEPT !.chain[At(s.q, s.reader[r].tmqr)].ref_count = @ - 1]

(* The connection ends: the destructor gives back the tmq_ref. *)
Disconnect(r) ==
  /\ Running
  /\ r \in ToSet(d.order)
  /\ Cardinality(left) < MaxLeaves
  /\ left' = left \cup {r}
  /\ d' = [d EXCEPT !.q = LetGo(d, r),
                    !.order = Only(@, Readers \ {r}),
                    !.reader[r] = Idle, !.sock[r] = 0, !.log[r] = <<>>]
  /\ UNCHANGED arrived

(* The peer takes an item out of its socket. *)
PeerReads(r) ==
  /\ d.sock[r] > 0
  /\ d' = [d EXCEPT !.sock[r] = @ - 1]
  /\ UNCHANGED <<arrived, left>>

CanWrite(r) == /\ Running
               /\ d.reader[r].iov # <<>>
               /\ d.sock[r] < SockCap

(* The loop finds the socket writable: iwrite_check goes on with the iovec. *)
Writable(r) ==
  /\ CanWrite(r)
  /\ d' = WriteV(d, r, d.reader[r].iov)
  /\ UNCHANGED <<arrived, left>>

BfrNext ==
  \/ RecvTstamp
  \/ \E n \in 1 .. MaxRec, gap \in 0 .. MaxMissing : RecvHeader(n, gap)
  \/ RecvRow
  \/ Visit \/ Return
  \/ \E r \in Readers : Connect(r) \/ Disconnect(r) \/ PeerReads(r) \/ Writable(r)

(* A handler goes on to its end, the loop serves every socket that select
   reports writable, and a peer that stays connected goes on reading: weak
   fairness of Visit \/ Return, Writable(r) and PeerReads(r), with the state
   predicate that says when each is enabled. *)
Fairness ==
  /\ []<>(d.failed # "none" \/ d.calls = <<>>) \/ []<><<Visit \/ Return>>_bfrvars
  /\ \A r \in Readers :
       /\ []<>~CanWrite(r) \/ []<><<Writable(r)>>_bfrvars
       /\ []<>(d.sock[r] = 0) \/ []<><<PeerReads(r)>>_bfrvars

BfrSpec == BfrInit /\ [][BfrNext]_bfrvars /\ Fairness
-----------------------------------------------------------------------------
Holding == {r \in ToSet(d.order) : d.reader[r].tmqr # 0}

BfrTypeOK ==
  /\ d.q \in QueueType
  /\ d.input \in [state : {"HDR", "HDR2", "DATA"}, nb : 0 .. MaxRec,
                  room : 0 .. TotalQrows, off : 0 .. MaxRec,
                  buf : 0 .. TotalQrows, ctr : 0 .. CtrMod - 1]
  /\ d.blocked \in BOOLEAN
  /\ d.calls \in Seq(Nat \ {0})
  /\ IsInjective(d.order) /\ ToSet(d.order) \subseteq Readers
  /\ \A r \in Readers : d.sock[r] \in 0 .. SockCap
  /\ d.failed \in {"none", "commit_rows", "retire_rows", "do_read_reply",
                   "run_read_queue", "blocking"}

(* No assertion of the buffer fails: those of commit_rows and retire_rows, a
   reply to a reader whose last one is not out (bfr.cc:573), a reader that
   is neither ready nor writing (bfr.cc:401), an input client that must not
   block (bfr.cc:220).  With MaxRec > 1 it does not hold: a writer that blocks
   between two blocks of a record commits the first one again (README). *)
NoAssertFails == d.failed = "none"

(* The buffer never has to block an input client that connected to
   tm_bfr/input-nb (bfr.cc:220).  With Blocking = FALSE it does not hold
   (README). *)
NeverBlocks == d.failed # "blocking"

(* The state is well typed; a reader's tmq_ref is in the chain, and each tmq_ref
   of the chain counts the readers that hold it: none is deleted under a reader,
   none is kept for a reader that is gone (bfr.cc:435-445, 542-548, 616-620; tm_queue.cc:36-42, 205). *)
RefCounts ==
  /\ BfrTypeOK
  /\ \A r \in Holding : \E i \in 1 .. Len(d.q.chain) :
                           d.q.chain[i].id = d.reader[r].tmqr
  /\ \A i \in 1 .. Len(d.q.chain) :
       d.q.chain[i].ref_count =
         Cardinality({r \in Holding : d.reader[r].tmqr = d.q.chain[i].id})

(* k is the place of the next row after the one in place j. *)
NextRow(log, j, k) ==
  /\ j < k /\ log[j].id > 0 /\ log[k].id > 0
  /\ \A m \in j + 1 .. k - 1 : log[m].id = 0

(* Only rows that arrived are committed, and from the first row it is given on a
   reader gets every one of them, once and in order, however slow it is and
   whatever is retired meanwhile (bfr.cc:324-335, 358-383, 464-541). *)
StreamInOrder ==
  /\ d.committed <= arrived
  /\ \A r \in Readers : \A j, k \in 1 .. Len(d.log[r]) :
       NextRow(d.log[r], j, k) => d.log[r][k].id = d.log[r][j].id + 1

(* The time stamp a reader got last when it gets a row is the one the row was
   received under (bfr.cc:435-460, 542-558). *)
StampedRight ==
  \A r \in Readers : \A k \in 1 .. Len(d.log[r]) - 1 :
    d.log[r][k + 1].id > 0 => d.log[r][k + 1].tsp = d.log[r][k].tsp

(* A blocked writer waits for a reader that has not got all of a message out:
   something will wake it (bfr.cc:300-304, 591-599).  With MaxLeaves > 0 it does
   not hold: a reader that leaves wakes nobody (README). *)
BlockedWaitsForReader ==
  d.blocked => \E r \in ToSet(d.order) : d.reader[r].iov # <<>>

(* A writer that is blocked goes on, as long as the readers read and stay
   (bfr.cc:578-599). *)
WriterResumes == []<>(~d.blocked \/ left # {})

(* The rows a message on its way points to stay as they were when the message
   was put together (bfr.h:86-91, bfr.cc:373-383, 519-539). *)
InFlightIntact ==
  \A r \in Readers : \A k \in 1 .. Len(d.reader[r].iov) :
    LET item == d.reader[r].iov[k]
    IN item.id > 0 => d.mem[item.slot].id = item.id
=============================================================================
