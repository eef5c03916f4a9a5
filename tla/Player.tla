--------------------------------- MODULE Player ---------------------------------
(***************************************************************************)
(* rdr plays log files back to tm_bfr: the Reader of utils/rdr/rdr.cc, the *)
(* tm_generator it is (libs/dasio/src/tm_gen.cc) with its commands and its *)
(* row timer, and its connection to tm_bfr with the output buffer of       *)
(* libs/dasio/src/interface.cc.                                            *)
(*                                                                         *)
(* One thread runs the handlers.  pc says where it is: "loop" between      *)
(* handlers, "data" in process_message, "transmit" in transmit_data.       *)
(* tm_bfr reads the socket at any time.                                    *)
(*                                                                         *)
(* Messages are sequences of units: a header, a time stamp, a row.         *)
(***************************************************************************)
EXTENDS TmQueueOps, SequencesExt

CONSTANTS
  Files,      \* the log files: each a sequence of records
  ReadCap,    \* bufsize of rdr_mlf: units of records read at once
  ObufCap,    \* obufsize of tm_gen_bfr, in units
  WireCap,    \* bound: units between rdr and tm_bfr
  RowPeriod,  \* row_period_nsec_default
  MaxPeriod,  \* bound: the row period may not grow beyond it
  Options,    \* the options -A, -a, -q the program may be started with
  Commands,   \* the commands that may come
  MaxCmds     \* bound: commands received

ASSUME PlayerAssumption ==
  /\ {RowPeriod, MaxPeriod} \subseteq Nat
  /\ Options \subseteq [autostart : BOOLEAN, regulate : BOOLEAN, autoquit : BOOLEAN]

VARIABLES
  gen,        \* tm_generator: started, regulated, period, the timer, the mutex
  q,          \* the tm_queue; mem: the number of the row in each slot
  mem,
  cur_tsp,    \* time stamp last transmitted, 0 for none
  nrefs,      \* tmq_refs ever made
  mlf,        \* the file: open, reading (Fl_Read), the records not read, and
              \* the number of files opened
  t_stmp,     \* the time stamp of the records
  todo,       \* records read and not processed
  n_rows,     \* rows of the first of them not yet in the queue
  read,       \* rows ever put in the queue: the number of the last
  pc,
  single,     \* transmit_data(single_row)
  negotiated, \* the connection to tm_bfr
  buffering,  \* tm_gen_bfr::buffering and Reader::is_buffering
  out,        \* the socket, obuf and the vector being written
  got,        \* what tm_bfr has read
  life,       \* "running", "shutdown" requested, "ended", or "fatal"
  ncmds,
  everRegulated   \* history

queue == <<q, mem, nrefs>>
input == <<mlf, t_stmp, todo, n_rows, read>>
conn == <<negotiated, buffering, out>>
vars == <<gen, queue, cur_tsp, input, pc, single, conn, got, life, ncmds,
          everRegulated>>

Alive == life \in {"running", "shutdown"} /\ ~gen.hung
InLoop == Alive /\ pc = "loop"

TstampRecord(t) == [kind |-> "tstamp", val |-> t]
DataRecord(n) == [kind |-> "data", val |-> n]
RecordUnits(rec) == IF rec.kind = "tstamp" THEN 2 ELSE 1 + rec.val

InfoMsg == <<<<[kind |-> "hdr", of |-> "info", n |-> 1]>>,
             <<[kind |-> "info", val |-> 0]>>>>
TstampMsg(t) == <<<<[kind |-> "hdr", of |-> "tstamp", n |-> 1]>>,
                  <<[kind |-> "tstamp", val |-> t]>>>>
Junk == [kind |-> "junk"]

-----------------------------------------------------------------------------
(* Interface: the vector and the output buffer. *)

Room(o) == WireCap - Len(o.sock)
Lesser(a, b) == IF a < b THEN a ELSE b

(* write() takes what fits from the front of the waiting units. *)
PutOut(o) ==
  LET k == Lesser(Room(o), Len(o.pending))
  IN [o EXCEPT !.sock = @ \o SubSeq(o.pending, 1, k),
               !.pending = SubSeq(@, k + 1, Len(@))]

SetIov(o, parts) ==
  [i \in 1 .. 3 |-> IF i <= Len(parts) THEN parts[i] ELSE o.iov[i]]

(* Parts of a vector that the first k units of it complete, the last part
   never counted: how far writev moves wiov. *)
PartsSent(parts, k) ==
  Cardinality({i \in 1 .. Len(parts) - 1 :
                 Len(FlattenSeq(SubSeq(parts, 1, i))) <= k})

(* writev() takes what fits; the rest goes to obuf (fill_obuf). *)
WriteVector(o, parts) ==
  LET units == FlattenSeq(parts)
      k == Lesser(Room(o), Len(units))
      at == PartsSent(parts, k)
      done == Len(FlattenSeq(SubSeq(parts, 1, at)))
  IN [sock |-> o.sock \o SubSeq(units, 1, k),
      pending |-> SubSeq(units, k + 1, Len(units)),
      iov |-> [SetIov(o, parts) EXCEPT ![at + 1] = SubSeq(@, k - done + 1, Len(@))],
      wiov |-> at,
      overflow |-> Len(units) - k > ObufCap]

(* fill_obuf behind waiting units: the parts are counted from the vector
   given and copied from where wiov was left. *)
FillObuf(o, parts) ==
  LET iov == SetIov(o, parts)
      copied == [i \in 1 .. Len(parts) |->
                   IF o.wiov + i <= 3 THEN iov[o.wiov + i] ELSE <<Junk>>]
  IN [o EXCEPT !.iov = iov,
               !.overflow = Len(o.pending) + Len(FlattenSeq(parts)) > ObufCap,
               !.pending = @ \o FlattenSeq(copied)]

IWritev(o, parts) ==
  IF o.pending = <<>> THEN WriteVector(o, parts) ELSE PutOut(FillObuf(o, parts))

(* Mutant of Buffering: reading is not taken up again. *)
BufferingStill(o) ==
  /\ out' = o
  /\ buffering' = (o.pending # <<>>)
  /\ mlf' = mlf

(* tm_gen_bfr::iwritten and the end of tm_gen_bfr::iwritev tell the Reader
   when obuf starts and ends to hold anything; the end of it starts reading. *)
Buffering(o) ==
  /\ out' = o
  /\ buffering' = (o.pending # <<>>)
  /\ mlf' = IF buffering /\ o.pending = <<>> THEN [mlf EXCEPT !.reading = TRUE]
            ELSE mlf

Fatal(o) == IF o.overflow THEN "fatal" ELSE life

SendMsg(parts) ==
  LET o == IWritev(out, parts)
  IN Buffering(o) /\ life' = Fatal(o)

-----------------------------------------------------------------------------
Init ==
  /\ \E opt \in Options :
       gen = [started |-> FALSE, regulated |-> opt.regulate,
              period |-> RowPeriod, tmr |-> 0, mutex |-> FALSE, hung |-> FALSE,
              autostart |-> opt.autostart, autoquit |-> opt.autoquit]
  /\ q = EmptyQueue /\ mem = [s \in 0 .. TotalQrows - 1 |-> 0]
  /\ cur_tsp = 0 /\ nrefs = 0
  /\ mlf = [open |-> TRUE, reading |-> FALSE, left |-> Files[1], nth |-> 1]
  /\ t_stmp = 0 /\ todo = <<>> /\ n_rows = 0 /\ read = 0
  /\ pc = "start" /\ single = FALSE
  /\ negotiated = FALSE /\ buffering = TRUE
  /\ out = [sock |-> <<>>, pending |-> <<>>, iov |-> [i \in 1 .. 3 |-> <<Junk>>],
            wiov |-> 0, overflow |-> FALSE]
  /\ got = <<>> /\ life = "running" /\ ncmds = 0
  /\ everRegulated = gen.regulated

Ready == q.chain = <<>> \/ (Len(q.chain) = 1 /\ q.chain[1].n_Qrows = 0)

-----------------------------------------------------------------------------
(* The commands of tm_generator::execute. *)

Lock(g) == IF g.mutex THEN [g EXCEPT !.hung = TRUE] ELSE [g EXCEPT !.mutex = TRUE]
Unlock(g) == [g EXCEPT !.mutex = FALSE]
SetTime(g, period) == [g EXCEPT !.tmr = period]

(* Reader::event takes the mutex for every event. *)
Event(g) == Unlock(Lock(g))

(* tm_start(0): the mutex is held, and given back before the event. *)
TmStart(g) ==
  LET s == [g EXCEPT !.started = TRUE]
  IN Event(Unlock(SetTime(s, IF s.regulated THEN s.period ELSE 0)))

(* Mutant of TmPlay: the mutex is kept when nothing is started. *)
TmPlayKeeping(g) ==
  LET s == [g EXCEPT !.regulated = TRUE, !.period = RowPeriod]
  IN IF s.started THEN SetTime(s, s.period) ELSE TmStart(s)

TmPlay(g) ==
  LET s == [g EXCEPT !.regulated = TRUE, !.period = RowPeriod]
  IN IF s.started THEN Unlock(SetTime(s, s.period)) ELSE TmStart(s)

(* rdr_mlf::process_eof: the next file, if there is one. *)
NextFile(m) ==
  IF m.nth < Len(Files)
  THEN [open |-> TRUE, reading |-> ~buffering, left |-> Files[m.nth + 1],
        nth |-> m.nth + 1]
  ELSE [m EXCEPT !.open = FALSE, !.reading = FALSE]

AfterEof(m) == IF ~m.open /\ gen.autoquit THEN "shutdown" ELSE life

EventStart ==
  LET m == IF mlf.open THEN mlf ELSE NextFile(mlf)
  IN /\ mlf' = [m EXCEPT !.reading = ~buffering]
     /\ life' = IF mlf.open THEN life ELSE AfterEof(m)

(* What a command that sets gen to g does to the file: TmStart, when it is
   called, ends in the start event. *)
SetGen(g) ==
  /\ gen' = g
  /\ everRegulated' = (everRegulated \/ g.regulated)

Started(g) ==
  IF ~gen.started /\ g.started THEN EventStart ELSE UNCHANGED <<mlf, life>>

Command(cmd) == InLoop /\ cmd \in Commands /\ ncmds < MaxCmds /\ ncmds' = ncmds + 1
Elsewhere == UNCHANGED <<queue, cur_tsp, t_stmp, todo, n_rows, read, conn, got>>
NoStep == UNCHANGED <<pc, single>>

(* rdr is started: -A and -a execute the command TMc first. *)
Autostart ==
  /\ pc = "start"
  /\ pc' = "loop"
  /\ IF gen.autostart THEN SetGen(TmStart(Lock(gen))) /\ EventStart
     ELSE UNCHANGED <<gen, everRegulated, mlf, life>>
  /\ Elsewhere /\ UNCHANGED <<single, ncmds>>

StartCmd ==
  /\ Command("c")
  /\ SetGen(TmStart(Lock(gen))) /\ EventStart
  /\ Elsewhere /\ NoStep

(* Mutant of StopCmd: the row timer is left running. *)
StopCmdTicking ==
  /\ Command("e")
  /\ SetGen(Event(Unlock([Lock(gen) EXCEPT !.started = FALSE])))
  /\ mlf' = [mlf EXCEPT !.reading = FALSE]
  /\ Elsewhere /\ NoStep /\ UNCHANGED life

StopCmd ==
  /\ Command("e")
  /\ SetGen(Event(SetTime(Unlock([Lock(gen) EXCEPT !.started = FALSE]), 0)))
  /\ mlf' = [mlf EXCEPT !.reading = FALSE]
  /\ Elsewhere /\ NoStep /\ UNCHANGED life

(* Single step: the first row goes out at once. *)
StepCmd ==
  LET g == [Lock(gen) EXCEPT !.regulated = TRUE]
      s == IF ~gen.started THEN TmStart([g EXCEPT !.period = 0])
           ELSE IF g.period # 0 THEN Unlock(SetTime([g EXCEPT !.period = 0], 0))
           ELSE Unlock(g)
  IN /\ Command("s")
     /\ SetGen(s) /\ Started(s)
     /\ pc' = "transmit" /\ single' = TRUE
     /\ Elsewhere

PlayCmd ==
  /\ Command(">")
  /\ SetGen(TmPlay(Lock(gen))) /\ Started(TmPlay(Lock(gen)))
  /\ Elsewhere /\ NoStep

(* Faster: two thirds of the period, and no regulation below the resolution
   of the timer, which is 1. *)
FasterCmd ==
  LET g == Lock(gen)
      faster == (g.period * 2) \div 3
      s == IF ~g.started \/ (g.regulated /\ g.period = 0) THEN TmPlay(g)
           ELSE IF ~g.regulated THEN Unlock(g)
           ELSE IF faster < 1
           THEN Event(Unlock(SetTime([g EXCEPT !.period = faster,
                                               !.regulated = FALSE], 0)))
           ELSE Unlock(SetTime([g EXCEPT !.period = faster], faster))
  IN /\ Command("+")
     /\ SetGen(s) /\ Started(s)
     /\ Elsewhere /\ NoStep

SlowerCmd ==
  LET g == Lock(gen)
      slower == (g.period * 3) \div 2
      s == IF ~g.started THEN TmPlay(g)
           ELSE Unlock(SetTime([g EXCEPT !.period = slower, !.regulated = TRUE],
                               slower))
  IN /\ Command("-")
     /\ slower <= MaxPeriod
     /\ SetGen(s) /\ Started(s)
     /\ Elsewhere /\ NoStep

FastForwardCmd ==
  LET g == SetTime([Lock(gen) EXCEPT !.regulated = FALSE], 0)
      s == IF g.started THEN Event(Unlock(g)) ELSE TmStart(g)
  IN /\ Command("}")
     /\ SetGen(s) /\ Started(s)
     /\ Elsewhere /\ NoStep

(* Quit, or the end of a command client: Reader::event takes the mutex twice. *)
QuitCmd ==
  /\ Command("q")
  /\ SetGen(Lock(SetTime(Lock(gen), 0)))
  /\ Elsewhere /\ NoStep /\ UNCHANGED <<mlf, life>>

-----------------------------------------------------------------------------
(* Reading. *)

(* The records a read gets whole: those at the front that fit ReadCap. *)
Whole(records) ==
  {n \in 0 .. Len(records) :
     FoldLeft(LAMBDA u, rec : u + RecordUnits(rec), 0, SubSeq(records, 1, n)) <= ReadCap}

ReadFile ==
  /\ InLoop /\ mlf.reading /\ mlf.open /\ mlf.left # <<>>
  /\ LET n == CHOOSE n \in Whole(mlf.left) : \A k \in Whole(mlf.left) : k <= n
     IN /\ todo' = SubSeq(mlf.left, 1, n)
        /\ mlf' = [mlf EXCEPT !.left = SubSeq(@, n + 1, Len(@))]
  /\ pc' = "data"
  /\ UNCHANGED <<gen, queue, cur_tsp, t_stmp, n_rows, read, single, conn, got,
                 life, ncmds, everRegulated>>

ReadEof ==
  /\ InLoop /\ mlf.reading /\ mlf.open /\ mlf.left = <<>>
  /\ mlf' = NextFile(mlf)
  /\ life' = AfterEof(NextFile(mlf))
  /\ UNCHANGED <<gen, queue, cur_tsp, t_stmp, todo, n_rows, read, pc, single,
                 conn, got, ncmds, everRegulated>>

InData == Alive /\ pc = "data"

(* process_tstamp: the one at the head of each file may be known already. *)
TstampIn ==
  /\ InData /\ n_rows = 0 /\ todo # <<>> /\ todo[1].kind = "tstamp"
  /\ todo' = Tail(todo)
  /\ IF todo[1].val = t_stmp THEN UNCHANGED <<q, nrefs, t_stmp>>
     ELSE /\ t_stmp' = todo[1].val
          /\ q' = CommitTstamp(q, nrefs + 1, todo[1].val, (read + 1) % CtrMod)
          /\ nrefs' = nrefs + 1
  /\ UNCHANGED <<gen, mem, cur_tsp, mlf, n_rows, read, pc, single, conn, got,
                 life, ncmds, everRegulated>>

DataIn ==
  /\ InData /\ n_rows = 0 /\ todo # <<>> /\ todo[1].kind = "data"
  /\ todo' = Tail(todo)
  /\ n_rows' = todo[1].val
  /\ UNCHANGED <<gen, queue, cur_tsp, mlf, t_stmp, read, pc, single, conn, got,
                 life, ncmds, everRegulated>>

(* One turn of the loop of process_data.  With regulation and no room in the
   queue the turn changes nothing. *)
Copy ==
  /\ InData /\ n_rows > 0
  /\ LET n == Lesser(AllocateRows(q), n_rows)
     IN IF n = 0 THEN UNCHANGED <<queue, n_rows, read>>
        ELSE /\ mem' = [s \in DOMAIN mem |->
                          IF s \in q.last .. q.last + n - 1
                          THEN read + 1 + s - q.last ELSE mem[s]]
             /\ q' = CommitRows(q, nrefs + 1,
                                [ctr |-> (read + 1) % CtrMod, row |-> 0], n)
             /\ nrefs' = nrefs + Len(q'.chain) - Len(q.chain)
             /\ n_rows' = n_rows - n
             /\ read' = read + n
  /\ IF gen.regulated THEN UNCHANGED <<pc, single>>
     ELSE pc' = "transmit" /\ single' = FALSE
  /\ UNCHANGED <<gen, cur_tsp, mlf, t_stmp, todo, conn, got, life, ncmds,
                 everRegulated>>

(* Mutant of EndRead: reading goes on whether tm_bfr keeps up or not. *)
EndReadOn ==
  /\ InData /\ n_rows = 0 /\ todo = <<>>
  /\ pc' = "loop"
  /\ UNCHANGED <<gen, queue, cur_tsp, mlf, t_stmp, todo, n_rows, read, single, conn,
                 got, life, ncmds, everRegulated>>

(* The end of rdr_mlf::protocol_input. *)
EndRead ==
  /\ InData /\ n_rows = 0 /\ todo = <<>>
  /\ mlf' = [mlf EXCEPT !.reading = ~buffering]
  /\ pc' = "loop"
  /\ UNCHANGED <<gen, queue, cur_tsp, t_stmp, todo, n_rows, read, single, conn,
                 got, life, ncmds, everRegulated>>

-----------------------------------------------------------------------------
(* transmit_data: a message, or a turn without one, at a time. *)

InTransmit == Alive /\ pc = "transmit"
Leave == pc' = IF single THEN "loop" ELSE "data"
Beside == UNCHANGED <<gen, t_stmp, todo, n_rows, read, mem, nrefs, single,
                      negotiated, got, ncmds, everRegulated>>

SendTstamp ==
  /\ InTransmit /\ q.chain # <<>> /\ q.chain[1].tsp # cur_tsp
  /\ cur_tsp' = q.chain[1].tsp
  /\ SendMsg(TstampMsg(q.chain[1].tsp))
  /\ UNCHANGED <<q, pc>> /\ Beside

(* The rows of the first tmq_ref, in two parts if they go round the ring. *)
RowsMsg(ref, n) ==
  LET Slots(from, k) == [i \in 1 .. k |-> [kind |-> "row", val |-> mem[from + i - 1]]]
      hdr == <<[kind |-> "hdr", of |-> "row", n |-> n]>>
      n1 == TotalQrows - ref.Qrow
  IN IF n <= n1 THEN <<hdr, Slots(ref.Qrow, n)>>
     ELSE <<hdr, Slots(ref.Qrow, n1), Slots(0, n - n1)>>

SendRows ==
  /\ InTransmit /\ q.chain # <<>> /\ q.chain[1].tsp = cur_tsp /\ q.chain[1].n_Qrows > 0
  /\ LET n == IF single THEN 1 ELSE q.chain[1].n_Qrows
     IN SendMsg(RowsMsg(q.chain[1], n)) /\ q' = RetireRows(q, n)
  /\ IF single THEN Leave ELSE UNCHANGED pc
  /\ UNCHANGED cur_tsp /\ Beside

SkipRef ==
  /\ InTransmit /\ q.chain # <<>> /\ q.chain[1].tsp = cur_tsp /\ q.chain[1].n_Qrows = 0
  /\ Len(q.chain) > 1
  /\ q' = RetireRows(q, 0)
  /\ UNCHANGED <<cur_tsp, pc, mlf, buffering, out, life>> /\ Beside

EndTransmit ==
  /\ InTransmit
  /\ q.chain # <<>> => q.chain[1].tsp = cur_tsp /\ q.chain[1].n_Qrows = 0 /\ Len(q.chain) = 1
  /\ Leave
  /\ UNCHANGED <<q, cur_tsp, mlf, buffering, out, life>> /\ Beside

(* The row timer: service_row_timer. *)
Tick ==
  /\ InLoop /\ gen.tmr > 0 /\ gen.regulated
  /\ pc' = "transmit" /\ single' = TRUE
  /\ UNCHANGED <<gen, queue, cur_tsp, input, conn, got, life, ncmds, everRegulated>>

-----------------------------------------------------------------------------
(* The connection to tm_bfr. *)

(* app_connected. *)
Negotiated ==
  /\ InLoop /\ ~negotiated
  /\ negotiated' = TRUE
  /\ SendMsg(InfoMsg)
  /\ UNCHANGED <<gen, queue, cur_tsp, t_stmp, todo, n_rows, read, pc, single, got,
                 ncmds, everRegulated>>

(* iwrite_check, when the socket takes more. *)
WriteMore ==
  /\ InLoop /\ out.pending # <<>> /\ Room(out) > 0
  /\ Buffering(PutOut(out))
  /\ UNCHANGED <<gen, queue, cur_tsp, t_stmp, todo, n_rows, read, pc, single,
                 negotiated, got, life, ncmds, everRegulated>>

(* tm_bfr reads. *)
BfrReads ==
  /\ out.sock # <<>>
  /\ got' = got \o out.sock
  /\ out' = [out EXCEPT !.sock = <<>>]
  /\ UNCHANGED <<gen, queue, cur_tsp, input, pc, single, negotiated, buffering,
                 life, ncmds, everRegulated>>

(* The loop ends, and with it the program, when a handler asked for it and
   Reader::ready_to_quit. *)
End ==
  /\ InLoop /\ life = "shutdown" /\ Ready
  /\ life' = "ended"
  /\ UNCHANGED <<gen, queue, cur_tsp, input, pc, single, conn, got, ncmds,
                 everRegulated>>

-----------------------------------------------------------------------------
Cmd == \/ StartCmd \/ StopCmd \/ StepCmd \/ PlayCmd
       \/ FasterCmd \/ SlowerCmd \/ FastForwardCmd \/ QuitCmd

(* Inside a handler. *)
Inner == \/ Autostart \/ TstampIn \/ DataIn \/ Copy \/ EndRead
         \/ SendTstamp \/ SendRows \/ SkipRef \/ EndTransmit

Next == \/ Cmd \/ Inner
        \/ ReadFile \/ ReadEof \/ Tick \/ Negotiated \/ WriteMore \/ End
        \/ BfrReads

(* One thread goes through every handler whose descriptor is ready each time
   round the loop (loop.cc:185-209): none that keeps having something to do is
   passed over for ever.  tm_bfr reads, and takes connections. *)
Spec == /\ Init /\ [][Next]_vars
        /\ WF_vars(Inner)
        /\ SF_vars(ReadFile \/ ReadEof) /\ SF_vars(WriteMore) /\ SF_vars(Negotiated)
        /\ SF_vars(Tick) /\ SF_vars(End) /\ WF_vars(BfrReads)

-----------------------------------------------------------------------------
TypeOK ==
  /\ q \in QueueType /\ mem \in [0 .. TotalQrows - 1 -> Nat]
  /\ gen.period \in 0 .. MaxPeriod /\ gen.tmr \in 0 .. MaxPeriod
  /\ mlf.nth \in 1 .. Len(Files) /\ n_rows \in Nat /\ read \in Nat
  /\ pc \in {"start", "loop", "data", "transmit"}
  /\ Len(out.sock) <= WireCap /\ out.wiov \in 0 .. 2
  /\ life \in {"running", "shutdown", "ended", "fatal"}

(* The commands hand the held mutex on from execute to tm_start and tm_play
   and to the events: between handlers it is free, and only Quit hangs on it
   (tm_gen.cc:193-282, rdr.cc:195-219). *)
MutexFree ==
  /\ InLoop => ~gen.mutex
  /\ gen.hung => gen.tmr = 0 /\ "q" \in Commands

TimerKept ==
  InLoop => gen.tmr = IF gen.started /\ gen.regulated THEN gen.period ELSE 0

(* The state is well typed, and the row timer runs just when rows leave at its
   pace: every command leaves it armed with the period if the generator is
   started and regulated, and stopped if not (tm_gen.cc:187-264, 297-325). *)
TimerRight == TypeOK /\ TimerKept

(* At full speed the output buffer never overflows: reading stops while it
   holds anything, and one read's worth of messages fits
   (interface.cc:161-163, rdr.cc:66-71). *)
NoOverflow == ~everRegulated => life # "fatal"

(* At full speed, -q ends the program after every row has been written: none
   is in the queue or in the output buffer (rdr.cc:86-90, 98-106). *)
EndsComplete ==
  life = "ended" /\ ~everRegulated =>
    Ready /\ todo = <<>> /\ n_rows = 0 /\ out.pending = <<>>

Played == ~mlf.open /\ Ready /\ pc = "loop" /\ out.pending = <<>>

(* Full speed playback that is started for good plays every file to the end,
   however slowly tm_bfr reads (rdr.cc:66-97, 195-219, 240-277). *)
AllPlayed ==
  ([](~gen.regulated /\ ~gen.hung) /\ <>[](gen.started)) => <>Played

(* A read is dealt with and the loop goes on (rdr.cc:240-271). *)
HandlersEnd == (Alive /\ pc = "data") ~> (~Alive \/ pc = "loop")

Stream == got \o out.sock \o out.pending

(* What tm_bfr gets is a sequence of whole messages, each the header and what
   it announces, however the writes are cut (interface.cc:150-171). *)
StreamWhole ==
  LET Covers(j, i) == /\ j < i /\ Stream[j].kind = "hdr" /\ i - j <= Stream[j].n
                      /\ Stream[j].of = Stream[i].kind
  IN \A i \in DOMAIN Stream :
       /\ Stream[i].kind # "hdr" => \E j \in DOMAIN Stream : Covers(j, i)
       /\ Stream[i].kind = "hdr" =>
            \A k \in 1 .. Stream[i].n :
              i + k \in DOMAIN Stream => Covers(i, i + k)

(* A stopped reader does not read (rdr.cc:202-204).  It does not hold: the
   write that empties the output buffer starts it (README). *)
StoppedReadsNothing == InLoop /\ ~gen.started => ~mlf.reading
=============================================================================
