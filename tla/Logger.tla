---------------------------------- MODULE Logger ----------------------------------
(***************************************************************************)
(* The data logger: tm_rcvr, which finds the records in the stream from    *)
(* tm_bfr (src/libs/dasio/src/tm_rcvr.cc), and lgr, which divides them     *)
(* among files that can be read each by itself (src/utils/lgr/lgr.cc).     *)
(*                                                                         *)
(* The stream is a sequence of units: the two bytes of TMHDR_WORD, a type, *)
(* the fields that follow it, a row.  A read may end behind any of them.   *)
(* Rows are numbered as MFCtr numbers them, as tmtype T3 has it.           *)
(***************************************************************************)
EXTENDS Integers, Sequences, FiniteSets, SequencesExt, FiniteSetsExt

CONSTANTS
  BufCap,    \* units the buffer takes (4095 bytes)
  MaxRows,   \* rows in a message
  RowSize,   \* nbQrow
  FileLimit, \* file_limit
  MaxUnits,  \* bound: units on their way
  MaxSent,   \* bound: rows sent
  MaxStamps  \* bound: time stamps sent

ASSUME LoggerAssumption ==
  /\ {BufCap, MaxRows, RowSize, FileLimit, MaxUnits, MaxSent, MaxStamps}
       \subseteq Nat \ {0}
  /\ BufCap >= MaxRows + 4 /\ MaxUnits >= MaxRows + 4

VARIABLES src,  \* what tm_bfr has sent, a record
          wire, \* units on their way
          rcvr, \* the receiver, a record
          files \* the files, a record

lgrvars == <<src, wire, rcvr, files>>

(* src.rows, src.stamps  rows and time stamps sent
   rcvr.life   "running"; "ended" by msg(MSG_FATAL); "lost" when cp points
               behind what the buffer holds
   rcvr.buf    the buffer, up to nc;  rcvr.state: tm_state;  rcvr.toread: in
               units;  rcvr.ready: tm_info_ready;  rcvr.stamp: tm_info.t_stmp
   rcvr.cut    the rows of messages whose header a read has cut in two
   files.open  whether there is a file;  files.size: nb_out
   files.stamp the last time stamp in the file, files.bare whether it is all
               there is
   files.log   what the files say of each row: its number, its time stamp and
               what stands in its place
   files.large whether a file of several rows is larger than file_limit *)
LgrInit ==
  /\ src = [rows |-> 0, stamps |-> 0]
  /\ wire = <<>>
  /\ rcvr = [life |-> "running", buf |-> <<>>, state |-> "hdr", toread |-> 3,
             ready |-> FALSE, stamp |-> 0, cut |-> {}]
  /\ files = [open |-> FALSE, size |-> 0, stamp |-> 0, bare |-> FALSE, log |-> <<>>,
              large |-> FALSE]

Field(kind, a, b) == [kind |-> kind, a |-> a, b |-> b]
Hdr(type) == <<Field("T", 0, 0), Field("M", 0, 0), Field(type, 0, 0)>>
Junk == Field("junk", 0, 0)

(* A row knows its number and the time stamp it belongs to. *)
RowUnits(first, n, stamp) == [i \in 1 .. n |-> Field("row", first + i - 1, stamp)]
-----------------------------------------------------------------------------
(* tm_bfr's read_reply: TMTYPE_INIT with the first time stamp, then rows and
   further time stamps. *)
OnWire(units) == Len(wire) + Len(units) <= MaxUnits /\ wire' = wire \o units

SendStamp ==
  /\ src.stamps < MaxStamps
  /\ OnWire(Hdr(IF src.stamps = 0 THEN "init" ELSE "tstamp")
            \o <<Field("stamp", src.stamps + 1, 0)>>)
  /\ src' = [src EXCEPT !.stamps = @ + 1]
  /\ UNCHANGED <<rcvr, files>>

SendRows ==
  /\ src.stamps > 0
  /\ \E n \in 1 .. MaxRows :
       /\ src.rows + n <= MaxSent
       /\ OnWire(Hdr("data") \o <<Field("n_rows", n, src.rows + 1)>>
                 \o RowUnits(src.rows + 1, n, src.stamps))
       /\ src' = [src EXCEPT !.rows = @ + n]
  /\ UNCHANGED <<rcvr, files>>
-----------------------------------------------------------------------------
(* lgr, on the files. *)

TsSize  == 10  \* sizeof(tm_hdr_t) + sizeof(tstamp_t)
HdrSize == 8   \* nbDataHdr

WriteTstamp(g, stamp) ==
  [g EXCEPT !.size = @ + TsSize, !.stamp = stamp, !.bare = g.size = 0]

NextFile(g, stamp) == WriteTstamp([g EXCEPT !.open = TRUE, !.size = 0], stamp)

ProcessTstamp(g, stamp) ==
  IF ~g.open \/ g.size + TsSize + HdrSize + RowSize > FileLimit
    THEN NextFile(g, stamp) ELSE WriteTstamp(g, stamp)

(* Mutant of RowsFit: the header of the rows is not counted. *)
RowsFitBare(g) ==
  LET room == FileLimit - g.size
      fit == IF room < 0 THEN 0 ELSE room \div RowSize
  IN IF fit < 1 /\ g.size = TsSize THEN 1 ELSE fit

(* The rows that fit, by a division that rounds towards zero. *)
RowsFit(g) ==
  LET room == FileLimit - g.size - HdrSize
      fit == IF room < 0 THEN 0 ELSE room \div RowSize
  IN IF fit < 1 /\ g.size = TsSize THEN 1 ELSE fit

WriteRows(g, first, rows) ==
  LET size == g.size + HdrSize + RowSize * Len(rows)
  IN [g EXCEPT !.size = size, !.bare = FALSE,
               !.large = @ \/ (size > FileLimit /\ ~(g.bare /\ Len(rows) = 1)),
               !.log = @ \o [i \in 1 .. Len(rows) |->
                               [num |-> first + i - 1, stamp |-> g.stamp, is |-> rows[i]]]]

(* Mutant of Divide: the number of the first row is not moved on. *)
DivideSameCounter(x, stamp) ==
  LET n == Min({RowsFit(x.files), Len(x.rows)})
      w == WriteRows(x.files, x.first, SubSeq(x.rows, 1, n))
  IN IF x.rows = <<>> THEN x
     ELSE IF RowsFit(x.files) < 1 THEN [x EXCEPT !.files = NextFile(@, stamp)]
     ELSE [files |-> IF n = Len(x.rows) THEN w ELSE NextFile(w, stamp),
           first |-> x.first, rows |-> SubSeq(x.rows, n + 1, Len(x.rows))]

(* One turn of the loop of process_data_t3: the rows from number first on are
   still to be written. *)
Divide(x, stamp) ==
  LET n == Min({RowsFit(x.files), Len(x.rows)})
      w == WriteRows(x.files, x.first, SubSeq(x.rows, 1, n))
  IN IF x.rows = <<>> THEN x
     ELSE IF RowsFit(x.files) < 1 THEN [x EXCEPT !.files = NextFile(@, stamp)]
     ELSE [files |-> IF n = Len(x.rows) THEN w ELSE NextFile(w, stamp),
           first |-> x.first + n, rows |-> SubSeq(x.rows, n + 1, Len(x.rows))]

(* process_data_t3: as many rows as fit, and the others in further files.  Only
   the first turn may write none. *)
ProcessData(g, stamp, first, rows) ==
  LET turns[n \in 0 .. Len(rows) + 1] ==
        IF n = 0 THEN [files |-> IF g.open THEN g ELSE NextFile(g, stamp),
                       first |-> first, rows |-> rows]
        ELSE Divide(turns[n - 1], stamp)
  IN turns[Len(rows) + 1].files
-----------------------------------------------------------------------------
(* tm_rcvr.  The message begins behind the first cp units of buf. *)

ExpectHdr(t) == [t EXCEPT !.state = "hdr", !.toread = 3]

UnitAt(t, i) == IF i <= Len(t.buf) THEN t.buf[i] ELSE Junk

(* Mutant of SeekTmid: a header that the read has cut is not looked for. *)
SeekTmidWhole(t, cp) ==
  LET found == {i \in cp + 2 .. Len(t.buf) :
                  t.buf[i].kind = "T" /\ UnitAt(t, i + 1).kind = "M"}
  IN IF found = {} THEN ExpectHdr([t EXCEPT !.buf = <<>>])
     ELSE ExpectHdr([t EXCEPT !.buf = SubSeq(@, Min(found), Len(@))])

(* The next header, or the first byte of one at the end: of the buffer when cp
   is zero, elsewhere when it is not.  Without one everything is discarded and
   cp is left where it was. *)
SeekTmid(t, cp) ==
  LET found == {i \in cp + 2 .. Len(t.buf) :
                  /\ t.buf[i].kind = "T"
                  /\ i = Len(t.buf) - cp \/ UnitAt(t, i + 1).kind = "M"}
  IN IF found # {}
       THEN ExpectHdr([t EXCEPT !.buf = SubSeq(@, Min(found), Len(@))])
     ELSE ExpectHdr([t EXCEPT !.buf = <<>>,
                              !.life = IF cp > 0 THEN "lost" ELSE @])

(* TM_STATE_HDR: what the type says of the length.  n_rows is looked at whether
   it has come or not; if not, something else stands there. *)
Expect(t, cp, stale) ==
  LET type == t.buf[cp + 3].kind
      n == IF type # "data" THEN 0
           ELSE IF cp + 4 <= Len(t.buf) THEN t.buf[cp + 4].a ELSE stale
      known == IF type = "init" THEN ~t.ready ELSE t.ready
  IN IF known /\ 4 + n <= BufCap THEN [t EXCEPT !.state = "data", !.toread = 4 + n]
     ELSE [t EXCEPT !.life = "ended"]

(* TM_STATE_DATA: process_init, process_tstamp, process_data.  A record that was
   taken for shorter than it is is handled with the n_rows it has by now. *)
Handle(x) ==
  LET t == x.rcvr
      type == t.buf[x.cp + 3].kind
      fields == t.buf[x.cp + 4]
      rows == [i \in 1 .. fields.a |-> UnitAt(t, x.cp + 4 + i)]
  IN [x EXCEPT !.cp = @ + t.toread,
               !.rcvr = ExpectHdr([t EXCEPT !.ready = TRUE,
                                     !.stamp = IF type = "data" THEN @ ELSE fields.a]),
               !.files = CASE type = "tstamp" -> ProcessTstamp(@, fields.a)
                           [] type = "data"   -> ProcessData(@, t.stamp, fields.b, rows)
                           [] OTHER           -> @]

Types == {"init", "tstamp", "data"}

(* One turn of the loop of process_message, which seek_tmid ends. *)
Round(x, stale) ==
  LET t == x.rcvr
  IN IF x.over \/ t.life # "running" \/ Len(t.buf) - x.cp < t.toread THEN x
     ELSE IF t.state = "data" THEN Handle(x)
     ELSE IF t.buf[x.cp + 3].kind \in Types
       THEN [x EXCEPT !.rcvr = Expect(t, x.cp, stale)]
     ELSE [x EXCEPT !.rcvr = SeekTmid(t, x.cp), !.cp = 0, !.over = TRUE]

(* process_message.  A message takes two turns and has four units.  What was not
   consumed stays. *)
Messages(t, g, stale) ==
  LET turns[n \in 0 .. Len(t.buf)] ==
        IF n = 0 THEN [rcvr |-> t, files |-> g, cp |-> 0, over |-> FALSE]
        ELSE Round(turns[n - 1], stale)
      x == turns[Len(t.buf)]
  IN [x EXCEPT !.rcvr.buf = SubSeq(@, x.cp + 1, Len(@))]

(* At the beginning, and only there, TMHDR_WORD is looked for. *)
ProcessMessage(t, g, stale) ==
  IF Len(t.buf) >= t.toread /\ (t.buf[1].kind # "T" \/ t.buf[2].kind # "M")
    THEN Messages(SeekTmid(t, 0), g, stale)
    ELSE Messages(t, g, stale)

(* The rows of a message of which n units of wire are just the header. *)
CutAt(n) ==
  IF n < Len(wire) /\ wire[n].kind = "data"
    THEN {wire[n + 1].b + i : i \in 0 .. wire[n + 1].a - 1} ELSE {}

(* What stands in the place of n_rows that has not come: its low byte is the 0
   put behind what was read, the other is left from before. *)
Stale == {0, BufCap}

(* A read brings some of what has come, as far as the buffer has room. *)
LgrRead ==
  /\ rcvr.life = "running"
  /\ \E n \in 1 .. Min({Len(wire), BufCap - Len(rcvr.buf)}), stale \in Stale :
       /\ LET x == ProcessMessage([rcvr EXCEPT !.buf = @ \o SubSeq(wire, 1, n),
                                              !.cut = @ \cup CutAt(n)], files, stale)
          IN rcvr' = x.rcvr /\ files' = x.files
       /\ wire' = SubSeq(wire, n + 1, Len(wire))
  /\ UNCHANGED src

LgrNext == SendStamp \/ SendRows \/ LgrRead

LgrSpec == LgrInit /\ [][LgrNext]_lgrvars
-----------------------------------------------------------------------------
LgrTypeOK ==
  /\ rcvr.life \in {"running", "ended", "lost"} /\ rcvr.state \in {"hdr", "data"}
  /\ rcvr.toread \in 3 .. BufCap + 4 /\ Len(rcvr.buf) <= BufCap
  /\ rcvr.stamp \in 0 .. MaxStamps /\ rcvr.cut \subseteq 1 .. MaxSent
  /\ src.rows <= MaxSent /\ src.stamps <= MaxStamps /\ files.size \in Nat

Right(e) == e.is = Field("row", e.num, e.stamp)

(* The files say of every row what tm_bfr sent, under its number and its time
   stamp, once and in order, however the stream is cut into reads and the rows
   are divided among files: but for the rows of messages of which a read had
   brought the four bytes of the header and no more, none is wrong, doubled or
   passed over, and when the stream is empty none waits in the buffer, unless it
   came behind such a message (tm_rcvr.cc:34-109, 148-176; lgr.cc:55-127). *)
DamageContained ==
  LET logged == {files.log[i].num : i \in 1 .. Len(files.log)}
      behind == IF rcvr.cut = {} THEN {}
                ELSE {u.a : u \in {u \in ToSet(rcvr.buf) : u.kind = "row"}}
      idle == rcvr.life = "running" /\ wire = <<>>
  IN /\ \A i \in 1 .. Len(files.log) :
          Right(files.log[i]) \/ files.log[i].num \in rcvr.cut
     /\ \A i, j \in 1 .. Len(files.log) :
          i < j => files.log[i].num < files.log[j].num
     /\ \A num \in logged : 1 .. num \subseteq logged \cup rcvr.cut
     /\ idle => 1 .. src.rows \subseteq logged \cup rcvr.cut \cup behind

(* A file stays within file_limit, unless it has a single row after its time
   stamp, and begins with a time stamp (lgr.cc:60-71, 98-127). *)
FilesBounded == ~files.large /\ (files.open => files.size >= TsSize)

(* Every row is logged as it was sent: toread is the "number of bytes needed
   before next action" (dasio/tm_rcvr.h:42).  The code does not keep to it. *)
LoggedAsSent == \A i \in 1 .. Len(files.log) : Right(files.log[i])
=============================================================================
