------------------------------- MODULE Datum --------------------------------
(***************************************************************************)
(* One datum of the telemetry: the driver that sends it (TM_data_sndr, a   *)
(* Client of src/libs/dasio/src) and the collector that receives it        *)
(* (TM_data_rcvr, tm_data_rcvr.cc).  The driver connects, is authenticated *)
(* and sends a frame at once and one for every newlines it reads; the      *)
(* collector writes a newline each time it synchronizes.                   *)
(*                                                                         *)
(* The connection is a Unix socket: a write goes in whole or not at all,   *)
(* and one that is closed while it holds something unread is reset.  A     *)
(* write to a socket whose other end is closed raises SIGPIPE, which       *)
(* nothing catches.  Frames are sequences of units, which carry the number *)
(* of their frame.                                                         *)
(***************************************************************************)
EXTENDS Naturals, Sequences, FiniteSets, SequencesExt, FiniteSetsExt

CONSTANTS
  Size,      \* units of a frame: def->size
  RdCap,     \* units the receiver's buffer takes (127 bytes)
  WireCap,   \* units, and newlines, a socket takes
  MaxConns,  \* bound: connections made
  MaxSynchs, \* bound: synchronizations
  MaxStarts  \* bound: times each of the two programs is started

DatumAssumption ==
  /\ {Size, RdCap, WireCap, MaxStarts} \subseteq Nat \ {0}
  /\ Size <= RdCap /\ Size <= WireCap
  /\ {MaxConns, MaxSynchs} \subseteq Nat

VARIABLES drv,     \* the driver, a record
          col,     \* the collector, a record
          conns   \* the connections, in the order they were made

datavars == <<drv, col, conns>>

(* drv.life   "running", "ended" by its loop, "failed" by an assertion or SIGPIPE
   drv.sock   socket_state: "disconnected", "connecting" or "connected";  drv.to:
              whether a timeout is set for the next attempt
   drv.clt    clt_state;  drv.out: whether a frame waits to be written
   drv.conn   its connection, the last one made;  drv.frames, drv.starts: counts
   col.life   as drv.life;  col.owner: the connection of def->interface, 0 for none
   col.data   def->data, the frame as received;  col.buf: what its buffer holds
   col.out    whether a newline waits to be written;  col.stale: stale_count *)
DataInit ==
  /\ drv = [life |-> "running", sock |-> "disconnected", to |-> TRUE, clt |-> "connecting",
            out |-> FALSE, conn |-> 0, frames |-> 0, starts |-> 1]
  /\ col = [life |-> "ended", owner |-> 0, data |-> <<>>, buf |-> <<>>,
            out |-> FALSE, stale |-> 0, synchs |-> 0, starts |-> 0]
  /\ conns = <<>>

(* up      units on their way to the collector;  dn: "ok" and newlines back
   s, g    whether the two ends are open
   serves  what the collector has for it: "queue", "auth", "rcvr" or "none" *)
NewConn == [up |-> <<>>, dn |-> <<>>, s |-> TRUE, g |-> TRUE, serves |-> "queue"]

Frame(n) == [i \in 1 .. Size |-> <<n, i>>]
DataAuth == <<<<0, 0>>>>

Mine == conns[drv.conn]
-----------------------------------------------------------------------------
(* The driver. *)

(* Mutant of Reset: no timeout is set. *)
ResetForGood(t) == [t EXCEPT !.sock = "disconnected", !.to = FALSE,
                             !.clt = IF @ = "negotiated" THEN "connecting" ELSE "failed"]

(* Client::close and Socket::reset: a timeout is set for another attempt. *)
Reset(t) == [t EXCEPT !.sock = "disconnected", !.to = TRUE,
                      !.clt = IF @ = "negotiated" THEN "connecting" ELSE "failed"]

(* iwrite(data): the assertion that nothing waits, the write, and what waits
   after it.  The frame is written as the datum is when the write succeeds. *)
Writes(t, c, units) ==
  IF ~conns[c].g THEN [life |-> "failed", sent |-> FALSE]
  ELSE [life |-> t.life, sent |-> Len(conns[c].up) + Len(units) <= WireCap]

DataSend(t, c) ==
  IF t.out THEN [t EXCEPT !.life = "failed"]
  ELSE LET w == Writes(t, c, Frame(1))
       IN [t EXCEPT !.life = w.life, !.out = ~w.sent,
                    !.frames = IF w.sent THEN @ + 1 ELSE @]

(* connect, first when the program starts and then when the timeout expires. *)
DataConnect ==
  /\ drv.life = "running" /\ drv.sock = "disconnected" /\ drv.to
  /\ Len(conns) < MaxConns
  /\ IF col.life = "running"
       THEN /\ conns' = Append(conns, NewConn)
            /\ drv' = [drv EXCEPT !.sock = "connecting", !.to = FALSE,
                              !.conn = Len(conns) + 1]
       ELSE /\ drv' = Reset(drv)
            /\ UNCHANGED conns
  /\ UNCHANGED col

(* ProcessData finds the socket writable: Client::connected. *)
DataConnected ==
  /\ drv.life = "running" /\ drv.sock = "connecting"
  /\ LET w == Writes(drv, drv.conn, DataAuth)
     IN /\ drv' = IF drv.out THEN [drv EXCEPT !.life = "failed"]
                  ELSE [drv EXCEPT !.life = w.life, !.sock = "connected",
                                   !.clt = "negotiating"]
        /\ conns' = IF ~drv.out /\ w.sent
                      THEN [conns EXCEPT ![drv.conn].up = DataAuth] ELSE conns
  /\ UNCHANGED col

(* Everything that has come is read, and consumed, at once. *)
DriverInput ==
  /\ drv.life = "running" /\ drv.sock = "connected" /\ Mine.dn # <<>>
  /\ drv' = [DataSend(drv, drv.conn) EXCEPT !.clt = "negotiated"]
  /\ conns' = [conns EXCEPT ![drv.conn].dn = <<>>,
                            ![drv.conn].up = IF drv'.frames > drv.frames
                                               THEN @ \o Frame(drv'.frames) ELSE @]
  /\ UNCHANGED col

(* The end of the input ends the driver, a reset makes it connect again. *)
DriverEof ==
  /\ drv.life = "running" /\ drv.sock = "connected" /\ Mine.dn = <<>> /\ ~Mine.g
  /\ drv' = IF Mine.up # <<>> THEN Reset(drv) ELSE [drv EXCEPT !.life = "ended"]
  /\ conns' = [conns EXCEPT ![drv.conn].s = FALSE]
  /\ UNCHANGED col

DriverWrite ==
  /\ drv.life = "running" /\ drv.sock = "connected" /\ drv.out
  /\ Mine.g => Len(Mine.up) + Size <= WireCap
  /\ drv' = IF Mine.g THEN [drv EXCEPT !.out = FALSE, !.frames = @ + 1]
            ELSE [drv EXCEPT !.life = "failed"]
  /\ conns' = IF Mine.g
                THEN [conns EXCEPT ![drv.conn].up = @ \o Frame(drv'.frames)] ELSE conns
  /\ UNCHANGED col
-----------------------------------------------------------------------------
(* The collector. *)

DataAccept ==
  /\ col.life = "running"
  /\ \E c \in 1 .. Len(conns) :
       /\ conns[c].serves = "queue"
       /\ conns' = [conns EXCEPT ![c].serves = "auth"]
  /\ UNCHANGED <<drv, col>>

(* Authenticator::protocol_input and new_tm_data_rcvr: a datum has one owner,
   and another connection for it is closed. *)
DataAuthenticate ==
  /\ col.life = "running"
  /\ \E c \in 1 .. Len(conns) :
       /\ conns[c].serves = "auth" /\ conns[c].up # <<>>
       /\ LET d == [conns[c] EXCEPT !.up = <<>>]
          IN IF col.owner # 0
               THEN /\ conns' = [conns EXCEPT ![c] = [d EXCEPT !.serves = "none",
                                                               !.g = FALSE]]
                    /\ UNCHANGED col
             ELSE IF ~d.s
               THEN col' = [col EXCEPT !.life = "failed"] /\ UNCHANGED conns
             ELSE /\ col' = [col EXCEPT !.owner = c, !.buf = <<>>, !.out = FALSE]
                  /\ conns' = [conns EXCEPT ![c] = [d EXCEPT !.serves = "rcvr",
                                                             !.dn = <<"ok">>]]
  /\ UNCHANGED drv

(* Mutant of Received: of too much input the first frame is taken. *)
ReceivedFirst(buf) ==
  IF Len(buf) < Size THEN [col EXCEPT !.buf = buf]
  ELSE [col EXCEPT !.data = SubSeq(buf, 1, Size), !.stale = 0, !.buf = <<>>]

(* TM_data_rcvr::protocol_input. *)
Received(buf) ==
  IF Len(buf) < Size THEN [col EXCEPT !.buf = buf]
  ELSE IF Len(buf) > Size THEN [col EXCEPT !.buf = <<>>]
  ELSE [col EXCEPT !.data = buf, !.stale = 0, !.buf = <<>>]

CollectorInput ==
  /\ col.life = "running" /\ col.owner # 0 /\ conns[col.owner].up # <<>>
  /\ LET up == conns[col.owner].up
         n == Min({RdCap - Len(col.buf), Len(up)})
     IN /\ col' = Received(col.buf \o SubSeq(up, 1, n))
        /\ conns' = [conns EXCEPT ![col.owner].up = SubSeq(up, n + 1, Len(up))]
  /\ UNCHANGED drv

(* The end of the input, or a reset: close gives the datum up. *)
CollectorEof ==
  /\ col.life = "running"
  /\ \E c \in 1 .. Len(conns) :
       /\ conns[c].serves \in {"auth", "rcvr"} /\ conns[c].up = <<>> /\ ~conns[c].s
       /\ col' = IF col.owner = c THEN [col EXCEPT !.owner = 0, !.out = FALSE] ELSE col
       /\ conns' = [conns EXCEPT ![c].serves = "none", ![c].g = FALSE]
  /\ UNCHANGED drv

(* TM_data_rcvr_def::synch: another newline, whether the last is out or not. *)
Synch ==
  /\ col.life = "running" /\ col.synchs < MaxSynchs
  /\ LET t == [col EXCEPT !.stale = @ + 1, !.synchs = @ + 1]
         c == conns[col.owner]
         fits == Len(c.dn) < WireCap
     IN IF col.owner = 0 THEN col' = t /\ UNCHANGED conns
        ELSE IF col.out \/ ~c.s
          THEN col' = [t EXCEPT !.life = "failed"] /\ UNCHANGED conns
        ELSE /\ col' = [t EXCEPT !.out = ~fits]
             /\ conns' = IF fits THEN [conns EXCEPT ![col.owner].dn = Append(@, "nl")]
                         ELSE conns
  /\ UNCHANGED drv

CollectorWrite ==
  /\ col.life = "running" /\ col.owner # 0 /\ col.out
  /\ LET c == conns[col.owner]
     IN /\ c.s => Len(c.dn) < WireCap
        /\ col' = IF c.s THEN [col EXCEPT !.out = FALSE] ELSE [col EXCEPT !.life = "failed"]
        /\ conns' = IF c.s THEN [conns EXCEPT ![col.owner].dn = Append(@, "nl")]
                    ELSE conns
  /\ UNCHANGED drv
-----------------------------------------------------------------------------
(* Programs end at any time and are started again; their sockets close. *)

DriverStops ==
  /\ \/ drv.life = "running" /\ drv.starts < MaxStarts
        /\ drv' = [drv EXCEPT !.life = "ended"]
     \/ /\ drv.life # "running" /\ drv.starts < MaxStarts
        /\ drv' = [life |-> "running", sock |-> "disconnected", to |-> TRUE, clt |-> "connecting",
                   out |-> FALSE, conn |-> drv.conn, frames |-> drv.frames,
                   starts |-> drv.starts + 1]
  /\ conns' = [c \in 1 .. Len(conns) |-> [conns[c] EXCEPT !.s = FALSE]]
  /\ UNCHANGED col

CollectorStops ==
  /\ col.starts < MaxStarts
  /\ col' = [col EXCEPT !.life = IF col.life = "running" THEN "ended" ELSE "running",
                        !.starts = IF col.life = "running" THEN @ ELSE @ + 1,
                        !.owner = 0, !.buf = <<>>, !.out = FALSE]
  /\ conns' = [c \in 1 .. Len(conns) |-> [conns[c] EXCEPT !.g = FALSE,
                                                          !.serves = "none"]]
  /\ UNCHANGED drv

Driver == DataConnect \/ DataConnected \/ DriverInput \/ DriverEof \/ DriverWrite
Collector == DataAccept \/ DataAuthenticate \/ CollectorInput \/ CollectorEof \/ CollectorWrite

DataNext == Driver \/ Collector \/ Synch \/ DriverStops \/ CollectorStops

DataFairness == WF_datavars(Driver) /\ WF_datavars(Collector)

DataSpec == DataInit /\ [][DataNext]_datavars /\ DataFairness
-----------------------------------------------------------------------------
DataTypeOK ==
  /\ drv.life \in {"running", "ended", "failed"} /\ col.life \in {"running", "ended", "failed"}
  /\ drv.sock \in {"disconnected", "connecting", "connected"}
  /\ drv.clt \in {"connecting", "negotiating", "negotiated", "failed"}
  /\ drv.conn \in 0 .. Len(conns) /\ col.owner \in 0 .. Len(conns)
  /\ Len(col.buf) < Size /\ Len(col.data) \in {0, Size}
  /\ \A c \in 1 .. Len(conns) :
       Len(conns[c].up) <= WireCap /\ Len(conns[c].dn) <= WireCap

(* What the collector has of the datum is one frame, whole: frames that come
   too fast, are cut by the buffer, or were begun before the driver went away
   leave no part of themselves in front of the next (tm_data_rcvr.cc:37-47). *)
DataWhole == col.data # <<>> => \E n \in 1 .. drv.frames : col.data = Frame(n)

(* While both programs run the driver gets its connection, and keeps it: after
   failed attempts and resets, and whatever it found waiting
   (socket.cc:230-280, 346-382; client.cc:15-31, 48-62). *)
Reconnects ==
  <>[](drv.life = "running" /\ col.life = "running" /\ Len(conns) < MaxConns)
    => <>[](drv.clt = "negotiated")
=============================================================================
