------------------------------- MODULE CanBus -------------------------------
(***************************************************************************)
(* The server of the subbus on a CAN bus (subbusd_CAN_interface.cc,        *)
(* subbusd_CAN.cc), built with a CAN socket or with a serial adapter       *)
(* (SLCAN).  A client's request is one part, or the parts of a multiple    *)
(* read, each asked for when the one before is done.  A part goes to a     *)
(* board in frames that carry a request number, and the board answers in   *)
(* frames with that number.                                                *)
(*                                                                         *)
(* One event loop: a handler is one action.  The clients are those of      *)
(* SerUsb (subbusd.cc serves both) and stay.  A line of the adapter is     *)
(* read whole.  The words of a reply are the frames they came in.          *)
(* Ill-formed requests, CAN error frames and replies of a wrong length are *)
(* answered or dropped in place.                                           *)
(***************************************************************************)
EXTENDS Subbus, Naturals, Sequences, FiniteSets, SequencesExt, Lists

CONSTANTS
  Plans,   \* requests: sequences of parts, the frames each takes out and in
  Links,   \* "socket" for CAN_socket, "slcan" for CAN_serial
  Ids,     \* request numbers a CAN ID has room for (64)
  Refuses, \* how the socket may refuse a frame: "blocked", "failed"
  Lossy,   \* whether frames of a reply, or the adapter's, may be lost
  MaxOpens \* bound: how often the adapter is asked to open the bus

CanAssumption ==
  /\ Plans \subseteq Seq([out : Nat \ {0}, in : Nat \ {0}]) \ {<<>>}
  /\ Links \subseteq {"socket", "slcan"}
  /\ Ids \in Nat \ {0} /\ Refuses \subseteq {"blocked", "failed"}
  /\ Lossy \in BOOLEAN /\ {MaxRequests, MaxOpens} \subseteq Nat

VARIABLES q,       \* the server, a record (below)
          replies, \* frames from the boards that have not been read
          spoilt   \* history: the clock of a request was stopped for good

(* q.link       what the server was built with
   q.mode       slcan_state: "init", "retry" or "operate"
   q.clt        each client: "idle" when Fl_Read is on, else "waits"
   q.todo       the parts of its request that are not asked for yet
   q.parts      what the parts done came to: how, and the frames they came in
   q.reqs       the list, the first one at the board if q.pending
   q.pending    request_pending, of the socket
   q.processing request_processing, of CAN_interface
   q.no         req_no, and q.frm the number in reqfrm
   q.got        the frames of the reply so far (rep_seq_no, rep_recd)
   q.armed      TO, and Fl_Timeout with it: "clear", "set", or "over" while a
                handler is run because its time is over
   q.buf        what is read and not consumed
   q.bus        frames the socket has taken and the boards have not
   q.asked      history: how many parts were asked for, and q.planned how
                many the requests have; q.opens how often Opening went out
   q.log        history: the replies to each client                        *)
canVars == <<q, replies, spoilt>>

(* The adapter is asked to open the bus; nothing else is out. *)
Opening == [no |-> Ids, last |-> TRUE, req |-> 0, in |-> 1]

CanInit ==
  /\ \E link \in Links :
       q = [link |-> link, mode |-> IF link = "slcan" THEN "init" ELSE "operate",
            clt |-> [c \in Clients |-> "idle"], todo |-> [c \in Clients |-> <<>>],
            parts |-> [c \in Clients |-> <<>>], reqs |-> <<>>, pending |-> FALSE,
            processing |-> FALSE, no |-> 0, frm |-> 0, got |-> <<>>, buf |-> <<>>,
            armed |-> IF link = "slcan" THEN "set" ELSE "clear",
            bus |-> IF link = "slcan" THEN <<Opening>> ELSE <<>>,
            asked |-> 0, planned |-> 0, opens |-> 1, log |-> [c \in Clients |-> <<>>]]
  /\ replies = <<>>
  /\ spoilt = FALSE

-----------------------------------------------------------------------------
(* The list of requests.                                                   *)

(* Mutant of Enqueue: the part of a multiple read goes before the others. *)
EnqueueFirst(s, c) ==
  [s EXCEPT !.asked = @ + 1, !.todo[c] = Tail(@),
            !.reqs = <<[id |-> s.asked + 1, clt |-> c, part |-> Head(s.todo[c])]>> \o @]

(* enqueue_request of a client's next part, without process_requests. *)
Enqueue(s, c) ==
  [s EXCEPT !.asked = @ + 1, !.todo[c] = Tail(@),
            !.reqs = Append(@, [id |-> s.asked + 1, clt |-> c, part |-> Head(s.todo[c])])]

(* request_complete: a multiple read goes on to its next part; at its end, and
   at an error, the client gets its reply, with the status of the last part. *)
RequestComplete(s, c, how) ==
  IF how # "error" /\ s.todo[c] # <<>> THEN Enqueue(s, c)
  ELSE [s EXCEPT !.clt[c] = "idle", !.todo[c] = <<>>,
                 !.log[c] = Append(@, [how |-> how, parts |-> s.parts[c]])]

(* The first request is done; request_pending goes with it. *)
CanComplete(s, how) ==
  LET req == Head(s.reqs)
  IN [RequestComplete([s EXCEPT !.reqs = Tail(@),
                                !.parts[req.clt] = Append(@, [id |-> req.id, how |-> how,
                                                              got |-> s.got])],
                      req.clt, how)
        EXCEPT !.pending = FALSE]

(* What becomes of the frames of a part of n: the socket takes all, or some of
   them and refuses the next. *)
Fates(n) == {[taken |-> n, then |-> "taken"]}
            \cup [taken : 0 .. n - 1, then : Refuses]

Frames(s, req, n) ==
  [k \in 1 .. n |-> [no |-> s.no % Ids, last |-> k = req.part.out, req |-> req.id,
                     in |-> req.part.in]]

(* Mutant of SendRequest: the timeout waits for ProcessData, as it does in the
   server on a serial board. *)
SendUntimed(s, fate) ==
  LET req == Head(s.reqs)
  IN [s EXCEPT !.bus = @ \o Frames(s, req, req.part.out), !.frm = s.no % Ids,
               !.got = <<>>, !.no = @ + 1, !.pending = TRUE]

(* The first request goes out, frame by frame; the last one makes it pending
   and takes the number.  A frame that would block ends the request; after one
   that fails, the server never gets here again. *)
SendRequest(s, fate) ==
  LET req   == Head(s.reqs)
      all   == fate.then = "taken"
      final == fate.taken + 1 >= req.part.out
      out   == [s EXCEPT !.bus = @ \o Frames(s, req, fate.taken), !.frm = s.no % Ids,
                         !.got = <<>>, !.no = IF final THEN @ + 1 ELSE @,
                         !.pending = final]
  IN IF all THEN [out EXCEPT !.armed = "set"]
     ELSE IF fate.then = "failed" THEN [out EXCEPT !.processing = TRUE]
     ELSE CanComplete(out, "noack")

(* process_requests at the end of a handler; a frame that is refused is noted. *)
CanProcessRequests(s) ==
  IF s.pending \/ s.processing \/ s.reqs = <<>> THEN q' = s /\ UNCHANGED spoilt
  ELSE \E fate \in Fates(Head(s.reqs).part.out) :
         /\ q' = SendRequest(s, fate)
         /\ spoilt' = (spoilt \/ fate.then # "taken")

-----------------------------------------------------------------------------
(* A client asks: protocol_input, incoming_sbreq and enqueue_request. *)
CanRequest(c, plan) ==
  /\ q.clt[c] = "idle"
  /\ q.planned + Len(plan) <= MaxRequests
  /\ CanProcessRequests(Enqueue([q EXCEPT !.clt[c] = "waits", !.todo[c] = plan, !.parts[c] = <<>>,
                                  !.planned = @ + Len(plan)], c))
  /\ UNCHANGED replies

(* Mutant of CanMatches: the request number is not compared. *)
MatchesBoard(s, f) == TRUE

(* A frame of the reply has the board, which is one here, and the number of
   the request at the bus. *)
CanMatches(s, f) == f.no = s.frm

(* The next frame of the reply is known by its sequence number. *)
Accept(s, f) == f.kind = "data" /\ f.seq = Len(s.got)

(* The frame is put to the reply.  The socket is not timed any more, the
   adapter is timed anew. *)
Received(s, f) ==
  LET t == [s EXCEPT !.got = Append(@, f), !.armed = "clear"]
  IN IF Len(t.got) = f.of THEN CanComplete(t, "ack")
     ELSE [t EXCEPT !.armed = IF s.link = "slcan" THEN "set" ELSE "clear"]

(* protocol_input of either, with the first frame that is read: one for which
   no request waits, with another ID or out of its turn is dropped, with what
   follows it but in the second case. *)
CanInput(s) ==
  LET f   == Head(s.buf)
      all == [s EXCEPT !.buf = <<>>]
      one == [s EXCEPT !.buf = Tail(@)]
  IN IF s.mode # "operate" THEN [all EXCEPT !.armed = "clear", !.mode = "operate"]
     ELSE IF ~s.pending \/ f.kind = "opened" THEN all
     ELSE IF ~CanMatches(s, f) THEN one
     ELSE IF f.kind \in {"noack", "error"} THEN CanComplete([all EXCEPT !.armed = "clear"], f.kind)
     ELSE IF Accept(s, f) THEN Received(one, f)
     ELSE all

(* A handler that has had input from s to t goes on to the next request when
   one is done.  The clock is stopped for good by the first of several frames
   of a socket, when the rest is lost, and by the adapter's opening line. *)
HandledInput(s, t) ==
  IF s.pending /\ ~t.pending THEN CanProcessRequests(t)
  ELSE /\ q' = t
       /\ spoilt' = (spoilt \/ (s.pending /\ s.mode # "operate"))

(* The socket gives one frame at a time, the port all the lines there are. *)
Read(n) ==
  /\ n \in 1 .. Len(replies)
  /\ q.link = "socket" => n = 1
  /\ replies' = SubSeq(replies, n + 1, Len(replies))
  /\ \E s \in {[q EXCEPT !.buf = @ \o SubSeq(replies, 1, n)]} :
       \E t \in {CanInput(s)} : HandledInput(s, t)

(* protocol_timeout: the request gets zeros for what has not come; an adapter
   that does not open the bus is asked again. *)
Expired(s) ==
  LET t == [s EXCEPT !.buf = <<>>, !.armed = "clear"]
  IN IF s.pending THEN CanProcessRequests(CanComplete(t, "noack"))
     ELSE /\ s.mode = "retry" => s.opens < MaxOpens
          /\ q' = CASE s.mode = "init"  -> [t EXCEPT !.mode = "retry", !.armed = "set"]
                    [] s.mode = "retry" -> [t EXCEPT !.mode = "init", !.armed = "set",
                                       !.bus = Append(@, Opening), !.opens = @ + 1]
                    [] OTHER            -> [s EXCEPT !.armed = "clear"]
          /\ UNCHANGED spoilt

(* ProcessData when the time is over: first what has been read and is left. *)
CanTimeout ==
  /\ q.armed = "set"
  /\ \E s \in {[q EXCEPT !.armed = "over"]} :
       \E t \in {IF s.buf = <<>> THEN s ELSE CanInput(s)} :
         IF t.armed # "over" THEN HandledInput(s, t) ELSE Expired(t)
  /\ UNCHANGED replies

(* A board takes a frame; after the last one of a request it answers, with any
   frames of the answer lost, after any delay.  The adapter answers that the
   bus is open. *)
CanBoard ==
  /\ q.bus # <<>>
  /\ LET f == Head(q.bus)
         Reply(kind, seq) == [no |-> f.no, kind |-> kind, seq |-> seq,
                              of |-> f.in, from |-> f.req]
         data == [k \in 1 .. f.in |-> Reply("data", k - 1)]
     IN \/ /\ ~f.last \/ (f = Opening /\ Lossy)
           /\ UNCHANGED <<replies, spoilt>>
        \/ /\ f = Opening
           /\ replies' = Append(replies, Reply("opened", 0))
           /\ UNCHANGED spoilt
        \/ /\ f.last /\ f # Opening
           /\ \E kind \in {"noack", "error"} : replies' = Append(replies, Reply(kind, 0))
           /\ UNCHANGED spoilt
        \/ /\ f.last /\ f # Opening
           /\ \E lost \in SUBSET (1 .. f.in) :
                /\ lost # {} => Lossy
                /\ replies' = replies \o Only(data, {data[k] : k \in (1 .. f.in) \ lost})
                /\ spoilt' = (spoilt \/ (q.link = "socket" /\ lost # {} /\ 1 \notin lost))
  /\ q' = [q EXCEPT !.bus = Tail(@)]

CanNext ==
  \/ \E c \in Clients, plan \in Plans : CanRequest(c, plan)
  \/ \E n \in 1 .. Len(replies) : Read(n)
  \/ CanTimeout \/ CanBoard

(* The loop serves the socket, and the boards go on. *)
CanReads == \E n \in 1 .. Len(replies) : Read(n)

CanFairness == WF_canVars(CanReads) /\ WF_canVars(CanTimeout) /\ WF_canVars(CanBoard)

CanSpec == CanInit /\ [][CanNext]_canVars /\ CanFairness
-----------------------------------------------------------------------------
CanTypeOK ==
  /\ q.clt \in [Clients -> {"idle", "waits"}]
  /\ q.link \in Links /\ q.mode \in {"init", "retry", "operate"}
  /\ q.pending \in BOOLEAN /\ q.processing \in BOOLEAN /\ q.armed \in {"clear", "set"}
  /\ q.asked \in 0 .. MaxRequests /\ q.no \in 0 .. MaxRequests /\ q.frm \in 0 .. Ids - 1
  /\ \A i \in 1 .. Len(q.reqs) : q.reqs[i].clt \in Clients /\ q.reqs[i].id \in 1 .. q.asked
  /\ \A c \in Clients : q.clt[c] = "idle" => q.todo[c] = <<>>
  /\ spoilt \in BOOLEAN

Replies == UNION {ToSet(q.log[c]) : c \in Clients}

(* Every part of a reply that the board acknowledged holds the frames of the
   answer to that part, all of them, in their order, whatever answers of
   requests that timed out come late or in pieces
   (subbusd_CAN_interface.cc:290-296, 304-373). *)
OwnFrames ==
  \A r \in Replies : \A i \in 1 .. Len(r.parts) :
    LET part == r.parts[i]
    IN part.how = "ack" =>
         /\ \A k \in 1 .. Len(part.got) : part.got[k].from = part.id /\ part.got[k].seq = k - 1
         /\ Len(part.got) = part.got[1].of

(* Requests are served in the order in which they are asked, and a client that
   waits has one in the list: its buffer is filled by nobody else's answer, and
   no client stays without one (subbusd_CAN_interface.cc:43-49,
   subbusd.cc:41-43). *)
OnePerClient ==
  /\ \A i, j \in 1 .. Len(q.reqs) : i < j => q.reqs[i].id < q.reqs[j].id
  /\ \A c \in Clients :
       Cardinality({i \in 1 .. Len(q.reqs) : q.reqs[i].clt = c}) =
         IF q.clt[c] = "waits" THEN 1 ELSE 0

(* Every client's request is replied to, by the board's answer or at a timeout
   (subbusd_CAN_interface.cc:377-389, 619-630), as long as its clock is not
   stopped: by a frame that is refused, by a socket's reply that has lost a
   later frame than its first (363; the serial twin extends the timeout, 604),
   or by the adapter's opening line while a request is out (609). *)
CanCompleted == \A c \in Clients : []<>(q.clt[c] # "waits" \/ spoilt)

(* SBS_ACK means that everything is fine: if at least one value of a multiple
   read had no acknowledge the reply says SBS_NOACK (subbuspp.h:98-100,
   115-118).  It does not hold: each part sets the status anew (README). *)
AckMeansAll ==
  \A r \in Replies : r.how = "ack" => \A i \in 1 .. Len(r.parts) : r.parts[i].how = "ack"
=============================================================================
