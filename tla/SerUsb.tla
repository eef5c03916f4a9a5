------------------------------- MODULE SerUsb -------------------------------
(***************************************************************************)
(* The server of the subbus on a serial USB board (subbusd.cc, serusb.cc): *)
(* its clients send one request at a time; the requests wait in a list and *)
(* go to the board one by one, each until the board has answered with the  *)
(* code that belongs to it or until a second has passed.                   *)
(*                                                                         *)
(* One event loop: a handler is one action.  A reply is far smaller than   *)
(* the buffer of a socket and a client has one at a time, so it always     *)
(* goes out at once; the port to the board can be slow.  What a request    *)
(* asks and what an answer says is the number of the request.  Ill-formed  *)
(* requests are answered in place and change nothing.                      *)
(***************************************************************************)
EXTENDS Subbus, Naturals, Sequences, FiniteSets, SequencesExt

CONSTANTS
  Internal, \* stands for the server, where a client would be
  Codes,    \* codes of clients' requests the board answers ('R', 'W', ...)
  PortCap,  \* requests the port holds before a write would block
  Silent    \* whether the board may leave a request without any answer

(* The NOP and the 'V' of init_subbus, the 'T' the board does not answer, and
   an answer that says nothing: an error of the board, or a broken line. *)
Nop == "\n"
Version == "V"
Tick == "T"
Bad == "?"

SerUsbAssumption == /\ Internal \notin Clients
                    /\ Codes \cap {Nop, Tick, Bad} = {}
                    /\ PortCap \in Nat \ {0} /\ MaxRequests \in Nat
                    /\ Silent \in BOOLEAN

VARIABLES p,       \* the program, a record (below)
          peer,    \* whether each client's process still has its socket open
          back,    \* lines from the board that have not been read
          late     \* history: requests that have timed out

(* p.clt      each client: "idle" when Fl_Read is on, "waits" while its
              request_pending is set, "gone" when it is deleted
   p.reqs     the requests, the first one at the board if p.pending is set
   p.pending  request_pending, with TO set
   p.armed    Fl_Timeout among the flags of the port
   p.line     requests the port has taken and the board has not
   p.out      the request the port has not taken, <<>> if obuf_empty
   p.log      history: the replies to each client
   p.asked    history: how many requests there were
   p.server   "running", or how it ended                                   *)
servars == <<p, peer, back, late>>

Asks(id, c, code) == [id |-> id, clt |-> c, code |-> code]

(* The line of a request as it goes to the board. *)
Sent(req) == [id |-> req.id, code |-> req.code]

(* init_subbus, before the loop runs: the NOP goes out, the 'V' waits. *)
SerInit ==
  LET nop == Asks(1, Internal, Nop)
  IN /\ p = [clt |-> [c \in Clients |-> "idle"],
             reqs |-> <<nop, Asks(2, Internal, Version)>>,
             pending |-> TRUE, armed |-> FALSE, line |-> <<Sent(nop)>>, out |-> <<>>,
             log |-> [c \in Clients |-> <<>>], asked |-> 2, server |-> "running"]
     /\ peer = [c \in Clients |-> "open"]
     /\ back = <<>>
     /\ late = {}

SerRunning == p.server = "running"

-----------------------------------------------------------------------------
(* dequeue_request and process_requests.                                   *)

(* The first request is done, by the answer to request `from', or by none if
   that is 0.  Its client is written to and may be read again; to write to a
   process that is gone raises SIGPIPE, which nobody handles. *)
SerComplete(s, from) ==
  LET req == Head(s.reqs)
      c   == req.clt
      s1  == [s EXCEPT !.reqs = Tail(@), !.pending = FALSE]
  IN IF c = Internal THEN s1
     ELSE IF peer[c] = "closed" THEN [s1 EXCEPT !.server = "killed"]
     ELSE [s1 EXCEPT !.clt[c] = "idle",
                     !.log[c] = Append(@, [id |-> req.id, from |-> from])]

(* Mutant of Write: a write that would block is taken to be complete. *)
WriteUnblocked(s, req) == [s EXCEPT !.line = Append(@, Sent(req))]

(* iwrite to the port; it asserts that the last request is out. *)
Write(s, req) ==
  IF s.out # <<>> THEN [s EXCEPT !.server = "aborted"]
  ELSE IF Len(s.line) < PortCap THEN [s EXCEPT !.line = Append(@, Sent(req))]
  ELSE [s EXCEPT !.out = <<Sent(req)>>]

(* Mutant of MayProcess: a request goes out while one is at the board. *)
NotEmpty(s) == s.server = "running" /\ s.reqs # <<>>

MayProcess(s) == s.server = "running" /\ ~s.pending /\ s.reqs # <<>>

(* A tick is done as soon as it is written. *)
SendFirst(s) ==
  IF ~MayProcess(s) THEN s
  ELSE LET req == Head(s.reqs)
           s1  == [Write(s, req) EXCEPT !.pending = TRUE]
       IN IF req.code # Tick \/ s1.server # "running" THEN s1
          ELSE SerComplete(s1, req.id)

(* The loop goes on while there is something to send and nothing pending. *)
Process(s) ==
  LET sent[n \in 0 .. Len(s.reqs)] == IF n = 0 THEN s ELSE SendFirst(sent[n - 1])
  IN sent[Len(s.reqs)]

(* ProcessData of the port ends with Fl_Timeout as TO is. *)
Ended(s) == [s EXCEPT !.armed = s.pending]

-----------------------------------------------------------------------------
(* The clients.                                                            *)

(* subbusd_client::protocol_input, incoming_sbreq and enqueue_request, in the
   ProcessData of the client: the flags of the port stay. *)
SerRequest(c, code) ==
  LET id == p.asked + 1
  IN /\ SerRunning
     /\ p.clt[c] = "idle" /\ peer[c] = "open"
     /\ p.asked < MaxRequests + 2
     /\ p' = Process([p EXCEPT !.clt[c] = "waits", !.asked = id,
                                      !.reqs = Append(@, Asks(id, c, code))])
     /\ UNCHANGED <<peer, back, late>>

(* Mutant of Eof: a client whose request waits is read as well. *)
EofAnyTime(c) ==
  /\ SerRunning /\ peer[c] = "closed" /\ p.clt[c] # "gone"
  /\ p' = [p EXCEPT !.clt[c] = "gone"]
  /\ UNCHANGED <<peer, back, late>>

(* The server reads that the client has closed, and deletes it. *)
Eof(c) ==
  /\ SerRunning
  /\ peer[c] = "closed" /\ p.clt[c] = "idle"
  /\ p' = [p EXCEPT !.clt[c] = "gone"]
  /\ UNCHANGED <<peer, back, late>>

(* The client's process closes its socket, with or without a reply to come. *)
PeerCloses(c) ==
  /\ SerRunning /\ peer[c] = "open"
  /\ peer' = [peer EXCEPT ![c] = "closed"]
  /\ UNCHANGED <<p, back, late>>

(* A client's SBC_QUIT, or a signal: Shutdown(false). *)
Quit ==
  /\ SerRunning
  /\ p' = [p EXCEPT !.server = "ended"]
  /\ UNCHANGED <<peer, back, late>>

-----------------------------------------------------------------------------
(* The port and the board.                                                 *)

(* process_response: an answer ends the first request if its code is that of
   the request; any other one is reported, and the timeout awaited. *)
Response(s, ans) ==
  IF s.pending /\ ans.code = Head(s.reqs).code THEN Process(SerComplete(s, ans.id))
  ELSE s

(* The port is read: n whole lines, and part of the next one if cut.  The first
   line is looked at and everything read is consumed. *)
PortRead(n, cut) ==
  LET rest == SubSeq(back, n + 1, Len(back))
  IN /\ SerRunning
     /\ n \in 1 .. Len(back)
     /\ cut => rest # <<>>
     /\ p' = Ended(Response(p, back[1]))
     /\ back' = IF cut THEN [rest EXCEPT ![1].code = Bad] ELSE rest
     /\ UNCHANGED <<peer, late>>

(* Mutant of SerTimeout: the request stays first. *)
TimeoutForgotten ==
  /\ SerRunning /\ p.armed
  /\ p' = [p EXCEPT !.armed = FALSE]
  /\ UNCHANGED <<peer, back, late>>

(* protocol_timeout, which select comes to only if Fl_Timeout is set. *)
SerTimeout ==
  /\ SerRunning
  /\ p.armed
  /\ late' = late \cup {Head(p.reqs).id}
  /\ p' = Ended(Process(SerComplete(p, 0)))
  /\ UNCHANGED <<peer, back>>

(* The port takes the rest of a request. *)
SerDrain ==
  /\ SerRunning
  /\ p.out # <<>> /\ Len(p.line) < PortCap
  /\ p' = Ended([p EXCEPT !.line = Append(@, p.out[1]), !.out = <<>>])
  /\ UNCHANGED <<peer, back, late>>

Answers(req) ==
  IF req.code = Tick THEN {<<>>}
  ELSE {<<req>>, <<[req EXCEPT !.code = Bad]>>} \cup (IF Silent THEN {<<>>} ELSE {})

(* The board takes a request and answers it, after any delay. *)
SerBoard ==
  /\ SerRunning
  /\ p.line # <<>>
  /\ \E answer \in Answers(Head(p.line)) : back' = back \o answer
  /\ p' = [p EXCEPT !.line = Tail(@)]
  /\ UNCHANGED <<peer, late>>

SerNext ==
  \/ \E c \in Clients : \/ Eof(c) \/ PeerCloses(c)
                         \/ \E code \in Codes \cup {Tick} : SerRequest(c, code)
  \/ \E n \in 1 .. Len(back), cut \in BOOLEAN : PortRead(n, cut)
  \/ SerTimeout \/ SerDrain \/ SerBoard \/ Quit

(* The loop serves the port, when it can be read or written and when its time
   is over; the board goes on. *)
PortReads == \E n \in 1 .. Len(back), cut \in BOOLEAN : PortRead(n, cut)

SerFairness == /\ WF_servars(PortReads)
               /\ WF_servars(SerTimeout) /\ WF_servars(SerDrain) /\ WF_servars(SerBoard)

SerSpec == SerInit /\ [][SerNext]_servars /\ SerFairness
-----------------------------------------------------------------------------
Request_ == [id : 1 .. MaxRequests + 2, clt : Clients \cup {Internal},
             code : Codes \cup {Nop, Version, Tick}]

SerTypeOK ==
  /\ p.clt \in [Clients -> {"idle", "waits", "gone"}]
  /\ p.reqs \in Seq(Request_)
  /\ p.pending \in BOOLEAN /\ p.armed \in BOOLEAN
  /\ Len(p.out) <= 1 /\ Len(p.line) <= PortCap
  /\ p.server \in {"running", "killed", "aborted", "ended"}
  /\ peer \in [Clients -> {"open", "closed"}]
  /\ late \subseteq 1 .. MaxRequests + 2

(* Between two handlers a request is at the board exactly if one is in the
   list, and the flags ask for a timeout only then: what protocol_timeout,
   process_response and dequeue_request assert (serusb.cc:186, 248-249, 529). *)
PendingIsFirst ==
  SerRunning => (p.pending <=> p.reqs # <<>>) /\ (p.armed => p.pending)

(* A client that is deleted has no request in the list, which points to it
   and to the buffers in it, and a client that waits has one
   (subbusd.cc:41-43, 90-97, serusb.cc:150-156). *)
NoDangling ==
  SerRunning => \A c \in Clients :
    Cardinality({i \in 1 .. Len(p.reqs) : p.reqs[i].clt = c}) =
      IF p.clt[c] = "waits" THEN 1 ELSE 0

(* A reply holds what the board answered to the client's own request
   (serusb.cc:158-160).  It does not hold once a request has timed out
   (README). *)
ReplyIsOwn ==
  \A c \in Clients : \A k \in 1 .. Len(p.log[c]) :
    p.log[c][k].from \in {0, p.log[c][k].id}

(* As long as no request has timed out, whatever the board says and however the
   lines come in, no client gets the answer to another request. *)
OwnUntilLate == late = {} => ReplyIsOwn

(* A client whose process is gone is torn down; the server runs on
   (socket.cc:404-421, socket.h:112-121).  It does not hold: the write raises
   SIGPIPE (README). *)
OutlivesClients == p.server # "killed"

(* Each request of a client that stays is replied to, by the board's answer or
   when the time is over (serusb.cc:173-194, 399-403). *)
SerCompleted ==
  \A c \in Clients : []<>(p.clt[c] # "waits" \/ ~SerRunning)
=============================================================================
