---------------------------------- MODULE Modbus ----------------------------------
(***************************************************************************)
(* The Modbus master of src/libs/dasio/src/modbus_rtu.cc (class RTU) as    *)
(* the driver of the Alicat controllers uses it (src/drivers/alicat): one  *)
(* request at a time on a line shared by several devices, a list of polls  *)
(* walked once for each frame of telemetry, and commands that go first.    *)
(*                                                                         *)
(* A device answers when it likes, wrongly, with an exception, in two      *)
(* parts, in part, or not at all; after the timeout the master goes on and *)
(* an answer that comes then finds another request pending.                *)
(***************************************************************************)
EXTENDS Naturals, Sequences, FiniteSets, SequencesExt

CONSTANTS
  Devices,   \* the devices on the line, in the order of their polls
  LineCap,   \* bound: parts of answers on their way
  MaxCmds,   \* bound: commands a client sends
  MaxTroubles \* bound: writes that wait or fail

ModbusAssumption ==
  /\ Devices # <<>> /\ IsInjective(Devices)
  /\ LineCap \in Nat \ {0, 1}
  /\ {MaxCmds, MaxTroubles} \subseteq Nat

VARIABLES m,     \* the master, a record
          work,  \* the requests the devices are at
          line   \* the parts of answers on their way to the master

mbvars == <<m, work, line>>

(* A request is known by its device and function.  alicat_device has one poll. *)
Req(d, f) == [dev |-> d, func |-> f]
Reads  == "read"
Writes == "write"
NoReq  == [dev |-> "none", func |-> "none"]
NoPart == [for |-> "none"]
Poll(i) == Req(Devices[i], Reads)
LastPoll == Len(Devices)

(* m.life     "running" or "failed" by the assertion of iwrite
   m.pending  the pending request;  m.cmds: the commands enqueued
   m.cur      cur_poll, LastPoll + 1 for polls.end();  m.to: TO is set
   m.out      the request that waits to be written;  m.buf: what has been read
   m.got      whose data were stored last, and of what answer
   m.cmd, m.troubles: counts
   m.late     whether a request was given up before its answer had come
   m.stuck    whether a write failed: the request pends and has no timeout *)
Init ==
  /\ m = [life |-> "running", pending |-> NoReq, cmds |-> <<>>, cur |-> 1, to |-> FALSE,
          out |-> NoReq, buf |-> <<>>, got |-> NoPart, cmd |-> 0, troubles |-> 0,
          late |-> FALSE, stuck |-> FALSE]
  /\ work = {} /\ line = <<>>

Running == m.life = "running"

(* What the devices are at, and the parts of their answers, are of the pending
   request (cur) or of an earlier one. *)
Forget(us) == {[u EXCEPT !.cur = FALSE] : u \in us}
-----------------------------------------------------------------------------
(* Commands before polls. *)
NextRequest(t) ==
  IF t.cmds # <<>> THEN [t EXCEPT !.pending = Head(t.cmds), !.cmds = Tail(@)]
  ELSE IF t.cur <= LastPoll
    THEN [t EXCEPT !.pending = Poll(t.cur), !.cur = @ + 1]
  ELSE t

(* A device that is asked leaves what it was at. *)
Ask(r, cur, w) == {u \in w : u.dev # r.dev}
                    \cup {[dev |-> r.dev, func |-> r.func, cur |-> cur]}

(* process_requests from the state t in which the devices are at w: the next
   request goes out at once, waits for the port, or fails. *)
ProcessRequests(t, w) ==
  LET n == NextRequest(t)
  IN IF t.pending # NoReq THEN m' = t /\ work' = w
     ELSE IF n.pending = NoReq THEN m' = [t EXCEPT !.to = FALSE] /\ work' = w
     ELSE IF t.out # NoReq THEN m' = [n EXCEPT !.life = "failed"] /\ work' = w
     ELSE \/ m' = [n EXCEPT !.to = TRUE] /\ work' = Ask(n.pending, TRUE, w)
          \/ /\ n.troubles < MaxTroubles /\ work' = w
             /\ LET u == [n EXCEPT !.troubles = @ + 1]
                IN \/ m' = [u EXCEPT !.to = TRUE, !.out = n.pending]
                   \/ m' = [u EXCEPT !.to = FALSE, !.stuck = TRUE]

(* dispose_pending, after consume(nc), with rest still on the line; then
   process_requests. *)
DisposeAndGoOn(t, rest) ==
  /\ line' = [i \in 1 .. Len(rest) |-> [rest[i] EXCEPT !.cur = FALSE]]
  /\ LET awaited == \/ \E u \in work \cup ToSet(rest) : u.cur
                    \/ t.out = t.pending
     IN ProcessRequests([t EXCEPT !.pending = NoReq, !.buf = <<>>,
                                  !.late = @ \/ awaited],
                        Forget(work))

(* A reply that is not complete, and is waited for: fewer than rep_sz bytes
   without the bit that marks an exception.  What is left of an answer that was
   cut may look like either. *)
Incomplete(buf) == Len(buf) = 1 /\ buf[1].part # "bad"

(* Mutant of Matches: the address is not looked at. *)
MatchesAnyone(buf) ==
  /\ buf[1].part = "head" /\ buf[1].func = m.pending.func
  /\ buf[2] = [buf[1] EXCEPT !.part = "tail"]

(* Address, function, no exception, and the CRC over both parts. *)
Matches(buf) ==
  /\ buf[1].part = "head"
  /\ buf[1].dev = m.pending.dev /\ buf[1].func = m.pending.func
  /\ buf[2] = [buf[1] EXCEPT !.part = "tail"]

(* RTU::protocol_input, with the handler of a poll, RH_alicat_regs. *)
ProtocolInput(buf, rest) ==
  IF m.pending = NoReq
    THEN line' = rest /\ ProcessRequests([m EXCEPT !.buf = <<>>], work)
  ELSE \/ /\ Incomplete(buf)
          /\ m' = [m EXCEPT !.buf = buf] /\ line' = rest /\ UNCHANGED work
       \/ /\ ~Incomplete(buf) \/ buf[1].part = "tail"
          /\ DisposeAndGoOn(
               IF Len(buf) > 1 /\ Matches(buf) /\ m.pending.func = Reads
                 THEN [m EXCEPT !.got = [for |-> m.pending.dev, from |-> buf[1].dev,
                                         cur |-> buf[1].cur]]
                 ELSE m,
               rest)

(* A read brings some of what has come. *)
Input ==
  /\ Running
  /\ \E n \in 1 .. Len(line) :
       ProtocolInput(m.buf \o SubSeq(line, 1, n), SubSeq(line, n + 1, Len(line)))

(* Mutant of Timeout: the pending request is kept. *)
TimeoutKeeping ==
  /\ Running /\ m.to
  /\ m' = [m EXCEPT !.to = FALSE, !.buf = <<>>]
  /\ UNCHANGED <<work, line>>

(* RTU::protocol_timeout, with TO expired.  A timeout is set only with a
   request pending. *)
Timeout ==
  /\ Running /\ m.to
  /\ DisposeAndGoOn(m, line)

(* RTU::tm_sync, in the pass for the flag that TM_data_sndr::Send sets. *)
TmSync ==
  /\ Running
  /\ ProcessRequests(
       [m EXCEPT !.cur = IF @ > LastPoll THEN 1 ELSE @], work)
  /\ UNCHANGED line

(* modbus_cmd::app_input: the command waits for the next process_requests. *)
Command ==
  /\ Running /\ m.cmd < MaxCmds
  /\ \E d \in ToSet(Devices) :
       m' = [m EXCEPT !.cmds = Append(@, Req(d, Writes)), !.cmd = @ + 1]
  /\ UNCHANGED <<work, line>>

(* iwrite_check: the port takes the request that waits, pending or not; of a
   request that was given up the bytes may have changed meanwhile. *)
Drain ==
  /\ Running /\ m.out # NoReq
  /\ m' = [m EXCEPT !.out = NoReq]
  /\ \/ work' = Ask(m.out, m.pending = m.out, work)
     \/ m.pending # m.out /\ UNCHANGED work
  /\ UNCHANGED line

(* A device answers, and then is no longer at the request: in two parts, with
   the first of them, with an exception or garbled, or not at all. *)
Device ==
  /\ \E w \in work :
       LET part(p) == [part |-> p, dev |-> w.dev, func |-> w.func, cur |-> w.cur]
           bad == [part |-> "bad", cur |-> w.cur]
       IN /\ work' = work \ {w}
          /\ \E parts \in {<<part("head"), part("tail")>>, <<part("head")>>,
                           <<bad>>, <<>>} :
               Len(line) + Len(parts) <= LineCap /\ line' = line \o parts
  /\ UNCHANGED m

Next == Input \/ Timeout \/ TmSync \/ Command \/ Drain \/ Device

(* The port is read, its timeouts are looked at, its output goes out in the end
   and the collector goes on asking for frames.  A device owes nothing. *)
Fairness == /\ WF_mbvars(Input) /\ WF_mbvars(Timeout)
            /\ WF_mbvars(Drain) /\ WF_mbvars(TmSync)

Spec == Init /\ [][Next]_mbvars /\ Fairness
-----------------------------------------------------------------------------
Requests == {Req(d, f) : d \in ToSet(Devices), f \in {Reads, Writes}}

TypeOK ==
  /\ m.life \in {"running", "failed"}
  /\ m.pending \in Requests \cup {NoReq} /\ m.out \in Requests \cup {NoReq}
  /\ m.cur \in 1 .. LastPoll + 1 /\ Len(m.cmds) <= MaxCmds
  /\ m.cmd <= MaxCmds /\ m.troubles <= MaxTroubles
  /\ Len(m.buf) <= 1 /\ Len(line) <= LineCap
  /\ m.to => m.pending # NoReq

(* The data of a device come from an answer of that device to a read, whatever
   is late, lost or cut; and from the answer to the very request the master had
   pending, unless a request was given up before its answer had come: late
   answers cannot be told from others (modbus_rtu.cc:38-86, 136-146). *)
DataOwn == m.got # NoPart => /\ m.got.from = m.got.for
                             /\ m.got.cur \/ m.late

(* Silent devices, wrong answers and commands in between: each device is polled
   again and again and every command goes out, unless a write fails or finds the
   one before still waiting (modbus_rtu.cc:136-161, 222-246). *)
Served ==
  []<>(Running /\ ~m.stuck)
    => /\ \A d \in ToSet(Devices) : []<>(m.pending = Req(d, Reads))
       /\ []<>(m.cmds = <<>>)
=============================================================================
