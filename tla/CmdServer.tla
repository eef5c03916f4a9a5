----------------------------- MODULE CmdServer ------------------------------
(***************************************************************************)
(* A command server (cmd_server.cc, with the life of the Server of         *)
(* server.cc): the commands parsed for one interface, a cmdif_rd, go to    *)
(* every driver connected to it through a list of command_out_t that the   *)
(* drivers' Cmd_turfs walk at their own pace; a Quit closes the interface, *)
(* and when its reply is out the server shuts down.                        *)
(*                                                                         *)
(* One event loop: a handler is one action, with the deletions it asks for *)
(* (delete_child ends the pass, clear_delete_queue follows).               *)
(*   d.list   first_cmd .. last_cmd; the last one is still to be filled in *)
(*            (history: num, how many commands there were up to it)        *)
(*   d.turf   each Cmd_turf: next_command, written, and whether a command  *)
(*            waits in its output (obuf_empty is ~out)                     *)
(*   d.turfs  the list the cmdif_rd keeps of them                          *)
(***************************************************************************)
EXTENDS Naturals, Sequences, FiniteSets, SequencesExt, Lists

CONSTANTS
  Drivers,   \* the drivers that may connect to the interface
  Receivers, \* the clients of cmd/server that may send a Quit
  SockCap,   \* commands a socket holds before a write would block
  MaxCmds,   \* bound: commands for the interface
  MaxLeaves, \* bound: drivers that disconnect
  Signals    \* whether SIGINT or SIGHUP may come

CmdAssumption ==
  /\ IsFiniteSet(Drivers) /\ SockCap \in Nat \ {0}
  /\ {MaxCmds, MaxLeaves} \subseteq Nat
  /\ Signals \in BOOLEAN

VARIABLES d,       \* the interface, its drivers and their sockets
          quit,    \* the reply to each receiver's Quit
          server,  \* "running", "shutdown" when a Quit asks for it, or how it
                   \* ended: "ended", or "interrupted" by a signal
          left     \* drivers that have disconnected

cmdvars == <<d, quit, server, left>>

NewCommand(id, num) == [id |-> id, ref_count |-> 0, kind |-> "blank", num |-> num]

CmdInit ==
  /\ d = [list |-> <<NewCommand(1, 0)>>, turfs |-> <<>>,
          turf |-> [t \in Drivers |-> [next |-> 0, written |-> FALSE, out |-> FALSE,
                                       closing |-> FALSE, from |-> 0]],
          sock |-> [t \in Drivers |-> 0],
          log  |-> [t \in Drivers |-> <<>>],
          issued |-> 0]
  /\ quit = [c \in Receivers |-> "no"]
  /\ server = "running"
  /\ left = {}

CmdConnected == ToSet(d.turfs)

LastCmd(s) == s.list[Len(s.list)]

(* The place in the list of the command t is at. *)
Place(s, t) == CHOOSE i \in 1 .. Len(s.list) : s.list[i].id = s.turf[t].next

-----------------------------------------------------------------------------
(* Cmd_turf                                                                *)

(* Mutant of Advance: next_command stays where it is. *)
AdvanceNowhere(s, t) == [s EXCEPT !.turf[t].written = FALSE]

(* On to the next command once this one is written. *)
Advance(s, t) ==
  LET i == Place(s, t)
  IN [s EXCEPT !.list[i].ref_count = @ - 1,
               !.list[i + 1].ref_count = @ + 1,
               !.turf[t].next = s.list[i + 1].id,
               !.turf[t].written = FALSE]

(* iwrite: the command goes into the socket if there is room.  The iwritten it
   calls does nothing, as written is not yet set. *)
Write(s, t) ==
  LET room == s.sock[t] < SockCap
  IN [s EXCEPT !.turf[t].out = ~room,
               !.sock[t] = IF room THEN @ + 1 ELSE @,
               !.log[t] = Append(@, s.list[Place(s, t)].num)]

(* The command t is at is written, or, an empty one, ends the connection. *)
Issue(s, t) ==
  [(IF s.list[Place(s, t)].kind = "command" THEN Write(s, t)
    ELSE [s EXCEPT !.turf[t].closing = TRUE])
     EXCEPT !.turf[t].written = TRUE]

(* A turn of the loop in turf_check. *)
Turn(s, t) ==
  IF s.turf[t].out THEN s
  ELSE LET s1 == IF s.turf[t].written THEN Advance(s, t) ELSE s
       IN IF Place(s1, t) < Len(s1.list) THEN Issue(s1, t) ELSE s1

(* Each turn but the last one leaves a command of the list behind. *)
TurfCheck(s, t) ==
  LET turn[n \in 0 .. Len(s.list)] == IF n = 0 THEN s ELSE Turn(turn[n - 1], t)
  IN turn[Len(s.list)]

(* ~Cmd_turf for each of T: the command it is at keeps the reference. *)
Delete(s, T) ==
  [s EXCEPT !.turfs = Only(@, Drivers \ T),
            !.turf = [t \in Drivers |-> IF t \notin T THEN s.turf[t]
                                       ELSE [s.turf[t] EXCEPT !.closing = FALSE, !.out = FALSE]]]

(* clear_delete_queue, at the end of the pass. *)
ClearDeleted(s) == Delete(s, {t \in ToSet(s.turfs) : s.turf[t].closing})

-----------------------------------------------------------------------------
(* cmdif_rd                                                                *)

(* Mutant of CleanOut: the first command is freed though a driver is at it. *)
CleanOutAll(s) == [s EXCEPT !.list = <<LastCmd(s)>>]

(* The commands at the front that nobody is at. *)
CleanOut(s) ==
  LET keep == CHOOSE i \in 1 .. Len(s.list) :
                /\ i = Len(s.list) \/ s.list[i].ref_count # 0
                /\ \A j \in 1 .. i - 1 : s.list[j].ref_count = 0
  IN [s EXCEPT !.list = SubSeq(@, keep, Len(@))]

(* The last command of the list is filled in and a new one goes behind it. *)
Filled(s, kind) ==
  LET last == LastCmd(s)
      num  == IF kind = "command" THEN last.num + 1 ELSE last.num
  IN [s EXCEPT !.list = Append([@ EXCEPT ![Len(@)] = [last EXCEPT !.kind = kind, !.num = num]],
                               NewCommand(last.id + 1, num))]

(* Every driver that can write does. *)
CheckAll(s) ==
  LET pass[n \in 0 .. Len(s.turfs)] ==
        IF n = 0 THEN s ELSE TurfCheck(pass[n - 1], s.turfs[n])
  IN pass[Len(s.turfs)]

(* Mutant of Turf: an empty command ends every connection at once. *)
TurfClosing(s, kind) ==
  LET s1 == Filled(s, kind)
  IN IF kind = "close"
     THEN [s1 EXCEPT !.turf = [t \in Drivers |-> [@[t] EXCEPT !.closing = t \in ToSet(s.turfs)]]]
     ELSE CleanOut(CheckAll(s1))

(* Turf.  A command that is too long changes nothing. *)
Turf(s, kind) == CleanOut(CheckAll(Filled(s, kind)))

-----------------------------------------------------------------------------
(* The loop serves its interfaces until the pass in which Shutdown is called
   ends. *)
Serving == server \in {"running", "shutdown"}

(* A driver is accepted: it starts at the first command of the list. *)
CmdConnect(t) ==
  /\ Serving
  /\ t \notin CmdConnected \cup left
  /\ d.turf[t].next = 0
  /\ d' = [d EXCEPT !.list[1].ref_count = @ + 1,
                    !.turfs = Append(@, t),
                    !.turf[t].next = d.list[1].id,
                    !.turf[t].from = d.issued]
  /\ UNCHANGED <<quit, server, left>>

(* A client of cmd/server sends a command that cmd_batch passes to Turf. *)
ClientCommand ==
  /\ Serving
  /\ d.issued < MaxCmds
  /\ d' = ClearDeleted(Turf([d EXCEPT !.issued = @ + 1], "command"))
  /\ UNCHANGED <<quit, server, left>>

(* process_quit: the reply is written at once or is left in the output; then
   the interface is closed. *)
Quit(c) ==
  /\ Serving
  /\ quit[c] = "no"
  /\ \/ quit' = [quit EXCEPT ![c] = "out"] /\ server' = "shutdown"
     \/ quit' = [quit EXCEPT ![c] = "pending"] /\ UNCHANGED server
  /\ d' = ClearDeleted(Turf(d, "close"))
  /\ UNCHANGED left

(* Mutant of ReplyOut: the reply that goes out late does not shut down. *)
ReplyOutQuietly(c) ==
  /\ Serving /\ quit[c] = "pending"
  /\ quit' = [quit EXCEPT ![c] = "out"]
  /\ UNCHANGED <<d, server, left>>

(* iwritten of the receiver: the reply to the Quit is out. *)
ReplyOut(c) ==
  /\ Serving
  /\ quit[c] = "pending"
  /\ quit' = [quit EXCEPT ![c] = "out"]
  /\ server' = "shutdown"
  /\ UNCHANGED <<d, left>>

(* Mutant of Writable: a command that went out late is not followed up. *)
WritableOnce(t) ==
  /\ Serving /\ t \in CmdConnected /\ d.turf[t].out /\ d.sock[t] < SockCap
  /\ d' = [d EXCEPT !.turf[t].out = FALSE, !.sock[t] = @ + 1]
  /\ UNCHANGED <<quit, server, left>>

CanWrite(t) == Serving /\ t \in CmdConnected /\ d.turf[t].out /\ d.sock[t] < SockCap

(* The rest of a command goes out: iwritten sees to the next ones. *)
Writable(t) ==
  /\ CanWrite(t)
  /\ d' = ClearDeleted(TurfCheck([d EXCEPT !.turf[t].out = FALSE, !.sock[t] = @ + 1], t))
  /\ UNCHANGED <<quit, server, left>>

Leave(t) ==
  /\ Serving
  /\ t \in CmdConnected
  /\ Cardinality(left) < MaxLeaves
  /\ left' = left \cup {t}
  /\ d' = Delete(d, {t})
  /\ UNCHANGED <<quit, server>>

DriverReads(t) ==
  /\ d.sock[t] > 0
  /\ d' = [d EXCEPT !.sock[t] = @ - 1]
  /\ UNCHANGED <<quit, server, left>>

(* The end of Server::Start: do_shutdown deletes every interface, and the loop,
   run once more, clears them away; then no client is left. *)
Stop ==
  /\ server = "shutdown"
  /\ server' = "ended"
  /\ d' = Delete(d, CmdConnected)
  /\ UNCHANGED <<quit, left>>

(* A signal asks for a Shutdown(false): Start returns with the clients still
   there, and exit destroys the static cmdif_rd. *)
CmdInterrupt ==
  /\ Signals
  /\ server = "running"
  /\ server' = "interrupted"
  /\ UNCHANGED <<d, quit, left>>

CmdNext ==
  \/ ClientCommand \/ Stop \/ CmdInterrupt
  \/ \E c \in Receivers : Quit(c) \/ ReplyOut(c)
  \/ \E t \in Drivers : CmdConnect(t) \/ Writable(t) \/ Leave(t) \/ DriverReads(t)

(* The loop ends a pass and serves each socket that can be written; the peers
   take what is sent to them.  The last conjunct is WF_cmdvars(Writable(t)), with
   CanWrite(t) for ENABLED Writable(t). *)
CmdFairness ==
  /\ WF_cmdvars(Stop)
  /\ \A c \in Receivers : WF_cmdvars(ReplyOut(c))
  /\ \A t \in Drivers : /\ WF_cmdvars(DriverReads(t))
                        /\ []<>~CanWrite(t) \/ []<><<Writable(t)>>_cmdvars

CmdSpec == CmdInit /\ [][CmdNext]_cmdvars /\ CmdFairness
-----------------------------------------------------------------------------
CmdTypeOK ==
  /\ \A i \in 1 .. Len(d.list) : /\ d.list[i].ref_count \in 0 .. Cardinality(Drivers)
                                 /\ d.list[i].kind \in {"blank", "command", "close"}
  /\ IsInjective(d.turfs) /\ CmdConnected \subseteq Drivers
  /\ \A t \in Drivers : /\ d.turf[t].written \in BOOLEAN /\ d.turf[t].out \in BOOLEAN
                        /\ d.sock[t] \in 0 .. SockCap
  /\ quit \in [Receivers -> {"no", "pending", "out"}]
  /\ server \in {"running", "shutdown", "ended", "interrupted"}

(* A driver's next_command stays in the list and counts the driver: it is not
   freed, its next then leading elsewhere (cmd_server.cc:183-184, 205-222,
   334-337, 404-414). *)
CommandKept ==
  \A t \in CmdConnected : \E i \in 1 .. Len(d.list) :
    /\ d.list[i].id = d.turf[t].next
    /\ d.list[i].ref_count >= Cardinality({u \in CmdConnected : d.turf[u].next = d.list[i].id})

(* After a command that ends no connection, the list begins at a command some
   driver is at, or holds nothing but the one to fill in: those with no refs
   are cleaned out (cmd_server.cc:334-337).  It does not hold: a driver that
   leaves keeps its reference (README). *)
CleanedOut ==
  [][d'.issued > d.issued /\ CmdConnected' = CmdConnected =>
       \/ Len(d'.list) = 1
       \/ \E t \in CmdConnected' : d'.turf[t].next = d'.list[1].id]_cmdvars

(* A driver is given each command of the interface once and in order, from
   some command on (cmd_server.cc:196-222). *)
InOrder ==
  \A t \in Drivers : \A k \in 1 .. Len(d.log[t]) - 1 : d.log[t][k + 1] = d.log[t][k] + 1

(* A driver is disconnected by an empty command only when it has been given
   every command issued since it connected that stands before the first empty
   one (cmd_server.cc:213-219, 341-343).  Of those that are issued after a Quit
   and stand behind it, it may be given some and not others (README). *)
ClosedAfterAll ==
  [][\A t \in CmdConnected : (Serving' /\ t \notin CmdConnected' \cup left') =>
       \A i \in 1 .. Len(d.list) :
         /\ d.list[i].num > d.turf[t].from
         /\ \A j \in 1 .. i : d.list[j].kind # "close"
         => d.list[i].num \in ToSet(d'.log[t])]_cmdvars

(* A driver that is connected when a command is issued is given it, if it reads
   and neither it nor the server ends (cmd_server.cc:310-333). *)
Delivered ==
  \A t \in Drivers : \A id \in 1 .. MaxCmds :
    []<>(t \in CmdConnected /\ Serving /\ d.turf[t].from < id /\ id <= d.issued
           => id \in ToSet(d.log[t]))

(* When there is something to write to a driver and it can be written, it has
   been written (cmd_server.cc:196-203).  It does not hold: a driver that
   connects behind a slow one waits for the next command (README). *)
WritesWhatItCan ==
  \A t \in CmdConnected : Serving /\ ~d.turf[t].out => Place(d, t) = Len(d.list)

Exited == server \in {"ended", "interrupted"}

(* A Quit ends the server (cmd_server.cc:157-179, server.cc:202-254). *)
QuitEnds == \A c \in Receivers : []<>(quit[c] # "no" => Exited)

(* No Cmd_turf is left in the list when the cmdif_rd is destroyed, whatever
   ended the server (cmd_server.cc:283).  With Signals it does not hold
   (README). *)
TurfsEmptyAtExit == Exited => d.turfs = <<>>
=============================================================================
