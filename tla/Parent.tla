------------------------------- MODULE Parent -------------------------------
(***************************************************************************)
(* parent (src/utils/parent/parent.cc), which waits for the processes of   *)
(* an experiment and ends them, with what it runs on: the event loop       *)
(* (src/libs/dasio/src/loop.cc), the life of a server and the              *)
(* authentication of its clients (server.cc).                              *)
(*                                                                         *)
(* A turn of Loop::event_loop is a step for what pselect finds, one for    *)
(* each interface it then visits, and one for the queue of deleted         *)
(* interfaces; between any two of them processes die, clients write and    *)
(* close, and signals are raised.  No interface of parent uses a gflag.    *)
(* A client that closes with a reply unread resets the connection.  What   *)
(* freed memory leads to is a choice: a crash, or the value it had.        *)
(***************************************************************************)
EXTENDS Integers, Sequences, FiniteSets, SequencesExt, Lists

CONSTANTS
  Kids,      \* the processes parent waits for
  Monitored, \* the one -M names
  Conns,     \* connections that clients make
  Options,   \* set of [quit : -q given, timer : "none", "start" (-t), "exit" (-M)]
  MaxAsks,   \* bound: commands on one connection
  MaxInts    \* bound: times SIGINT is raised

ParentAssumption ==
  /\ Monitored \in Kids /\ {MaxAsks, MaxInts} \subseteq Nat
  /\ Options \subseteq [quit : BOOLEAN, timer : {"none", "start", "exit"}]

VARIABLES p,     \* the program, a record (below)
          opt,   \* its options
          kid,   \* what has become of each process
          conn,  \* the clients' side of each connection, and what is in it
          sigs,  \* signals pending; they are blocked outside pselect
          ints   \* how often SIGINT was raised

parentvars == <<p, opt, kid, conn, sigs, ints>>

(* Interfaces: parent_sigif, the server_sigif that Server::signal makes when
   there is none, the listening socket, and two for each connection. *)
Sig == <<"sig">>
Own == <<"own">>
Unix == <<"unix">>
AuthOf(c) == <<"auth", c>>
CltOf(c) == <<"clt", c>>
Ifaces == {Sig, Own, Unix} \cup {AuthOf(c) : c \in Conns} \cup {CltOf(c) : c \in Conns}

Ends == {"ended", "failed", "crashed", "killed"}

(* pc       where the loop is; "failed" by msg(3), "killed" by SIGPIPE
   list     S, the loop's interfaces;  pending  PendingDeletion
   refs     ref_count of each interface; freed: those deleted
   todo     interfaces the present pass has still to visit
   late     those of them whose timeout has expired
   changed  children_changed;  keep, exit  keep_going, loop_exit
   open     interfaces with an fd;  armed  those with a timeout set
   sigif    the server's sigif;  asked  shutdown_requested, and if in full
   done     has_shutdown_b;  active  active_clients
   children have_children;  quit  quit_when_childless
   handled  handled_INT, handled_force_quit or handled_timeout
   closing  clients with shutdown_when_closed
   stale    clients whose last command is still in their buffer *)
ParentInit ==
  /\ opt \in Options
  /\ p = [pc |-> "main", list |-> <<>>, pending |-> <<>>,
          refs |-> [i \in Ifaces |-> 0], freed |-> {}, todo |-> <<>>,
          late |-> {}, changed |-> FALSE, keep |-> TRUE, exit |-> FALSE,
          open |-> {}, armed |-> {}, sigif |-> "none", asked |-> "no",
          done |-> FALSE, active |-> 0, children |-> TRUE,
          quit |-> opt.quit, handled |-> FALSE, closing |-> {}, stale |-> {}]
  /\ kid \in [Kids -> {"running", "gone"}]
  /\ conn = [c \in Conns |-> [at |-> "off", inbox |-> "none", end |-> "open",
                              unread |-> FALSE, sent |-> 0]]
  /\ sigs = {} /\ ints = 0
-----------------------------------------------------------------------------
(* The loop's lists. *)

AddChild(s, i) == [s EXCEPT !.list = Append(@, i), !.refs[i] = @ + 1,
                            !.changed = TRUE]

DeleteChild(s, i) ==
  [s EXCEPT !.list = Only(@, Ifaces \ {i}), !.changed = TRUE,
            !.pending = Append(@, i)]

Dereference(s, i) ==
  [s EXCEPT !.refs[i] = @ - 1, !.freed = IF s.refs[i] = 1 THEN @ \cup {i} ELSE @]

CloseIface(s, i) == [s EXCEPT !.open = @ \ {i}, !.armed = @ \ {i}]

(* Each pending interface loses the loop's reference.  The last dereference of a
   Serverside_client is the end of a client. *)
ClearDeleteQueue(s) ==
  LET gone == ToSet(s.pending)
  IN [s EXCEPT !.pending = <<>>,
               !.refs = [i \in Ifaces |-> IF i \in gone THEN @[i] - 1 ELSE @[i]],
               !.freed = @ \cup {i \in gone : s.refs[i] = 1},
               !.active = @ - Cardinality({i \in gone : i[1] = "clt"})]

(* Server::Shutdown dereferences the sigif, of which set_sigif took no
   reference; then the loop's is the one that goes. *)
Shutdown(s, how) ==
  LET t == CASE s.sigif = "sig" -> Dereference(s, Sig)
             [] s.sigif = "own" -> Dereference(s, Own)
             [] OTHER -> s
  IN [t EXCEPT !.sigif = "none", !.asked = how, !.exit = TRUE]

(* Server::do_shutdown; in full, it deletes every interface of the loop. *)
DoShutdown(s) ==
  LET t == DeleteChild(Dereference(CloseIface(s, Unix), Unix), Unix)
  IN [t EXCEPT !.done = TRUE,
               !.list = IF s.asked = "full" THEN <<>> ELSE @,
               !.pending = IF s.asked = "full" THEN @ \o t.list ELSE @]
-----------------------------------------------------------------------------
(* parent_sigif. *)

(* Mutant of Wait: the first process that has died is taken for the last. *)
WaitOnce(s) ==
  [s EXCEPT !.children = @ /\ \A k \in Kids : kid[k] = "running"]

(* waitpid is called until nobody is left to wait for or none of them has
   died; the monitored process starts the timeout. *)
Wait(s) ==
  [s EXCEPT !.children = @ /\ \E k \in Kids : kid[k] = "running",
            !.armed = IF opt.timer = "exit" /\ kid[Monitored] = "zombie"
                        THEN @ \cup {Sig} ELSE @]

(* Mutant of EndKids: the processes are given no time limit. *)
EndKidsUntimed(s) == [s EXCEPT !.handled = TRUE, !.quit = TRUE]

(* SIGINT, or no signal at all for a client's Q.  If there are processes killpg
   sends all of the group SIGHUP, parent as well. *)
EndKids(s) ==
  [s EXCEPT !.handled = TRUE, !.quit = TRUE,
            !.armed = IF s.children THEN @ \cup {Sig} ELSE @]

SignalHandler(s, seen) ==
  LET t == IF "CHLD" \in seen THEN Wait(s) ELSE s
      u == IF "INT" \in seen \/ seen = {} THEN EndKids(t) ELSE t
  IN IF u.quit /\ ~u.children THEN Shutdown(u, "full") ELSE u

AfterWait(seen) ==
  IF "CHLD" \in seen
    THEN [k \in Kids |-> IF kid[k] = "zombie" THEN "gone" ELSE kid[k]] ELSE kid

(* protocol_timeout; msg(3) ends the program. *)
SigTimeout(s) ==
  IF s.handled THEN [s EXCEPT !.pc = "failed"]
  ELSE IF s.children THEN [s EXCEPT !.handled = TRUE]
  ELSE [s EXCEPT !.armed = @ \ {Sig}, !.keep = FALSE]
-----------------------------------------------------------------------------
(* The clients. *)

(* parent_ssclient::protocol_input.  A refused r stays in the buffer, and the
   next command is read behind it. *)
ParentCommand(s, c) ==
  LET cmd == IF c \in s.stale THEN "r" ELSE conn[c].inbox
  IN CASE cmd = "Q" -> SignalHandler(s, {})
       [] cmd = "r" /\ s.children -> [s EXCEPT !.stale = @ \cup {c}]
       [] cmd = "r" /\ ~s.children ->
            [s EXCEPT !.stale = @ \ {c}, !.closing = @ \cup {c},
                      !.armed = @ \cup {CltOf(c)}]
       [] OTHER -> s

(* Authenticator::protocol_input: the client takes the socket over, and
   iwrites "OK". *)
ParentAuthenticate(s, c) ==
  IF conn[c].inbox = "auth"
    THEN LET t == DeleteChild([s EXCEPT !.active = @ + 1], AuthOf(c))
         IN AddChild([t EXCEPT !.open = (@ \ {AuthOf(c)}) \cup {CltOf(c)}], CltOf(c))
    ELSE DeleteChild(CloseIface(s, AuthOf(c)), AuthOf(c))

(* fillbuf finds the connection closed or reset.  parent_ssclient's
   process_eof does not delete it as Socket's does. *)
Gone(s, i) ==
  IF i[1] = "clt" /\ conn[i[2]].end = "closed"
    THEN IF i[2] \in s.closing
           THEN [Shutdown(CloseIface(s, i), "full") EXCEPT !.keep = FALSE]
           ELSE CloseIface(s, i)
    ELSE DeleteChild(CloseIface(s, i), i)

(* A Q, unless it is taken for the r before it. *)
IsQuit(i) == conn[i[2]].inbox = "Q" /\ i[2] \notin p.stale

Replies(i) == i[1] = "clt" \/ conn[i[2]].inbox = "auth"

(* What the visit of a connection's interface does, and what it leaves in the
   connection; a reply to a client that has closed raises SIGPIPE. *)
Read(s, i) ==
  LET c == i[2]
  IN IF conn[c].inbox = "none" THEN Gone(s, i)
     ELSE IF Replies(i) /\ conn[c].end # "open" THEN [s EXCEPT !.pc = "killed"]
     ELSE IF i[1] = "clt" THEN ParentCommand(s, c) ELSE ParentAuthenticate(s, c)

AfterRead(i) ==
  LET c == i[2]
  IN IF conn[c].inbox = "none" THEN conn
     ELSE [conn EXCEPT ![c].inbox = "none", ![c].unread = @ \/ Replies(i),
                       ![c].at = IF conn[c].inbox = "auth" THEN "in" ELSE @]

HasInput(i) ==
  IF i = Unix THEN \E c \in Conns : conn[c].at = "queued"
  ELSE Len(i) = 2 /\ (conn[i[2]].inbox # "none" \/ conn[i[2]].end # "open")
-----------------------------------------------------------------------------
(* The program. *)

ParentStep(s) == IF s.pc \in Ends THEN s
                 ELSE IF s.todo = <<>> THEN [s EXCEPT !.pc = "turn"] ELSE s

(* main, up to the event loop: the handler runs once for processes that have
   died already, and Start claims the socket. *)
Main ==
  /\ p.pc = "main"
  /\ LET s == AddChild([p EXCEPT !.sigif = "sig",
                                 !.armed = IF opt.timer = "start" THEN {Sig} ELSE {}],
                       Sig)
         t == SignalHandler(s, {"CHLD"})
         u == IF t.sigif = "none"
                THEN [AddChild([t EXCEPT !.sigif = "own"], Own) EXCEPT !.refs[Own] = 2]
                ELSE t
     IN p' = [AddChild([u EXCEPT !.open = {Unix}, !.refs[Unix] = 1], Unix)
                EXCEPT !.pc = "select"]
  /\ kid' = AfterWait({"CHLD"})
  /\ UNCHANGED <<opt, conn, sigs, ints>>

(* The top of a turn; pselect returns what can be read, or else the signals
   that were pending, or else that a timeout has expired. *)
SelectInput ==
  LET ready == Only(p.list, {i \in p.open : HasInput(i)})
  IN /\ p.pc = "select" /\ ready # <<>>
     /\ p' = [p EXCEPT !.pc = "input", !.todo = ready, !.changed = FALSE]
     /\ UNCHANGED <<opt, kid, conn, sigs, ints>>

Quiet == p.pc = "select" /\ ~\E i \in ToSet(p.list) : i \in p.open /\ HasInput(i)

(* server_sigif, in the place of parent's, ends the server in part. *)
SelectSignals ==
  /\ Quiet /\ p.list # <<>> /\ sigs # {}
  /\ LET s == [p EXCEPT !.pc = "turn", !.changed = FALSE]
         t == IF p.sigif = "sig" THEN SignalHandler(s, sigs)
              ELSE [Shutdown(s, "part") EXCEPT !.keep = FALSE]
     IN /\ p' = t
        /\ kid' = IF p.sigif = "sig" THEN AfterWait(sigs) ELSE kid
        /\ sigs' = IF "INT" \in sigs /\ p.sigif = "sig" /\ t.children
                     THEN {"HUP"} ELSE {}
  /\ UNCHANGED <<opt, conn, ints>>

SelectTimeout ==
  /\ Quiet /\ p.list # <<>> /\ sigs = {}
  /\ \E late \in (SUBSET (p.armed \cap ToSet(p.list))) \ {{}} :
       p' = [p EXCEPT !.pc = "timeouts", !.late = late, !.changed = FALSE,
                      !.todo = Only(p.list, p.armed)]
  /\ UNCHANGED <<opt, kid, conn, sigs, ints>>

(* A loop without interfaces ends. *)
SelectNothing ==
  /\ p.pc = "select" /\ p.list = <<>>
  /\ p' = [p EXCEPT !.pc = "turn", !.keep = FALSE]
  /\ UNCHANGED <<opt, kid, conn, sigs, ints>>

(* The pass over what can be read ends when the children have changed. *)
ParentAccept ==
  /\ p.pc = "input" /\ Head(p.todo) = Unix
  /\ \E c \in Conns :
       /\ conn[c].at = "queued"
       /\ conn' = [conn EXCEPT ![c].at = "auth"]
       /\ p' = [AddChild(p, AuthOf(c)) EXCEPT !.pc = "turn", !.todo = <<>>,
                                              !.open = @ \cup {AuthOf(c)}]
  /\ UNCHANGED <<opt, kid, sigs, ints>>

(* A client's Q calls a parent_sigif that may have been deleted. *)
VisitInput ==
  /\ p.pc = "input" /\ Head(p.todo) # Unix
  /\ LET i == Head(p.todo)
         s == Read([p EXCEPT !.todo = Tail(@)], i)
     IN /\ \/ p' = ParentStep(IF s.changed THEN [s EXCEPT !.todo = <<>>] ELSE s)
           \/ /\ Sig \in p.freed /\ IsQuit(i)
              /\ p' = [p EXCEPT !.pc = "crashed"]
        /\ sigs' = IF IsQuit(i) /\ s.children THEN sigs \cup {"HUP"} ELSE sigs
        /\ conn' = AfterRead(i)
  /\ UNCHANGED <<opt, kid, ints>>

VisitSigTimeout ==
  /\ p.pc = "timeouts" /\ Head(p.todo) = Sig
  /\ LET s == [p EXCEPT !.todo = Tail(@)]
         t == IF Sig \in p.late THEN SigTimeout(s) ELSE s
     IN /\ p' = ParentStep(t)
        /\ sigs' = IF t.handled # p.handled THEN sigs \cup {"HUP"} ELSE sigs
  /\ UNCHANGED <<opt, kid, conn, ints>>

(* A visit for a timeout reads as well, but does not see the end of the
   input.  The pass goes on from an interface it has removed. *)
VisitCltTimeout ==
  /\ p.pc = "timeouts" /\ Head(p.todo) # Sig
  /\ LET i == Head(p.todo)
         reads == conn[i[2]].inbox # "none" \/ conn[i[2]].end = "reset"
         s == [p EXCEPT !.todo = Tail(@)]
         t == IF reads THEN Read(s, i) ELSE s
         due == i \in p.late /\ i \in t.armed /\ t.pc = "timeouts"
                /\ ~(reads /\ conn[i[2]].inbox = "r")
         u == IF due THEN [Shutdown([t EXCEPT !.armed = @ \ {i}], "full")
                             EXCEPT !.keep = FALSE]
              ELSE t
     IN /\ \/ p' = ParentStep(u)
           \/ /\ t.changed \/ (Sig \in p.freed /\ IsQuit(i))
              /\ p' = [p EXCEPT !.pc = "crashed"]
        /\ sigs' = IF IsQuit(i) /\ t.children THEN sigs \cup {"HUP"} ELSE sigs
        /\ conn' = IF reads THEN AfterRead(i) ELSE conn
  /\ UNCHANGED <<opt, kid, ints>>

TurnEnds ==
  /\ p.pc = "turn"
  /\ LET s == [ClearDeleteQueue(p) EXCEPT !.late = {}]
     IN p' = [s EXCEPT !.pc = IF s.keep /\ ~s.exit THEN "select" ELSE "outer"]
  /\ UNCHANGED <<opt, kid, conn, sigs, ints>>

(* Server::ready_to_quit; delete_children and the queue touch what is freed. *)
ReadyToQuit ==
  /\ p.pc = "outer"
  /\ LET shuts == p.asked # "no" /\ ~p.done
         s == IF shuts THEN DoShutdown(p) ELSE p
         quits == (shuts /\ p.asked = "part") \/ s.active = 0
     IN \/ p' = IF quits THEN [s EXCEPT !.pc = "ended"]
                ELSE [s EXCEPT !.pc = "select", !.keep = TRUE]
        \/ /\ shuts /\ p.asked = "full" /\ Sig \in p.freed
           /\ p' = [p EXCEPT !.pc = "crashed"]
  /\ UNCHANGED <<opt, kid, conn, sigs, ints>>

Program == \/ Main \/ SelectInput \/ SelectSignals \/ SelectTimeout
           \/ SelectNothing \/ ParentAccept \/ VisitInput \/ VisitSigTimeout
           \/ VisitCltTimeout \/ TurnEnds \/ ReadyToQuit
-----------------------------------------------------------------------------
(* The processes and the clients. *)

KidDies(k) ==
  /\ kid[k] = "running" /\ p.pc \notin Ends
  /\ kid' = [kid EXCEPT ![k] = "zombie"]
  /\ sigs' = IF p.pc = "main" THEN sigs ELSE sigs \cup {"CHLD"}
  /\ UNCHANGED <<p, opt, conn, ints>>

ParentInterrupt ==
  /\ ints < MaxInts /\ p.pc \notin Ends \cup {"main"}
  /\ ints' = ints + 1 /\ sigs' = sigs \cup {"INT"}
  /\ UNCHANGED <<p, opt, kid, conn>>

ParentConnect(c) ==
  /\ conn[c].at = "off" /\ Unix \in p.open /\ p.pc \notin Ends
  /\ \E says \in {"auth", "bad"} :
       conn' = [conn EXCEPT ![c].at = "queued", ![c].inbox = says]
  /\ UNCHANGED <<p, opt, kid, sigs, ints>>

(* A client waits for the reply to one command before it sends the next. *)
Takes(c) ==
  /\ conn[c].unread /\ conn[c].end = "open" /\ p.pc \notin Ends
  /\ conn' = [conn EXCEPT ![c].unread = FALSE]
  /\ UNCHANGED <<p, opt, kid, sigs, ints>>

Sends(c) ==
  /\ conn[c].at = "in" /\ conn[c].inbox = "none" /\ conn[c].end = "open"
  /\ ~conn[c].unread /\ conn[c].sent < MaxAsks /\ p.pc \notin Ends
  /\ \E cmd \in {"Q", "r", "S"} :
       conn' = [conn EXCEPT ![c].inbox = cmd, ![c].sent = @ + 1]
  /\ UNCHANGED <<p, opt, kid, sigs, ints>>

Hangs(c) ==
  /\ conn[c].at # "off" /\ conn[c].end = "open" /\ p.pc \notin Ends
  /\ conn' = [conn EXCEPT ![c].end = IF conn[c].unread THEN "reset" ELSE "closed"]
  /\ UNCHANGED <<p, opt, kid, sigs, ints>>

World == \/ \E k \in Kids : KidDies(k)
         \/ ParentInterrupt
         \/ \E c \in Conns : ParentConnect(c) \/ Takes(c) \/ Sends(c) \/ Hangs(c)

ParentNext == Program \/ World

(* The program runs while it can; nobody else has to do anything. *)
ParentSpec == ParentInit /\ [][ParentNext]_parentvars /\ WF_parentvars(Program)
-----------------------------------------------------------------------------
ParentTypeOK ==
  /\ p.pc \in {"main", "select", "input", "timeouts", "turn", "outer"} \cup Ends
  /\ \A s \in {p.list, p.pending, p.todo} : IsInjective(s) /\ ToSet(s) \subseteq Ifaces
  /\ p.refs \in [Ifaces -> -1 .. 2]
  /\ UNION {p.freed, p.late, p.open, p.armed} \subseteq Ifaces
  /\ p.active \in 0 .. Cardinality(Conns)
  /\ p.closing \cup p.stale \subseteq Conns
  /\ sigs \subseteq {"CHLD", "INT", "HUP"} /\ ints \in 0 .. MaxInts

(* parent ends of its own accord only when no process is left: whatever came
   together in one SIGCHLD, whoever was told to quit, and whichever client it
   was waiting for (parent.cc:124-156, 176-187, 191-209; server.cc:202-217). *)
EndsChildless == p.pc = "ended" => \A k \in Kids : kid[k] = "gone"

(* Once interrupted, or told to quit by a client, parent ends, though
   processes outlive the SIGHUP, die in between, or clients keep their
   connections (parent.cc:158-175, 191-209; server.cc:199, 202-254). *)
QuitObeyed == []<>(ints > 0 \/ p.handled => p.pc \in Ends)

(* -q: parent quits when it is childless (parent.oui:7).  It does not hold: one
   that is childless from the start waits for ever (README). *)
QuitWhenChildless ==
  []<>(opt.quit /\ (\A k \in Kids : kid[k] = "gone") => p.pc \in Ends)
=============================================================================
