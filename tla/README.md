# A formal model of le-dasng

le-dasng is the data acquisition system of an experiment, as a set of programs
on one machine: drivers acquire data, a telemetry generator puts it into rows,
`tm_bfr` distributes the rows, loggers and displays read them, a command server
distributes operators' commands to drivers, algorithms send commands at their
times, `subbusd` shares one bus among drivers, and `parent` waits for all of
them. All are written against one library, `libs/dasio`: an event loop,
interfaces, sockets with an authentication handshake, servers and clients.

This directory holds TLA+ models of the parts of that code that are hard to
test, TLC configurations that check them, and TLAPS proofs of what matters most
in all of them. `PROJECT.json` maps every definition to the lines it was
translated from; the paths below are relative to the repository root.

- [How to run](#how-to-run)
- [The system and its components](#the-system-and-its-components)
- [The modules](#the-modules)
- [The runs](#the-runs): what they show, bounds, fairness
- [The proofs](#the-proofs)
- [Known deviations](#known-deviations): where the code does not do what it says
- [Not modelled](#not-modelled)
- [Plan](#plan)

## How to run

    tlc -workers 2 -config TmQueueFifo.cfg  TmQueueFifo
    tlc -workers 2 -config Telemetry.cfg    MCTelemetry
    tlc -workers 2 -config Devices.cfg      MCDevices
    tlc -workers 2 -config Services.cfg     MCServices

pass. These end with a counterexample, each to one sentence of the repository:

    tlc -config BfrOverwrite.cfg   Bfr            tlc -config CanMread.cfg      MCCanBus
    tlc -config PlayerSpin.cfg     MCPlayer       tlc -config UnixNamesTwo.cfg  MCUnixNames
    tlc -config PlayerGarbled.cfg  MCPlayer       tlc -config LoggerCut.cfg     Logger
    tlc -config SerUsbUnarmed.cfg  SerUsb         tlc -config TmaHeld.cfg       MCTma

The proofs are checked by `tlapm` on `TmQueueProofs`, `BfrProofs`, `PlayerProofs`,
`UnixNamesProofs`, `DevicesProofs`, `ServicesProofs`, `TmaProofs` and `ListsProofs`;
`BfrProofs` and `ServicesProofs` take about ten minutes each, others up to some minutes.

Definitions whose comment begins "Mutant of X" are X as a plausible slip would
have written it; for every checked property `PROJECT.json` names one that
violates it, so that no property is true merely because of how the model is
built. They are used nowhere else.

## The system and its components

### How one program runs

Every program has one `Loop` (`libs/dasio/src/loop.cc`) and one thread. The loop
keeps a list of `Interface`s, waits in `pselect` for what their `flags` ask for
(read, write, except, timeout), and calls `ProcessData` of each that is ready.
A handler runs to its end before the next one begins. So within a program **a
handler is one atomic step**, and what interleaves are handlers, the kernel's
socket buffers, the peers at the other end, timers, and other programs. In the
models an action is a handler, with everything it calls. The hazards come from
what a handler leaves for a later one:

- a write the socket does not take is finished by a later `iwrite_check`, which
  calls `iwritten`; but `iwritten` is also called from within `iwrite`, when the
  socket takes the write at once, so a handler can be re-entered in its middle;
- interfaces are deleted by `delete_child`, which only queues them;
- flags say who will be called again, and an interface whose flag nobody sets is
  never called.

Four modules are finer than that. Where processes share something (the file
system, in `UnixNames`), an action is one system call. In `Parent` the turn of
the loop itself is spelt out: one step for what `pselect` finds, one for each
interface it visits, one for the queue of deletions. In `Player` and `Tma`, whose
handlers are long loops, an action is one turn of such a loop. In `Bfr` a handler is
one action up to its call of `run_read_queue`; from there on each reader that is
visited is one, in between peers may read.

### Components, their state, and what makes them correct

| component | state it keeps | operations | hard behaviour | what must hold | module |
| --- | --- | --- | --- | --- | --- |
| **telemetry queue** `tm_queue` (libs/dasio/src/tm_queue.cc) | a ring of rows (`first`, `last`, `full`); the chain of `tmq_ref`s that labels them; reference counts | `allocate_rows`, `commit_rows`, `commit_tstamp`, `retire_rows` | rows are claimed, filled and committed in three steps while a reader retires; wrap of ring and of the 16-bit minor frame counter; gaps | no row lost, repeated, relabelled; no assertion fails | `TmQueue` |
| **telemetry buffer** `tm_bfr` (utils/bfr/bfr.cc) | a `tm_queue`; the state of the record coming in; for each reader its place in the chain and the message being written | records in, readers come and go, `run_read_queue`, `read_reply`, `iwritten`, `run_write_queue` | handlers that re-enter one another, slow readers, a writer blocked by them, readers that leave | each reader gets every row once, in order, under the right time stamp; the writer is not blocked for ever | `Bfr` |
| **generator and player** `tm_generator`, `tm_gen_bfr`, `rdr` (libs/dasio/src/tm_gen.cc, utils/rdr/rdr.cc) | a `tm_queue`, started/regulated/period, the row timer, a mutex, the connection to `tm_bfr` with its output buffer, the log file | the TM commands, `transmit_data`, reading, the row timer, `buffering` | flow control across three handlers; a mutex handed on between functions; end of file while data waits | every row of the log gets out, reading never stops for good, the mutex is free | `Player` |
| **telemetry receivers** `tm_rcvr`, `lgr` (libs/dasio/src/tm_rcvr.cc, utils/lgr/lgr.cc) | the state of the framing, the buffer; the open file and its size | bytes in, records out, the rows divided among files | headers cut in two, looking for the next header | a damaged record costs itself only; no file over its limit | `Logger` |
| **algorithm interpreter** `tma` (libs/dasio/src/tma.cc) | for each partition its state, basetime, lastcheck, next command, what is left of a hold | a second goes by; validate, resume, hold; tma_hold | partitions that act on one another within a second; a clock that stops, counted from two times | commands are issued when due, a hold lasts as long as its timeout | `Tma` |
| **server names** `unix_name_t` (libs/dasio/src/unix_name.cc, socket.cc) | lock file, directory, pid files and socket files in /var/run/linkeng | claim a name, bind, release | several processes, one system call at a time; killed processes | at most one living server of a name; clients reach it | `UnixNames` |
| **command server** (libs/dasio/src/cmd_server.cc) | a list of commands with reference counts; each driver's place in it | a command comes, a driver connects, gets writable, leaves; Quit; signals | drivers at different paces over one shared list; the end of the server starts in another handler | each driver gets each command once and in order; no command is freed under a driver; Quit ends the server | `CmdServer` |
| **subbus server, USB** (drivers/subbus/subbusd, serusb) | the list of requests, each a pointer to its client; the request at the board; a timeout | requests, answers, timeouts, clients that close | late answers, broken lines, clients that go away while they wait, a port that is full | one request at the board; no request of a deleted client; each client gets its own answer, and gets one | `SerUsb` |
| **subbus server, CAN** (drivers/subbus/subbusd/CAN) | the list of requests, the frames of one request and one reply; the state of the serial adapter | as USB, with requests and replies in several frames, multiple reads part by part | re-entry from `send_packet`; frames refused, lost, late | a reply consists of frames of its own request; each client gets one | `CanBus` |
| **Modbus master** (libs/dasio/src/modbus_rtu.cc, drivers/alicat) | the list of polls and of commands, the pending request, the input | poll, command, answer, timeout, `tm_sync` | answers that are late, cut, wrong; commands against polls | data are of the request they are for; every device has its turn | `Modbus` |
| **parent** (utils/parent/parent.cc) | the children, whether told to end, its clients | SIGCHLD, SIGHUP, SIGINT, timeouts, commands | signals that merge; interfaces deleted in their own handlers | it ends when and only when it should | `Parent` |
| **event loop** `Loop` | the children, the queue of deletions, `children_changed`, `loop_exit` | add, remove, delete children; one turn of `event_loop` | handlers change the list that is being walked | a request to end is honoured | in `Parent` |
| **server, authentication** `Server`, `Authenticator`, `SubServices` | active and total clients, shutdown flags | accept, authenticate, hand the descriptor on, count, shut down | the interface is replaced in its own handler | counts agree with clients; shutdown ends | in `Parent`, `Datum` |
| **sockets and clients** `Socket`, `Client` | `socket_state`, `clt_state`, retries and delay | connect, negotiate, reset, reconnect | failures at every stage | a client comes back when its server does | in `Datum`, `UnixNames` |
| **interface** `Interface` | input buffer, `flags`, timeout, output vector (`wiov`) and output buffer (`obuf`) | `ProcessData`, `iwrite`, `iwritev`, `fill_obuf`, `consume` | partial writes, re-entry | what is written arrives whole and in order | in `Player`, `SerUsb`, ... |
| **collection data** `tm_data_rcvr`, `tm_data_sndr`, `tm_gen_col` | one datum, the frame under way | a frame in, a newline back, connection and reset | a frame before the newline is out; programs started again | data are one frame's, and a driver gets back to its collector | `Datum` |
| **others** | | | | see [Not modelled](#not-modelled) | |

### How they interact

    log files -> rdr (Reader, a tm_generator) --+
                                                +--> tm_bfr --> lgr, displays, tm_clients
    drivers -> tm_data_sndr -> collector -------+
                                ^ row timer
    operators, algorithms -> cmd/server -> cmdif_rd -> Cmd_turf -> drivers, rdr's commands
    drivers -> subbusd -> serusb_if, CAN -> boards       alicat -> RTU -> Modbus devices
    parent -> waits for all of them, and ends them

Between programs there are only stream sockets (messages may be delayed and cut,
not lost or reordered), the files of `UnixNames`, and signals. A generator calls
its own queue; `tm_bfr` owns another of the same class.

## The modules

| module | models | what a state is | note |
| --- | --- | --- | --- |
| `TmQueueOps` | tm_queue.cc as operators | a queue is a record `[first, last, full, chain]` | shared by the queue modules, `Bfr` and `Player` |
| `TmQueue` | a writer (claim, fill, commit) and a transmitter of one queue | the queue, the slots, the claim, what was sent; history counters `committed`, `retired`, `base` | `base[i]` is the number of rows before those `chain[i]` still holds: it makes the order of the chain arithmetic |
| `TmFifo` | the promise: a FIFO of stamps and labelled rows | `pending`, `delivered` | abstract |
| `TmQueueFifo` | the refinement `TmQueue` => `TmFifo` | `pending` is the chain spelt out | INSTANCE with a refinement mapping |
| `Bfr` | bfr.cc | one record `d`, since its handlers call one another: they are functions from record to record | `d.calls` is the stack of calls of `run_read_queue`, each with its place in `all_readers`: `Visit` is a turn of the innermost, `Return` its end |
| `Player` | rdr.cc, tm_gen.cc, interface.cc's output buffer | `pc` says where in the handler the thread is; `tm_bfr` reads meanwhile | `MCPlayer` gives logs and options |
| `Logger` | tm_rcvr.cc, lgr.cc | what was sent (`src`), the stream (`wire`), the receiver (`rcvr`), the files (`files`) | |
| `Tma` | tma.cc, states.c | the partitions, and where `tma_process` is | |
| `UnixNames` | unix_name.cc, socket.cc connect and close | a `pc` for each process, one action for each system call, the file system | `MCUnixNames` gives processes |
| `CmdServer` | cmd_server.cc and server.cc's shutdown | a record `d` for one interface, its list and drivers | names it shares with others begin with `Cmd`, as in the next ones with `Parent`, `Data`, `Ser`, `Can` |
| `Subbus` | subbusd.cc | no state: the clients that `SerUsb` and `CanBus` serve | |
| `SerUsb` | subbusd.cc, serusb.cc | a record `p` for list, port, clients; the board and its lines | |
| `CanBus` | subbusd_CAN_interface.cc, subbusd_CAN.cc | a record `q` for list, reply, link; frames from the boards | |
| `Modbus` | modbus_rtu.cc, alicat.cc | a record `m` for the master, the line, the devices | |
| `Parent` | parent.cc on loop.cc, server.cc | a record `p` for the program with its children and its place in the loop; processes, connections, signals | |
| `Datum` | tm_data_rcvr.cc, tm_data_sndr.cc, client.cc, socket.cc | records for driver and collector, the connections between them | |
| `Lists` | `list::remove` | no state | |
| `MCTelemetry` | `Player`, `Bfr` | a behaviour is one of the two, the other stays in its initial state | |
| `MCServices` | `UnixNames`, `CmdServer`, `Parent`, `Datum`, `Logger`, `Tma` | a behaviour is one of the six | |
| `MCDevices` | `SerUsb`, `CanBus`, `Modbus` | a behaviour is one of the four servers | |
| `*Proofs` | theorems | | TLAPS |

`MCTelemetry`, `MCServices` and `MCDevices` put small systems side by side: a disjoint
union of state graphs, no product of them. They extend the systems' modules, so that
the theorems are about the very properties the runs check and TLC evaluates their
assumptions.

A pass that ends by itself (`turf_check` for every driver, `Shutdown` for every
interface, the messages of a read, the parts of a message) is written as a
recursive function on `0 .. n`, about which something can be proved, `n` being as many
turns as there can be. No module has RECURSIVE operators.

What is abstracted, in all of them: bytes are units (a row, a header, a command,
a request, half a frame); the content of a row is the number it has in the stream,
so a mistake in copying shows as a wrong number; text, logging and parsing errors
that change no state are left out; a socket is a bounded number of units in
flight.

Correspondence worth knowing when reading:

- `TmQueue`: `Claim`/`Fill`/`Commit` are the turns of `Reader::process_data`
  (rdr.cc:253-270); a full queue disables `Claim`, where the code turns round
  again. `Transmit(n)` is one turn of the loop of `transmit_data`
  (tm_gen.cc:86-128), `n` being 1 for a single row or all of the first `tmq_ref`.
- `Bfr`: `RecvTstamp`, `RecvHeader`, `RecvRow` are `protocol_input`,
  `process_tm_info` and `data_state_T3` as the bytes come in; `Writable` is
  `iwritten`; `Connect`/`Disconnect` are constructor and destructor of a reader;
  `Visit` is a turn of the loop of `run_read_queue`, with the `read_reply` it calls,
  `Return` what follows the loop. A message that goes out at once while the writer is
  blocked calls `run_read_queue` again: a place more on the stack.
  `srvr_has_shutdown()` is false whenever a handler runs, so the branch at
  bfr.cc:486 is never taken and has no action.
- `CmdServer`: `Turf` and `TurfCheck` are the functions of the same names.
  `Writable` is `Cmd_turf::iwritten`. What a Quit does is split as in the code:
  `Quit` (the reply is begun), `ReplyOut` (it is out), `Stop` (the loop ends).
- `SerUsb`: `Process` is `process_requests`, `SerComplete` is `dequeue_request`,
  `Response` `process_response`. `armed` is `Fl_Timeout` among the port's flags,
  which follows the timeout only at the end of the port's own handler
  (interface.cc:101-107). `CanBus` has the same names for the same functions.
- `Player`: `Copy` is one turn of `while (n_rows)`, `SendTstamp`, `SendRows`,
  `SkipRef` and `EndTransmit` are turns of `transmit_data`. `buffering` stands
  for `tm_gen_bfr::buffering` and `Reader::is_buffering`, which are never
  different between two calls. The commands are functions on `gen`, with the
  mutex passed through them as in the code.
- `Modbus`: a request is known by its device and function, which is all an answer
  says of it; stale counts and the list of free request objects are left out. A
  device that is asked again leaves what it was at.
- `Parent`: what freed memory leads to is a choice between a crash and going on
  with the value it had.
- `Tma`: one action for each kind of command in `tma_process`'s first loop,
  `Switch` for the generated switch over the state it returns, `Shift` for the
  second loop. `Conds` are the
  substates in which the generated code looks for a hold's condition.
- `Logger`: `LgrRead` is `protocol_input` on what a read brings, to the end. `Round` is
  one turn of the loop in `process_message`, `ProcessData` is `process_data_t3`, each
  of its turns a `Divide`.

## The runs

Deadlock is not checked anywhere: every model is of a finite workload, and a
program that has done its work stops.

| run | question | properties | distinct states |
| --- | --- | --- | --- |
| `queue` | Does the ring with its chain behave as a FIFO, with one writer and one transmitter interleaved between claim, fill and commit? | `IInv`, `RowsIntact`, `AssertsHold`, liveness `AllTransmitted`, refinement `ImplementsFifo` | 43 thousand |
| `telemetry` | Does flow control of the player work under all commands? Does `tm_bfr` give each reader what came, and go on? | `MutexFree`, `TimerRight`, `NoOverflow`, `EndsComplete`, liveness `AllPlayed`; and of `tm_bfr` those below | 283 thousand |
| `devices` | Is each request answered, by its own answer, whatever boards and devices do? | below | 683 thousand |
| `services` | Do the servers, `parent`, a datum, the logger and an algorithm keep their promises? | below | 387 thousand |
| `bfr_overwrite` | Do rows that are being written stay in place? *No.* | `InFlightIntact` | |
| `player_spin` | Does every read end, with regulation? *No.* | `HandlersEnd` | |
| `player_garbled` | Are messages whole however writes are cut? *No.* | `StreamWhole` | |
| `serusb_unarmed` | Does a client get a reply when the board never answers? *No.* | `SerCompleted` | |
| `can_mread` | Is a multiple read acknowledged only when all of it was? *No.* | `AckMeansAll` | |
| `names_two` | Is a name served once, if a server gives it up while two others claim it? *No.* | `OneServer` | |
| `logger_cut` | Are rows logged as they were sent, however they are read? *No.* | `LoggedAsSent` | |
| `tma_held` | Does a hold of one second end? *No.* | `HoldEnds` | |

A run whose answer is *No* finds the code at odds with what a comment or document
of the repository says; see [Known deviations](#known-deviations).

What `devices`, `services` and, of `tm_bfr`, `telemetry` say of each system:

| system | states | safety | liveness |
| --- | --- | --- | --- |
| serusb | 304 thousand | `NoDangling`: no request of a deleted client. `OwnUntilLate`: until a request times out, an answer is for the request it is given to. One request at the board (`PendingIsFirst`, part of `AllTypesOK`) | `Completed`: each request is replied to |
| socket, slcan | 12 and 130 thousand | `OwnFrames`: a reply is put together from frames of its own request, in order. `OnePerClient`: a client has one request at a time and gets one reply | `Completed`, unless the clock of a request was stopped for good (a deviation) |
| modbus | 237 thousand | `DataOwn`: until a request is given up before its answer, data are of their own request | `AllServed`: every device is asked again and again, unless a write failed |
| names | 6 thousand | `OneServer`: two processes are never servers of one name. `ClaimStands`: a claimed name stays claimed, and its socket leads to its server | `AllStartOrEnd`: each process gets its name, is refused or ends |
| cmd | 131 thousand | `CommandKept`: no command is freed before all drivers have it. `InOrder`: each driver gets each command once, in order | `ClosedAfterAll`, `Delivered`, `QuitEnds` |
| parent | 97 thousand | `EndsChildless`: it does not end while there are processes, but for a crash | `QuitObeyed`: once told to end, it ends |
| datum | 43 thousand | `DataWhole`: the datum is a whole frame that the driver sent | `Reconnects`: a driver gets back to its collector |
| bfr | | `NoAssertFails`, `RefCounts`: no `tmq_ref` is deleted under a reader or kept for none. `StreamInOrder`: each reader gets every row that came, once, in order. `StampedRight` | `WriterResumes`: a blocked writer goes on, as long as no reader left |
| logger | 83 thousand | `DamageContained`: damaged are at most rows of messages of which a read had brought the header's first four bytes and no more; no other row is wrong, doubled or passed over, and when the stream is empty none waits in the buffer, unless it came behind such a message. `FilesBounded`: files keep to their limit and each can be read by itself | |
| algo | 27 thousand | `OnTime`: no due command is left at the end of a second, the clock of a state stands still in holds only. `HoldLasts`: a hold waits for what is left of its timeout | |

Every model's type invariant is checked: in `AllTypesOK`, `IInv`, `RefCounts`
(`Bfr`) and `TimerRight` (`Player`).

### Bounds, and why they are enough

- **queue**: a ring of 3 rows, minor frames of 2, a counter that wraps at 3,
  6 rows, 2 stamps, records of up to 3 rows, gaps of at most 1. The ring wraps
  twice, is full and empty in every position, a record is split by the end of
  the ring, gaps and stamps fall between any two rows, and the counter wraps with
  a `tmq_ref` spanning the wrap. The proofs cover every other size.
- **player** (run `telemetry`): two files with a repeated and a new time stamp, a ring
  of 2 rows, reads of 5 units, an output buffer of 6, a socket of 2, two commands at any time between
  two handlers, started by option, by command or by the connection. The ratio of
  output buffer to read is below that of the code (16384 to 12288 bytes), and a
  read's messages do not fit the socket, so each is cut. The proofs cover every
  size and every number of commands, for what they say.
- **serusb**: two clients, three requests, one code, since two equal codes are
  what makes answers indistinguishable; a port that holds two requests; a board
  that answers well, wrongly or in pieces, and may answer late.
- **socket, slcan**: two clients, three parts, requests of one part of one frame
  and of two parts of two and one frames; frames refused in both ways and lost; two
  openings of the adapter. Eight request numbers are more than are under way, as 64
  are in the code.
- **modbus**: two devices, two parts of answers on the line, one command, one
  write that waits or fails. A late answer needs no more than one other request.
- **names**: three processes, two of the same service and one of another in the
  same directory. Three scenes: all of them run and two are killed; two of one
  service, or one of each, of which one gives its name up. Each process claims once and pids are not used again, so three is the least
  with which two can contend for what a third has left.
- **cmd**: two drivers, two clients, three commands, sockets that hold one, one
  driver that leaves, a signal at any time: one driver can be two commands behind
  the other and one of them can leave in between.
- **parent**: two processes, one of them monitored, one connection with two
  commands, one interrupt, all options. Two processes merge their SIGCHLDs and die
  in either order; with a second connection there are over 3.6 million states, and
  in those that were searched nothing was violated.
- **datum**: frames of two units in a buffer of three, so that a read can end with
  half a frame behind a whole one; a socket of two frames; three connections, three
  synchronizations, each program started twice.
- **bfr** (run `telemetry`): a ring of 2 rows, minor frames of one row (the only ones
  `process_tm_info` accepts for T3), two readers, one of them fast, sockets that hold one
  item, 3 rows, 2 stamps, gaps of 1, one reader that may leave. Sockets of one
  item make every message of two items a partial write; the ring of 2 makes the
  writer block. Records are of one row (`MaxRec`): with longer ones the wrap
  deviation below hides everything else. The proofs cover every number of readers and
  all sizes, and longer records as long as each fits before the end of the ring.
- **logger**: messages of one to three rows in a buffer of ten units, so that a whole
  message can stand behind a damaged one; files of 40
  bytes for rows of 8: a file takes less than two whole messages, so that each can
  be divided. Six rows, two time stamps. The proofs cover all sizes.
- **algo**: two partitions with two states each, seven seconds, two statements from
  outside. The table has a hold for a condition with an else, a hold that another
  partition resumes, one by timeout only, one by condition only, and a state that
  ends one of another partition. The proofs cover every table.

### Fairness

- A peer that stays goes on reading (`PeerReads`, `DriverReads`, `BfrReads`,
  `Drain`), a board and `tm_sync` go on. Where a peer may leave, leaving is an
  action without fairness; a Modbus device or a board that is `Silent` owes
  nothing.
- Handlers: the loop visits, each time round, every interface whose descriptor
  `pselect` reported (loop.cc:185-209), and handlers end; so a handler that stays
  ready is called: weak fairness, in `Bfr` and `CmdServer` spelt out as
  `[]<>~CanX \/ []<><<X>>_vars`, which TLC evaluates faster. In `Player` steps
  inside a handler alternate with the loop, so what the loop calls next has
  strong fairness.
- Timeouts have weak fairness too. The loop looks at timeouts only when
  `pselect` reports nothing else (loop.cc:129-144), so an interface that has
  input at every turn keeps timeouts from being looked at: what is checked of
  timeouts is for a system that is idle now and then, as these are. In `Parent`
  that condition is part of the model.
- Nobody is obliged to send anything: commands, requests, records, connections,
  signals, crashes and departures have no fairness (`Negotiated` of `Player`
  excepted: `AllPlayed` is about a `tm_bfr` that answers).
- `UnixNames` has weak fairness for each process's next call, which a killed
  process does not make. The retry of the lock every 200 ms is one of the calls.
- `MCServices` and `MCDevices` put the conditions of systems that never run in one
  behaviour into one `WF`, which is equivalent and cheaper: of `A \/ B` only one is
  ever enabled in a behaviour. `MCTelemetry` has a disjunction instead: each program
  is as fair as its own specification says. `Logger` and `Tma` have no fairness and no liveness:
  what must be done in time is part of their invariants (`OnTime`, `HoldLasts`).

## The proofs

TLAPS proves these for every value of the constants:

| module | theorem | says | under |
| --- | --- | --- | --- |
| `TmQueueProofs` | `Invariance` | `Spec => []IInv` | `QueueAssumption`, `BoundAssumption`: sizes are at least 1 |
| | `TypeCorrect` | `Spec => []TypeOK` | |
| | `RowsStayIntact` | `Spec => []RowsIntact`: no row is lost or overwritten before it is retired | |
| | `ChainStaysCovering` | `Spec => [](ChainCovers /\ TstampsGrouped)`: the chain covers the ring end to end | |
| | `AssertionsHold` | `Spec => []AssertsHold`: no assertion of `commit_rows` or `retire_rows` fails | |
| | `ChainIsFifo` | `Spec => ImplementsFifo`: the queue is a FIFO of stamps and rows with their labels | |
| `BfrProofs` | `BufferSound` | the inductive invariant of references and calls, `[]SoundInv` | `QueueAssumption`, `BfrAssumption` |
| | `RefCountsHold` | `[]RefCounts`, for any number of readers and records of any length | |
| | `WholeRecordsRight`, `OneRowRight` | the inductive invariant of rows and logs, `[]RightInv` | records have room in one piece (`[]RecordsWhole`), or are of one row (`MaxRec = 1`) |
| | `StreamsInOrder`, `OneRowStreamsInOrder` | `[]StreamInOrder`, for any number of readers, all sizes, whoever comes and goes | the same |
| | `StampsRight`, `OneRowStampsRight` | `[]StampedRight` | the same |
| | `NoAssertion`, `OneRowNoAssertion` | `[]NoAssertFails` | the same, and the input may block (`Blocking`) |
| `UnixNamesProofs` | `ClaimsInvariance` | the inductive invariant | `NamesAssumption`; nobody gives a name up (`NoReleases`) |
| | `NamesServedOnce` | `[]OneServer`, for any number of processes, services and crashes | |
| | `NamesStand` | `[]ClaimStands` | |
| `PlayerProofs` | `GeneratorInvariance`, `PlayInvariance` | the inductive invariants | `PlayerAssumption` |
| | `MutexStaysFree` | `[]MutexFree`, for every sequence of commands | |
| | `TimerStaysRight` | `[]TimerKept`, which is what `TimerRight` says besides types | |
| | `EndsAfterAll` | `[]EndsComplete`, for all files, buffers and commands | |
| `TmaProofs` | `PartitionsGood` | the inductive invariant | `TmaAssumption`; holds wait (`HoldsWait`) |
| | `CommandsOnTime` | `[]OnTime`, for every algorithm | |
| | `HoldsLast` | `[]HoldLasts`, for every algorithm | |
| `ServicesProofs` | `CmdInvariance` | the inductive invariant of the command server | `CmdAssumption` |
| | `CmdCommandKept`, `CmdInOrder` | `[]CommandKept`, `[]InOrder`, for any number of drivers and commands | |
| | `CmdClosedAfterAll` | `CmdSpec => ClosedAfterAll` | |
| | `ParentInvariance` | the inductive invariant of `parent` | `ParentAssumption` |
| | `ParentEndsChildless` | `[]EndsChildless`, for any number of processes and clients | |
| | `DatumInvariance` | the inductive invariant of a datum | `DatumAssumption` |
| | `DatumStaysWhole` | `[]DataWhole`, for all sizes of frame, buffer and socket | |
| | `LogInvariance` | the inductive invariant of the files | `LoggerAssumption`: a buffer takes a whole message |
| | `FilesStayBounded` | `[]FilesBounded`, for all sizes of rows, messages and files, however reads are cut | |
| | `StreamInvariance` | the inductive invariant of stream, buffer and log | |
| | `DamageStaysContained` | `[]DamageContained`, for all sizes, however reads are cut | |
| `DevicesProofs` | `FreshnessInvariance` | the inductive invariant of the Modbus master | `ModbusAssumption` |
| | `DataStayOwn` | `[]DataOwn`, for any number of devices and requests | |
| | `SerInvariance` | the inductive invariant | `SerUsbAssumption` |
| | `SerNoDangling`, `SerPendingIsFirst` | `[]NoDangling`, `[]PendingIsFirst` | |
| | `SerOwnUntilLate` | `[]OwnUntilLate` | |
| | `CanInvariance` | the inductive invariant | `CanAssumption` |
| | `CanOnePerClient` | `[]OnePerClient` | |
| | `CanOwnFrames` | `[](q.no <= Ids => OwnFrames)` | |
| `ListsProofs` | | what passes over lists compute and keep | |

The assumptions that are more than the shape of the constants exclude what is
known to fail: a server that gives its name up (run `names_two`); holds of zero
seconds, or of one second without a condition (run `tma_held`); in `tm_bfr` records
that are received in two blocks, and an input client that must not block (both below,
under `tm_bfr`). `RecordsWhole` says of a state that the rest of the record coming in
has room in one piece; it holds of every behaviour in which records are of one row,
and is no assumption there. `CanOwnFrames`
speaks of a behaviour until request numbers are used again: a frame that is later
than that many requests would be taken for an answer to another one, in the code
as in the model. There are 64, and 8 in the run, which makes fewer requests.

**Queue.** `RowsIntact` and `ChainCovers` are not inductive. A committed row
stays intact only if the slots a writer fills are none of those in use, which
needs the claim to be free still when it is filled: `ClaimIntact`, that the claim
is within `AllocateRows(q)` whatever was retired since. That retiring `n` rows
moves `first` to the slot of the next `tmq_ref` needs the chain to cover the
ring without gaps (`ChainCovers`), which after a removal of the head needs the
order of all pairs of `tmq_ref`s in the chain (`ChainOrdered`). `full => first =
last` tells a full ring from an empty one. `IInv` is the conjunction. What happens
to the chain is proved apart from the actions: `CommitChain` and `RetireChain` say
what the two operators of `TmQueueOps` do to it, `ExtendChain`, `GrowChain`,
`ShrinkChain` and `DropChain` that the four kinds of change keep it covering and
ordered; `WrapSlot` and `SlotsApart` are the arithmetic of the ring.

**Queue as a FIFO.** What the refinement maps to `pending` is one piece for each
`tmq_ref`, a time stamp if it differs from the last one and its rows with their
labels, put together by `FlattenSeq`. What the chain operators do to the chain is
carried over to the pieces: a commit changes the last piece or appends one, a retire
the first or drops it; that `FlattenSeq` of them then has rows appended, or loses as
many at its front, is proved from its recursive definition (`FlattenSteps`,
`FlattenLast`, `FlattenFirst`). `IInv` is not enough, since it says nothing of labels: `FifoInv`
adds that each `tmq_ref` expects the label behind its rows (`Labelled`), that slots
that are filled and not committed carry the labels the commit will give them, and
that rows delivered or pending are as many as were committed. Labels are added up
modulo the minor frame and the counter: `LabelsAdd` says that `n` rows on from `m`
rows on is `m + n` rows on. With that, `CommitTstamp` and `Commit` are `Put`, `Transmit`
is `Take` or, when it drops an empty `tmq_ref`, a stutter, `Claim` and `Fill` are
stutters.

**Buffer.** Two invariants, the second on top of the first. `SoundInv` is about
references: the `tmq_ref`s of the chain have different names, each counts exactly the
readers that hold it, readers hold none that is not in the chain; a reader that is
not connected has nothing; each call of `run_read_queue` under way, but the innermost,
is at a reader; and input that is read has room (`Awake`). `RefCounts` is
part of it. It holds for records of any length, whatever assertion fails.
`RightInv` adds what the rows are. How many rows came before those of each `tmq_ref`
is no part of the state here, as `base` is in `TmQueue`; `RowsRight` says that there
are such numbers (`bs`) with which the chain lays the committed rows round the
ring (`Laid`), each slot in use holds the row the chain says and the stamp it came
under (`InRing`), and each reader's log ends where its `tmq_ref` and its count of rows
say (`Followed`). To it come the record coming in, which fills free slots behind the
committed rows (`Fresh`), that no reader is left neither ready nor writing
(`Ready`), and that no assertion has failed (`Alive`). The lemmas say of each
function of bfr.cc how chain and numbers change: rows are appended, a `tmq_ref` is
appended, rows are retired, the head is dropped. That `run_read_queue` is entered again
within itself does no harm, since a reader that is visited is marked as not ready, and
what a turn keeps does not depend on where other calls are. `RecordsWhole` is
needed for `Fresh` only: behind the first block of a divided record the next one
begins with an `off_queue` that is not zero, and rows are committed again.

**Logger.** `LgrInv` has the files: one that is open has been begun with a time
stamp, and has grown by no more than the limit allows but for one row behind a bare
stamp (`FileRight`). `StreamInv` has the stream. What tm_bfr sends is laid out in
*places*, unit `at` of a message of `n` rows that begins with row `first` under stamp
`prev`; the units in the buffer and on the way are those of consecutive places (`Laid`), the
last of them the end of a message. `Begins` says what receiver and files know when a
place is next: the stamp, that rows before it are logged or were cut, that the receiver
either stands at the beginning of a message, or looks for a header within one that was
cut. Of a turn of `process_message`: it handles a message to its end, or asks for more
of it, or finds no header where it looks; then `seek_tmid` stops at the next message's
beginning or behind what was read, and all it passes are rows of a message that was cut.
`Reached` is this after `k` turns, with a measure of progress that shows that the
number of turns in `Messages` is enough (`Left`): what is left in the buffer is less
than is asked for, unless a message was cut. `LogSound` is what then holds of the log,
whatever becomes of the receiver.

**Names.** There is at most one lock file (`OneLockFile`); whoever is between
`flock` and `unlock` holds it (`LockHeld`); and while a process replaces the pid
file of a name nobody who has claimed that name is alive (`NobodyThere`), which
follows from what the pid file said when it was checked (`ClaimOnRecord`) and stays
true while the lock is held. A killed process loses its `flock` and leaves its
files. A release would break the first conjunct.

**Modbus.** What makes an answer wrong is that its request was given up. As long as
none was (`late` is false), whatever the devices are at, whatever is on the line or
has been read is of the pending request, and so is the request that waits to be
written (`FreshAt`). `DataOwn` says more than the comparison of address and function
in the code: that the answer was made for this very request.

**Player.** Unless it hangs in a second lock, a generator has its mutex free and
its row timer runs with the period just when started and regulated say so
(`Settled`). `execute` takes the mutex and hands it on to `tm_start`, `tm_play` and
the events; lemmas say of each that it gives the mutex back, and what it does to the
timer, and one for each command puts them together. Only commands change the
generator, so whatever else the program is about leaves this as it is. That `-q` ends
playback with nothing left behind follows from `FullSpeed`: reading goes on only
while the output buffer is empty (`mlf.reading => ~buffering` between handlers), so
the end of the last file is read with the buffer empty, and what might fill it again,
a row of the timer or of a single step, makes the playback a regulated one. It also
needs that no command makes a file that is closed one to be read
(`FileStands`) and that none changes `-q` (`AsToldAtStart`).

**Interpreter.** The two properties look at the ends of turns; what holds at every
step is `TmaInv`, which says of each partition by itself, wherever the main loop
is, that it is `Good`: its clock is right to within a second; what is next was not
due when it was last looked at; a hold that was reached was due in the last second
or is due in this one, and what is left of its timeout ends when it should. To
this comes which partitions the first loop is through with (`Settled`): nothing is
due in them and no hold is over. Without it the second loop could count off a
timeout to zero, or count a second as run in which a command was due. That is the
case `HoldsWait` excludes. Actions change one partition (a `resume` two), so
`MovesWell` and `OneMovesOn` reduce each to what it does to that partition;
`GoesOn` (on to a later command), `Reached` (a hold), `ShiftedIsGood` (the second
loop) and `NextSecond` are the steps a partition can make.

**Command server.** `CmdRight` says of the record: the commands in the list are
numbered one by one and the last is the one to be filled in (`ListRight`); each counts
no fewer drivers than are at it (`Counted`; more, once one has left), which is why
`clean_out` frees none under a driver; and the last command a driver was given is the
one before its place (`Placed`). One turn of `turf_check` moves one driver by one command,
and keeps this; `turf_check`, `Turf` and `clean_out` are passes of such turns. For
`ClosedAfterAll`, `CmdStands` adds that a driver has been given every command that
was issued since it connected and stands before its place, that it is past the empty
command exactly if it is closing (`AllStand`), and that between two handlers none is
closing (`NoneCloses`): those that are have been deleted at the end of the pass.

**parent.** While it has children, nothing has made it end: no `loop_exit`, no
shutdown asked for, no client closing or with a timeout; and its own signal handler is
in the loop (`Waiting`), which is why the loop does not end for want of anything to
wait for. When it has none, `wait` has collected every process (`NoneLeft`). A pass
visits only interfaces that have a handler for it (`Visits`). What `Shutdown`, `do_shutdown` and
`clear_delete_queue` leave alone is proved for each of them.

**Datum.** `DataWhole` follows from what may come: what the collector has read and
not used and what the connection it reads from holds, put together, is an end of a
sequence of whole frames that the driver has sent (`Aligned`), and begins with a whole
frame if the buffer takes no more than one (`StreamOK`). The connection that serves the
datum is its owner's (`LinkOK`), and the driver writes to the last of its connections,
a frame only once that has been taken up (`DriverOK`): so a frame of a driver that was
started again cannot come behind part of one of the old.

**Subbus, USB.** A client that waits has one request in the list and no other has, so
what the list points to exists. That answers are compared by their code only does
no harm while no request has timed out, because then of the board, its input and
the line together at most one thing can be taken for an answer (`Flow`), and it is of
the first request. With a timeout that becomes false at once, which is why
`OwnUntilLate` says no more.

**Subbus, CAN.** Requests are in the list in the order they were asked, one for each
client that waits (`CanQueue`); every frame on the bus, in the socket or in the input
buffer that has the number of the request at the bus answers that request, as long as
numbers are not used again (`Fits`); what was put together are the first frames of its
answer (`Own`). A reply keeps that however its frames come: one of another number, or out of
place, is not taken.

**Lists.** The library's theorems on induction take an operator as parameter, which
none of the provers can instantiate. Over a set of numbers it can be stated
without one: `Upwards` says that a set that holds 0 and with each number up to `n` the
next one holds all of them, `Recursion` that a function defined by recursion on
`0 .. n` exists and is what its definition says. What `Only` returns and what the passes
over lists do is proved from these.

Not proved, only model-checked: liveness (out of the prover's reach); of `Player`,
`NoOverflow`, which need not hold for other sizes and logs (with an output buffer no
larger than a read, what a read becomes may be larger than the read: a record that is
divided at the end of the ring gets a second header), and the types in `TimerRight`,
whose other part is `TimerKept`; the types in `AllTypesOK`, apart from those that the
inductive invariants hold.

## Known deviations

Where modelling met code that does not do what it, or a document, says. Those
with a run are in `PROJECT.json` under `findings`. Others are definitions that no
run checks; each can be seen by giving the module named, with the values that
`MCServices`, `MCDevices` or `MCTelemetry` or its configuration gives the constants, a
configuration of its own and the change that is stated. Some are only outcomes of a model (`"failed"`,
`"aborted"`, `"lost"`).

**tm_bfr** (`Bfr`)

- *Rows are overwritten while they are being written* (run `bfr_overwrite`).
  `read_reply` counts rows as done when it has put the vector together
  (bfr.cc:536-541); the vector points into the ring; once all readers have
  counted a row it is retired and its slot may be filled with a new one before a
  slow socket has taken the old.
- *A record longer than the rest of the ring is committed twice over.* `off_queue`
  is set back only behind a header (bfr.cc:178, 340), so the second block of a
  record is committed together with the rows of the first (bfr.cc:327).
  `StreamInOrder` with `TotalQrows = 3`, `MaxRec = 2`, `MaxLeaves = 0`; and
  `NoAssertFails` with `MaxRec = 2`.
- *An input client that must not block is blocked*, which bfr.cc:220 asserts never
  happens: `NeverBlocks` with `Blocking = FALSE`.
- *A reader that leaves wakes nobody* (bfr.cc:616-620): a writer blocked on it
  stays so until another reader takes something. `BlockedWaitsForReader`; it holds
  with `MaxLeaves = 0`.

**server names** (`UnixNames`)

- *Two servers of one name* (run `names_two`): `release_server` unlinks the lock
  file without holding it (unix_name.cc:205), so that one process holds the
  `flock` of the old file and another that of a new one.
- *A process is refused though nobody owns the name*: when the pid file is empty
  or being taken away. `RefusedForOwner`, with one crash or one release.

**command server** (`CmdServer`)

- *A driver that leaves keeps its reference* on the command it was at
  (cmd_server.cc:189-194): from there on no command is freed, and a driver that
  connects later is sent old ones. `CleanedOut`.
- *A driver that connects while another is behind starts behind the new commands*
  and gets what waits for it only with the next command (cmd_server.cc:181-187).
  `WritesWhatItCan`.
- *Commands are accepted after a Quit*: `quit_received` (cmd_server.cc:13, 174) is
  set and never read. They stand behind the empty command that closes the
  connections, and `turf_check` goes on past it (cmd_server.cc:205-222), so that a
  driver that is behind is given some of them and others not. `ClosedAfterAll`
  speaks of the commands before the first empty one for that reason; stated of all
  of them it fails with `MaxCmds = 4`, and holds with the 3 of the run.
- *A signal leaves `Cmd_turf`s in the list* whose emptiness the destructor asserts
  (cmd_server.cc:283). `TurfsEmptyAtExit`; it holds with `Signals = FALSE`.

**subbus server on USB** (`SerUsb`)

- *A request to an idle port has no timeout* (run `serusb_unarmed`): the handler of
  a client sets the timeout but not `Fl_Timeout` (serusb.cc:504).
- *After a timeout answers may be taken for another request's*: the code of the
  answer is all that is compared (serusb.cc:340-357). `ReplyIsOwn`; the run checks
  `OwnUntilLate`.
- *A write to a client that has closed ends the server* by SIGPIPE, which nothing
  ignores; socket.h:116 says such a client is torn down. `OutlivesClients`.
- *A port that takes nothing for a second ends the server*: the timeout sends the
  next request while the last is still in the buffer, and `iwrite` asserts that
  the buffer is empty (interface.cc:136). The model ends in `"aborted"`.

**subbus server on CAN** (`CanBus`)

- *A multiple read is acknowledged by its last part* (run `can_mread`).
- *A reply whose later frame is lost hangs the server*: each frame clears the
  timeout, and only the next request sets it (subbusd_CAN_interface.cc:363). The
  history variable `spoilt` marks it, and `Completed` excepts it.
- *A frame the socket refuses stalls what waits behind it*:
  `process_requests` ends half way, after an error with `request_processing` set
  for good (subbusd_CAN_interface.cc:107).
- *A request before the adapter has opened the bus* takes the timeout the opening
  needs for its retries.

**Modbus** (`Modbus`)

- *A late answer is taken for that of the next request* of the same device and
  function: `DataOwn` without `m.late`.
- *A write that fails leaves its request pending for ever*, without a timeout, and
  does not end the driver: what handlers return is ignored at loop.cc:113, though
  modbus_rtu.h says "true if event loop should terminate". `Served` excepts it.
- *A request that is due while the last still waits to be written* meets the
  assertion of `iwrite`. The model ends in `"failed"`. A request given up while it
  waits to be written may be used again and overwritten.
- `enqueue_command` does not call `process_requests`, though modbus_rtu.h:149-152
  says that it does: a command waits for the next poll. Requests that are not ready
  are never given back. `setup_data` of functions 5, 6 and 16 uses a 16-bit swap on
  bytes.

**parent** (`Parent`)

- *`-q` with no process at the start never ends*, though parent.oui:7 says it quits
  when childless: `Shutdown` comes before `Start`. `QuitWhenChildless`.
- *Shutdown within its own handler deletes `parent_sigif`*, whose handler then goes
  on with freed memory; the model has a crash and going on as outcomes.
- *A quit that was refused stays in the buffer*, so that the next command of that
  client is taken for one (parent.cc:56-57), and what follows an `r` is not looked
  at.
- *A client that closes is not counted down* (`process_eof` of the client does not
  delete it), so that `-t` without processes never ends; a client that resets after
  an `r` was accepted is deleted by `read_error`, and nothing shuts down.
- The passes for timeouts, flags and signals do not look at `children_changed`, as
  that for input does; timeouts are looked at only when there is nothing else
  (loop.cc:129); `loop_exit` is never reset; `Server`'s constructor ignores
  `passive_quit_threshold`.

**collection data** (`Datum`)

- *A collector that synchronizes while a newline waits* meets the assertion of
  `iwrite` (tm_data_rcvr.cc:55), and *one whose driver has gone* is killed by
  SIGPIPE. *A driver that is reset with a frame unsent* meets the assertion in
  `connected`. The model ends in `"failed"`.
- *A driver started again while its old connection is owned* is refused, and ends.
- A frame of more than 127 bytes never completes. `reconn_retries` is read
  uninitialised. Over TCP, frames that are split can be mixed (`Client`'s `obuf`
  hides `Interface`'s); the model has Unix sockets, which do not split them.

**logger** (`Logger`)

- *The length of a record is taken before it has come* (run `logger_cut`,
  tm_rcvr.cc:63): `n_rows` is looked at when only the header's first four bytes
  are there. What follows is lost or logged as something else, until the next
  header is found.
- *What stands behind a damaged record waits for the next read*: when no header is where
  it is expected, `process_message` returns behind `seek_tmid` (tm_rcvr.cc:65-69), though
  whole records may be in the buffer; if nothing more comes they are never
  logged. `DamageContained` excepts them.
- *Looking for a header can end behind what was read* (tm_rcvr.cc:148): `cp` is left
  behind `nc`. The model ends in `"lost"`.
- A record of exactly 4096 bytes never completes, and `tm_bfr` may send longer ones,
  which end the logger. A `tm_id` is looked at only at the beginning.

**algorithms** (`Tma`)

- *A hold of one second without a condition never ends*, if it is reached a second
  late, as in a state entered between two seconds (run `tma_held`, tma.cc:335).
- *A resume that comes before the hold is reached* skips the hold, whenever
  it is the next command, though the code's message for a state that is not at one
  says "Specified state not holding" (tma.cc:376-396).
- *`hold or 0` spins for ever* within one second.
- A gap of some seconds in the telemetry counts wholly as held or wholly as run; a
  hold in the middle of it begins anew. The model has no gaps: seconds follow one
  another. After a hold that was reached late a clock may be a second ahead, which
  `OnTime` allows.

**player** (`Player`)

- *Regulated playback hangs* with the first log that has more rows than the queue
  (run `player_spin`, rdr.cc:253-270): only the row timer's handler takes rows
  out, and it cannot run.
- *Messages are cut wrongly behind waiting bytes* (run `player_garbled`):
  `fill_obuf` adds up `iov` and copies `wiov` (interface.cc:153-169).
- *Quit hangs*: `Reader::event` locks the mutex it holds (rdr.cc:196, 208); so does
  the end of any command client, which executes a Quit (tm_gen_cmd.cc:29-31).
  `MutexFree` excepts a generator that hangs so.
- *A stop is undone*, and playback begins without a start, whenever the output
  buffer runs empty (rdr.cc:273-277). `StoppedReadsNothing`.
- *With regulation the output buffer can overflow*, which ends the program: ticks
  go on while `tm_bfr` is behind. `NoOverflow` and `EndsComplete` are therefore
  stated for playback that was never regulated. After TM} at the end of the file,
  rows left in the queue are sent by nobody, and `-q` does not end the program.
- *TM+ to the limit and TM- again stops playback*: the period has reached 0 and
  3/2 of it is 0 (tm_gen.cc:224, 242).

## Not modelled

The map covers a small part of the repository's lines, since most of them are no
part of the running system: of some 55 thousand lines two thirds are the
generators under `tools/` (compilers from text to text that run when an experiment
is built, the largest of them, `tools/table/derived`, generated themselves) and
most of the rest is I/O, text and configuration without state of its own.

- `subbuspp`, `Cmd_writer`, `cmd_reader`: the other end of `SerUsb`, `CanBus` and
  `CmdServer`, whose requests the models enumerate.
- The collector (`tm_gen_col` and the generated collection loop), the loss of
  `tm_bfr` under a generator, and `TMU`, which allows what is allowed already.
- T1 and T2 records, bytes lost in front of a receiver, the display `nctable`.
- Algorithms read from files (`tma_file.cc`), and gaps of the telemetry.
- TCP: name resolution, and frames that are split.
- `TimeoutAccumulator` and the arithmetic of `Timeout`: a timeout that is set may
  expire at any time, but for `Tma`, which counts seconds.
- Pure functions and I/O: `not_parsed`, `ascii_escape`, `get_baud_code`, `serial`,
  `msg`, `memo`, `mlf`, `csv_file`, the library `nl`. What their callers tell
  apart (a request that parses, one that does not) is in the callers' models.
- `dasctl`, `getcon`, `comms`, `TMbase`, `tmdf`: each is one client or interface
  of the classes modelled.
- `tools`, as said. `tmcalgo`'s output is what `Tma` models.
- Interrupts of the subbus: not compiled in.

## Plan

What could follow, in this order:

1. **A generator with `tm_bfr`** over a socket, on `TmQueueOps`: that a row a
   generator commits reaches every reader, with the loss and return of `tm_bfr`;
   the collector as the generator, so that with `Datum` and `Logger` the path of a
   datum from driver to file is complete.
2. **Receivers**: T1 and T2 records, and streams with bytes lost.
3. **Clients**: `Cmd_writer` and `subbuspp` as clients of `CmdServer` and `SerUsb`,
   in place of the enumerated requests.
4. **Proofs**: `NoOverflow` under what it needs to know of the log and of the ratio of
   buffer to read; the types in `AllTypesOK` and `TimerRight` that no inductive
   invariant holds yet.
5. The placement of `tmc` (`place.c`) as an algorithm, against what a frame of
   telemetry has to be.
