----------------------------- MODULE MCServices -----------------------------
(***************************************************************************)
(* The programs around the telemetry in one run: a behaviour is one of     *)
(*   names    server processes that claim their names                      *)
(*   cmd      the command server with its drivers and clients              *)
(*   parent   parent with the processes it waits for                       *)
(*   datum    a driver and the collector of its data                       *)
(*   logger   the logger that reads from tm_bfr                            *)
(*   algo     an algorithm in the interpreter                              *)
(* each with the bounds given here.                                        *)
(***************************************************************************)
EXTENDS MCUnixNames, Tma, CmdServer, Parent, Datum, Logger

CONSTANT Systems

VARIABLE system

(* Three processes, two of them of one service; the third, or one of the two,
   may never be started. *)
TwoOfDG == [i \in ThreeProcs |-> IF i = p3 THEN "cmd" ELSE "DG"]
Scenes  == {Scene({}, 2, 0), Scene({p3}, 0, 1), Scene({p1}, 0, 1)}

(* An algorithm of two partitions, with holds that end by a condition, by a
   resume, by their timeouts. *)
Cmd(op, dt, to, skip, timeout) ==
  [op |-> op, dt |-> dt, to |-> to, skip |-> skip, timeout |-> timeout]

Flight ==
  [A |-> [part |-> 0, cmds |-> << Cmd("send", 0, NoCase, 1, 0),
                                  Cmd("hold", 1, "c", 2, 2),
                                  Cmd("send", 1, NoCase, 1, 0),
                                  Cmd("hold", 1, "B", 1, 3),
                                  Cmd("validate", 2, "C", 1, 0) >>],
   B |-> [part |-> 1, cmds |-> << Cmd("hold", 0, NoCase, 1, 2),
                                  Cmd("resume", 0, "A", 1, 0) >>],
   C |-> [part |-> 0, cmds |-> << Cmd("hold", 0, "d", 1, 1),
                                  Cmd("hold", 0, NoCase, 1, -1) >>],
   I |-> [part |-> 1, cmds |-> <<>>]]
Begin == [i \in 0 .. 1 |-> IF i = 0 THEN "A" ELSE "I"]

(* With every choice of -q, and of -t or -M. *)
AllOptions == [quit : BOOLEAN, timer : {"none", "start", "exit"}]

all == <<system, vars, cmdvars, parentvars, datavars, lgrvars, tmavars>>

(* Those that do not run are in one of their initial states. *)
ServicesInit ==
  /\ system \in Systems
  /\ Init /\ (system # "names" => \A i \in ThreeProcs : pc[i] # "absent")
  /\ CmdInit
  /\ ParentInit /\ (system # "parent" => /\ opt = [quit |-> FALSE, timer |-> "none"]
                                         /\ \A k \in Kids : kid[k] = "running")
  /\ DataInit /\ LgrInit /\ TmaInit

OfNames(A)  == /\ system = "names" /\ A
               /\ UNCHANGED <<system, cmdvars, parentvars, datavars, lgrvars, tmavars>>
OfCmds(A)   == /\ system = "cmd" /\ A
               /\ UNCHANGED <<system, vars, parentvars, datavars, lgrvars, tmavars>>
OfParent(A) == /\ system = "parent" /\ A
               /\ UNCHANGED <<system, vars, cmdvars, datavars, lgrvars, tmavars>>
OfData(A)   == /\ system = "datum" /\ A
               /\ UNCHANGED <<system, vars, cmdvars, parentvars, lgrvars, tmavars>>
OfLgr(A)    == /\ system = "logger" /\ A
               /\ UNCHANGED <<system, vars, cmdvars, parentvars, datavars, tmavars>>
OfAlgo(A)   == /\ system = "algo" /\ A
               /\ UNCHANGED <<system, vars, cmdvars, parentvars, datavars, lgrvars>>

ServicesNext ==
  \/ OfNames(Next) \/ OfCmds(CmdNext) \/ OfParent(ParentNext)
  \/ OfData(DataNext) \/ OfLgr(LgrNext) \/ OfAlgo(TmaNext)

(* Each is as fair as its own specification says. *)
Written(t) == \/ []<>(system = "cmd" => ~CanWrite(t))
              \/ []<><<OfCmds(Writable(t))>>_all

ServicesFairness ==
  /\ WF_all(OfNames(Step(p1)) \/ OfCmds(Stop)
             \/ OfParent(Program))
  /\ WF_all(OfNames(Step(p2)) \/ OfCmds(ReplyOut("c1"))
             \/ OfData(Driver))
  /\ WF_all(OfNames(Step(p3)) \/ OfCmds(ReplyOut("c2"))
             \/ OfData(Collector))
  /\ WF_all(OfCmds(DriverReads("t1")))
  /\ WF_all(OfCmds(DriverReads("t2")))
  /\ Written("t1") /\ Written("t2")

ServicesSpec == ServicesInit /\ [][ServicesNext]_all /\ ServicesFairness
-----------------------------------------------------------------------------
AllTypesOK ==
  /\ TypeOK /\ CmdTypeOK /\ ParentTypeOK /\ DataTypeOK
  /\ LgrTypeOK /\ TmaTypeOK

(* Something that is claimed of any behaviour of the servers. *)
AllStartOrEnd == []<>(system = "names") => StartsOrEnds
=============================================================================
