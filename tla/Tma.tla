----------------------------------- MODULE Tma ----------------------------------
(***************************************************************************)
(* The algorithm interpreter (libs/dasio/src/tma.cc) with the main loop    *)
(* and the statements tmcalgo puts around it (tools/tmcalgo/states.c).  An *)
(* algorithm has partitions, each of which is in one of its states.  A     *)
(* state is a table of timed commands; a hold stops the clock of the state *)
(* until its condition is met, somebody resumes it or its timeout is over. *)
(*                                                                         *)
(* Once a second the main loop runs tma_process.  phase says where it is:     *)
(* "scan" and "run" in its first loop, at partition `at' ("run" among the  *)
(* commands of it), "case" in the switch over what it returned, "shift" in *)
(* its second loop.  At "loop" other statements of the algorithm run.      *)
(***************************************************************************)
EXTENDS Integers, Sequences, FiniteSets

CONSTANTS
  NParts,      \* tma_n_partitions
  StateNames,
  Conds,       \* the substates of conditions that holds wait for
  NoCase,      \* state case 0
  States,      \* the partition and the commands of each state
  First,       \* the state each partition begins in
  MaxTime,     \* bound: seconds
  MaxEvents    \* bound: statements outside the main loop

Parts == 0 .. NParts - 1

Command == [op : {"send", "validate", "hold", "resume"}, dt : Nat,
            to : StateNames \union Conds \union {NoCase},
            skip : Nat \ {0}, timeout : Nat \union {-1}]

(* What tmcalgo makes of an algorithm: the times of a state do not go back, and
   an else clause lies behind its hold. *)
TmaAssumption ==
  /\ NParts \in Nat \ {0} /\ {MaxTime, MaxEvents} \subseteq Nat
  /\ StateNames \intersect Conds = {} /\ NoCase \notin StateNames \union Conds
  /\ States \in [StateNames -> [part : Parts, cmds : Seq(Command)]]
  /\ First \in [Parts -> StateNames] /\ \A p \in Parts : States[First[p]].part = p
  /\ \A s \in StateNames : LET c == States[s].cmds IN
       \A i \in 1 .. Len(c) :
         /\ \A j \in i .. Len(c) : c[i].dt <= c[j].dt
         /\ c[i].op = "hold" => i + c[i].skip <= Len(c) + 1
         /\ c[i].op = "validate" => c[i].to # NoCase
         /\ c[i].op = "resume" => c[i].to \in StateNames

VARIABLES
  now,       \* itime()
  begun,     \* tma_runbasetime is set
  paused,    \* tma_is_holding
  prt,       \* tma_partitions: state, basetime, lastcheck, next_cmd and waiting
  sub,       \* the condition looked at in each partition
  phase, at,
  case,      \* what tma_process returned
  events,
  plan,      \* history: at time t the clock of the state should show d
  since      \* history: when the hold a partition has reached began, or 0

tmavars == <<now, begun, paused, prt, sub, phase, at, case, events, plan, since>>

(* next_cmd counts from 1, and 0 stands for -1. *)
Done == 0

Cmds(P) == States[P.state].cmds
AtEnd(P) == P.next > Len(Cmds(P))
Next_cmd(P) == Cmds(P)[P.next]
AtHold(P) == P.next # Done /\ ~AtEnd(P) /\ Next_cmd(P).op = "hold"

(* lastcheck, but not before the state began. *)
Lastcheck(P) == IF P.last < P.base THEN P.base ELSE P.last

-----------------------------------------------------------------------------
(* Before the telemetry begins a state issues its commands of T = 0. *)
StartUp(s) ==
  LET c == States[s].cmds
  IN 1 + Cardinality({n \in 1 .. Len(c) :
                        \A i \in 1 .. n : c[i].dt = 0 /\ c[i].op = "send"})

TmaInit ==
  /\ now = 0 /\ begun = FALSE /\ paused = FALSE
  /\ prt = [p \in Parts |-> [state |-> First[p], base |-> 0, last |-> -1,
                             next |-> StartUp(First[p]), waiting |-> 0]]
  /\ sub = [p \in Parts |-> NoCase]
  /\ phase = "loop" /\ at = 0 /\ case = NoCase /\ events = 0
  /\ plan = [p \in Parts |-> [t |-> 0, d |-> 0]]
  /\ since = [p \in Parts |-> 0]

(* `validate s' of a state: tma_init_state, and no condition of the partition is
   looked at any longer. *)
Enter(s) ==
  LET p == States[s].part
  IN /\ prt' = [prt EXCEPT ![p] = [state |-> s, base |-> now, last |-> now - 1,
                                   next |-> 1, waiting |-> 0]]
     /\ sub' = [sub EXCEPT ![p] = NoCase]
     /\ plan' = [plan EXCEPT ![p] = [t |-> now, d |-> 0]]
     /\ since' = [since EXCEPT ![p] = 0]

(* The hold at which P is ends well: the commands of its else are passed over. *)
Released(P) == [P EXCEPT !.waiting = 0, !.next = @ + Next_cmd(P).skip]

(* Its clock goes on in this second, or in the next if this one is done. *)
Planned(p, P) ==
  IF since[p] = 0 THEN plan[p]
  ELSE [t |-> IF P.last = now THEN now + 1 ELSE now, d |-> Next_cmd(P).dt]

(* tma_succeed(p, c): it must be the condition c that is held for. *)
MeetsHold(p, c) == AtHold(prt[p]) /\ Next_cmd(prt[p]).to = c

Succeed(p, c) ==
  IF MeetsHold(p, c)
  THEN /\ prt' = [prt EXCEPT ![p] = Released(@)]
       /\ plan' = [plan EXCEPT ![p] = Planned(p, prt[p])]
       /\ since' = [since EXCEPT ![p] = 0]
  ELSE UNCHANGED <<prt, plan, since>>

-----------------------------------------------------------------------------
(* The main loop comes round, with a new second or once more in this one. *)
Tick ==
  /\ phase = "loop"
  /\ now' \in {now, now + 1} \intersect 1 .. MaxTime
  /\ begun' = TRUE
  /\ IF begun THEN UNCHANGED <<prt, plan>>
     ELSE /\ prt' = [p \in Parts |-> [prt[p] EXCEPT !.base = now', !.last = now' - 1]]
          /\ plan' = [p \in Parts |-> [t |-> now', d |-> 0]]
  /\ phase' = "scan" /\ at' = 0
  /\ UNCHANGED <<paused, sub, case, events, since>>

NextPart ==
  IF at + 1 = NParts THEN phase' = "shift" /\ at' = 0 ELSE phase' = "scan" /\ at' = at + 1

(* The timeout of a hold is over by now. *)
Over(P) == /\ now # P.last /\ P.waiting > 0
           /\ now - Lastcheck(P) >= P.waiting

Runs(P) == /\ now # P.last /\ P.waiting = 0
           /\ ~paused /\ P.next # Done

(* Mutant of Scan: a timeout does not go on to the else clause. *)
ScanStuck ==
  /\ phase = "scan"
  /\ LET P == prt[at]
         Q == IF Over(P) THEN [P EXCEPT !.waiting = 0] ELSE P
     IN /\ prt' = [prt EXCEPT ![at] = Q]
        /\ IF Runs(Q) THEN phase' = "run" /\ at' = at ELSE NextPart
  /\ UNCHANGED <<now, begun, paused, sub, case, events, plan, since>>

(* A partition that was not looked at in this second. *)
Scan ==
  /\ phase = "scan"
  /\ LET P == prt[at]
         Q == IF Over(P) THEN [P EXCEPT !.waiting = 0, !.next = @ + 1] ELSE P
     IN /\ prt' = [prt EXCEPT ![at] = Q]
        /\ IF Over(P)
           THEN /\ plan' = [plan EXCEPT ![at] = [t |-> now, d |-> Next_cmd(P).dt]]
                /\ since' = [since EXCEPT ![at] = 0]
           ELSE UNCHANGED <<plan, since>>
        /\ IF Runs(Q) THEN phase' = "run" /\ at' = at ELSE NextPart
  /\ UNCHANGED <<now, begun, paused, sub, case, events>>

(* The command the partition is at is due. *)
Due(op) ==
  LET P == prt[at]
  IN /\ phase = "run" /\ ~AtEnd(P)
     /\ Next_cmd(P).op = op /\ Next_cmd(P).dt <= now - P.base

Passed == [prt EXCEPT ![at].next = @ + 1]

Finish ==
  /\ phase = "run" /\ AtEnd(prt[at])
  /\ prt' = [prt EXCEPT ![at].next = Done]
  /\ NextPart
  /\ UNCHANGED <<now, begun, paused, sub, case, events, plan, since>>

Early ==
  /\ phase = "run" /\ ~AtEnd(prt[at])
  /\ Next_cmd(prt[at]).dt > now - prt[at].base
  /\ NextPart
  /\ UNCHANGED <<now, begun, paused, prt, sub, case, events, plan, since>>

Send ==
  /\ Due("send")
  /\ prt' = Passed
  /\ UNCHANGED <<now, begun, paused, sub, phase, at, case, events, plan, since>>

Validate ==
  /\ Due("validate")
  /\ prt' = Passed
  /\ phase' = "case" /\ case' = Next_cmd(prt[at]).to
  /\ UNCHANGED <<now, begun, paused, sub, at, events, plan, since>>

(* Mutant of Waiting: the second in which the hold is reached is counted. *)
WaitingLess(P) == Next_cmd(P).timeout

(* What is left of a hold's timeout, from lastcheck on. *)
Waiting(P) ==
  LET c == Next_cmd(P)
  IN IF c.timeout > 0 THEN c.timeout + c.dt + P.base - Lastcheck(P) ELSE c.timeout

(* A hold without a timeout waits at -1; one of 0 seconds does not wait. *)
Hold ==
  /\ Due("hold")
  /\ LET P == prt[at]
         c == Next_cmd(P)
     IN /\ prt' = [prt EXCEPT ![at].waiting = Waiting(P)]
        /\ since' = [since EXCEPT ![at] = IF @ = 0 THEN P.base + c.dt ELSE @]
        /\ IF c.to # NoCase THEN phase' = "case" /\ case' = c.to /\ at' = at
           ELSE /\ case' = case
                /\ IF Waiting(P) = 0 THEN phase' = "run" /\ at' = at ELSE NextPart
  /\ UNCHANGED <<now, begun, paused, sub, events, plan>>

(* Mutant of ScanAgain: an earlier partition waits for the next second. *)
ScanNoMore(p) == phase' = "run" /\ at' = at

(* A partition before this one has to be looked at again. *)
ScanAgain(p) ==
  IF p < at THEN phase' = "scan" /\ at' = 0 ELSE phase' = "run" /\ at' = at

(* Any hold of the state that is resumed ends. *)
Resume ==
  /\ Due("resume")
  /\ LET s == Next_cmd(prt[at]).to
         p == States[s].part
         P == Passed[p]
     IN /\ IF P.state = s /\ AtHold(P)
           THEN /\ prt' = [Passed EXCEPT ![p] = Released(P)]
                /\ plan' = [plan EXCEPT ![p] = Planned(p, P)]
                /\ since' = [since EXCEPT ![p] = 0]
           ELSE prt' = Passed /\ UNCHANGED <<plan, since>>
        /\ ScanAgain(p)
  /\ UNCHANGED <<now, begun, paused, sub, case, events>>

(* The switch: a state is entered; or a condition is looked at from now on, and
   may be met at once. *)
Switch ==
  /\ phase = "case"
  /\ \/ case \in StateNames /\ Enter(case)
     \/ /\ case \in Conds
        /\ sub' = [sub EXCEPT ![at] = case]
        /\ UNCHANGED <<prt, plan, since>>
     \/ /\ case \in Conds
        /\ Succeed(at, case)
        /\ sub' = [sub EXCEPT ![at] = NoCase]
  /\ phase' = "scan" /\ at' = 0
  /\ UNCHANGED <<now, begun, paused, case, events>>

(* Mutant of Shifted: the clock of a state goes on while all are paused. *)
ShiftedUnpaused(P) ==
  LET dt == now - Lastcheck(P)
  IN [P EXCEPT !.base = IF @ # now /\ P.waiting # 0 THEN @ + dt ELSE @,
               !.waiting = IF @ > dt THEN @ - dt ELSE IF @ > 0 THEN 0 ELSE @,
               !.last = now]

(* The clock of a state that is held stands still: its basetime moves. *)
Shifted(P) ==
  LET dt == now - Lastcheck(P)
  IN IF dt # 0 /\ (P.waiting # 0 \/ paused)
     THEN [P EXCEPT !.base = @ + dt,
                    !.waiting = IF @ > dt THEN @ - dt ELSE IF @ > 0 THEN 0 ELSE @,
                    !.last = now]
     ELSE [P EXCEPT !.last = now]

Shift ==
  /\ phase = "shift"
  /\ prt' = [p \in Parts |-> Shifted(prt[p])]
  /\ plan' = [p \in Parts |->
                IF paused THEN [plan[p] EXCEPT !.t = @ + now - Lastcheck(prt[p])]
                ELSE plan[p]]
  /\ phase' = "loop"
  /\ UNCHANGED <<now, begun, paused, sub, at, case, events, since>>

-----------------------------------------------------------------------------
(* Between two turns: a condition that is looked at is met (output_hold). *)
ConditionMet(p) ==
  /\ phase = "loop" /\ sub[p] # NoCase
  /\ Succeed(p, sub[p])
  /\ sub' = [sub EXCEPT ![p] = NoCase]
  /\ UNCHANGED <<now, begun, paused, phase, at, case, events>>

(* A statement of the algorithm validates a state, or calls tma_hold. *)
Statement ==
  /\ phase = "loop" /\ begun /\ events < MaxEvents
  /\ events' = events + 1
  /\ \/ \E s \in StateNames : Enter(s) /\ paused' = paused
     \/ paused' = ~paused /\ UNCHANGED <<prt, sub, plan, since>>
  /\ UNCHANGED <<now, begun, phase, at, case>>

TmaNext ==
  \/ Tick \/ Scan \/ Finish \/ Early \/ Send \/ Validate \/ Hold \/ Resume \/ Switch
  \/ Shift \/ Statement \/ \E p \in Parts : ConditionMet(p)

TmaSpec == TmaInit /\ [][TmaNext]_tmavars
-----------------------------------------------------------------------------
Partition == [state : StateNames, base : Nat, last : Int, next : Nat, waiting : Int]

TmaTypeOK ==
  /\ now \in Nat /\ begun \in BOOLEAN /\ paused \in BOOLEAN /\ events \in Nat
  /\ prt \in [Parts -> Partition]
  /\ \A p \in Parts : /\ States[prt[p].state].part = p
                      /\ prt[p].next <= Len(Cmds(prt[p])) + 1
                      /\ prt[p].waiting >= -1
  /\ sub \in [Parts -> Conds \union {NoCase}]
  /\ phase \in {"loop", "scan", "run", "case", "shift"} /\ at \in Parts
  /\ case \in StateNames \union Conds \union {NoCase}
  /\ plan \in [Parts -> [t : Nat, d : Nat]] /\ since \in [Parts -> Nat]

(* A partition that has been looked at has nothing left to do in this second. *)
DueDone ==
  phase = "shift" => \A p \in Parts :
    Runs(prt[p]) => /\ ~AtEnd(prt[p])
                    /\ Next_cmd(prt[p]).dt > now - prt[p].base

(* The clock of a state that is not held shows what the table and the holds say,
   or a second more if a hold was reached late. *)
ClockRight ==
  \A p \in Parts :
    prt[p].waiting = 0 /\ since[p] = 0 =>
      plan[p].t - plan[p].d - prt[p].base \in {0, 1}

(* Commands are issued when the clock of their state reaches their time, and it
   stands still in holds only (tma.cc:267-279, 328-340). *)
OnTime == DueDone /\ ClockRight

(* A hold with a timeout that has been reached ends when that is over
   (tma.cc:260-266, 304-306, 335-338). *)
Expires(p) == AtHold(prt[p]) /\ since[p] > 0 /\ Next_cmd(prt[p]).timeout > 0

HoldLasts ==
  phase = "loop" => \A p \in Parts :
    Expires(p) => /\ prt[p].waiting > 0
                  /\ prt[p].last + prt[p].waiting
                       = since[p] + Next_cmd(prt[p]).timeout

(* ... and is not there any longer when that time has come. *)
HoldEnds ==
  phase = "loop" => \A p \in Parts :
    Expires(p) => prt[p].last < since[p] + Next_cmd(prt[p]).timeout
=============================================================================
