------------------------------- MODULE TmaProofs --------------------------------
(***************************************************************************)
(* What Tma promises for every algorithm whose holds wait: commands are    *)
(* issued on time and holds last as long as their timeouts say.            *)
(*                                                                         *)
(* Both follow from what is true of each partition by itself, whichever    *)
(* line the main loop is at (Good): the clock of a state is right to       *)
(* within a second, what is next was not due when the partition was last   *)
(* looked at, and a hold that was reached was due then, or is in this      *)
(* second.  The partitions the first loop is through with have nothing     *)
(* left to do (Settled); the second loop needs that.                       *)
(***************************************************************************)
EXTENDS Tma, FiniteSetTheorems, TLAPS

(* A hold of no time never waits, and one of a second that does not wait for a
   condition may never end (run tma_held). *)
HoldsWait ==
  \A s \in StateNames : \A i \in 1 .. Len(States[s].cmds) :
    LET c == States[s].cmds[i]
    IN c.op = "hold" => c.timeout # 0 /\ (c.to = NoCase => c.timeout # 1)

(* P is at a hold that was due at s. *)
Held(P, s, n) ==
  /\ AtHold(P)
  /\ P.base + Next_cmd(P).dt \in {Lastcheck(P), Lastcheck(P) + 1}
  /\ P.last # n => P.base + Next_cmd(P).dt <= n
  /\ IF Next_cmd(P).timeout = -1 THEN P.waiting = -1
     ELSE /\ P.waiting > 0
          /\ Lastcheck(P) + P.waiting = s + Next_cmd(P).timeout

(* P is not held: its clock, and the command that is next. *)
Going(P, pl) ==
  /\ P.waiting = 0
  /\ pl.t - pl.d - P.base \in {0, 1}
  /\ P.next # Done /\ ~AtEnd(P) => Next_cmd(P).dt >= Lastcheck(P) - P.base

(* A partition in the second n. *)
Good(P, s, pl, n) ==
  /\ 1 <= P.base /\ P.base <= n /\ P.last <= n
  /\ Lastcheck(P) \in {n - 1, n}
  /\ IF s = 0 THEN Going(P, pl) ELSE Held(P, s, n)

(* Before the first second. *)
Fresh ==
  /\ now = 0 /\ phase = "loop" /\ ~paused
  /\ \A p \in Parts : since[p] = 0 /\ prt[p].waiting = 0 /\ sub[p] = NoCase
                      /\ prt[p].base = 0
                      /\ plan[p] = [t |-> 0, d |-> 0]

(* The first loop is through with P for this second. *)
Settled(P) ==
  /\ ~Over(P)
  /\ Runs(P) => ~AtEnd(P) /\ Next_cmd(P).dt > now - P.base

Through(p) == phase = "shift" \/ (phase \in {"scan", "run"} /\ p < at)

Going_on ==
  /\ now >= 1
  /\ \A p \in Parts : Good(prt[p], since[p], plan[p], now)
  /\ \A p \in Parts : Through(p) => Settled(prt[p])
  /\ phase = "loop" => \A p \in Parts : /\ Lastcheck(prt[p]) = now
                                        /\ since[p] # 0 => prt[p].last = now
  /\ phase = "run" => Runs(prt[at])

TmaInv == /\ TmaTypeOK
          /\ IF begun THEN Going_on ELSE Fresh

Algorithm == TmaAssumption /\ HoldsWait

Plan == [t : Nat, d : Nat]

PartOK(P, p) == /\ P \in Partition /\ States[P.state].part = p
                /\ P.next <= Len(Cmds(P)) + 1 /\ P.waiting >= -1
-----------------------------------------------------------------------------
(* The command that is next is one of the table. *)
LEMMA NextIsCommand ==
  ASSUME TmaAssumption, NEW P \in Partition, P.next # Done, ~AtEnd(P)
  PROVE  /\ Cmds(P) \in Seq(Command)
         /\ P.next \in 1 .. Len(Cmds(P))
         /\ Next_cmd(P) \in Command
<1>1. States[P.state] \in [part : Parts, cmds : Seq(Command)]
  BY DEF TmaAssumption, Partition
<1>2. Cmds(P) \in Seq(Command) /\ P.next \in Nat
  BY <1>1 DEF Cmds, Partition
<1>3. P.next \in 1 .. Len(Cmds(P))
  BY <1>2 DEF Done, AtEnd
<1> QED
  BY <1>2, <1>3 DEF Next_cmd

(* The times of a state do not go back. *)
LEMMA TimesGoOn ==
  ASSUME TmaAssumption, NEW P \in Partition, P.next # Done, ~AtEnd(P),
         NEW Q \in Partition, Q.state = P.state, Q.next >= P.next, ~AtEnd(Q)
  PROVE  Next_cmd(P).dt <= Next_cmd(Q).dt
<1>1. P.next \in 1 .. Len(Cmds(P))
  BY NextIsCommand
<1>2. Q.next \in P.next .. Len(Cmds(P))
  <2>1. Q.next \in Nat /\ Cmds(Q) = Cmds(P) /\ P.next \in Nat
    BY DEF Partition, Cmds
  <2>2. Len(Cmds(P)) \in Nat
    BY NextIsCommand
  <2> QED
    BY <1>1, <2>1, <2>2 DEF AtEnd
<1>3. P.state \in StateNames
  BY DEF Partition
<1> QED
  BY <1>1, <1>2, <1>3 DEF TmaAssumption, Cmds, Next_cmd

(* The else clause of a hold lies behind it. *)
LEMMA ElseIsBehind ==
  ASSUME TmaAssumption, NEW P \in Partition, AtHold(P)
  PROVE  P.next + Next_cmd(P).skip <= Len(Cmds(P)) + 1
<1>1. P.next \in 1 .. Len(Cmds(P))
  BY NextIsCommand DEF AtHold
<1> QED
  BY <1>1 DEF TmaAssumption, Cmds, Next_cmd, AtHold, Partition

(* Waiting for a hold is waiting. *)
LEMMA HoldTimeout ==
  ASSUME Algorithm, NEW P \in Partition, AtHold(P)
  PROVE  /\ Next_cmd(P).timeout \in Nat \union {-1}
         /\ Next_cmd(P).timeout # 0
         /\ Next_cmd(P).to = NoCase => Next_cmd(P).timeout # 1
<1>1. P.next \in 1 .. Len(Cmds(P)) /\ Next_cmd(P) \in Command
  BY NextIsCommand DEF AtHold, Algorithm
<1> QED
  BY <1>1 DEF Algorithm, HoldsWait, Cmds, Next_cmd, AtHold, Partition, Command

(* A partition that goes on to a later command. *)
LEMMA GoesOn ==
  ASSUME TmaAssumption, NEW P \in Partition, NEW Q \in Partition, NEW n \in Nat,
         NEW s \in Nat, NEW pl \in Plan, NEW ql \in Plan,
         Good(P, s, pl, n), P.next # Done, ~AtEnd(P),
         Q.state = P.state, Q.base = P.base, Q.last = P.last, Q.next >= P.next,
         Q.waiting = 0,
         s = 0 => ql = pl,
         s # 0 => /\ ql.t = IF P.last = n THEN n + 1 ELSE n
                  /\ ql.d = Next_cmd(P).dt
  PROVE  Good(Q, 0, ql, n)
<1>1. Lastcheck(Q) = Lastcheck(P)
  BY DEF Lastcheck
<1>2. Next_cmd(P).dt \in Nat
  BY NextIsCommand DEF Command
<1>3. P.base \in Nat /\ P.last \in Int /\ Lastcheck(P) \in Int
  BY DEF Partition, Lastcheck
<1>4. Next_cmd(P).dt >= Lastcheck(P) - P.base
  BY <1>2, <1>3 DEF Good, Going, Held
<1>5. Q.next # Done /\ ~AtEnd(Q) => Next_cmd(Q).dt >= Lastcheck(Q) - Q.base
  <2> SUFFICES ASSUME Q.next # Done, ~AtEnd(Q)
               PROVE  Next_cmd(Q).dt >= Lastcheck(Q) - Q.base
    OBVIOUS
  <2>1. Next_cmd(Q).dt \in Nat
    BY NextIsCommand DEF Command
  <2>2. Next_cmd(P).dt <= Next_cmd(Q).dt
    BY TimesGoOn
  <2> QED
    BY <1>1, <1>2, <1>3, <1>4, <2>1, <2>2
<1>6. ql.t - ql.d - Q.base \in {0, 1}
  <2>1. CASE s = 0
    BY <2>1 DEF Good, Going
  <2>2. CASE s # 0
    <3>1. /\ P.base + Next_cmd(P).dt \in {Lastcheck(P), Lastcheck(P) + 1}
          /\ P.last # n => P.base + Next_cmd(P).dt <= n
          /\ Lastcheck(P) \in {n - 1, n} /\ P.base <= n /\ P.last <= n
      BY <2>2 DEF Good, Held
    <3>2. P.last = n => Lastcheck(P) = n
      BY <3>1, <1>3 DEF Lastcheck
    <3> QED
      BY <2>2, <3>1, <3>2, <1>2, <1>3
  <2> QED
    BY <2>1, <2>2
<1> QED
  BY <1>1, <1>5, <1>6 DEF Good, Going

(* A hold is reached. *)
LEMMA Reached ==
  ASSUME Algorithm, NEW P \in Partition, NEW Q \in Partition, NEW n \in Nat,
         NEW pl \in Plan,
         Good(P, 0, pl, n), AtHold(P), Next_cmd(P).dt <= n - P.base,
         Q.state = P.state, Q.base = P.base, Q.last = P.last, Q.next = P.next,
         Q.waiting = Waiting(P)
  PROVE  /\ Good(Q, P.base + Next_cmd(P).dt, pl, n)
         /\ Waiting(P) # 0 /\ Waiting(P) >= -1
         /\ Next_cmd(P).to = NoCase /\ Waiting(P) > 0 => n - Lastcheck(Q) < Waiting(P)
<1>1. Lastcheck(Q) = Lastcheck(P) /\ Next_cmd(Q) = Next_cmd(P) /\ AtHold(Q)
  BY DEF Lastcheck, Next_cmd, AtHold, AtEnd, Cmds
<1>2. Next_cmd(P).dt \in Nat
  BY NextIsCommand DEF Command, AtHold, Algorithm
<1>3. P.base \in Nat /\ P.last \in Int /\ Lastcheck(P) \in Int
  BY DEF Partition, Lastcheck
<1>4. /\ 1 <= P.base /\ P.base <= n /\ P.last <= n /\ Lastcheck(P) \in {n - 1, n}
      /\ Next_cmd(P).dt >= Lastcheck(P) - P.base
  BY DEF Good, Going, AtHold
<1>5. P.base + Next_cmd(P).dt \in {Lastcheck(P), Lastcheck(P) + 1}
  BY <1>2, <1>3, <1>4
<1>6. P.base + Next_cmd(P).dt <= n /\ P.base + Next_cmd(P).dt # 0
  BY <1>2, <1>3, <1>4
<1>7. CASE Next_cmd(P).timeout = -1
  BY <1>1, <1>4, <1>5, <1>6, <1>7 DEF Waiting, Good, Held
<1>8. CASE Next_cmd(P).timeout # -1
  <2>1. /\ Next_cmd(P).timeout \in Nat \ {0}
        /\ Next_cmd(P).to = NoCase => Next_cmd(P).timeout # 1
    BY <1>8, HoldTimeout
  <2>2. Waiting(P) = Next_cmd(P).timeout + Next_cmd(P).dt + P.base - Lastcheck(P)
    BY <2>1 DEF Waiting
  <2>3. /\ Waiting(P) \in Int /\ Waiting(P) > 0
        /\ Lastcheck(P) + Waiting(P) = P.base + Next_cmd(P).dt + Next_cmd(P).timeout
        /\ Next_cmd(P).to = NoCase => n - Lastcheck(P) < Waiting(P)
    BY <1>2, <1>3, <1>4, <1>5, <2>1, <2>2
  <2>4. Held(Q, P.base + Next_cmd(P).dt, n)
    <3>1. /\ Q.base + Next_cmd(Q).dt \in {Lastcheck(Q), Lastcheck(Q) + 1}
          /\ Q.base + Next_cmd(Q).dt <= n
      BY <1>1, <1>5, <1>6
    <3>2. /\ Q.waiting > 0
          /\ Lastcheck(Q) + Q.waiting = P.base + Next_cmd(P).dt + Next_cmd(Q).timeout
      BY <1>1, <2>3
    <3> QED
      BY <1>1, <1>8, <3>1, <3>2 DEF Held
  <2>5. Q.base = P.base /\ Q.last = P.last /\ Lastcheck(Q) = Lastcheck(P)
    BY <1>1
  <2>6. Good(Q, P.base + Next_cmd(P).dt, pl, n)
    BY <1>4, <1>6, <2>4, <2>5 DEF Good
  <2> QED
    BY <2>3, <2>6, <1>1
<1> QED
  BY <1>7, <1>8

(* The next second, from the end of a turn of the loop. *)
LEMMA NextSecond ==
  ASSUME NEW P \in Partition, NEW n \in Nat, NEW s \in Nat, NEW pl \in Plan,
         Good(P, s, pl, n), Lastcheck(P) = n, s # 0 => P.last = n
  PROVE  Good(P, s, pl, n + 1)
<1>1. P.base \in Nat /\ P.last \in Int
  BY DEF Partition
<1>2. CASE s = 0
  BY <1>1, <1>2 DEF Good, Going
<1>3. CASE s # 0
  <2>1. Held(P, s, n) /\ P.base + Next_cmd(P).dt \in {n, n + 1}
    BY <1>3 DEF Good, Held
  <2> QED
    BY <1>1, <1>3, <2>1 DEF Good, Held
<1> QED
  BY <1>2, <1>3
-----------------------------------------------------------------------------
(* The bricks of the actions. *)
LEMMA Typed ==
  ASSUME TmaTypeOK, NEW p \in Parts
  PROVE  /\ PartOK(prt[p], p) /\ plan[p] \in Plan /\ since[p] \in Nat /\ now \in Nat
         /\ p \in Nat
BY DEF TmaTypeOK, PartOK, Plan, Parts

LEMMA OnePartMoves ==
  ASSUME TmaTypeOK, NEW q \in Parts, NEW Q, PartOK(Q, q), prt' = [prt EXCEPT ![q] = Q]
  PROVE  /\ prt' \in [Parts -> Partition]
         /\ \A p \in Parts : /\ States[prt'[p].state].part = p
                             /\ prt'[p].next <= Len(Cmds(prt'[p])) + 1
                             /\ prt'[p].waiting >= -1
         /\ prt'[q] = Q /\ \A p \in Parts : p # q => prt'[p] = prt[p]
BY DEF TmaTypeOK, PartOK

(* A partition is held just when it has reached a hold. *)
LEMMA HeldWaits ==
  ASSUME NEW P \in Partition, NEW s \in Nat, NEW pl, NEW n \in Nat, Good(P, s, pl, n)
  PROVE  s = 0 <=> P.waiting = 0
BY DEF Good, Going, Held

LEMMA InRun ==
  ASSUME TmaInv, phase = "run"
  PROVE  /\ begun /\ Going_on /\ at \in Parts
         /\ PartOK(prt[at], at) /\ Runs(prt[at])
         /\ Good(prt[at], 0, plan[at], now) /\ since[at] = 0
<1>1. begun /\ Going_on /\ at \in Parts
  BY DEF TmaInv, Fresh, TmaTypeOK
<1>2. PartOK(prt[at], at) /\ since[at] \in Nat /\ now \in Nat
  BY <1>1, Typed DEF TmaInv
<1>3. Runs(prt[at]) /\ Good(prt[at], since[at], plan[at], now)
  BY <1>1 DEF Going_on
<1>4. since[at] = 0
  BY <1>2, <1>3, HeldWaits DEF Runs, PartOK
<1> QED
  BY <1>1, <1>2, <1>3, <1>4

LEMMA PassedIsGood ==
  ASSUME Algorithm, TmaInv, phase = "run", ~AtEnd(prt[at]),
         NEW Q, Q = [prt[at] EXCEPT !.next = @ + 1]
  PROVE  /\ PartOK(Q, at) /\ Good(Q, 0, plan[at], now)
         /\ Q.waiting = 0 /\ Q.next # Done /\ Q.last = prt[at].last
         /\ Passed = [prt EXCEPT ![at] = Q]
<1>1. PartOK(prt[at], at) /\ Good(prt[at], 0, plan[at], now) /\ Runs(prt[at]) /\ at \in Parts
  BY InRun
<1>2. Q \in Partition /\ Q.next = prt[at].next + 1 /\ prt[at].next \in Nat
  BY <1>1 DEF PartOK, Partition
<1>3. /\ Q.state = prt[at].state /\ Q.base = prt[at].base /\ Q.last = prt[at].last
      /\ Q.waiting = prt[at].waiting
  BY <1>1 DEF PartOK, Partition
<1>4. prt[at].next \in 1 .. Len(Cmds(prt[at])) /\ Len(Cmds(prt[at])) \in Nat
  BY <1>1, NextIsCommand DEF Runs, PartOK, Algorithm
<1>5. PartOK(Q, at)
  BY <1>1, <1>2, <1>3, <1>4 DEF PartOK, Cmds
<1>6. plan[at] \in Plan /\ now \in Nat
  BY <1>1, Typed DEF TmaInv
<1>7. Good(Q, 0, plan[at], now)
  <2>1. /\ prt[at] \in Partition /\ prt[at].next # Done /\ Q.waiting = 0
        /\ Q.next >= prt[at].next /\ TmaAssumption
    BY <1>1, <1>2, <1>3 DEF Runs, PartOK, Algorithm
  <2> HIDE DEF Algorithm
  <2> QED
    BY <1>1, <1>2, <1>3, <1>6, <2>1, GoesOn
<1>8. Passed = [prt EXCEPT ![at] = Q]
  BY <1>1 DEF Passed, TmaInv, TmaTypeOK
<1> QED
  BY <1>1, <1>2, <1>3, <1>5, <1>7, <1>8 DEF Runs, Done

LEMMA ReleasedIsGood ==
  ASSUME Algorithm, TmaTypeOK, NEW p \in Parts, NEW P, PartOK(P, p), AtHold(P),
         Good(P, since[p], plan[p], now), NEW Q, Q = Released(P)
  PROVE  /\ PartOK(Q, p) /\ Good(Q, 0, Planned(p, P), now) /\ Planned(p, P) \in Plan
         /\ Q.waiting = 0 /\ Q.next # Done /\ Q.last = P.last
         /\ Q.base = P.base
<1>1. P \in Partition /\ P.next # Done /\ ~AtEnd(P)
  BY DEF PartOK, AtHold
<1>2. /\ P.next \in 1 .. Len(Cmds(P)) /\ Len(Cmds(P)) \in Nat
      /\ Next_cmd(P).skip \in Nat \ {0} /\ Next_cmd(P).dt \in Nat
      /\ P.next + Next_cmd(P).skip <= Len(Cmds(P)) + 1
  BY <1>1, NextIsCommand, ElseIsBehind DEF Algorithm, Command
<1>3. /\ Q.state = P.state /\ Q.base = P.base /\ Q.last = P.last /\ Q.waiting = 0
      /\ Q.next = P.next + Next_cmd(P).skip /\ Q \in Partition
  <2> DEFINE k == Next_cmd(P).skip
  <2>1. Q = [P EXCEPT !.waiting = 0, !.next = @ + k]
    BY DEF Released
  <2>2. P.next + k \in Nat
    BY <1>2
  <2> HIDE DEF k
  <2>3. /\ Q.state = P.state /\ Q.base = P.base /\ Q.last = P.last /\ Q.waiting = 0
        /\ Q.next = P.next + k /\ Q \in Partition
    <3> DEFINE R == [P EXCEPT !.waiting = 0]
    <3>1. /\ R \in Partition /\ R.state = P.state /\ R.base = P.base
          /\ R.last = P.last /\ R.waiting = 0 /\ R.next = P.next
      BY <1>1 DEF Partition
    <3>2. Q = [R EXCEPT !.next = R.next + k]
      BY <1>1, <2>1 DEF Partition
    <3> HIDE DEF R
    <3> QED
      BY <2>2, <3>1, <3>2 DEF Partition
  <2> QED
    BY <2>3 DEF k
<1>4. PartOK(Q, p)
  BY <1>2, <1>3 DEF PartOK, Cmds
<1>5. plan[p] \in Plan /\ now \in Nat /\ since[p] \in Nat
  BY Typed
<1>6. /\ Planned(p, P) \in Plan
      /\ since[p] = 0 => Planned(p, P) = plan[p]
      /\ since[p] # 0 => /\ Planned(p, P).t = IF P.last = now THEN now + 1 ELSE now
                         /\ Planned(p, P).d = Next_cmd(P).dt
  BY <1>2, <1>5 DEF Planned, Plan
<1>7. Q.next >= P.next /\ Q.next # Done
  BY <1>2, <1>3 DEF Done
<1>8. Good(Q, 0, Planned(p, P), now)
  BY <1>1, <1>3, <1>5, <1>6, <1>7, GoesOn DEF Algorithm
<1> QED
  BY <1>3, <1>4, <1>6, <1>7, <1>8

LEMMA EnteredIsGood ==
  ASSUME Algorithm, NEW n \in Nat, n >= 1, NEW s \in StateNames, NEW Q,
         Q = [state |-> s, base |-> n, last |-> n - 1, next |-> 1, waiting |-> 0]
  PROVE  /\ States[s].part \in Parts /\ PartOK(Q, States[s].part)
         /\ Good(Q, 0, [t |-> n, d |-> 0], n) /\ Lastcheck(Q) = n
<1>1. Q \in Partition
  BY DEF Partition
<1>2. States[s] \in [part : Parts, cmds : Seq(Command)]
  BY DEF Algorithm, TmaAssumption
<1>3. PartOK(Q, States[s].part)
  BY <1>1, <1>2 DEF PartOK, Cmds
<1>4. Lastcheck(Q) = n
  BY DEF Lastcheck
<1>5. Q.next # Done /\ ~AtEnd(Q) => Next_cmd(Q).dt \in Nat
  BY <1>1, NextIsCommand DEF Algorithm, Command
<1> QED
  BY <1>2, <1>3, <1>4, <1>5 DEF Good, Going

(* What follows a partition in the first loop. *)
LEMMA NextPartGoesOn ==
  ASSUME Algorithm, TmaTypeOK, NextPart, phase \in {"scan", "run"}
  PROVE  /\ at' \in Parts /\ phase' \in {"scan", "shift"}
         /\ \A p \in Parts : Through(p)' => Through(p) \/ p = at
<1>1. NParts \in Nat /\ at \in Nat /\ at < NParts /\ Parts = 0 .. NParts - 1
  BY DEF Algorithm, TmaAssumption, TmaTypeOK, Parts
<1>2. CASE at + 1 = NParts
  BY <1>1, <1>2 DEF NextPart, Through
<1>3. CASE at + 1 # NParts
  BY <1>1, <1>3 DEF NextPart, Through
<1> QED
  BY <1>2, <1>3

(* An action of the loop after which only the partition q is another. *)
OneMoves(q, Q, s, pl) ==
  /\ prt' = [prt EXCEPT ![q] = Q]
  /\ since' = [since EXCEPT ![q] = s]
  /\ plan' = [plan EXCEPT ![q] = pl]
  /\ UNCHANGED <<now, begun, paused>> /\ events' \in {events, events + 1}

LEMMA OneMovesWell ==
  ASSUME TmaInv, begun, NEW q \in Parts, NEW Q, NEW s \in Nat, NEW pl \in Plan,
         PartOK(Q, q), Good(Q, s, pl, now), OneMoves(q, Q, s, pl)
  PROVE  /\ prt' \in [Parts -> Partition]
         /\ \A p \in Parts : /\ States[prt'[p].state].part = p
                             /\ prt'[p].next <= Len(Cmds(prt'[p])) + 1
                             /\ prt'[p].waiting >= -1
         /\ plan' \in [Parts -> [t : Nat, d : Nat]] /\ since' \in [Parts -> Nat]
         /\ now' \in Nat /\ now' >= 1 /\ now' = now
         /\ begun' = TRUE /\ paused' \in BOOLEAN /\ events' \in Nat
         /\ \A p \in Parts : Good(prt'[p], since'[p], plan'[p], now')
         /\ prt'[q] = Q /\ since'[q] = s
         /\ \A p \in Parts : p # q => prt'[p] = prt[p] /\ since'[p] = since[p]
<1>1. TmaTypeOK /\ Going_on
  BY DEF TmaInv
<1>2. /\ prt' \in [Parts -> Partition]
      /\ \A p \in Parts : /\ States[prt'[p].state].part = p
                          /\ prt'[p].next <= Len(Cmds(prt'[p])) + 1
                          /\ prt'[p].waiting >= -1
      /\ prt'[q] = Q /\ \A p \in Parts : p # q => prt'[p] = prt[p]
  BY <1>1, OnePartMoves DEF OneMoves
<1>3. /\ plan' \in [Parts -> [t : Nat, d : Nat]] /\ since' \in [Parts -> Nat]
      /\ plan'[q] = pl /\ since'[q] = s
      /\ \A p \in Parts : p # q => plan'[p] = plan[p] /\ since'[p] = since[p]
  BY <1>1 DEF OneMoves, TmaTypeOK, Plan
<1>4. /\ now' = now /\ begun' = TRUE /\ paused' = paused /\ events' \in Nat
      /\ now >= 1 /\ now \in Nat
  BY <1>1 DEF OneMoves, Going_on, TmaTypeOK
<1>5. \A p \in Parts : Good(prt'[p], since'[p], plan'[p], now')
  <2> TAKE p \in Parts
  <2>1. CASE p = q
    BY <1>2, <1>3, <1>4, <2>1
  <2>2. CASE p # q
    BY <1>1, <1>2, <1>3, <1>4, <2>2 DEF Going_on
  <2> QED
    BY <2>1, <2>2
<1> QED
  BY <1>1, <1>2, <1>3, <1>4, <1>5 DEF TmaTypeOK

(* What has to be shown of an action of the loop, the second and the pause being
   the same: the partitions by themselves, and what phase says of them. *)
LEMMA MovesWell ==
  ASSUME TmaInv, begun, UNCHANGED <<now, begun, paused>>, events' \in Nat,
         prt' \in [Parts -> Partition],
         \A p \in Parts : PartOK(prt'[p], p),
         plan' \in [Parts -> Plan], since' \in [Parts -> Nat],
         \A p \in Parts : Good(prt'[p], since'[p], plan'[p], now),
         sub' \in [Parts -> Conds \union {NoCase}],
         case' \in StateNames \union Conds \union {NoCase},
         at' \in Parts, phase' \in {"loop", "scan", "run", "case", "shift"},
         phase' = "run" => Runs(prt'[at']),
         \A p \in Parts : Through(p)' => Settled(prt'[p]),
         phase' = "loop" => \A p \in Parts : /\ Lastcheck(prt'[p]) = now
                                             /\ since'[p] # 0 => prt'[p].last = now
  PROVE  TmaInv'
<1>1. /\ now' = now /\ begun' = TRUE /\ paused' = paused /\ paused \in BOOLEAN
      /\ now \in Nat /\ now >= 1
  BY DEF TmaInv, TmaTypeOK, Going_on
<1>2. TmaTypeOK'
  BY <1>1 DEF TmaTypeOK, PartOK, Plan, Cmds
<1>3. \A p \in Parts : Settled(prt'[p]) => Settled(prt[p])'
  BY <1>1 DEF Settled, Over, Runs, AtEnd, Next_cmd, Cmds, Lastcheck
<1>4. phase' = "run" => Runs(prt[at])'
  BY <1>1 DEF Runs
<1>5. phase' = "loop" => \A p \in Parts : /\ Lastcheck(prt[p])' = now'
                                          /\ since'[p] # 0 => prt'[p].last = now'
  BY <1>1 DEF Lastcheck
<1>6. Going_on'
  BY <1>1, <1>3, <1>4, <1>5 DEF Going_on
<1> QED
  BY <1>1, <1>2, <1>6 DEF TmaInv

(* ... if only the partition q is another. *)
LEMMA OneMovesOn ==
  ASSUME TmaInv, begun, NEW q \in Parts, NEW Q, NEW s \in Nat, NEW pl \in Plan,
         PartOK(Q, q), Good(Q, s, pl, now), OneMoves(q, Q, s, pl),
         sub' \in [Parts -> Conds \union {NoCase}],
         case' \in StateNames \union Conds \union {NoCase},
         at' \in Parts, phase' \in {"scan", "run", "case", "shift"},
         phase' = "run" => at' = q /\ Runs(Q),
         \A p \in Parts : Through(p)' => (Through(p) /\ p # q) \/ (p = q /\ Settled(Q))
  PROVE  TmaInv'
<1>1. /\ prt' \in [Parts -> Partition]
      /\ \A p \in Parts : PartOK(prt'[p], p)
      /\ plan' \in [Parts -> Plan] /\ since' \in [Parts -> Nat]
      /\ \A p \in Parts : Good(prt'[p], since'[p], plan'[p], now)
      /\ prt'[q] = Q /\ \A p \in Parts : p # q => prt'[p] = prt[p]
      /\ events' \in Nat
  <2>1. /\ prt' \in [Parts -> Partition]
        /\ \A p \in Parts : /\ States[prt'[p].state].part = p
                            /\ prt'[p].next <= Len(Cmds(prt'[p])) + 1
                            /\ prt'[p].waiting >= -1
        /\ plan' \in [Parts -> [t : Nat, d : Nat]] /\ since' \in [Parts -> Nat]
        /\ now' = now /\ events' \in Nat
        /\ \A p \in Parts : Good(prt'[p], since'[p], plan'[p], now')
        /\ prt'[q] = Q /\ \A p \in Parts : p # q => prt'[p] = prt[p]
    BY OneMovesWell
  <2> QED
    BY <2>1 DEF PartOK, Plan
<1>2. \A p \in Parts : Through(p)' => Settled(prt'[p])
  <2> SUFFICES ASSUME NEW p \in Parts, Through(p)'
               PROVE  Settled(prt'[p])
    OBVIOUS
  <2>1. CASE p = q
    BY <1>1, <2>1
  <2>2. CASE p # q
    <3>1. Settled(prt[p])
      BY <2>2 DEF TmaInv, Going_on
    <3> QED
      BY <1>1, <2>2, <3>1
  <2> QED
    BY <2>1, <2>2
<1>3. UNCHANGED <<now, begun, paused>>
  BY DEF OneMoves
<1>4. phase' = "run" => Runs(prt'[at'])
  BY <1>1
<1> QED
  BY <1>1, <1>2, <1>3, <1>4, MovesWell
-----------------------------------------------------------------------------
(* The actions. *)
LEMMA InitHolds ==
  ASSUME Algorithm, TmaInit
  PROVE  TmaInv
<1>1. \A s \in StateNames : StartUp(s) \in Nat /\ StartUp(s) <= Len(States[s].cmds) + 1
  <2> TAKE s \in StateNames
  <2> DEFINE c == States[s].cmds
             S == {n \in 1 .. Len(c) : \A i \in 1 .. n : c[i].dt = 0 /\ c[i].op = "send"}
  <2>1. Len(c) \in Nat
    BY DEF Algorithm, TmaAssumption
  <2>2. IsFiniteSet(1 .. Len(c)) /\ Cardinality(1 .. Len(c)) <= Len(c)
    <3> DEFINE l == Len(c)
    <3>1. l \in Nat
      BY <2>1
    <3> HIDE DEF l
    <3>2. /\ IsFiniteSet(1 .. l)
          /\ Cardinality(1 .. l) = IF 1 > l THEN 0 ELSE l - 1 + 1
      BY <3>1, FS_Interval
    <3>3. IsFiniteSet(1 .. l) /\ Cardinality(1 .. l) <= l
      BY <3>1, <3>2
    <3> QED
      BY <3>3 DEF l
  <2>3. IsFiniteSet(S) /\ Cardinality(S) <= Cardinality(1 .. Len(c))
    BY <2>2, FS_Subset
  <2>4. Cardinality(S) \in Nat /\ Cardinality(1 .. Len(c)) \in Nat
    BY <2>2, <2>3, FS_CardinalityType
  <2>5. StartUp(s) = 1 + Cardinality(S)
    BY DEF StartUp
  <2> HIDE DEF S
  <2> QED
    BY <2>1, <2>2, <2>3, <2>4, <2>5
<1>2. \A p \in Parts : First[p] \in StateNames /\ States[First[p]].part = p
  BY DEF Algorithm, TmaAssumption
<1>3. \A p \in Parts : /\ prt[p].state = First[p] /\ prt[p].next = StartUp(First[p])
                       /\ prt[p].waiting = 0 /\ prt[p].base = 0
  BY DEF TmaInit
<1>4. prt \in [Parts -> Partition]
  BY <1>1, <1>2 DEF TmaInit, Partition
<1>5. \A p \in Parts : /\ States[prt[p].state].part = p
                       /\ prt[p].next <= Len(Cmds(prt[p])) + 1
                       /\ prt[p].waiting >= -1
  <2> TAKE p \in Parts
  <2>1. /\ prt[p].state = First[p] /\ prt[p].next = StartUp(First[p])
        /\ prt[p].waiting = 0
    BY <1>3
  <2> QED
    BY <1>1, <1>2, <2>1 DEF Cmds
<1>6. 0 \in Parts
  BY DEF Algorithm, TmaAssumption, Parts
<1>7. TmaTypeOK
  BY <1>4, <1>5, <1>6 DEF TmaInit, TmaTypeOK
<1>8. Fresh
  BY <1>3 DEF TmaInit, Fresh
<1> QED
  BY <1>7, <1>8 DEF TmaInit, TmaInv

LEMMA TickHolds ==
  ASSUME Algorithm, TmaInv, Tick
  PROVE  TmaInv'
<1>1. /\ now' \in Nat /\ now' >= 1 /\ now \in Nat /\ (now' = now \/ now' = now + 1)
      /\ phase = "loop" /\ phase' = "scan" /\ at' = 0 /\ begun' = TRUE
      /\ UNCHANGED <<paused, sub, case, events, since>>
  <2>1. phase = "loop" /\ phase' = "scan" /\ at' = 0 /\ begun' = TRUE
    BY DEF Tick
  <2>2. UNCHANGED <<paused, sub, case, events, since>>
    BY DEF Tick
  <2>3. now \in Nat /\ MaxTime \in Nat
    BY DEF TmaInv, TmaTypeOK, Algorithm, TmaAssumption
  <2>4. now' \in {now, now + 1} /\ now' \in 1 .. MaxTime
    BY DEF Tick
  <2> QED
    BY <2>1, <2>2, <2>3, <2>4
<1>2. 0 \in Parts /\ \A p \in Parts : ~(p < 0)
  BY DEF Algorithm, TmaAssumption, Parts
<1>3. TmaTypeOK
  BY DEF TmaInv
<1>4. CASE begun
  <2>1. prt' = prt /\ plan' = plan
    BY <1>4 DEF Tick
  <2>2. TmaTypeOK'
    BY <1>1, <1>2, <1>3, <2>1 DEF TmaTypeOK, Cmds
  <2>3. Going_on
    BY <1>4 DEF TmaInv
  <2>4. \A p \in Parts : Good(prt'[p], since'[p], plan'[p], now')
    <3> TAKE p \in Parts
    <3>1. /\ Good(prt[p], since[p], plan[p], now) /\ Lastcheck(prt[p]) = now
          /\ since[p] # 0 => prt[p].last = now
      BY <1>1, <2>3 DEF Going_on
    <3>2. prt[p] \in Partition /\ plan[p] \in Plan /\ since[p] \in Nat
      BY <1>3, Typed DEF PartOK
    <3>3. Good(prt[p], since[p], plan[p], now + 1)
      BY <1>1, <3>1, <3>2, NextSecond
    <3> QED
      BY <1>1, <2>1, <3>1, <3>3
  <2>5. Going_on'
    BY <1>1, <1>2, <2>4 DEF Going_on, Through
  <2> QED
    BY <1>1, <2>2, <2>5 DEF TmaInv
<1>5. CASE ~begun
  <2>1. /\ prt' = [p \in Parts |-> [prt[p] EXCEPT !.base = now', !.last = now' - 1]]
        /\ plan' = [p \in Parts |-> [t |-> now', d |-> 0]]
    BY <1>5 DEF Tick
  <2>2. Fresh
    BY <1>5 DEF TmaInv
  <2>3. \A p \in Parts :
          /\ prt'[p] \in Partition /\ prt'[p].state = prt[p].state
          /\ prt'[p].next = prt[p].next /\ prt'[p].waiting = 0
          /\ prt'[p].base = now' /\ prt'[p].last = now' - 1
    <3> TAKE p \in Parts
    <3> DEFINE R == [prt[p] EXCEPT !.base = now']
    <3>1. prt[p] \in Partition /\ prt[p].waiting = 0
      BY <1>3, <2>2 DEF TmaTypeOK, Fresh
    <3>2. /\ R \in Partition /\ R.state = prt[p].state /\ R.next = prt[p].next
          /\ R.waiting = 0 /\ R.base = now'
      BY <1>1, <3>1 DEF Partition
    <3>3. prt'[p] = [R EXCEPT !.last = now' - 1]
      BY <2>1, <3>1 DEF Partition
    <3> HIDE DEF R
    <3> QED
      BY <1>1, <3>2, <3>3 DEF Partition
  <2>4. TmaTypeOK'
    <3>1. prt' \in [Parts -> Partition] /\ plan' \in [Parts -> [t : Nat, d : Nat]]
      BY <1>1, <2>1, <2>3
    <3>2. \A p \in Parts : /\ States[prt'[p].state].part = p
                           /\ prt'[p].next <= Len(Cmds(prt'[p])) + 1
                           /\ prt'[p].waiting >= -1
      <4> TAKE p \in Parts
      <4>1. PartOK(prt[p], p)
        BY <1>3, Typed
      <4>2. prt'[p].state = prt[p].state /\ prt'[p].next = prt[p].next /\ prt'[p].waiting = 0
        BY <2>3
      <4> QED
        BY <4>1, <4>2 DEF PartOK, Cmds
    <3> QED
      BY <1>1, <1>2, <1>3, <3>1, <3>2 DEF TmaTypeOK
  <2>5. \A p \in Parts : Good(prt'[p], since'[p], plan'[p], now')
    <3> TAKE p \in Parts
    <3>1. Lastcheck(prt'[p]) = now'
      BY <1>1, <2>3 DEF Lastcheck
    <3>2. since'[p] = 0 /\ plan'[p] = [t |-> now', d |-> 0]
      BY <1>1, <2>1, <2>2 DEF Fresh
    <3>3. prt'[p].next # Done /\ ~AtEnd(prt'[p]) => Next_cmd(prt'[p]).dt \in Nat
      BY <2>3, NextIsCommand DEF Algorithm, Command
    <3> QED
      BY <1>1, <2>3, <3>1, <3>2, <3>3 DEF Good, Going
  <2>6. Going_on'
    BY <1>1, <1>2, <2>5 DEF Going_on, Through
  <2> QED
    BY <1>1, <2>4, <2>6 DEF TmaInv
<1> QED
  BY <1>4, <1>5

(* A partition is looked at: a hold that is over ends. *)
LEMMA ScanHolds ==
  ASSUME Algorithm, TmaInv, Scan
  PROVE  TmaInv'
<1> DEFINE P == prt[at]
           Q == IF Over(P) THEN [P EXCEPT !.waiting = 0, !.next = @ + 1] ELSE P
           s == IF Over(P) THEN 0 ELSE since[at]
           pl == IF Over(P) THEN [t |-> now, d |-> Next_cmd(P).dt] ELSE plan[at]
<1>1. begun /\ Going_on /\ TmaTypeOK /\ at \in Parts /\ phase = "scan"
  BY DEF Scan, TmaInv, Fresh, TmaTypeOK
<1>2. /\ PartOK(P, at) /\ P \in Partition /\ plan[at] \in Plan /\ since[at] \in Nat
      /\ now \in Nat /\ Good(P, since[at], plan[at], now)
  BY <1>1, Typed DEF PartOK, Going_on
<1>3. /\ PartOK(Q, at) /\ Good(Q, s, pl, now) /\ s \in Nat /\ pl \in Plan
      /\ ~(now # Q.last /\ Q.waiting > 0 /\ now - Lastcheck(Q) >= Q.waiting)
  <2>1. CASE ~Over(P)
    BY <1>2, <2>1 DEF Over
  <2>2. CASE Over(P)
    <3>1. P.waiting > 0 /\ now # P.last /\ since[at] # 0
      BY <1>2, <2>2, HeldWaits DEF Over
    <3>2. AtHold(P)
      BY <1>2, <3>1 DEF Good, Held
    <3>3. /\ P.next \in 1 .. Len(Cmds(P)) /\ Len(Cmds(P)) \in Nat
          /\ Next_cmd(P).dt \in Nat
      BY <1>2, <3>2, NextIsCommand DEF AtHold, Algorithm, Command
    <3>4. /\ Q.state = P.state /\ Q.base = P.base /\ Q.last = P.last /\ Q.waiting = 0
          /\ Q.next = P.next + 1 /\ Q \in Partition
      <4> DEFINE R == [P EXCEPT !.waiting = 0]
      <4>1. /\ R \in Partition /\ R.state = P.state /\ R.base = P.base
            /\ R.last = P.last /\ R.waiting = 0 /\ R.next = P.next
        BY <1>2 DEF Partition
      <4>2. Q = [R EXCEPT !.next = R.next + 1]
        BY <1>2, <2>2 DEF Partition
      <4> HIDE DEF R, Q
      <4> QED
        BY <3>3, <4>1, <4>2 DEF Partition
    <3>5. s = 0 /\ pl = [t |-> now, d |-> Next_cmd(P).dt]
      BY <2>2
    <3> HIDE DEF Q, s, pl
    <3>6. PartOK(Q, at)
      BY <1>2, <3>3, <3>4 DEF PartOK, Cmds
    <3>7. pl \in Plan
      BY <1>2, <3>3, <3>5 DEF Plan
    <3>8. Good(Q, 0, pl, now)
      <4>1. P.next # Done /\ ~AtEnd(P) /\ Q.next >= P.next /\ TmaAssumption
        BY <3>2, <3>3, <3>4 DEF AtHold, Algorithm
      <4>2. pl.t = now /\ pl.d = Next_cmd(P).dt
        BY <3>5
      <4> HIDE DEF P
      <4> QED
        BY <1>2, <3>1, <3>4, <3>7, <4>1, <4>2, GoesOn
    <3> QED
      BY <3>4, <3>5, <3>6, <3>7, <3>8
  <2> QED
    BY <2>1, <2>2
<1>4. OneMoves(at, Q, s, pl)
  BY <1>1 DEF Scan, OneMoves, TmaTypeOK
<1>5. UNCHANGED <<sub, case>> /\ IF Runs(Q) THEN phase' = "run" /\ at' = at ELSE NextPart
  BY DEF Scan
<1> HIDE DEF P, Q, s, pl
<1>6. sub' \in [Parts -> Conds \union {NoCase}]
      /\ case' \in StateNames \union Conds \union {NoCase}
  BY <1>1, <1>5 DEF TmaTypeOK
<1>7. CASE Runs(Q)
  <2>1. phase' = "run" /\ at' = at
    BY <1>5, <1>7
  <2>2. \A p \in Parts : Through(p)' => Through(p) /\ p # at
    BY <1>1, <2>1 DEF Through, Parts
  <2> QED
    BY <1>1, <1>3, <1>4, <1>6, <1>7, <2>1, <2>2, OneMovesOn
<1>8. CASE ~Runs(Q)
  <2>1. /\ at' \in Parts /\ phase' \in {"scan", "shift"}
        /\ \A p \in Parts : Through(p)' => Through(p) \/ p = at
    BY <1>1, <1>5, <1>8, NextPartGoesOn
  <2>2. Settled(Q)
    BY <1>3, <1>8 DEF Settled, Over
  <2>3. \A p \in Parts : Through(p)' => (Through(p) /\ p # at) \/ (p = at /\ Settled(Q))
    BY <2>1, <2>2
  <2> QED
    BY <1>1, <1>3, <1>4, <1>6, <2>1, <2>3, OneMovesOn
<1> QED
  BY <1>7, <1>8

(* The commands of a partition. *)
LEMMA FinishHolds ==
  ASSUME Algorithm, TmaInv, Finish
  PROVE  TmaInv'
<1> DEFINE P == prt[at]
           Q == [P EXCEPT !.next = Done]
<1>1. /\ begun /\ at \in Parts /\ PartOK(P, at) /\ P \in Partition
      /\ Good(P, 0, plan[at], now) /\ since[at] = 0 /\ TmaTypeOK
  BY InRun DEF Finish, PartOK, TmaInv
<1>2. /\ Q \in Partition /\ Q.state = P.state /\ Q.base = P.base /\ Q.last = P.last
      /\ Q.waiting = P.waiting /\ Q.next = 0
  BY <1>1 DEF Partition, Done
<1>3. OneMoves(at, Q, 0, plan[at])
  BY <1>1 DEF Finish, OneMoves, TmaTypeOK
<1>4. /\ NextPart /\ phase = "run" /\ UNCHANGED <<sub, case>>
  BY DEF Finish
<1> HIDE DEF P, Q
<1>5. PartOK(Q, at) /\ Good(Q, 0, plan[at], now) /\ Settled(Q)
  <2>1. PartOK(Q, at)
    <3>1. Cmds(P) = Cmds(Q) /\ Len(Cmds(P)) \in Nat
      BY <1>1, <1>2 DEF Cmds, Algorithm, TmaAssumption, Partition
    <3> QED
      BY <1>1, <1>2, <3>1 DEF PartOK
  <2>2. Good(Q, 0, plan[at], now)
    BY <1>1, <1>2 DEF Good, Going, Lastcheck, Done
  <2>3. Settled(Q)
    BY <1>1, <1>2 DEF Settled, Over, Runs, Good, Going, Done
  <2> QED
    BY <2>1, <2>2, <2>3
<1>6. /\ at' \in Parts /\ phase' \in {"scan", "shift"}
      /\ \A p \in Parts : Through(p)' => Through(p) \/ p = at
  BY <1>1, <1>4, NextPartGoesOn
<1>7. \A p \in Parts : Through(p)' => (Through(p) /\ p # at) \/ (p = at /\ Settled(Q))
  BY <1>5, <1>6
<1>8. /\ sub' \in [Parts -> Conds \union {NoCase}]
      /\ case' \in StateNames \union Conds \union {NoCase} /\ plan[at] \in Plan
  BY <1>1, <1>4, Typed DEF TmaTypeOK
<1> QED
  BY <1>1, <1>3, <1>5, <1>6, <1>7, <1>8, OneMovesOn

LEMMA EarlyHolds ==
  ASSUME Algorithm, TmaInv, Early
  PROVE  TmaInv'
<1> DEFINE P == prt[at]
<1>1. /\ begun /\ at \in Parts /\ PartOK(P, at) /\ Runs(P)
      /\ Good(P, 0, plan[at], now) /\ since[at] = 0 /\ TmaTypeOK
  BY InRun DEF Early, TmaInv
<1>2. OneMoves(at, P, 0, plan[at])
  BY <1>1 DEF Early, OneMoves, TmaTypeOK
<1>3. Settled(P)
  BY <1>1 DEF Early, Settled, Over, Runs
<1>4. /\ NextPart /\ phase = "run" /\ UNCHANGED <<sub, case>>
  BY DEF Early
<1> HIDE DEF P
<1>6. /\ at' \in Parts /\ phase' \in {"scan", "shift"}
      /\ \A p \in Parts : Through(p)' => Through(p) \/ p = at
  BY <1>1, <1>4, NextPartGoesOn
<1>7. \A p \in Parts : Through(p)' => (Through(p) /\ p # at) \/ (p = at /\ Settled(P))
  BY <1>3, <1>6
<1>8. /\ sub' \in [Parts -> Conds \union {NoCase}]
      /\ case' \in StateNames \union Conds \union {NoCase} /\ plan[at] \in Plan
  BY <1>1, <1>4, Typed DEF TmaTypeOK
<1> QED
  BY <1>1, <1>2, <1>6, <1>7, <1>8, OneMovesOn

LEMMA SendHolds ==
  ASSUME Algorithm, TmaInv, Send
  PROVE  TmaInv'
<1> DEFINE Q == [prt[at] EXCEPT !.next = @ + 1]
<1>1. /\ begun /\ at \in Parts /\ Runs(prt[at]) /\ since[at] = 0 /\ TmaTypeOK
      /\ phase = "run" /\ ~AtEnd(prt[at])
  BY InRun DEF Send, Due, TmaInv
<1>2. /\ PartOK(Q, at) /\ Good(Q, 0, plan[at], now)
      /\ Q.waiting = 0 /\ Q.next # Done /\ Q.last = prt[at].last
      /\ Passed = [prt EXCEPT ![at] = Q]
  BY <1>1, PassedIsGood
<1> HIDE DEF Q
<1>3. OneMoves(at, Q, 0, plan[at])
  BY <1>1, <1>2 DEF Send, OneMoves, TmaTypeOK
<1>4. Runs(Q)
  BY <1>1, <1>2 DEF Runs
<1>5. /\ sub' \in [Parts -> Conds \union {NoCase}]
      /\ case' \in StateNames \union Conds \union {NoCase} /\ plan[at] \in Plan
      /\ phase' = "run" /\ at' = at
  BY <1>1, Typed DEF TmaTypeOK, Send
<1>6. \A p \in Parts : Through(p)' => Through(p) /\ p # at
  BY <1>1, <1>5 DEF Through, Parts
<1> QED
  BY <1>1, <1>2, <1>3, <1>4, <1>5, <1>6, OneMovesOn

LEMMA ValidateHolds ==
  ASSUME Algorithm, TmaInv, Validate
  PROVE  TmaInv'
<1> DEFINE Q == [prt[at] EXCEPT !.next = @ + 1]
<1>1. /\ begun /\ at \in Parts /\ Runs(prt[at]) /\ since[at] = 0 /\ TmaTypeOK
      /\ phase = "run" /\ ~AtEnd(prt[at]) /\ prt[at] \in Partition
  BY InRun DEF Validate, Due, TmaInv, PartOK
<1>2. /\ PartOK(Q, at) /\ Good(Q, 0, plan[at], now)
      /\ Passed = [prt EXCEPT ![at] = Q]
  BY <1>1, PassedIsGood
<1> HIDE DEF Q
<1>3. OneMoves(at, Q, 0, plan[at])
  BY <1>1, <1>2 DEF Validate, OneMoves, TmaTypeOK
<1>4. Next_cmd(prt[at]) \in Command
  BY <1>1, NextIsCommand DEF Runs, Algorithm
<1>5. /\ sub' \in [Parts -> Conds \union {NoCase}]
      /\ case' \in StateNames \union Conds \union {NoCase} /\ plan[at] \in Plan
      /\ phase' = "case" /\ at' \in Parts
  BY <1>1, <1>4, Typed DEF TmaTypeOK, Validate, Command
<1>6. \A p \in Parts : ~Through(p)'
  BY <1>5 DEF Through
<1> QED
  BY <1>1, <1>2, <1>3, <1>5, <1>6, OneMovesOn

(* A hold is reached. *)
LEMMA HoldHolds ==
  ASSUME Algorithm, TmaInv, Hold
  PROVE  TmaInv'
<1> DEFINE P == prt[at]
           Q == [P EXCEPT !.waiting = Waiting(P)]
           s == P.base + Next_cmd(P).dt
<1>1. /\ begun /\ at \in Parts /\ PartOK(P, at) /\ P \in Partition /\ Runs(P)
      /\ Good(P, 0, plan[at], now) /\ since[at] = 0 /\ TmaTypeOK
      /\ phase = "run" /\ AtHold(P) /\ Next_cmd(P).dt <= now - P.base
      /\ plan[at] \in Plan /\ now \in Nat
  BY InRun, Typed DEF Hold, Due, PartOK, TmaInv, AtHold, Runs
<1>2. Next_cmd(P) \in Command
  BY <1>1, NextIsCommand DEF AtHold, Algorithm
<1>3. Waiting(P) \in Int
  BY <1>1, <1>2 DEF Waiting, Lastcheck, Partition, Command
<1>4. /\ Q \in Partition /\ Q.state = P.state /\ Q.base = P.base /\ Q.last = P.last
      /\ Q.next = P.next /\ Q.waiting = Waiting(P)
  BY <1>1, <1>3 DEF Partition
<1>5. s \in Nat
  BY <1>1, <1>2 DEF Partition, Command
<1>6. OneMoves(at, Q, s, plan[at])
  BY <1>1 DEF Hold, OneMoves, TmaTypeOK
<1>7. /\ sub' = sub
      /\ IF Next_cmd(P).to # NoCase
         THEN phase' = "case" /\ case' = Next_cmd(P).to /\ at' = at
         ELSE /\ case' = case
              /\ IF Waiting(P) = 0 THEN phase' = "run" /\ at' = at ELSE NextPart
  BY DEF Hold
<1> HIDE DEF P, Q, s
<1>8. /\ Good(Q, s, plan[at], now)
      /\ Waiting(P) # 0 /\ Waiting(P) >= -1
      /\ Next_cmd(P).to = NoCase /\ Waiting(P) > 0 => now - Lastcheck(Q) < Waiting(P)
  BY <1>1, <1>4, Reached DEF s
<1>9. PartOK(Q, at)
  BY <1>1, <1>4, <1>8 DEF PartOK, Cmds
<1>10. /\ sub' \in [Parts -> Conds \union {NoCase}]
       /\ case' \in StateNames \union Conds \union {NoCase}
  BY <1>1, <1>2, <1>7 DEF TmaTypeOK, Command
<1>11. CASE Next_cmd(P).to # NoCase
  <2>1. \A p \in Parts : ~Through(p)'
    BY <1>7, <1>11 DEF Through
  <2>2. phase' = "case" /\ at' \in Parts
    BY <1>1, <1>7, <1>11
  <2> QED
    BY <1>1, <1>5, <1>6, <1>8, <1>9, <1>10, <2>1, <2>2, OneMovesOn
<1>12. CASE Next_cmd(P).to = NoCase
  <2>1. NextPart
    BY <1>7, <1>8, <1>12
  <2>2. Settled(Q)
    <3>1. Lastcheck(Q) \in Int /\ now - Lastcheck(Q) \in Int
      BY <1>1, <1>4 DEF Lastcheck, Partition
    <3> QED
      BY <1>3, <1>4, <1>8, <1>12, <3>1 DEF Settled, Over, Runs
  <2>3. /\ at' \in Parts /\ phase' \in {"scan", "shift"}
        /\ \A p \in Parts : Through(p)' => Through(p) \/ p = at
    BY <1>1, <2>1, NextPartGoesOn
  <2>4. \A p \in Parts : Through(p)' => (Through(p) /\ p # at) \/ (p = at /\ Settled(Q))
    BY <2>2, <2>3
  <2> QED
    BY <1>1, <1>5, <1>6, <1>8, <1>9, <1>10, <2>3, <2>4, OneMovesOn
<1> QED
  BY <1>11, <1>12

(* A hold is resumed, of this partition or of another. *)
LEMMA ResumeHolds ==
  ASSUME Algorithm, TmaInv, Resume
  PROVE  TmaInv'
<1> DEFINE R == [prt[at] EXCEPT !.next = @ + 1]
           st == Next_cmd(prt[at]).to
           q == States[st].part
           P == Passed[q]
<1>1. /\ begun /\ at \in Parts /\ Runs(prt[at]) /\ since[at] = 0 /\ TmaTypeOK
      /\ phase = "run" /\ ~AtEnd(prt[at]) /\ prt[at] \in Partition
      /\ Next_cmd(prt[at]).op = "resume" /\ now \in Nat /\ Going_on
  BY InRun DEF Resume, Due, TmaInv, PartOK, TmaTypeOK
<1>2. /\ PartOK(R, at) /\ Good(R, 0, plan[at], now) /\ Runs(R)
      /\ Passed = [prt EXCEPT ![at] = R]
  BY <1>1, PassedIsGood DEF Runs
<1>3. q \in Parts
  <2>1. prt[at].next \in 1 .. Len(Cmds(prt[at])) /\ prt[at].state \in StateNames
    BY <1>1, NextIsCommand DEF Runs, Algorithm, Partition
  <2>2. st \in StateNames
    BY <1>1, <2>1 DEF Algorithm, TmaAssumption, Cmds, Next_cmd
  <2> QED
    BY <2>2 DEF Algorithm, TmaAssumption
<1>4. ScanAgain(q) /\ UNCHANGED <<now, begun, paused, sub, case, events>>
  BY DEF Resume
<1>5. IF P.state = st /\ AtHold(P)
      THEN /\ prt' = [Passed EXCEPT ![q] = Released(P)]
           /\ plan' = [plan EXCEPT ![q] = Planned(q, P)]
           /\ since' = [since EXCEPT ![q] = 0]
      ELSE prt' = Passed /\ UNCHANGED <<plan, since>>
  BY DEF Resume
<1> HIDE DEF R, st
<1>6. /\ P = IF q = at THEN R ELSE prt[q]
      /\ Passed \in [Parts -> Partition]
  BY <1>1, <1>2, <1>3 DEF TmaTypeOK, PartOK
<1> HIDE DEF P, q
<1>7. /\ sub' \in [Parts -> Conds \union {NoCase}]
      /\ case' \in StateNames \union Conds \union {NoCase}
      /\ events' \in Nat /\ UNCHANGED <<now, begun, paused>>
  BY <1>1, <1>4 DEF TmaTypeOK
<1>8. /\ at' \in Parts /\ phase' \in {"scan", "run"}
      /\ phase' = "run" => at' = at
      /\ \A p \in Parts : Through(p)' => Through(p) /\ p # at /\ p < at /\ ~(q < at)
  <2>1. NParts \in Nat /\ Parts = 0 .. NParts - 1 /\ 0 \in Parts
    BY DEF Algorithm, TmaAssumption, Parts
  <2>2. CASE q < at
    <3>1. phase' = "scan" /\ at' = 0
      BY <1>4, <2>2 DEF ScanAgain
    <3> QED
      BY <2>1, <3>1 DEF Through
  <2>3. CASE ~(q < at)
    <3>1. phase' = "run" /\ at' = at
      BY <1>4, <2>3 DEF ScanAgain
    <3> QED
      BY <1>1, <2>1, <2>3, <3>1 DEF Through
  <2> QED
    BY <2>2, <2>3
<1>9. plan[at] \in Plan /\ 0 \in Nat
  BY <1>1, Typed
<1>10. CASE ~(P.state = st /\ AtHold(P))
  <2>1. OneMoves(at, R, 0, plan[at])
    BY <1>1, <1>2, <1>4, <1>5, <1>10 DEF OneMoves, TmaTypeOK
  <2> QED
    BY <1>1, <1>2, <1>7, <1>8, <1>9, <2>1, OneMovesOn
<1>11. CASE P.state = st /\ AtHold(P)
  <2> DEFINE Q == Released(P)
  <2>1. /\ prt' = [Passed EXCEPT ![q] = Q]
        /\ plan' = [plan EXCEPT ![q] = Planned(q, P)]
        /\ since' = [since EXCEPT ![q] = 0]
    BY <1>5, <1>11
  <2>2. PartOK(P, q) /\ Good(P, since[q], plan[q], now)
    BY <1>1, <1>2, <1>3, <1>6, Typed DEF Going_on
  <2>3. /\ PartOK(Q, q) /\ Good(Q, 0, Planned(q, P), now) /\ Planned(q, P) \in Plan
        /\ Q.waiting = 0 /\ Q.next # Done /\ Q.last = P.last
    BY <1>1, <1>3, <1>11, <2>2, ReleasedIsGood
  <2> HIDE DEF Q
  <2>4. CASE q = at
    <3>1. OneMoves(at, Q, 0, Planned(q, P))
      BY <1>1, <1>2, <1>4, <2>1, <2>4 DEF OneMoves, TmaTypeOK
    <3>2. Runs(Q)
      BY <1>2, <1>6, <2>3, <2>4 DEF Runs
    <3> QED
      BY <1>1, <1>7, <1>8, <1>9, <2>3, <2>4, <3>1, <3>2, OneMovesOn
  <2>5. CASE q # at
    <3>1. /\ prt'[at] = R /\ prt'[q] = Q
          /\ \A p \in Parts : p # at /\ p # q => prt'[p] = prt[p]
      BY <1>1, <1>2, <1>3, <1>6, <2>1, <2>5 DEF TmaTypeOK
    <3>2. /\ plan' \in [Parts -> Plan] /\ since' \in [Parts -> Nat]
          /\ plan'[q] = Planned(q, P) /\ since'[q] = 0
          /\ \A p \in Parts : p # q => plan'[p] = plan[p] /\ since'[p] = since[p]
      BY <1>1, <1>3, <2>1, <2>3 DEF TmaTypeOK, Plan
    <3>3. prt' \in [Parts -> Partition]
      BY <1>3, <1>6, <2>1, <2>3 DEF PartOK
    <3>4. \A p \in Parts : PartOK(prt'[p], p) /\ Good(prt'[p], since'[p], plan'[p], now)
      <4> TAKE p \in Parts
      <4>1. CASE p = q
        BY <2>3, <3>1, <3>2, <4>1
      <4>2. CASE p = at
        BY <1>1, <1>2, <2>5, <3>1, <3>2, <4>2
      <4>3. CASE p # q /\ p # at
        BY <1>1, <3>1, <3>2, <4>3, Typed DEF Going_on
      <4> QED
        BY <4>1, <4>2, <4>3
    <3>5. \A p \in Parts : Through(p)' => Settled(prt'[p])
      <4> SUFFICES ASSUME NEW p \in Parts, Through(p)'
                   PROVE  Settled(prt'[p])
        OBVIOUS
      <4>1. Through(p) /\ p # at /\ p # q
        BY <1>8
      <4> QED
        BY <1>1, <3>1, <4>1 DEF Going_on
    <3>6. phase' = "run" => Runs(prt'[at'])
      BY <1>2, <1>8, <3>1
    <3> QED
      BY <1>1, <1>7, <1>8, <3>2, <3>3, <3>4, <3>5, <3>6, MovesWell
  <2> QED
    BY <2>4, <2>5
<1> QED
  BY <1>10, <1>11

(* A condition is met, or none was held for. *)
LEMMA SucceedIsGood ==
  ASSUME Algorithm, TmaInv, begun, NEW p \in Parts, NEW c, Succeed(p, c),
         UNCHANGED <<now, begun, paused, events>>
  PROVE  \E Q, s, pl : /\ PartOK(Q, p) /\ s \in Nat /\ pl \in Plan
                       /\ Good(Q, s, pl, now) /\ OneMoves(p, Q, s, pl)
                       /\ Lastcheck(Q) = Lastcheck(prt[p]) /\ Q.last = prt[p].last
                       /\ s # 0 => s = since[p]
<1>1. /\ TmaTypeOK /\ PartOK(prt[p], p) /\ since[p] \in Nat /\ plan[p] \in Plan
      /\ Good(prt[p], since[p], plan[p], now) /\ events \in Nat
  BY Typed DEF TmaInv, Going_on, TmaTypeOK
<1>2. CASE MeetsHold(p, c)
  <2> DEFINE Q == Released(prt[p])
  <2>1. /\ PartOK(Q, p) /\ Good(Q, 0, Planned(p, prt[p]), now)
        /\ Planned(p, prt[p]) \in Plan /\ Q.last = prt[p].last /\ Q.base = prt[p].base
    BY <1>1, <1>2, ReleasedIsGood DEF MeetsHold
  <2>2. OneMoves(p, Q, 0, Planned(p, prt[p]))
    BY <1>1, <1>2 DEF Succeed, OneMoves, TmaTypeOK
  <2>3. Lastcheck(Q) = Lastcheck(prt[p])
    BY <2>1 DEF Lastcheck
  <2> HIDE DEF Q
  <2> QED
    BY <2>1, <2>2, <2>3
<1>3. CASE ~MeetsHold(p, c)
  <2>1. OneMoves(p, prt[p], since[p], plan[p])
    BY <1>1, <1>3 DEF Succeed, OneMoves, TmaTypeOK
  <2> QED
    BY <1>1, <2>1
<1> QED
  BY <1>2, <1>3

(* A state is entered. *)
LEMMA EnterMoves ==
  ASSUME Algorithm, TmaInv, begun, NEW s \in StateNames, Enter(s),
         UNCHANGED <<now, begun, paused>>, events' \in {events, events + 1},
         NEW q, q = States[s].part
  PROVE  /\ q \in Parts /\ sub' \in [Parts -> Conds \union {NoCase}]
         /\ \E Q, pl : /\ PartOK(Q, q) /\ pl \in Plan /\ Good(Q, 0, pl, now)
                       /\ OneMoves(q, Q, 0, pl) /\ Lastcheck(Q) = now
<1> DEFINE Q == [state |-> s, base |-> now, last |-> now - 1, next |-> 1, waiting |-> 0]
           pl == [t |-> now, d |-> 0]
<1>1. now \in Nat /\ now >= 1 /\ TmaTypeOK
  BY DEF TmaInv, TmaTypeOK, Going_on
<1>2. q \in Parts /\ PartOK(Q, q) /\ Good(Q, 0, pl, now) /\ Lastcheck(Q) = now
  BY <1>1, EnteredIsGood
<1>3. pl \in Plan
  BY <1>1 DEF Plan
<1>4. OneMoves(q, Q, 0, pl) /\ sub' \in [Parts -> Conds \union {NoCase}]
  BY <1>1, <1>2 DEF Enter, OneMoves, TmaTypeOK
<1> HIDE DEF Q, pl
<1> QED
  BY <1>2, <1>3, <1>4

LEMMA SwitchHolds ==
  ASSUME Algorithm, TmaInv, Switch
  PROVE  TmaInv'
<1>1. begun /\ at \in Parts /\ phase = "case" /\ TmaTypeOK /\ Going_on
  BY DEF Switch, TmaInv, Fresh, TmaTypeOK
<1>2. /\ phase' = "scan" /\ at' = 0 /\ UNCHANGED <<now, begun, paused, case, events>>
  BY DEF Switch
<1>3. /\ at' \in Parts /\ phase' \in {"scan", "run", "case", "shift"}
      /\ case' \in StateNames \union Conds \union {NoCase}
      /\ events' \in {events, events + 1}
      /\ \A p \in Parts : ~Through(p)'
  BY <1>1, <1>2 DEF Through, Parts, TmaTypeOK, Algorithm, TmaAssumption
<1>4. CASE case \in StateNames /\ Enter(case)
  <2> DEFINE q == States[case].part
  <2>1. /\ q \in Parts /\ sub' \in [Parts -> Conds \union {NoCase}]
        /\ \E Q, pl : /\ PartOK(Q, q) /\ pl \in Plan /\ Good(Q, 0, pl, now)
                      /\ OneMoves(q, Q, 0, pl)
    BY <1>1, <1>2, <1>3, <1>4, EnterMoves
  <2> HIDE DEF q
  <2>2. PICK Q, pl : /\ PartOK(Q, q) /\ pl \in Plan /\ Good(Q, 0, pl, now)
                     /\ OneMoves(q, Q, 0, pl)
    BY <2>1
  <2> QED
    BY <1>1, <1>2, <1>3, <2>1, <2>2, OneMovesOn
<1>5. CASE /\ case \in Conds /\ sub' = [sub EXCEPT ![at] = case]
           /\ UNCHANGED <<prt, plan, since>>
  <2>1. OneMoves(at, prt[at], since[at], plan[at])
    BY <1>1, <1>2, <1>5 DEF OneMoves, TmaTypeOK
  <2>2. /\ PartOK(prt[at], at) /\ since[at] \in Nat /\ plan[at] \in Plan
        /\ Good(prt[at], since[at], plan[at], now)
    BY <1>1, Typed DEF Going_on
  <2>3. sub' \in [Parts -> Conds \union {NoCase}]
    BY <1>1, <1>5 DEF TmaTypeOK
  <2> QED
    BY <1>1, <1>2, <1>3, <2>1, <2>2, <2>3, OneMovesOn
<1>6. CASE Succeed(at, case) /\ sub' = [sub EXCEPT ![at] = NoCase]
  <2>1. PICK Q, s, pl : /\ PartOK(Q, at) /\ s \in Nat /\ pl \in Plan
                        /\ Good(Q, s, pl, now) /\ OneMoves(at, Q, s, pl)
    BY <1>1, <1>2, <1>6, SucceedIsGood
  <2>2. sub' \in [Parts -> Conds \union {NoCase}]
    BY <1>1, <1>6 DEF TmaTypeOK
  <2> QED
    BY <1>1, <1>2, <1>3, <2>1, <2>2, OneMovesOn
<1> QED
  BY <1>4, <1>5, <1>6 DEF Switch

(* The second loop: what is held stands still, the others go on. *)
LEMMA ShiftedIsGood ==
  ASSUME Algorithm, NEW p, NEW P, PartOK(P, p), NEW s \in Nat, NEW pl \in Plan, now \in Nat,
         paused \in BOOLEAN, Good(P, s, pl, now), Settled(P),
         NEW Q, Q = Shifted(P),
         NEW ql, ql = IF paused THEN [pl EXCEPT !.t = @ + now - Lastcheck(P)] ELSE pl
  PROVE  /\ PartOK(Q, p) /\ ql \in Plan /\ Good(Q, s, ql, now)
         /\ Lastcheck(Q) = now /\ Q.last = now
<1> DEFINE dt == now - Lastcheck(P)
           m == dt # 0 /\ (P.waiting # 0 \/ paused)
           b == IF m THEN P.base + dt ELSE P.base
           w == IF m THEN IF P.waiting > dt THEN P.waiting - dt
                          ELSE IF P.waiting > 0 THEN 0 ELSE P.waiting
                ELSE P.waiting
<1>1. /\ P \in Partition /\ P.base \in Nat /\ P.last \in Int /\ P.waiting \in Int
      /\ P.waiting >= -1 /\ Lastcheck(P) \in Int /\ dt \in {0, 1} /\ P.base <= Lastcheck(P)
      /\ P.base <= now /\ 1 <= P.base /\ P.last <= now
  <2>1. /\ P \in Partition /\ P.base \in Nat /\ P.last \in Int
        /\ P.waiting \in Int /\ P.waiting >= -1
    BY DEF PartOK, Partition
  <2>2. Lastcheck(P) \in Int /\ P.base <= Lastcheck(P)
    BY <2>1 DEF Lastcheck
  <2>3. Lastcheck(P) \in {now - 1, now} /\ P.base <= now /\ 1 <= P.base /\ P.last <= now
    BY DEF Good
  <2> QED
    BY <2>1, <2>2, <2>3
<1>2. b \in Nat /\ w \in Int /\ w >= -1
  BY <1>1
<1>3. /\ Q \in Partition /\ Q.state = P.state /\ Q.next = P.next /\ Q.last = now
      /\ Q.base = b /\ Q.waiting = w
  <2>1. CASE m
    <3> DEFINE B == [P EXCEPT !.base = b]
               W == [B EXCEPT !.waiting = w]
    <3>1. /\ B \in Partition /\ B.state = P.state /\ B.next = P.next
          /\ B.base = b /\ B.last = P.last /\ B.waiting = P.waiting
      BY <1>1, <1>2 DEF Partition
    <3>2. Q = [W EXCEPT !.last = now]
      BY <1>1, <2>1 DEF Shifted, Partition
    <3> HIDE DEF B, b, w, m, dt
    <3>3. /\ W \in Partition /\ W.state = P.state /\ W.next = P.next
          /\ W.base = b /\ W.waiting = w
      BY <1>1, <1>2, <3>1 DEF Partition
    <3> HIDE DEF W
    <3> QED
      BY <3>2, <3>3 DEF Partition
  <2>2. CASE ~m
    <3>1. Q = [P EXCEPT !.last = now]
      BY <2>2 DEF Shifted
    <3> QED
      BY <1>1, <2>2, <3>1 DEF Partition
  <2> QED
    BY <2>1, <2>2
<1>4. PartOK(Q, p)
  BY <1>2, <1>3 DEF PartOK, Cmds
<1>5. b <= now /\ 1 <= b /\ Lastcheck(Q) = now
  BY <1>1, <1>3 DEF Lastcheck
<1>6. ql \in Plan /\ ql.d = pl.d /\ ql.t = (IF paused THEN pl.t + dt ELSE pl.t)
  BY <1>1 DEF Plan
<1>7. /\ Next_cmd(Q) = Next_cmd(P) /\ AtEnd(Q) = AtEnd(P) /\ AtHold(Q) = AtHold(P)
  BY <1>3 DEF Next_cmd, AtEnd, AtHold, Cmds
<1>8. P.next # Done /\ ~AtEnd(P) => Next_cmd(P).dt \in Nat /\ Next_cmd(P) \in Command
  BY <1>1, NextIsCommand DEF Algorithm, Command
<1>9. pl.t \in Nat /\ pl.d \in Nat
  BY DEF Plan
<1>10. P.last = now => dt = 0
  BY <1>1 DEF Lastcheck
<1>11. CASE s = 0
  <2>1. Going(P, pl) /\ w = 0
    BY <1>1, <1>11 DEF Good, Going
  <2>2. ql.t - ql.d - b \in {0, 1}
    BY <1>1, <1>6, <1>9, <2>1 DEF Going
  <2>3. P.next # Done /\ ~AtEnd(P) => Next_cmd(P).dt >= now - b
    <3> SUFFICES ASSUME P.next # Done, ~AtEnd(P)
                 PROVE  Next_cmd(P).dt >= now - b
      OBVIOUS
    <3>1. Next_cmd(P).dt >= Lastcheck(P) - P.base
      BY <2>1 DEF Going
    <3>2. CASE dt = 0
      BY <1>1, <1>8, <3>1, <3>2
    <3>3. CASE dt # 0 /\ paused
      BY <1>1, <1>8, <3>1, <3>3
    <3>4. CASE dt # 0 /\ ~paused
      <4>1. Runs(P)
        BY <1>10, <2>1, <3>4 DEF Runs, Going
      <4>2. Next_cmd(P).dt > now - P.base
        BY <4>1 DEF Settled
      <4> QED
        BY <1>1, <1>8, <2>1, <3>4, <4>2 DEF Going
    <3> QED
      BY <3>2, <3>3, <3>4
  <2> HIDE DEF b, w, m, dt
  <2>4. Going(Q, ql)
    BY <1>3, <1>5, <1>7, <2>1, <2>2, <2>3 DEF Going
  <2> QED
    BY <1>3, <1>4, <1>5, <1>6, <1>11, <2>4 DEF Good
<1>12. CASE s # 0
  <2>1. Held(P, s, now) /\ AtHold(P)
    BY <1>12 DEF Good, Held
  <2>2. Next_cmd(P).dt \in Nat /\ Next_cmd(P) \in Command
    BY <1>8, <2>1 DEF AtHold
  <2>3. b + Next_cmd(P).dt \in {now, now + 1}
    BY <1>1, <2>1, <2>2 DEF Held
  <2>4. Next_cmd(P).timeout = -1 => w = -1
    BY <1>1, <2>1 DEF Held
  <2>5. Next_cmd(P).timeout # -1 => w > 0 /\ now + w = s + Next_cmd(P).timeout
    <3> SUFFICES ASSUME Next_cmd(P).timeout # -1
                 PROVE  w > 0 /\ now + w = s + Next_cmd(P).timeout
      OBVIOUS
    <3>1. P.waiting > 0 /\ Lastcheck(P) + P.waiting = s + Next_cmd(P).timeout
      BY <2>1 DEF Held
    <3>2. CASE dt = 0
      BY <1>1, <3>1, <3>2
    <3>3. CASE dt # 0
      <4>1. P.waiting > dt
        BY <1>1, <1>10, <3>1, <3>3 DEF Settled, Over
      <4> QED
        BY <1>1, <3>1, <3>3, <4>1
    <3> QED
      BY <3>2, <3>3
  <2> HIDE DEF b, w, m, dt
  <2>6. Held(Q, s, now)
    BY <1>3, <1>5, <1>7, <2>1, <2>3, <2>4, <2>5 DEF Held
  <2> QED
    BY <1>3, <1>4, <1>5, <1>6, <1>12, <2>6 DEF Good
<1> QED
  BY <1>11, <1>12

LEMMA ShiftHolds ==
  ASSUME Algorithm, TmaInv, Shift
  PROVE  TmaInv'
<1>1. begun /\ phase = "shift" /\ TmaTypeOK /\ Going_on
  BY DEF Shift, TmaInv, Fresh, TmaTypeOK
<1>2. /\ prt' = [p \in Parts |-> Shifted(prt[p])]
      /\ plan' = [p \in Parts |->
                    IF paused THEN [plan[p] EXCEPT !.t = @ + now - Lastcheck(prt[p])]
                    ELSE plan[p]]
      /\ phase' = "loop"
      /\ UNCHANGED <<now, begun, paused, sub, at, case, events, since>>
  BY DEF Shift
<1>3. \A p \in Parts : /\ PartOK(prt'[p], p) /\ plan'[p] \in Plan
                       /\ Good(prt'[p], since'[p], plan'[p], now)
                       /\ Lastcheck(prt'[p]) = now /\ prt'[p].last = now
  <2> TAKE p \in Parts
  <2>1. /\ PartOK(prt[p], p) /\ since[p] \in Nat /\ plan[p] \in Plan /\ now \in Nat
        /\ paused \in BOOLEAN /\ Good(prt[p], since[p], plan[p], now)
    BY <1>1, Typed DEF Going_on, TmaTypeOK
  <2>2. Settled(prt[p])
    BY <1>1 DEF Going_on, Through
  <2> DEFINE Q == Shifted(prt[p])
             ql == IF paused THEN [plan[p] EXCEPT !.t = @ + now - Lastcheck(prt[p])]
                   ELSE plan[p]
  <2>3. prt'[p] = Q /\ since'[p] = since[p] /\ plan'[p] = ql
    BY <1>2
  <2>4. /\ PartOK(Q, p) /\ ql \in Plan /\ Good(Q, since[p], ql, now)
        /\ Lastcheck(Q) = now /\ Q.last = now
    BY <2>1, <2>2, ShiftedIsGood
  <2> HIDE DEF Q, ql
  <2> QED
    BY <2>3, <2>4
<1>4. prt' \in [Parts -> Partition] /\ plan' \in [Parts -> Plan]
  BY <1>2, <1>3 DEF PartOK
<1>5. \A p \in Parts : ~Through(p)'
  BY <1>2 DEF Through
<1>6. /\ since' \in [Parts -> Nat] /\ sub' \in [Parts -> Conds \union {NoCase}]
      /\ case' \in StateNames \union Conds \union {NoCase} /\ at' \in Parts
      /\ events' \in Nat
  BY <1>1, <1>2 DEF TmaTypeOK
<1> QED
  BY <1>1, <1>2, <1>3, <1>4, <1>5, <1>6, MovesWell

(* Other statements. *)
LEMMA OneMovesInLoop ==
  ASSUME TmaInv, begun, NEW q \in Parts, NEW Q, NEW s \in Nat, NEW pl \in Plan,
         PartOK(Q, q), Good(Q, s, pl, now), OneMoves(q, Q, s, pl),
         sub' \in [Parts -> Conds \union {NoCase}],
         phase = "loop", UNCHANGED <<phase, at, case>>,
         Lastcheck(Q) = now, s # 0 => Q.last = now
  PROVE  TmaInv'
<1>1. /\ prt' \in [Parts -> Partition]
      /\ \A p \in Parts : PartOK(prt'[p], p)
      /\ plan' \in [Parts -> Plan] /\ since' \in [Parts -> Nat]
      /\ \A p \in Parts : Good(prt'[p], since'[p], plan'[p], now)
      /\ prt'[q] = Q /\ since'[q] = s
      /\ \A p \in Parts : p # q => prt'[p] = prt[p] /\ since'[p] = since[p]
      /\ events' \in Nat
  <2>1. /\ prt' \in [Parts -> Partition]
        /\ \A p \in Parts : /\ States[prt'[p].state].part = p
                            /\ prt'[p].next <= Len(Cmds(prt'[p])) + 1
                            /\ prt'[p].waiting >= -1
        /\ plan' \in [Parts -> [t : Nat, d : Nat]] /\ since' \in [Parts -> Nat]
        /\ now' = now /\ events' \in Nat
        /\ \A p \in Parts : Good(prt'[p], since'[p], plan'[p], now')
        /\ prt'[q] = Q /\ since'[q] = s
        /\ \A p \in Parts : p # q => prt'[p] = prt[p] /\ since'[p] = since[p]
    BY OneMovesWell
  <2> QED
    BY <2>1 DEF PartOK, Plan
<1>2. \A p \in Parts : /\ Lastcheck(prt'[p]) = now
                       /\ since'[p] # 0 => prt'[p].last = now
  <2> TAKE p \in Parts
  <2>1. CASE p = q
    BY <1>1, <2>1
  <2>2. CASE p # q
    BY <1>1, <2>2 DEF TmaInv, Going_on
  <2> QED
    BY <2>1, <2>2
<1>3. UNCHANGED <<now, begun, paused>> /\ \A p \in Parts : ~Through(p)'
  BY DEF OneMoves, Through
<1>4. /\ case' \in StateNames \union Conds \union {NoCase} /\ at' \in Parts
      /\ phase' = "loop"
  BY DEF TmaInv, TmaTypeOK
<1> QED
  BY <1>1, <1>2, <1>3, <1>4, MovesWell

LEMMA ConditionMetHolds ==
  ASSUME Algorithm, TmaInv, NEW p \in Parts, ConditionMet(p)
  PROVE  TmaInv'
<1>1. /\ phase = "loop" /\ sub[p] # NoCase /\ Succeed(p, sub[p])
      /\ sub' = [sub EXCEPT ![p] = NoCase]
      /\ UNCHANGED <<now, begun, paused, phase, at, case, events>>
  BY DEF ConditionMet
<1>2. begun /\ Going_on /\ TmaTypeOK
  BY <1>1 DEF TmaInv, Fresh
<1>3. PICK Q, s, pl : /\ PartOK(Q, p) /\ s \in Nat /\ pl \in Plan
                      /\ Good(Q, s, pl, now) /\ OneMoves(p, Q, s, pl)
                      /\ Lastcheck(Q) = Lastcheck(prt[p]) /\ Q.last = prt[p].last
                      /\ s # 0 => s = since[p]
  BY <1>1, <1>2, SucceedIsGood
<1>4. Lastcheck(prt[p]) = now /\ (since[p] # 0 => prt[p].last = now)
  BY <1>1, <1>2 DEF Going_on
<1>5. sub' \in [Parts -> Conds \union {NoCase}]
  BY <1>1, <1>2 DEF TmaTypeOK
<1> QED
  BY <1>1, <1>2, <1>3, <1>4, <1>5, OneMovesInLoop

LEMMA StatementHolds ==
  ASSUME Algorithm, TmaInv, Statement
  PROVE  TmaInv'
<1>1. /\ phase = "loop" /\ begun /\ events' = events + 1
      /\ UNCHANGED <<now, begun, phase, at, case>>
  BY DEF Statement
<1>2. TmaTypeOK /\ Going_on
  BY <1>1 DEF TmaInv
<1>3. CASE \E s \in StateNames : Enter(s) /\ paused' = paused
  <2>1. PICK s \in StateNames : Enter(s) /\ paused' = paused
    BY <1>3
  <2> DEFINE q == States[s].part
  <2>2. /\ q \in Parts /\ sub' \in [Parts -> Conds \union {NoCase}]
        /\ \E Q, pl : /\ PartOK(Q, q) /\ pl \in Plan /\ Good(Q, 0, pl, now)
                      /\ OneMoves(q, Q, 0, pl) /\ Lastcheck(Q) = now
    BY <1>1, <2>1, EnterMoves
  <2> HIDE DEF q
  <2>3. PICK Q, pl : /\ PartOK(Q, q) /\ pl \in Plan /\ Good(Q, 0, pl, now)
                     /\ OneMoves(q, Q, 0, pl) /\ Lastcheck(Q) = now
    BY <2>2
  <2> QED
    BY <1>1, <2>2, <2>3, OneMovesInLoop
<1>4. CASE paused' = ~paused /\ UNCHANGED <<prt, sub, plan, since>>
  <2>1. TmaTypeOK'
    BY <1>1, <1>2, <1>4 DEF TmaTypeOK, Cmds
  <2>2. /\ now' >= 1 /\ phase' = "loop"
        /\ \A p \in Parts : Good(prt'[p], since'[p], plan'[p], now')
        /\ \A p \in Parts : /\ Lastcheck(prt'[p]) = now'
                            /\ since'[p] # 0 => prt'[p].last = now'
    BY <1>1, <1>2, <1>4 DEF Going_on
  <2>3. (\A p \in Parts : ~Through(p)') /\ phase' # "run"
    BY <2>2 DEF Through
  <2>4. Going_on'
    BY <2>2, <2>3 DEF Going_on, Lastcheck
  <2> QED
    BY <1>1, <2>1, <2>4 DEF TmaInv
<1> QED
  BY <1>3, <1>4 DEF Statement
-----------------------------------------------------------------------------
(* What is true of the partitions (TmaInv), and with it that everything has its
   type, holds for every algorithm whose holds wait. *)
THEOREM PartitionsGood == Algorithm => (TmaSpec => []TmaInv)
<1>1. ASSUME Algorithm, TmaInit PROVE TmaInv
  BY <1>1, InitHolds
<1>2. ASSUME Algorithm, TmaInv, [TmaNext]_tmavars PROVE TmaInv'
  <2>1. CASE UNCHANGED tmavars
    <3>1. UNCHANGED <<now, begun, paused, prt, sub, phase, at, case, events, plan, since>>
      BY <2>1 DEF tmavars
    <3>2. TmaTypeOK'
      BY <1>2, <3>1 DEF TmaInv, TmaTypeOK, Cmds
    <3>3. begun' = begun
      BY <3>1
    <3>4. CASE begun
      <4>1. Going_on
        BY <1>2, <3>4 DEF TmaInv
      <4>2. Going_on'
        BY <3>1, <4>1 DEF Going_on, Through, Settled, Over, Runs, AtEnd, Next_cmd, Cmds,
                          Lastcheck
      <4> QED
        BY <3>2, <3>3, <3>4, <4>2 DEF TmaInv
    <3>5. CASE ~begun
      <4>1. Fresh
        BY <1>2, <3>5 DEF TmaInv
      <4>2. Fresh'
        BY <3>1, <4>1 DEF Fresh
      <4> QED
        BY <3>2, <3>3, <3>5, <4>2 DEF TmaInv
    <3> QED
      BY <3>4, <3>5
  <2> QED
    BY <1>2, <2>1, TickHolds, ScanHolds, FinishHolds, EarlyHolds, SendHolds, ValidateHolds,
       HoldHolds, ResumeHolds, SwitchHolds, ShiftHolds, StatementHolds, ConditionMetHolds
       DEF TmaNext
<1>3. Algorithm => (TmaInit /\ [][TmaNext]_tmavars => []TmaInv)
  <2> SUFFICES ASSUME Algorithm
               PROVE  TmaInit /\ [][TmaNext]_tmavars => []TmaInv
    OBVIOUS
  <2>1. TmaInit => TmaInv
    BY <1>1
  <2>2. TmaInv /\ [TmaNext]_tmavars => TmaInv'
    BY <1>2
  <2> QED
    BY <2>1, <2>2, PTL
<1> QED
  BY <1>3 DEF TmaSpec

(* Commands are issued when the clock of their state reaches their time, and the
   clock stands still in holds only, to within a second. *)
THEOREM CommandsOnTime == Algorithm => (TmaSpec => []OnTime)
<1>1. ASSUME Algorithm, TmaInv PROVE OnTime
  <2>1. DueDone
    <3>1. CASE begun
      BY <1>1, <3>1 DEF TmaInv, Going_on, Through, Settled, DueDone
    <3>2. CASE ~begun
      BY <1>1, <3>2 DEF TmaInv, Fresh, DueDone
    <3> QED
      BY <3>1, <3>2
  <2>2. ClockRight
    <3>1. CASE begun
      BY <1>1, <3>1 DEF TmaInv, Going_on, Good, Going, ClockRight
    <3>2. CASE ~begun
      BY <1>1, <3>2 DEF TmaInv, Fresh, ClockRight
    <3> QED
      BY <3>1, <3>2
  <2> QED
    BY <2>1, <2>2 DEF OnTime
<1>2. Algorithm => ([]TmaInv => []OnTime)
  <2> SUFFICES ASSUME Algorithm
               PROVE  []TmaInv => []OnTime
    OBVIOUS
  <2>1. TmaInv => OnTime
    BY <1>1
  <2> QED
    BY <2>1, PTL
<1> QED
  BY <1>2, PartitionsGood

(* A hold with a timeout ends neither before nor after it is over. *)
THEOREM HoldsLast == Algorithm => (TmaSpec => []HoldLasts)
<1>1. ASSUME Algorithm, TmaInv PROVE HoldLasts
  <2> SUFFICES ASSUME phase = "loop", NEW p \in Parts, Expires(p)
               PROVE  /\ prt[p].waiting > 0
                      /\ prt[p].last + prt[p].waiting
                           = since[p] + Next_cmd(prt[p]).timeout
    BY DEF HoldLasts
  <2>1. /\ TmaTypeOK /\ prt[p] \in Partition /\ since[p] \in Nat /\ since[p] # 0
        /\ AtHold(prt[p]) /\ Next_cmd(prt[p]).timeout > 0
    BY <1>1, Typed DEF TmaInv, Expires, PartOK
  <2>2. begun
    BY <1>1, <2>1 DEF TmaInv, Fresh
  <2>3. /\ Held(prt[p], since[p], now) /\ prt[p].last = now /\ Lastcheck(prt[p]) = now
    BY <1>1, <2>1, <2>2 DEF TmaInv, Going_on, Good
  <2>4. Next_cmd(prt[p]).timeout # -1
    BY <2>1, HoldTimeout, <1>1
  <2> QED
    BY <2>3, <2>4 DEF Held
<1>2. Algorithm => ([]TmaInv => []HoldLasts)
  <2> SUFFICES ASSUME Algorithm
               PROVE  []TmaInv => []HoldLasts
    OBVIOUS
  <2>1. TmaInv => HoldLasts
    BY <1>1
  <2> QED
    BY <2>1, PTL
<1> QED
  BY <1>2, PartitionsGood
=============================================================================
