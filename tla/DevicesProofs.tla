---------------------------- MODULE DevicesProofs ----------------------------
(***************************************************************************)
(* Proofs about the programs that speak to devices: the servers of the     *)
(* subbus, on a serial board and on CAN (whose request waits in the list,  *)
(* whose answer a client is given), and the Modbus master (whose data it   *)
(* stores).                                                                *)
(***************************************************************************)
EXTENDS Modbus, SerUsb, CanBus, ListsProofs, FiniteSetTheorems, SequenceTheorems
-----------------------------------------------------------------------------
(* The server on a serial board. *)

AllCodes == Codes \cup {Nop, Version, Tick}

BoardRequests == [id : Nat, clt : Clients \cup {Internal}, code : AllCodes]

Lines == [id : Nat, code : AllCodes \cup {Bad}]

Programs ==
  [clt : [Clients -> {"idle", "waits", "gone"}], reqs : Seq(BoardRequests),
   pending : BOOLEAN, armed : BOOLEAN, line : Seq(Lines), out : Seq(Lines),
   log : [Clients -> Seq([id : Nat, from : Nat])], asked : Nat,
   server : {"running", "killed", "aborted", "ended"}]

(* One request of each client that waits, and the first one pending, if one is. *)
QueueList(s) ==
  /\ \A i, j \in 1 .. Len(s.reqs) :
       s.reqs[i].clt = s.reqs[j].clt /\ s.reqs[i].clt # Internal => i = j
  /\ \A c \in Clients :
       (\E i \in 1 .. Len(s.reqs) : s.reqs[i].clt = c) <=> s.clt[c] = "waits"

SerQueue(s) ==
  QueueList(s) /\ (s.pending => s.reqs # <<>> /\ Head(s.reqs).code # Tick)

(* What may be taken for an answer. *)
Live(x) == x.code \notin {Tick, Bad}

NoneLive(x) == \A i \in 1 .. Len(x) : ~Live(x[i])

(* Of what is at the board, on its way there or back, one line at the most may be
   taken for an answer, and it is that of the first request. *)
LiveIsFirst(s, x) ==
  /\ \A i \in 1 .. Len(x) : Live(x[i]) => s.pending /\ x[i] = Sent(Head(s.reqs))
  /\ \A i, j \in 1 .. Len(x) : Live(x[i]) /\ Live(x[j]) => i = j

Flow(s, b) ==
  /\ LiveIsFirst(s, b) /\ LiveIsFirst(s, s.line) /\ LiveIsFirst(s, s.out)
  /\ NoneLive(b) \/ NoneLive(s.line)
  /\ NoneLive(s.out) \/ (NoneLive(s.line) /\ NoneLive(b))

LogOwn(s) ==
  \A c \in Clients : \A k \in 1 .. Len(s.log[c]) :
    s.log[c][k].from \in {0, s.log[c][k].id}

Right(s, b, own) ==
  /\ s \in Programs
  /\ s.server = "running" => SerQueue(s) /\ (own => Flow(s, b))
  /\ own => LogOwn(s)

SerInv ==
  /\ Right(p, back, late = {}) /\ back \in Seq(Lines)
  /\ peer \in [Clients -> {"open", "closed"}]
  /\ ~MayProcess(p) /\ (SerRunning /\ p.armed => p.pending) /\ Len(p.out) <= 1

LEMMA SerTypes ==
  ASSUME NEW s \in Programs
  PROVE  /\ s.clt \in [Clients -> {"idle", "waits", "gone"}] /\ s.reqs \in Seq(BoardRequests)
         /\ s.pending \in BOOLEAN /\ s.armed \in BOOLEAN /\ s.line \in Seq(Lines)
         /\ s.out \in Seq(Lines) /\ s.log \in [Clients -> Seq([id : Nat, from : Nat])]
         /\ s.asked \in Nat /\ s.server \in {"running", "killed", "aborted", "ended"}
BY DEF Programs

(* A line more behind some that are no answers. *)
LEMMA OneMore ==
  ASSUME NEW x \in Seq(Lines), NEW a \in Lines, NoneLive(x)
  PROVE  /\ Append(x, a) \in Seq(Lines)
         /\ \A i \in 1 .. Len(Append(x, a)) :
              Live(Append(x, a)[i]) => i = Len(x) + 1 /\ Append(x, a)[i] = a
<1> DEFINE y == Append(x, a)
<1>1. /\ y \in Seq(Lines) /\ Len(y) = Len(x) + 1 /\ y[Len(x) + 1] = a /\ Len(x) \in Nat
      /\ \A i \in 1 .. Len(x) : y[i] = x[i]
  OBVIOUS
<1> HIDE DEF y
<1>2. \A i \in 1 .. Len(y) : Live(y[i]) => i = Len(x) + 1 /\ y[i] = a
  BY <1>1 DEF NoneLive
<1> QED
  BY <1>1, <1>2 DEF y

LEMMA OneLive ==
  ASSUME NEW x \in Seq(Lines), NEW a \in Lines, NoneLive(x), NEW s, s.pending,
         a = Sent(Head(s.reqs))
  PROVE  LiveIsFirst(s, Append(x, a))
<1> DEFINE y == Append(x, a)
<1>1. \A i \in 1 .. Len(y) : Live(y[i]) => i = Len(x) + 1 /\ y[i] = a
  BY OneMore
<1> HIDE DEF y
<1> QED
  BY <1>1 DEF LiveIsFirst, y

LEMMA NoneMore ==
  ASSUME NEW x \in Seq(Lines), NEW a \in Lines, NoneLive(x), ~Live(a)
  PROVE  NoneLive(Append(x, a))
<1> DEFINE y == Append(x, a)
<1>1. \A i \in 1 .. Len(y) : Live(y[i]) => i = Len(x) + 1 /\ y[i] = a
  BY OneMore
<1> HIDE DEF y
<1> QED
  BY <1>1 DEF NoneLive, y

LEMMA NoneIsFirst ==
  ASSUME NEW s, NEW x, NoneLive(x)
  PROVE  LiveIsFirst(s, x)
BY DEF NoneLive, LiveIsFirst

(* When nothing is pending nothing can be taken for an answer. *)
LEMMA NothingLive ==
  ASSUME NEW s, NEW b, Flow(s, b), ~s.pending
  PROVE  NoneLive(b) /\ NoneLive(s.line) /\ NoneLive(s.out)
BY DEF Flow, LiveIsFirst, NoneLive

LEMMA AllNone ==
  ASSUME NEW s, NEW b, NoneLive(b), NoneLive(s.line), NoneLive(s.out)
  PROVE  Flow(s, b)
BY NoneIsFirst DEF Flow

(* The first request is done. *)
LEMMA SerCompleteKeeps ==
  ASSUME SerUsbAssumption, peer \in [Clients -> {"open", "closed"}],
         NEW s \in Programs, s.server = "running", QueueList(s), s.reqs # <<>>,
         NEW from \in Nat, NEW y, y = SerComplete(s, from)
  PROVE  /\ y \in Programs /\ ~y.pending /\ y.line = s.line /\ y.out = s.out
         /\ y.reqs = Tail(s.reqs) /\ y.armed = s.armed
         /\ y.server = "running" => SerQueue(y)
         /\ LogOwn(s) /\ from \in {0, Head(s.reqs).id} => LogOwn(y)
<1> DEFINE req == Head(s.reqs)
           c == req.clt
           s1 == [s EXCEPT !.reqs = Tail(@), !.pending = FALSE]
           r == s.reqs
<1>1. /\ s.clt \in [Clients -> {"idle", "waits", "gone"}] /\ s.reqs \in Seq(BoardRequests)
      /\ s.log \in [Clients -> Seq([id : Nat, from : Nat])]
  BY SerTypes
<1>2. /\ req \in BoardRequests /\ Tail(r) \in Seq(BoardRequests) /\ Len(r) \in Nat \ {0}
      /\ req = r[1] /\ Len(Tail(r)) = Len(r) - 1
      /\ \A i \in 1 .. Len(r) - 1 : Tail(r)[i] = r[i + 1]
  BY <1>1
<1>3. req.id \in Nat /\ c \in Clients \cup {Internal} /\ Internal \notin Clients
  BY <1>2 DEF BoardRequests, SerUsbAssumption
<1>4. /\ s1 \in Programs /\ s1.reqs = Tail(r) /\ ~s1.pending
      /\ s1.line = s.line /\ s1.out = s.out /\ s1.armed = s.armed /\ s1.server = "running"
      /\ s1.log = s.log /\ s1.clt = s.clt
  BY <1>2 DEF Programs
<1>5. y = IF c = Internal THEN s1
          ELSE IF peer[c] = "closed" THEN [s1 EXCEPT !.server = "killed"]
          ELSE [s1 EXCEPT !.clt[c] = "idle", !.log[c] = Append(@, [id |-> req.id, from |-> from])]
  BY DEF SerComplete
<1> HIDE DEF s1, req
<1>6. \A i, j \in 1 .. Len(Tail(r)) :
        Tail(r)[i].clt = Tail(r)[j].clt /\ Tail(r)[i].clt # Internal => i = j
  <2>1. \A i, j \in 1 .. Len(Tail(r)) : i + 1 = j + 1 => i = j
    BY <1>2
  <2>2. \A i \in 1 .. Len(Tail(r)) : i + 1 \in 1 .. Len(r) /\ Tail(r)[i] = r[i + 1]
    BY <1>2
  <2> QED
    BY <2>1, <2>2 DEF QueueList
<1>7. ASSUME NEW k \in Clients
      PROVE  (\E i \in 1 .. Len(Tail(r)) : Tail(r)[i].clt = k) <=> s.clt[k] = "waits" /\ k # c
  <2>1. (\E i \in 1 .. Len(r) : r[i].clt = k) <=> s.clt[k] = "waits"
    BY DEF QueueList
  <2>2. \A i \in 1 .. Len(r) : i # 1 => i - 1 \in 1 .. Len(Tail(r)) /\ Tail(r)[i - 1] = r[i]
    BY <1>2
  <2>3. \A i \in 1 .. Len(r) : i # 1 /\ r[i].clt = k => k # c
    BY <1>2, <1>3 DEF QueueList
  <2>4. \A i \in 1 .. Len(Tail(r)) : i + 1 # 1 /\ i + 1 \in 1 .. Len(r) /\ Tail(r)[i] = r[i + 1]
    BY <1>2
  <2>5. r[1].clt = c /\ 1 \in 1 .. Len(r)
    BY <1>2
  <2> HIDE DEF r, c
  <2>6. ASSUME NEW i \in 1 .. Len(Tail(r)), Tail(r)[i].clt = k
        PROVE  s.clt[k] = "waits" /\ k # c
    BY <2>1, <2>3, <2>4, <2>6
  <2>7. ASSUME s.clt[k] = "waits", k # c
        PROVE  \E i \in 1 .. Len(Tail(r)) : Tail(r)[i].clt = k
    <3>1. PICK i \in 1 .. Len(r) : r[i].clt = k
      BY <2>1, <2>7
    <3>2. i # 1
      BY <2>5, <2>7, <3>1
    <3> QED
      BY <2>2, <3>1, <3>2
  <2> QED
    BY <2>6, <2>7
<1> HIDE DEF c
<1>8. CASE c = Internal
  <2>1. y = s1
    BY <1>5, <1>8
  <2>2. SerQueue(y)
    <3>1. y.clt = s.clt /\ y.reqs = Tail(r) /\ ~y.pending
      BY <1>4, <2>1
    <3>2. \A k \in Clients :
            (\E i \in 1 .. Len(Tail(r)) : Tail(r)[i].clt = k) <=> s.clt[k] = "waits"
      BY <1>3, <1>7, <1>8
    <3> HIDE DEF r
    <3> QED
      BY <1>6, <3>1, <3>2 DEF SerQueue, QueueList
  <2>3. LogOwn(s) => LogOwn(y)
    BY <1>4, <2>1 DEF LogOwn
  <2> QED
    BY <1>4, <2>1, <2>2, <2>3
<1>9. CASE c # Internal /\ peer[c] = "closed"
  <2>1. y = [s1 EXCEPT !.server = "killed"]
    BY <1>5, <1>9
  <2>2. /\ y \in Programs /\ y.reqs = Tail(r) /\ ~y.pending /\ y.line = s.line
        /\ y.out = s.out /\ y.armed = s.armed /\ y.server # "running" /\ y.log = s.log
    BY <1>4, <2>1 DEF Programs
  <2> QED
    BY <2>2 DEF LogOwn
<1>10. CASE c # Internal /\ peer[c] # "closed"
  <2> DEFINE a == [id |-> req.id, from |-> from]
             clt == [s.clt EXCEPT ![c] = "idle"]
             log == [s.log EXCEPT ![c] = Append(@, a)]
  <2>1. a \in [id : Nat, from : Nat] /\ a.id = req.id /\ a.from = from
    BY <1>3
  <2> HIDE DEF a
  <2>2. /\ clt \in [Clients -> {"idle", "waits", "gone"}]
        /\ \A k \in Clients : clt[k] = IF k = c THEN "idle" ELSE s.clt[k]
    BY <1>1
  <2>3. log \in [Clients -> Seq([id : Nat, from : Nat])]
    <3>1. \A k \in Clients : Append(s.log[k], a) \in Seq([id : Nat, from : Nat])
      BY <1>1, <2>1, AppendProperties
    <3> QED
      BY <1>1, <3>1
  <2>4. \A k \in Clients : log[k] = IF k = c THEN Append(s.log[k], a) ELSE s.log[k]
    BY <1>1
  <2>5. y = [s1 EXCEPT !.clt = clt, !.log = log]
    <3>1. y = [s1 EXCEPT !.clt[c] = "idle", !.log[c] = Append(@, a)]
      BY <1>5, <1>10 DEF a
    <3> QED
      BY <1>4, <3>1 DEF Programs
  <2> HIDE DEF clt, log
  <2>6. /\ y \in Programs /\ y.reqs = Tail(r) /\ ~y.pending /\ y.line = s.line
        /\ y.out = s.out /\ y.armed = s.armed /\ y.clt = clt /\ y.log = log
    BY <1>4, <2>2, <2>3, <2>5 DEF Programs
  <2>7. SerQueue(y)
    <3>1. \A k \in Clients :
            (\E i \in 1 .. Len(Tail(r)) : Tail(r)[i].clt = k) <=> y.clt[k] = "waits"
      <4>1. \A k \in Clients : y.clt[k] = IF k = c THEN "idle" ELSE s.clt[k]
        BY <2>2, <2>6
      <4> HIDE DEF r
      <4> QED
        BY <1>7, <4>1
    <3> QED
      BY <1>6, <2>6, <3>1 DEF SerQueue, QueueList
  <2>8. ASSUME LogOwn(s), from \in {0, req.id}
        PROVE  LogOwn(y)
    <3>1. ASSUME NEW k \in Clients, NEW j \in 1 .. Len(log[k])
          PROVE  log[k][j].from \in {0, log[k][j].id}
      <4>1. s.log[k] \in Seq([id : Nat, from : Nat])
        BY <1>1
      <4>2. \/ j \in 1 .. Len(s.log[k]) /\ log[k][j] = s.log[k][j]
            \/ log[k][j] = a
        <5>1. CASE log[k] = s.log[k]
          BY <3>1, <5>1
        <5>2. CASE log[k] = Append(s.log[k], a)
          BY <2>1, <3>1, <4>1, <5>2, AppendProperties
        <5> QED
          BY <2>4, <5>1, <5>2
      <4> QED
        BY <2>1, <2>8, <4>2 DEF LogOwn
    <3> QED
      BY <2>6, <3>1 DEF LogOwn
  <2> QED
    BY <2>6, <2>7, <2>8 DEF req
<1> QED
  BY <1>8, <1>9, <1>10

(* The first request goes out; a tick is done with that. *)
LEMMA SendFirstKeeps ==
  ASSUME SerUsbAssumption, peer \in [Clients -> {"open", "closed"}], NEW own \in BOOLEAN,
         NEW b \in Seq(Lines), NEW s, Right(s, b, own), NEW y, y = SendFirst(s)
  PROVE  /\ Right(y, b, own)
         /\ ~MayProcess(s) => y = s
         /\ y.armed = s.armed
         /\ MayProcess(y) => MayProcess(s) /\ Len(y.reqs) = Len(s.reqs) - 1
         /\ Len(s.out) <= 1 => Len(y.out) <= 1
<1> DEFINE req == Head(s.reqs)
           a == Sent(req)
           w == Write(s, req)
           s1 == [w EXCEPT !.pending = TRUE]
<1>1. CASE ~MayProcess(s)
  BY <1>1 DEF SendFirst
<1>2. CASE MayProcess(s)
  <2>1. /\ s \in Programs /\ s.server = "running" /\ ~s.pending /\ s.reqs # <<>>
        /\ SerQueue(s) /\ (own => Flow(s, b) /\ LogOwn(s))
    BY <1>2 DEF MayProcess, Right
  <2>2. /\ s.reqs \in Seq(BoardRequests) /\ s.line \in Seq(Lines) /\ s.out \in Seq(Lines)
        /\ req \in BoardRequests
    BY <2>1, SerTypes
  <2>3. a \in Lines /\ req.id \in Nat /\ a.code = req.code /\ req.code # Bad
    BY <2>2 DEF Sent, Lines, BoardRequests, AllCodes, SerUsbAssumption, Nop, Version, Tick, Bad
  <2> DEFINE full == Append(s.line, a)
  <2>4. full \in Seq(Lines) /\ <<a>> \in Seq(Lines) /\ Len(<<a>>) = 1
    <3> HIDE DEF a
    <3> QED
      BY <2>2, <2>3
  <2>5. /\ s1 = IF s.out # <<>> THEN [s EXCEPT !.server = "aborted", !.pending = TRUE]
                ELSE IF Len(s.line) < PortCap THEN [s EXCEPT !.line = full, !.pending = TRUE]
                ELSE [s EXCEPT !.out = <<a>>, !.pending = TRUE]
    BY <2>1 DEF Write, Programs
  <2>6. y = IF req.code # Tick \/ s1.server # "running" THEN s1 ELSE SerComplete(s1, req.id)
    BY <1>2 DEF SendFirst
  <2> HIDE DEF a, full, s1, req
  <2>7. /\ s1 \in Programs /\ s1.pending /\ s1.reqs = s.reqs /\ s1.clt = s.clt
        /\ s1.log = s.log /\ s1.armed = s.armed
        /\ \/ s1.server = "aborted" /\ s1.out = s.out
           \/ s1.server = "running" /\ s1.line = full /\ s1.out = s.out /\ s.out = <<>>
           \/ s1.server = "running" /\ s1.line = s.line /\ s1.out = <<a>> /\ s.out = <<>>
    BY <2>1, <2>4, <2>5 DEF Programs
  <2>8. own => NoneLive(b) /\ NoneLive(s.line) /\ NoneLive(s.out)
    BY <2>1, NothingLive
  <2>9. NoneLive(<<>>)
    BY DEF NoneLive
  <2>10. own => LogOwn(s1)
    BY <2>1, <2>7 DEF LogOwn
  <2>14. Len(s.out) <= 1 => Len(s1.out) <= 1
    <3>1. CASE s1.out = s.out
      BY <3>1
    <3>2. CASE s1.out = <<a>>
      <4>1. Len(s1.out) = 1
        BY <2>4, <3>2
      <4> QED
        BY <4>1
    <3> QED
      BY <2>7, <3>1, <3>2
  <2>11. CASE s1.server = "aborted"
    <3>1. y = s1
      BY <2>6, <2>11
    <3> QED
      BY <1>2, <2>7, <2>10, <2>11, <2>14, <3>1 DEF Right, MayProcess
  <2>12. CASE s1.server = "running" /\ req.code # Tick
    <3>1. y = s1
      BY <2>6, <2>12
    <3>2. SerQueue(s1)
      BY <2>1, <2>7, <2>12 DEF SerQueue, QueueList, req
    <3>3. ASSUME own
          PROVE  Flow(s1, b)
      <4>1. NoneLive(b) /\ NoneLive(s.line) /\ LiveIsFirst(s1, b) /\ LiveIsFirst(s1, s.line)
            /\ LiveIsFirst(s1, <<>>)
        BY <2>8, <2>9, <3>3, NoneIsFirst
      <4>2. a = Sent(Head(s1.reqs))
        BY <2>7 DEF a, req
      <4>3. CASE s1.line = full /\ s1.out = <<>>
        <5>1. LiveIsFirst(s1, full)
          BY <2>2, <2>3, <2>7, <4>1, <4>2, OneLive DEF full
        <5> QED
          BY <2>9, <4>1, <4>3, <5>1 DEF Flow
      <4>4. CASE s1.line = s.line /\ s1.out = <<a>>
        <5>1. LiveIsFirst(s1, <<a>>)
          BY <2>7, <4>2 DEF LiveIsFirst
        <5> QED
          BY <4>1, <4>4, <5>1 DEF Flow
      <4> QED
        BY <2>7, <2>12, <4>3, <4>4
    <3>4. Len(s.out) <= 1 => Len(y.out) <= 1
      BY <2>14, <3>1
    <3>5. ~MayProcess(y)
      BY <2>7, <3>1 DEF MayProcess
    <3> QED
      BY <1>2, <2>7, <2>10, <3>1, <3>2, <3>3, <3>4, <3>5 DEF Right
  <2>13. CASE s1.server = "running" /\ req.code = Tick
    <3>1. y = SerComplete(s1, req.id)
      BY <2>6, <2>13
    <3>2. QueueList(s1)
      BY <2>1, <2>7 DEF SerQueue, QueueList
    <3>6. /\ y \in Programs /\ ~y.pending /\ y.line = s1.line /\ y.out = s1.out
          /\ y.reqs = Tail(s.reqs) /\ y.armed = s1.armed
          /\ y.server = "running" => SerQueue(y)
          /\ LogOwn(s1) => LogOwn(y)
      BY <2>1, <2>3, <2>7, <2>13, <3>1, <3>2, SerCompleteKeeps DEF req
    <3>7. ASSUME own
          PROVE  Flow(y, b)
      <4>1. ~Live(a) /\ NoneLive(<<a>>) /\ NoneLive(s.line) /\ NoneLive(b)
        BY <2>3, <2>8, <2>13, <3>7 DEF Live, NoneLive
      <4>2. NoneLive(full)
        BY <2>2, <2>3, <4>1, NoneMore DEF full
      <4>3. NoneLive(y.line) /\ NoneLive(y.out)
        BY <2>7, <2>9, <2>13, <3>6, <4>1, <4>2
      <4> QED
        BY <4>1, <4>3, AllNone
    <3>8. Len(y.reqs) = Len(s.reqs) - 1
      BY <2>1, <2>2, <3>6
    <3>9. Len(s.out) <= 1 => Len(y.out) <= 1
      BY <2>14, <3>6
    <3>10. y.armed = s.armed
      BY <2>7, <3>6
    <3> QED
      BY <1>2, <2>10, <3>6, <3>7, <3>8, <3>9, <3>10 DEF Right
  <2> QED
    BY <2>7, <2>11, <2>12, <2>13
<1> QED
  BY <1>1, <1>2

Rights(b, own) == {t \in Programs : Right(t, b, own)}

Sends(sent, s) ==
  /\ sent[0] = s
  /\ \A i \in 1 .. Len(s.reqs) : sent[i] = SendFirst(sent[i - 1])
  /\ Process(s) = sent[Len(s.reqs)]

(* Process, step by step. *)
LEMMA ProcessSteps ==
  ASSUME SerUsbAssumption, peer \in [Clients -> {"open", "closed"}], NEW own \in BOOLEAN,
         NEW b \in Seq(Lines), NEW s, Right(s, b, own)
  PROVE  \E sent \in [0 .. Len(s.reqs) -> Rights(b, own)] : Sends(sent, s)
<1> DEFINE S == Rights(b, own)
           n == Len(s.reqs)
           step == [a \in (1 .. n) \X S |-> SendFirst(a[2])]
           F(f) == [i \in 0 .. n |-> IF i = 0 THEN s ELSE SendFirst(f[i - 1])]
           sent == CHOOSE f : f = F(f)
<1>1. n \in Nat /\ s \in S
  BY SerTypes DEF Right, Rights
<1>2. \A t \in S : SendFirst(t) \in S
  BY SendFirstKeeps DEF Rights, Right
<1> HIDE DEF S
<1>3. step \in [(1 .. n) \X S -> S]
  BY <1>2
<1>4. \E f \in [0 .. n -> S] : Follows(f, s, step, n)
  <2> HIDE DEF n, step
  <2> QED
    BY <1>1, <1>3, Recursion, Zenon
<1>5. PICK f \in [0 .. n -> S] : f[0] = s /\ \A i \in 1 .. n : f[i] = step[<<i, f[i - 1]>>]
  BY <1>4 DEF Follows
<1>6. f = F(f)
  <2>1. ASSUME NEW i \in 1 .. n
        PROVE  step[<<i, f[i - 1]>>] = SendFirst(f[i - 1])
    <3>1. i - 1 \in 0 .. n
      BY <1>1
    <3>2. f[i - 1] \in S
      BY <1>5, <3>1
    <3> HIDE DEF n
    <3>3. <<i, f[i - 1]>> \in (1 .. n) \X S
      BY <3>2
    <3> QED
      BY <3>3
  <2> HIDE DEF step, n
  <2>2. ASSUME NEW i \in 0 .. n
        PROVE  f[i] = F(f)[i]
    <3>1. CASE i = 0
      BY <3>1, <1>5
    <3>2. CASE i \in 1 .. n
      BY <1>1, <3>2, <1>5, <2>1
    <3> QED
      BY <1>1, <3>1, <3>2
  <2>3. f = [i \in 0 .. n |-> f[i]] /\ F(f) = [i \in 0 .. n |-> F(f)[i]]
    BY <1>5
  <2> QED
    BY <2>2, <2>3
<1>7. sent = F(sent)
  BY <1>6
<1>8. Process(s) = sent[n]
  BY DEF Process
<1> HIDE DEF sent
<1>9. sent[0] = s /\ \A i \in 1 .. n : sent[i] = SendFirst(sent[i - 1])
  <2> HIDE DEF n
  <2>1. sent[0] = F(sent)[0] /\ \A i \in 1 .. n : sent[i] = F(sent)[i]
    BY <1>7
  <2>2. F(sent)[0] = s /\ \A i \in 1 .. n : F(sent)[i] = SendFirst(sent[i - 1])
    BY <1>1
  <2> HIDE DEF F
  <2> QED
    BY <2>1, <2>2
<1>10. sent \in [0 .. n -> S]
  <2> DEFINE T == {i \in 0 .. n : sent[i] \in S}
  <2> HIDE DEF n
  <2>1. 0 \in T
    BY <1>1, <1>9
  <2>2. ASSUME NEW i \in 1 .. n, i - 1 \in T
        PROVE  i \in T
    BY <1>2, <1>9, <2>2
  <2>3. 0 .. n \subseteq T
    <3> HIDE DEF T
    <3> QED
      BY <1>1, <2>1, <2>2, Upwards
  <2>4. sent = [i \in 0 .. n |-> sent[i]]
    BY <1>7
  <2> QED
    BY <2>3, <2>4
<1>11. Sends(sent, s)
  BY <1>8, <1>9 DEF Sends
<1> QED
  BY <1>10, <1>11 DEF S

(* Process ends when there is nothing to send or something is pending. *)
LEMMA SerProcessKeeps ==
  ASSUME SerUsbAssumption, peer \in [Clients -> {"open", "closed"}], NEW own \in BOOLEAN,
         NEW b \in Seq(Lines), NEW s, Right(s, b, own), Len(s.out) <= 1
  PROVE  /\ Right(Process(s), b, own) /\ ~MayProcess(Process(s)) /\ Len(Process(s).out) <= 1
         /\ Process(s).armed = s.armed
         /\ ~MayProcess(s) => Process(s) = s
<1> DEFINE n == Len(s.reqs)
<1>1. \E sent \in [0 .. n -> Rights(b, own)] : Sends(sent, s)
  BY ProcessSteps
<1>2. PICK sent \in [0 .. n -> Rights(b, own)] : Sends(sent, s)
  BY <1>1
<1> DEFINE T == {i \in 0 .. n : /\ Len(sent[i].out) <= 1
                                /\ sent[i].armed = s.armed
                                /\ ~MayProcess(s) => sent[i] = s
                                /\ MayProcess(sent[i]) => Len(sent[i].reqs) = n - i}
<1>3. n \in Nat
  BY SerTypes DEF Right
<1>4. 0 \in T
  BY <1>2, <1>3 DEF Sends
<1>5. ASSUME NEW i \in 1 .. n, i - 1 \in T
      PROVE  i \in T
  <2>1. /\ Right(sent[i - 1], b, own) /\ sent[i] = SendFirst(sent[i - 1])
        /\ Len(sent[i - 1].out) <= 1 /\ sent[i - 1].armed = s.armed
        /\ ~MayProcess(s) => sent[i - 1] = s
        /\ MayProcess(sent[i - 1]) => Len(sent[i - 1].reqs) = n - (i - 1)
    BY <1>2, <1>5 DEF Sends, Rights
  <2>2. /\ MayProcess(sent[i]) => /\ MayProcess(sent[i - 1])
                                  /\ Len(sent[i].reqs) = Len(sent[i - 1].reqs) - 1
        /\ Len(sent[i].out) <= 1 /\ sent[i].armed = s.armed
        /\ ~MayProcess(s) => sent[i] = s
    BY <2>1, SendFirstKeeps
  <2>3. ASSUME MayProcess(sent[i])
        PROVE  Len(sent[i].reqs) = n - i
    <3>1. Len(sent[i].reqs) = (n - (i - 1)) - 1
      BY <2>1, <2>2, <2>3
    <3> HIDE DEF n
    <3> QED
      BY <1>3, <3>1
  <2>4. i \in 0 .. n
    BY <1>3
  <2> QED
    BY <2>2, <2>3, <2>4
<1>6. 0 .. n \subseteq T
  <2> HIDE DEF T, n
  <2> QED
    BY <1>3, <1>4, <1>5, Upwards
<1>7. n \in T /\ Process(s) = sent[n] /\ sent[n] \in Rights(b, own)
  <2>1. n \in 0 .. n
    BY <1>3
  <2>2. n \in T
    BY <1>6, <2>1
  <2> HIDE DEF T
  <2> QED
    BY <1>2, <2>1, <2>2 DEF Sends
<1> HIDE DEF n
<1>8. MayProcess(sent[n]) => Len(sent[n].reqs) = 0 /\ sent[n].reqs # <<>>
  BY <1>3, <1>7 DEF MayProcess
<1>9. sent[n].reqs \in Seq(BoardRequests)
  BY <1>7, SerTypes DEF Rights
<1>10. ~MayProcess(sent[n])
  BY <1>8, <1>9
<1> QED
  BY <1>7, <1>10 DEF Rights

LEMMA EndedKeeps ==
  ASSUME NEW own \in BOOLEAN, NEW b, NEW s, Right(s, b, own)
  PROVE  /\ Right(Ended(s), b, own) /\ Ended(s).out = s.out /\ Ended(s).armed = Ended(s).pending
         /\ MayProcess(Ended(s)) = MayProcess(s) /\ Ended(s).server = s.server
<1> DEFINE t == Ended(s)
<1>1. s \in Programs
  BY DEF Right
<1>2. t = [s EXCEPT !.armed = s.pending]
  BY DEF Ended
<1>3. /\ t \in Programs /\ t.armed = t.pending /\ t.pending = s.pending /\ t.out = s.out
      /\ t.clt = s.clt /\ t.reqs = s.reqs /\ t.line = s.line /\ t.log = s.log
      /\ t.server = s.server
  BY <1>1, <1>2 DEF Programs
<1> HIDE DEF t
<1>4. SerQueue(s) => SerQueue(t)
  BY <1>3 DEF SerQueue, QueueList
<1>5. Flow(s, b) => Flow(t, b)
  BY <1>3 DEF Flow, LiveIsFirst
<1>6. LogOwn(s) => LogOwn(t)
  BY <1>3 DEF LogOwn
<1>7. MayProcess(t) = MayProcess(s)
  BY <1>3 DEF MayProcess
<1> QED
  BY <1>3, <1>4, <1>5, <1>6, <1>7 DEF Right, t

(* A client's request goes behind the others. *)
LEMMA SerRequestKeeps ==
  ASSUME SerUsbAssumption, SerInv, NEW c \in Clients, NEW code \in Codes \cup {Tick},
         SerRequest(c, code)
  PROVE  SerInv'
<1> DEFINE id == p.asked + 1
           a == Asks(id, c, code)
           r == Append(p.reqs, a)
           clt == [p.clt EXCEPT ![c] = "waits"]
           s == [p EXCEPT !.clt[c] = "waits", !.asked = id, !.reqs = Append(@, a)]
           own == late = {}
<1>1. /\ p.server = "running" /\ p.clt[c] = "idle" /\ p' = Process(s)
      /\ peer' = peer /\ back' = back /\ late' = late
  BY DEF SerRequest, SerRunning
<1>2. /\ Right(p, back, own) /\ back \in Seq(Lines)
      /\ peer \in [Clients -> {"open", "closed"}] /\ ~MayProcess(p)
      /\ (p.armed => p.pending) /\ Len(p.out) <= 1
  BY <1>1 DEF SerInv, SerRunning
<1>3. p \in Programs /\ SerQueue(p) /\ (own => Flow(p, back) /\ LogOwn(p))
  BY <1>1, <1>2 DEF Right
<1>4. /\ p.clt \in [Clients -> {"idle", "waits", "gone"}] /\ p.reqs \in Seq(BoardRequests)
      /\ p.asked \in Nat
  BY <1>3, SerTypes
<1>5. a \in BoardRequests /\ a.clt = c /\ c # Internal
  BY <1>4 DEF Asks, BoardRequests, AllCodes, SerUsbAssumption
<1>6. s = [p EXCEPT !.clt = clt, !.asked = id, !.reqs = r]
  BY <1>3 DEF Programs
<1>7. id \in Nat /\ clt \in [Clients -> {"idle", "waits", "gone"}]
  BY <1>4
<1>8. \A k \in Clients : clt[k] = IF k = c THEN "waits" ELSE p.clt[k]
  BY <1>4
<1> HIDE DEF a, id, clt, s
<1>9. /\ r \in Seq(BoardRequests) /\ Len(r) = Len(p.reqs) + 1 /\ r[Len(p.reqs) + 1] = a
      /\ Len(p.reqs) \in Nat
      /\ \A i \in 1 .. Len(p.reqs) : r[i] = p.reqs[i] /\ i \in 1 .. Len(r)
      /\ Len(p.reqs) + 1 \in 1 .. Len(r)
  BY <1>4, <1>5
<1>10. p.reqs # <<>> => Head(r) = Head(p.reqs)
  BY <1>4, <1>5
<1> HIDE DEF r
<1>11. /\ s \in Programs /\ s.clt = clt /\ s.reqs = r /\ s.pending = p.pending
       /\ s.line = p.line /\ s.out = p.out /\ s.log = p.log /\ s.server = p.server
       /\ s.armed = p.armed
  BY <1>3, <1>6, <1>7, <1>9 DEF Programs
<1>12. SerQueue(s)
  <2>1. QueueList(p)
    BY <1>3 DEF SerQueue
  <2>2. \A i \in 1 .. Len(p.reqs) : p.reqs[i].clt # c
    BY <1>1, <2>1 DEF QueueList
  <2>3. \A i \in 1 .. Len(r) : i \in 1 .. Len(p.reqs) \/ i = Len(p.reqs) + 1
    BY <1>9
  <2>4. \A i, j \in 1 .. Len(r) : r[i].clt = r[j].clt /\ r[i].clt # Internal => i = j
    <3> SUFFICES ASSUME NEW i \in 1 .. Len(r), NEW j \in 1 .. Len(r),
                        r[i].clt = r[j].clt, r[i].clt # Internal
                 PROVE  i = j
      OBVIOUS
    <3>1. CASE i \in 1 .. Len(p.reqs) /\ j \in 1 .. Len(p.reqs)
      BY <1>9, <2>1, <3>1 DEF QueueList
    <3>2. CASE i \in 1 .. Len(p.reqs) /\ j = Len(p.reqs) + 1
      BY <1>5, <1>9, <2>2, <3>2
    <3>3. CASE i = Len(p.reqs) + 1 /\ j \in 1 .. Len(p.reqs)
      BY <1>5, <1>9, <2>2, <3>3
    <3> QED
      BY <2>3, <3>1, <3>2, <3>3
  <2>5. ASSUME NEW k \in Clients
        PROVE  (\E i \in 1 .. Len(r) : r[i].clt = k) <=> clt[k] = "waits"
    <3>1. (\E i \in 1 .. Len(p.reqs) : p.reqs[i].clt = k) <=> p.clt[k] = "waits"
      BY <2>1 DEF QueueList
    <3>2. CASE k = c
      BY <1>5, <1>8, <1>9, <3>2
    <3>3. CASE k # c
      BY <1>5, <1>8, <1>9, <2>3, <3>1, <3>3
    <3> QED
      BY <3>2, <3>3
  <2>6. p.pending => p.reqs # <<>> /\ Head(p.reqs).code # Tick
    BY <1>3 DEF SerQueue
  <2>7. r # <<>>
    BY <1>9
  <2> QED
    BY <1>10, <1>11, <2>4, <2>5, <2>6, <2>7 DEF SerQueue, QueueList
<1>13. Flow(p, back) => Flow(s, back)
  <2>1. p.pending => Head(r) = Head(p.reqs)
    BY <1>3, <1>10 DEF SerQueue
  <2> QED
    BY <1>11, <2>1 DEF Flow, LiveIsFirst
<1>14. Right(s, back, own) /\ Len(s.out) <= 1
  <2>1. LogOwn(p) => LogOwn(s)
    BY <1>11 DEF LogOwn
  <2> QED
    BY <1>2, <1>3, <1>11, <1>12, <1>13, <2>1 DEF Right
<1>15. /\ Right(p', back, own) /\ ~MayProcess(p') /\ Len(p'.out) <= 1 /\ p'.armed = p.armed
       /\ ~MayProcess(s) => p' = s
  <2>1. own \in BOOLEAN
    OBVIOUS
  <2> HIDE DEF own
  <2> QED
    BY <1>1, <1>2, <1>11, <1>14, <2>1, SerProcessKeeps
<1>16. p'.armed => p'.pending
  <2> SUFFICES ASSUME p.armed
               PROVE  p'.pending
    BY <1>15
  <2>1. s.pending
    BY <1>2, <1>11
  <2> QED
    BY <1>15, <2>1 DEF MayProcess
<1>17. own' <=> own
  BY <1>1
<1> QED
  BY <1>1, <1>2, <1>15, <1>16, <1>17 DEF SerInv, MayProcess, SerRunning, Right, Flow, SerQueue, QueueList, LogOwn, LiveIsFirst, NoneLive

(* What has no line of b before n, and none more that may be taken for an answer. *)
Behind(x, b, n) ==
  \A i \in 1 .. Len(x) : Live(x[i]) => i + n \in 1 .. Len(b) /\ x[i] = b[i + n]

LEMMA BehindFirst ==
  ASSUME NEW s, NEW b \in Seq(Lines), NEW x \in Seq(Lines), NEW n \in Nat, Behind(x, b, n),
         LiveIsFirst(s, b)
  PROVE  LiveIsFirst(s, x)
<1>1. \A i, j \in 1 .. Len(x) : i + n = j + n => i = j
  OBVIOUS
<1> QED
  BY <1>1 DEF Behind, LiveIsFirst

LEMMA BehindNone ==
  ASSUME NEW b, NEW x, NEW n, Behind(x, b, n), NoneLive(b)
  PROVE  NoneLive(x)
BY DEF Behind, NoneLive

LEMMA BehindLive ==
  ASSUME NEW s, NEW b \in Seq(Lines), NEW x \in Seq(Lines), NEW n \in Nat \ {0},
         Behind(x, b, n), LiveIsFirst(s, b), b # <<>>, Live(b[1])
  PROVE  NoneLive(x)
<1>1. 1 \in 1 .. Len(b) /\ \A i \in 1 .. Len(x) : i + n # 1
  OBVIOUS
<1> QED
  BY <1>1 DEF Behind, LiveIsFirst, NoneLive

LEMMA TailBehind ==
  ASSUME NEW b \in Seq(Lines), b # <<>>
  PROVE  Tail(b) \in Seq(Lines) /\ Behind(Tail(b), b, 1)
<1>1. /\ Tail(b) \in Seq(Lines) /\ Len(Tail(b)) = Len(b) - 1
      /\ \A i \in 1 .. Len(b) - 1 : Tail(b)[i] = b[i + 1] /\ i + 1 \in 1 .. Len(b)
  OBVIOUS
<1> QED
  BY <1>1 DEF Behind

(* What a reading of the port leaves. *)
LEMMA ReadBehind ==
  ASSUME NEW b \in Seq(Lines), NEW n \in 1 .. Len(b), NEW cut \in BOOLEAN, NEW x,
         cut => SubSeq(b, n + 1, Len(b)) # <<>>,
         x = IF cut THEN [SubSeq(b, n + 1, Len(b)) EXCEPT ![1].code = Bad]
             ELSE SubSeq(b, n + 1, Len(b))
  PROVE  x \in Seq(Lines) /\ Behind(x, b, n)
<1> DEFINE rest == SubSeq(b, n + 1, Len(b))
<1>1. n \in Nat \ {0} /\ Len(b) \in Nat /\ n <= Len(b)
  OBVIOUS
<1>2. /\ rest \in Seq(Lines) /\ Len(rest) = Len(b) - n
      /\ \A i \in 1 .. Len(b) - n : rest[i] = b[i + n] /\ i + n \in 1 .. Len(b)
  OBVIOUS
<1>3. CASE ~cut
  BY <1>2, <1>3 DEF Behind
<1>4. CASE cut
  <2> HIDE DEF rest
  <2>1. x = [rest EXCEPT ![1].code = Bad] /\ rest # <<>>
    BY <1>4 DEF rest
  <2>2. rest[1] \in Lines
    BY <1>2, <2>1
  <2> DEFINE a == [rest[1] EXCEPT !.code = Bad]
  <2>3. a \in Lines /\ a.code = Bad
    BY <2>2 DEF Lines
  <2>4. x = [rest EXCEPT ![1] = a]
    BY <2>1
  <2> HIDE DEF a
  <2>5. /\ x \in Seq(Lines) /\ Len(x) = Len(rest)
        /\ \A i \in 1 .. Len(rest) : x[i] = IF i = 1 THEN a ELSE rest[i]
    <3>1. 1 \in 1 .. Len(rest)
      BY <1>2, <2>1
    <3> DEFINE z == [rest EXCEPT ![1] = a]
    <3>2. rest \in Seq(Lines) /\ a \in Lines
      BY <1>2, <2>3
    <3>3. /\ z \in Seq(Lines) /\ Len(z) = Len(rest)
          /\ \A i \in 1 .. Len(rest) : z[i] = IF i = 1 THEN a ELSE rest[i]
      BY <3>1, <3>2, ExceptSeq
    <3> QED
      BY <2>4, <3>3
  <2>6. ~Live(a)
    BY <2>3 DEF Live
  <2> QED
    BY <1>2, <2>5, <2>6 DEF Behind
<1> QED
  BY <1>3, <1>4

(* What is read shortens what is on its way back. *)
LEMMA BehindFlow ==
  ASSUME NEW s, NEW b \in Seq(Lines), NEW x \in Seq(Lines), NEW n \in Nat \ {0},
         Behind(x, b, n), Flow(s, b)
  PROVE  Flow(s, x) /\ (b # <<>> /\ Live(b[1]) => NoneLive(x) /\ NoneLive(s.line) /\ NoneLive(s.out))
<1>1. /\ LiveIsFirst(s, b) /\ LiveIsFirst(s, s.line) /\ LiveIsFirst(s, s.out)
      /\ NoneLive(b) \/ NoneLive(s.line)
      /\ NoneLive(s.out) \/ (NoneLive(s.line) /\ NoneLive(b))
  BY DEF Flow
<1>2. LiveIsFirst(s, x) /\ (NoneLive(b) => NoneLive(x))
  BY <1>1, BehindFirst, BehindNone
<1>3. ASSUME b # <<>>, Live(b[1])
      PROVE  NoneLive(x) /\ ~NoneLive(b)
  <2>1. NoneLive(x)
    BY <1>1, <1>3, BehindLive
  <2>2. 1 \in 1 .. Len(b)
    BY <1>3
  <2> QED
    BY <1>3, <2>1, <2>2 DEF NoneLive
<1> QED
  BY <1>1, <1>2, <1>3 DEF Flow

LEMMA PortReadKeeps ==
  ASSUME SerUsbAssumption, SerInv, NEW n \in 1 .. Len(back), NEW cut \in BOOLEAN,
         PortRead(n, cut)
  PROVE  SerInv'
<1> DEFINE own == late = {}
           ans == back[1]
           x == Response(p, ans)
           y == SerComplete(p, ans.id)
<1>1. /\ p.server = "running" /\ p' = Ended(x) /\ peer' = peer /\ late' = late
      /\ cut => SubSeq(back, n + 1, Len(back)) # <<>>
      /\ back' = IF cut THEN [SubSeq(back, n + 1, Len(back)) EXCEPT ![1].code = Bad]
                 ELSE SubSeq(back, n + 1, Len(back))
  BY DEF PortRead, SerRunning
<1>2. /\ Right(p, back, own) /\ back \in Seq(Lines)
      /\ peer \in [Clients -> {"open", "closed"}] /\ ~MayProcess(p) /\ Len(p.out) <= 1
  BY DEF SerInv
<1>3. p \in Programs /\ SerQueue(p) /\ (own => Flow(p, back) /\ LogOwn(p))
  BY <1>1, <1>2 DEF Right
<1>4. n \in Nat \ {0} /\ back # <<>> /\ ans \in Lines /\ ans.id \in Nat
  <2>1. n \in Nat \ {0} /\ back # <<>> /\ 1 \in 1 .. Len(back)
    BY <1>2
  <2>2. ans \in Lines
    BY <1>2, <2>1
  <2> QED
    BY <2>1, <2>2 DEF Lines
<1>5. back' \in Seq(Lines) /\ Behind(back', back, n)
  BY <1>1, <1>2, ReadBehind
<1> DEFINE b == back'
<1>6. own => /\ Flow(p, b)
             /\ Live(ans) => NoneLive(b) /\ NoneLive(p.line) /\ NoneLive(p.out)
  BY <1>2, <1>3, <1>4, <1>5, BehindFlow
<1>7. own \in BOOLEAN /\ b \in Seq(Lines)
  BY <1>5
<1> HIDE DEF own, b, x
<1>8. Right(x, b, own) /\ ~MayProcess(x) /\ Len(x.out) <= 1
  <2>1. CASE p.pending /\ ans.code = Head(p.reqs).code
    <3>1. p.reqs # <<>> /\ Head(p.reqs).code # Tick /\ QueueList(p)
      BY <1>3, <2>1 DEF SerQueue
    <3>2. Head(p.reqs).code \in AllCodes
      <4>1. p.reqs \in Seq(BoardRequests)
        BY <1>3, SerTypes
      <4>2. Head(p.reqs) \in BoardRequests
        BY <3>1, <4>1
      <4> QED
        BY <4>2 DEF BoardRequests
    <3>3. Live(ans)
      BY <2>1, <3>1, <3>2 DEF Live, AllCodes, SerUsbAssumption, Nop, Version, Tick, Bad
    <3>4. own => ans.id = Head(p.reqs).id
      <4>1. own => LiveIsFirst(p, back)
        BY <1>3 DEF Flow
      <4>2. 1 \in 1 .. Len(back)
        BY <1>2, <1>4
      <4> QED
        BY <3>3, <4>1, <4>2 DEF LiveIsFirst, Sent
    <3>5. /\ y \in Programs /\ ~y.pending /\ y.line = p.line /\ y.out = p.out
          /\ y.server = "running" => SerQueue(y)
          /\ LogOwn(p) /\ ans.id \in {0, Head(p.reqs).id} => LogOwn(y)
      BY <1>1, <1>2, <1>3, <1>4, <3>1, SerCompleteKeeps
    <3> HIDE DEF y
    <3>6. own => Flow(y, b)
      BY <1>6, <3>3, <3>5, AllNone
    <3>7. Right(y, b, own) /\ Len(y.out) <= 1
      BY <1>2, <1>3, <3>4, <3>5, <3>6 DEF Right
    <3>8. x = Process(y)
      BY <2>1 DEF x, Response, y
    <3> QED
      BY <1>2, <1>7, <3>7, <3>8, SerProcessKeeps
  <2>2. CASE ~(p.pending /\ ans.code = Head(p.reqs).code)
    <3>1. x = p
      BY <2>2 DEF x, Response
    <3> QED
      BY <1>2, <1>3, <1>6, <3>1 DEF Right
  <2> QED
    BY <2>1, <2>2
<1>9. /\ Right(p', b, own) /\ ~MayProcess(p') /\ Len(p'.out) <= 1 /\ p'.armed = p'.pending
  BY <1>1, <1>7, <1>8, EndedKeeps
<1>10. (late' = {}) = own
  BY <1>1 DEF own
<1> QED
  BY <1>1, <1>2, <1>5, <1>9, <1>10 DEF b, SerInv, MayProcess, SerRunning, Right, Flow, SerQueue, QueueList, LogOwn, LiveIsFirst, NoneLive

LEMMA SerTimeoutKeeps ==
  ASSUME SerUsbAssumption, SerInv, SerTimeout
  PROVE  SerInv'
<1> DEFINE y == SerComplete(p, 0)
           x == Process(y)
<1>1. /\ p.server = "running" /\ p.armed /\ p' = Ended(x) /\ peer' = peer /\ back' = back
      /\ late' # {}
  BY DEF SerTimeout, SerRunning
<1>2. /\ Right(p, back, late = {}) /\ back \in Seq(Lines)
      /\ peer \in [Clients -> {"open", "closed"}] /\ p.pending /\ Len(p.out) <= 1
  BY <1>1 DEF SerInv, SerRunning
<1>3. p \in Programs /\ SerQueue(p)
  BY <1>1, <1>2 DEF Right
<1>4. p.reqs # <<>> /\ QueueList(p)
  BY <1>2, <1>3 DEF SerQueue
<1>5. /\ y \in Programs /\ y.out = p.out /\ (y.server = "running" => SerQueue(y))
  BY <1>1, <1>2, <1>3, <1>4, SerCompleteKeeps
<1> HIDE DEF y
<1>6. Right(y, back, FALSE)
  BY <1>5 DEF Right
<1>7. Right(x, back, FALSE) /\ ~MayProcess(x) /\ Len(x.out) <= 1
  BY <1>2, <1>5, <1>6, SerProcessKeeps
<1> HIDE DEF x
<1>8. Right(p', back, FALSE) /\ ~MayProcess(p') /\ Len(p'.out) <= 1 /\ p'.armed = p'.pending
  BY <1>1, <1>7, EndedKeeps
<1> QED
  BY <1>1, <1>2, <1>8 DEF SerInv, MayProcess, SerRunning, Right, Flow, SerQueue, QueueList, LogOwn, LiveIsFirst, NoneLive

(* The rest of a request goes into the port. *)
LEMMA DrainKeeps ==
  ASSUME SerUsbAssumption, SerInv, SerDrain
  PROVE  SerInv'
<1> DEFINE own == late = {}
           a == p.out[1]
           full == Append(p.line, a)
           y == [p EXCEPT !.line = Append(@, p.out[1]), !.out = <<>>]
<1>1. /\ p.server = "running" /\ p.out # <<>> /\ p' = Ended(y) /\ peer' = peer
      /\ back' = back /\ late' = late
  BY DEF SerDrain, SerRunning
<1>2. /\ Right(p, back, own) /\ back \in Seq(Lines) /\ own \in BOOLEAN
      /\ peer \in [Clients -> {"open", "closed"}] /\ ~MayProcess(p)
  BY DEF SerInv
<1>3. p \in Programs /\ SerQueue(p) /\ (own => Flow(p, back) /\ LogOwn(p))
  BY <1>1, <1>2 DEF Right
<1>4. p.out \in Seq(Lines) /\ p.line \in Seq(Lines)
  BY <1>3, SerTypes
<1>5. a \in Lines /\ 1 \in 1 .. Len(p.out)
  BY <1>1, <1>4
<1>6. y = [p EXCEPT !.line = full, !.out = <<>>]
  BY <1>3 DEF Programs
<1> HIDE DEF a, y, own
<1>7. full \in Seq(Lines) /\ <<>> \in Seq(Lines)
  BY <1>4, <1>5
<1> HIDE DEF full
<1>8. /\ y \in Programs /\ y.line = full /\ y.out = <<>> /\ y.pending = p.pending
      /\ y.reqs = p.reqs /\ y.clt = p.clt /\ y.log = p.log /\ y.server = p.server
  BY <1>3, <1>6, <1>7 DEF Programs
<1>9. SerQueue(y)
  BY <1>3, <1>8 DEF SerQueue, QueueList
<1>10. ASSUME own
       PROVE  Flow(y, back)
  <2>1. /\ LiveIsFirst(p, back) /\ LiveIsFirst(p, p.line) /\ LiveIsFirst(p, p.out)
        /\ NoneLive(back) \/ NoneLive(p.line)
        /\ NoneLive(p.out) \/ (NoneLive(p.line) /\ NoneLive(back))
    BY <1>3, <1>10 DEF Flow
  <2>2. LiveIsFirst(y, back) /\ LiveIsFirst(y, <<>>) /\ NoneLive(<<>>)
    BY <1>8, <2>1 DEF LiveIsFirst, NoneLive
  <2>3. CASE Live(a)
    <3>1. NoneLive(p.line) /\ NoneLive(back) /\ p.pending /\ a = Sent(Head(p.reqs))
      BY <1>5, <2>1, <2>3 DEF LiveIsFirst, NoneLive, a
    <3>2. LiveIsFirst(y, full)
      BY <1>4, <1>5, <1>8, <3>1, OneLive DEF full
    <3> QED
      BY <1>8, <2>2, <3>1, <3>2 DEF Flow
  <2>4. CASE ~Live(a)
    <3>1. /\ Len(full) = Len(p.line) + 1 /\ full[Len(p.line) + 1] = a
          /\ \A i \in 1 .. Len(p.line) : full[i] = p.line[i]
          /\ Len(p.line) \in Nat
      BY <1>4, <1>5 DEF full
    <3>2. \A i \in 1 .. Len(full) : Live(full[i]) => i \in 1 .. Len(p.line) /\ full[i] = p.line[i]
      BY <2>4, <3>1
    <3>3. LiveIsFirst(y, full) /\ (NoneLive(p.line) => NoneLive(full))
      BY <1>8, <2>1, <3>2 DEF LiveIsFirst, NoneLive
    <3> QED
      BY <1>8, <2>1, <2>2, <3>3 DEF Flow
  <2> QED
    BY <2>3, <2>4
<1>11. own => LogOwn(y)
  BY <1>3, <1>8 DEF LogOwn
<1>12. Right(y, back, own) /\ ~MayProcess(y) /\ Len(y.out) <= 1
  BY <1>2, <1>8, <1>9, <1>10, <1>11 DEF Right, MayProcess
<1>13. Right(p', back, own) /\ ~MayProcess(p') /\ Len(p'.out) <= 1 /\ p'.armed = p'.pending
  BY <1>1, <1>2, <1>12, EndedKeeps
<1>14. (late' = {}) = own
  BY <1>1 DEF own
<1> QED
  BY <1>1, <1>2, <1>13, <1>14 DEF SerInv, MayProcess, SerRunning, Right, Flow, SerQueue, QueueList, LogOwn, LiveIsFirst, NoneLive

(* The board takes a line, and may answer it. *)
LEMMA SerBoardKeeps ==
  ASSUME SerUsbAssumption, SerInv, SerBoard
  PROVE  SerInv'
<1> DEFINE own == late = {}
           req == Head(p.line)
           bad == [req EXCEPT !.code = Bad]
           rest == Tail(p.line)
<1>1. PICK answer \in Answers(req) : back' = back \o answer
  BY DEF SerBoard
<1>2. /\ p.server = "running" /\ p.line # <<>> /\ p' = [p EXCEPT !.line = Tail(@)]
      /\ peer' = peer /\ late' = late
  BY DEF SerBoard, SerRunning
<1>3. /\ Right(p, back, own) /\ back \in Seq(Lines) /\ own \in BOOLEAN
      /\ peer \in [Clients -> {"open", "closed"}] /\ ~MayProcess(p)
      /\ (p.armed => p.pending) /\ Len(p.out) <= 1
  BY <1>2 DEF SerInv, SerRunning
<1>4. p \in Programs /\ SerQueue(p) /\ (own => Flow(p, back) /\ LogOwn(p))
  BY <1>2, <1>3 DEF Right
<1>5. p.out \in Seq(Lines) /\ p.line \in Seq(Lines)
  BY <1>4, SerTypes
<1>6. /\ req \in Lines /\ req = p.line[1] /\ 1 \in 1 .. Len(p.line)
      /\ rest \in Seq(Lines) /\ Behind(rest, p.line, 1)
  BY <1>2, <1>5, TailBehind
<1>7. bad \in Lines /\ ~Live(bad)
  BY <1>6 DEF Lines, Live
<1>8. answer \in {<<>>, <<req>>, <<bad>>}
  BY <1>1 DEF Answers
<1>9. req.code = Tick => answer = <<>>
  BY <1>1 DEF Answers
<1> HIDE DEF bad, rest
<1>10. \/ back' = back
       \/ back' = Append(back, bad)
       \/ back' = Append(back, req)
  <2> HIDE DEF req
  <2>1. CASE answer = <<>>
    BY <1>1, <1>3, <2>1
  <2>2. CASE answer = <<req>>
    BY <1>1, <1>3, <1>6, <2>2
  <2>3. CASE answer = <<bad>>
    BY <1>1, <1>3, <1>7, <2>3
  <2> QED
    BY <1>8, <2>1, <2>2, <2>3
<1>11. back' \in Seq(Lines)
  <2>1. CASE back' = back
    BY <1>3, <2>1
  <2>2. CASE back' = Append(back, bad)
    BY <1>3, <1>7, <2>2, AppendProperties
  <2>3. CASE back' = Append(back, req)
    BY <1>3, <1>6, <2>3, AppendProperties
  <2> QED
    BY <1>10, <2>1, <2>2, <2>3
<1>12. /\ p' \in Programs /\ p'.line = rest /\ p'.out = p.out /\ p'.pending = p.pending
       /\ p'.reqs = p.reqs /\ p'.clt = p.clt /\ p'.log = p.log /\ p'.server = p.server
       /\ p'.armed = p.armed
  BY <1>2, <1>4, <1>6 DEF Programs, rest
<1> DEFINE t == p'
           b == back'
<1> HIDE DEF t, b, own, req
<1>13. SerQueue(t)
  BY <1>4, <1>12 DEF SerQueue, QueueList, t
<1>14. ASSUME own
       PROVE  Flow(t, b)
  <2>1. /\ LiveIsFirst(p, back) /\ LiveIsFirst(p, p.line) /\ LiveIsFirst(p, p.out)
        /\ NoneLive(back) \/ NoneLive(p.line)
        /\ NoneLive(p.out) \/ (NoneLive(p.line) /\ NoneLive(back))
    BY <1>4, <1>14 DEF Flow
  <2>2. /\ LiveIsFirst(p, rest) /\ (NoneLive(p.line) => NoneLive(rest))
        /\ Live(req) => NoneLive(rest)
    BY <1>2, <1>5, <1>6, <2>1, BehindFirst, BehindNone, BehindLive
  <2>3. LiveIsFirst(t, rest) /\ LiveIsFirst(t, p.out) /\ LiveIsFirst(t, back)
    BY <1>12, <2>1, <2>2 DEF LiveIsFirst, t
  <2>4. CASE b = Append(back, req) /\ Live(req)
    <3>1. ~NoneLive(p.line) /\ p.pending /\ req = Sent(Head(p.reqs))
      BY <1>6, <2>1, <2>4 DEF NoneLive, LiveIsFirst
    <3>2. NoneLive(back) /\ NoneLive(p.out) /\ NoneLive(rest)
      BY <2>1, <2>2, <2>4, <3>1
    <3>3. t.pending /\ req = Sent(Head(t.reqs))
      BY <1>12, <3>1 DEF t
    <3>4. LiveIsFirst(t, b)
      BY <1>3, <1>6, <2>4, <3>2, <3>3, OneLive
    <3> QED
      BY <1>12, <2>3, <3>2, <3>4 DEF Flow, t
  <2>5. ASSUME NEW x \in Lines, b = Append(back, x), ~Live(x)
        PROVE  LiveIsFirst(t, b) /\ (NoneLive(back) => NoneLive(b))
    <3>1. /\ Len(b) = Len(back) + 1 /\ b[Len(back) + 1] = x /\ Len(back) \in Nat
          /\ \A i \in 1 .. Len(back) : b[i] = back[i]
      BY <1>3, <2>5
    <3>2. \A i \in 1 .. Len(b) : Live(b[i]) => i \in 1 .. Len(back) /\ b[i] = back[i]
      BY <2>5, <3>1
    <3> QED
      BY <2>3, <3>2 DEF LiveIsFirst, NoneLive
  <2>6. CASE ~(b = Append(back, req) /\ Live(req))
    <3>1. LiveIsFirst(t, b) /\ (NoneLive(back) => NoneLive(b))
      <4>1. CASE b = back
        BY <2>3, <4>1
      <4>2. CASE b = Append(back, bad)
        BY <1>7, <2>5, <4>2
      <4>3. CASE b = Append(back, req)
        BY <1>6, <2>5, <2>6, <4>3
      <4> QED
        BY <1>10, <4>1, <4>2, <4>3 DEF b
    <3> QED
      BY <1>12, <2>1, <2>2, <2>3, <3>1 DEF Flow, t
  <2> QED
    BY <2>4, <2>6
<1>15. own => LogOwn(t)
  BY <1>4, <1>12 DEF LogOwn, t
<1>16. Right(t, b, own)
  BY <1>2, <1>12, <1>13, <1>14, <1>15 DEF Right, t
<1>17. (late' = {}) = own
  BY <1>2 DEF own
<1>18. /\ ~MayProcess(t) /\ (t.armed => t.pending) /\ Len(t.out) <= 1
  BY <1>3, <1>12 DEF MayProcess, t
<1> QED
  BY <1>2, <1>3, <1>11, <1>16, <1>17, <1>18 DEF t, b, SerInv, MayProcess, SerRunning, Right, Flow, SerQueue, QueueList, LogOwn, LiveIsFirst, NoneLive

(* A client that is idle is deleted, a process closes its socket, or the server
   is told to end. *)
LEMMA CloseKeeps ==
  ASSUME SerUsbAssumption, SerInv, Quit \/ \E c \in Clients : Eof(c) \/ PeerCloses(c)
  PROVE  SerInv'
<1> DEFINE own == late = {}
<1>1. /\ Right(p, back, own) /\ back \in Seq(Lines)
      /\ peer \in [Clients -> {"open", "closed"}] /\ ~MayProcess(p)
      /\ (p.server = "running" /\ p.armed => p.pending) /\ Len(p.out) <= 1
  BY DEF SerInv, SerRunning
<1>2. p \in Programs /\ (own => LogOwn(p))
  BY <1>1 DEF Right
<1>3. back' = back /\ late' = late
  BY DEF Quit, Eof, PeerCloses
<1> DEFINE t == p'
<1>4. CASE Quit
  <2>1. p' = [p EXCEPT !.server = "ended"] /\ peer' = peer
    BY <1>4 DEF Quit
  <2>2. t \in Programs /\ t.server # "running" /\ t.log = p.log /\ t.out = p.out
    BY <1>2, <2>1 DEF Programs
  <2> HIDE DEF t, own
  <2>3. Right(t, back, own)
    BY <1>2, <2>2 DEF Right, LogOwn
  <2> QED
    BY <1>1, <1>3, <2>1, <2>2, <2>3 DEF own, t, SerInv, MayProcess, SerRunning, Right, Flow, SerQueue, QueueList, LogOwn, LiveIsFirst, NoneLive
<1>5. CASE \E c \in Clients : PeerCloses(c)
  <2>1. PICK c \in Clients : p' = p /\ peer' = [peer EXCEPT ![c] = "closed"]
    BY <1>5 DEF PeerCloses
  <2>2. peer' \in [Clients -> {"open", "closed"}]
    BY <1>1, <2>1
  <2> HIDE DEF own
  <2> QED
    BY <1>1, <1>3, <2>1, <2>2 DEF own, SerInv, MayProcess, SerRunning, Right, Flow, SerQueue, QueueList, LogOwn, LiveIsFirst, NoneLive
<1>6. CASE \E c \in Clients : Eof(c)
  <2>1. PICK c \in Clients : /\ p.server = "running" /\ p.clt[c] = "idle" /\ peer' = peer
                             /\ p' = [p EXCEPT !.clt[c] = "gone"]
    BY <1>6 DEF Eof, SerRunning
  <2> DEFINE clt == [p.clt EXCEPT ![c] = "gone"]
  <2>2. p.clt \in [Clients -> {"idle", "waits", "gone"}]
    BY <1>2, SerTypes
  <2>3. /\ clt \in [Clients -> {"idle", "waits", "gone"}]
        /\ \A k \in Clients : clt[k] = "waits" <=> p.clt[k] = "waits"
    BY <2>1, <2>2
  <2>4. p' = [p EXCEPT !.clt = clt]
    BY <1>2, <2>1 DEF Programs
  <2> HIDE DEF clt
  <2>5. /\ t \in Programs /\ t.clt = clt /\ t.reqs = p.reqs /\ t.pending = p.pending
        /\ t.line = p.line /\ t.out = p.out /\ t.log = p.log /\ t.server = p.server
        /\ t.armed = p.armed
    BY <1>2, <2>3, <2>4 DEF Programs
  <2> HIDE DEF t, own
  <2>6. SerQueue(p) /\ (own => Flow(p, back))
    BY <1>1, <2>1 DEF Right
  <2>7. SerQueue(t)
    BY <2>3, <2>5, <2>6 DEF SerQueue, QueueList
  <2>8. own => Flow(t, back) /\ LogOwn(t)
    BY <1>2, <2>5, <2>6 DEF Flow, LiveIsFirst, LogOwn
  <2>9. Right(t, back, own) /\ ~MayProcess(t)
    BY <1>1, <2>5, <2>7, <2>8 DEF Right, MayProcess
  <2> QED
    BY <1>1, <1>3, <2>1, <2>5, <2>9 DEF own, t, SerInv, MayProcess, SerRunning, Right, Flow, SerQueue, QueueList, LogOwn, LiveIsFirst, NoneLive
<1> QED
  BY <1>4, <1>5, <1>6

LEMMA InitSerInv ==
  ASSUME SerUsbAssumption, SerInit
  PROVE  SerInv
<1> DEFINE nop == Asks(1, Internal, Nop)
           v == Asks(2, Internal, Version)
<1>1. /\ p = [clt |-> [c \in Clients |-> "idle"], reqs |-> <<nop, v>>,
              pending |-> TRUE, armed |-> FALSE, line |-> <<Sent(nop)>>, out |-> <<>>,
              log |-> [c \in Clients |-> <<>>], asked |-> 2, server |-> "running"]
      /\ peer = [c \in Clients |-> "open"] /\ back = <<>> /\ late = {}
  BY DEF SerInit
<1>2. /\ nop \in BoardRequests /\ v \in BoardRequests /\ nop.clt = Internal /\ v.clt = Internal
      /\ nop.code # Tick /\ Sent(nop) \in Lines /\ Internal \notin Clients
  BY DEF Asks, BoardRequests, Lines, AllCodes, Sent, Nop, Tick, SerUsbAssumption
<1> HIDE DEF nop, v
<1> DEFINE r == <<nop, v>>
           l == <<Sent(nop)>>
<1>3. /\ r \in Seq(BoardRequests) /\ Len(r) = 2 /\ r[1] = nop /\ r[2] = v /\ Head(r) = nop /\ r # <<>>
  BY <1>2
<1>4. l \in Seq(Lines) /\ Len(l) = 1 /\ l[1] = Sent(nop) /\ <<>> \in Seq(Lines)
  BY <1>2
<1> HIDE DEF r, l
<1>5. /\ p.clt = [c \in Clients |-> "idle"] /\ p.reqs = r /\ p.pending /\ ~p.armed
      /\ p.line = l /\ p.out = <<>> /\ p.log = [c \in Clients |-> <<>>]
      /\ p.server = "running"
  BY <1>1 DEF r, l
<1>6. p \in Programs
  <2>1. [c \in Clients |-> <<>>] \in [Clients -> Seq([id : Nat, from : Nat])]
    OBVIOUS
  <2>2. [c \in Clients |-> "idle"] \in [Clients -> {"idle", "waits", "gone"}]
    OBVIOUS
  <2> QED
    BY <1>1, <1>3, <1>4, <2>1, <2>2 DEF Programs, r, l
<1>7. SerQueue(p)
  <2>1. \A i \in 1 .. Len(r) : r[i].clt = Internal
    BY <1>2, <1>3
  <2> QED
    BY <1>2, <1>3, <1>5, <2>1 DEF SerQueue, QueueList
<1>8. Flow(p, <<>>)
  <2>1. NoneLive(<<>>) /\ LiveIsFirst(p, <<>>)
    BY DEF NoneLive, LiveIsFirst
  <2>2. LiveIsFirst(p, l)
    BY <1>3, <1>4, <1>5 DEF LiveIsFirst
  <2> QED
    BY <1>5, <2>1, <2>2 DEF Flow
<1>9. LogOwn(p)
  <2>1. \A c \in Clients : p.log[c] = <<>>
    BY <1>5
  <2> QED
    BY <2>1 DEF LogOwn
<1>10. Right(p, back, late = {})
  BY <1>1, <1>6, <1>7, <1>8, <1>9 DEF Right
<1> QED
  BY <1>1, <1>4, <1>5, <1>10 DEF SerInv, MayProcess, SerRunning

(* In every reachable state: one request of each client that waits, none of
   another, and until a request has timed out nothing that may be taken for the
   answer to another request than the first. *)
THEOREM SerInvariance ==
  SerUsbAssumption => (SerSpec => []SerInv)
<1> SUFFICES ASSUME SerUsbAssumption
             PROVE  SerSpec => []SerInv
  OBVIOUS
<1>1. SerInit => SerInv
  BY InitSerInv
<1>2. SerInv /\ [SerNext]_servars => SerInv'
  <2> SUFFICES ASSUME SerInv, [SerNext]_servars
               PROVE  SerInv'
    OBVIOUS
  <2>1. CASE \E c \in Clients : \E code \in Codes \cup {Tick} : SerRequest(c, code)
    BY <2>1, SerRequestKeeps
  <2>2. CASE \E n \in 1 .. Len(back), cut \in BOOLEAN : PortRead(n, cut)
    BY <2>2, PortReadKeeps
  <2>3. CASE SerTimeout \/ SerDrain \/ SerBoard
    BY <2>3, SerTimeoutKeeps, DrainKeeps, SerBoardKeeps
  <2>4. CASE Quit \/ \E c \in Clients : Eof(c) \/ PeerCloses(c)
    BY <2>4, CloseKeeps
  <2>5. CASE UNCHANGED servars
    <3>1. p' = p /\ peer' = peer /\ back' = back /\ late' = late
      BY <2>5 DEF servars
    <3> QED
      BY <3>1 DEF SerInv, MayProcess, SerRunning, Right, Flow, SerQueue, QueueList, LogOwn, LiveIsFirst, NoneLive
  <2> QED
    BY <2>1, <2>2, <2>3, <2>4, <2>5 DEF SerNext
<1> QED
  BY <1>1, <1>2, PTL DEF SerSpec

LEMMA SerOneOfEach ==
  ASSUME SerUsbAssumption, SerInv
  PROVE  NoDangling
<1> SUFFICES ASSUME SerRunning, NEW c \in Clients
             PROVE  Cardinality({i \in 1 .. Len(p.reqs) : p.reqs[i].clt = c}) =
                      IF p.clt[c] = "waits" THEN 1 ELSE 0
  BY DEF NoDangling
<1>1. QueueList(p) /\ c # Internal
  BY DEF SerInv, Right, SerRunning, SerQueue, SerUsbAssumption
<1> DEFINE S == {i \in 1 .. Len(p.reqs) : p.reqs[i].clt = c}
<1>2. CASE p.clt[c] = "waits"
  <2>1. PICK i \in 1 .. Len(p.reqs) : p.reqs[i].clt = c
    BY <1>1, <1>2 DEF QueueList
  <2>2. S = {i}
    BY <1>1, <2>1 DEF QueueList
  <2> HIDE DEF S
  <2>3. Cardinality(S) = 1
    BY <2>2, FS_Singleton
  <2> QED
    BY <1>2, <2>3 DEF S
<1>3. CASE p.clt[c] # "waits"
  <2>1. S = {}
    BY <1>1, <1>3 DEF QueueList
  <2> HIDE DEF S
  <2>2. Cardinality(S) = 0
    BY <2>1, FS_EmptySet
  <2> QED
    BY <1>3, <2>2 DEF S
<1> QED
  BY <1>2, <1>3

(* subbusd and serusb: a client that is deleted has no request in the list, and
   one that waits has one. *)
THEOREM SerNoDangling ==
  SerUsbAssumption => (SerSpec => []NoDangling)
<1> SUFFICES ASSUME SerUsbAssumption
             PROVE  SerSpec => []NoDangling
  OBVIOUS
<1>1. SerInv => NoDangling
  BY SerOneOfEach
<1> QED
  BY <1>1, SerInvariance, PTL

(* serusb: between two handlers a request is at the board exactly if one is in
   the list, and a timeout is asked for only then. *)
THEOREM SerPendingIsFirst ==
  SerUsbAssumption => (SerSpec => []PendingIsFirst)
<1>1. SerInv => PendingIsFirst
  BY DEF SerInv, PendingIsFirst, Right, SerQueue, MayProcess, SerRunning
<1> QED
  BY <1>1, SerInvariance, PTL

(* serusb: until a request has timed out, a client gets the answer to its own
   request or none. *)
THEOREM SerOwnUntilLate ==
  SerUsbAssumption => (SerSpec => []OwnUntilLate)
<1>1. SerInv => OwnUntilLate
  BY DEF SerInv, Right, OwnUntilLate, ReplyIsOwn, LogOwn
<1> QED
  BY <1>1, SerInvariance, PTL
-----------------------------------------------------------------------------
(* The server on CAN. *)

Part == [out : Nat \ {0}, in : Nat \ {0}]

Entries == [id : Nat, clt : Clients, part : Part]

Outs == [no : Nat, last : BOOLEAN, req : Nat, in : Nat]

CanAnswers == [no : Nat, kind : {"data", "noack", "error", "opened"}, seq : Nat, of : Nat,
               from : Nat]

Hows == {"ack", "noack", "error"}

Dones == [id : Nat, how : Hows, got : Seq(CanAnswers)]

Logged == [how : Hows, parts : Seq(Dones)]

Servers ==
  [link : {"socket", "slcan"}, mode : {"init", "retry", "operate"},
   clt : [Clients -> {"idle", "waits"}], todo : [Clients -> Seq(Part)],
   parts : [Clients -> Seq(Dones)], reqs : Seq(Entries), pending : BOOLEAN,
   processing : BOOLEAN, no : Nat, frm : 0 .. Ids - 1, got : Seq(CanAnswers),
   buf : Seq(CanAnswers), armed : {"clear", "set", "over"}, bus : Seq(Outs),
   asked : Nat, planned : Nat, opens : Nat, log : [Clients -> Seq(Logged)]]

(* The list, but for what it has of the clients in C: numbered upwards, one
   request of each client that waits. *)
ListBut(s, C) ==
  /\ \A i \in 1 .. Len(s.reqs) : s.reqs[i].id <= s.asked
  /\ \A i, j \in 1 .. Len(s.reqs) : i < j => s.reqs[i].id < s.reqs[j].id
  /\ \A i, j \in 1 .. Len(s.reqs) : s.reqs[i].clt = s.reqs[j].clt => i = j
  /\ \A c \in Clients :
       (\E i \in 1 .. Len(s.reqs) : s.reqs[i].clt = c) <=> s.clt[c] = "waits" /\ c \notin C

CanQueue(s) == ListBut(s, {}) /\ (s.pending => s.reqs # <<>>)

LEMMA SameQueue ==
  ASSUME NEW s, NEW t, CanQueue(s), t.clt = s.clt, t.reqs = s.reqs,
         t.pending = s.pending, t.asked = s.asked
  PROVE  CanQueue(t)
BY DEF CanQueue, ListBut

GoodParts ==
  {d \in Dones : d.how = "ack" =>
     /\ \A k \in 1 .. Len(d.got) : d.got[k].from = d.id /\ d.got[k].seq = k - 1
     /\ Len(d.got) = d.got[1].of}

(* What answers with the number no, if it is that of the request at the bus,
   answers this request. *)
Fits(s, no, from, of) ==
  /\ no < s.no \/ no = Ids
  /\ s.pending /\ no = s.frm => from = Head(s.reqs).id /\ of = Head(s.reqs).part.in

FitOuts(s) == {f \in Outs : f.last => Fits(s, f.no, f.req, f.in)}
FitAnswers(s) == {f \in CanAnswers : Fits(s, f.no, f.from, f.of)}

Own(s, b) ==
  /\ s.bus \in Seq(FitOuts(s)) /\ s.buf \in Seq(FitAnswers(s)) /\ b \in Seq(FitAnswers(s))
  /\ s.pending =>
       \A k \in 1 .. Len(s.got) :
         /\ s.got[k].seq = k - 1 /\ s.got[k].from = Head(s.reqs).id
         /\ s.got[k].of = Head(s.reqs).part.in
  /\ \A c \in Clients : s.parts[c] \in Seq(GoodParts)
  /\ \A c \in Clients : \A i \in 1 .. Len(s.log[c]) : s.log[c][i].parts \in Seq(GoodParts)

CanRight(s, b) ==
  s \in Servers /\ b \in Seq(CanAnswers) /\ CanQueue(s) /\ (s.no <= Ids => Own(s, b))

CanInv == CanRight(q, replies)

LEMMA CanTypes ==
  ASSUME NEW t \in Servers
  PROVE  /\ t.clt \in [Clients -> {"idle", "waits"}] /\ t.todo \in [Clients -> Seq(Part)]
         /\ t.parts \in [Clients -> Seq(Dones)] /\ t.reqs \in Seq(Entries)
         /\ t.pending \in BOOLEAN /\ t.processing \in BOOLEAN /\ t.no \in Nat
         /\ t.frm \in 0 .. Ids - 1 /\ t.got \in Seq(CanAnswers) /\ t.buf \in Seq(CanAnswers)
         /\ t.bus \in Seq(Outs) /\ t.asked \in Nat /\ t.planned \in Nat /\ t.opens \in Nat
         /\ t.log \in [Clients -> Seq(Logged)]
BY DEF Servers

(* What is true of a server is true of one that differs by what it has read,
   by its clock, or by the mode of its adapter. *)
LEMMA OnlyClock ==
  ASSUME NEW b, NEW d, NEW x, NEW y \in Servers, CanRight(x, b),
         y.clt = x.clt, y.parts = x.parts, y.reqs = x.reqs, y.pending = x.pending,
         y.no = x.no, y.frm = x.frm, y.got = x.got, y.asked = x.asked, y.log = x.log,
         d \in Seq(CanAnswers),
         Own(x, b) => /\ y.bus \in Seq(FitOuts(x)) /\ y.buf \in Seq(FitAnswers(x))
                      /\ d \in Seq(FitAnswers(x))
  PROVE  CanRight(y, d)
<1>1. CanQueue(y)
  BY DEF CanRight, CanQueue, ListBut
<1>2. FitOuts(y) = FitOuts(x) /\ FitAnswers(y) = FitAnswers(x)
  BY DEF FitOuts, FitAnswers, Fits
<1>3. ASSUME y.no <= Ids
      PROVE  Own(y, d)
  <2>1. Own(x, b)
    BY <1>3 DEF CanRight
  <2> QED
    BY <1>2, <2>1 DEF Own
<1> QED
  BY <1>1, <1>3 DEF CanRight

-----------------------------------------------------------------------------
(* The list.                                                               *)

(* The next part of the request of a client that has none in the list. *)
LEMMA EnqueueList ==
  ASSUME NEW x \in Servers, NEW c \in Clients, ListBut(x, {c}), x.clt[c] = "waits",
         x.todo[c] # <<>>
  PROVE  /\ Enqueue(x, c) \in Servers /\ ListBut(Enqueue(x, c), {})
         /\ Enqueue(x, c).reqs = Append(x.reqs, [id |-> x.asked + 1, clt |-> c,
                                                 part |-> Head(x.todo[c])])
<1> DEFINE e == [id |-> x.asked + 1, clt |-> c, part |-> Head(x.todo[c])]
           y == Enqueue(x, c)
<1>1. /\ x.clt \in [Clients -> {"idle", "waits"}] /\ x.todo \in [Clients -> Seq(Part)]
      /\ x.reqs \in Seq(Entries) /\ x.asked \in Nat
  BY CanTypes
<1>2. Head(x.todo[c]) \in Part /\ Tail(x.todo[c]) \in Seq(Part)
  BY <1>1
<1>3. e \in Entries /\ e.clt = c /\ e.id = x.asked + 1
  BY <1>1, <1>2 DEF Entries
<1> HIDE DEF e
<1> DEFINE r == Append(x.reqs, e)
           todo == [x.todo EXCEPT ![c] = Tail(@)]
<1>4. r \in Seq(Entries) /\ todo \in [Clients -> Seq(Part)] /\ x.asked + 1 \in Nat
  BY <1>1, <1>2, <1>3
<1>5. y = [x EXCEPT !.asked = @ + 1, !.todo = todo, !.reqs = r]
  BY DEF Enqueue, e, Servers
<1>6. /\ Len(x.reqs) \in Nat /\ Len(r) = Len(x.reqs) + 1 /\ r[Len(x.reqs) + 1] = e
      /\ \A i \in 1 .. Len(x.reqs) : r[i] = x.reqs[i]
  BY <1>1, <1>3
<1>10. \A i \in 1 .. Len(x.reqs) : x.reqs[i].id \in Nat
  <2>1. \A i \in 1 .. Len(x.reqs) : x.reqs[i] \in Entries
    BY <1>1
  <2> QED
    BY <2>1 DEF Entries
<1> HIDE DEF r, todo
<1>7. /\ y \in Servers /\ y.reqs = r /\ y.asked = x.asked + 1 /\ y.clt = x.clt
  BY <1>4, <1>5 DEF Servers
<1> HIDE DEF y
<1>8. \A i \in 1 .. Len(x.reqs) : x.reqs[i].id <= x.asked /\ x.reqs[i].clt # c
  BY DEF ListBut
<1>9. ListBut(y, {})
  <2>1. ASSUME NEW i \in 1 .. Len(r)
        PROVE  r[i].id <= x.asked + 1
    <3>1. CASE i \in 1 .. Len(x.reqs)
      <4>1. x.reqs[i].id <= x.asked /\ x.reqs[i].id \in Nat
        BY <1>8, <1>10, <3>1
      <4> QED
        BY <1>1, <1>6, <3>1, <4>1
    <3>2. CASE i = Len(x.reqs) + 1
      BY <1>1, <1>3, <1>6, <3>2
    <3> QED
      BY <1>6, <3>1, <3>2
  <2>2. \A i, j \in 1 .. Len(r) : i < j => r[i].id < r[j].id
    <3>1. SUFFICES ASSUME NEW i \in 1 .. Len(r), NEW j \in 1 .. Len(r), i < j
                   PROVE  r[i].id < r[j].id
      OBVIOUS
    <3>2. i \in 1 .. Len(x.reqs) /\ r[i] = x.reqs[i] /\ x.reqs[i].id \in Nat
      BY <1>6, <1>10, <3>1
    <3>3. CASE j \in 1 .. Len(x.reqs)
      BY <1>6, <3>1, <3>2, <3>3 DEF ListBut
    <3>4. CASE j = Len(x.reqs) + 1
      <4>1. x.reqs[i].id <= x.asked
        BY <1>8, <3>2
      <4> QED
        BY <1>1, <1>3, <1>6, <3>2, <3>4, <4>1
    <3> QED
      BY <1>6, <3>3, <3>4
  <2>3. \A i, j \in 1 .. Len(r) : r[i].clt = r[j].clt => i = j
    BY <1>3, <1>6, <1>8 DEF ListBut
  <2>4. ASSUME NEW k \in Clients
        PROVE  (\E i \in 1 .. Len(r) : r[i].clt = k) <=> x.clt[k] = "waits"
    <3>1. CASE k = c
      BY <1>3, <1>6, <3>1
    <3>2. CASE k # c
      <4>1. (\E i \in 1 .. Len(x.reqs) : x.reqs[i].clt = k) <=> x.clt[k] = "waits"
        BY <3>2 DEF ListBut
      <4> QED
        BY <1>3, <1>6, <3>2, <4>1
    <3> QED
      BY <3>1, <3>2
  <2> QED
    BY <1>7, <2>1, <2>2, <2>3, <2>4 DEF ListBut
<1> QED
  BY <1>7, <1>9 DEF r, e, y

(* What the client whose request was the first has not got in the list then. *)
LEMMA WithoutFirst ==
  ASSUME NEW x \in Servers, ListBut(x, {}), x.reqs # <<>>, NEW y \in Servers,
         y.reqs = Tail(x.reqs), y.clt = x.clt, y.asked = x.asked
  PROVE  /\ Head(x.reqs).clt \in Clients /\ x.clt[Head(x.reqs).clt] = "waits"
         /\ ListBut(y, {Head(x.reqs).clt})
<1> DEFINE c == Head(x.reqs).clt
           r == x.reqs
<1>1. r \in Seq(Entries) /\ r # <<>>
  BY CanTypes
<1>2. /\ Len(r) \in Nat \ {0} /\ Head(r) = r[1] /\ Len(Tail(r)) = Len(r) - 1
      /\ \A i \in 1 .. Len(r) - 1 : Tail(r)[i] = r[i + 1]
      /\ Head(r) \in Entries
  BY <1>1
<1>3. c \in Clients /\ c = r[1].clt
  BY <1>2 DEF Entries
<1> HIDE DEF r, c
<1>4. x.clt[c] = "waits"
  BY <1>2, <1>3 DEF ListBut, r
<1>5. \A i \in 1 .. Len(Tail(r)) : i + 1 \in 1 .. Len(r) /\ Tail(r)[i] = r[i + 1]
  BY <1>2
<1>6. \A i \in 1 .. Len(Tail(r)) : Tail(r)[i].id <= y.asked
  BY <1>5 DEF ListBut, r
<1>7. \A i, j \in 1 .. Len(Tail(r)) : i < j => Tail(r)[i].id < Tail(r)[j].id
  <2>1. \A i, j \in 1 .. Len(Tail(r)) : i < j => i + 1 < j + 1
    BY <1>2
  <2> QED
    BY <1>5, <2>1 DEF ListBut, r
<1>8. \A i, j \in 1 .. Len(Tail(r)) : Tail(r)[i].clt = Tail(r)[j].clt => i = j
  <2>1. \A i, j \in 1 .. Len(Tail(r)) : i + 1 = j + 1 => i = j
    BY <1>2
  <2> QED
    BY <1>5, <2>1 DEF ListBut, r
<1>9. ASSUME NEW k \in Clients
      PROVE  (\E i \in 1 .. Len(Tail(r)) : Tail(r)[i].clt = k) <=> y.clt[k] = "waits" /\ k # c
  <2>1. (\E i \in 1 .. Len(r) : r[i].clt = k) <=> y.clt[k] = "waits"
    BY DEF ListBut, r
  <2>2. \A i \in 1 .. Len(r) : i # 1 => i - 1 \in 1 .. Len(Tail(r)) /\ Tail(r)[i - 1] = r[i]
    BY <1>2
  <2>3. \A i \in 1 .. Len(r) : i # 1 => r[i].clt # c
    BY <1>2, <1>3 DEF ListBut, r
  <2>4. \A i \in 1 .. Len(Tail(r)) : i + 1 # 1
    BY <1>2
  <2> QED
    BY <1>2, <1>3, <1>5, <2>1, <2>2, <2>3, <2>4
<1>10. ListBut(y, {c})
  <2>1. y.reqs = Tail(r)
    BY DEF r
  <2>2. \A k \in Clients :
          (\E i \in 1 .. Len(Tail(r)) : Tail(r)[i].clt = k) <=> y.clt[k] = "waits" /\ k \notin {c}
    BY <1>9
  <2>3. \A i \in 1 .. Len(y.reqs) : y.reqs[i].id <= y.asked
    BY <1>6, <2>1
  <2>4. \A i, j \in 1 .. Len(y.reqs) : i < j => y.reqs[i].id < y.reqs[j].id
    BY <1>7, <2>1
  <2>5. \A i, j \in 1 .. Len(y.reqs) : y.reqs[i].clt = y.reqs[j].clt => i = j
    BY <1>8, <2>1
  <2>6. \A k \in Clients :
          (\E i \in 1 .. Len(y.reqs) : y.reqs[i].clt = k) <=> y.clt[k] = "waits" /\ k \notin {c}
    BY <2>1, <2>2
  <2> QED
    BY <2>3, <2>4, <2>5, <2>6 DEF ListBut
<1> QED
  BY <1>3, <1>4, <1>10 DEF r, c

(* The reply, or the next part.  *)
LEMMA Replied ==
  ASSUME NEW x \in Servers, NEW c \in Clients, NEW how \in Hows, ListBut(x, {c}),
         x.clt[c] = "waits",
         NEW y, y = RequestComplete(x, c, how)
  PROVE  /\ y \in Servers /\ ListBut(y, {})
         /\ y.pending = x.pending /\ y.no = x.no /\ y.frm = x.frm /\ y.bus = x.bus
         /\ y.buf = x.buf /\ y.parts = x.parts
         /\ \A k \in Clients :
              \/ y.log[k] = x.log[k]
              \/ y.log[k] = Append(x.log[k], [how |-> how, parts |-> x.parts[k]])
<1>1. /\ x.clt \in [Clients -> {"idle", "waits"}] /\ x.todo \in [Clients -> Seq(Part)]
      /\ x.log \in [Clients -> Seq(Logged)] /\ x.parts \in [Clients -> Seq(Dones)]
  BY CanTypes
<1>2. CASE how # "error" /\ x.todo[c] # <<>>
  <2>1. y = Enqueue(x, c)
    BY <1>2 DEF RequestComplete
  <2>2. y \in Servers /\ ListBut(y, {})
    BY <1>2, <2>1, EnqueueList
  <2>3. /\ y.pending = x.pending /\ y.no = x.no /\ y.frm = x.frm /\ y.bus = x.bus
        /\ y.buf = x.buf /\ y.parts = x.parts /\ y.log = x.log
    BY <2>1 DEF Enqueue, Servers
  <2> QED
    BY <2>2, <2>3
<1>3. CASE ~(how # "error" /\ x.todo[c] # <<>>)
  <2> DEFINE reply == [how |-> how, parts |-> x.parts[c]]
             clt == [x.clt EXCEPT ![c] = "idle"]
             todo == [x.todo EXCEPT ![c] = <<>>]
             log == [x.log EXCEPT ![c] = Append(@, reply)]
  <2>1. reply \in Logged
    BY <1>1 DEF Logged
  <2>2. /\ clt \in [Clients -> {"idle", "waits"}] /\ todo \in [Clients -> Seq(Part)]
    BY <1>1
  <2>3. log \in [Clients -> Seq(Logged)]
    <3> HIDE DEF reply
    <3> QED
      BY <1>1, <2>1
  <2>4. \A k \in Clients : log[k] = IF k = c THEN Append(x.log[k], reply) ELSE x.log[k]
    <3> HIDE DEF reply
    <3> QED
      BY <1>1
  <2>5. \A k \in Clients : clt[k] = IF k = c THEN "idle" ELSE x.clt[k]
    BY <1>1
  <2>6. y = [x EXCEPT !.clt = clt, !.todo = todo, !.log = log]
    BY <1>3 DEF RequestComplete, Servers
  <2> HIDE DEF clt, todo, log
  <2>7. y \in Servers /\ y.clt = clt /\ y.log = log /\ y.reqs = x.reqs /\ y.asked = x.asked
    BY <2>2, <2>3, <2>6 DEF Servers
  <2>8. /\ y.pending = x.pending /\ y.no = x.no /\ y.frm = x.frm /\ y.bus = x.bus
        /\ y.buf = x.buf /\ y.parts = x.parts
    BY <2>6 DEF Servers
  <2>9. ListBut(y, {})
    BY <2>5, <2>7 DEF ListBut
  <2> QED
    BY <2>4, <2>7, <2>8, <2>9
<1> QED
  BY <1>2, <1>3

(* The first request is done.  An acknowledged one has all its frames. *)
LEMMA CanCompleteKeeps ==
  ASSUME NEW b, NEW x, CanRight(x, b), x.reqs # <<>>, NEW how \in Hows,
         how = "ack" /\ x.no <= Ids => x.pending /\ Len(x.got) > 0 /\ Len(x.got) = Head(x.reqs).part.in,
         NEW y, y = CanComplete(x, how)
  PROVE  CanRight(y, b) /\ ~y.pending
<1> DEFINE r == Head(x.reqs)
           c == r.clt
           d == [id |-> r.id, how |-> how, got |-> x.got]
           parts == [x.parts EXCEPT ![c] = Append(@, d)]
           t == [x EXCEPT !.reqs = Tail(@), !.parts = parts]
           u == RequestComplete(t, c, how)
<1>1. /\ x \in Servers /\ ListBut(x, {}) /\ b \in Seq(CanAnswers)
      /\ x.parts \in [Clients -> Seq(Dones)] /\ x.reqs \in Seq(Entries)
      /\ x.got \in Seq(CanAnswers)
  BY CanTypes DEF CanRight, CanQueue
<1>2. r \in Entries /\ Tail(x.reqs) \in Seq(Entries)
  BY <1>1
<1>3. r.id \in Nat /\ c \in Clients
  BY <1>2 DEF Entries
<1>4. d \in Dones /\ d.id = r.id /\ d.how = how /\ d.got = x.got
  BY <1>1, <1>3 DEF Dones
<1>5. parts \in [Clients -> Seq(Dones)]
  <2> HIDE DEF d, c
  <2> QED
    BY <1>1, <1>3, <1>4
<1>6. \A k \in Clients : parts[k] = IF k = c THEN Append(x.parts[k], d) ELSE x.parts[k]
  <2> HIDE DEF d, c
  <2> QED
    BY <1>1
<1> HIDE DEF parts
<1>7. t \in Servers /\ t.reqs = Tail(x.reqs) /\ t.parts = parts /\ t.clt = x.clt
      /\ t.asked = x.asked
  BY <1>1, <1>2, <1>5 DEF Servers
<1>8. t.pending = x.pending /\ t.no = x.no /\ t.frm = x.frm /\ t.bus = x.bus /\ t.buf = x.buf
      /\ t.log = x.log
  BY <1>1 DEF Servers
<1>9. y = [u EXCEPT !.pending = FALSE]
  <2>1. t = [x EXCEPT !.reqs = Tail(@),
                      !.parts[r.clt] = Append(@, [id |-> r.id, how |-> how, got |-> x.got])]
    BY <1>1 DEF parts, Servers
  <2> HIDE DEF t
  <2> QED
    BY <2>1 DEF CanComplete
<1> HIDE DEF t
<1>10. ListBut(t, {c}) /\ t.clt[c] = "waits"
  BY <1>1, <1>7, WithoutFirst
<1> HIDE DEF u
<1>11. /\ u \in Servers /\ ListBut(u, {})
       /\ u.no = t.no /\ u.frm = t.frm /\ u.bus = t.bus
       /\ u.buf = t.buf /\ u.parts = t.parts
       /\ \A k \in Clients :
              \/ u.log[k] = t.log[k]
              \/ u.log[k] = Append(t.log[k], [how |-> how, parts |-> t.parts[k]])
  BY <1>3, <1>7, <1>10, Replied DEF u
<1>12. /\ y \in Servers /\ ~y.pending /\ y.no = x.no /\ y.frm = x.frm /\ y.bus = x.bus
       /\ y.buf = x.buf /\ y.parts = parts /\ y.log = u.log
       /\ y.reqs = u.reqs /\ y.asked = u.asked /\ y.clt = u.clt
  BY <1>7, <1>8, <1>9, <1>11 DEF Servers
<1>13. CanQueue(y)
  BY <1>11, <1>12 DEF CanQueue, ListBut
<1>14. ASSUME y.no <= Ids
       PROVE  Own(y, b)
  <2>1. Own(x, b)
    BY <1>12, <1>14 DEF CanRight
  <2>2. FitOuts(x) \subseteq FitOuts(y) /\ FitAnswers(x) \subseteq FitAnswers(y)
    BY <1>12 DEF FitOuts, FitAnswers, Fits
  <2>3. y.bus \in Seq(FitOuts(y)) /\ y.buf \in Seq(FitAnswers(y)) /\ b \in Seq(FitAnswers(y))
    BY <1>12, <2>1, <2>2 DEF Own
  <2>4. d \in GoodParts
    <3>1. SUFFICES ASSUME how = "ack"
                   PROVE  /\ \A k \in 1 .. Len(x.got) : x.got[k].from = r.id /\ x.got[k].seq = k - 1
                          /\ Len(x.got) = x.got[1].of
      BY <1>4 DEF GoodParts
    <3>4. x.pending /\ Len(x.got) > 0 /\ Len(x.got) = r.part.in
      BY <1>12, <1>14, <3>1
    <3>2. \A k \in 1 .. Len(x.got) :
         /\ x.got[k].seq = k - 1 /\ x.got[k].from = r.id /\ x.got[k].of = r.part.in
      BY <2>1, <3>4 DEF Own
    <3>3. 1 \in 1 .. Len(x.got)
      BY <1>1, <3>4
    <3> QED
      BY <3>2, <3>3, <3>4
  <2>5. ASSUME NEW k \in Clients
        PROVE  y.parts[k] \in Seq(GoodParts)
    <3>1. x.parts[k] \in Seq(GoodParts)
      BY <2>1 DEF Own
    <3> HIDE DEF d, c
    <3>2. CASE k = c
      <4>1. y.parts[k] = Append(x.parts[k], d)
        BY <1>6, <1>12, <3>2
      <4> QED
        BY <2>4, <3>1, <4>1
    <3>3. CASE k # c
      BY <1>6, <1>12, <3>1, <3>3
    <3> QED
      BY <3>2, <3>3
  <2>6. ASSUME NEW k \in Clients, NEW i \in 1 .. Len(y.log[k])
        PROVE  y.log[k][i].parts \in Seq(GoodParts)
    <3>1. \A j \in 1 .. Len(x.log[k]) : x.log[k][j].parts \in Seq(GoodParts)
      BY <2>1 DEF Own
    <3>2. x.log[k] \in Seq(Logged)
      BY <1>1, CanTypes
    <3>3. CASE y.log[k] = x.log[k]
      BY <2>6, <3>1, <3>3
    <3>4. CASE y.log[k] = Append(x.log[k], [how |-> how, parts |-> y.parts[k]])
      <4> DEFINE a == [how |-> how, parts |-> y.parts[k]]
      <4>1. a.parts \in Seq(GoodParts)
        BY <2>5
      <4> HIDE DEF a
      <4>2. \/ i \in 1 .. Len(x.log[k]) /\ y.log[k][i] = x.log[k][i]
            \/ y.log[k][i] = a
        BY <2>6, <3>2, <3>4 DEF a
      <4> QED
        BY <3>1, <4>1, <4>2
    <3> QED
      BY <1>7, <1>8, <1>11, <1>12, <3>3, <3>4
  <2> QED
    BY <1>12, <2>3, <2>5, <2>6 DEF Own
<1> QED
  BY <1>1, <1>12, <1>13, <1>14 DEF CanRight

-----------------------------------------------------------------------------
LEMMA SmallMod ==
  ASSUME NEW n \in Nat, NEW d \in Nat \ {0}, n < d
  PROVE  n % d = n
OBVIOUS

(* The number of a request that goes out is on no frame yet.               *)
LEMMA SendKeeps ==
  ASSUME CanAssumption, NEW b, NEW x, CanRight(x, b), x.reqs # <<>>, ~x.pending,
         NEW fate \in Fates(Head(x.reqs).part.out), NEW y, y = SendRequest(x, fate)
  PROVE  CanRight(y, b)
<1> DEFINE req == Head(x.reqs)
           all == fate.then = "taken"
           final == fate.taken + 1 >= req.part.out
           f == Frames(x, req, fate.taken)
           bus == x.bus \o f
           no == IF final THEN x.no + 1 ELSE x.no
           out == [x EXCEPT !.bus = bus, !.frm = x.no % Ids, !.got = <<>>, !.no = no,
                            !.pending = final]
<1>1. x \in Servers /\ b \in Seq(CanAnswers) /\ CanQueue(x) /\ Ids \in Nat \ {0}
  BY DEF CanRight, CanAssumption
<1>2. /\ x.reqs \in Seq(Entries) /\ x.bus \in Seq(Outs) /\ x.no \in Nat
  BY <1>1, CanTypes
<1>3. req \in Entries
  BY <1>2
<1>4. req.id \in Nat /\ req.part.out \in Nat \ {0} /\ req.part.in \in Nat \ {0}
  BY <1>3 DEF Entries, Part
<1>5. /\ fate.taken \in 0 .. req.part.out
      /\ all => fate.taken = req.part.out
      /\ ~all => fate.taken < req.part.out /\ fate.then \in {"blocked", "failed"}
  <2>1. fate \in {[taken |-> req.part.out, then |-> "taken"]}
                  \cup [taken : 0 .. req.part.out - 1, then : {"blocked", "failed"}]
    BY DEF Fates, CanAssumption
  <2> HIDE DEF req
  <2> QED
    BY <1>4, <2>1
<1>6. x.no % Ids \in 0 .. Ids - 1
  BY <1>1, <1>2
<1> HIDE DEF req
<1>7. f = [k \in 1 .. fate.taken |-> [no |-> x.no % Ids, last |-> k = req.part.out,
                                      req |-> req.id, in |-> req.part.in]]
  BY DEF Frames
<1>8. \A k \in 1 .. fate.taken :
        [no |-> x.no % Ids, last |-> k = req.part.out, req |-> req.id, in |-> req.part.in] \in Outs
  BY <1>1, <1>4, <1>6 DEF Outs
<1>9. f \in Seq(Outs) /\ Len(f) = fate.taken
  BY <1>5, <1>7, <1>8
<1>10. bus \in Seq(Outs)
  <2> HIDE DEF f
  <2> QED
    BY <1>2, <1>9
<1> HIDE DEF f, all
<1>11. no \in Nat /\ final \in BOOLEAN /\ <<>> \in Seq(CanAnswers)
  BY <1>2
<1> HIDE DEF final, no, bus
<1>12. /\ out \in Servers /\ out.bus = bus /\ out.frm = x.no % Ids /\ out.got = <<>>
       /\ out.no = no /\ out.pending = final
  BY <1>1, <1>6, <1>10, <1>11 DEF Servers
<1>13. /\ out.reqs = x.reqs /\ out.clt = x.clt /\ out.asked = x.asked
       /\ out.parts = x.parts /\ out.log = x.log /\ out.buf = x.buf
  BY <1>1 DEF Servers
<1>14. y = IF all THEN [out EXCEPT !.armed = "set"]
           ELSE IF fate.then = "failed" THEN [out EXCEPT !.processing = TRUE]
           ELSE CanComplete(out, "noack")
  <2>1. out = [x EXCEPT !.bus = @ \o Frames(x, req, fate.taken), !.frm = x.no % Ids,
                        !.got = <<>>, !.no = IF final THEN @ + 1 ELSE @,
                        !.pending = final]
    BY <1>1 DEF bus, f, no, Servers
  <2> HIDE DEF out
  <2> QED
    BY <2>1 DEF SendRequest, final, req, all
<1> HIDE DEF out
<1>15. CanRight(out, b)
  <2>1. CanQueue(out)
    BY <1>1, <1>13 DEF CanQueue, ListBut
  <2>2. ASSUME out.no <= Ids
        PROVE  Own(out, b)
    <3>1. x.no <= Ids /\ (final => x.no < Ids /\ no = x.no + 1) /\ no \in {x.no, x.no + 1}
      BY <1>1, <1>2, <1>12, <2>2 DEF no
    <3>2. Own(x, b)
      BY <3>1 DEF CanRight
    <3>3. final => x.no % Ids = x.no
      BY <1>1, <1>2, <3>1, SmallMod
    <3>4. ASSUME NEW d \in Nat, NEW from, NEW of, Fits(x, d, from, of)
          PROVE  Fits(out, d, from, of)
      <4>1. d < x.no \/ d = Ids
        BY <3>4 DEF Fits
      <4>2. d < out.no \/ d = Ids
        BY <1>2, <1>12, <3>1, <4>1
      <4>3. ~(out.pending /\ d = out.frm)
        BY <1>1, <1>2, <1>12, <3>1, <3>3, <4>1
      <4> QED
        BY <4>2, <4>3 DEF Fits
    <3>5. FitOuts(x) \subseteq FitOuts(out)
      BY <3>4 DEF FitOuts, Outs
    <3>6. FitAnswers(x) \subseteq FitAnswers(out)
      BY <3>4 DEF FitAnswers, CanAnswers
    <3>7. ASSUME NEW k \in 1 .. fate.taken
          PROVE  f[k] \in FitOuts(out)
      <4>1. /\ f[k] \in Outs /\ f[k].no = x.no % Ids /\ f[k].last = (k = req.part.out)
            /\ f[k].req = req.id /\ f[k].in = req.part.in
        BY <1>7, <1>8
      <4>2. f[k].last => final
        <5>1. k >= req.part.out => fate.taken + 1 >= req.part.out
          BY <1>4, <1>5
        <5>2. f[k].last => k = req.part.out
          BY <4>1
        <5>3. k = req.part.out => k >= req.part.out
          BY <1>4
        <5> QED
          BY <5>1, <5>2, <5>3 DEF final
      <4>3. f[k].last => x.no % Ids < out.no
        BY <1>2, <1>12, <3>1, <3>3, <4>2
      <4>4. f[k].last => Fits(out, f[k].no, f[k].req, f[k].in)
        BY <1>12, <1>13, <4>1, <4>3 DEF Fits, req
      <4> QED
        BY <4>1, <4>4 DEF FitOuts
    <3>8. f \in Seq(FitOuts(out))
      BY <1>9, <3>7
    <3>9. x.bus \in Seq(FitOuts(out)) /\ x.buf \in Seq(FitAnswers(out)) /\ b \in Seq(FitAnswers(out))
      BY <3>2, <3>5, <3>6 DEF Own
    <3>10. out.bus \in Seq(FitOuts(out))
      BY <1>12, <3>8, <3>9 DEF bus
    <3> QED
      BY <1>12, <1>13, <3>2, <3>9, <3>10 DEF Own
  <2> QED
    BY <1>1, <1>12, <2>1, <2>2 DEF CanRight
<1>16. CASE ~all /\ fate.then # "failed"
  BY <1>13, <1>14, <1>15, <1>16, CanCompleteKeeps DEF Hows
<1>17. CASE all \/ fate.then = "failed"
  <2>1. y = [out EXCEPT !.armed = "set"] \/ y = [out EXCEPT !.processing = TRUE]
    BY <1>14, <1>17
  <2>2. /\ y \in Servers /\ y.clt = out.clt /\ y.parts = out.parts /\ y.reqs = out.reqs
        /\ y.pending = out.pending /\ y.no = out.no /\ y.frm = out.frm /\ y.got = out.got
        /\ y.asked = out.asked /\ y.log = out.log /\ y.bus = out.bus /\ y.buf = out.buf
    BY <1>12, <2>1 DEF Servers
  <2>3. Own(out, b) => /\ y.bus \in Seq(FitOuts(out)) /\ y.buf \in Seq(FitAnswers(out))
                       /\ b \in Seq(FitAnswers(out))
    BY <2>2 DEF Own
  <2> QED
    BY <1>1, <1>15, <2>2, <2>3, OnlyClock
<1> QED
  BY <1>16, <1>17

LEMMA CanProcessKeeps ==
  ASSUME CanAssumption, NEW b, NEW x, CanRight(x, b), CanProcessRequests(x)
  PROVE  CanRight(q', b)
<1>1. CASE x.pending \/ x.processing \/ x.reqs = <<>>
  BY <1>1 DEF CanProcessRequests
<1>2. CASE ~(x.pending \/ x.processing \/ x.reqs = <<>>)
  <2>1. PICK fate \in Fates(Head(x.reqs).part.out) : q' = SendRequest(x, fate)
    BY <1>2 DEF CanProcessRequests
  <2> QED
    BY <1>2, <2>1, SendKeeps
<1> QED
  BY <1>1, <1>2

-----------------------------------------------------------------------------
(* What is read.                                                           *)
LEMMA OpeningFits ==
  ASSUME CanAssumption, NEW x \in Servers
  PROVE  Opening \in Outs /\ Opening \in FitOuts(x)
<1>1. Ids \in Nat \ {0} /\ x.frm # Ids
  BY CanTypes DEF CanAssumption
<1>2. Opening \in Outs
  BY <1>1 DEF Opening, Outs
<1> QED
  BY <1>1, <1>2 DEF Opening, FitOuts, Fits

LEMMA ReceivedKeeps ==
  ASSUME NEW b, NEW x, CanRight(x, b), x.pending, NEW f \in CanAnswers,
         x.no <= Ids => Fits(x, f.no, f.from, f.of),
         CanMatches(x, f), Accept(x, f), NEW y, y = Received(x, f)
  PROVE  CanRight(y, b)
<1> DEFINE got == Append(x.got, f)
           t == [x EXCEPT !.got = got, !.armed = "clear"]
           r == Head(x.reqs)
           u == [t EXCEPT !.armed = IF x.link = "slcan" THEN "set" ELSE "clear"]
<1>1. /\ x \in Servers /\ CanQueue(x) /\ b \in Seq(CanAnswers) /\ x.got \in Seq(CanAnswers)
      /\ f.no = x.frm /\ f.seq = Len(x.got) /\ x.reqs # <<>>
  BY CanTypes DEF CanRight, CanMatches, Accept, CanQueue
<1>2. /\ got \in Seq(CanAnswers) /\ Len(got) = Len(x.got) + 1 /\ got[Len(x.got) + 1] = f
      /\ Len(x.got) \in Nat
      /\ \A k \in 1 .. Len(x.got) : got[k] = x.got[k]
  BY <1>1
<1> HIDE DEF got
<1>3. /\ t \in Servers /\ t.got = got
  BY <1>1, <1>2 DEF Servers
<1>4. /\ t.clt = x.clt /\ t.parts = x.parts /\ t.reqs = x.reqs /\ t.pending = x.pending
      /\ t.no = x.no /\ t.frm = x.frm /\ t.bus = x.bus /\ t.buf = x.buf
      /\ t.asked = x.asked /\ t.log = x.log
  BY <1>1 DEF Servers
<1>5. y = IF Len(got) = f.of THEN CanComplete(t, "ack") ELSE u
  BY <1>3 DEF Received, got
<1> HIDE DEF t
<1>6. CanQueue(t)
  BY <1>1, <1>4, SameQueue
<1>7. ASSUME t.no <= Ids
      PROVE  Own(t, b) /\ f.from = r.id /\ f.of = r.part.in
  <2>1. Own(x, b) /\ Fits(x, f.no, f.from, f.of)
    BY <1>4, <1>7 DEF CanRight
  <2>2. f.from = r.id /\ f.of = r.part.in
    BY <1>1, <2>1 DEF Fits
  <2>3. \A k \in 1 .. Len(x.got) :
          x.got[k].seq = k - 1 /\ x.got[k].from = r.id /\ x.got[k].of = r.part.in
    BY <2>1 DEF Own
  <2>4. ASSUME NEW k \in 1 .. Len(got)
        PROVE  got[k].seq = k - 1 /\ got[k].from = r.id /\ got[k].of = r.part.in
    <3>1. CASE k \in 1 .. Len(x.got)
      BY <1>2, <2>3, <3>1
    <3>2. CASE k = Len(x.got) + 1
      <4>1. got[k] = f /\ k - 1 = Len(x.got)
        BY <1>2, <3>2
      <4> QED
        BY <1>1, <2>2, <4>1
    <3> QED
      BY <1>2, <3>1, <3>2
  <2>5. FitOuts(t) = FitOuts(x) /\ FitAnswers(t) = FitAnswers(x)
    BY <1>4 DEF FitOuts, FitAnswers, Fits
  <2> QED
    BY <1>3, <1>4, <2>1, <2>2, <2>4, <2>5 DEF Own
<1>8. CanRight(t, b)
  BY <1>1, <1>3, <1>6, <1>7 DEF CanRight
<1>9. CASE Len(got) = f.of
  <2>1. t.no <= Ids => Len(t.got) > 0 /\ Len(t.got) = Head(t.reqs).part.in
    BY <1>2, <1>3, <1>4, <1>7, <1>9
  <2> QED
    BY <1>1, <1>4, <1>5, <1>8, <1>9, <2>1, CanCompleteKeeps DEF Hows
<1>10. CASE Len(got) # f.of
  <2>1. y = u
    BY <1>5, <1>10
  <2>2. /\ y \in Servers /\ y.clt = t.clt /\ y.parts = t.parts /\ y.reqs = t.reqs
        /\ y.pending = t.pending /\ y.no = t.no /\ y.frm = t.frm /\ y.got = t.got
        /\ y.asked = t.asked /\ y.log = t.log /\ y.bus = t.bus /\ y.buf = t.buf
    BY <1>3, <2>1 DEF Servers
  <2>3. Own(t, b) => /\ y.bus \in Seq(FitOuts(t)) /\ y.buf \in Seq(FitAnswers(t))
                     /\ b \in Seq(FitAnswers(t))
    BY <2>2 DEF Own
  <2> QED
    BY <1>1, <1>8, <2>2, <2>3, OnlyClock
<1> QED
  BY <1>9, <1>10

(* The frames that have been read and are left are fewer. *)
LEMMA FewerRead ==
  ASSUME NEW b, NEW x, CanRight(x, b), NEW y \in Servers,
         y.clt = x.clt, y.parts = x.parts, y.reqs = x.reqs, y.pending = x.pending,
         y.no = x.no, y.frm = x.frm, y.got = x.got, y.asked = x.asked, y.log = x.log,
         y.bus = x.bus, x.buf # <<>>, y.buf \in {<<>>, Tail(x.buf), x.buf}
  PROVE  CanRight(y, b)
<1>1. b \in Seq(CanAnswers)
  BY DEF CanRight
<1>2. Own(x, b) => /\ y.bus \in Seq(FitOuts(x)) /\ y.buf \in Seq(FitAnswers(x))
                   /\ b \in Seq(FitAnswers(x))
  <2>1. SUFFICES ASSUME Own(x, b)
                 PROVE  /\ y.bus \in Seq(FitOuts(x)) /\ y.buf \in Seq(FitAnswers(x))
                        /\ b \in Seq(FitAnswers(x))
    OBVIOUS
  <2>2. /\ x.bus \in Seq(FitOuts(x)) /\ x.buf \in Seq(FitAnswers(x))
        /\ b \in Seq(FitAnswers(x))
    BY <2>1 DEF Own
  <2>3. Tail(x.buf) \in Seq(FitAnswers(x)) /\ <<>> \in Seq(FitAnswers(x))
    BY <2>2
  <2> QED
    BY <2>2, <2>3
<1> QED
  BY <1>1, <1>2, OnlyClock

LEMMA InputKeeps ==
  ASSUME CanAssumption, NEW b, NEW x, CanRight(x, b), x.buf # <<>>, NEW y, y = CanInput(x)
  PROVE  CanRight(y, b)
<1> DEFINE f == Head(x.buf)
           all == [x EXCEPT !.buf = <<>>]
           one == [x EXCEPT !.buf = Tail(@)]
           open == [all EXCEPT !.armed = "clear", !.mode = "operate"]
           nack == [all EXCEPT !.armed = "clear"]
<1>1. x \in Servers /\ x.buf \in Seq(CanAnswers) /\ CanQueue(x)
  BY CanTypes DEF CanRight
<1>2. f \in CanAnswers /\ Tail(x.buf) \in Seq(CanAnswers) /\ <<>> \in Seq(CanAnswers)
  BY <1>1
<1>3. x.no <= Ids => Fits(x, f.no, f.from, f.of)
  <2>1. SUFFICES ASSUME x.no <= Ids
                 PROVE  Fits(x, f.no, f.from, f.of)
    OBVIOUS
  <2>2. x.buf \in Seq(FitAnswers(x))
    BY <2>1 DEF CanRight, Own
  <2>3. f \in FitAnswers(x)
    BY <2>2
  <2> QED
    BY <2>3 DEF FitAnswers
<1> HIDE DEF f
<1>4. /\ all \in Servers /\ one \in Servers /\ open \in Servers /\ nack \in Servers
      /\ all.buf = <<>> /\ one.buf = Tail(x.buf) /\ open.buf = <<>> /\ nack.buf = <<>>
  BY <1>1, <1>2 DEF Servers
<1>5. ASSUME NEW t \in {all, one, open, nack}
      PROVE  /\ t.clt = x.clt /\ t.parts = x.parts /\ t.reqs = x.reqs /\ t.pending = x.pending
             /\ t.no = x.no /\ t.frm = x.frm /\ t.got = x.got /\ t.asked = x.asked
             /\ t.log = x.log /\ t.bus = x.bus
  BY <1>1 DEF Servers
<1>6. y = IF x.mode # "operate" THEN open
          ELSE IF ~x.pending \/ f.kind = "opened" THEN all
          ELSE IF ~CanMatches(x, f) THEN one
          ELSE IF f.kind \in {"noack", "error"} THEN CanComplete(nack, f.kind)
          ELSE IF Accept(x, f) THEN Received(one, f)
          ELSE all
  BY DEF CanInput, f
<1> HIDE DEF all, one, open, nack
<1>7. ASSUME NEW t \in {all, one, open, nack}
      PROVE  CanRight(t, b)
  <2>1. t \in Servers /\ t.buf \in {<<>>, Tail(x.buf), x.buf}
    BY <1>4
  <2> QED
    BY <1>5, <2>1, FewerRead
<1>8. CASE y \in {all, one, open}
  BY <1>7, <1>8
<1>9. CASE x.pending /\ f.kind \in {"noack", "error"} /\ y = CanComplete(nack, f.kind)
  <2>1. nack.reqs # <<>>
    BY <1>1, <1>5, <1>9 DEF CanQueue
  <2>2. f.kind \in Hows /\ f.kind # "ack"
    BY <1>9 DEF Hows
  <2> QED
    BY <1>7, <1>9, <2>1, <2>2, CanCompleteKeeps
<1>10. CASE x.pending /\ CanMatches(x, f) /\ Accept(x, f) /\ y = Received(one, f)
  <2>1. one.pending /\ CanMatches(one, f) /\ Accept(one, f)
    BY <1>5, <1>10 DEF CanMatches, Accept
  <2>2. one.no <= Ids => Fits(one, f.no, f.from, f.of)
    BY <1>3, <1>5 DEF Fits
  <2> QED
    BY <1>2, <1>7, <1>10, <2>1, <2>2, ReceivedKeeps
<1> QED
  BY <1>6, <1>8, <1>9, <1>10

LEMMA HandledKeeps ==
  ASSUME CanAssumption, NEW b, NEW x, NEW y, CanRight(y, b), HandledInput(x, y)
  PROVE  CanRight(q', b)
BY CanProcessKeeps DEF HandledInput

LEMMA ReadKeeps ==
  ASSUME CanAssumption, CanInv, NEW n \in 1 .. Len(replies), Read(n)
  PROVE  CanInv'
<1> DEFINE c == SubSeq(replies, 1, n)
           d == SubSeq(replies, n + 1, Len(replies))
           x == [q EXCEPT !.buf = @ \o c]
<1>1. q \in Servers /\ replies \in Seq(CanAnswers) /\ q.buf \in Seq(CanAnswers)
  BY CanTypes DEF CanInv, CanRight
<1>2. /\ replies' = d
      /\ \E s \in {x} : \E t \in {CanInput(s)} : HandledInput(s, t)
  BY DEF Read
<1>3. ASSUME NEW S, replies \in Seq(S)
      PROVE  c \in Seq(S) /\ d \in Seq(S) /\ c # <<>>
  BY <1>3
<1>4. c \in Seq(CanAnswers) /\ d \in Seq(CanAnswers) /\ c # <<>>
  BY <1>1, <1>3
<1>5. Own(q, replies) => c \in Seq(FitAnswers(q)) /\ d \in Seq(FitAnswers(q))
  BY <1>3 DEF Own
<1> HIDE DEF c, d
<1> DEFINE buf == q.buf \o c
<1>6. buf \in Seq(CanAnswers) /\ buf # <<>>
  BY <1>1, <1>4
<1>7. Own(q, replies) => buf \in Seq(FitAnswers(q))
  BY <1>5 DEF Own
<1>8. x = [q EXCEPT !.buf = buf]
  BY <1>1 DEF Servers
<1> HIDE DEF x, buf
<1>9. /\ x \in Servers /\ x.buf = buf
      /\ x.clt = q.clt /\ x.parts = q.parts /\ x.reqs = q.reqs /\ x.pending = q.pending
      /\ x.no = q.no /\ x.frm = q.frm /\ x.got = q.got /\ x.asked = q.asked
      /\ x.log = q.log /\ x.bus = q.bus
  BY <1>1, <1>6, <1>8 DEF Servers
<1>10. Own(q, replies) => /\ x.bus \in Seq(FitOuts(q)) /\ x.buf \in Seq(FitAnswers(q))
                          /\ d \in Seq(FitAnswers(q))
  BY <1>5, <1>7, <1>9 DEF Own
<1>11. CanRight(x, d)
  BY <1>4, <1>9, <1>10, OnlyClock DEF CanInv
<1>12. CanRight(CanInput(x), d)
  BY <1>6, <1>9, <1>11, InputKeeps
<1>13. HandledInput(x, CanInput(x))
  BY <1>2
<1> QED
  BY <1>2, <1>12, <1>13, HandledKeeps DEF CanInv

LEMMA CanTimeoutKeeps ==
  ASSUME CanAssumption, CanInv, CanTimeout
  PROVE  CanInv'
<1> DEFINE x == [q EXCEPT !.armed = "over"]
           t == IF x.buf = <<>> THEN x ELSE CanInput(x)
<1>1. q \in Servers /\ replies' = replies /\ replies \in Seq(CanAnswers) /\ CanRight(q, replies)
  BY DEF CanInv, CanRight, CanTimeout
<1>2. IF t.armed # "over" THEN HandledInput(x, t) ELSE Expired(t)
  BY DEF CanTimeout
<1>3. /\ x \in Servers
      /\ x.clt = q.clt /\ x.parts = q.parts /\ x.reqs = q.reqs /\ x.pending = q.pending
      /\ x.no = q.no /\ x.frm = q.frm /\ x.got = q.got /\ x.asked = q.asked
      /\ x.log = q.log /\ x.bus = q.bus /\ x.buf = q.buf
  BY <1>1 DEF Servers
<1> HIDE DEF x
<1>4. Own(q, replies) => /\ x.bus \in Seq(FitOuts(q)) /\ x.buf \in Seq(FitAnswers(q))
                         /\ replies \in Seq(FitAnswers(q))
  BY <1>3 DEF Own
<1>5. CanRight(x, replies)
  BY <1>1, <1>3, <1>4, OnlyClock
<1>6. CanRight(t, replies)
  BY <1>5, InputKeeps
<1> HIDE DEF t
<1>7. CASE t.armed # "over"
  BY <1>1, <1>2, <1>6, <1>7, HandledKeeps DEF CanInv
<1>8. CASE t.armed = "over"
  <2> DEFINE u == [t EXCEPT !.buf = <<>>, !.armed = "clear"]
             v == [t EXCEPT !.armed = "clear"]
  <2>1. t \in Servers /\ <<>> \in Seq(CanAnswers)
    BY <1>6 DEF CanRight
  <2>2. Expired(t)
    BY <1>2, <1>8
  <2>3. ASSUME NEW y \in Servers, y.clt = t.clt, y.parts = t.parts, y.reqs = t.reqs,
               y.pending = t.pending,
               y.no = t.no, y.frm = t.frm, y.got = t.got, y.asked = t.asked, y.log = t.log,
               y.bus \in {t.bus, Append(t.bus, Opening)}, y.buf \in {t.buf, <<>>}
        PROVE  CanRight(y, replies)
    <3>1. ASSUME Own(t, replies)
          PROVE  /\ y.bus \in Seq(FitOuts(t)) /\ y.buf \in Seq(FitAnswers(t))
                 /\ replies \in Seq(FitAnswers(t))
      <4>1. t.bus \in Seq(FitOuts(t)) /\ t.buf \in Seq(FitAnswers(t)) /\ replies \in Seq(FitAnswers(t))
        BY <3>1 DEF Own
      <4>2. Opening \in FitOuts(t)
        BY <2>1, OpeningFits
      <4>3. Append(t.bus, Opening) \in Seq(FitOuts(t))
        BY <4>1, <4>2
      <4>4. <<>> \in Seq(FitAnswers(t))
        OBVIOUS
      <4> QED
        BY <2>3, <4>1, <4>3, <4>4
    <3> QED
      BY <1>1, <1>6, <2>3, <3>1, OnlyClock
  <2>4. CASE t.pending
    <3>1. CanProcessRequests(CanComplete(u, "noack"))
      BY <2>2, <2>4 DEF Expired
    <3>2. /\ u \in Servers
          /\ u.clt = t.clt /\ u.parts = t.parts /\ u.reqs = t.reqs /\ u.pending = t.pending
          /\ u.no = t.no /\ u.frm = t.frm /\ u.got = t.got /\ u.asked = t.asked
          /\ u.log = t.log /\ u.bus = t.bus /\ u.buf = <<>>
      BY <2>1 DEF Servers
    <3> HIDE DEF u
    <3>3. CanRight(u, replies)
      BY <2>3, <3>2
    <3>4. u.reqs # <<>>
      BY <1>6, <2>4, <3>2 DEF CanRight, CanQueue
    <3>5. CanRight(CanComplete(u, "noack"), replies)
      BY <3>3, <3>4, CanCompleteKeeps DEF Hows
    <3> QED
      BY <1>1, <3>1, <3>5, CanProcessKeeps DEF CanInv
  <2>5. CASE ~t.pending
    <3>1. \/ q' = [u EXCEPT !.mode = "retry", !.armed = "set"]
          \/ q' = [u EXCEPT !.mode = "init", !.armed = "set",
                            !.bus = Append(@, Opening), !.opens = @ + 1]
          \/ q' = v
      BY <2>1, <2>2, <2>5 DEF Expired, Servers
    <3>2. /\ q' \in Servers
          /\ q'.clt = t.clt /\ q'.parts = t.parts /\ q'.reqs = t.reqs /\ q'.pending = t.pending
          /\ q'.no = t.no /\ q'.frm = t.frm /\ q'.got = t.got /\ q'.asked = t.asked
          /\ q'.log = t.log /\ q'.bus \in {t.bus, Append(t.bus, Opening)}
          /\ q'.buf \in {t.buf, <<>>}
      <4>1. Append(t.bus, Opening) \in Seq(Outs) /\ t.opens + 1 \in Nat
        BY <2>1, OpeningFits, CanTypes
      <4>2. CASE q' = [u EXCEPT !.mode = "retry", !.armed = "set"]
        BY <2>1, <4>2 DEF Servers
      <4>3. CASE q' = [u EXCEPT !.mode = "init", !.armed = "set",
                                !.bus = Append(@, Opening), !.opens = @ + 1]
        BY <2>1, <4>1, <4>3 DEF Servers
      <4>4. CASE q' = v
        BY <2>1, <4>4 DEF Servers
      <4> QED
        BY <3>1, <4>2, <4>3, <4>4
    <3> QED
      BY <1>1, <2>3, <3>2 DEF CanInv
  <2> QED
    BY <2>4, <2>5
<1> QED
  BY <1>7, <1>8

-----------------------------------------------------------------------------
LEMMA HeadStays ==
  ASSUME NEW E, NEW r \in Seq(E), NEW e \in E
  PROVE  Append(r, e) # <<>> /\ (r # <<>> => Head(Append(r, e)) = Head(r))
<1> DEFINE a == Append(r, e)
<1>1. a \in Seq(E) /\ Len(a) = Len(r) + 1 /\ \A i \in 1 .. Len(r) : a[i] = r[i]
  OBVIOUS
<1> HIDE DEF a
<1>2. a # <<>> /\ Head(a) = a[1]
  BY <1>1
<1>3. r # <<>> => a[1] = r[1] /\ Head(r) = r[1]
  BY <1>1
<1> QED
  BY <1>2, <1>3 DEF a

LEMMA CanRequestKeeps ==
  ASSUME CanAssumption, CanInv, NEW c \in Clients, NEW plan \in Plans, CanRequest(c, plan)
  PROVE  CanInv'
<1> DEFINE clt == [q.clt EXCEPT ![c] = "waits"]
           todo == [q.todo EXCEPT ![c] = plan]
           parts == [q.parts EXCEPT ![c] = <<>>]
           x == [q EXCEPT !.clt = clt, !.todo = todo, !.parts = parts,
                          !.planned = @ + Len(plan)]
           y == Enqueue(x, c)
<1>1. /\ q \in Servers /\ replies' = replies /\ replies \in Seq(CanAnswers) /\ CanQueue(q)
      /\ q.clt[c] = "idle" /\ plan \in Seq(Part) /\ plan # <<>>
  BY DEF CanInv, CanRight, CanRequest, CanAssumption, Part
<1>2. /\ q.clt \in [Clients -> {"idle", "waits"}] /\ q.todo \in [Clients -> Seq(Part)]
      /\ q.parts \in [Clients -> Seq(Dones)] /\ q.planned \in Nat
      /\ q.planned + Len(plan) \in Nat
  BY <1>1, CanTypes
<1>3. clt \in [Clients -> {"idle", "waits"}] /\ \A k \in Clients : k # c => clt[k] = q.clt[k]
  BY <1>2
<1>4. todo \in [Clients -> Seq(Part)] /\ todo[c] = plan /\ clt[c] = "waits"
  BY <1>1, <1>2
<1>5. parts \in [Clients -> Seq(Dones)] /\ \A k \in Clients : parts[k] \in {<<>>, q.parts[k]}
  BY <1>2
<1>6. CanProcessRequests(y)
  <2>1. x = [q EXCEPT !.clt[c] = "waits", !.todo[c] = plan, !.parts[c] = <<>>,
                      !.planned = @ + Len(plan)]
    BY <1>1 DEF Servers
  <2> HIDE DEF x
  <2> QED
    BY <2>1 DEF CanRequest
<1> HIDE DEF clt, todo, parts
<1>7. /\ x \in Servers /\ x.clt = clt /\ x.todo = todo /\ x.parts = parts
      /\ x.reqs = q.reqs /\ x.asked = q.asked /\ x.pending = q.pending /\ x.no = q.no
      /\ x.frm = q.frm /\ x.got = q.got /\ x.buf = q.buf /\ x.bus = q.bus /\ x.log = q.log
  BY <1>1, <1>2, <1>3, <1>4, <1>5 DEF Servers
<1> HIDE DEF x
<1>8. ListBut(x, {c})
  <2>1. \A k \in Clients :
          (\E i \in 1 .. Len(x.reqs) : x.reqs[i].clt = k) <=> x.clt[k] = "waits" /\ k \notin {c}
    <3>1. \A k \in Clients :
            (\E i \in 1 .. Len(q.reqs) : q.reqs[i].clt = k) <=> q.clt[k] = "waits"
      BY <1>1 DEF CanQueue, ListBut
    <3> QED
      BY <1>1, <1>3, <1>7, <3>1
  <2> QED
    BY <1>1, <1>7, <2>1 DEF CanQueue, ListBut
<1>9. y \in Servers /\ ListBut(y, {}) /\ y.reqs = Append(x.reqs, [id |-> x.asked + 1, clt |-> c,
                                                                  part |-> Head(x.todo[c])])
  BY <1>1, <1>4, <1>7, <1>8, EnqueueList
<1>10. /\ y.pending = x.pending /\ y.no = x.no /\ y.frm = x.frm /\ y.got = x.got
       /\ y.buf = x.buf /\ y.bus = x.bus /\ y.parts = x.parts /\ y.log = x.log
  BY <1>7 DEF Enqueue, Servers
<1> HIDE DEF y
<1>11. /\ y.reqs # <<>>
       /\ y.pending => Head(y.reqs) = Head(q.reqs)
  <2> DEFINE e == [id |-> x.asked + 1, clt |-> c, part |-> Head(x.todo[c])]
  <2>1. y.reqs = Append(q.reqs, e)
    BY <1>7, <1>9
  <2>2. q.reqs \in Seq(Entries) /\ (y.pending => q.reqs # <<>>)
    BY <1>1, <1>7, <1>10, CanTypes DEF CanQueue
  <2> HIDE DEF e
  <2> DEFINE r == q.reqs
  <2>3. r \in Seq(Entries)
    BY <2>2
  <2>4. e \in Entries
    <3>1. y.reqs \in Seq(Entries)
      BY <1>9, CanTypes
    <3>2. Append(r, e) # <<>> /\ Append(r, e)[Len(r) + 1] = e /\ Len(Append(r, e)) = Len(r) + 1
      BY <2>3
    <3>3. Len(r) + 1 \in 1 .. Len(y.reqs) /\ y.reqs[Len(r) + 1] = e
      BY <2>1, <2>3, <3>2
    <3> QED
      BY <3>1, <3>3
  <2> HIDE DEF r
  <2>5. Append(r, e) # <<>> /\ (r # <<>> => Head(Append(r, e)) = Head(r))
    BY <2>3, <2>4, HeadStays
  <2> QED
    BY <2>1, <2>2, <2>5 DEF r
<1>12. CanRight(y, replies)
  <2>1. CanQueue(y)
    BY <1>9, <1>11 DEF CanQueue
  <2>2. ASSUME y.no <= Ids
        PROVE  Own(y, replies)
    <3>1. Own(q, replies)
      BY <1>7, <1>10, <2>2 DEF CanInv, CanRight
    <3>2. FitOuts(y) = FitOuts(q) /\ FitAnswers(y) = FitAnswers(q)
      BY <1>7, <1>10, <1>11 DEF FitOuts, FitAnswers, Fits
    <3>3. \A k \in Clients : y.parts[k] \in Seq(GoodParts)
      <4>1. <<>> \in Seq(GoodParts) /\ \A k \in Clients : q.parts[k] \in Seq(GoodParts)
        BY <3>1 DEF Own
      <4> QED
        BY <1>5, <1>7, <1>10, <4>1
    <3> QED
      BY <1>7, <1>10, <1>11, <3>1, <3>2, <3>3 DEF Own
  <2> QED
    BY <1>1, <1>9, <2>1, <2>2 DEF CanRight
<1> QED
  BY <1>1, <1>6, <1>12, CanProcessKeeps DEF CanInv

(* A board answers what it has got. *)
LEMMA CanBoardKeeps ==
  ASSUME CanAssumption, CanInv, CanBoard
  PROVE  CanInv'
<1> DEFINE f == Head(q.bus)
           R(kind, seq) == [no |-> f.no, kind |-> kind, seq |-> seq, of |-> f.in, from |-> f.req]
           data == [k \in 1 .. f.in |-> R("data", k - 1)]
           Data(lost) == Only(data, {data[k] : k \in (1 .. f.in) \ lost})
           Kinds == {"data", "noack", "error", "opened"}
<1>1. q \in Servers /\ replies \in Seq(CanAnswers) /\ q.bus \in Seq(Outs) /\ q.bus # <<>>
  BY CanTypes DEF CanInv, CanRight, CanBoard
<1>2. f \in Outs /\ Tail(q.bus) \in Seq(Outs)
  BY <1>1
<1>3. f.no \in Nat /\ f.req \in Nat /\ f.in \in Nat /\ f.last \in BOOLEAN
  BY <1>2 DEF Outs
<1>4. /\ q' = [q EXCEPT !.bus = Tail(@)]
      /\ \/ replies' = replies
         \/ f.last /\ \E kind \in {"opened", "noack", "error"} : replies' = Append(replies, R(kind, 0))
         \/ f.last /\ \E lost \in SUBSET (1 .. f.in) : replies' = replies \o Data(lost)
  <2>1. f = Opening => f.last
    BY DEF Opening
  <2> HIDE DEF f
  <2> QED
    BY <2>1 DEF CanBoard, f
<1>5. /\ q' \in Servers /\ q'.bus = Tail(q.bus)
      /\ q'.clt = q.clt /\ q'.parts = q.parts /\ q'.reqs = q.reqs /\ q'.pending = q.pending
      /\ q'.no = q.no /\ q'.frm = q.frm /\ q'.got = q.got /\ q'.asked = q.asked
      /\ q'.log = q.log /\ q'.buf = q.buf
  BY <1>1, <1>2, <1>4 DEF Servers
<1> HIDE DEF f
<1>6. ASSUME NEW kind \in Kinds, NEW j \in Nat
      PROVE  R(kind, j) \in CanAnswers
  BY <1>3, <1>6 DEF CanAnswers
<1>7. ASSUME Own(q, replies), f.last, NEW kind \in Kinds, NEW j \in Nat
      PROVE  R(kind, j) \in FitAnswers(q)
  <2>1. f \in FitOuts(q)
    BY <1>1, <1>7 DEF Own, f
  <2>2. Fits(q, f.no, f.req, f.in)
    BY <1>7, <2>1 DEF FitOuts
  <2>3. R(kind, j) \in CanAnswers
    BY <1>6, <1>7
  <2> QED
    BY <2>2, <2>3 DEF FitAnswers
<1>8. ASSUME NEW S, \A k \in 1 .. f.in : R("data", k - 1) \in S, NEW lost
      PROVE  Data(lost) \in Seq(S)
  <2>1. data \in Seq(S)
    <3> HIDE DEF R
    <3> QED
      BY <1>3, <1>8
  <2> HIDE DEF data
  <2> QED
    BY <2>1, OnlyMembers
<1>9. \A k \in 1 .. f.in : k - 1 \in Nat
  BY <1>3
<1> HIDE DEF R, data
<1>10. replies' \in Seq(CanAnswers)
  <2>1. \A lost : Data(lost) \in Seq(CanAnswers)
    BY <1>6, <1>8, <1>9
  <2> HIDE DEF Data
  <2>2. CASE \E kind \in {"opened", "noack", "error"} : replies' = Append(replies, R(kind, 0))
    <3>1. PICK kind \in {"opened", "noack", "error"} : replies' = Append(replies, R(kind, 0))
      BY <2>2
    <3>2. R(kind, 0) \in CanAnswers
      BY <1>6
    <3> QED
      BY <1>1, <3>1, <3>2
  <2>3. CASE \E lost \in SUBSET (1 .. f.in) : replies' = replies \o Data(lost)
    BY <1>1, <2>1, <2>3
  <2> QED
    BY <1>1, <1>4, <2>2, <2>3
<1>11. ASSUME Own(q, replies)
       PROVE  /\ q'.bus \in Seq(FitOuts(q)) /\ q'.buf \in Seq(FitAnswers(q))
              /\ replies' \in Seq(FitAnswers(q))
  <2>1. q.bus \in Seq(FitOuts(q)) /\ q.buf \in Seq(FitAnswers(q)) /\ replies \in Seq(FitAnswers(q))
    BY <1>11 DEF Own
  <2>2. q'.bus \in Seq(FitOuts(q)) /\ q'.buf \in Seq(FitAnswers(q))
    BY <1>1, <1>5, <2>1
  <2>3. f.last => \A lost : Data(lost) \in Seq(FitAnswers(q))
    BY <1>7, <1>8, <1>9, <1>11
  <2> HIDE DEF Data
  <2>4. CASE replies' = replies
    BY <2>1, <2>2, <2>4
  <2>5. CASE f.last /\ \E kind \in {"opened", "noack", "error"} : replies' = Append(replies, R(kind, 0))
    <3>1. PICK kind \in {"opened", "noack", "error"} : replies' = Append(replies, R(kind, 0))
      BY <2>5
    <3>2. R(kind, 0) \in FitAnswers(q)
      BY <1>7, <1>11, <2>5
    <3> QED
      BY <2>1, <2>2, <3>1, <3>2
  <2>6. CASE f.last /\ \E lost \in SUBSET (1 .. f.in) : replies' = replies \o Data(lost)
    BY <2>1, <2>2, <2>3, <2>6
  <2> QED
    BY <1>4, <2>4, <2>5, <2>6
<1> QED
  BY <1>5, <1>10, <1>11, OnlyClock DEF CanInv

LEMMA InitCanInv ==
  ASSUME CanAssumption, CanInit
  PROVE  CanInv
<1>1. PICK link \in Links :
       q = [link |-> link, mode |-> IF link = "slcan" THEN "init" ELSE "operate",
            clt |-> [c \in Clients |-> "idle"], todo |-> [c \in Clients |-> <<>>],
            parts |-> [c \in Clients |-> <<>>], reqs |-> <<>>, pending |-> FALSE,
            processing |-> FALSE, no |-> 0, frm |-> 0, got |-> <<>>, buf |-> <<>>,
            armed |-> IF link = "slcan" THEN "set" ELSE "clear",
            bus |-> IF link = "slcan" THEN <<Opening>> ELSE <<>>,
            asked |-> 0, planned |-> 0, opens |-> 1, log |-> [c \in Clients |-> <<>>]]
  BY DEF CanInit
<1>2. link \in {"socket", "slcan"} /\ replies = <<>> /\ Ids \in Nat \ {0}
  BY DEF CanAssumption, CanInit
<1>3. Opening \in Outs
  BY <1>2 DEF Opening, Outs
<1>4. q.bus \in Seq(Outs) /\ Len(q.bus) <= 1 /\ \A i \in 1 .. Len(q.bus) : q.bus[i] = Opening
  <2> HIDE DEF Opening
  <2>1. CASE link = "slcan"
    BY <1>1, <1>3, <2>1
  <2>2. CASE link # "slcan"
    BY <1>1, <2>2
  <2> QED
    BY <2>1, <2>2
<1> DEFINE bus == IF link = "slcan" THEN <<Opening>> ELSE <<>>
<1>5. bus \in Seq(Outs)
  BY <1>1, <1>4
<1> HIDE DEF bus
<1>6. q \in Servers
  BY <1>1, <1>2, <1>5 DEF Servers, bus
<1>7. /\ q.reqs = <<>> /\ ~q.pending /\ q.buf = <<>> /\ q.frm = 0
      /\ \A c \in Clients : q.clt[c] = "idle" /\ q.parts[c] = <<>> /\ q.log[c] = <<>>
  BY <1>1
<1>8. CanQueue(q)
  BY <1>7 DEF CanQueue, ListBut
<1>9. Opening \in FitOuts(q)
  BY <1>6, OpeningFits
<1>10. Own(q, replies)
  <2>1. q.bus \in Seq(FitOuts(q))
    BY <1>4, <1>9
  <2>2. <<>> \in Seq(FitAnswers(q)) /\ <<>> \in Seq(GoodParts)
    OBVIOUS
  <2>4. \A c \in Clients : \A i \in 1 .. Len(q.log[c]) : q.log[c][i].parts \in Seq(GoodParts)
    <3> SUFFICES ASSUME NEW c \in Clients
                 PROVE  \A i \in 1 .. Len(q.log[c]) : q.log[c][i].parts \in Seq(GoodParts)
      OBVIOUS
    <3>1. q.log[c] = <<>>
      BY <1>7
    <3> QED
      BY <3>1
  <2> QED
    BY <1>2, <1>7, <2>1, <2>2, <2>4 DEF Own
<1> QED
  BY <1>2, <1>6, <1>8, <1>10 DEF CanInv, CanRight

(* In every reachable state: one request of each client that waits, in the order
   they were asked, and until the request numbers come round every frame on its
   way or in the buffer with the number of the request at the bus answers it. *)
THEOREM CanInvariance ==
  CanAssumption => (CanSpec => []CanInv)
<1> SUFFICES ASSUME CanAssumption
             PROVE  CanSpec => []CanInv
  OBVIOUS
<1>1. CanInit => CanInv
  BY InitCanInv
<1>2. CanInv /\ [CanNext]_canVars => CanInv'
  <2> SUFFICES ASSUME CanInv, [CanNext]_canVars
               PROVE  CanInv'
    OBVIOUS
  <2>1. CASE \E c \in Clients, plan \in Plans : CanRequest(c, plan)
    BY <2>1, CanRequestKeeps
  <2>2. CASE \E n \in 1 .. Len(replies) : Read(n)
    BY <2>2, ReadKeeps
  <2>3. CASE CanTimeout \/ CanBoard
    BY <2>3, CanTimeoutKeeps, CanBoardKeeps
  <2>4. CASE UNCHANGED canVars
    <3>1. q' = q /\ replies' = replies
      BY <2>4 DEF canVars
    <3> QED
      BY <3>1 DEF CanInv
  <2> QED
    BY <2>1, <2>2, <2>3, <2>4 DEF CanNext
<1> QED
  BY <1>1, <1>2, PTL DEF CanSpec

(* One request of each client that waits, and none of another. *)
LEMMA OneOfEach ==
  ASSUME CanInv
  PROVE  OnePerClient
<1>1. /\ ListBut(q, {}) /\ q.reqs \in Seq(Entries) /\ q.clt \in [Clients -> {"idle", "waits"}]
  BY CanTypes DEF CanInv, CanRight, CanQueue
<1>2. ASSUME NEW c \in Clients
      PROVE  Cardinality({i \in 1 .. Len(q.reqs) : q.reqs[i].clt = c}) =
               IF q.clt[c] = "waits" THEN 1 ELSE 0
  <2> DEFINE S == {i \in 1 .. Len(q.reqs) : q.reqs[i].clt = c}
  <2>1. CASE q.clt[c] = "waits"
    <3>1. PICK i \in 1 .. Len(q.reqs) : q.reqs[i].clt = c
      BY <1>1, <2>1 DEF ListBut
    <3>2. S = {i}
      BY <1>1, <3>1 DEF ListBut
    <3> HIDE DEF S
    <3>3. Cardinality(S) = 1
      BY <3>2, FS_Singleton
    <3> QED
      BY <2>1, <3>3 DEF S
  <2>2. CASE q.clt[c] # "waits"
    <3>1. S = {}
      BY <1>1, <2>2 DEF ListBut
    <3> HIDE DEF S
    <3>2. Cardinality(S) = 0
      BY <3>1, FS_EmptySet
    <3> QED
      BY <2>2, <3>2 DEF S
  <2> QED
    BY <2>1, <2>2
<1> QED
  BY <1>1, <1>2 DEF OnePerClient, ListBut

LEMMA OwnOfEach ==
  ASSUME CanInv, q.no <= Ids
  PROVE  OwnFrames
<1>1. q \in Servers /\ Own(q, replies)
  BY DEF CanInv, CanRight
<1>2. q.log \in [Clients -> Seq(Logged)]
  BY <1>1, CanTypes
<1> SUFFICES ASSUME NEW r \in Replies, NEW i \in 1 .. Len(r.parts), r.parts[i].how = "ack"
             PROVE  /\ \A k \in 1 .. Len(r.parts[i].got) :
                         /\ r.parts[i].got[k].from = r.parts[i].id
                         /\ r.parts[i].got[k].seq = k - 1
                    /\ Len(r.parts[i].got) = r.parts[i].got[1].of
  BY DEF OwnFrames
<1>3. PICK c \in Clients : r \in ToSet(q.log[c])
  BY DEF Replies
<1>4. PICK j \in 1 .. Len(q.log[c]) : r = q.log[c][j]
  BY <1>2, <1>3 DEF ToSet
<1>5. r.parts \in Seq(GoodParts)
  BY <1>1, <1>4 DEF Own
<1>6. r.parts[i] \in GoodParts
  BY <1>5
<1> QED
  BY <1>6 DEF GoodParts

(* subbusd_CAN: the list holds one request of each client that waits, and none of
   another, in the order in which they were asked. *)
THEOREM CanOnePerClient ==
  CanAssumption => (CanSpec => []OnePerClient)
<1>1. CanInv => OnePerClient
  BY OneOfEach
<1> QED
  BY <1>1, CanInvariance, PTL

(* subbusd_CAN: an acknowledged part of a reply is made of the frames of its own
   answer, whole and in order, as long as no request number has been used twice. *)
THEOREM CanOwnFrames ==
  CanAssumption => (CanSpec => [](q.no <= Ids => OwnFrames))
<1>1. CanInv => (q.no <= Ids => OwnFrames)
  BY OwnOfEach
<1> QED
  BY <1>1, CanInvariance, PTL
-----------------------------------------------------------------------------
(* The Modbus master.  Until a request has been given up before its answer *)
(* had come, nothing stale is about: whatever the devices are at, whatever *)
(* is on the line or has been read belongs to the pending request, and so  *)
(* does the request that waits to be written.                              *)

Work == [dev : ToSet(Devices), func : {Reads, Writes}, cur : BOOLEAN]

Parts == [part : {"head", "tail"}, dev : ToSet(Devices), func : {Reads, Writes},
          cur : BOOLEAN]
           \cup [part : {"bad"}, cur : BOOLEAN]

Stored == [for : ToSet(Devices), from : ToSet(Devices), cur : BOOLEAN]

Masters ==
  [life : {"running", "failed"}, pending : Requests \cup {NoReq}, cmds : Seq(Requests),
   cur : Nat \ {0}, to : BOOLEAN, out : Requests \cup {NoReq}, buf : Seq(Parts),
   got : Stored \cup {NoPart}, cmd : Nat, troubles : Nat, late : BOOLEAN,
   stuck : BOOLEAN]

Types == m \in Masters /\ work \subseteq Work /\ line \in Seq(Parts)

AllFresh(parts) == \A i \in 1 .. Len(parts) : parts[i].cur

(* Nothing that a master t and devices at w have to do with is stale. *)
FreshAt(t, w) ==
  ~t.late => /\ \A u \in w : u.cur
             /\ t.out # NoReq => t.out = t.pending
             /\ AllFresh(t.buf)

(* What the data stored last came from, by the master's own account. *)
OwnData(got, behind) ==
  got # NoPart => /\ got.from = got.for
                  /\ got.cur \/ behind

IInv == /\ Types /\ FreshAt(m, work)
        /\ ~m.late => AllFresh(line)
        /\ OwnData(m.got, m.late)

-----------------------------------------------------------------------------
(* What NextRequest leaves alone. *)
SameBut(n, t) ==
  /\ n.life = t.life /\ n.to = t.to /\ n.out = t.out /\ n.buf = t.buf /\ n.got = t.got
  /\ n.troubles = t.troubles /\ n.late = t.late /\ n.stuck = t.stuck /\ n.cmd = t.cmd

LEMMA NextRequestType ==
  ASSUME ModbusAssumption, NEW t \in Masters
  PROVE  NextRequest(t) \in Masters /\ SameBut(NextRequest(t), t)
<1>1. CASE t.cmds # <<>>
  <2>1. Head(t.cmds) \in Requests /\ Tail(t.cmds) \in Seq(Requests)
    BY <1>1 DEF Masters
  <2> DEFINE u == [t EXCEPT !.pending = Head(t.cmds)]
             n == [u EXCEPT !.cmds = Tail(t.cmds)]
  <2>2. u \in Masters /\ SameBut(u, t)
    BY <2>1 DEF Masters, SameBut
  <2>3. n \in Masters /\ SameBut(n, u)
    BY <2>1, <2>2 DEF Masters, SameBut
  <2>4. NextRequest(t) = n
    BY <1>1, Zenon DEF NextRequest
  <2> QED
    BY <2>2, <2>3, <2>4 DEF SameBut
<1>2. CASE t.cmds = <<>> /\ t.cur <= LastPoll
  <2>1. Poll(t.cur) \in Requests /\ t.cur + 1 \in Nat \ {0}
    <3>1. t.cur \in Nat \ {0}
      BY DEF Masters
    <3>2. t.cur \in DOMAIN Devices
      BY <1>2, <3>1 DEF LastPoll, ModbusAssumption
    <3> QED
      BY <3>1, <3>2 DEF Poll, Requests, ToSet
  <2> DEFINE u == [t EXCEPT !.pending = Poll(t.cur)]
             n == [u EXCEPT !.cur = t.cur + 1]
  <2>2. u \in Masters /\ SameBut(u, t)
    BY <2>1 DEF Masters, SameBut
  <2>3. n \in Masters /\ SameBut(n, u)
    BY <2>1, <2>2 DEF Masters, SameBut
  <2>4. NextRequest(t) = n
    BY <1>2, Zenon DEF NextRequest
  <2> QED
    BY <2>2, <2>3, <2>4 DEF SameBut
<1>3. CASE t.cmds = <<>> /\ ~(t.cur <= LastPoll)
  BY <1>3 DEF NextRequest, SameBut
<1> QED
  BY <1>1, <1>2, <1>3

LEMMA AskType ==
  ASSUME NEW w \in SUBSET Work, NEW r \in Requests, NEW cur \in BOOLEAN
  PROVE  /\ Ask(r, cur, w) \subseteq Work
         /\ (\A u \in w : u.cur) /\ cur => \A u \in Ask(r, cur, w) : u.cur
BY DEF Ask, Work, Requests, Req

(* The next request goes to a master that is as fresh as the one before. *)
LEMMA ProcessRequestsKeeps ==
  ASSUME ModbusAssumption, NEW t \in Masters, NEW w \in SUBSET Work, FreshAt(t, w),
         ProcessRequests(t, w)
  PROVE  /\ m' \in Masters /\ work' \subseteq Work /\ FreshAt(m', work')
         /\ m'.late = t.late /\ m'.got = t.got
<1> DEFINE n == NextRequest(t)
           Goal == /\ m' \in Masters /\ work' \subseteq Work /\ FreshAt(m', work')
                   /\ m'.late = t.late /\ m'.got = t.got
<1>1. n \in Masters /\ SameBut(n, t)
  BY NextRequestType
<1>2. CASE m' = t /\ work' = w
  BY <1>2
<1>3. CASE m' = [t EXCEPT !.to = FALSE] /\ work' = w
  BY <1>3 DEF Masters, FreshAt
<1> DEFINE Busy == /\ t.pending = NoReq /\ n.pending # NoReq
<1>4. CASE Busy /\ t.out # NoReq /\ m' = [n EXCEPT !.life = "failed"] /\ work' = w
  <2>1. t.late
    BY <1>4 DEF FreshAt
  <2>2. m' \in Masters /\ m'.late = t.late /\ m'.got = t.got
    BY <1>1, <1>4 DEF Masters, SameBut
  <2> QED
    BY <1>4, <2>1, <2>2 DEF FreshAt
<1>5. CASE /\ Busy /\ t.out = NoReq
           /\ m' = [n EXCEPT !.to = TRUE] /\ work' = Ask(n.pending, TRUE, w)
  <2>1. /\ m' \in Masters /\ m'.late = t.late /\ m'.got = t.got
        /\ m'.out = NoReq /\ m'.buf = t.buf
    BY <1>1, <1>5 DEF Masters, SameBut
  <2>2. n.pending \in Requests
    BY <1>1, <1>5 DEF Masters
  <2> QED
    BY <1>5, <2>1, <2>2, AskType DEF FreshAt
<1> DEFINE u == [n EXCEPT !.troubles = n.troubles + 1]
<1>6. /\ u \in Masters /\ u.pending = n.pending
      /\ u.late = t.late /\ u.got = t.got /\ u.buf = t.buf /\ u.out = t.out
  <2>1. n.troubles + 1 \in Nat
    BY <1>1 DEF Masters
  <2> HIDE DEF n
  <2> QED
    BY <1>1, <2>1 DEF Masters, SameBut
<1>7. CASE /\ Busy /\ t.out = NoReq /\ work' = w
           /\ m' = [u EXCEPT !.to = TRUE, !.out = n.pending]
  <2> DEFINE v == [u EXCEPT !.to = TRUE]
  <2>1. v \in Masters /\ v.late = t.late /\ v.got = t.got /\ v.buf = t.buf
        /\ v.pending = n.pending
    BY <1>6 DEF Masters
  <2>2. m' = [v EXCEPT !.out = n.pending]
    BY <1>7
  <2>3. /\ m' \in Masters /\ m'.late = t.late /\ m'.got = t.got /\ m'.buf = t.buf
        /\ m'.out = n.pending /\ m'.pending = n.pending
    BY <1>1, <2>1, <2>2 DEF Masters
  <2> QED
    BY <1>7, <2>3 DEF FreshAt
<1>8. CASE /\ Busy /\ t.out = NoReq /\ work' = w
           /\ m' = [u EXCEPT !.to = FALSE, !.stuck = TRUE]
  <2> DEFINE v == [u EXCEPT !.to = FALSE]
  <2>1. v \in Masters /\ v.late = t.late /\ v.got = t.got /\ v.buf = t.buf /\ v.out = t.out
    BY <1>6 DEF Masters
  <2>2. m' = [v EXCEPT !.stuck = TRUE]
    BY <1>8
  <2>3. /\ m' \in Masters /\ m'.late = t.late /\ m'.got = t.got /\ m'.buf = t.buf
        /\ m'.out = NoReq
    BY <1>8, <2>1, <2>2 DEF Masters
  <2> QED
    BY <1>8, <2>3 DEF FreshAt
<1> QED
  BY <1>2, <1>3, <1>4, <1>5, <1>7, <1>8, Zenon DEF ProcessRequests

LEMMA ForgetType ==
  ASSUME NEW w \in SUBSET Work
  PROVE  Forget(w) \subseteq Work /\ (Forget(w) = {} <=> w = {})
BY DEF Forget, Work

(* A request is disposed of while nothing stale is about unless an answer to it
   may still come; then the master is late from now on. *)
LEMMA DisposeAndGoOnKeeps ==
  ASSUME ModbusAssumption, NEW t \in Masters, work \subseteq Work, FreshAt(t, work),
         NEW rest \in Seq(Parts), ~t.late => AllFresh(rest),
         OwnData(t.got, t.late), DisposeAndGoOn(t, rest)
  PROVE  IInv'
<1> DEFINE awaited == (\E u \in work \cup ToSet(rest) : u.cur) \/ t.out = t.pending
           a == [t EXCEPT !.pending = NoReq]
           b == [a EXCEPT !.buf = <<>>]
           c == [b EXCEPT !.late = t.late \/ awaited]
<1>1. awaited \in BOOLEAN
  OBVIOUS
<1> HIDE DEF awaited
<1>2. a \in Masters /\ a.late = t.late /\ a.got = t.got /\ a.out = t.out /\ a.pending = NoReq
  BY DEF Masters
<1>3. /\ b \in Masters /\ b.late = t.late /\ b.got = t.got /\ b.out = t.out
      /\ b.pending = NoReq /\ b.buf = <<>>
  <2>1. <<>> \in Seq(Parts)
    OBVIOUS
  <2> HIDE DEF a
  <2> QED
    BY <1>2, <2>1 DEF Masters
<1>4. /\ c \in Masters /\ c.late = (t.late \/ awaited) /\ c.got = t.got /\ c.out = t.out
      /\ c.pending = NoReq /\ c.buf = <<>>
  BY <1>1, <1>3 DEF Masters
<1>5. ProcessRequests(c, Forget(work))
  BY Zenon DEF DisposeAndGoOn, awaited
<1>6. line' = [i \in 1 .. Len(rest) |-> [rest[i] EXCEPT !.cur = FALSE]]
  BY DEF DisposeAndGoOn
<1>7. ASSUME ~c.late PROVE work = {} /\ rest = <<>> /\ t.out = NoReq
  <2>1. ~t.late /\ ~awaited
    BY <1>4, <1>7
  <2>2. \A u \in work : u.cur /\ FALSE
    BY <2>1 DEF FreshAt, awaited
  <2>3. \A i \in 1 .. Len(rest) : rest[i].cur /\ rest[i] \in ToSet(rest)
    BY <2>1 DEF AllFresh, ToSet
  <2>4. Len(rest) = 0
    BY <2>1, <2>3 DEF awaited
  <2>5. t.out = NoReq
    BY <2>1 DEF FreshAt, awaited
  <2> QED
    BY <2>2, <2>4, <2>5
<1>8. FreshAt(c, Forget(work))
  BY <1>4, <1>7, ForgetType DEF FreshAt, AllFresh
<1>9. /\ m' \in Masters /\ work' \subseteq Work /\ FreshAt(m', work')
      /\ m'.late = c.late /\ m'.got = c.got
  BY <1>4, <1>5, <1>8, ForgetType, ProcessRequestsKeeps
<1>10. line' \in Seq(Parts) /\ Len(line') = Len(rest)
  <2>1. Len(rest) \in Nat
    OBVIOUS
  <2>2. \A i \in 1 .. Len(rest) : [rest[i] EXCEPT !.cur = FALSE] \in Parts
    <3> SUFFICES ASSUME NEW i \in 1 .. Len(rest) PROVE [rest[i] EXCEPT !.cur = FALSE] \in Parts
      OBVIOUS
    <3>1. rest[i] \in Parts
      OBVIOUS
    <3> QED
      BY <3>1 DEF Parts
  <2>3. line' \in [1 .. Len(rest) -> Parts]
    BY <1>6, <2>2
  <2> QED
    BY <2>1, <2>3, SeqDef, LenProperties
<1>11. ~m'.late => AllFresh(line')
  BY <1>4, <1>7, <1>9, <1>10 DEF AllFresh
<1>12. OwnData(m'.got, m'.late)
  BY <1>4, <1>9 DEF OwnData
<1> QED
  BY <1>9, <1>10, <1>11, <1>12 DEF IInv, Types

LEMMA TimeoutKeeps ==
  ASSUME ModbusAssumption, IInv, Timeout
  PROVE  IInv'
BY DisposeAndGoOnKeeps DEF Timeout, IInv, Types

LEMMA TmSyncKeeps ==
  ASSUME ModbusAssumption, IInv, TmSync
  PROVE  IInv'
<1> DEFINE t == [m EXCEPT !.cur = IF m.cur > LastPoll THEN 1 ELSE m.cur]
<1>1. /\ t \in Masters /\ t.late = m.late /\ t.got = m.got /\ t.out = m.out
      /\ t.pending = m.pending /\ t.buf = m.buf
  <2>1. (IF m.cur > LastPoll THEN 1 ELSE m.cur) \in Nat \ {0}
    BY DEF IInv, Types, Masters
  <2>2. m \in Masters
    BY DEF IInv, Types
  <2> QED
    BY <2>1, <2>2 DEF Masters
<1>2. ProcessRequests(t, work) /\ line' = line
  BY Zenon DEF TmSync
<1>3. /\ m' \in Masters /\ work' \subseteq Work /\ FreshAt(m', work')
      /\ m'.late = t.late /\ m'.got = t.got
  BY <1>1, <1>2, ProcessRequestsKeeps DEF IInv, Types, FreshAt
<1> QED
  BY <1>1, <1>2, <1>3 DEF IInv, Types

LEMMA CommandKeeps ==
  ASSUME ModbusAssumption, IInv, Command
  PROVE  IInv'
<1>1. PICK d \in ToSet(Devices) :
        m' = [m EXCEPT !.cmds = Append(m.cmds, Req(d, Writes)), !.cmd = m.cmd + 1]
  BY DEF Command
<1> DEFINE t == [m EXCEPT !.cmds = Append(m.cmds, Req(d, Writes))]
<1>2. Append(m.cmds, Req(d, Writes)) \in Seq(Requests)
  BY DEF Requests, IInv, Types, Masters
<1>3. /\ t \in Masters /\ t.late = m.late /\ t.got = m.got /\ t.out = m.out
      /\ t.pending = m.pending /\ t.buf = m.buf
  BY <1>2 DEF IInv, Types, Masters
<1>4. m' = [t EXCEPT !.cmd = t.cmd + 1]
  BY <1>1, <1>3 DEF IInv, Types, Masters
<1>5. /\ m' \in Masters /\ m'.late = m.late /\ m'.got = m.got /\ m'.out = m.out
      /\ m'.pending = m.pending /\ m'.buf = m.buf
  <2>1. t.cmd + 1 \in Nat
    BY <1>3 DEF Masters
  <2> HIDE DEF t
  <2> QED
    BY <1>3, <1>4, <2>1 DEF Masters
<1> QED
  BY <1>5 DEF Command, IInv, Types, FreshAt

LEMMA LineDrainKeeps ==
  ASSUME ModbusAssumption, IInv, Drain
  PROVE  IInv'
<1>1. /\ m' \in Masters /\ m'.late = m.late /\ m'.got = m.got /\ m'.out = NoReq
      /\ m'.pending = m.pending /\ m'.buf = m.buf
  BY DEF Drain, IInv, Types, Masters
<1>2. m.out \in Requests /\ line' = line
  BY DEF Drain, IInv, Types, Masters
<1>3. work' \subseteq Work /\ (~m.late => \A u \in work' : u.cur)
  <2>1. CASE work' = Ask(m.out, m.pending = m.out, work)
    <3>1. work \in SUBSET Work /\ (m.pending = m.out) \in BOOLEAN
      BY DEF IInv, Types
    <3>2. ~m.late => (\A u \in work : u.cur) /\ m.pending = m.out
      BY <1>2 DEF IInv, FreshAt, Drain
    <3> QED
      BY <1>2, <2>1, <3>1, <3>2, AskType
  <2>2. CASE m.pending # m.out /\ work' = work
    BY <2>2 DEF IInv, Types, FreshAt
  <2> QED
    BY <2>1, <2>2 DEF Drain
<1> QED
  BY <1>1, <1>2, <1>3 DEF IInv, Types, FreshAt

LEMMA DeviceKeeps ==
  ASSUME ModbusAssumption, IInv, Device
  PROVE  IInv'
<1>1. PICK w \in work :
        LET part(half) == [part |-> half, dev |-> w.dev, func |-> w.func, cur |-> w.cur]
            bad == [part |-> "bad", cur |-> w.cur]
        IN /\ work' = work \ {w}
           /\ \E parts \in {<<part("head"), part("tail")>>, <<part("head")>>, <<bad>>, <<>>} :
                line' = line \o parts
  BY DEF Device
<1> DEFINE head == [part |-> "head", dev |-> w.dev, func |-> w.func, cur |-> w.cur]
           tail == [part |-> "tail", dev |-> w.dev, func |-> w.func, cur |-> w.cur]
           bad == [part |-> "bad", cur |-> w.cur]
<1>2. PICK parts \in {<<head, tail>>, <<head>>, <<bad>>, <<>>} : line' = line \o parts
  BY <1>1
<1>3. head \in Parts /\ tail \in Parts /\ bad \in Parts
  BY DEF IInv, Types, Work, Parts
<1>4. head.cur = w.cur /\ tail.cur = w.cur /\ bad.cur = w.cur
  OBVIOUS
<1> HIDE DEF head, tail, bad
<1>5. parts \in Seq(Parts) /\ \A i \in 1 .. Len(parts) : parts[i].cur = w.cur
  <2>1. CASE parts = <<head, tail>>
    BY <1>3, <1>4, <2>1
  <2>2. CASE parts = <<head>>
    BY <1>3, <1>4, <2>2
  <2>3. CASE parts = <<bad>>
    BY <1>3, <1>4, <2>3
  <2>4. CASE parts = <<>>
    BY <2>4
  <2> QED
    BY <2>1, <2>2, <2>3, <2>4
<1>6. line \in Seq(Parts) /\ m' = m
  BY DEF IInv, Types, Device
<1>7. line' \in Seq(Parts)
  BY <1>2, <1>5, <1>6
<1>8. ~m.late => AllFresh(line')
  <2> SUFFICES ASSUME ~m.late, NEW i \in 1 .. Len(line') PROVE line'[i].cur
    BY DEF AllFresh
  <2>1. w.cur
    BY DEF IInv, FreshAt
  <2>2. line'[i] = IF i <= Len(line) THEN line[i] ELSE parts[i - Len(line)]
    BY <1>2, <1>5, <1>6
  <2>3. Len(line') = Len(line) + Len(parts) /\ Len(line) \in Nat /\ Len(parts) \in Nat
    BY <1>2, <1>5, <1>6
  <2>4. CASE i <= Len(line)
    BY <2>2, <2>4 DEF IInv, AllFresh
  <2>5. CASE ~(i <= Len(line))
    <3>1. i - Len(line) \in 1 .. Len(parts)
      BY <2>3, <2>5
    <3> QED
      BY <1>5, <2>1, <2>2, <2>5, <3>1
  <2> QED
    BY <2>4, <2>5
<1> QED
  BY <1>1, <1>6, <1>7, <1>8 DEF IInv, Types, FreshAt

(* What a read has brought, as far as the reply of the pending request goes. *)
LEMMA ProtocolInputKeeps ==
  ASSUME ModbusAssumption, IInv, Running, NEW buf \in Seq(Parts), NEW rest \in Seq(Parts),
         ~m.late => AllFresh(buf) /\ AllFresh(rest), ProtocolInput(buf, rest)
  PROVE  IInv'
<1>1. CASE m.pending = NoReq
  <2> DEFINE t == [m EXCEPT !.buf = <<>>]
  <2>1. <<>> \in Seq(Parts) /\ m \in Masters
    BY DEF IInv, Types
  <2>2. /\ t \in Masters /\ t.late = m.late /\ t.got = m.got /\ t.out = m.out
        /\ t.pending = m.pending /\ t.buf = <<>>
    BY <2>1 DEF Masters
  <2>3. ProcessRequests(t, work) /\ line' = rest
    BY <1>1, Zenon DEF ProtocolInput
  <2>4. FreshAt(t, work)
    BY <2>2 DEF IInv, FreshAt, AllFresh
  <2>5. /\ m' \in Masters /\ work' \subseteq Work /\ FreshAt(m', work')
        /\ m'.late = t.late /\ m'.got = t.got
    BY <2>2, <2>3, <2>4, ProcessRequestsKeeps DEF IInv, Types
  <2> QED
    BY <2>2, <2>3, <2>5 DEF IInv, Types
<1>2. CASE m.pending # NoReq /\ m' = [m EXCEPT !.buf = buf] /\ line' = rest /\ work' = work
  <2>1. m \in Masters
    BY DEF IInv, Types
  <2>2. /\ m' \in Masters /\ m'.late = m.late /\ m'.got = m.got /\ m'.out = m.out
        /\ m'.pending = m.pending /\ m'.buf = buf
    BY <1>2, <2>1 DEF Masters
  <2> QED
    BY <1>2, <2>2 DEF IInv, Types, FreshAt
<1> DEFINE stores == Len(buf) > 1 /\ Matches(buf) /\ m.pending.func = Reads
           new == [for |-> m.pending.dev, from |-> buf[1].dev, cur |-> buf[1].cur]
           t == IF stores THEN [m EXCEPT !.got = new] ELSE m
<1>3. CASE m.pending # NoReq /\ DisposeAndGoOn(t, rest)
  <2>1. m \in Masters /\ m.pending \in Requests
    BY <1>3 DEF IInv, Types, Masters
  <2>2. ASSUME stores PROVE new \in Stored /\ OwnData(new, m.late)
    <3>1. buf[1] \in Parts /\ buf[1].part = "head" /\ buf[1].dev = m.pending.dev
      BY <2>2 DEF Matches
    <3>2. buf[1].dev \in ToSet(Devices) /\ buf[1].cur \in BOOLEAN
      BY <3>1 DEF Parts
    <3>3. buf[1].cur \/ m.late
      BY <2>2 DEF AllFresh, IInv, Types, Masters
    <3> QED
      BY <3>1, <3>2, <3>3 DEF Stored, OwnData
  <2> HIDE DEF stores, new
  <2>3. /\ t \in Masters /\ t.late = m.late /\ t.out = m.out /\ t.pending = m.pending
        /\ t.buf = m.buf /\ t.got = IF stores THEN new ELSE m.got
    BY <2>1, <2>2 DEF Masters
  <2>4. OwnData(t.got, t.late) /\ FreshAt(t, work)
    BY <2>2, <2>3 DEF IInv, FreshAt
  <2> QED
    BY <1>3, <2>3, <2>4, DisposeAndGoOnKeeps DEF IInv, Types
<1> QED
  BY <1>1, <1>2, <1>3, Zenon DEF ProtocolInput

LEMMA LineInputKeeps ==
  ASSUME ModbusAssumption, IInv, Input
  PROVE  IInv'
<1>1. PICK n \in 1 .. Len(line) :
        ProtocolInput(m.buf \o SubSeq(line, 1, n), SubSeq(line, n + 1, Len(line)))
  BY DEF Input
<1> DEFINE taken == SubSeq(line, 1, n)
           rest == SubSeq(line, n + 1, Len(line))
           buf == m.buf \o taken
<1>2. m.buf \in Seq(Parts) /\ line \in Seq(Parts) /\ Len(line) \in Nat
  BY DEF IInv, Types, Masters
<1>3. /\ taken \in Seq(Parts) /\ rest \in Seq(Parts) /\ buf \in Seq(Parts)
  BY <1>2
<1>4. ~m.late => AllFresh(taken) /\ AllFresh(rest)
  BY <1>2 DEF IInv, AllFresh
<1> HIDE DEF taken
<1>5. ~m.late => AllFresh(buf)
  <2> SUFFICES ASSUME ~m.late, NEW i \in 1 .. Len(buf) PROVE buf[i].cur
    BY DEF AllFresh
  <2>1. /\ Len(buf) = Len(m.buf) + Len(taken) /\ Len(m.buf) \in Nat /\ Len(taken) \in Nat
        /\ buf[i] = IF i <= Len(m.buf) THEN m.buf[i] ELSE taken[i - Len(m.buf)]
    BY <1>2, <1>3
  <2>2. CASE i <= Len(m.buf)
    BY <2>1, <2>2 DEF IInv, FreshAt, AllFresh
  <2>3. CASE ~(i <= Len(m.buf))
    <3>1. i - Len(m.buf) \in 1 .. Len(taken)
      BY <2>1, <2>3
    <3> QED
      BY <1>4, <2>1, <2>3, <3>1 DEF AllFresh
  <2> QED
    BY <2>2, <2>3
<1> HIDE DEF buf, rest
<1>6. ProtocolInput(buf, rest) /\ Running
  BY <1>1 DEF Input, buf, rest, taken
<1> QED
  BY <1>3, <1>4, <1>5, <1>6, ProtocolInputKeeps

LEMMA InitIInv ==
  ASSUME ModbusAssumption, Init
  PROVE  IInv
<1>1. /\ <<>> \in Seq(Requests) /\ <<>> \in Seq(Parts)
      /\ Len(<<>>) = 0
  OBVIOUS
<1>2. m \in Masters /\ m.out = NoReq /\ m.got = NoPart /\ m.buf = <<>>
  BY <1>1 DEF Init, Masters
<1> QED
  BY <1>1, <1>2 DEF Init, IInv, Types, FreshAt, AllFresh, OwnData

LEMMA NextIInv ==
  ASSUME ModbusAssumption, IInv, [Next]_mbvars
  PROVE  IInv'
<1>1. CASE UNCHANGED mbvars
  BY <1>1 DEF mbvars, IInv, Types, FreshAt, AllFresh
<1> QED
  BY <1>1, LineInputKeeps, TimeoutKeeps, TmSyncKeeps, CommandKeeps, LineDrainKeeps, DeviceKeeps
     DEF Next

(* The invariant holds for any devices, however many answers, commands and
   troubles there are (modbus_rtu.cc:38-161, 222-246). *)
THEOREM FreshnessInvariance == ModbusAssumption => (Spec => []IInv)
<1> SUFFICES ASSUME ModbusAssumption PROVE Spec => []IInv
  OBVIOUS
<1>1. Init => IInv
  BY InitIInv
<1>2. IInv /\ [Next]_mbvars => IInv'
  BY NextIInv
<1> QED BY <1>1, <1>2, PTL DEF Spec

(* The data of a device come from an answer of its own, and from the answer to
   the pending request unless one was given up before its answer had come
   (modbus_rtu.cc:38-86, 136-146). *)
THEOREM DataStayOwn == ModbusAssumption => (Spec => []DataOwn)
<1> SUFFICES ASSUME ModbusAssumption PROVE Spec => []DataOwn
  OBVIOUS
<1>1. IInv => DataOwn
  BY DEF IInv, OwnData, DataOwn
<1>2. Spec => []IInv
  BY FreshnessInvariance
<1> QED BY <1>1, <1>2, PTL
=============================================================================
