--------------------------- MODULE ServicesProofs ---------------------------
(***************************************************************************)
(* Proofs about the programs around the telemetry: the command server, the *)
(* parent of the processes of an experiment, a driver and the collector of *)
(* its data, and the logger.  For each, the operators keep an invariant of *)
(* the program's record, the actions keep the invariant of the             *)
(* specification, and the properties follow.                               *)
(***************************************************************************)
EXTENDS CmdServer, Parent, Datum, Logger, ListsProofs, FiniteSetTheorems, SequenceTheorems
-----------------------------------------------------------------------------
(* The command server. *)

Kinds == {"blank", "command", "close"}

Entries == [id : Nat, ref_count : Nat, kind : Kinds, num : Nat]

Turfs == [next : Nat, written : BOOLEAN, out : BOOLEAN, closing : BOOLEAN, from : Nat]

Interfaces ==
  [list : Seq(Entries), turfs : Seq(Drivers), turf : [Drivers -> Turfs],
   sock : [Drivers -> Nat], log : [Drivers -> Seq(Nat)], issued : Nat]

At(s, id) == {t \in ToSet(s.turfs) : s.turf[t].next = id}

(* The commands are numbered one by one, and the last one is to be filled in. *)
ListRight(s) ==
  LET l == s.list
  IN /\ Len(l) # 0 /\ l[1].id # 0 /\ l[Len(l)].kind # "command"
     /\ \A i \in 1 .. Len(l) : l[i].id = l[1].id + (i - 1)
     /\ \A i \in 1 .. Len(l) - 1 :
          l[i + 1].num = IF l[i + 1].kind = "command" THEN l[i].num + 1 ELSE l[i].num

(* Each command counts the drivers at it. *)
Counted(s) ==
  \A i \in 1 .. Len(s.list) : s.list[i].ref_count >= Cardinality(At(s, s.list[i].id))

(* A driver that is at e has been given the commands up to it. *)
GivenTo(l, e, written) ==
  l # <<>> => e.num = IF e.kind = "command" /\ ~written THEN l[Len(l)] + 1 ELSE l[Len(l)]

Placed(s, t) ==
  \E i \in 1 .. Len(s.list) :
    /\ s.turf[t].next = s.list[i].id
    /\ s.turf[t].written => i < Len(s.list)
    /\ GivenTo(s.log[t], s.list[i], s.turf[t].written)

Ordered(l) == \A k \in 1 .. Len(l) - 1 : l[k + 1] = l[k] + 1

Settled(s) ==
  \A t \in Drivers : /\ Ordered(s.log[t])
                     /\ s.turf[t].next = 0 => ~s.turf[t].written /\ s.log[t] = <<>>

CmdRight(s) ==
  /\ s \in Interfaces /\ ListRight(s) /\ Counted(s)
  /\ \A t \in ToSet(s.turfs) : Placed(s, t)
  /\ Settled(s)

(* What the parts of a handler do to the interface, apart from the counts. *)
SameCommands(l, k) ==
  /\ Len(l) = Len(k)
  /\ \A j \in 1 .. Len(k) : l[j].id = k[j].id /\ l[j].kind = k[j].kind /\ l[j].num = k[j].num

OthersStay(y, s, t) ==
  \A u \in Drivers : u # t => y.turf[u] = s.turf[u] /\ y.log[u] = s.log[u]

Advanced(y, s, t) ==
  /\ SameCommands(y.list, s.list) /\ y.log = s.log /\ y.issued = s.issued
  /\ OthersStay(y, s, t)
  /\ y.turf[t].closing = s.turf[t].closing /\ y.turf[t].from = s.turf[t].from
  /\ \E i \in 1 .. Len(s.list) - 1 : /\ s.turf[t].next = s.list[i].id
                                    /\ y.turf[t].next = s.list[i + 1].id

Issued(y, s, t) ==
  /\ y.list = s.list /\ y.issued = s.issued /\ OthersStay(y, s, t)
  /\ y.turf[t].next = s.turf[t].next /\ y.turf[t].from = s.turf[t].from /\ y.turf[t].written
  /\ \E i \in 1 .. Len(s.list) - 1 :
       /\ s.turf[t].next = s.list[i].id
       /\ \/ /\ s.list[i].kind = "command"
             /\ y.turf[t].closing = s.turf[t].closing
             /\ y.log[t] = Append(s.log[t], s.list[i].num)
          \/ /\ s.list[i].kind # "command"
             /\ y.turf[t].closing /\ y.log = s.log

FilledIn(y, s, kind) ==
  LET n == Len(s.list)
  IN /\ Len(y.list) = n + 1 /\ y.turf = s.turf /\ y.log = s.log /\ y.issued = s.issued
     /\ \A j \in 1 .. n : y.list[j].id = s.list[j].id
     /\ \A j \in 1 .. n - 1 : y.list[j] = s.list[j]
     /\ y.list[n].kind = kind
     /\ y.list[n].num = IF kind = "command" THEN s.list[n].num + 1 ELSE s.list[n].num
     /\ y.list[n + 1].kind = "blank" /\ y.list[n + 1].num = y.list[n].num

CleanedOutOf(y, s) ==
  /\ y.turf = s.turf /\ y.log = s.log /\ y.issued = s.issued
  /\ \E keep \in 1 .. Len(s.list) :
       /\ Len(y.list) = Len(s.list) - keep + 1
       /\ \A j \in 1 .. Len(y.list) : y.list[j] = s.list[j + (keep - 1)]

Deleted(y, s, T) ==
  /\ y.list = s.list /\ y.log = s.log /\ y.issued = s.issued
  /\ ToSet(y.turfs) = ToSet(s.turfs) \ T
  /\ \A t \in Drivers : IF t \notin T THEN y.turf[t] = s.turf[t]
                         ELSE ~y.turf[t].closing /\ y.turf[t].next = s.turf[t].next

LEMMA CmdTypes ==
  ASSUME NEW s \in Interfaces
  PROVE  /\ s.list \in Seq(Entries) /\ s.turfs \in Seq(Drivers) /\ s.turf \in [Drivers -> Turfs]
         /\ s.sock \in [Drivers -> Nat] /\ s.log \in [Drivers -> Seq(Nat)] /\ s.issued \in Nat
BY DEF Interfaces

LEMMA TurfTypes ==
  ASSUME NEW s \in Interfaces, NEW t \in Drivers
  PROVE  /\ s.turf[t] \in Turfs /\ s.turf[t].next \in Nat /\ s.turf[t].written \in BOOLEAN
         /\ s.turf[t].out \in BOOLEAN /\ s.turf[t].closing \in BOOLEAN
         /\ s.sock[t] \in Nat /\ s.log[t] \in Seq(Nat)
<1>1. s.turf[t] \in Turfs /\ s.sock[t] \in Nat /\ s.log[t] \in Seq(Nat)
  BY CmdTypes
<1> QED
  BY <1>1 DEF Turfs

LEMMA EntryTypes ==
  ASSUME NEW l \in Seq(Entries), NEW i \in 1 .. Len(l)
  PROVE  /\ l[i] \in Entries /\ l[i].id \in Nat /\ l[i].ref_count \in Nat
         /\ l[i].kind \in Kinds /\ l[i].num \in Nat
<1>1. l[i] \in Entries
  OBVIOUS
<1> QED
  BY <1>1 DEF Entries

LEMMA ConnectedTypes ==
  ASSUME NEW s \in Interfaces, NEW t \in ToSet(s.turfs)
  PROVE  t \in Drivers
BY CmdTypes DEF ToSet

(* A driver is at one place. *)
LEMMA PlaceIs ==
  ASSUME NEW s \in Interfaces, ListRight(s), NEW t, NEW i \in 1 .. Len(s.list),
         s.turf[t].next = s.list[i].id
  PROVE  Place(s, t) = i
<1>1. \A j \in 1 .. Len(s.list) : s.list[j].id = s.list[1].id + (j - 1)
  BY DEF ListRight
<1>2. s.list \in Seq(Entries) /\ 1 \in 1 .. Len(s.list)
  BY CmdTypes DEF ListRight
<1>3. s.list[1].id \in Nat
  BY <1>2, EntryTypes
<1>4. \A j \in 1 .. Len(s.list) : s.list[j].id = s.turf[t].next => j = i
  BY <1>1, <1>3
<1> QED
  BY <1>4 DEF Place

LEMMA AtFinite ==
  ASSUME CmdAssumption, NEW s \in Interfaces, NEW id
  PROVE  /\ IsFiniteSet(At(s, id)) /\ Cardinality(At(s, id)) \in Nat
         /\ At(s, id) \subseteq Drivers
<1>1. At(s, id) \subseteq Drivers
  BY ConnectedTypes DEF At
<1>2. IsFiniteSet(Drivers)
  BY DEF CmdAssumption
<1> QED
  BY <1>1, <1>2, FS_Subset, FS_CardinalityType

(* The command a driver is at counts at least that driver. *)
LEMMA CountedSome ==
  ASSUME CmdAssumption, NEW s \in Interfaces, Counted(s), NEW t \in ToSet(s.turfs),
         NEW i \in 1 .. Len(s.list), s.turf[t].next = s.list[i].id
  PROVE  s.list[i].ref_count # 0
<1> DEFINE S == At(s, s.list[i].id)
<1>1. t \in S /\ IsFiniteSet(S) /\ Cardinality(S) \in Nat
  BY AtFinite DEF At
<1> HIDE DEF S
<1>2. Cardinality(S) # 0
  BY <1>1, FS_EmptySet
<1> QED
  BY <1>1, <1>2 DEF Counted, S

(* One driver moves from a place to the next one. *)
LEMMA MovedAt ==
  ASSUME CmdAssumption, NEW s \in Interfaces, NEW y \in Interfaces, y.turfs = s.turfs,
         NEW t \in ToSet(s.turfs), NEW from, NEW to, from # to, s.turf[t].next = from,
         y.turf[t].next = to, \A u \in Drivers : u # t => y.turf[u].next = s.turf[u].next,
         NEW id
  PROVE  Cardinality(At(y, id)) = IF id = from THEN Cardinality(At(s, id)) - 1
                                  ELSE IF id = to THEN Cardinality(At(s, id)) + 1
                                  ELSE Cardinality(At(s, id))
<1>1. IsFiniteSet(At(s, id))
  BY AtFinite
<1>2. \A u \in ToSet(s.turfs) : u \in Drivers
  BY ConnectedTypes
<1>3. CASE id = from
  <2>1. At(y, id) = At(s, id) \ {t} /\ t \in At(s, id)
    BY <1>2, <1>3 DEF At
  <2> QED
    BY <1>1, <1>3, <2>1, FS_RemoveElement
<1>4. CASE id = to
  <2>1. At(y, id) = At(s, id) \cup {t} /\ t \notin At(s, id)
    BY <1>2, <1>4 DEF At
  <2>2. Cardinality(At(s, id) \cup {t}) = Cardinality(At(s, id)) + 1
    BY <1>1, <2>1, FS_AddElement
  <2> QED
    BY <1>4, <2>1, <2>2
<1>5. CASE id # from /\ id # to
  <2>1. At(y, id) = At(s, id)
    BY <1>2, <1>5 DEF At
  <2> QED
    BY <1>5, <2>1
<1> QED
  BY <1>3, <1>4, <1>5

(* On to the next command. *)
LEMMA AdvanceKeeps ==
  ASSUME CmdAssumption, NEW s, CmdRight(s), NEW t \in ToSet(s.turfs), s.turf[t].written,
         NEW y, y = Advance(s, t)
  PROVE  /\ CmdRight(y) /\ y.turfs = s.turfs /\ ~y.turf[t].written
         /\ y.turf[t].out = s.turf[t].out /\ Advanced(y, s, t)
<1>1. /\ s \in Interfaces /\ ListRight(s) /\ Counted(s) /\ t \in Drivers
      /\ \A u \in ToSet(s.turfs) : Placed(s, u)
  BY ConnectedTypes DEF CmdRight
<1>2. PICK i \in 1 .. Len(s.list) :
        /\ s.turf[t].next = s.list[i].id /\ i < Len(s.list)
        /\ GivenTo(s.log[t], s.list[i], TRUE)
  BY <1>1 DEF Placed
<1>3. Place(s, t) = i
  BY <1>1, <1>2, PlaceIs
<1>4. /\ s.list \in Seq(Entries) /\ s.turf \in [Drivers -> Turfs]
      /\ i + 1 \in 1 .. Len(s.list) /\ i # i + 1 /\ Len(s.list) \in Nat
  BY <1>1, <1>2, CmdTypes
<1>5. s.list[i].ref_count # 0
  BY <1>1, <1>2, CountedSome
<1> DEFINE l == s.list
           e1 == [l[i] EXCEPT !.ref_count = @ - 1]
           e2 == [l[i + 1] EXCEPT !.ref_count = @ + 1]
           l1 == [l EXCEPT ![i] = e1]
           l2 == [l1 EXCEPT ![i + 1] = e2]
           tf == [s.turf EXCEPT ![t] = [@ EXCEPT !.next = l[i + 1].id, !.written = FALSE]]
<1>6. /\ e1 \in Entries /\ e1.ref_count = l[i].ref_count - 1 /\ e1.id = l[i].id
      /\ e1.kind = l[i].kind /\ e1.num = l[i].num
  <2>1. l[i] \in Entries /\ l[i].ref_count - 1 \in Nat
    BY <1>4, <1>5, EntryTypes
  <2> QED
    BY <2>1 DEF Entries
<1>7. /\ e2 \in Entries /\ e2.ref_count = l[i + 1].ref_count + 1 /\ e2.id = l[i + 1].id
      /\ e2.kind = l[i + 1].kind /\ e2.num = l[i + 1].num
  <2>1. l[i + 1] \in Entries /\ l[i + 1].ref_count + 1 \in Nat
    BY <1>4, EntryTypes
  <2> QED
    BY <2>1 DEF Entries
<1>8. /\ y.list = l2 /\ y.turf = tf
      /\ y = [list |-> y.list, turfs |-> s.turfs, turf |-> y.turf, sock |-> s.sock,
              log |-> s.log, issued |-> s.issued]
  <2>1. y = [s EXCEPT !.list[i].ref_count = @ - 1, !.list[i + 1].ref_count = @ + 1,
                      !.turf[t].next = s.list[i + 1].id, !.turf[t].written = FALSE]
    BY <1>3 DEF Advance
  <2>2. l1 = [l EXCEPT ![i].ref_count = @ - 1] /\ l1[i + 1] = l[i + 1]
    BY <1>4
  <2>3. l2 = [[l EXCEPT ![i].ref_count = @ - 1] EXCEPT ![i + 1].ref_count = @ + 1]
    <3> HIDE DEF l1
    <3> QED
      BY <2>2
  <2>4. tf = [[s.turf EXCEPT ![t].next = l[i + 1].id] EXCEPT ![t].written = FALSE]
    BY <1>1, <1>4
  <2>5. s = [list |-> s.list, turfs |-> s.turfs, turf |-> s.turf, sock |-> s.sock,
             log |-> s.log, issued |-> s.issued]
    BY <1>1 DEF Interfaces
  <2>6. y.list = [[l EXCEPT ![i].ref_count = @ - 1] EXCEPT ![i + 1].ref_count = @ + 1]
    BY <2>1, <2>5
  <2>7. y.turf = [[s.turf EXCEPT ![t].next = l[i + 1].id] EXCEPT ![t].written = FALSE]
    BY <2>1, <2>5
  <2>8. y = [list |-> y.list, turfs |-> s.turfs, turf |-> y.turf, sock |-> s.sock,
             log |-> s.log, issued |-> s.issued]
    BY <2>1, <2>5
  <2> HIDE DEF l2, tf
  <2> QED
    BY <2>3, <2>4, <2>6, <2>7, <2>8
<1> HIDE DEF e1, e2
<1>9. /\ l1 \in Seq(Entries) /\ Len(l1) = Len(l)
      /\ \A j \in 1 .. Len(l) : l1[j] = IF j = i THEN e1 ELSE l[j]
  BY <1>4, <1>6, ExceptSeq
<1> HIDE DEF l1
<1>10. /\ l2 \in Seq(Entries) /\ Len(l2) = Len(l)
       /\ \A j \in 1 .. Len(l) : l2[j] = IF j = i + 1 THEN e2 ELSE l1[j]
  BY <1>4, <1>7, <1>9, ExceptSeq
<1> HIDE DEF l2
<1>11. \A j \in 1 .. Len(l) :
         /\ l2[j].id = l[j].id /\ l2[j].kind = l[j].kind /\ l2[j].num = l[j].num
         /\ l2[j].ref_count = IF j = i THEN l[j].ref_count - 1
                              ELSE IF j = i + 1 THEN l[j].ref_count + 1 ELSE l[j].ref_count
  BY <1>4, <1>6, <1>7, <1>9, <1>10
<1>12. /\ tf \in [Drivers -> Turfs] /\ tf[t].next = l[i + 1].id /\ tf[t].written = FALSE
       /\ tf[t].out = s.turf[t].out /\ tf[t].closing = s.turf[t].closing
       /\ tf[t].from = s.turf[t].from
       /\ \A u \in Drivers : u # t => tf[u] = s.turf[u]
  <2>1. s.turf[t] \in Turfs /\ l[i + 1].id \in Nat
    BY <1>1, <1>4, TurfTypes, EntryTypes
  <2>2. [s.turf[t] EXCEPT !.next = l[i + 1].id, !.written = FALSE] \in Turfs
    BY <2>1 DEF Turfs
  <2> QED
    BY <1>1, <1>4, <2>1, <2>2 DEF Turfs
<1> HIDE DEF tf
<1>13. /\ y \in Interfaces /\ y.list = l2 /\ y.turf = tf /\ y.turfs = s.turfs /\ y.log = s.log
       /\ y.issued = s.issued
  <2>1. s.turfs \in Seq(Drivers) /\ s.sock \in [Drivers -> Nat] /\ s.log \in [Drivers -> Seq(Nat)]
        /\ s.issued \in Nat
    BY <1>1, CmdTypes
  <2>2. y = [list |-> l2, turfs |-> s.turfs, turf |-> tf, sock |-> s.sock, log |-> s.log,
             issued |-> s.issued]
    BY <1>8
  <2> QED
    BY <1>10, <1>12, <2>1, <2>2 DEF Interfaces
<1>14. ListRight(y)
  <2>1. /\ Len(l) # 0 /\ l[1].id # 0 /\ l[Len(l)].kind # "command"
        /\ \A j \in 1 .. Len(l) : l[j].id = l[1].id + (j - 1)
        /\ \A j \in 1 .. Len(l) - 1 :
             l[j + 1].num = IF l[j + 1].kind = "command" THEN l[j].num + 1 ELSE l[j].num
    BY <1>1 DEF ListRight
  <2>2. \A j \in 1 .. Len(l) - 1 : j \in 1 .. Len(l) /\ j + 1 \in 1 .. Len(l)
    BY <1>4
  <2>3. 1 \in 1 .. Len(l) /\ Len(l) \in 1 .. Len(l)
    BY <1>4, <2>1
  <2> HIDE DEF l
  <2>4. \A j \in 1 .. Len(l) - 1 :
          l2[j + 1].num = IF l2[j + 1].kind = "command" THEN l2[j].num + 1 ELSE l2[j].num
    BY <1>11, <2>1, <2>2
  <2>5. \A j \in 1 .. Len(l) : l2[j].id = l2[1].id + (j - 1)
    BY <1>11, <2>1, <2>3
  <2>6. l2[1].id # 0 /\ l2[Len(l)].kind # "command"
    BY <1>11, <2>1, <2>3
  <2> QED
    BY <1>10, <1>13, <2>1, <2>4, <2>5, <2>6 DEF ListRight
<1>15. l[i].id # l[i + 1].id /\ l[i + 1].id # 0
  <2>1. l[i].id = l[1].id + (i - 1) /\ l[i + 1].id = l[1].id + ((i + 1) - 1) /\ l[1].id # 0
    BY <1>1, <1>4 DEF ListRight
  <2>2. l[1].id \in Nat
    BY <1>4, EntryTypes
  <2> QED
    BY <2>1, <2>2
<1>16. Counted(y)
  <2> SUFFICES ASSUME NEW j \in 1 .. Len(l)
               PROVE  l2[j].ref_count >= Cardinality(At(y, l[j].id))
    BY <1>10, <1>11, <1>13 DEF Counted
  <2>1. l[j].ref_count >= Cardinality(At(s, l[j].id)) /\ Cardinality(At(s, l[j].id)) \in Nat
    BY <1>1, AtFinite DEF Counted
  <2>2. Cardinality(At(y, l[j].id)) =
          IF l[j].id = l[i].id THEN Cardinality(At(s, l[j].id)) - 1
          ELSE IF l[j].id = l[i + 1].id THEN Cardinality(At(s, l[j].id)) + 1
          ELSE Cardinality(At(s, l[j].id))
    <3>1. \A u \in Drivers : u # t => y.turf[u].next = s.turf[u].next
      BY <1>12, <1>13
    <3>2. y.turf[t].next = l[i + 1].id
      BY <1>12, <1>13
    <3> QED
      BY <1>1, <1>2, <1>13, <1>15, <3>1, <3>2, MovedAt
  <2>3. l[j].id = l[1].id + (j - 1) /\ l[i].id = l[1].id + (i - 1)
        /\ l[i + 1].id = l[1].id + ((i + 1) - 1)
    BY <1>1, <1>4 DEF ListRight
  <2>4. l[1].id \in Nat /\ l[j].ref_count \in Nat
    BY <1>4, EntryTypes
  <2>5. (l[j].id = l[i].id <=> j = i) /\ (l[j].id = l[i + 1].id <=> j = i + 1)
    <3>1. i \in Nat /\ j \in Nat
      BY <1>4
    <3> HIDE DEF l
    <3> QED
      BY <2>3, <2>4, <3>1
  <2>6. l2[j].ref_count = IF j = i THEN l[j].ref_count - 1
                          ELSE IF j = i + 1 THEN l[j].ref_count + 1 ELSE l[j].ref_count
    BY <1>11
  <2> QED
    BY <1>4, <2>1, <2>2, <2>4, <2>5, <2>6
<1>17. ASSUME NEW u \in ToSet(s.turfs)
       PROVE  Placed(y, u)
  <2>1. u \in Drivers
    BY <1>1, ConnectedTypes
  <2>2. CASE u = t
    <3>1. GivenTo(s.log[t], l2[i + 1], FALSE)
      <4>1. l[i + 1].num = IF l[i + 1].kind = "command" THEN l[i].num + 1 ELSE l[i].num
        BY <1>1, <1>2, <1>4 DEF ListRight
      <4>2. l2[i + 1].num = l[i + 1].num /\ l2[i + 1].kind = l[i + 1].kind
        BY <1>4, <1>11
      <4>3. s.log[t] # <<>> => l[i].num = s.log[t][Len(s.log[t])]
        BY <1>2 DEF GivenTo
      <4> QED
        BY <4>1, <4>2, <4>3 DEF GivenTo
    <3>2. l2[i + 1].id = l[i + 1].id
      BY <1>4, <1>11
    <3> QED
      BY <1>4, <1>10, <1>12, <1>13, <2>2, <3>1, <3>2 DEF Placed
  <2>3. CASE u # t
    <3>1. PICK j \in 1 .. Len(l) :
            /\ s.turf[u].next = l[j].id
            /\ s.turf[u].written => j < Len(l)
            /\ GivenTo(s.log[u], l[j], s.turf[u].written)
      BY <1>1 DEF Placed
    <3>2. GivenTo(s.log[u], l2[j], s.turf[u].written) /\ l2[j].id = l[j].id
      BY <1>11, <3>1 DEF GivenTo
    <3> QED
      BY <1>10, <1>12, <1>13, <2>1, <2>3, <3>1, <3>2 DEF Placed
  <2> QED
    BY <2>2, <2>3
<1>18. Settled(y)
  <2>1. \A u \in Drivers : /\ Ordered(s.log[u])
                           /\ s.turf[u].next = 0 => ~s.turf[u].written /\ s.log[u] = <<>>
    BY DEF CmdRight, Settled
  <2> QED
    BY <1>12, <1>13, <1>15, <2>1 DEF Settled
<1>19. Advanced(y, s, t)
  <2>1. SameCommands(y.list, s.list)
    BY <1>10, <1>11, <1>13 DEF SameCommands
  <2>2. i \in 1 .. Len(s.list) - 1
    BY <1>2, <1>4
  <2>3. y.turf[t].next = s.list[i + 1].id
    BY <1>12, <1>13
  <2> QED
    BY <1>2, <1>12, <1>13, <2>1, <2>2, <2>3 DEF Advanced, OthersStay
<1> QED
  BY <1>12, <1>13, <1>14, <1>16, <1>17, <1>18, <1>19 DEF CmdRight

LEMMA OrderedMore ==
  ASSUME NEW l \in Seq(Nat), NEW n \in Nat, Ordered(l), l # <<>> => n = l[Len(l)] + 1
  PROVE  Append(l, n) \in Seq(Nat) /\ Ordered(Append(l, n)) /\ Append(l, n)[Len(Append(l, n))] = n
<1> DEFINE y == Append(l, n)
<1>1. /\ y \in Seq(Nat) /\ Len(y) = Len(l) + 1 /\ y[Len(l) + 1] = n /\ Len(l) \in Nat
      /\ \A i \in 1 .. Len(l) : y[i] = l[i]
  OBVIOUS
<1> HIDE DEF y
<1>2. ASSUME NEW k \in 1 .. Len(y) - 1
      PROVE  y[k + 1] = y[k] + 1
  <2>1. CASE k = Len(l)
    <3>1. l # <<>> /\ y[k] = l[Len(l)] /\ y[k + 1] = n
      BY <1>1, <2>1
    <3> QED
      BY <2>1, <3>1
  <2>2. CASE k # Len(l)
    <3>1. k \in 1 .. Len(l) - 1 /\ k \in 1 .. Len(l) /\ k + 1 \in 1 .. Len(l)
      BY <1>1, <2>2
    <3> QED
      BY <1>1, <3>1 DEF Ordered
  <2> QED
    BY <2>1, <2>2
<1> QED
  BY <1>1, <1>2 DEF Ordered, y

(* A driver is given the command it is at. *)
LEMMA IssueKeeps ==
  ASSUME CmdAssumption, NEW s, CmdRight(s), NEW t \in ToSet(s.turfs), ~s.turf[t].written,
         Place(s, t) < Len(s.list), NEW y, y = Issue(s, t)
  PROVE  CmdRight(y) /\ y.turfs = s.turfs /\ Issued(y, s, t)
<1>1. /\ s \in Interfaces /\ ListRight(s) /\ Counted(s) /\ t \in Drivers /\ Settled(s)
      /\ \A u \in ToSet(s.turfs) : Placed(s, u)
  BY ConnectedTypes DEF CmdRight
<1>2. PICK i \in 1 .. Len(s.list) :
        s.turf[t].next = s.list[i].id /\ GivenTo(s.log[t], s.list[i], FALSE)
  <2>1. s.turf[t].written = FALSE
    BY <1>1, TurfTypes
  <2> QED
    BY <1>1, <2>1 DEF Placed
<1>3. Place(s, t) = i /\ i < Len(s.list) /\ i \in 1 .. Len(s.list) - 1
  <2>1. Place(s, t) = i /\ i < Len(s.list)
    BY <1>1, <1>2, PlaceIs
  <2>2. Len(s.list) \in Nat
    BY <1>1, CmdTypes
  <2> QED
    BY <2>1, <2>2
<1>4. /\ s.list \in Seq(Entries) /\ s.turf \in [Drivers -> Turfs] /\ s.log \in [Drivers -> Seq(Nat)]
      /\ s.sock \in [Drivers -> Nat] /\ s.turfs \in Seq(Drivers) /\ s.issued \in Nat
  BY <1>1, CmdTypes
<1>5. s.turf[t] \in Turfs /\ s.log[t] \in Seq(Nat) /\ s.list[i].num \in Nat /\ s.sock[t] \in Nat
  BY <1>1, <1>4, TurfTypes, EntryTypes
<1> DEFINE e == s.list[i]
           room == s.sock[t] < SockCap
           tfw == [s.turf EXCEPT ![t] = [@ EXCEPT !.out = ~room, !.written = TRUE]]
           tfc == [s.turf EXCEPT ![t] = [@ EXCEPT !.closing = TRUE, !.written = TRUE]]
           log == [s.log EXCEPT ![t] = Append(@, e.num)]
           sock == [s.sock EXCEPT ![t] = IF room THEN @ + 1 ELSE @]
<1>6. s = [list |-> s.list, turfs |-> s.turfs, turf |-> s.turf, sock |-> s.sock,
           log |-> s.log, issued |-> s.issued]
  BY <1>1 DEF Interfaces
<1>7. CASE e.kind = "command"
  <2>1. y = [[s EXCEPT !.turf[t].out = ~room, !.sock[t] = IF room THEN @ + 1 ELSE @,
                       !.log[t] = Append(@, e.num)] EXCEPT !.turf[t].written = TRUE]
    BY <1>3, <1>7 DEF Issue, Write
  <2>2. tfw = [[s.turf EXCEPT ![t].out = ~room] EXCEPT ![t].written = TRUE]
    BY <1>1, <1>4
  <2>3. /\ y.turf = [[s.turf EXCEPT ![t].out = ~room] EXCEPT ![t].written = TRUE]
        /\ y.log = log /\ y.sock = sock
        /\ y = [list |-> s.list, turfs |-> s.turfs, turf |-> y.turf, sock |-> y.sock,
                log |-> y.log, issued |-> s.issued]
    BY <1>6, <2>1
  <2>4. y.turf = tfw
    BY <2>2, <2>3
  <2>5. /\ tfw \in [Drivers -> Turfs] /\ tfw[t].next = s.turf[t].next /\ tfw[t].written
        /\ tfw[t].from = s.turf[t].from /\ tfw[t].closing = s.turf[t].closing
        /\ \A u \in Drivers : u # t => tfw[u] = s.turf[u]
    <3>1. [s.turf[t] EXCEPT !.out = ~room, !.written = TRUE] \in Turfs
      BY <1>5 DEF Turfs
    <3> QED
      BY <1>1, <1>4, <1>5, <3>1 DEF Turfs
  <2>6. s.log[t] # <<>> => e.num = s.log[t][Len(s.log[t])] + 1
    BY <1>2, <1>7 DEF GivenTo
  <2>7. /\ Append(s.log[t], e.num) \in Seq(Nat) /\ Ordered(Append(s.log[t], e.num))
        /\ Append(s.log[t], e.num)[Len(Append(s.log[t], e.num))] = e.num
    <3>1. Ordered(s.log[t])
      BY <1>1 DEF Settled
    <3> HIDE DEF e
    <3> QED
      BY <1>5, <2>6, <3>1, OrderedMore DEF e
  <2>8. /\ log \in [Drivers -> Seq(Nat)] /\ log[t] = Append(s.log[t], e.num)
        /\ \A u \in Drivers : u # t => log[u] = s.log[u]
    <3> HIDE DEF e
    <3> QED
      BY <1>1, <1>4, <2>7
  <2>9. sock \in [Drivers -> Nat]
    <3>1. (IF room THEN s.sock[t] + 1 ELSE s.sock[t]) \in Nat
      BY <1>5
    <3> QED
      BY <1>4, <3>1
  <2> HIDE DEF tfw, log, sock, e, room
  <2>10. /\ y \in Interfaces /\ y.list = s.list /\ y.turfs = s.turfs /\ y.turf = tfw /\ y.log = log
         /\ y.issued = s.issued
    <3>1. y = [list |-> s.list, turfs |-> s.turfs, turf |-> tfw, sock |-> sock, log |-> log,
               issued |-> s.issued]
      BY <2>3, <2>4
    <3> QED
      BY <1>4, <2>5, <2>8, <2>9, <3>1 DEF Interfaces
  <2>11. ListRight(y)
    BY <1>1, <2>10 DEF ListRight
  <2>12. Counted(y)
    <3>1. ASSUME NEW id
          PROVE  At(y, id) = At(s, id)
      <4>1. \A u \in ToSet(s.turfs) : tfw[u].next = s.turf[u].next
        BY <1>1, <2>5, ConnectedTypes
      <4> QED
        BY <2>10, <4>1 DEF At
    <3> QED
      BY <1>1, <2>10, <3>1 DEF Counted
  <2>13. ASSUME NEW u \in ToSet(s.turfs)
         PROVE  Placed(y, u)
    <3>1. u \in Drivers
      BY <1>1, ConnectedTypes
    <3>2. CASE u = t
      <4>1. GivenTo(log[t], e, TRUE)
        BY <2>7, <2>8 DEF GivenTo
      <4> QED
        BY <1>2, <1>3, <2>5, <2>10, <3>2, <4>1 DEF Placed, e
    <3>3. CASE u # t
      BY <1>1, <2>5, <2>8, <2>10, <3>1, <3>3 DEF Placed
    <3> QED
      BY <3>2, <3>3
  <2>14. Settled(y)
    <3>1. \A u \in Drivers : Ordered(log[u])
      BY <1>1, <2>7, <2>8 DEF Settled
    <3>2. s.turf[t].next # 0
      <4>1. s.list[i].id = s.list[1].id + (i - 1) /\ s.list[1].id # 0 /\ 1 \in 1 .. Len(s.list)
        BY <1>1, <1>4 DEF ListRight
      <4>2. s.list[1].id \in Nat
        BY <1>4, <4>1, EntryTypes
      <4> QED
        BY <1>2, <4>1, <4>2
    <3>3. ASSUME NEW u \in Drivers, tfw[u].next = 0
          PROVE  ~tfw[u].written /\ log[u] = <<>>
      <4>1. u # t
        BY <2>5, <3>2, <3>3
      <4>2. tfw[u] = s.turf[u] /\ log[u] = s.log[u]
        BY <2>5, <2>8, <4>1
      <4> QED
        BY <1>1, <3>3, <4>2 DEF Settled
    <3> QED
      BY <2>10, <3>1, <3>3 DEF Settled
  <2>15. Issued(y, s, t)
    <3>1. OthersStay(y, s, t)
      BY <2>5, <2>8, <2>10 DEF OthersStay
    <3> QED
      BY <1>2, <1>3, <1>7, <2>5, <2>8, <2>10, <3>1 DEF Issued, e
  <2> QED
    BY <2>10, <2>11, <2>12, <2>13, <2>14, <2>15 DEF CmdRight
<1>8. CASE e.kind # "command"
  <2>1. y = [[s EXCEPT !.turf[t].closing = TRUE] EXCEPT !.turf[t].written = TRUE]
    BY <1>3, <1>8 DEF Issue
  <2>2. tfc = [[s.turf EXCEPT ![t].closing = TRUE] EXCEPT ![t].written = TRUE]
    BY <1>1, <1>4
  <2>3. /\ y.turf = [[s.turf EXCEPT ![t].closing = TRUE] EXCEPT ![t].written = TRUE]
        /\ y = [list |-> s.list, turfs |-> s.turfs, turf |-> y.turf, sock |-> s.sock,
                log |-> s.log, issued |-> s.issued]
    BY <1>6, <2>1
  <2>4. y.turf = tfc
    BY <2>2, <2>3
  <2>5. /\ tfc \in [Drivers -> Turfs] /\ tfc[t].next = s.turf[t].next /\ tfc[t].written
        /\ tfc[t].from = s.turf[t].from /\ tfc[t].closing
        /\ \A u \in Drivers : u # t => tfc[u] = s.turf[u]
    <3>1. [s.turf[t] EXCEPT !.closing = TRUE, !.written = TRUE] \in Turfs
      BY <1>5 DEF Turfs
    <3> QED
      BY <1>1, <1>4, <1>5, <3>1 DEF Turfs
  <2> HIDE DEF tfc, e
  <2>6. /\ y \in Interfaces /\ y.list = s.list /\ y.turfs = s.turfs /\ y.turf = tfc /\ y.log = s.log
        /\ y.issued = s.issued
    <3>1. y = [list |-> s.list, turfs |-> s.turfs, turf |-> tfc, sock |-> s.sock, log |-> s.log,
               issued |-> s.issued]
      BY <2>3, <2>4
    <3> QED
      BY <1>4, <2>5, <3>1 DEF Interfaces
  <2>7. ListRight(y)
    BY <1>1, <2>6 DEF ListRight
  <2>8. Counted(y)
    <3>1. ASSUME NEW id
          PROVE  At(y, id) = At(s, id)
      <4>1. \A u \in ToSet(s.turfs) : tfc[u].next = s.turf[u].next
        BY <1>1, <2>5, ConnectedTypes
      <4> QED
        BY <2>6, <4>1 DEF At
    <3> QED
      BY <1>1, <2>6, <3>1 DEF Counted
  <2>9. ASSUME NEW u \in ToSet(s.turfs)
        PROVE  Placed(y, u)
    <3>1. u \in Drivers
      BY <1>1, ConnectedTypes
    <3>2. CASE u = t
      <4>1. GivenTo(s.log[t], e, TRUE)
        BY <1>2, <1>8 DEF GivenTo, e
      <4> QED
        BY <1>2, <1>3, <2>5, <2>6, <3>2, <4>1 DEF Placed, e
    <3>3. CASE u # t
      BY <1>1, <2>5, <2>6, <3>1, <3>3 DEF Placed
    <3> QED
      BY <3>2, <3>3
  <2>10. Settled(y)
    <3>1. s.turf[t].next # 0
      <4>1. s.list[i].id = s.list[1].id + (i - 1) /\ s.list[1].id # 0 /\ 1 \in 1 .. Len(s.list)
        BY <1>1, <1>4 DEF ListRight
      <4>2. s.list[1].id \in Nat
        BY <1>4, <4>1, EntryTypes
      <4> QED
        BY <1>2, <4>1, <4>2
    <3>2. ASSUME NEW u \in Drivers
          PROVE  Ordered(s.log[u]) /\ (tfc[u].next = 0 => ~tfc[u].written /\ s.log[u] = <<>>)
      <4>1. CASE u = t
        BY <1>1, <2>5, <3>1, <4>1 DEF Settled
      <4>2. CASE u # t
        BY <1>1, <2>5, <4>2 DEF Settled
      <4> QED
        BY <4>1, <4>2
    <3> QED
      BY <2>6, <3>2 DEF Settled
  <2>11. Issued(y, s, t)
    <3>1. OthersStay(y, s, t)
      BY <2>5, <2>6 DEF OthersStay
    <3> QED
      BY <1>2, <1>3, <1>8, <2>5, <2>6, <3>1 DEF Issued, e
  <2> QED
    BY <2>6, <2>7, <2>8, <2>9, <2>10, <2>11 DEF CmdRight
<1> QED
  BY <1>7, <1>8

(* A driver has been given the commands since it connected up to its place. *)
Covered(s, t, i) ==
  LET e == s.list[i]
  IN \A n \in Nat :
       s.turf[t].from < n /\ n <= e.num /\ (e.kind = "command" /\ ~s.turf[t].written => n # e.num)
         => n \in ToSet(s.log[t])

(* It is past an empty command when it is closing, and only then. *)
Passed(s, t, i) ==
  IF s.turf[t].closing
  THEN \E c \in 1 .. i : s.list[c].kind = "close" /\ (c = i => s.turf[t].written)
  ELSE \A c \in 1 .. i : s.list[c].kind = "close" => c = i /\ ~s.turf[t].written

Standing(s, t) ==
  \E i \in 1 .. Len(s.list) : s.turf[t].next = s.list[i].id /\ Covered(s, t, i) /\ Passed(s, t, i)

(* Only the last command is still to be filled in. *)
ToBeFilled(s) ==
  /\ \A i \in 1 .. Len(s.list) : s.list[i].kind = "blank" <=> i = Len(s.list)
  /\ s.list[Len(s.list)].num <= s.issued

AllStand(s) == ToBeFilled(s) /\ \A t \in ToSet(s.turfs) : Standing(s, t)

(* What the drivers' loops may make of s. *)
Within(x, s) ==
  /\ x.turfs = s.turfs /\ x.issued = s.issued /\ SameCommands(x.list, s.list)
  /\ \A u \in Drivers : /\ x.turf[u].from = s.turf[u].from
                        /\ u \notin ToSet(s.turfs) => x.turf[u] = s.turf[u]
  /\ AllStand(s) => AllStand(x)

LEMMA WithinSelf ==
  ASSUME NEW s
  PROVE  Within(s, s)
BY DEF Within, SameCommands

LEMMA WithinMore ==
  ASSUME NEW x, NEW y, NEW s, Within(y, x), Within(x, s)
  PROVE  Within(y, s)
BY DEF Within, SameCommands

LEMMA SameStands ==
  ASSUME NEW s, NEW y, NEW t, SameCommands(y.list, s.list), y.log[t] = s.log[t],
         y.turf[t].next = s.turf[t].next, y.turf[t].from = s.turf[t].from,
         y.turf[t].written = s.turf[t].written, y.turf[t].closing = s.turf[t].closing,
         Standing(s, t)
  PROVE  Standing(y, t)
<1>1. PICK i \in 1 .. Len(s.list) :
        s.turf[t].next = s.list[i].id /\ Covered(s, t, i) /\ Passed(s, t, i)
  BY DEF Standing
<1>2. \A j \in 1 .. i : j \in 1 .. Len(s.list)
  BY DEF SameCommands
<1>3. Covered(y, t, i)
  BY <1>1 DEF Covered, SameCommands
<1>4. Passed(y, t, i)
  BY <1>1, <1>2 DEF Passed, SameCommands
<1> QED
  BY <1>1, <1>3, <1>4 DEF Standing, SameCommands

LEMMA FilledSame ==
  ASSUME NEW s, NEW y, ToBeFilled(s), SameCommands(y.list, s.list), y.issued = s.issued,
         Len(s.list) \in 1 .. Len(s.list)
  PROVE  ToBeFilled(y)
BY DEF ToBeFilled, SameCommands

(* A driver that goes on to the next command has been given those before it. *)
LEMMA AdvancedStands ==
  ASSUME NEW s, CmdRight(s), NEW t \in ToSet(s.turfs), s.turf[t].written,
         NEW y, y.turfs = s.turfs, ~y.turf[t].written, Advanced(y, s, t), AllStand(s)
  PROVE  AllStand(y)
<1>1. /\ s \in Interfaces /\ ListRight(s) /\ SameCommands(y.list, s.list) /\ ToBeFilled(s)
  BY DEF CmdRight, Advanced, AllStand
<1>2. s.list \in Seq(Entries) /\ Len(s.list) \in 1 .. Len(s.list) /\ Len(s.list) \in Nat
  BY <1>1, CmdTypes DEF ListRight
<1>3. ToBeFilled(y)
  BY <1>1, <1>2, FilledSame DEF Advanced
<1>4. ASSUME NEW u \in ToSet(s.turfs), u # t
      PROVE  Standing(y, u)
  <2>1. u \in Drivers /\ Standing(s, u)
    BY <1>1, ConnectedTypes DEF AllStand
  <2>2. y.turf[u] = s.turf[u] /\ y.log[u] = s.log[u]
    BY <1>4, <2>1 DEF Advanced, OthersStay
  <2> QED
    BY <1>1, <2>1, <2>2, SameStands
<1>5. Standing(y, t)
  <2>1. PICK i \in 1 .. Len(s.list) - 1 : /\ s.turf[t].next = s.list[i].id
                                          /\ y.turf[t].next = s.list[i + 1].id
    BY DEF Advanced
  <2>2. PICK j \in 1 .. Len(s.list) :
          s.turf[t].next = s.list[j].id /\ Covered(s, t, j) /\ Passed(s, t, j)
    BY DEF AllStand, Standing
  <2>3. i \in 1 .. Len(s.list) /\ i + 1 \in 1 .. Len(s.list) /\ i \in Nat
    BY <1>2
  <2>4. Covered(s, t, i) /\ Passed(s, t, i)
    <3>1. Place(s, t) = i /\ Place(s, t) = j
      BY <1>1, <2>1, <2>2, <2>3, PlaceIs
    <3> QED
      BY <2>2, <3>1
  <2>5. s.list[i + 1].num = IF s.list[i + 1].kind = "command" THEN s.list[i].num + 1
                            ELSE s.list[i].num
    BY <1>1 DEF ListRight
  <2>6. s.list[i].num \in Nat
    BY <1>2, <2>3, EntryTypes
  <2>7. Covered(y, t, i + 1)
    <3>1. y.list[i + 1].num = s.list[i + 1].num /\ y.list[i + 1].kind = s.list[i + 1].kind
      BY <1>1, <2>3 DEF SameCommands
    <3> SUFFICES ASSUME NEW n \in Nat, s.turf[t].from < n, n <= s.list[i + 1].num,
                        s.list[i + 1].kind = "command" => n # s.list[i + 1].num
                 PROVE  n \in ToSet(s.log[t])
      BY <3>1 DEF Covered, Advanced
    <3>2. n <= s.list[i].num
      BY <2>5, <2>6
    <3> QED
      BY <2>4, <3>2 DEF Covered
  <2>8. Passed(y, t, i + 1)
    <3>1. /\ y.turf[t].closing = s.turf[t].closing
          /\ \A c \in 1 .. i + 1 : c \in 1 .. i \/ c = i + 1
          /\ \A c \in 1 .. i : c \in 1 .. i + 1 /\ c # i + 1
          /\ \A c \in 1 .. i + 1 : y.list[c].kind = s.list[c].kind
      BY <1>1, <1>2, <2>3 DEF Advanced, SameCommands
    <3> QED
      BY <2>4, <3>1 DEF Passed
  <2>9. y.turf[t].next = y.list[i + 1].id /\ i + 1 \in 1 .. Len(y.list)
    BY <1>1, <2>1, <2>3 DEF SameCommands
  <2> QED
    BY <2>7, <2>8, <2>9 DEF Standing
<1> QED
  BY <1>3, <1>4, <1>5 DEF AllStand

(* One that is given a command has it; one that comes to an empty one closes. *)
LEMMA IssuedStands ==
  ASSUME NEW s, CmdRight(s), NEW t \in ToSet(s.turfs), ~s.turf[t].written,
         NEW y, y.turfs = s.turfs, Issued(y, s, t), AllStand(s)
  PROVE  AllStand(y)
<1>1. /\ s \in Interfaces /\ ListRight(s) /\ y.list = s.list /\ ToBeFilled(s) /\ t \in Drivers
  BY ConnectedTypes DEF CmdRight, Issued, AllStand
<1>2. s.list \in Seq(Entries) /\ Len(s.list) \in 1 .. Len(s.list) /\ Len(s.list) \in Nat
  BY <1>1, CmdTypes DEF ListRight
<1>3. ToBeFilled(y)
  BY <1>1 DEF ToBeFilled, Issued
<1>4. ASSUME NEW u \in ToSet(s.turfs), u # t
      PROVE  Standing(y, u)
  <2>1. u \in Drivers /\ Standing(s, u)
    BY <1>1, ConnectedTypes DEF AllStand
  <2>2. y.turf[u] = s.turf[u] /\ y.log[u] = s.log[u]
    BY <1>4, <2>1 DEF Issued, OthersStay
  <2>3. SameCommands(y.list, s.list)
    BY <1>1 DEF SameCommands
  <2> QED
    BY <2>1, <2>2, <2>3, SameStands
<1>5. Standing(y, t)
  <2> DEFINE e(i) == s.list[i]
  <2>1. PICK i \in 1 .. Len(s.list) - 1 :
          /\ s.turf[t].next = s.list[i].id
          /\ \/ /\ s.list[i].kind = "command"
                /\ y.turf[t].closing = s.turf[t].closing
                /\ y.log[t] = Append(s.log[t], s.list[i].num)
             \/ /\ s.list[i].kind # "command"
                /\ y.turf[t].closing /\ y.log = s.log
    BY DEF Issued
  <2>2. PICK j \in 1 .. Len(s.list) :
          s.turf[t].next = s.list[j].id /\ Covered(s, t, j) /\ Passed(s, t, j)
    BY DEF AllStand, Standing
  <2>3. i \in 1 .. Len(s.list) /\ i # Len(s.list) /\ i \in Nat /\ i \in 1 .. i
    BY <1>2
  <2>4. Covered(s, t, i) /\ Passed(s, t, i)
    <3>1. Place(s, t) = i /\ Place(s, t) = j
      BY <1>1, <2>1, <2>2, <2>3, PlaceIs
    <3> QED
      BY <2>2, <3>1
  <2>5. s.list[i].num \in Nat /\ s.list[i].kind \in Kinds /\ s.log[t] \in Seq(Nat)
    BY <1>1, <1>2, <2>3, EntryTypes, TurfTypes
  <2>6. CASE s.list[i].kind = "command"
    <3>1. y.turf[t].closing = s.turf[t].closing /\ y.log[t] = Append(s.log[t], s.list[i].num)
      BY <2>1, <2>6
    <3>2. ToSet(y.log[t]) = ToSet(s.log[t]) \cup {s.list[i].num}
      <4> DEFINE l == s.log[t]
                 m == Append(l, s.list[i].num)
      <4>1. /\ Len(m) = Len(l) + 1 /\ m[Len(l) + 1] = s.list[i].num /\ Len(l) \in Nat
            /\ \A k \in 1 .. Len(l) : m[k] = l[k]
            /\ DOMAIN m = 1 .. Len(m) /\ DOMAIN l = 1 .. Len(l)
        BY <2>5
      <4> HIDE DEF l, m
      <4>2. ToSet(m) = ToSet(l) \cup {s.list[i].num}
        BY <4>1 DEF ToSet
      <4> QED
        BY <3>1, <4>2 DEF l, m
    <3>3. Covered(y, t, i)
      <4> SUFFICES ASSUME NEW n \in Nat, s.turf[t].from < n, n <= s.list[i].num
                   PROVE  n \in ToSet(y.log[t])
        BY <1>1 DEF Covered, Issued
      <4>1. n # s.list[i].num => n \in ToSet(s.log[t])
        BY <2>4 DEF Covered
      <4> QED
        BY <3>2, <4>1
    <3>4. Passed(y, t, i)
      BY <1>1, <2>4, <2>6, <3>1 DEF Passed, Issued
    <3> QED
      BY <1>1, <2>1, <2>3, <3>3, <3>4 DEF Standing, Issued
  <2>7. CASE s.list[i].kind # "command"
    <3>1. y.turf[t].closing /\ y.log = s.log
      BY <2>1, <2>7
    <3>2. s.list[i].kind = "close"
      BY <1>1, <2>3, <2>5, <2>7 DEF ToBeFilled, Kinds
    <3>3. Covered(y, t, i)
      BY <1>1, <2>4, <2>7, <3>1 DEF Covered, Issued
    <3>4. Passed(y, t, i)
      BY <1>1, <2>3, <3>1, <3>2 DEF Passed, Issued
    <3> QED
      BY <1>1, <2>1, <2>3, <3>3, <3>4 DEF Standing, Issued
  <2> QED
    BY <2>6, <2>7
<1> QED
  BY <1>3, <1>4, <1>5 DEF AllStand

LEMMA TurnKeeps ==
  ASSUME CmdAssumption, NEW s, CmdRight(s), NEW t \in ToSet(s.turfs)
  PROVE  CmdRight(Turn(s, t)) /\ Within(Turn(s, t), s)
<1> DEFINE s1 == IF s.turf[t].written THEN Advance(s, t) ELSE s
<1>0. t \in Drivers /\ Len(s.list) \in Nat /\ s.list \in Seq(Entries)
  BY ConnectedTypes, CmdTypes DEF CmdRight
<1>1. CmdRight(s1) /\ Within(s1, s) /\ ~s1.turf[t].written
  <2>1. CASE s.turf[t].written
    <3>1. s1 = Advance(s, t)
      BY <2>1
    <3> HIDE DEF s1
    <3>2. /\ CmdRight(s1) /\ s1.turfs = s.turfs /\ ~s1.turf[t].written
          /\ Advanced(s1, s, t)
      BY <2>1, <3>1, AdvanceKeeps
    <3>3. AllStand(s) => AllStand(s1)
      BY <2>1, <3>2, AdvancedStands
    <3>4. \A u \in Drivers : /\ s1.turf[u].from = s.turf[u].from
                             /\ u \notin ToSet(s.turfs) => s1.turf[u] = s.turf[u]
      BY <3>2 DEF Advanced, OthersStay
    <3> QED
      BY <3>2, <3>3, <3>4 DEF Within, Advanced
  <2>2. CASE ~s.turf[t].written
    BY <2>2, WithinSelf
  <2> QED
    BY <2>1, <2>2
<1>2. Turn(s, t) = IF s.turf[t].out THEN s
                   ELSE IF Place(s1, t) < Len(s1.list) THEN Issue(s1, t) ELSE s1
  BY DEF Turn
<1> HIDE DEF s1
<1>3. ASSUME Place(s1, t) < Len(s1.list)
      PROVE  CmdRight(Issue(s1, t)) /\ Within(Issue(s1, t), s)
  <2> DEFINE y == Issue(s1, t)
  <2>1. t \in ToSet(s1.turfs)
    BY <1>1 DEF Within
  <2>2. CmdRight(y) /\ y.turfs = s1.turfs /\ Issued(y, s1, t)
    BY <1>1, <1>3, <2>1, IssueKeeps
  <2> HIDE DEF y
  <2>3. AllStand(s1) => AllStand(y)
    BY <1>1, <2>1, <2>2, IssuedStands
  <2>4. \A u \in Drivers : /\ y.turf[u].from = s1.turf[u].from
                           /\ u \notin ToSet(s1.turfs) => y.turf[u] = s1.turf[u]
    BY <2>1, <2>2 DEF Issued, OthersStay
  <2>5. SameCommands(y.list, s1.list)
    BY <2>2 DEF Issued, SameCommands
  <2>6. Within(y, s1)
    BY <2>2, <2>3, <2>4, <2>5 DEF Within, Issued
  <2>7. Within(y, s)
    BY <1>1, <2>6, WithinMore
  <2> QED
    BY <2>2, <2>7 DEF y
<1> QED
  BY <1>1, <1>2, <1>3, WithinSelf

(* What the loops make of s, which is right. *)
RightWith(s) == {x \in Interfaces : CmdRight(x) /\ Within(x, s)}

LEMMA TurfCheckKeeps ==
  ASSUME CmdAssumption, NEW s, CmdRight(s), NEW t \in ToSet(s.turfs)
  PROVE  CmdRight(TurfCheck(s, t)) /\ Within(TurfCheck(s, t), s)
<1> DEFINE S == RightWith(s)
           n == Len(s.list)
           step == [a \in (1 .. n) \X S |-> Turn(a[2], t)]
           F(f) == [i \in 0 .. n |-> IF i = 0 THEN s ELSE Turn(f[i - 1], t)]
           turn == CHOOSE f : f = F(f)
<1>1. n \in Nat /\ s \in S
  BY CmdTypes, WithinSelf DEF CmdRight, RightWith
<1>2. \A x \in S : Turn(x, t) \in S
  <2> SUFFICES ASSUME NEW x \in S
               PROVE  Turn(x, t) \in S
    OBVIOUS
  <2>1. CmdRight(x) /\ Within(x, s)
    BY DEF RightWith
  <2>2. t \in ToSet(x.turfs)
    BY <2>1 DEF Within
  <2>3. CmdRight(Turn(x, t)) /\ Within(Turn(x, t), x)
    BY <2>1, <2>2, TurnKeeps
  <2>4. Within(Turn(x, t), s)
    BY <2>1, <2>3, WithinMore
  <2> QED
    BY <2>3, <2>4 DEF RightWith, CmdRight
<1> HIDE DEF S
<1>3. step \in [(1 .. n) \X S -> S]
  BY <1>2
<1>4. \E f \in [0 .. n -> S] : Follows(f, s, step, n)
  <2> HIDE DEF n, step
  <2> QED
    BY <1>1, <1>3, Recursion, Zenon
<1>5. PICK f \in [0 .. n -> S] : f[0] = s /\ \A i \in 1 .. n : f[i] = step[<<i, f[i - 1]>>]
  BY <1>4 DEF Follows
<1>6. f = F(f)
  <2>1. ASSUME NEW i \in 1 .. n
        PROVE  step[<<i, f[i - 1]>>] = Turn(f[i - 1], t)
    <3>1. i - 1 \in 0 .. n
      BY <1>1
    <3>2. f[i - 1] \in S
      BY <1>5, <3>1
    <3> HIDE DEF n
    <3>3. <<i, f[i - 1]>> \in (1 .. n) \X S
      BY <3>2
    <3> QED
      BY <3>3
  <2> HIDE DEF step, n
  <2>2. ASSUME NEW i \in 0 .. n
        PROVE  f[i] = F(f)[i]
    <3>1. CASE i = 0
      BY <3>1, <1>5
    <3>2. CASE i \in 1 .. n
      BY <1>1, <3>2, <1>5, <2>1
    <3> QED
      BY <1>1, <3>1, <3>2
  <2>3. f = [i \in 0 .. n |-> f[i]] /\ F(f) = [i \in 0 .. n |-> F(f)[i]]
    BY <1>5
  <2> QED
    BY <2>2, <2>3
<1>7. turn = F(turn)
  BY <1>6
<1>8. TurfCheck(s, t) = turn[n]
  BY DEF TurfCheck
<1> HIDE DEF turn
<1>9. turn[0] = s /\ \A i \in 1 .. n : turn[i] = Turn(turn[i - 1], t)
  <2> HIDE DEF n
  <2>1. turn[0] = F(turn)[0] /\ \A i \in 1 .. n : turn[i] = F(turn)[i]
    BY <1>7
  <2>2. F(turn)[0] = s /\ \A i \in 1 .. n : F(turn)[i] = Turn(turn[i - 1], t)
    BY <1>1
  <2> HIDE DEF F
  <2> QED
    BY <2>1, <2>2
<1> DEFINE T == {i \in 0 .. n : turn[i] \in S}
<1> HIDE DEF n
<1>10. 0 \in T
  BY <1>1, <1>9
<1>11. ASSUME NEW i \in 1 .. n, i - 1 \in T
       PROVE  i \in T
  BY <1>2, <1>9, <1>11
<1>12. 0 .. n \subseteq T
  <2> HIDE DEF T
  <2> QED
    BY <1>1, <1>10, <1>11, Upwards
<1>13. turn[n] \in S
  BY <1>1, <1>12
<1> QED
  BY <1>8, <1>13 DEF S, RightWith

(* Every driver that can write does. *)
LEMMA CheckAllKeeps ==
  ASSUME CmdAssumption, NEW s, CmdRight(s)
  PROVE  CmdRight(CheckAll(s)) /\ Within(CheckAll(s), s)
<1> DEFINE S == RightWith(s)
           u == s.turfs
           n == Len(s.turfs)
           step == [a \in (1 .. n) \X S |-> TurfCheck(a[2], u[a[1]])]
           F(f) == [i \in 0 .. n |-> IF i = 0 THEN s ELSE TurfCheck(f[i - 1], u[i])]
           pass == CHOOSE f : f = F(f)
<1>1. n \in Nat /\ s \in S
  BY CmdTypes, WithinSelf DEF CmdRight, RightWith
<1>2. \A i \in 1 .. n : \A x \in S : TurfCheck(x, u[i]) \in S
  <2> SUFFICES ASSUME NEW i \in 1 .. n, NEW x \in S
               PROVE  TurfCheck(x, u[i]) \in S
    OBVIOUS
  <2>1. CmdRight(x) /\ Within(x, s)
    BY DEF RightWith
  <2>2. u[i] \in ToSet(x.turfs)
    BY <2>1 DEF ToSet, Within
  <2>3. CmdRight(TurfCheck(x, u[i])) /\ Within(TurfCheck(x, u[i]), x)
    BY <2>1, <2>2, TurfCheckKeeps
  <2>4. Within(TurfCheck(x, u[i]), s)
    BY <2>1, <2>3, WithinMore
  <2> QED
    BY <2>3, <2>4 DEF RightWith, CmdRight
<1>8. CheckAll(s) = pass[n]
  BY DEF CheckAll
<1> HIDE DEF S, u
<1>3. step \in [(1 .. n) \X S -> S]
  <2> HIDE DEF n
  <2> QED
    BY <1>2
<1>4. \E f \in [0 .. n -> S] : Follows(f, s, step, n)
  <2> HIDE DEF n, step
  <2> QED
    BY <1>1, <1>3, Recursion, Zenon
<1>5. PICK f \in [0 .. n -> S] : f[0] = s /\ \A i \in 1 .. n : f[i] = step[<<i, f[i - 1]>>]
  BY <1>4 DEF Follows
<1>6. f = F(f)
  <2>1. ASSUME NEW i \in 1 .. n
        PROVE  step[<<i, f[i - 1]>>] = TurfCheck(f[i - 1], u[i])
    <3>1. i - 1 \in 0 .. n
      BY <1>1
    <3>2. f[i - 1] \in S
      BY <1>5, <3>1
    <3> HIDE DEF n
    <3>3. <<i, f[i - 1]>> \in (1 .. n) \X S
      BY <3>2
    <3> QED
      BY <3>3
  <2> HIDE DEF step, n
  <2>2. ASSUME NEW i \in 0 .. n
        PROVE  f[i] = F(f)[i]
    <3>1. CASE i = 0
      BY <3>1, <1>5
    <3>2. CASE i \in 1 .. n
      BY <1>1, <3>2, <1>5, <2>1
    <3> QED
      BY <1>1, <3>1, <3>2
  <2>3. f = [i \in 0 .. n |-> f[i]] /\ F(f) = [i \in 0 .. n |-> F(f)[i]]
    BY <1>5
  <2> QED
    BY <2>2, <2>3
<1>7. pass = F(pass)
  BY <1>6
<1> HIDE DEF pass
<1>9. pass[0] = s /\ \A i \in 1 .. n : pass[i] = TurfCheck(pass[i - 1], u[i])
  <2> HIDE DEF n
  <2>1. pass[0] = F(pass)[0] /\ \A i \in 1 .. n : pass[i] = F(pass)[i]
    BY <1>7
  <2>2. F(pass)[0] = s /\ \A i \in 1 .. n : F(pass)[i] = TurfCheck(pass[i - 1], u[i])
    BY <1>1
  <2> HIDE DEF F
  <2> QED
    BY <2>1, <2>2
<1> DEFINE T == {i \in 0 .. n : pass[i] \in S}
<1> HIDE DEF n
<1>10. 0 \in T
  BY <1>1, <1>9
<1>11. ASSUME NEW i \in 1 .. n, i - 1 \in T
       PROVE  i \in T
  BY <1>2, <1>9, <1>11
<1>12. 0 .. n \subseteq T
  <2> HIDE DEF T
  <2> QED
    BY <1>1, <1>10, <1>11, Upwards
<1>13. pass[n] \in S
  BY <1>1, <1>12
<1> QED
  BY <1>8, <1>13 DEF S, RightWith

LEMMA RecordOf ==
  ASSUME NEW s \in Interfaces
  PROVE  s = [list |-> s.list, turfs |-> s.turfs, turf |-> s.turf, sock |-> s.sock,
              log |-> s.log, issued |-> s.issued]
BY DEF Interfaces

LEMMA SettledNext ==
  ASSUME NEW s \in Interfaces, ListRight(s), NEW i \in 1 .. Len(s.list)
  PROVE  s.list[i].id # 0 /\ s.list[i].id \in Nat /\ s.list[i].id = s.list[1].id + (i - 1)
<1>1. /\ s.list[i].id = s.list[1].id + (i - 1) /\ s.list[1].id # 0 /\ s.list \in Seq(Entries)
      /\ 1 \in 1 .. Len(s.list)
  BY CmdTypes DEF ListRight
<1>2. s.list[1].id \in Nat
  BY <1>1, EntryTypes
<1> QED
  BY <1>1, <1>2

(* The last command is filled in. *)
LEMMA FilledKeeps ==
  ASSUME CmdAssumption, NEW s, CmdRight(s), NEW kind \in {"command", "close"}, NEW y,
         y = Filled(s, kind)
  PROVE  CmdRight(y) /\ y.turfs = s.turfs /\ FilledIn(y, s, kind)
<1>1. /\ s \in Interfaces /\ ListRight(s) /\ Counted(s) /\ Settled(s)
      /\ \A u \in ToSet(s.turfs) : Placed(s, u)
  BY DEF CmdRight
<1> DEFINE l == s.list
           n == Len(l)
           last == l[n]
           num == IF kind = "command" THEN last.num + 1 ELSE last.num
           e == [last EXCEPT !.kind = kind, !.num = num]
           new == NewCommand(last.id + 1, num)
           l1 == [l EXCEPT ![n] = e]
           l2 == Append(l1, new)
<1>2. l \in Seq(Entries) /\ n \in Nat \ {0} /\ n \in 1 .. n /\ 1 \in 1 .. n
  BY <1>1, CmdTypes DEF ListRight
<1>3. /\ last \in Entries /\ last.id \in Nat /\ last.ref_count \in Nat /\ last.num \in Nat
      /\ num \in Nat
  BY <1>2, EntryTypes
<1>4. /\ e \in Entries /\ e.id = last.id /\ e.ref_count = last.ref_count /\ e.kind = kind
      /\ e.num = num
  <2> HIDE DEF last, num
  <2> QED
    BY <1>3 DEF Entries, Kinds
<1>5. /\ new \in Entries /\ new.id = last.id + 1 /\ new.ref_count = 0 /\ new.num = num
      /\ new.kind = "blank"
  <2> HIDE DEF last, num
  <2> QED
    BY <1>3 DEF NewCommand, Entries, Kinds
<1>6. y = [s EXCEPT !.list = l2]
  BY DEF Filled, LastCmd
<1>7. num = IF kind = "command" THEN last.num + 1 ELSE last.num
  OBVIOUS
<1> HIDE DEF e, new, num
<1>8. /\ l1 \in Seq(Entries) /\ Len(l1) = n
      /\ \A j \in 1 .. n : l1[j] = IF j = n THEN e ELSE l[j]
  BY <1>2, <1>4, ExceptSeq
<1> HIDE DEF l1
<1>9. /\ l2 \in Seq(Entries) /\ Len(l2) = n + 1 /\ l2[n + 1] = new
      /\ \A j \in 1 .. n : l2[j] = IF j = n THEN e ELSE l[j]
  BY <1>2, <1>5, <1>8, AppendProperties
<1> HIDE DEF l2, n, last
<1>10. /\ y \in Interfaces /\ y.list = l2 /\ y.turfs = s.turfs /\ y.turf = s.turf /\ y.log = s.log
       /\ y.issued = s.issued
  BY <1>1, <1>6, <1>9 DEF Interfaces
<1>11. last = l[n] /\ n = Len(l)
  BY DEF last, n
<1>12. \A j \in 1 .. n : l2[j].id = l[j].id /\ l2[j].ref_count = l[j].ref_count /\ j \in 1 .. n + 1
  BY <1>2, <1>4, <1>9, <1>11
<1>13. \A j \in 1 .. n : l[j].id = l[1].id + (j - 1) /\ l[j].id # 0 /\ l[j].id \in Nat
  BY <1>1, <1>11, SettledNext
<1>14. \A j \in 1 .. n + 1 : j \in 1 .. n \/ j = n + 1
  BY <1>2
<1>15. ListRight(y)
  <2>1. \A j \in 1 .. n + 1 : l2[j].id = l2[1].id + (j - 1)
    <3>1. l2[1].id = l[1].id /\ l[1].id \in Nat
      BY <1>2, <1>12, <1>13
    <3>2. l2[n + 1].id = l2[1].id + ((n + 1) - 1)
      <4>1. l[n].id = l[1].id + (n - 1)
        BY <1>2, <1>13
      <4>2. l2[n + 1].id = l[n].id + 1
        <5>1. l2[n + 1] = new /\ new.id = last.id + 1 /\ last = l[n]
          BY <1>5, <1>9, <1>11
        <5> HIDE DEF l
        <5> QED
          BY <5>1
      <4>3. n \in Nat /\ l[1].id \in Nat /\ l2[1].id = l[1].id
        BY <1>2, <3>1
      <4> HIDE DEF l
      <4> QED
        BY <4>1, <4>2, <4>3
    <3>3. \A j \in 1 .. n : l2[j].id = l2[1].id + (j - 1)
      BY <1>12, <1>13, <3>1
    <3> QED
      BY <1>14, <3>2, <3>3
  <2>2. ASSUME NEW j \in 1 .. n
        PROVE  l2[j + 1].num = IF l2[j + 1].kind = "command" THEN l2[j].num + 1 ELSE l2[j].num
    <3>1. CASE j = n
      BY <1>2, <1>4, <1>5, <1>9, <3>1
    <3>2. CASE j # n
      <4>1. j \in 1 .. n - 1 /\ j + 1 \in 1 .. n /\ l2[j] = l[j]
        BY <1>2, <1>9, <3>2
      <4>2. l[j + 1].num = IF l[j + 1].kind = "command" THEN l[j].num + 1 ELSE l[j].num
        BY <1>1, <1>11, <4>1 DEF ListRight
      <4>3. CASE j + 1 = n
        <5>1. last.kind # "command" /\ last.num = l[j].num
          BY <1>1, <1>11, <4>2, <4>3 DEF ListRight
        <5>2. l2[j + 1] = e
          BY <1>9, <4>1, <4>3
        <5> QED
          BY <1>4, <1>7, <4>1, <5>1, <5>2
      <4>4. CASE j + 1 # n
        BY <1>9, <4>1, <4>2, <4>4
      <4> QED
        BY <4>3, <4>4
    <3> QED
      BY <3>1, <3>2
  <2>3. Len(l2) # 0 /\ l2[1].id # 0 /\ l2[Len(l2)].kind # "command"
    <3>1. Len(l2) = n + 1 /\ n \in Nat /\ l2[n + 1].kind = "blank"
      BY <1>2, <1>5, <1>9
    <3>2. l2[1].id # 0
      BY <1>2, <1>12, <1>13
    <3> HIDE DEF l
    <3> QED
      BY <3>1, <3>2
  <2>4. Len(l2) - 1 = n /\ Len(l2) = n + 1
    BY <1>2, <1>9
  <2> QED
    BY <1>10, <2>1, <2>2, <2>3, <2>4 DEF ListRight
<1>16. \A id : At(y, id) = At(s, id)
  BY <1>10 DEF At
<1>17. Counted(y)
  <2>1. \A j \in 1 .. n : l2[j].ref_count >= Cardinality(At(s, l2[j].id))
    BY <1>1, <1>11, <1>12 DEF Counted
  <2>2. At(s, new.id) = {}
    <3> SUFFICES ASSUME NEW t \in ToSet(s.turfs)
                 PROVE  s.turf[t].next # new.id
      BY DEF At
    <3>1. PICK j \in 1 .. n : s.turf[t].next = l[j].id
      BY <1>1, <1>11 DEF Placed
    <3>2. l[j].id = l[1].id + (j - 1) /\ l[n].id = l[1].id + (n - 1) /\ l[1].id \in Nat
      BY <1>2, <1>13
    <3> QED
      BY <1>2, <1>5, <1>11, <3>1, <3>2
  <2>3. new.ref_count >= Cardinality(At(s, new.id))
    BY <1>5, <2>2, FS_EmptySet
  <2>4. \A j \in 1 .. n + 1 : l2[j].ref_count >= Cardinality(At(s, l2[j].id))
    BY <1>9, <1>14, <2>1, <2>3
  <2> QED
    BY <1>9, <1>10, <1>16, <2>4 DEF Counted
<1>18. ASSUME NEW u \in ToSet(s.turfs)
       PROVE  Placed(y, u)
  <2>1. PICK j \in 1 .. n : /\ s.turf[u].next = l[j].id
                            /\ s.turf[u].written => j < n
                            /\ GivenTo(s.log[u], l[j], s.turf[u].written)
    BY <1>1, <1>11 DEF Placed
  <2>2. j \in 1 .. n + 1 /\ j < n + 1
    BY <1>2
  <2>3. GivenTo(s.log[u], l2[j], s.turf[u].written)
    <3>1. CASE j = n
      <4>1. last.kind # "command" /\ ~s.turf[u].written
        BY <1>1, <1>2, <1>11, <2>1, <3>1 DEF ListRight
      <4>2. s.log[u] # <<>> => last.num = s.log[u][Len(s.log[u])]
        BY <1>11, <2>1, <3>1, <4>1 DEF GivenTo
      <4>3. l2[j] = e
        BY <1>9, <3>1
      <4> QED
        BY <1>4, <1>7, <4>1, <4>2, <4>3 DEF GivenTo
    <3>2. CASE j # n
      <4>1. l2[j] = l[j]
        BY <1>9, <3>2
      <4> QED
        BY <2>1, <4>1
    <3> QED
      BY <3>1, <3>2
  <2>4. y.turf[u].next = l2[j].id
    BY <1>10, <1>12, <2>1
  <2> QED
    BY <1>9, <1>10, <2>2, <2>3, <2>4 DEF Placed
<1>19. Settled(y)
  BY <1>1, <1>10 DEF Settled
<1>20. FilledIn(y, s, kind)
  <2>1. \A j \in 1 .. n - 1 : j \in 1 .. n /\ l2[j] = l[j]
    BY <1>2, <1>9
  <2>2. l2[n] = e
    BY <1>2, <1>9
  <2>3. \A j \in 1 .. n : l2[j].id = l[j].id
    BY <1>12
  <2> HIDE DEF l
  <2>4. /\ e.kind = kind /\ e.num = IF kind = "command" THEN l[n].num + 1 ELSE l[n].num
        /\ l2[n + 1].kind = "blank" /\ l2[n + 1].num = e.num
    BY <1>4, <1>5, <1>7, <1>9, <1>11
  <2> QED
    BY <1>9, <1>10, <1>11, <2>1, <2>2, <2>3, <2>4 DEF FilledIn, l
<1> QED
  BY <1>10, <1>15, <1>17, <1>18, <1>19, <1>20 DEF CmdRight

(* The commands at the front that no driver is at are freed. *)
LEMMA CleanOutKeeps ==
  ASSUME CmdAssumption, NEW s, CmdRight(s), NEW y, y = CleanOut(s)
  PROVE  CmdRight(y) /\ y.turfs = s.turfs /\ CleanedOutOf(y, s)
<1>1. /\ s \in Interfaces /\ ListRight(s) /\ Counted(s) /\ Settled(s)
      /\ \A u \in ToSet(s.turfs) : Placed(s, u)
  BY DEF CmdRight
<1> DEFINE l == s.list
           n == Len(l)
           Keeps(i) == i = n \/ l[i].ref_count # 0
           keep == CHOOSE i \in 1 .. n : /\ i = Len(l) \/ l[i].ref_count # 0
                                         /\ \A j \in 1 .. i - 1 : l[j].ref_count = 0
           l1 == SubSeq(l, keep, Len(l))
<1>2. l \in Seq(Entries) /\ n \in Nat \ {0} /\ n \in 1 .. n /\ 1 \in 1 .. n
  BY <1>1, CmdTypes DEF ListRight
<1>3. \E i \in 1 .. n : /\ i = Len(l) \/ l[i].ref_count # 0
                        /\ \A j \in 1 .. i - 1 : l[j].ref_count = 0
  <2> DEFINE K == {i \in 1 .. n : i = n \/ l[i].ref_count # 0}
  <2>1. n \in K /\ K \subseteq Nat
    BY <1>2
  <2>2. PICK i \in K : \A j \in K : i <= j
    <3> HIDE DEF K
    <3> QED
      BY <2>1, LeastNatural
  <2>3. ASSUME NEW j \in 1 .. i - 1
        PROVE  l[j].ref_count = 0
    <3>1. j \in 1 .. n /\ ~(i <= j) /\ j # n
      BY <1>2, <2>2
    <3> QED
      BY <2>2, <3>1
  <2> QED
    BY <2>2, <2>3
<1>4. /\ keep \in 1 .. n
      /\ \A j \in 1 .. keep - 1 : l[j].ref_count = 0
  BY <1>3
<1>5. y = [s EXCEPT !.list = l1]
  BY DEF CleanOut
<1> HIDE DEF keep
<1>6. /\ l1 \in Seq(Entries) /\ Len(l1) = (n - keep) + 1
      /\ \A j \in 1 .. (n - keep) + 1 : l1[j] = l[j + (keep - 1)]
  BY <1>2, <1>4
<1> HIDE DEF l1, n
<1> DEFINE m == (n - keep) + 1
           at(j) == j + (keep - 1)
<1>7. /\ y \in Interfaces /\ y.list = l1 /\ y.turfs = s.turfs /\ y.turf = s.turf /\ y.log = s.log
      /\ y.issued = s.issued
  BY <1>1, <1>5, <1>6 DEF Interfaces
<1>8. \A j \in 1 .. m : l1[j] = l[at(j)] /\ at(j) \in 1 .. n /\ (at(j) = n <=> j = m)
  BY <1>2, <1>4, <1>6
<1>9. \A j \in 1 .. n : l[j].id = l[1].id + (j - 1) /\ l[j].id # 0 /\ l[j].id \in Nat
  BY <1>1, SettledNext DEF n
<1>10. ListRight(y)
  <2>1. m \in Nat \ {0} /\ 1 \in 1 .. m /\ m \in 1 .. m /\ Len(l1) = m
    BY <1>2, <1>4, <1>6
  <2>2. l1[1].id # 0 /\ l1[m].kind # "command"
    <3>1. l[n].kind # "command"
      BY <1>1 DEF ListRight, n
    <3> QED
      BY <1>8, <1>9, <2>1, <3>1
  <2>3. ASSUME NEW j \in 1 .. m
        PROVE  l1[j].id = l1[1].id + (j - 1)
    <3>1. l1[j].id = l[1].id + ((j + (keep - 1)) - 1) /\ l1[1].id = l[1].id + ((1 + (keep - 1)) - 1)
      BY <1>8, <1>9, <2>1
    <3>2. l[1].id \in Nat /\ keep \in Nat /\ j \in Nat
      BY <1>2, <1>4, <1>9, <2>1
    <3> HIDE DEF m
    <3> QED
      BY <3>1, <3>2
  <2>4. ASSUME NEW j \in 1 .. m - 1
        PROVE  l1[j + 1].num = IF l1[j + 1].kind = "command" THEN l1[j].num + 1 ELSE l1[j].num
    <3>1. j \in 1 .. m /\ j + 1 \in 1 .. m /\ at(j + 1) = at(j) + 1 /\ at(j) \in 1 .. n - 1
      BY <1>2, <1>4, <2>1
    <3>2. l1[j] = l[at(j)] /\ l1[j + 1] = l[at(j) + 1]
      BY <1>8, <3>1
    <3>3. \A k \in 1 .. n - 1 :
            l[k + 1].num = IF l[k + 1].kind = "command" THEN l[k].num + 1 ELSE l[k].num
      BY <1>1 DEF ListRight, n
    <3> HIDE DEF at
    <3> QED
      BY <3>1, <3>2, <3>3
  <2> HIDE DEF m
  <2> QED
    BY <1>7, <2>1, <2>2, <2>3, <2>4 DEF ListRight
<1>11. \A id : At(y, id) = At(s, id)
  BY <1>7 DEF At
<1>12. Counted(y)
  <2>1. \A j \in 1 .. n : l[j].ref_count >= Cardinality(At(s, l[j].id))
    BY <1>1 DEF Counted, n
  <2>2. \A j \in 1 .. m : l1[j].ref_count >= Cardinality(At(s, l1[j].id))
    BY <1>8, <2>1
  <2> QED
    BY <1>6, <1>7, <1>11, <2>2 DEF Counted
<1>13. ASSUME NEW u \in ToSet(s.turfs)
       PROVE  Placed(y, u)
  <2>1. PICK j \in 1 .. n : /\ s.turf[u].next = l[j].id
                            /\ s.turf[u].written => j < n
                            /\ GivenTo(s.log[u], l[j], s.turf[u].written)
    BY <1>1 DEF Placed, n
  <2>2. l[j].ref_count # 0
    BY <1>1, <2>1, CountedSome DEF n
  <2>3. ~(j \in 1 .. keep - 1)
    BY <1>4, <2>2
  <2> DEFINE k == j - (keep - 1)
  <2>4. k \in 1 .. m /\ at(k) = j /\ (j < n => k < m)
    BY <1>2, <1>4, <2>3
  <2>5. l1[k] = l[j]
    <3> HIDE DEF k, m
    <3> QED
      BY <1>8, <2>4
  <2> HIDE DEF k
  <2> QED
    BY <1>6, <1>7, <2>1, <2>4, <2>5 DEF Placed
<1>14. Settled(y)
  BY <1>1, <1>7 DEF Settled
<1>15. CleanedOutOf(y, s)
  <2>1. Len(y.list) = n - keep + 1 /\ \A j \in 1 .. Len(y.list) : y.list[j] = l[j + (keep - 1)]
    BY <1>2, <1>4, <1>6, <1>7
  <2> QED
    BY <1>4, <1>7, <2>1 DEF CleanedOutOf, n
<1> QED
  BY <1>7, <1>10, <1>12, <1>13, <1>14, <1>15 DEF CmdRight

(* Drivers are taken off the list; the commands they are at keep the references. *)
LEMMA DeleteKeeps ==
  ASSUME CmdAssumption, NEW s, CmdRight(s), NEW T, NEW y, y = Delete(s, T)
  PROVE  CmdRight(y) /\ Deleted(y, s, T)
<1>1. /\ s \in Interfaces /\ ListRight(s) /\ Counted(s) /\ Settled(s)
      /\ \A u \in ToSet(s.turfs) : Placed(s, u)
  BY DEF CmdRight
<1> DEFINE u1 == Only(s.turfs, Drivers \ T)
           tf == [t \in Drivers |-> IF t \notin T THEN s.turf[t]
                                    ELSE [s.turf[t] EXCEPT !.closing = FALSE, !.out = FALSE]]
<1>2. y = [s EXCEPT !.turfs = u1, !.turf = tf]
  BY DEF Delete
<1>3. s.turfs \in Seq(Drivers)
  BY <1>1, CmdTypes
<1>4. u1 \in Seq(Drivers) /\ ToSet(u1) \subseteq ToSet(s.turfs) /\ ToSet(u1) = ToSet(s.turfs) \ T
  <2>1. u1 \in Seq(Drivers) /\ Holds(u1, s.turfs, Drivers \ T, Len(s.turfs))
    BY <1>3, OnlyMembers
  <2>2. \A x \in ToSet(u1) : x \in ToSet(s.turfs)
    <3>1. DOMAIN u1 = 1 .. Len(u1) /\ DOMAIN s.turfs = 1 .. Len(s.turfs)
      BY <1>3, <2>1
    <3>2. \A x : (\E i \in 1 .. Len(u1) : u1[i] = x) => \E i \in 1 .. Len(s.turfs) : s.turfs[i] = x
      BY <2>1 DEF Holds
    <3> HIDE DEF u1
    <3> QED
      BY <3>1, <3>2 DEF ToSet
  <2>3. \A x : x \in ToSet(u1) <=> x \in ToSet(s.turfs) \ T
    <3>1. DOMAIN u1 = 1 .. Len(u1) /\ DOMAIN s.turfs = 1 .. Len(s.turfs)
      BY <1>3, <2>1
    <3>2. \A x : x \in ToSet(s.turfs) => x \in Drivers
      BY <1>1, ConnectedTypes
    <3>3. \A x : (\E i \in 1 .. Len(u1) : u1[i] = x) <=>
                 (x \in Drivers \ T /\ \E i \in 1 .. Len(s.turfs) : s.turfs[i] = x)
      BY <2>1 DEF Holds
    <3> HIDE DEF u1
    <3> QED
      BY <3>1, <3>2, <3>3 DEF ToSet
  <2> QED
    BY <2>1, <2>2, <2>3
<1>5. \A t \in Drivers : /\ tf[t] \in Turfs /\ tf[t].next = s.turf[t].next
                         /\ tf[t].written = s.turf[t].written
                         /\ t \notin T => tf[t] = s.turf[t]
                         /\ t \in T => ~tf[t].closing
  <2> SUFFICES ASSUME NEW t \in Drivers
               PROVE  /\ tf[t] \in Turfs /\ tf[t].next = s.turf[t].next
                      /\ tf[t].written = s.turf[t].written
                      /\ t \notin T => tf[t] = s.turf[t]
                      /\ t \in T => ~tf[t].closing
    <3> HIDE DEF tf
    <3> QED
      OBVIOUS
  <2>1. s.turf[t] \in Turfs
    BY <1>1, TurfTypes
  <2>2. tf[t] = IF t \notin T THEN s.turf[t]
                ELSE [s.turf[t] EXCEPT !.closing = FALSE, !.out = FALSE]
    OBVIOUS
  <2> HIDE DEF tf
  <2>3. CASE t \in T
    <3>1. tf[t] = [s.turf[t] EXCEPT !.closing = FALSE, !.out = FALSE]
      BY <2>2, <2>3
    <3> QED
      BY <2>1, <2>3, <3>1 DEF Turfs
  <2>4. CASE t \notin T
    BY <2>1, <2>2, <2>4
  <2> QED
    BY <2>3, <2>4
<1>6. tf \in [Drivers -> Turfs]
  BY <1>5
<1> HIDE DEF tf, u1
<1>7. /\ y \in Interfaces /\ y.list = s.list /\ y.turfs = u1 /\ y.turf = tf /\ y.log = s.log
      /\ y.issued = s.issued
  BY <1>1, <1>2, <1>4, <1>6 DEF Interfaces
<1>8. ListRight(y)
  BY <1>1, <1>7 DEF ListRight
<1>9. \A t \in ToSet(u1) : t \in Drivers /\ t \in ToSet(s.turfs)
  BY <1>1, <1>4, ConnectedTypes
<1>10. Counted(y)
  <2>1. ASSUME NEW id
        PROVE  Cardinality(At(y, id)) <= Cardinality(At(s, id))
    <3>1. At(y, id) \subseteq At(s, id)
      BY <1>5, <1>7, <1>9 DEF At
    <3> QED
      BY <1>1, <3>1, AtFinite, FS_Subset
  <2>2. \A id : Cardinality(At(y, id)) \in Nat /\ Cardinality(At(s, id)) \in Nat
    BY <1>1, <1>7, AtFinite
  <2>3. \A j \in 1 .. Len(s.list) : s.list[j].ref_count \in Nat
    BY <1>1, CmdTypes, EntryTypes
  <2> SUFFICES ASSUME NEW j \in 1 .. Len(s.list)
               PROVE  s.list[j].ref_count >= Cardinality(At(y, s.list[j].id))
    BY <1>7 DEF Counted
  <2>4. s.list[j].ref_count >= Cardinality(At(s, s.list[j].id))
    BY <1>1 DEF Counted
  <2> QED
    BY <2>1, <2>2, <2>3, <2>4
<1>11. ASSUME NEW t \in ToSet(y.turfs)
       PROVE  Placed(y, t)
  <2>1. t \in Drivers /\ Placed(s, t)
    BY <1>1, <1>7, <1>9
  <2> QED
    BY <1>5, <1>7, <2>1 DEF Placed
<1>12. Settled(y)
  BY <1>1, <1>5, <1>7 DEF Settled
<1>13. Deleted(y, s, T)
  BY <1>4, <1>5, <1>7 DEF Deleted
<1> QED
  BY <1>7, <1>8, <1>10, <1>11, <1>12, <1>13 DEF CmdRight

CmdInv == CmdRight(d)

(* What a driver that connects does to the interface. *)
Entered(y, s, t) ==
  /\ SameCommands(y.list, s.list) /\ y.log = s.log /\ y.issued = s.issued
  /\ ToSet(y.turfs) = ToSet(s.turfs) \cup {t}
  /\ \A u \in Drivers : u # t => y.turf[u] = s.turf[u]
  /\ y.turf[t].next = s.list[1].id /\ y.turf[t].from = s.issued
  /\ y.turf[t].closing = s.turf[t].closing /\ y.turf[t].written = s.turf[t].written

LEMMA CmdConnectKeeps ==
  ASSUME CmdAssumption, CmdInv, NEW t \in Drivers, CmdConnect(t)
  PROVE  CmdInv' /\ Entered(d', d, t)
<1> DEFINE l == d.list
           e == [l[1] EXCEPT !.ref_count = @ + 1]
           l1 == [l EXCEPT ![1] = e]
           u1 == Append(d.turfs, t)
           tf == [d.turf EXCEPT ![t] = [@ EXCEPT !.next = l[1].id, !.from = d.issued]]
           y == d'
<1>1. /\ d \in Interfaces /\ ListRight(d) /\ Counted(d) /\ Settled(d)
      /\ \A u \in ToSet(d.turfs) : Placed(d, u)
  BY DEF CmdInv, CmdRight
<1>2. /\ t \notin ToSet(d.turfs) /\ d.turf[t].next = 0
      /\ y = [d EXCEPT !.list[1].ref_count = @ + 1, !.turfs = Append(@, t),
                       !.turf[t].next = d.list[1].id, !.turf[t].from = d.issued]
  BY DEF CmdConnect, CmdConnected
<1>3. /\ l \in Seq(Entries) /\ 1 \in 1 .. Len(l) /\ d.turfs \in Seq(Drivers)
      /\ d.turf \in [Drivers -> Turfs] /\ d.issued \in Nat /\ d.sock \in [Drivers -> Nat]
      /\ d.log \in [Drivers -> Seq(Nat)] /\ Len(l) \in Nat
  BY <1>1, CmdTypes DEF ListRight
<1>4. l[1] \in Entries /\ l[1].ref_count \in Nat /\ l[1].id \in Nat /\ l[1].id # 0
  BY <1>1, <1>3, EntryTypes DEF ListRight
<1>5. /\ e \in Entries /\ e.ref_count = l[1].ref_count + 1 /\ e.id = l[1].id
      /\ e.kind = l[1].kind /\ e.num = l[1].num
  BY <1>4 DEF Entries
<1>6. /\ y.list = l1 /\ y.turf = tf
      /\ y = [list |-> y.list, turfs |-> u1, turf |-> y.turf, sock |-> d.sock,
              log |-> d.log, issued |-> d.issued]
  <2>1. d = [list |-> d.list, turfs |-> d.turfs, turf |-> d.turf, sock |-> d.sock,
             log |-> d.log, issued |-> d.issued]
    BY <1>1, RecordOf
  <2>2. y.list = [l EXCEPT ![1].ref_count = @ + 1]
    BY <1>2, <2>1
  <2>3. y.turf = [[d.turf EXCEPT ![t].next = l[1].id] EXCEPT ![t].from = d.issued]
    BY <1>2, <2>1
  <2>4. y = [list |-> y.list, turfs |-> u1, turf |-> y.turf, sock |-> d.sock,
             log |-> d.log, issued |-> d.issued]
    BY <1>2, <2>1
  <2>5. l1 = [l EXCEPT ![1].ref_count = @ + 1]
    BY <1>3
  <2>6. tf = [[d.turf EXCEPT ![t].next = l[1].id] EXCEPT ![t].from = d.issued]
    BY <1>3
  <2> HIDE DEF l1, tf, u1, y
  <2> QED
    BY <2>2, <2>3, <2>4, <2>5, <2>6
<1> HIDE DEF e, y
<1>7. /\ l1 \in Seq(Entries) /\ Len(l1) = Len(l)
      /\ \A j \in 1 .. Len(l) : l1[j] = IF j = 1 THEN e ELSE l[j]
  BY <1>3, <1>5, ExceptSeq
<1>8. /\ u1 \in Seq(Drivers) /\ \A x : x \in ToSet(u1) <=> x \in ToSet(d.turfs) \/ x = t
  <2>1. /\ u1 \in Seq(Drivers) /\ Len(u1) = Len(d.turfs) + 1 /\ u1[Len(d.turfs) + 1] = t
        /\ Len(d.turfs) \in Nat /\ \A j \in 1 .. Len(d.turfs) : u1[j] = d.turfs[j]
    BY <1>3
  <2> HIDE DEF u1
  <2>2. /\ \A j \in 1 .. Len(u1) : j \in 1 .. Len(d.turfs) \/ j = Len(d.turfs) + 1
        /\ \A j \in 1 .. Len(d.turfs) : j \in 1 .. Len(u1)
        /\ Len(d.turfs) + 1 \in 1 .. Len(u1)
    BY <2>1
  <2>3. \A x \in ToSet(u1) : x \in ToSet(d.turfs) \/ x = t
    BY <2>1, <2>2 DEF ToSet
  <2>4. t \in ToSet(u1) /\ \A x \in ToSet(d.turfs) : x \in ToSet(u1)
    BY <2>1, <2>2 DEF ToSet
  <2> QED
    BY <2>1, <2>3, <2>4
<1>9. /\ tf \in [Drivers -> Turfs] /\ tf[t].next = l[1].id
      /\ tf[t].written = d.turf[t].written /\ tf[t].closing = d.turf[t].closing
      /\ tf[t].from = d.issued
      /\ \A u \in Drivers : u # t => tf[u] = d.turf[u]
  <2>1. d.turf[t] \in Turfs
    BY <1>1, TurfTypes
  <2>2. [d.turf[t] EXCEPT !.next = l[1].id, !.from = d.issued] \in Turfs
    BY <1>3, <1>4, <2>1 DEF Turfs
  <2> QED
    BY <1>3, <2>1, <2>2 DEF Turfs
<1> HIDE DEF l1, tf, u1
<1>10. /\ y \in Interfaces /\ y.list = l1 /\ y.turfs = u1 /\ y.turf = tf /\ y.log = d.log
       /\ y.issued = d.issued
  <2>1. y = [list |-> l1, turfs |-> u1, turf |-> tf, sock |-> d.sock, log |-> d.log,
             issued |-> d.issued]
    BY <1>6
  <2> QED
    BY <1>3, <1>7, <1>8, <1>9, <2>1 DEF Interfaces
<1>11. \A j \in 1 .. Len(l) : /\ l1[j].id = l[j].id /\ l1[j].kind = l[j].kind /\ l1[j].num = l[j].num
                              /\ l1[j].ref_count = IF j = 1 THEN l[j].ref_count + 1
                                                   ELSE l[j].ref_count
  BY <1>5, <1>7
<1>12. ListRight(y)
  <2>1. /\ Len(l) # 0 /\ l[1].id # 0 /\ l[Len(l)].kind # "command"
        /\ \A j \in 1 .. Len(l) : l[j].id = l[1].id + (j - 1)
        /\ \A j \in 1 .. Len(l) - 1 :
             l[j + 1].num = IF l[j + 1].kind = "command" THEN l[j].num + 1 ELSE l[j].num
    BY <1>1 DEF ListRight
  <2>2. \A j \in 1 .. Len(l) - 1 : j \in 1 .. Len(l) /\ j + 1 \in 1 .. Len(l)
    BY <1>3
  <2>3. 1 \in 1 .. Len(l) /\ Len(l) \in 1 .. Len(l)
    BY <1>3
  <2> HIDE DEF l
  <2>4. \A j \in 1 .. Len(l) - 1 :
          l1[j + 1].num = IF l1[j + 1].kind = "command" THEN l1[j].num + 1 ELSE l1[j].num
    BY <1>11, <2>1, <2>2
  <2>5. \A j \in 1 .. Len(l) : l1[j].id = l1[1].id + (j - 1)
    BY <1>11, <2>1, <2>3
  <2>6. l1[1].id # 0 /\ l1[Len(l)].kind # "command"
    BY <1>11, <2>1, <2>3
  <2> QED
    BY <1>7, <1>10, <2>1, <2>4, <2>5, <2>6 DEF ListRight
<1>13. Counted(y)
  <2> SUFFICES ASSUME NEW j \in 1 .. Len(l)
               PROVE  l1[j].ref_count >= Cardinality(At(y, l[j].id))
    BY <1>7, <1>10, <1>11 DEF Counted
  <2>1. l[j].ref_count >= Cardinality(At(d, l[j].id)) /\ Cardinality(At(d, l[j].id)) \in Nat
    BY <1>1, AtFinite DEF Counted
  <2>2. l[j].ref_count \in Nat
    BY <1>3, EntryTypes
  <2>3. CASE j = 1
    <3>1. At(y, l[1].id) = At(d, l[1].id) \cup {t} /\ t \notin At(d, l[1].id)
      <4>1. \A x \in ToSet(d.turfs) : x \in Drivers /\ x # t
        BY <1>1, <1>2, ConnectedTypes
      <4> QED
        BY <1>8, <1>9, <1>10, <4>1 DEF At
    <3>2. Cardinality(At(d, l[1].id) \cup {t}) = Cardinality(At(d, l[1].id)) + 1
      BY <1>1, <3>1, AtFinite, FS_AddElement
    <3>3. l1[1].ref_count = l[1].ref_count + 1
      BY <1>3, <1>11
    <3> QED
      BY <2>1, <2>2, <2>3, <3>1, <3>2, <3>3
  <2>4. CASE j # 1
    <3>1. l[j].id # l[1].id
      <4>1. l[j].id = l[1].id + (j - 1) /\ l[1].id \in Nat
        BY <1>1, <1>4, SettledNext
      <4> QED
        BY <2>4, <4>1
    <3>2. At(y, l[j].id) = At(d, l[j].id)
      <4>1. \A x \in ToSet(d.turfs) : x \in Drivers /\ x # t
        BY <1>1, <1>2, ConnectedTypes
      <4> QED
        BY <1>8, <1>9, <1>10, <3>1, <4>1 DEF At
    <3> QED
      BY <1>11, <2>1, <2>4, <3>2
  <2> QED
    BY <2>3, <2>4
<1>14. ASSUME NEW u \in ToSet(u1)
       PROVE  Placed(y, u)
  <2>1. CASE u = t
    <3>1. d.log[t] = <<>> /\ ~tf[t].written
      BY <1>1, <1>2, <1>9 DEF Settled
    <3>2. GivenTo(d.log[t], l1[1], tf[t].written)
      BY <3>1 DEF GivenTo
    <3>3. tf[t].next = l1[1].id
      BY <1>3, <1>9, <1>11
    <3> QED
      BY <1>3, <1>7, <1>10, <2>1, <3>1, <3>2, <3>3 DEF Placed
  <2>2. CASE u # t
    <3>1. u \in ToSet(d.turfs) /\ u \in Drivers
      BY <1>1, <1>8, <2>2, ConnectedTypes
    <3>2. PICK j \in 1 .. Len(l) : /\ d.turf[u].next = l[j].id
                                   /\ d.turf[u].written => j < Len(l)
                                   /\ GivenTo(d.log[u], l[j], d.turf[u].written)
      BY <1>1, <3>1 DEF Placed
    <3>3. l1[j].id = l[j].id /\ GivenTo(d.log[u], l1[j], d.turf[u].written)
      BY <1>11, <3>2 DEF GivenTo
    <3>4. tf[u] = d.turf[u]
      BY <1>9, <2>2, <3>1
    <3> QED
      BY <1>7, <1>10, <3>2, <3>3, <3>4 DEF Placed
  <2> QED
    BY <2>1, <2>2
<1>15. Settled(y)
  <2>1. ASSUME NEW u \in Drivers
        PROVE  Ordered(d.log[u]) /\ (tf[u].next = 0 => ~tf[u].written /\ d.log[u] = <<>>)
    <3>1. CASE u = t
      BY <1>1, <1>4, <1>9, <3>1 DEF Settled
    <3>2. CASE u # t
      BY <1>1, <1>9, <3>2 DEF Settled
    <3> QED
      BY <3>1, <3>2
  <2> QED
    BY <1>10, <2>1 DEF Settled
<1>16. CmdRight(y)
  BY <1>10, <1>12, <1>13, <1>14, <1>15 DEF CmdRight
<1>17. Entered(y, d, t)
  <2>1. SameCommands(y.list, d.list)
    BY <1>7, <1>10, <1>11 DEF SameCommands
  <2>2. ToSet(u1) = ToSet(d.turfs) \cup {t}
    BY <1>8
  <2> QED
    BY <1>9, <1>10, <2>1, <2>2 DEF Entered
<1>18. CmdInv'
  BY <1>16 DEF y, CmdInv, CmdRight, Interfaces, ListRight, Counted, Placed, Settled, At, GivenTo
<1> QED
  BY <1>17, <1>18 DEF y

(* What changes neither list nor places nor logs. *)
LEMMA SameKeeps ==
  ASSUME NEW s, CmdRight(s), NEW y \in Interfaces, y.list = s.list, y.turfs = s.turfs,
         y.log = s.log,
         \A t \in Drivers : /\ y.turf[t].next = s.turf[t].next
                            /\ y.turf[t].written = s.turf[t].written
  PROVE  CmdRight(y)
<1>1. /\ s \in Interfaces /\ ListRight(s) /\ Counted(s) /\ Settled(s)
      /\ \A u \in ToSet(s.turfs) : Placed(s, u)
  BY DEF CmdRight
<1>2. \A t \in ToSet(s.turfs) : t \in Drivers
  BY <1>1, ConnectedTypes
<1>3. \A id : At(y, id) = At(s, id)
  BY <1>2 DEF At
<1>4. ListRight(y) /\ Counted(y)
  BY <1>1, <1>3 DEF ListRight, Counted
<1>5. \A t \in ToSet(y.turfs) : Placed(y, t)
  BY <1>1, <1>2 DEF Placed
<1>6. Settled(y)
  BY <1>1 DEF Settled
<1> QED
  BY <1>4, <1>5, <1>6 DEF CmdRight

LEMMA ClearDeletedKeeps ==
  ASSUME CmdAssumption, NEW s, CmdRight(s)
  PROVE  CmdRight(ClearDeleted(s))
BY DeleteKeeps DEF ClearDeleted

LEMMA TurfKeeps ==
  ASSUME CmdAssumption, NEW s, CmdRight(s), NEW kind \in {"command", "close"}
  PROVE  CmdRight(Turf(s, kind))
<1>1. CmdRight(Filled(s, kind))
  BY FilledKeeps
<1>2. CmdRight(CheckAll(Filled(s, kind)))
  BY <1>1, CheckAllKeeps
<1>3. CmdRight(CleanOut(CheckAll(Filled(s, kind))))
  BY <1>2, CleanOutKeeps
<1> QED
  BY <1>3 DEF Turf

LEMMA WritableKeeps ==
  ASSUME CmdAssumption, CmdInv, NEW t \in Drivers, Writable(t)
  PROVE  CmdRight(d')
<1> DEFINE tf == [d.turf EXCEPT ![t] = [@ EXCEPT !.out = FALSE]]
           sock == [d.sock EXCEPT ![t] = @ + 1]
           s == [d EXCEPT !.turf[t].out = FALSE, !.sock[t] = @ + 1]
<1>1. d \in Interfaces /\ CmdRight(d) /\ t \in ToSet(d.turfs) /\ d' = ClearDeleted(TurfCheck(s, t))
  BY DEF Writable, CanWrite, CmdConnected, CmdInv, CmdRight
<1>2. d.turf \in [Drivers -> Turfs] /\ d.sock \in [Drivers -> Nat]
  BY <1>1, CmdTypes
<1>3. d.turf[t] \in Turfs /\ d.sock[t] \in Nat
  BY <1>2
<1>4. s = [d EXCEPT !.turf = tf, !.sock = sock]
  BY <1>1, <1>2 DEF Interfaces
<1>5. /\ tf \in [Drivers -> Turfs]
      /\ \A u \in Drivers : tf[u].next = d.turf[u].next /\ tf[u].written = d.turf[u].written
  <2>1. [d.turf[t] EXCEPT !.out = FALSE] \in Turfs
    BY <1>3 DEF Turfs
  <2> QED
    BY <1>2, <1>3, <2>1 DEF Turfs
<1>6. sock \in [Drivers -> Nat]
  BY <1>2, <1>3
<1> HIDE DEF s, tf, sock
<1>7. /\ s \in Interfaces /\ s.list = d.list /\ s.turfs = d.turfs /\ s.log = d.log
      /\ s.turf = tf
  BY <1>1, <1>4, <1>5, <1>6 DEF Interfaces
<1>8. CmdRight(s)
  BY <1>1, <1>5, <1>7, SameKeeps
<1>9. CmdRight(TurfCheck(s, t))
  BY <1>1, <1>7, <1>8, TurfCheckKeeps
<1>10. CmdRight(ClearDeleted(TurfCheck(s, t)))
  BY <1>9, ClearDeletedKeeps
<1> QED
  BY <1>1, <1>10

LEMMA CommandKeeps ==
  ASSUME CmdAssumption, CmdInv, ClientCommand
  PROVE  CmdRight(d')
<1> DEFINE s == [d EXCEPT !.issued = @ + 1]
<1>1. d \in Interfaces /\ CmdRight(d) /\ d' = ClearDeleted(Turf(s, "command"))
  BY DEF ClientCommand, CmdInv, CmdRight
<1>2. d.issued \in Nat
  BY <1>1, CmdTypes
<1>3. /\ s \in Interfaces /\ s.list = d.list /\ s.turfs = d.turfs /\ s.log = d.log
      /\ s.turf = d.turf
  <2> DEFINE k == d.issued + 1
  <2>1. s = [d EXCEPT !.issued = k] /\ k \in Nat
    BY <1>2
  <2> HIDE DEF s, k
  <2> QED
    BY <1>1, <2>1 DEF Interfaces
<1> HIDE DEF s
<1>4. CmdRight(s)
  BY <1>1, <1>3, SameKeeps
<1>5. CmdRight(Turf(s, "command"))
  BY <1>4, TurfKeeps
<1> QED
  BY <1>1, <1>5, ClearDeletedKeeps

LEMMA ReadsKeeps ==
  ASSUME CmdAssumption, CmdInv, NEW t \in Drivers, DriverReads(t)
  PROVE  CmdRight(d')
<1> DEFINE sock == [d.sock EXCEPT ![t] = @ - 1]
<1>1. d \in Interfaces /\ CmdRight(d) /\ d.sock[t] > 0 /\ d' = [d EXCEPT !.sock[t] = @ - 1]
  BY DEF DriverReads, CmdInv, CmdRight
<1>2. d.sock \in [Drivers -> Nat] /\ d.sock[t] - 1 \in Nat
  <2>1. d.sock \in [Drivers -> Nat]
    BY <1>1, CmdTypes
  <2>2. d.sock[t] \in Nat
    BY <2>1
  <2> QED
    BY <1>1, <2>1, <2>2
<1>3. sock \in [Drivers -> Nat]
  BY <1>2
<1>4. d' = [d EXCEPT !.sock = sock]
  BY <1>1, <1>2 DEF Interfaces
<1> HIDE DEF sock
<1> DEFINE y == d'
<1>5. /\ y \in Interfaces /\ y.list = d.list /\ y.turfs = d.turfs /\ y.log = d.log
      /\ y.turf = d.turf
  BY <1>1, <1>3, <1>4 DEF Interfaces
<1> HIDE DEF y
<1>6. CmdRight(y)
  BY <1>1, <1>5, SameKeeps
<1> QED
  BY <1>6 DEF y

LEMMA InitCmdInv ==
  ASSUME CmdAssumption, CmdInit
  PROVE  CmdInv
<1> DEFINE e == NewCommand(1, 0)
           l == <<e>>
           tf == [t \in Drivers |-> [next |-> 0, written |-> FALSE, out |-> FALSE,
                                     closing |-> FALSE, from |-> 0]]
<1>1. d = [list |-> l, turfs |-> <<>>, turf |-> tf, sock |-> [t \in Drivers |-> 0],
           log |-> [t \in Drivers |-> <<>>], issued |-> 0]
  BY DEF CmdInit
<1>2. e \in Entries /\ e.id = 1 /\ e.kind = "blank"
  BY DEF NewCommand, Entries, Kinds
<1>3. l \in Seq(Entries) /\ Len(l) = 1 /\ l[1] = e
  <2> HIDE DEF e
  <2> QED
    BY <1>2
<1>4. tf \in [Drivers -> Turfs] /\ \A t \in Drivers : ~tf[t].written
  BY DEF Turfs
<1>5. <<>> \in Seq(Drivers) /\ [t \in Drivers |-> <<>>] \in [Drivers -> Seq(Nat)]
  OBVIOUS
<1> HIDE DEF e, l, tf
<1>6. /\ d \in Interfaces /\ d.list = l /\ d.turfs = <<>> /\ d.turf = tf
      /\ d.log = [t \in Drivers |-> <<>>]
  BY <1>1, <1>3, <1>4, <1>5 DEF Interfaces
<1>7. ToSet(d.turfs) = {}
  BY <1>6 DEF ToSet
<1>8. ListRight(d)
  <2>1. \A i \in 1 .. Len(l) : i = 1
    BY <1>3
  <2>2. 1 .. Len(l) - 1 = {}
    BY <1>3
  <2>3. \A i \in 1 .. Len(l) : l[i].id = l[1].id + (i - 1)
    <3>1. l[1].id = l[1].id + (1 - 1)
      BY <1>2, <1>3
    <3> QED
      BY <2>1, <3>1
  <2>4. Len(l) # 0 /\ l[1].id # 0 /\ l[Len(l)].kind # "command"
    BY <1>2, <1>3
  <2> QED
    BY <1>6, <2>2, <2>3, <2>4 DEF ListRight
<1>9. Counted(d)
  <2>1. \A id : At(d, id) = {}
    BY <1>7 DEF At
  <2>2. l[1].ref_count \in Nat
    BY <1>2, <1>3 DEF Entries
  <2> QED
    <3>1. \A i \in 1 .. Len(l) : i = 1
      BY <1>3
    <3>2. Cardinality(At(d, l[1].id)) = 0
      BY <2>1, FS_EmptySet
    <3> QED
      BY <1>6, <2>2, <3>1, <3>2 DEF Counted
<1>10. Settled(d)
  <2>1. Ordered(<<>>)
    BY DEF Ordered
  <2> QED
    BY <1>4, <1>6, <2>1 DEF Settled
<1> QED
  BY <1>6, <1>7, <1>8, <1>9, <1>10 DEF CmdInv, CmdRight

(* In every reachable state: the commands in the list are numbered one by one,
   each counts the drivers at it, and each driver has been given those up to its
   place, in order. *)
THEOREM CmdInvariance ==
  CmdAssumption => (CmdSpec => []CmdInv)
<1> SUFFICES ASSUME CmdAssumption
             PROVE  CmdSpec => []CmdInv
  OBVIOUS
<1>1. CmdInit => CmdInv
  BY InitCmdInv
<1>2. CmdInv /\ [CmdNext]_cmdvars => CmdInv'
  <2> SUFFICES ASSUME CmdInv, [CmdNext]_cmdvars
               PROVE  CmdInv'
    OBVIOUS
  <2>0. CmdRight(d) /\ (CmdRight(d') => CmdInv')
    BY DEF CmdInv, CmdRight, Interfaces, ListRight, Counted, Placed, Settled, At, GivenTo
  <2>1. CASE \E t \in Drivers : CmdConnect(t)
    BY <2>1, CmdConnectKeeps
  <2>2. CASE \E t \in Drivers : Writable(t) \/ DriverReads(t)
    BY <2>0, <2>2, WritableKeeps, ReadsKeeps
  <2>3. CASE ClientCommand
    BY <2>0, <2>3, CommandKeeps
  <2>4. CASE \E c \in Receivers : Quit(c)
    <3>1. d' = ClearDeleted(Turf(d, "close"))
      BY <2>4 DEF Quit
    <3>2. CmdRight(ClearDeleted(Turf(d, "close")))
      BY <2>0, TurfKeeps, ClearDeletedKeeps
    <3> QED
      BY <2>0, <3>1, <3>2
  <2>5. CASE Stop \/ \E t \in Drivers : Leave(t)
    <3>1. \E T : d' = Delete(d, T)
      BY <2>5 DEF Stop, Leave
    <3> QED
      BY <2>0, <3>1, DeleteKeeps
  <2>6. CASE CmdInterrupt \/ (\E c \in Receivers : ReplyOut(c)) \/ UNCHANGED cmdvars
    <3>1. d' = d
      BY <2>6 DEF CmdInterrupt, ReplyOut, cmdvars
    <3> QED
      BY <2>0, <3>1
  <2> QED
    BY <2>1, <2>2, <2>3, <2>4, <2>5, <2>6 DEF CmdNext
<1> QED
  BY <1>1, <1>2, PTL DEF CmdSpec

(* Command server: the command a driver is at stays in the list and counts it,
   for any number of drivers, commands and receivers. *)
THEOREM CmdCommandKept ==
  CmdAssumption => (CmdSpec => []CommandKept)
<1>1. CmdInv => CommandKept
  <2> SUFFICES ASSUME CmdInv, NEW t \in CmdConnected
               PROVE  \E i \in 1 .. Len(d.list) :
                        /\ d.list[i].id = d.turf[t].next
                        /\ d.list[i].ref_count >=
                             Cardinality({u \in CmdConnected : d.turf[u].next = d.list[i].id})
    BY DEF CommandKept
  <2>1. Counted(d) /\ Placed(d, t)
    BY DEF CmdInv, CmdRight, CmdConnected
  <2>2. PICK i \in 1 .. Len(d.list) : d.turf[t].next = d.list[i].id
    BY <2>1 DEF Placed
  <2>3. d.list[i].ref_count >= Cardinality(At(d, d.list[i].id))
    BY <2>1 DEF Counted
  <2>4. At(d, d.list[i].id) = {u \in CmdConnected : d.turf[u].next = d.list[i].id}
    BY DEF At, CmdConnected
  <2> QED
    BY <2>2, <2>3, <2>4
<1> QED
  BY <1>1, CmdInvariance, PTL

(* Command server: a driver is given each command once and in order. *)
THEOREM CmdInOrder ==
  CmdAssumption => (CmdSpec => []InOrder)
<1>1. CmdInv => InOrder
  BY DEF CmdInv, CmdRight, Settled, Ordered, InOrder
<1> QED
  BY <1>1, CmdInvariance, PTL

(* The numbers do not fall along the list. *)
LEMMA NumbersGrow ==
  ASSUME NEW s \in Interfaces, ListRight(s), NEW i \in 1 .. Len(s.list), NEW j \in 1 .. i
  PROVE  s.list[j].num <= s.list[i].num
<1> DEFINE l == s.list
           n == Len(l) - j
           T == {k \in 0 .. n : l[j].num <= l[j + k].num}
<1>1. l \in Seq(Entries) /\ Len(l) \in Nat /\ n \in Nat /\ j \in Nat /\ j \in 1 .. Len(l)
  BY CmdTypes
<1>2. \A k \in 1 .. Len(l) : l[k].num \in Nat
  BY <1>1, EntryTypes
<1>3. 0 \in T
  BY <1>1, <1>2
<1>4. ASSUME NEW k \in 1 .. n, k - 1 \in T
      PROVE  k \in T
  <2>1. /\ k \in 0 .. n /\ j + (k - 1) \in 1 .. Len(l) - 1 /\ j + k \in 1 .. Len(l)
        /\ (j + (k - 1)) + 1 = j + k /\ j + (k - 1) \in 1 .. Len(l)
    BY <1>1
  <2>2. l[j + k].num = IF l[j + k].kind = "command" THEN l[j + (k - 1)].num + 1
                       ELSE l[j + (k - 1)].num
    <3>1. \A m \in 1 .. Len(l) - 1 :
            l[m + 1].num = IF l[m + 1].kind = "command" THEN l[m].num + 1 ELSE l[m].num
      BY DEF ListRight
    <3>2. l[(j + (k - 1)) + 1].num =
            IF l[(j + (k - 1)) + 1].kind = "command" THEN l[j + (k - 1)].num + 1
            ELSE l[j + (k - 1)].num
      BY <2>1, <3>1
    <3> QED
      BY <2>1, <3>2
  <2>3. l[j].num <= l[j + (k - 1)].num
    BY <1>4
  <2>4. l[j].num \in Nat /\ l[j + (k - 1)].num \in Nat /\ l[j + k].num \in Nat
    BY <1>1, <1>2, <2>1
  <2>5. l[j].num <= l[j + k].num
    <3> HIDE DEF l
    <3>1. l[j + (k - 1)].num <= l[j + k].num
      BY <2>2, <2>4
    <3>2. \A a, b, c \in Nat : a <= b /\ b <= c => a <= c
      OBVIOUS
    <3> QED
      BY <2>3, <2>4, <3>1, <3>2, Zenon
  <2> QED
    BY <2>1, <2>5
<1>5. 0 .. n \subseteq T
  <2> HIDE DEF T, n
  <2> QED
    BY <1>1, <1>3, <1>4, Upwards
<1>6. i - j \in 0 .. n /\ j + (i - j) = i
  BY <1>1
<1>7. i - j \in T
  BY <1>5, <1>6
<1> QED
  BY <1>6, <1>7

(* A command is filled in: those at it have yet to be given it. *)
LEMMA FilledStands ==
  ASSUME NEW s, CmdRight(s), NEW kind \in {"command", "close"},
         kind = "command" => s.list[Len(s.list)].num < s.issued,
         NEW y, CmdRight(y), y.turfs = s.turfs, FilledIn(y, s, kind), AllStand(s)
  PROVE  AllStand(y)
<1> DEFINE n == Len(s.list)
<1>1. /\ s \in Interfaces /\ y \in Interfaces /\ ListRight(s) /\ ToBeFilled(s)
      /\ \A t \in ToSet(s.turfs) : Placed(s, t) /\ Standing(s, t)
  BY DEF CmdRight, AllStand
<1>2. /\ s.list \in Seq(Entries) /\ n \in 1 .. n /\ n \in Nat /\ s.issued \in Nat
      /\ s.list[n].num \in Nat
  <2>1. s.list \in Seq(Entries) /\ n \in 1 .. n /\ n \in Nat /\ s.issued \in Nat
    BY <1>1, CmdTypes DEF ListRight
  <2> QED
    BY <2>1, EntryTypes
<1>3. /\ Len(y.list) = n + 1 /\ y.turf = s.turf /\ y.log = s.log /\ y.issued = s.issued
      /\ \A j \in 1 .. n : y.list[j].id = s.list[j].id
      /\ \A j \in 1 .. n - 1 : y.list[j] = s.list[j]
      /\ y.list[n].kind = kind
      /\ y.list[n].num = IF kind = "command" THEN s.list[n].num + 1 ELSE s.list[n].num
      /\ y.list[n + 1].kind = "blank" /\ y.list[n + 1].num = y.list[n].num
  BY DEF FilledIn
<1>4. s.list[n].kind = "blank" /\ s.list[n].num <= s.issued
  BY <1>1, <1>2 DEF ToBeFilled
<1>5. \A j \in 1 .. n - 1 : s.list[j].kind # "blank"
  BY <1>1, <1>2 DEF ToBeFilled
<1> HIDE DEF n
<1>6. ToBeFilled(y)
  <2>1. \A j \in 1 .. n + 1 : j \in 1 .. n - 1 \/ j = n \/ j = n + 1
    BY <1>2
  <2>2. \A j \in 1 .. n - 1 : j # n + 1
    BY <1>2
  <2>3. n # n + 1
    BY <1>2
  <2>4. \A j \in 1 .. n + 1 : y.list[j].kind = "blank" <=> j = n + 1
    BY <1>3, <1>5, <2>1, <2>2, <2>3
  <2>5. y.list[n + 1].num <= y.issued
    BY <1>2, <1>3, <1>4 DEF n
  <2> QED
    BY <1>3, <2>4, <2>5 DEF ToBeFilled
<1>7. ASSUME NEW t \in ToSet(s.turfs)
      PROVE  Standing(y, t)
  <2>1. PICK i \in 1 .. n : s.turf[t].next = s.list[i].id /\ Covered(s, t, i) /\ Passed(s, t, i)
    BY <1>1 DEF Standing, n
  <2>2. i = n => ~s.turf[t].written
    <3>1. PICK j \in 1 .. n : s.turf[t].next = s.list[j].id /\ (s.turf[t].written => j < n)
      BY <1>1 DEF Placed, n
    <3>2. Place(s, t) = i /\ Place(s, t) = j
      BY <1>1, <2>1, <3>1, PlaceIs DEF n
    <3>3. i = j /\ ~(n < n)
      BY <1>2, <3>2
    <3> QED
      BY <3>1, <3>3
  <2>3. /\ i \in 1 .. n + 1 /\ i \in Nat /\ n \in Nat
        /\ \A c \in 1 .. i : c \in 1 .. n - 1 \/ (c = n /\ i = n)
        /\ i \in 1 .. n - 1 \/ i = n
    BY <1>2
  <2>4. Covered(y, t, i)
    <3>1. CASE i = n
      <4> SUFFICES ASSUME NEW m \in Nat, s.turf[t].from < m, m <= y.list[n].num,
                          kind = "command" => m # y.list[n].num
                   PROVE  m \in ToSet(s.log[t])
        BY <1>3, <2>2, <3>1 DEF Covered
      <4>1. m <= s.list[n].num
        BY <1>2, <1>3
      <4> QED
        BY <1>4, <2>1, <3>1, <4>1 DEF Covered
    <3>2. CASE i \in 1 .. n - 1
      BY <1>3, <2>1, <3>2 DEF Covered
    <3> QED
      BY <2>3, <3>1, <3>2
  <2>5. Passed(y, t, i)
    <3>1. CASE s.turf[t].closing
      <4>1. PICK c \in 1 .. i : s.list[c].kind = "close" /\ (c = i => s.turf[t].written)
        BY <2>1, <3>1 DEF Passed
      <4>2. c \in 1 .. n - 1
        BY <1>4, <2>3, <4>1
      <4> QED
        BY <1>3, <3>1, <4>1, <4>2 DEF Passed
    <3>2. CASE ~s.turf[t].closing
      <4>1. ASSUME NEW c \in 1 .. i, y.list[c].kind = "close"
            PROVE  c = i /\ ~s.turf[t].written
        <5>1. CASE c \in 1 .. n - 1
          BY <1>3, <2>1, <3>2, <4>1, <5>1 DEF Passed
        <5>2. CASE c = n /\ i = n
          BY <2>2, <5>2
        <5> QED
          BY <2>3, <5>1, <5>2
      <4> QED
        BY <1>3, <3>2, <4>1 DEF Passed
    <3> QED
      BY <3>1, <3>2
  <2> QED
    BY <1>3, <2>1, <2>3, <2>4, <2>5 DEF Standing
<1> QED
  BY <1>6, <1>7 DEF AllStand

(* Those that are not closing, when what is left behind is freed. *)
LEMMA CleanedStands ==
  ASSUME NEW s, CmdRight(s), NEW y, CmdRight(y), y.turfs = s.turfs, CleanedOutOf(y, s),
         AllStand(s)
  PROVE  /\ ToBeFilled(y)
         /\ \A t \in ToSet(y.turfs) : ~y.turf[t].closing => Standing(y, t)
<1> DEFINE n == Len(s.list)
           m == Len(y.list)
<1>1. /\ s \in Interfaces /\ y \in Interfaces /\ ListRight(s) /\ ToBeFilled(s)
      /\ \A t \in ToSet(s.turfs) : Placed(y, t) /\ Standing(s, t)
      /\ y.turf = s.turf /\ y.log = s.log /\ y.issued = s.issued
  BY DEF CmdRight, AllStand, CleanedOutOf
<1>2. n \in Nat /\ n \in 1 .. n
  BY <1>1, CmdTypes DEF ListRight
<1>3. PICK keep \in 1 .. n : m = n - keep + 1 /\ \A j \in 1 .. m : y.list[j] = s.list[j + (keep - 1)]
  BY DEF CleanedOutOf
<1> HIDE DEF n, m
<1>4. /\ \A j \in 1 .. m : j + (keep - 1) \in 1 .. n /\ (j + (keep - 1) = n <=> j = m)
      /\ m \in 1 .. m /\ m \in Nat
  BY <1>2, <1>3
<1>5. ToBeFilled(y)
  <2>1. \A j \in 1 .. m : y.list[j].kind = "blank" <=> j = m
    BY <1>1, <1>3, <1>4 DEF ToBeFilled, n
  <2>2. y.list[m].num <= y.issued
    <3>1. y.list[m] = s.list[n]
      BY <1>3, <1>4
    <3> QED
      BY <1>1, <3>1 DEF ToBeFilled, n
  <2> QED
    BY <2>1, <2>2 DEF ToBeFilled, m
<1>6. ASSUME NEW t \in ToSet(y.turfs), ~y.turf[t].closing
      PROVE  Standing(y, t)
  <2>1. PICK i \in 1 .. n : s.turf[t].next = s.list[i].id /\ Covered(s, t, i) /\ Passed(s, t, i)
    BY <1>1 DEF Standing, n
  <2>2. PICK j \in 1 .. m : y.turf[t].next = y.list[j].id
    BY <1>1 DEF Placed, m
  <2>3. j + (keep - 1) = i
    <3>1. s.turf[t].next = s.list[j + (keep - 1)].id /\ j + (keep - 1) \in 1 .. n
      BY <1>1, <1>3, <1>4, <2>2
    <3> HIDE DEF n
    <3>2. Place(s, t) = j + (keep - 1) /\ Place(s, t) = i
      BY <1>1, <2>1, <3>1, PlaceIs DEF n
    <3> QED
      BY <3>2
  <2>4. Covered(y, t, j)
    <3>1. y.list[j] = s.list[i]
      BY <1>3, <2>3
    <3> QED
      BY <1>1, <2>1, <3>1 DEF Covered
  <2>5. Passed(y, t, j)
    <3>1. ASSUME NEW c \in 1 .. j, y.list[c].kind = "close"
          PROVE  c = j /\ ~y.turf[t].written
      <4>1. c \in 1 .. m /\ c + (keep - 1) \in 1 .. i /\ (c + (keep - 1) = i => c = j)
        BY <1>3, <1>4, <2>3
      <4>2. s.list[c + (keep - 1)].kind = "close"
        BY <1>3, <3>1, <4>1
      <4> QED
        BY <1>1, <1>6, <2>1, <4>1, <4>2 DEF Passed
    <3> QED
      BY <1>6, <3>1 DEF Passed
  <2> QED
    BY <2>2, <2>4, <2>5 DEF Standing, m
<1> QED
  BY <1>5, <1>6

NoneCloses(s) == \A t \in Drivers : ~s.turf[t].closing

(* The end of a pass: those that close are gone, and the others stand. *)
LEMMA PassEnds ==
  ASSUME CmdAssumption, NEW s, CmdRight(s), ToBeFilled(s),
         \A t \in ToSet(s.turfs) : ~s.turf[t].closing => Standing(s, t),
         \A t \in Drivers : t \notin ToSet(s.turfs) => ~s.turf[t].closing,
         NEW y, y = ClearDeleted(s)
  PROVE  /\ CmdRight(y) /\ AllStand(y) /\ NoneCloses(y) /\ y.log = s.log
         /\ \A t \in ToSet(s.turfs) : t \notin ToSet(y.turfs) => s.turf[t].closing
<1> DEFINE T == {t \in ToSet(s.turfs) : s.turf[t].closing}
<1>1. y = Delete(s, T)
  BY DEF ClearDeleted
<1> HIDE DEF T
<1>2. CmdRight(y) /\ Deleted(y, s, T)
  BY <1>1, DeleteKeeps
<1>3. /\ y.list = s.list /\ y.log = s.log /\ y.issued = s.issued
      /\ ToSet(y.turfs) = ToSet(s.turfs) \ T
  BY <1>2 DEF Deleted
<1>4. NoneCloses(y)
  BY <1>2 DEF Deleted, NoneCloses, T
<1>5. ASSUME NEW t \in ToSet(y.turfs)
      PROVE  Standing(y, t)
  <2>1. t \in ToSet(s.turfs) /\ t \notin T /\ t \in Drivers
    BY <1>3, ConnectedTypes DEF CmdRight
  <2>2. ~s.turf[t].closing /\ Standing(s, t)
    BY <2>1 DEF T
  <2>3. y.turf[t] = s.turf[t]
    BY <1>2, <2>1 DEF Deleted
  <2>4. SameCommands(y.list, s.list)
    BY <1>3 DEF SameCommands
  <2> QED
    BY <1>3, <2>2, <2>3, <2>4, SameStands
<1>6. ToBeFilled(y)
  BY <1>3 DEF ToBeFilled
<1>7. \A t \in ToSet(s.turfs) : t \notin ToSet(y.turfs) => s.turf[t].closing
  BY <1>3 DEF T
<1> QED
  BY <1>2, <1>3, <1>4, <1>5, <1>6, <1>7 DEF AllStand

(* One that closes has been given what stood before the first empty command. *)
LEMMA ClosedHas ==
  ASSUME NEW x, CmdRight(x), NEW t \in ToSet(x.turfs), Standing(x, t), x.turf[t].closing,
         NEW k \in 1 .. Len(x.list),
         \A c \in 1 .. Len(x.list) : x.list[c].kind = "close" => k <= c,
         NEW m \in Nat, m <= x.list[k].num, x.turf[t].from < m
  PROVE  m \in ToSet(x.log[t])
<1>1. x \in Interfaces /\ ListRight(x) /\ x.list \in Seq(Entries) /\ Len(x.list) \in Nat
  BY CmdTypes DEF CmdRight
<1>2. PICK i \in 1 .. Len(x.list) :
        x.turf[t].next = x.list[i].id /\ Covered(x, t, i) /\ Passed(x, t, i)
  BY DEF Standing
<1>3. PICK c \in 1 .. i : x.list[c].kind = "close" /\ (c = i => x.turf[t].written)
  BY <1>2 DEF Passed
<1>4. c \in 1 .. Len(x.list) /\ k \in 1 .. c
  BY <1>1, <1>3
<1>5. /\ x.list[k].num <= x.list[c].num /\ x.list[k].num \in Nat /\ x.list[c].num \in Nat
      /\ x.list[i].num \in Nat
  BY <1>1, <1>4, NumbersGrow, EntryTypes
<1>6. m <= x.list[i].num /\ (x.list[i].kind = "command" => m < x.list[i].num)
  <2>1. CASE c = i
    BY <1>3, <1>5, <2>1
  <2>2. CASE c # i
    <3>1. /\ i - 1 \in 1 .. Len(x.list) - 1 /\ i - 1 \in 1 .. Len(x.list) /\ c \in 1 .. i - 1
          /\ (i - 1) + 1 = i
      BY <1>1, <1>3, <2>2
    <3>2. x.list[c].num <= x.list[i - 1].num /\ x.list[i - 1].num \in Nat
      BY <1>1, <3>1, NumbersGrow, EntryTypes
    <3>3. x.list[(i - 1) + 1].num = IF x.list[(i - 1) + 1].kind = "command"
                                    THEN x.list[i - 1].num + 1 ELSE x.list[i - 1].num
      BY <1>1, <3>1 DEF ListRight
    <3>4. x.list[i].num = IF x.list[i].kind = "command" THEN x.list[i - 1].num + 1
                          ELSE x.list[i - 1].num
      BY <3>1, <3>3
    <3>5. m <= x.list[i - 1].num
      BY <1>5, <3>2
    <3>6. x.list[i - 1].num <= x.list[i].num /\
          (x.list[i].kind = "command" => x.list[i - 1].num < x.list[i].num)
      BY <1>5, <3>2, <3>4
    <3> QED
      BY <1>5, <3>2, <3>5, <3>6
  <2> QED
    BY <2>1, <2>2
<1>7. m # x.list[i].num \/ x.list[i].kind # "command"
  BY <1>5, <1>6
<1> QED
  BY <1>2, <1>6, <1>7 DEF Covered

(* What is claimed of a driver that a handler disconnects. *)
ClosedRight(y, s) ==
  \A t \in ToSet(s.turfs) \ ToSet(y.turfs) : \A k \in 1 .. Len(s.list) :
    /\ s.list[k].num > s.turf[t].from
    /\ \A j \in 1 .. k : s.list[j].kind # "close"
    => s.list[k].num \in ToSet(y.log[t])

LEMMA TurfEnds ==
  ASSUME CmdAssumption, NEW s, CmdRight(s), AllStand(s), NoneCloses(s),
         NEW kind \in {"command", "close"},
         kind = "command" => s.list[Len(s.list)].num < s.issued,
         NEW y, y = ClearDeleted(Turf(s, kind))
  PROVE  CmdRight(y) /\ AllStand(y) /\ NoneCloses(y) /\ ClosedRight(y, s)
<1> DEFINE f == Filled(s, kind)
           x == CheckAll(f)
           z == CleanOut(x)
           n == Len(s.list)
<1>1. CmdRight(f) /\ f.turfs = s.turfs /\ FilledIn(f, s, kind)
  BY FilledKeeps
<1>2. y = ClearDeleted(z)
  BY DEF Turf
<1> HIDE DEF f
<1>3. AllStand(f)
  BY <1>1, FilledStands
<1>4. CmdRight(x) /\ Within(x, f)
  BY <1>1, CheckAllKeeps
<1> HIDE DEF x
<1>5. CmdRight(z) /\ z.turfs = x.turfs /\ CleanedOutOf(z, x)
  BY <1>4, CleanOutKeeps
<1> HIDE DEF z
<1>6. /\ AllStand(x) /\ x.turfs = s.turfs /\ SameCommands(x.list, f.list)
      /\ \A u \in Drivers : /\ x.turf[u].from = s.turf[u].from
                            /\ u \notin ToSet(s.turfs) => x.turf[u] = s.turf[u]
  BY <1>1, <1>3, <1>4 DEF Within, FilledIn
<1>7. /\ ToBeFilled(z) /\ \A t \in ToSet(z.turfs) : ~z.turf[t].closing => Standing(z, t)
  BY <1>4, <1>5, <1>6, CleanedStands
<1>8. z.turf = x.turf /\ z.log = x.log
  BY <1>5 DEF CleanedOutOf
<1>9. \A t \in Drivers : t \notin ToSet(z.turfs) => ~z.turf[t].closing
  BY <1>5, <1>6, <1>8 DEF NoneCloses
<1>10. /\ CmdRight(y) /\ AllStand(y) /\ NoneCloses(y) /\ y.log = z.log
       /\ \A t \in ToSet(z.turfs) : t \notin ToSet(y.turfs) => z.turf[t].closing
  BY <1>2, <1>5, <1>7, <1>9, PassEnds
<1>11. n \in Nat /\ n \in 1 .. n /\ s.list \in Seq(Entries) /\ s \in Interfaces
  BY CmdTypes DEF CmdRight, ListRight
<1>12. /\ Len(x.list) = n + 1
       /\ \A j \in 1 .. n - 1 : x.list[j].kind = s.list[j].kind /\ x.list[j].num = s.list[j].num
       /\ x.list[n].kind = kind
       /\ x.list[n].num = IF kind = "command" THEN s.list[n].num + 1 ELSE s.list[n].num
       /\ x.list[n + 1].kind = "blank"
  <2>1. \A j \in 1 .. n - 1 : j \in 1 .. n + 1
    BY <1>11
  <2>2. n \in 1 .. n + 1 /\ n + 1 \in 1 .. n + 1
    BY <1>11
  <2> HIDE DEF n
  <2>3. /\ Len(f.list) = n + 1 /\ f.list[n].kind = kind
        /\ f.list[n].num = IF kind = "command" THEN s.list[n].num + 1 ELSE s.list[n].num
        /\ f.list[n + 1].kind = "blank"
        /\ \A j \in 1 .. n - 1 : f.list[j] = s.list[j]
    BY <1>1 DEF FilledIn, n
  <2> QED
    BY <1>6, <2>1, <2>2, <2>3 DEF SameCommands
<1> HIDE DEF n
<1>13. ASSUME NEW t \in ToSet(s.turfs), t \notin ToSet(y.turfs), NEW k \in 1 .. n,
              s.list[k].num > s.turf[t].from, \A j \in 1 .. k : s.list[j].kind # "close"
       PROVE  s.list[k].num \in ToSet(y.log[t])
  <2>1. t \in Drivers /\ x.turf[t].closing /\ Standing(x, t) /\ t \in ToSet(x.turfs)
    BY <1>5, <1>6, <1>8, <1>10, <1>11, <1>13, ConnectedTypes DEF AllStand
  <2>2. k \in 1 .. Len(x.list) /\ (k \in 1 .. n - 1 \/ k = n)
    BY <1>11, <1>12
  <2>3. s.list[k].num \in Nat /\ s.list[k].num <= x.list[k].num
    <3>1. s.list[k].num \in Nat
      BY <1>11, EntryTypes DEF n
    <3>2. CASE k \in 1 .. n - 1
      <4>1. x.list[k].num = s.list[k].num
        BY <1>12, <3>2
      <4> QED
        BY <3>1, <4>1
    <3>3. CASE k = n
      BY <1>12, <3>1, <3>3
    <3> QED
      BY <2>2, <3>1, <3>2, <3>3
  <2>4. ASSUME NEW c \in 1 .. Len(x.list), x.list[c].kind = "close"
        PROVE  k <= c
    <3>1. c # n + 1
      BY <1>12, <2>4
    <3>2. c \in 1 .. n - 1 \/ c = n
      BY <1>11, <1>12, <3>1
    <3>3. c \in 1 .. n - 1 => s.list[c].kind = "close"
      BY <1>12, <2>4
    <3>4. c \in 1 .. n - 1 => c \notin 1 .. k
      BY <1>13, <3>3
    <3> QED
      BY <1>11, <3>2, <3>4
  <2>5. x.turf[t].from < s.list[k].num
    <3>1. x.turf[t].from = s.turf[t].from /\ s.turf[t].from \in Nat
      <4>1. s.turf[t] \in Turfs
        BY <1>11, <2>1, TurfTypes
      <4> QED
        BY <1>6, <2>1, <4>1 DEF Turfs
    <3> QED
      BY <1>13, <2>3, <3>1
  <2>6. s.list[k].num \in ToSet(x.log[t])
    BY <1>4, <2>1, <2>2, <2>3, <2>4, <2>5, ClosedHas
  <2> QED
    BY <1>8, <1>10, <2>6
<1> QED
  BY <1>10, <1>13 DEF ClosedRight, n

LEMMA WritableEnds ==
  ASSUME CmdAssumption, NEW s, CmdRight(s), AllStand(s), NoneCloses(s),
         NEW t \in ToSet(s.turfs), NEW y, y = ClearDeleted(TurfCheck(s, t))
  PROVE  CmdRight(y) /\ AllStand(y) /\ NoneCloses(y) /\ ClosedRight(y, s)
<1> DEFINE x == TurfCheck(s, t)
<1>1. CmdRight(x) /\ Within(x, s)
  BY TurfCheckKeeps
<1> HIDE DEF x
<1>2. /\ AllStand(x) /\ x.turfs = s.turfs /\ SameCommands(x.list, s.list)
      /\ \A u \in Drivers : /\ x.turf[u].from = s.turf[u].from
                            /\ u \notin ToSet(s.turfs) => x.turf[u] = s.turf[u]
  BY <1>1 DEF Within
<1>3. \A u \in Drivers : u \notin ToSet(x.turfs) => ~x.turf[u].closing
  BY <1>2 DEF NoneCloses
<1>4. /\ CmdRight(y) /\ AllStand(y) /\ NoneCloses(y) /\ y.log = x.log
      /\ \A u \in ToSet(x.turfs) : u \notin ToSet(y.turfs) => x.turf[u].closing
  BY <1>1, <1>2, <1>3, PassEnds DEF AllStand, x
<1>5. ASSUME NEW u \in ToSet(s.turfs), u \notin ToSet(y.turfs), NEW k \in 1 .. Len(s.list),
             s.list[k].num > s.turf[u].from, \A j \in 1 .. k : s.list[j].kind # "close"
      PROVE  s.list[k].num \in ToSet(y.log[u])
  <2>0. s \in Interfaces /\ s.list \in Seq(Entries) /\ Len(s.list) \in Nat
    BY CmdTypes DEF CmdRight
  <2>1. u \in Drivers /\ x.turf[u].closing /\ Standing(x, u) /\ u \in ToSet(x.turfs)
    BY <1>2, <1>4, <1>5, <2>0, ConnectedTypes DEF AllStand
  <2>2. k \in 1 .. Len(x.list) /\ x.list[k].num = s.list[k].num
    BY <1>2 DEF SameCommands
  <2>3. s.list[k].num \in Nat
    BY <2>0, EntryTypes
  <2>4. ASSUME NEW c \in 1 .. Len(x.list), x.list[c].kind = "close"
        PROVE  k <= c
    <3>1. c \in 1 .. Len(s.list) /\ s.list[c].kind = "close"
      BY <1>2, <2>4 DEF SameCommands
    <3> QED
      BY <1>5, <2>0, <3>1
  <2>5. x.turf[u].from < s.list[k].num
    <3>1. x.turf[u].from = s.turf[u].from /\ s.turf[u].from \in Nat
      <4>1. s.turf[u] \in Turfs
        BY <2>0, <2>1, TurfTypes
      <4> QED
        BY <1>2, <2>1, <4>1 DEF Turfs
    <3> QED
      BY <1>5, <2>3, <3>1
  <2>6. s.list[k].num <= x.list[k].num
    BY <2>2, <2>3
  <2>7. s.list[k].num \in ToSet(x.log[u])
    BY <1>1, <2>1, <2>2, <2>3, <2>4, <2>5, <2>6, ClosedHas
  <2> QED
    BY <1>4, <2>7
<1> QED
  BY <1>4, <1>5 DEF ClosedRight

(* The command server between the handlers: nobody is closing. *)
CmdStands == CmdRight(d) /\ AllStand(d) /\ NoneCloses(d)

LEMMA StandsStays ==
  ASSUME CmdRight(d'), AllStand(d'), NoneCloses(d')
  PROVE  CmdStands'
BY DEF CmdStands, CmdRight, Interfaces, ListRight, Counted, Placed, Settled, At, GivenTo,
       AllStand, ToBeFilled, Standing, Covered, Passed, NoneCloses

(* A driver that connects has nothing to be given that was issued before. *)
LEMMA ConnectStands ==
  ASSUME CmdAssumption, CmdStands, NEW t \in Drivers, CmdConnect(t)
  PROVE  CmdStands' /\ ClosedRight(d', d)
<1> DEFINE y == d'
<1>1. d \in Interfaces /\ ListRight(d) /\ CmdInv /\ AllStand(d) /\ NoneCloses(d) /\ Settled(d)
  BY DEF CmdStands, CmdInv, CmdRight
<1>2. CmdRight(y) /\ Entered(y, d, t)
  <2>1. CmdInv' /\ Entered(d', d, t)
    BY <1>1, CmdConnectKeeps
  <2> QED
    BY <2>1 DEF CmdInv, CmdRight, Interfaces, ListRight, Counted, Placed, Settled, At, GivenTo
<1>3. d.turf[t].next = 0
  BY DEF CmdConnect
<1> HIDE DEF y
<1>4. /\ SameCommands(y.list, d.list) /\ y.log = d.log /\ y.issued = d.issued
      /\ ToSet(y.turfs) = ToSet(d.turfs) \cup {t}
      /\ \A u \in Drivers : u # t => y.turf[u] = d.turf[u]
      /\ y.turf[t].next = d.list[1].id /\ y.turf[t].from = d.issued
      /\ y.turf[t].closing = d.turf[t].closing /\ y.turf[t].written = d.turf[t].written
  BY <1>2 DEF Entered
<1>5. NoneCloses(y)
  BY <1>1, <1>4 DEF NoneCloses
<1>6. /\ d.list \in Seq(Entries) /\ Len(d.list) \in Nat /\ Len(d.list) \in 1 .. Len(d.list)
      /\ 1 \in 1 .. Len(d.list) /\ d.issued \in Nat
  BY <1>1, CmdTypes DEF ListRight
<1>7. ToBeFilled(y)
  BY <1>1, <1>4, <1>6, FilledSame DEF AllStand
<1>8. Standing(y, t)
  <2>1. y.turf[t].next = y.list[1].id /\ 1 \in 1 .. Len(y.list)
    BY <1>4, <1>6 DEF SameCommands
  <2>2. y.list[1].num <= d.issued /\ y.list[1].num \in Nat
    <3>1. d.list[1].num <= d.list[Len(d.list)].num
      BY <1>1, <1>6, NumbersGrow
    <3>2. d.list[Len(d.list)].num <= d.issued
      BY <1>1 DEF AllStand, ToBeFilled
    <3>3. d.list[1].num \in Nat /\ d.list[Len(d.list)].num \in Nat
      BY <1>6, EntryTypes
    <3>4. y.list[1].num = d.list[1].num
      BY <1>4, <1>6 DEF SameCommands
    <3> QED
      BY <1>6, <3>1, <3>2, <3>3, <3>4
  <2>3. Covered(y, t, 1)
    <3>1. \A n \in Nat : ~(d.issued < n /\ n <= y.list[1].num)
      BY <1>6, <2>2
    <3> QED
      BY <1>4, <3>1 DEF Covered
  <2>4. Passed(y, t, 1)
    <3>1. ~y.turf[t].closing /\ ~y.turf[t].written
      BY <1>1, <1>3, <1>4 DEF NoneCloses, Settled
    <3>2. \A c \in 1 .. 1 : c = 1
      OBVIOUS
    <3> QED
      BY <3>1, <3>2 DEF Passed
  <2> QED
    BY <2>1, <2>3, <2>4 DEF Standing
<1>9. ASSUME NEW u \in ToSet(d.turfs), u # t
      PROVE  Standing(y, u)
  <2>1. Standing(d, u) /\ u \in Drivers
    BY <1>1, ConnectedTypes DEF AllStand
  <2>2. y.turf[u] = d.turf[u] /\ y.log[u] = d.log[u]
    BY <1>4, <1>9, <2>1
  <2> QED
    BY <1>4, <2>1, <2>2, SameStands
<1>10. AllStand(y)
  BY <1>4, <1>7, <1>8, <1>9 DEF AllStand
<1>11. ClosedRight(y, d)
  BY <1>4 DEF ClosedRight
<1> QED
  BY <1>2, <1>5, <1>10, <1>11, StandsStays DEF y

(* The drivers of T go, and those that stay stand as before. *)
LEMMA DeletedStands ==
  ASSUME CmdAssumption, CmdStands, NEW T, d' = Delete(d, T)
  PROVE  CmdStands' /\ ToSet(d'.turfs) = ToSet(d.turfs) \ T
<1> DEFINE y == d'
<1>1. CmdRight(y) /\ Deleted(y, d, T) /\ d \in Interfaces
  BY DeleteKeeps DEF CmdStands, CmdRight
<1> HIDE DEF y
<1>2. y.list = d.list /\ y.log = d.log /\ y.issued = d.issued /\ ToSet(y.turfs) = ToSet(d.turfs) \ T
  BY <1>1 DEF Deleted
<1>3. NoneCloses(y)
  BY <1>1 DEF CmdStands, NoneCloses, Deleted
<1>4. ToBeFilled(y)
  BY <1>2 DEF CmdStands, AllStand, ToBeFilled
<1>5. ASSUME NEW u \in ToSet(y.turfs)
      PROVE  Standing(y, u)
  <2>1. u \in Drivers /\ u \notin T /\ Standing(d, u)
    BY <1>1, <1>2, ConnectedTypes DEF CmdStands, AllStand
  <2>2. y.turf[u] = d.turf[u] /\ SameCommands(y.list, d.list)
    BY <1>1, <1>2, <2>1 DEF Deleted, SameCommands
  <2> QED
    BY <1>2, <2>1, <2>2, SameStands
<1> QED
  BY <1>1, <1>2, <1>3, <1>4, <1>5, StandsStays DEF y, AllStand

(* What changes neither list nor turfs nor logs but one driver's output. *)
LEMMA SameStay ==
  ASSUME NEW s, AllStand(s), NoneCloses(s), s \in Interfaces, NEW y, y.list = s.list,
         y.turfs = s.turfs, y.log = s.log, s.issued \in Nat, y.issued \in Nat,
         s.issued <= y.issued,
         \A u \in Drivers : /\ y.turf[u].next = s.turf[u].next
                            /\ y.turf[u].written = s.turf[u].written
                            /\ y.turf[u].from = s.turf[u].from
                            /\ y.turf[u].closing = s.turf[u].closing,
         ListRight(s)
  PROVE  AllStand(y) /\ NoneCloses(y)
<1>1. NoneCloses(y)
  BY DEF NoneCloses
<1>2. ToBeFilled(y)
  <2>1. s.list \in Seq(Entries) /\ Len(s.list) \in 1 .. Len(s.list)
    BY CmdTypes DEF ListRight
  <2>2. s.list[Len(s.list)].num \in Nat /\ s.list[Len(s.list)].num <= s.issued
    BY <2>1, EntryTypes DEF AllStand, ToBeFilled
  <2>3. y.list[Len(y.list)].num <= y.issued
    BY <2>2
  <2> QED
    BY <2>3 DEF AllStand, ToBeFilled
<1>3. ASSUME NEW u \in ToSet(y.turfs)
      PROVE  Standing(y, u)
  <2>1. u \in Drivers /\ Standing(s, u)
    BY ConnectedTypes DEF AllStand
  <2>2. SameCommands(y.list, s.list)
    BY DEF SameCommands
  <2> QED
    BY <2>1, <2>2, SameStands
<1> QED
  BY <1>1, <1>2, <1>3 DEF AllStand

LEMMA ReadsStand ==
  ASSUME CmdAssumption, CmdStands, NEW t \in Drivers, DriverReads(t)
  PROVE  CmdStands' /\ d'.turfs = d.turfs
<1> DEFINE sock == [d.sock EXCEPT ![t] = @ - 1]
           y == d'
<1>1. CmdRight(d) /\ d \in Interfaces /\ CmdInv /\ ListRight(d) /\ d.issued \in Nat
  BY CmdTypes DEF CmdStands, CmdInv, CmdRight
<1>2. CmdRight(y)
  BY <1>1, ReadsKeeps
<1>3. y = [d EXCEPT !.sock = sock]
  <2>1. y = [d EXCEPT !.sock[t] = @ - 1]
    BY DEF DriverReads
  <2> QED
    BY <1>1, <2>1 DEF Interfaces
<1> HIDE DEF y, sock
<1>4. /\ y.list = d.list /\ y.turfs = d.turfs /\ y.log = d.log /\ y.turf = d.turf
      /\ y.issued = d.issued
  BY <1>1, <1>3 DEF Interfaces
<1>5. d.issued <= y.issued /\ y.issued \in Nat
  BY <1>1, <1>4
<1>6. AllStand(y) /\ NoneCloses(y)
  BY <1>1, <1>4, <1>5, SameStay DEF CmdStands
<1> QED
  BY <1>2, <1>4, <1>6, StandsStays DEF y

LEMMA WritableStands ==
  ASSUME CmdAssumption, CmdStands, NEW t \in Drivers, Writable(t)
  PROVE  CmdStands' /\ ClosedRight(d', d)
<1> DEFINE tf == [d.turf EXCEPT ![t] = [@ EXCEPT !.out = FALSE]]
           sock == [d.sock EXCEPT ![t] = @ + 1]
           s == [d EXCEPT !.turf[t].out = FALSE, !.sock[t] = @ + 1]
           y == d'
<1>1. /\ d \in Interfaces /\ CmdRight(d) /\ t \in ToSet(d.turfs) /\ ListRight(d)
      /\ y = ClearDeleted(TurfCheck(s, t))
  BY DEF Writable, CanWrite, CmdConnected, CmdStands, CmdRight
<1>2. d.turf \in [Drivers -> Turfs] /\ d.sock \in [Drivers -> Nat] /\ d.issued \in Nat
  BY <1>1, CmdTypes
<1>3. d.turf[t] \in Turfs /\ d.sock[t] \in Nat
  BY <1>2
<1>4. s = [d EXCEPT !.turf = tf, !.sock = sock]
  BY <1>1, <1>2 DEF Interfaces
<1>5. /\ tf \in [Drivers -> Turfs]
      /\ \A u \in Drivers : /\ tf[u].next = d.turf[u].next /\ tf[u].written = d.turf[u].written
                            /\ tf[u].from = d.turf[u].from /\ tf[u].closing = d.turf[u].closing
  <2>1. [d.turf[t] EXCEPT !.out = FALSE] \in Turfs
    BY <1>3 DEF Turfs
  <2> QED
    BY <1>2, <1>3, <2>1 DEF Turfs
<1>6. sock \in [Drivers -> Nat]
  BY <1>2, <1>3
<1> HIDE DEF s, tf, sock, y
<1>7. /\ s \in Interfaces /\ s.list = d.list /\ s.turfs = d.turfs /\ s.log = d.log
      /\ s.turf = tf /\ s.issued = d.issued
  BY <1>1, <1>4, <1>5, <1>6 DEF Interfaces
<1>8. CmdRight(s)
  BY <1>1, <1>5, <1>7, SameKeeps
<1>9. AllStand(s) /\ NoneCloses(s)
  <2>1. d.issued <= s.issued /\ s.issued \in Nat
    BY <1>2, <1>7
  <2> QED
    BY <1>1, <1>2, <1>5, <1>7, <2>1, SameStay DEF CmdStands
<1>10. CmdRight(y) /\ AllStand(y) /\ NoneCloses(y) /\ ClosedRight(y, s)
  BY <1>1, <1>7, <1>8, <1>9, WritableEnds
<1>11. ClosedRight(y, d)
  <2>1. \A u \in ToSet(d.turfs) : s.turf[u].from = d.turf[u].from
    BY <1>1, <1>5, <1>7, ConnectedTypes
  <2> QED
    BY <1>7, <1>10, <2>1 DEF ClosedRight
<1> QED
  BY <1>10, <1>11, StandsStays DEF y

LEMMA CommandStands ==
  ASSUME CmdAssumption, CmdStands, ClientCommand
  PROVE  CmdStands' /\ ClosedRight(d', d)
<1> DEFINE s == [d EXCEPT !.issued = @ + 1]
           y == d'
<1>1. /\ d \in Interfaces /\ CmdRight(d) /\ ListRight(d) /\ y = ClearDeleted(Turf(s, "command"))
      /\ d.issued \in Nat
  BY CmdTypes DEF ClientCommand, CmdStands, CmdRight
<1>2. /\ s \in Interfaces /\ s.list = d.list /\ s.turfs = d.turfs /\ s.log = d.log
      /\ s.turf = d.turf /\ s.issued = d.issued + 1
  <2> DEFINE k == d.issued + 1
  <2>1. s = [d EXCEPT !.issued = k] /\ k \in Nat
    BY <1>1
  <2> HIDE DEF s, k
  <2>2. /\ s \in Interfaces /\ s.list = d.list /\ s.turfs = d.turfs /\ s.log = d.log
        /\ s.turf = d.turf /\ s.issued = k
    BY <1>1, <2>1 DEF Interfaces
  <2> QED
    BY <2>2 DEF k
<1> HIDE DEF s, y
<1>3. CmdRight(s)
  BY <1>1, <1>2, SameKeeps
<1>4. AllStand(s) /\ NoneCloses(s)
  <2>1. d.issued <= s.issued /\ s.issued \in Nat
    BY <1>1, <1>2
  <2> QED
    BY <1>1, <1>2, <2>1, SameStay DEF CmdStands
<1>5. s.list[Len(s.list)].num < s.issued
  <2>1. d.list \in Seq(Entries) /\ Len(d.list) \in 1 .. Len(d.list)
    BY <1>1, CmdTypes DEF ListRight
  <2>2. d.list[Len(d.list)].num \in Nat /\ d.list[Len(d.list)].num <= d.issued
    BY <2>1, EntryTypes DEF CmdStands, AllStand, ToBeFilled
  <2>3. s.list[Len(s.list)].num = d.list[Len(d.list)].num
    BY <1>2
  <2> QED
    BY <1>1, <1>2, <2>2, <2>3
<1>6. CmdRight(y) /\ AllStand(y) /\ NoneCloses(y) /\ ClosedRight(y, s)
  BY <1>1, <1>3, <1>4, <1>5, TurfEnds
<1>7. ClosedRight(y, d)
  BY <1>2, <1>6 DEF ClosedRight
<1> QED
  BY <1>6, <1>7, StandsStays DEF y

LEMMA InitStands ==
  ASSUME CmdAssumption, CmdInit
  PROVE  CmdStands
<1>1. CmdRight(d)
  BY InitCmdInv DEF CmdInv
<1>2. /\ d.list = <<NewCommand(1, 0)>> /\ d.turfs = <<>> /\ d.issued = 0
      /\ \A t \in Drivers : ~d.turf[t].closing
  BY DEF CmdInit
<1>3. ToSet(d.turfs) = {}
  BY <1>2 DEF ToSet
<1>4. ToBeFilled(d)
  <2>1. Len(d.list) = 1 /\ d.list[1].kind = "blank" /\ d.list[1].num = 0
    BY <1>2 DEF NewCommand
  <2>2. \A i \in 1 .. 1 : i = 1
    OBVIOUS
  <2>3. d.list[1].num <= d.issued
    BY <1>2, <2>1
  <2> QED
    BY <2>1, <2>2, <2>3 DEF ToBeFilled
<1> QED
  BY <1>1, <1>2, <1>3, <1>4 DEF CmdStands, AllStand, NoneCloses

(* What every step does: the drivers it disconnects were given all there was
   for them, unless they left or the server ended. *)
StepCloses ==
  Serving' => \A t \in ToSet(d.turfs) \ (ToSet(d'.turfs) \cup left') :
                \A i \in 1 .. Len(d.list) :
                  /\ d.list[i].num > d.turf[t].from
                  /\ \A j \in 1 .. i : d.list[j].kind # "close"
                  => d.list[i].num \in ToSet(d'.log[t])

LEMMA StandsNext ==
  ASSUME CmdAssumption, CmdStands, [CmdNext]_cmdvars
  PROVE  CmdStands' /\ StepCloses
<1>0. CmdRight(d) /\ AllStand(d) /\ NoneCloses(d)
  BY DEF CmdStands
<1>1. ClosedRight(d', d) => StepCloses
  BY DEF ClosedRight, StepCloses
<1>2. ToSet(d.turfs) \subseteq ToSet(d'.turfs) \cup left' => StepCloses
  BY DEF StepCloses
<1>3. CASE \E t \in Drivers : CmdConnect(t) \/ Writable(t)
  BY <1>1, <1>3, ConnectStands, WritableStands
<1>4. CASE \E t \in Drivers : DriverReads(t)
  BY <1>2, <1>4, ReadsStand
<1>5. CASE \E t \in Drivers : Leave(t)
  <2>1. PICK t \in Drivers : d' = Delete(d, {t}) /\ left' = left \cup {t}
    BY <1>5 DEF Leave
  <2> QED
    BY <1>2, <2>1, DeletedStands
<1>6. CASE Stop
  <2>1. d' = Delete(d, CmdConnected) /\ ~Serving'
    BY <1>6 DEF Stop, Serving
  <2> QED
    BY <2>1, DeletedStands DEF StepCloses
<1>7. CASE ClientCommand
  BY <1>1, <1>7, CommandStands
<1>8. CASE \E c \in Receivers : Quit(c)
  <2>1. d' = ClearDeleted(Turf(d, "close"))
    BY <1>8 DEF Quit
  <2>2. CmdRight(d') /\ AllStand(d') /\ NoneCloses(d') /\ ClosedRight(d', d)
    BY <1>0, <2>1, TurfEnds
  <2> QED
    BY <1>1, <2>2, StandsStays
<1>9. CASE CmdInterrupt \/ (\E c \in Receivers : ReplyOut(c)) \/ UNCHANGED cmdvars
  <2>1. d' = d
    BY <1>9 DEF CmdInterrupt, ReplyOut, cmdvars
  <2>2. CmdStands'
    BY <1>0, <2>1, StandsStays
  <2> QED
    BY <1>2, <2>1, <2>2
<1> QED
  BY <1>3, <1>4, <1>5, <1>6, <1>7, <1>8, <1>9 DEF CmdNext

(* Command server: a driver that an empty command disconnects has been given
   every command issued since it connected that stood before it. *)
THEOREM CmdClosedAfterAll ==
  CmdAssumption => (CmdSpec => ClosedAfterAll)
<1> SUFFICES ASSUME CmdAssumption
             PROVE  CmdSpec => ClosedAfterAll
  OBVIOUS
<1> DEFINE A == \A t \in CmdConnected : (Serving' /\ t \notin CmdConnected' \cup left') =>
                  \A i \in 1 .. Len(d.list) :
                    /\ d.list[i].num > d.turf[t].from
                    /\ \A j \in 1 .. i : d.list[j].kind # "close"
                    => d.list[i].num \in ToSet(d'.log[t])
<1>1. CmdInit => CmdStands
  BY InitStands
<1>2. CmdStands /\ [CmdNext]_cmdvars => CmdStands'
  BY StandsNext
<1>3. CmdStands /\ [CmdNext]_cmdvars => [A]_cmdvars
  BY StandsNext DEF StepCloses, CmdConnected
<1>4. ClosedAfterAll <=> [][A]_cmdvars
  BY DEF ClosedAfterAll
<1> HIDE DEF A
<1> QED
  BY <1>1, <1>2, <1>3, <1>4, PTL DEF CmdSpec
-----------------------------------------------------------------------------
(* Parent. *)

Pcs == {"main", "select", "input", "timeouts", "turn", "outer"} \cup Ends

Peers == {AuthOf(c) : c \in Conns} \cup {CltOf(c) : c \in Conns}
Timed == {Sig} \cup {CltOf(c) : c \in Conns}

ParentPrograms ==
  [pc : Pcs, list : Seq(Ifaces), pending : Seq(Ifaces), refs : [Ifaces -> Int],
   freed : SUBSET Ifaces, todo : Seq(Ifaces), late : SUBSET Ifaces,
   changed : BOOLEAN, keep : BOOLEAN, exit : BOOLEAN, open : SUBSET Ifaces,
   armed : SUBSET Timed,
   sigif : {"none", "sig", "own"}, asked : {"no", "full", "part"}, done : BOOLEAN,
   active : Int, children : BOOLEAN, quit : BOOLEAN, handled : BOOLEAN,
   closing : SUBSET Conns, stale : SUBSET Conns]

NoneLeft == \A k \in Kids : kid[k] = "gone"

(* What asks a program to end. *)
Ending(s) == \/ s.exit \/ ~s.keep \/ s.asked # "no" \/ s.closing # {}
             \/ \E c \in Conns : CltOf(c) \in s.armed

Has(t, x) == \E i \in 1 .. Len(t) : t[i] = x

(* As long as it has children it is not asked to end, and has its sigif. *)
Waiting(s) == s \in ParentPrograms /\ (s.children => ~Ending(s) /\ s.sigif = "sig" /\ Has(s.list, Sig))

(* What is to be visited in either pass. *)
Visits(s) ==
  /\ s.pc \in {"input", "timeouts"} => s.todo # <<>>
  /\ s.pc = "input" => \A i \in 1 .. Len(s.todo) : s.todo[i] \in Peers \cup {Unix}
  /\ s.pc = "timeouts" => \A i \in 1 .. Len(s.todo) : s.todo[i] \in Timed

ParentInv ==
  /\ kid \in [Kids -> {"running", "zombie", "gone"}]
  /\ p \in ParentPrograms
  /\ opt \in Options
  /\ p.pc = "main" => p.children /\ ~Ending(p) /\ p.list = <<>>
  /\ p.pc # "main" => Waiting(p)
  /\ ~p.children => NoneLeft
  /\ p.pc \in {"outer", "ended"} => ~p.children
  /\ Visits(p)

Same(t, s) == t.pc = s.pc /\ t.todo = s.todo /\ t.children = s.children

LEMMA InitParentInv ==
  ASSUME ParentAssumption, ParentInit
  PROVE  ParentInv
<1>1. p \in ParentPrograms
  BY DEF ParentInit, ParentPrograms, ParentAssumption, Pcs, Ifaces
<1> QED
  BY <1>1 DEF ParentInit, ParentInv, Ending, Visits, ParentAssumption

LEMMA IfaceKinds ==
  /\ Sig \in Ifaces /\ Own \in Ifaces /\ Unix \in Ifaces
  /\ Sig # Own /\ Sig # Unix /\ Own # Unix
  /\ \A c \in Conns : /\ AuthOf(c) \in Ifaces /\ CltOf(c) \in Ifaces
                     /\ AuthOf(c) \notin {Sig, Own, Unix} /\ CltOf(c) \notin {Sig, Own, Unix}
                     /\ AuthOf(c)[2] = c /\ CltOf(c)[2] = c
BY DEF Sig, Own, Unix, AuthOf, CltOf, Ifaces

(* What an operation of the loop leaves alone. *)
LEMMA AddChildWaits ==
  ASSUME NEW s, Waiting(s), NEW i \in Ifaces
  PROVE  Waiting(AddChild(s, i)) /\ Same(AddChild(s, i), s)
<1> DEFINE t == AddChild(s, i)
<1>1. t \in ParentPrograms
  <2>1. s \in ParentPrograms
    BY DEF Waiting
  <2>2. s.list \in Seq(Ifaces) /\ s.refs \in [Ifaces -> Int]
    BY <2>1 DEF ParentPrograms
  <2>3. Append(s.list, i) \in Seq(Ifaces) /\ [s.refs EXCEPT ![i] = @ + 1] \in [Ifaces -> Int]
    BY <2>2
  <2> QED
    BY <2>1, <2>3 DEF ParentPrograms, AddChild
<1>2. t.list = Append(s.list, i)
  BY DEF Waiting, ParentPrograms, AddChild
<1>3. Has(s.list, Sig) => Has(t.list, Sig)
  <2>1. s.list \in Seq(Ifaces)
    BY DEF Waiting, ParentPrograms
  <2> HIDE DEF t
  <2> QED
    BY <1>2, <2>1 DEF Has
<1>4. Same(t, s) /\ (Ending(t) <=> Ending(s)) /\ t.sigif = s.sigif
  BY DEF Waiting, ParentPrograms, AddChild, Same, Ending
<1> HIDE DEF t
<1> QED
  BY <1>1, <1>3, <1>4 DEF Waiting, Same, t

LEMMA DeleteChildWaits ==
  ASSUME NEW s, Waiting(s), NEW i \in Ifaces, i # Sig
  PROVE  Waiting(DeleteChild(s, i)) /\ Same(DeleteChild(s, i), s)
<1> DEFINE t == DeleteChild(s, i)
           rest == Only(s.list, Ifaces \ {i})
<1>0. s.list \in Seq(Ifaces) /\ Sig \in Ifaces \ {i}
  BY IfaceKinds DEF Waiting, ParentPrograms
<1>1. rest \in Seq(Ifaces) /\ Holds(rest, s.list, Ifaces \ {i}, Len(s.list))
  BY <1>0, OnlyMembers
<1>2. Has(s.list, Sig) => Has(rest, Sig)
  BY <1>0, <1>1 DEF Holds, Has
<1> HIDE DEF rest
<1>3. t = [s EXCEPT !.list = rest, !.changed = TRUE, !.pending = Append(@, i)]
  BY DEF DeleteChild, rest
<1> HIDE DEF t
<1>4. t \in ParentPrograms
  <2>1. s \in ParentPrograms
    BY DEF Waiting
  <2>2. Append(s.pending, i) \in Seq(Ifaces)
    BY <2>1 DEF ParentPrograms
  <2> QED
    BY <1>1, <1>3, <2>1, <2>2 DEF ParentPrograms
<1>5. t.list = rest /\ Same(t, s) /\ (Ending(t) <=> Ending(s)) /\ t.sigif = s.sigif
  BY <1>3 DEF Waiting, ParentPrograms, Same, Ending
<1> QED
  BY <1>2, <1>4, <1>5 DEF Waiting, Same, t

LEMMA CloseWaits ==
  ASSUME NEW s, Waiting(s), NEW i \in Ifaces
  PROVE  Waiting(CloseIface(s, i)) /\ Same(CloseIface(s, i), s)
<1> DEFINE t == CloseIface(s, i)
<1>1. t \in ParentPrograms
  BY DEF Waiting, ParentPrograms, CloseIface
<1>2. Same(t, s) /\ (Ending(t) => Ending(s)) /\ t.sigif = s.sigif /\ t.list = s.list
  BY DEF Waiting, ParentPrograms, CloseIface, Same, Ending
<1> HIDE DEF t
<1> QED
  BY <1>1, <1>2 DEF Waiting, Same, t

LEMMA ShutdownWaits ==
  ASSUME NEW s, Waiting(s), ~s.children, NEW how \in {"full", "part"}
  PROVE  Waiting(Shutdown(s, how)) /\ Same(Shutdown(s, how), s)
<1> DEFINE t == CASE s.sigif = "sig" -> Dereference(s, Sig)
                  [] s.sigif = "own" -> Dereference(s, Own)
                  [] OTHER -> s
           u == Shutdown(s, how)
<1>1. t \in ParentPrograms /\ Same(t, s)
  <2>1. s \in ParentPrograms
    BY DEF Waiting
  <2>2. ASSUME NEW i \in Ifaces
        PROVE  Dereference(s, i) \in ParentPrograms /\ Same(Dereference(s, i), s)
    <3>1. [s.refs EXCEPT ![i] = @ - 1] \in [Ifaces -> Int]
      BY <2>1 DEF ParentPrograms
    <3>2. (IF s.refs[i] = 1 THEN s.freed \cup {i} ELSE s.freed) \in SUBSET Ifaces
      BY <2>1 DEF ParentPrograms
    <3> QED
      BY <2>1, <3>1, <3>2 DEF ParentPrograms, Dereference, Same
  <2> QED
    BY <2>1, <2>2, IfaceKinds DEF Same
<1>2. u = [t EXCEPT !.sigif = "none", !.asked = how, !.exit = TRUE]
  BY DEF Shutdown
<1> HIDE DEF t, u
<1>3. u \in ParentPrograms /\ Same(u, t)
  BY <1>1, <1>2 DEF ParentPrograms, Same
<1> QED
  BY <1>1, <1>3 DEF Waiting, Same, u

(* The handler only finds children where there are some; without any it may
   shut the server down. *)
LEMMA HandlerWaits ==
  ASSUME NEW s, Waiting(s), NEW seen
  PROVE  LET t == SignalHandler(s, seen)
         IN /\ Waiting(t) /\ t.pc = s.pc /\ t.todo = s.todo
            /\ t.children <=> s.children /\ ("CHLD" \in seen => \E k \in Kids : kid[k] = "running")
<1> DEFINE alive == \E k \in Kids : kid[k] = "running"
           a == Wait(s)
           t == IF "CHLD" \in seen THEN a ELSE s
           b == EndKids(t)
           u == IF "INT" \in seen \/ seen = {} THEN b ELSE t
           v == SignalHandler(s, seen)
<1>1. Waiting(t) /\ t.pc = s.pc /\ t.todo = s.todo
      /\ (t.children <=> s.children /\ ("CHLD" \in seen => alive))
  <2> HIDE DEF alive
  <2>1. s \in ParentPrograms /\ Sig \in Timed
    BY DEF Waiting, Timed
  <2>2. a = [s EXCEPT !.children = @ /\ alive,
                      !.armed = IF opt.timer = "exit" /\ kid[Monitored] = "zombie"
                                  THEN @ \cup {Sig} ELSE @]
    BY DEF Wait, alive
  <2> HIDE DEF a
  <2>3. a \in ParentPrograms
    BY <2>1, <2>2 DEF ParentPrograms
  <2>4. /\ a.pc = s.pc /\ a.todo = s.todo /\ a.list = s.list /\ a.sigif = s.sigif
        /\ a.exit = s.exit /\ a.keep = s.keep /\ a.asked = s.asked /\ a.closing = s.closing
        /\ a.armed \subseteq s.armed \cup {Sig}
        /\ (a.children <=> s.children /\ alive)
    BY <2>1, <2>2 DEF ParentPrograms
  <2>5. Ending(a) => Ending(s)
    BY <2>4, IfaceKinds DEF Ending
  <2>6. Waiting(a)
    BY <2>3, <2>4, <2>5 DEF Waiting
  <2> QED
    BY <2>4, <2>6
<1> HIDE DEF t, alive
<1>2. Waiting(b) /\ b.pc = t.pc /\ b.todo = t.todo /\ b.children = t.children
  <2>1. t \in ParentPrograms /\ Sig \in Timed
    BY <1>1 DEF Waiting, Timed
  <2>2. b = [t EXCEPT !.handled = TRUE, !.quit = TRUE,
                      !.armed = IF t.children THEN @ \cup {Sig} ELSE @]
    BY DEF EndKids
  <2> HIDE DEF b
  <2>3. b \in ParentPrograms
    BY <2>1, <2>2 DEF ParentPrograms
  <2>4. /\ b.pc = t.pc /\ b.todo = t.todo /\ b.list = t.list /\ b.sigif = t.sigif
        /\ b.exit = t.exit /\ b.keep = t.keep /\ b.asked = t.asked /\ b.closing = t.closing
        /\ b.armed \subseteq t.armed \cup {Sig}
        /\ b.children = t.children
    BY <2>1, <2>2 DEF ParentPrograms
  <2>5. Ending(b) => Ending(t)
    BY <2>4, IfaceKinds DEF Ending
  <2>6. Waiting(b)
    BY <1>1, <2>3, <2>4, <2>5 DEF Waiting
  <2> QED
    BY <2>4, <2>6
<1> HIDE DEF b
<1>3. Waiting(u) /\ u.pc = t.pc /\ u.todo = t.todo /\ u.children = t.children
  BY <1>1, <1>2
<1>4. v = IF u.quit /\ ~u.children THEN Shutdown(u, "full") ELSE u
  BY DEF SignalHandler, u, b, t, a
<1> HIDE DEF u, v
<1>5. Waiting(v) /\ v.pc = u.pc /\ v.todo = u.todo /\ v.children = u.children
  BY <1>3, <1>4, ShutdownWaits DEF Same
<1> QED
  BY <1>1, <1>3, <1>5 DEF v, alive

LEMMA CommandWaits ==
  ASSUME NEW s, Waiting(s), NEW c \in Conns
  PROVE  Waiting(ParentCommand(s, c)) /\ Same(ParentCommand(s, c), s)
<1> DEFINE cmd == IF c \in s.stale THEN "r" ELSE conn[c].inbox
           a == [s EXCEPT !.stale = @ \cup {c}]
           b == [s EXCEPT !.stale = @ \ {c}, !.closing = @ \cup {c},
                          !.armed = @ \cup {CltOf(c)}]
           h == SignalHandler(s, {})
<1>1. Waiting(h) /\ Same(h, s)
  <2>1. Waiting(h) /\ h.pc = s.pc /\ h.todo = s.todo /\ (h.children <=> s.children)
    BY HandlerWaits
  <2>2. h.children \in BOOLEAN /\ s.children \in BOOLEAN
    BY <2>1 DEF Waiting, ParentPrograms
  <2> QED
    BY <2>1, <2>2 DEF Same
<1>2. s \in ParentPrograms
  BY DEF Waiting
<1>3. Waiting(a) /\ Same(a, s)
  <2>1. a \in ParentPrograms /\ Same(a, s)
    BY <1>2 DEF ParentPrograms, Same
  <2>2. (Ending(a) => Ending(s)) /\ a.sigif = s.sigif /\ a.list = s.list
    BY <1>2 DEF ParentPrograms, Ending
  <2> HIDE DEF a
  <2> QED
    BY <2>1, <2>2 DEF Waiting, Same
<1>4. ~s.children => Waiting(b) /\ Same(b, s)
  <2>1. CltOf(c) \in Timed
    BY DEF Timed
  <2>2. b \in ParentPrograms /\ Same(b, s)
    BY <1>2, <2>1 DEF ParentPrograms, Same
  <2> HIDE DEF b
  <2> QED
    BY <2>2 DEF Waiting, Same
<1>5. ParentCommand(s, c) \in {h, a, s} \/ (~s.children /\ ParentCommand(s, c) = b)
  <2>1. ParentCommand(s, c) = CASE cmd = "Q" -> h
                                [] cmd = "r" /\ s.children -> a
                                [] cmd = "r" /\ ~s.children -> b
                                [] OTHER -> s
    BY DEF ParentCommand
  <2> HIDE DEF cmd, a, b, h
  <2> QED
    BY <2>1
<1> HIDE DEF a, b, h
<1> QED
  BY <1>1, <1>3, <1>4, <1>5 DEF Same

LEMMA AuthenticateWaits ==
  ASSUME NEW s, Waiting(s), NEW c \in Conns
  PROVE  Waiting(ParentAuthenticate(s, c)) /\ Same(ParentAuthenticate(s, c), s)
<1> DEFINE a == [s EXCEPT !.active = @ + 1]
           b == DeleteChild(a, AuthOf(c))
           e == [b EXCEPT !.open = (@ \ {AuthOf(c)}) \cup {CltOf(c)}]
<1>0. AuthOf(c) \in Ifaces /\ CltOf(c) \in Ifaces /\ AuthOf(c) # Sig
  BY IfaceKinds
<1>1. Waiting(a) /\ Same(a, s)
  <2>1. s \in ParentPrograms
    BY DEF Waiting
  <2>2. s.active + 1 \in Int
    BY <2>1 DEF ParentPrograms
  <2>3. a \in ParentPrograms /\ Same(a, s)
    BY <2>1, <2>2 DEF ParentPrograms, Same
  <2>4. (Ending(a) => Ending(s)) /\ a.sigif = s.sigif /\ a.list = s.list
    BY <2>1 DEF ParentPrograms, Ending
  <2> HIDE DEF a
  <2> QED
    BY <2>3, <2>4 DEF Waiting, Same
<1> HIDE DEF a
<1>2. Waiting(b) /\ Same(b, s)
  BY <1>0, <1>1, DeleteChildWaits DEF Same
<1> HIDE DEF b
<1>3. Waiting(e) /\ Same(e, s)
  <2>1. b \in ParentPrograms
    BY <1>2 DEF Waiting
  <2>2. e \in ParentPrograms /\ Same(e, b)
    BY <1>0, <2>1 DEF ParentPrograms, Same
  <2>3. (Ending(e) => Ending(b)) /\ e.sigif = b.sigif /\ e.list = b.list
    BY <2>1 DEF ParentPrograms, Ending
  <2> HIDE DEF e
  <2> QED
    BY <1>2, <2>2, <2>3 DEF Waiting, Same
<1>4. ParentAuthenticate(s, c) = IF conn[c].inbox = "auth" THEN AddChild(e, CltOf(c))
                                 ELSE DeleteChild(CloseIface(s, AuthOf(c)), AuthOf(c))
  BY DEF ParentAuthenticate, e, b, a
<1> HIDE DEF e
<1>5. Waiting(AddChild(e, CltOf(c))) /\ Same(AddChild(e, CltOf(c)), s)
  BY <1>0, <1>3, AddChildWaits DEF Same
<1>6. /\ Waiting(DeleteChild(CloseIface(s, AuthOf(c)), AuthOf(c)))
      /\ Same(DeleteChild(CloseIface(s, AuthOf(c)), AuthOf(c)), s)
  BY <1>0, CloseWaits, DeleteChildWaits DEF Same
<1> QED
  BY <1>4, <1>5, <1>6

LEMMA GoneWaits ==
  ASSUME NEW s, Waiting(s), NEW i \in Peers
  PROVE  Waiting(Gone(s, i)) /\ Same(Gone(s, i), s)
<1> DEFINE a == CloseIface(s, i)
           b == Shutdown(a, "full")
           e == [b EXCEPT !.keep = FALSE]
<1>0. i \in Ifaces /\ i # Sig /\ i[2] \in Conns
  BY IfaceKinds DEF Peers
<1>1. Waiting(a) /\ Same(a, s)
  BY <1>0, CloseWaits
<1>2. Waiting(DeleteChild(a, i)) /\ Same(DeleteChild(a, i), s)
  BY <1>0, <1>1, DeleteChildWaits DEF Same
<1>3. ASSUME i[2] \in s.closing
      PROVE  Waiting(e) /\ Same(e, s)
  <2>1. ~s.children
    BY <1>3 DEF Waiting, Ending
  <2>2. ~a.children
    BY <1>1, <2>1 DEF Same
  <2> HIDE DEF a
  <2>3. Waiting(b) /\ Same(b, s)
    BY <1>1, <2>2, ShutdownWaits DEF Same
  <2>4. b \in ParentPrograms
    BY <2>3 DEF Waiting
  <2> HIDE DEF b
  <2>5. e \in ParentPrograms /\ Same(e, s)
    BY <2>3, <2>4 DEF ParentPrograms, Same
  <2> HIDE DEF e
  <2> QED
    BY <2>1, <2>5 DEF Waiting, Same
<1>4. Gone(s, i) \in {a, DeleteChild(a, i)} \/ (i[2] \in s.closing /\ Gone(s, i) = e)
  BY DEF Gone
<1> HIDE DEF a, e
<1> QED
  BY <1>1, <1>2, <1>3, <1>4

(* A visit leaves the list of those to be visited, and the children, alone; the
   loop goes on unless the program is killed. *)
LEMMA ReadWaits ==
  ASSUME NEW s, Waiting(s), NEW i \in Peers
  PROVE  LET t == Read(s, i)
         IN /\ Waiting(t) /\ t.todo = s.todo /\ t.children = s.children
            /\ t.pc = s.pc \/ t.pc = "killed"
<1> DEFINE c == i[2]
           dead == [s EXCEPT !.pc = "killed"]
<1>0. c \in Conns
  BY IfaceKinds DEF Peers
<1>1. Read(s, i) \in {Gone(s, i), dead, ParentCommand(s, c), ParentAuthenticate(s, c)}
  BY DEF Read
<1>2. Waiting(dead) /\ dead.todo = s.todo /\ dead.children = s.children /\ dead.pc = "killed"
  <2>1. s \in ParentPrograms
    BY DEF Waiting
  <2>2. /\ dead \in ParentPrograms /\ dead.todo = s.todo /\ dead.children = s.children
        /\ dead.pc = "killed"
    BY <2>1 DEF ParentPrograms, Pcs, Ends
  <2>3. (Ending(dead) => Ending(s)) /\ dead.sigif = s.sigif /\ dead.list = s.list
    BY <2>1 DEF ParentPrograms, Ending
  <2> HIDE DEF dead
  <2> QED
    BY <2>2, <2>3 DEF Waiting
<1>3. Waiting(Gone(s, i)) /\ Same(Gone(s, i), s)
  BY GoneWaits
<1>4. Waiting(ParentCommand(s, c)) /\ Same(ParentCommand(s, c), s)
  BY <1>0, CommandWaits
<1>5. Waiting(ParentAuthenticate(s, c)) /\ Same(ParentAuthenticate(s, c), s)
  BY <1>0, AuthenticateWaits
<1> HIDE DEF c, dead
<1> QED
  BY <1>1, <1>2, <1>3, <1>4, <1>5 DEF Same

(* What t has of s is all that Waiting looks at. *)
Alike(t, s) ==
  /\ t \in ParentPrograms
  /\ t.list = s.list /\ t.sigif = s.sigif /\ t.children = s.children /\ t.asked = s.asked
  /\ t.exit = s.exit /\ t.keep = s.keep /\ t.closing = s.closing /\ t.armed = s.armed

LEMMA AlikeWaits ==
  ASSUME NEW s, Waiting(s), NEW t, Alike(t, s)
  PROVE  Waiting(t)
BY DEF Waiting, Alike, Ending

(* The end of a visit. *)
LEMMA StepWaits ==
  ASSUME NEW s, Waiting(s), s.pc \in {"input", "timeouts"} \cup Ends
  PROVE  LET t == ParentStep(s)
         IN /\ Waiting(t) /\ t.todo = s.todo /\ t.children = s.children
            /\ t.pc = s.pc \/ t.pc = "turn"
            /\ t.pc \in {"input", "timeouts"} => t.todo # <<>>
<1> DEFINE a == [s EXCEPT !.pc = "turn"]
<1>1. s \in ParentPrograms
  BY DEF Waiting
<1>2. Alike(a, s) /\ a.todo = s.todo /\ a.pc = "turn"
  BY <1>1 DEF ParentPrograms, Alike, Pcs
<1>3. Waiting(a) /\ a.children = s.children
  BY <1>2, AlikeWaits DEF Alike
<1>4. ParentStep(s) = IF s.pc \in Ends THEN s ELSE IF s.todo = <<>> THEN a ELSE s
  BY DEF ParentStep
<1> HIDE DEF a
<1> QED
  BY <1>2, <1>3, <1>4 DEF Ends

(* All that is left of the invariant when the processes are as they were. *)
LEMMA Kept ==
  ASSUME ParentInv, kid' = kid, opt' = opt, Waiting(p'), p'.children = p.children,
         Visits(p'), p'.pc # "main", p'.pc \in {"outer", "ended"} => ~p.children
  PROVE  ParentInv'
<1>1. p' \in ParentPrograms
  BY DEF Waiting
<1> QED
  BY <1>1 DEF ParentInv, Waiting, Visits, Ending, NoneLeft

LEMMA MainKeeps ==
  ASSUME ParentAssumption, ParentInv, Main
  PROVE  ParentInv'
<1> DEFINE a == [p EXCEPT !.sigif = "sig",
                          !.armed = IF opt.timer = "start" THEN {Sig} ELSE {}]
           s == AddChild(a, Sig)
           t == SignalHandler(s, {"CHLD"})
           e == AddChild([t EXCEPT !.sigif = "own"], Own)
           u == IF t.sigif = "none" THEN [e EXCEPT !.refs[Own] = 2] ELSE t
           v == [u EXCEPT !.open = {Unix}, !.refs[Unix] = 1]
           w == AddChild(v, Unix)
<1>0. /\ p \in ParentPrograms /\ p.children /\ ~Ending(p) /\ p.list = <<>> /\ p.pc = "main"
      /\ p' = [w EXCEPT !.pc = "select"] /\ kid' = AfterWait({"CHLD"}) /\ opt' = opt
  BY DEF Main, ParentInv
<1>1. s \in ParentPrograms /\ ~Ending(s) /\ s.children /\ s.list = <<Sig>> /\ s.sigif = "sig"
  <2>1. a \in ParentPrograms /\ ~Ending(a) /\ a.children /\ a.list = <<>> /\ a.sigif = "sig"
    BY <1>0, IfaceKinds DEF ParentPrograms, Ending, Timed
  <2>2. a.refs \in [Ifaces -> Int] /\ Sig \in Ifaces
    BY <2>1, IfaceKinds DEF ParentPrograms
  <2> HIDE DEF a
  <2>3. [a.refs EXCEPT ![Sig] = @ + 1] \in [Ifaces -> Int]
    BY <2>2
  <2>4. Append(a.list, Sig) = <<Sig>> /\ <<Sig>> \in Seq(Ifaces)
    BY <2>1, <2>2
  <2> QED
    BY <2>1, <2>3, <2>4 DEF ParentPrograms, AddChild, Ending
<1> HIDE DEF s
<1>2. Waiting(s)
  BY <1>1 DEF Waiting, Has
<1>3. /\ Waiting(t) /\ (t.children <=> \E k \in Kids : kid[k] = "running")
  BY <1>1, <1>2, HandlerWaits
<1> HIDE DEF t
<1>4. Waiting(u) /\ u.children = t.children
  <2>1. CASE t.sigif = "none"
    <3> DEFINE b == [t EXCEPT !.sigif = "own"]
               f == [e EXCEPT !.refs[Own] = 2]
    <3>1. ~t.children /\ t \in ParentPrograms
      BY <1>3, <2>1 DEF Waiting
    <3>2. b \in ParentPrograms /\ ~b.children
      BY <3>1 DEF ParentPrograms
    <3>3. Waiting(b)
      BY <3>2 DEF Waiting
    <3> HIDE DEF b
    <3>4. Waiting(e) /\ e.children = b.children
      BY <3>3, IfaceKinds, AddChildWaits DEF Same, b
    <3>5. e \in ParentPrograms
      BY <3>4 DEF Waiting
    <3> HIDE DEF e
    <3>6. [e.refs EXCEPT ![Own] = 2] \in [Ifaces -> Int]
      BY <3>5, IfaceKinds DEF ParentPrograms
    <3>7. Alike(f, e)
      BY <3>5, <3>6 DEF ParentPrograms, Alike
    <3>8. Waiting(f) /\ f.children = e.children
      BY <3>4, <3>7, AlikeWaits DEF Alike
    <3> HIDE DEF f
    <3>9. e.children \in BOOLEAN /\ t.children \in BOOLEAN /\ b.children \in BOOLEAN
      BY <3>1, <3>3, <3>5 DEF ParentPrograms, Waiting
    <3> QED
      BY <2>1, <3>1, <3>2, <3>4, <3>8, <3>9 DEF f
  <2>2. CASE t.sigif # "none"
    BY <1>3, <2>2
  <2> QED
    BY <2>1, <2>2
<1> HIDE DEF u
<1>5. Waiting(v) /\ v.children = u.children
  <2>1. u \in ParentPrograms
    BY <1>4 DEF Waiting
  <2>2. [u.refs EXCEPT ![Unix] = 1] \in [Ifaces -> Int]
    <3>1. u.refs \in [Ifaces -> Int]
      BY <2>1 DEF ParentPrograms
    <3> QED
      BY <3>1, IfaceKinds
  <2>3. Alike(v, u)
    BY <2>1, <2>2, IfaceKinds DEF ParentPrograms, Alike
  <2> QED
    BY <1>4, <2>3, AlikeWaits DEF Alike
<1> HIDE DEF v
<1>6. Waiting(w) /\ w.children = v.children
  BY <1>5, IfaceKinds, AddChildWaits DEF Same
<1> HIDE DEF w
<1>7. Waiting(p') /\ p'.children = w.children /\ p'.pc = "select"
  <2>1. w \in ParentPrograms
    BY <1>6 DEF Waiting
  <2>2. Alike(p', w) /\ p'.pc = "select"
    BY <1>0, <2>1 DEF ParentPrograms, Alike, Pcs
  <2> QED
    BY <1>6, <2>2, AlikeWaits DEF Alike
<1>8. kid' \in [Kids -> {"running", "zombie", "gone"}]
  BY <1>0 DEF AfterWait, ParentInv
<1>9. ~p'.children => NoneLeft'
  <2>1. ASSUME ~\E k \in Kids : kid[k] = "running"
        PROVE  \A k \in Kids : kid'[k] = "gone"
    BY <1>0, <2>1 DEF AfterWait, ParentInv
  <2> QED
    BY <1>3, <1>4, <1>5, <1>6, <1>7, <2>1 DEF NoneLeft
<1>10. p' \in ParentPrograms /\ opt' \in Options
  BY <1>0, <1>7 DEF Waiting, ParentInv
<1> QED
  BY <1>7, <1>8, <1>9, <1>10 DEF ParentInv, Visits, Waiting

LEMMA SelectInputKeeps ==
  ASSUME ParentInv, SelectInput
  PROVE  ParentInv'
<1> DEFINE S == {i \in p.open : HasInput(i)}
           ready == Only(p.list, S)
<1>1. /\ p \in ParentPrograms /\ Waiting(p) /\ p.pc = "select" /\ ready # <<>>
      /\ p' = [p EXCEPT !.pc = "input", !.todo = ready, !.changed = FALSE]
      /\ UNCHANGED <<opt, kid>>
  BY DEF SelectInput, ParentInv
<1>2. ready \in Seq(Ifaces) /\ Holds(ready, p.list, S, Len(p.list))
  <2>1. p.list \in Seq(Ifaces)
    BY <1>1 DEF ParentPrograms
  <2> HIDE DEF S
  <2> QED
    BY <2>1, OnlyMembers
<1>3. \A x \in S : x \in Peers \cup {Unix}
  <2>1. \A x \in S : x \in Ifaces /\ HasInput(x)
    BY <1>1 DEF ParentPrograms
  <2>2. \A x \in {Sig, Own} : ~HasInput(x)
    BY DEF HasInput, Sig, Own, Unix
  <2> HIDE DEF S
  <2> QED
    BY <2>1, <2>2 DEF Ifaces, Peers
<1> HIDE DEF S
<1>4. \A i \in 1 .. Len(ready) : ready[i] \in Peers \cup {Unix}
  BY <1>2, <1>3 DEF Holds
<1> HIDE DEF ready
<1>5. Alike(p', p) /\ p'.pc = "input" /\ p'.todo = ready
  BY <1>1, <1>2 DEF ParentPrograms, Alike, Pcs
<1>6. Waiting(p')
  BY <1>1, <1>5, AlikeWaits
<1> QED
  BY <1>1, <1>4, <1>5, <1>6, Kept DEF Visits, Alike

LEMMA SelectSignalsKeeps ==
  ASSUME ParentInv, SelectSignals
  PROVE  ParentInv'
<1> DEFINE s == [p EXCEPT !.pc = "turn", !.changed = FALSE]
           t == SignalHandler(s, sigs)
           u == Shutdown(s, "part")
           v == [u EXCEPT !.keep = FALSE]
<1>1. /\ p \in ParentPrograms /\ Waiting(p) /\ opt' = opt /\ p.pc = "select"
      /\ p' = (IF p.sigif = "sig" THEN t ELSE v)
      /\ kid' = (IF p.sigif = "sig" THEN AfterWait(sigs) ELSE kid)
  BY DEF SelectSignals, ParentInv, Quiet
<1>2. Waiting(s) /\ s.pc = "turn" /\ s.children = p.children
  <2>1. Alike(s, p) /\ s.pc = "turn"
    BY <1>1 DEF ParentPrograms, Alike, Pcs
  <2> QED
    BY <1>1, <2>1, AlikeWaits DEF Alike
<1> HIDE DEF s
<1>3. CASE p.sigif = "sig"
  <2>1. /\ Waiting(t) /\ t.pc = "turn"
        /\ (t.children <=> p.children /\ ("CHLD" \in sigs => \E k \in Kids : kid[k] = "running"))
    BY <1>2, HandlerWaits
  <2> HIDE DEF t
  <2>2. kid' = AfterWait(sigs) /\ p' = t
    BY <1>1, <1>3
  <2>3. kid' \in [Kids -> {"running", "zombie", "gone"}]
    BY <2>2 DEF AfterWait, ParentInv
  <2>4. ~t.children => NoneLeft'
    <3>1. ASSUME ~p.children
          PROVE  NoneLeft'
      <4>1. \A k \in Kids : kid[k] = "gone"
        BY <3>1 DEF ParentInv, NoneLeft
      <4> QED
        BY <2>2, <4>1 DEF AfterWait, NoneLeft, ParentInv
    <3>2. ASSUME "CHLD" \in sigs, ~\E k \in Kids : kid[k] = "running"
          PROVE  NoneLeft'
      BY <2>2, <3>2 DEF AfterWait, NoneLeft, ParentInv
    <3> QED
      BY <2>1, <3>1, <3>2
  <2>5. p' \in ParentPrograms /\ opt' \in Options
    BY <1>1, <2>1, <2>2 DEF Waiting, ParentInv
  <2> QED
    BY <2>1, <2>2, <2>3, <2>4, <2>5 DEF ParentInv, Visits
<1>4. CASE p.sigif # "sig"
  <2>1. ~s.children
    BY <1>1, <1>2, <1>4 DEF Waiting
  <2>2. Waiting(u) /\ u.pc = "turn" /\ ~u.children
    BY <1>2, <2>1, ShutdownWaits DEF Same
  <2>3. u \in ParentPrograms
    BY <2>2 DEF Waiting
  <2> HIDE DEF u
  <2>4. v \in ParentPrograms /\ v.pc = "turn" /\ ~v.children
    BY <2>2, <2>3 DEF ParentPrograms
  <2>5. p' = v /\ kid' = kid
    BY <1>1, <1>4
  <2> HIDE DEF v
  <2> QED
    BY <1>1, <1>2, <2>1, <2>4, <2>5 DEF ParentInv, Waiting, Visits, NoneLeft
<1> QED
  BY <1>3, <1>4

LEMMA SelectTimeoutKeeps ==
  ASSUME ParentInv, SelectTimeout
  PROVE  ParentInv'
<1> DEFINE todo == Only(p.list, p.armed)
<1>1. PICK late \in (SUBSET (p.armed \cap ToSet(p.list))) \ {{}} :
        p' = [p EXCEPT !.pc = "timeouts", !.late = late, !.changed = FALSE, !.todo = todo]
  BY DEF SelectTimeout
<1>2. /\ p \in ParentPrograms /\ Waiting(p) /\ p.pc = "select" /\ UNCHANGED <<opt, kid>>
  BY DEF SelectTimeout, Quiet, ParentInv
<1>3. p.list \in Seq(Ifaces) /\ p.armed \subseteq Timed /\ Timed \subseteq Ifaces
  BY <1>2, IfaceKinds DEF ParentPrograms, Timed
<1>4. todo \in Seq(Ifaces) /\ Holds(todo, p.list, p.armed, Len(p.list))
  BY <1>3, OnlyMembers
<1> HIDE DEF todo
<1>5. todo # <<>>
  <2>0. late # {}
    BY <1>1
  <2>1. PICK x \in late : TRUE
    BY <2>0
  <2>2. x \in p.armed /\ \E i \in 1 .. Len(p.list) : p.list[i] = x
    BY <1>3 DEF ToSet
  <2> QED
    BY <1>4, <2>2 DEF Holds
<1>6. \A i \in 1 .. Len(todo) : todo[i] \in Timed
  BY <1>3, <1>4 DEF Holds
<1>7. late \in SUBSET Ifaces
  BY <1>3
<1>8. Alike(p', p) /\ p'.pc = "timeouts" /\ p'.todo = todo
  BY <1>1, <1>2, <1>4, <1>7 DEF ParentPrograms, Alike, Pcs
<1>9. Waiting(p')
  BY <1>2, <1>8, AlikeWaits
<1> QED
  BY <1>2, <1>5, <1>6, <1>8, <1>9, Kept DEF Visits, Alike

LEMMA SelectNothingKeeps ==
  ASSUME ParentInv, SelectNothing
  PROVE  ParentInv'
<1>1. /\ p \in ParentPrograms /\ Waiting(p) /\ p.pc = "select" /\ p.list = <<>> /\ UNCHANGED <<opt, kid>>
      /\ p' = [p EXCEPT !.pc = "turn", !.keep = FALSE]
  BY DEF SelectNothing, ParentInv
<1>2. ~p.children
  BY <1>1 DEF Waiting, Has
<1>3. p' \in ParentPrograms /\ p'.pc = "turn" /\ p'.children = p.children
  BY <1>1 DEF ParentPrograms, Pcs
<1> QED
  BY <1>1, <1>2, <1>3, Kept DEF Waiting, Visits

LEMMA ParentAcceptKeeps ==
  ASSUME ParentInv, ParentAccept
  PROVE  ParentInv'
<1>1. PICK c \in Conns : p' = [AddChild(p, AuthOf(c)) EXCEPT !.pc = "turn", !.todo = <<>>,
                                                          !.open = @ \cup {AuthOf(c)}]
  BY DEF ParentAccept
<1>2. Waiting(p) /\ p.pc = "input" /\ UNCHANGED <<opt, kid>>
  BY DEF ParentAccept, ParentInv
<1> DEFINE a == AddChild(p, AuthOf(c))
<1>3. AuthOf(c) \in Ifaces /\ Waiting(a) /\ a.children = p.children
  BY <1>2, IfaceKinds, AddChildWaits DEF Same
<1>4. p' = [a EXCEPT !.pc = "turn", !.todo = <<>>, !.open = @ \cup {AuthOf(c)}]
  BY <1>1
<1> HIDE DEF a
<1>5. Alike(p', a) /\ p'.pc = "turn"
  <2>1. a \in ParentPrograms /\ <<>> \in Seq(Ifaces)
    BY <1>3 DEF Waiting
  <2> QED
    BY <1>3, <1>4, <2>1 DEF ParentPrograms, Alike, Pcs
<1>6. Waiting(p') /\ p'.children = p.children
  BY <1>3, <1>5, AlikeWaits DEF Alike
<1> QED
  BY <1>2, <1>5, <1>6, Kept DEF Visits

LEMMA VisitInputKeeps ==
  ASSUME ParentInv, VisitInput
  PROVE  ParentInv'
<1> DEFINE i == Head(p.todo)
           a == [p EXCEPT !.todo = Tail(@)]
           s == Read(a, i)
           t == IF s.changed THEN [s EXCEPT !.todo = <<>>] ELSE s
           dead == [p EXCEPT !.pc = "crashed"]
<1>1. /\ p \in ParentPrograms /\ Waiting(p) /\ Visits(p) /\ p.pc = "input" /\ i # Unix
      /\ UNCHANGED <<opt, kid>>
      /\ p' = ParentStep(t) \/ p' = dead
  BY DEF VisitInput, ParentInv
<1>2. /\ p.todo \in Seq(Ifaces) /\ p.todo # <<>>
      /\ \A j \in 1 .. Len(p.todo) : p.todo[j] \in Peers \cup {Unix}
  BY <1>1 DEF ParentPrograms, Visits
<1>3. /\ i \in Peers /\ Tail(p.todo) \in Seq(Ifaces)
      /\ \A j \in 1 .. Len(Tail(p.todo)) : Tail(p.todo)[j] \in Peers \cup {Unix}
  BY <1>1, <1>2
<1>4. Waiting(a) /\ a.todo = Tail(p.todo) /\ a.children = p.children /\ a.pc = "input"
  <2>1. Alike(a, p) /\ a.todo = Tail(p.todo) /\ a.pc = "input"
    BY <1>1, <1>3 DEF ParentPrograms, Alike
  <2> HIDE DEF a
  <2> QED
    BY <1>1, <2>1, AlikeWaits DEF Alike
<1>5. Waiting(dead) /\ dead.children = p.children /\ dead.pc = "crashed"
  <2>1. Alike(dead, p) /\ dead.pc = "crashed"
    BY <1>1 DEF ParentPrograms, Alike, Pcs, Ends
  <2> HIDE DEF dead
  <2> QED
    BY <1>1, <2>1, AlikeWaits DEF Alike
<1> HIDE DEF a, dead
<1>6. Waiting(s) /\ s.todo = a.todo /\ s.children = p.children /\ s.pc \in {"input", "killed"}
  BY <1>3, <1>4, ReadWaits
<1> HIDE DEF s
<1>7. /\ Waiting(t) /\ t.children = p.children /\ t.pc \in {"input", "killed"}
      /\ t.todo = a.todo \/ t.todo = <<>>
  <2> DEFINE e == [s EXCEPT !.todo = <<>>]
  <2>1. s \in ParentPrograms /\ <<>> \in Seq(Ifaces)
    BY <1>6 DEF Waiting
  <2>2. Alike(e, s) /\ e.todo = <<>> /\ e.pc = s.pc
    BY <2>1 DEF ParentPrograms, Alike
  <2> HIDE DEF e
  <2>3. Waiting(e) /\ e.children = s.children
    BY <1>6, <2>2, AlikeWaits DEF Alike
  <2>4. t = e \/ t = s
    BY DEF e
  <2> HIDE DEF t
  <2> QED
    BY <1>6, <2>2, <2>3, <2>4
<1> HIDE DEF t, i
<1>8. ASSUME p' = ParentStep(t)
      PROVE  ParentInv'
  <2>1. /\ Waiting(p') /\ p'.todo = t.todo /\ p'.children = p.children
        /\ p'.pc \in {"input", "killed", "turn"}
        /\ p'.pc = "input" => p'.todo # <<>>
    BY <1>7, <1>8, StepWaits DEF Ends
  <2>2. Visits(p')
    <3>1. ASSUME p'.pc = "input"
          PROVE  \A j \in 1 .. Len(p'.todo) : p'.todo[j] \in Peers \cup {Unix}
      <4>1. p'.todo = Tail(p.todo)
        BY <1>4, <1>7, <2>1, <3>1
      <4> QED
        BY <1>3, <4>1
    <3> QED
      BY <2>1, <3>1 DEF Visits
  <2> QED
    BY <1>1, <2>1, <2>2, Kept
<1>9. ASSUME p' = dead
      PROVE  ParentInv'
  <2>1. Visits(p')
    BY <1>5, <1>9 DEF Visits
  <2> QED
    BY <1>1, <1>5, <1>9, <2>1, Kept
<1> QED
  BY <1>1, <1>8, <1>9

LEMMA SigTimeoutWaits ==
  ASSUME NEW s, Waiting(s)
  PROVE  LET t == SigTimeout(s)
         IN /\ Waiting(t) /\ t.todo = s.todo /\ t.children = s.children
            /\ t.pc = s.pc \/ t.pc = "failed"
<1> DEFINE a == [s EXCEPT !.pc = "failed"]
           b == [s EXCEPT !.handled = TRUE]
           e == [s EXCEPT !.armed = @ \ {Sig}, !.keep = FALSE]
<1>1. s \in ParentPrograms
  BY DEF Waiting
<1>2. Alike(a, s) /\ a.todo = s.todo /\ a.pc = "failed"
  BY <1>1 DEF ParentPrograms, Alike, Pcs, Ends
<1>3. Alike(b, s) /\ b.todo = s.todo /\ b.pc = s.pc
  BY <1>1 DEF ParentPrograms, Alike
<1>4. e \in ParentPrograms /\ e.todo = s.todo /\ e.pc = s.pc /\ e.children = s.children
  BY <1>1 DEF ParentPrograms
<1>5. SigTimeout(s) = IF s.handled THEN a ELSE IF s.children THEN b ELSE e
  BY DEF SigTimeout
<1> HIDE DEF a, b, e
<1>6. Waiting(a) /\ Waiting(b)
  BY <1>2, <1>3, AlikeWaits
<1>7. ~s.children => Waiting(e)
  BY <1>4 DEF Waiting
<1> QED
  BY <1>2, <1>3, <1>4, <1>5, <1>6, <1>7 DEF Alike

LEMMA VisitSigTimeoutKeeps ==
  ASSUME ParentInv, VisitSigTimeout
  PROVE  ParentInv'
<1> DEFINE s == [p EXCEPT !.todo = Tail(@)]
           t == IF Sig \in p.late THEN SigTimeout(s) ELSE s
<1>1. /\ p \in ParentPrograms /\ Waiting(p) /\ Visits(p) /\ p.pc = "timeouts"
      /\ UNCHANGED <<opt, kid>>
      /\ p' = ParentStep(t)
  BY DEF VisitSigTimeout, ParentInv
<1>2. /\ p.todo \in Seq(Ifaces) /\ p.todo # <<>>
      /\ \A j \in 1 .. Len(p.todo) : p.todo[j] \in Timed
  BY <1>1 DEF ParentPrograms, Visits
<1>3. /\ Tail(p.todo) \in Seq(Ifaces)
      /\ \A j \in 1 .. Len(Tail(p.todo)) : Tail(p.todo)[j] \in Timed
  BY <1>2
<1>4. Waiting(s) /\ s.todo = Tail(p.todo) /\ s.children = p.children /\ s.pc = "timeouts"
  <2>1. Alike(s, p) /\ s.todo = Tail(p.todo) /\ s.pc = "timeouts"
    BY <1>1, <1>3 DEF ParentPrograms, Alike
  <2> HIDE DEF s
  <2> QED
    BY <1>1, <2>1, AlikeWaits DEF Alike
<1> HIDE DEF s
<1>5. /\ Waiting(t) /\ t.todo = Tail(p.todo) /\ t.children = p.children
      /\ t.pc \in {"timeouts", "failed"}
  BY <1>4, SigTimeoutWaits
<1> HIDE DEF t
<1>6. /\ Waiting(p') /\ p'.todo = t.todo /\ p'.children = p.children
      /\ p'.pc \in {"timeouts", "failed", "turn"}
      /\ p'.pc = "timeouts" => p'.todo # <<>>
  BY <1>1, <1>5, StepWaits DEF Ends
<1>7. Visits(p')
  BY <1>3, <1>5, <1>6 DEF Visits
<1> QED
  BY <1>1, <1>6, <1>7, Kept

LEMMA VisitCltTimeoutKeeps ==
  ASSUME ParentInv, VisitCltTimeout
  PROVE  ParentInv'
<1> DEFINE i == Head(p.todo)
           reads == conn[i[2]].inbox # "none" \/ conn[i[2]].end = "reset"
           s == [p EXCEPT !.todo = Tail(@)]
           t == IF reads THEN Read(s, i) ELSE s
           due == i \in p.late /\ i \in t.armed /\ t.pc = "timeouts"
                  /\ ~(reads /\ conn[i[2]].inbox = "r")
           a == [t EXCEPT !.armed = @ \ {i}]
           b == Shutdown(a, "full")
           e == [b EXCEPT !.keep = FALSE]
           u == IF due THEN e ELSE t
           dead == [p EXCEPT !.pc = "crashed"]
<1>1. /\ p \in ParentPrograms /\ Waiting(p) /\ Visits(p) /\ p.pc = "timeouts" /\ i # Sig
      /\ UNCHANGED <<opt, kid>>
      /\ p' = ParentStep(u) \/ p' = dead
  BY DEF VisitCltTimeout, ParentInv
<1>2. /\ p.todo \in Seq(Ifaces) /\ p.todo # <<>>
      /\ \A j \in 1 .. Len(p.todo) : p.todo[j] \in Timed
  BY <1>1 DEF ParentPrograms, Visits
<1>3. /\ i \in Timed /\ Tail(p.todo) \in Seq(Ifaces)
      /\ \A j \in 1 .. Len(Tail(p.todo)) : Tail(p.todo)[j] \in Timed
  BY <1>2
<1>4. i \in Peers /\ \E c \in Conns : i = CltOf(c)
  BY <1>1, <1>3 DEF Timed, Peers
<1>5. Waiting(s) /\ s.todo = Tail(p.todo) /\ s.children = p.children /\ s.pc = "timeouts"
  <2>1. Alike(s, p) /\ s.todo = Tail(p.todo) /\ s.pc = "timeouts"
    BY <1>1, <1>3 DEF ParentPrograms, Alike
  <2> HIDE DEF s
  <2> QED
    BY <1>1, <2>1, AlikeWaits DEF Alike
<1>6. Waiting(dead) /\ dead.children = p.children /\ dead.pc = "crashed"
  <2>1. Alike(dead, p) /\ dead.pc = "crashed"
    BY <1>1 DEF ParentPrograms, Alike, Pcs, Ends
  <2> HIDE DEF dead
  <2> QED
    BY <1>1, <2>1, AlikeWaits DEF Alike
<1> HIDE DEF s, i, dead
<1>7. Waiting(Read(s, i)) /\ Read(s, i).todo = s.todo /\ Read(s, i).children = s.children
      /\ Read(s, i).pc \in {"timeouts", "killed"}
  BY <1>4, <1>5, ReadWaits
<1>8. /\ Waiting(t) /\ t.todo = Tail(p.todo) /\ t.children = p.children
      /\ t.pc \in {"timeouts", "killed"}
  BY <1>5, <1>7
<1> HIDE DEF reads, t
<1>9. ASSUME due
      PROVE  /\ Waiting(e) /\ e.todo = t.todo /\ e.children = p.children /\ e.pc = t.pc
  <2>1. ~t.children
    BY <1>4, <1>8, <1>9 DEF Waiting, Ending
  <2>2. t \in ParentPrograms
    BY <1>8 DEF Waiting
  <2>3. a \in ParentPrograms /\ Same(a, t)
    BY <2>2 DEF ParentPrograms, Same
  <2> HIDE DEF a
  <2>4. Waiting(a) /\ ~a.children
    BY <2>1, <2>3 DEF Waiting, Same
  <2>5. Waiting(b) /\ Same(b, t)
    BY <2>3, <2>4, ShutdownWaits DEF Same
  <2>6. b \in ParentPrograms
    BY <2>5 DEF Waiting
  <2> HIDE DEF b
  <2>7. e \in ParentPrograms /\ Same(e, t)
    BY <2>5, <2>6 DEF ParentPrograms, Same
  <2> HIDE DEF e
  <2> QED
    BY <1>8, <2>1, <2>7 DEF Waiting, Same
<1>10. /\ Waiting(u) /\ u.todo = Tail(p.todo) /\ u.children = p.children
       /\ u.pc \in {"timeouts", "killed"}
  <2> HIDE DEF due, e
  <2> QED
    BY <1>8, <1>9
<1> HIDE DEF u
<1>11. ASSUME p' = ParentStep(u)
       PROVE  ParentInv'
  <2>1. /\ Waiting(p') /\ p'.todo = u.todo /\ p'.children = p.children
        /\ p'.pc \in {"timeouts", "killed", "turn"}
        /\ p'.pc = "timeouts" => p'.todo # <<>>
    BY <1>10, <1>11, StepWaits DEF Ends
  <2>2. Visits(p')
    BY <1>3, <1>10, <2>1 DEF Visits
  <2> QED
    BY <1>1, <2>1, <2>2, Kept
<1>12. ASSUME p' = dead
       PROVE  ParentInv'
  <2>1. Visits(p')
    BY <1>6, <1>12 DEF Visits
  <2> QED
    BY <1>1, <1>6, <1>12, <2>1, Kept
<1> QED
  BY <1>1, <1>11, <1>12

(* The loop goes on, or has been told to end. *)
LEMMA TurnEndsKeeps ==
  ASSUME ParentInv, TurnEnds
  PROVE  ParentInv'
<1> DEFINE gone == ToSet(p.pending)
           refs == [j \in Ifaces |-> IF j \in gone THEN p.refs[j] - 1 ELSE p.refs[j]]
           freed == p.freed \cup {j \in gone : p.refs[j] = 1}
           lost == Cardinality({j \in gone : j[1] = "clt"})
           s == [ClearDeleteQueue(p) EXCEPT !.late = {}]
<1>1. /\ p \in ParentPrograms /\ Waiting(p) /\ p.pc = "turn" /\ UNCHANGED <<opt, kid>>
      /\ p' = [s EXCEPT !.pc = IF s.keep /\ ~s.exit THEN "select" ELSE "outer"]
  BY DEF TurnEnds, ParentInv
<1>2. p.refs \in [Ifaces -> Int] /\ p.freed \subseteq Ifaces /\ p.pending \in Seq(Ifaces)
  BY <1>1 DEF ParentPrograms
<1>3. gone \subseteq Ifaces
  BY <1>2 DEF ToSet
<1>4. refs \in [Ifaces -> Int] /\ freed \subseteq Ifaces
  BY <1>2, <1>3
<1>5. lost \in Int
  <2>1. IsFiniteSet(gone)
    <3> DEFINE at == [k \in 1 .. Len(p.pending) |-> p.pending[k]]
    <3>1. Len(p.pending) \in Nat
      BY <1>2
    <3>2. IsFiniteSet(1 .. Len(p.pending))
      BY <3>1, FS_Interval
    <3>3. at \in Surjection(1 .. Len(p.pending), gone)
      BY <1>2 DEF Surjection, ToSet
    <3> HIDE DEF at, gone
    <3> QED
      BY <3>2, <3>3, FS_Surjection
  <2>2. IsFiniteSet({j \in gone : j[1] = "clt"})
    BY <2>1, FS_Subset
  <2> QED
    BY <2>2, FS_CardinalityType
<1>6. s = [p EXCEPT !.pending = <<>>, !.refs = refs, !.freed = freed, !.active = @ - lost,
                    !.late = {}]
  BY <1>1 DEF ClearDeleteQueue, ParentPrograms
<1> HIDE DEF gone, refs, freed, lost, s
<1>7. Alike(s, p)
  <2>1. <<>> \in Seq(Ifaces) /\ p.active - lost \in Int
    BY <1>1, <1>5 DEF ParentPrograms
  <2> QED
    BY <1>1, <1>4, <1>6, <2>1 DEF ParentPrograms, Alike
<1>8. Alike(p', s) /\ p'.pc = IF s.keep /\ ~s.exit THEN "select" ELSE "outer"
  BY <1>1, <1>7 DEF ParentPrograms, Alike, Pcs
<1>9. Waiting(p') /\ p'.children = p.children
  BY <1>1, <1>7, <1>8, AlikeWaits DEF Alike
<1>10. p'.pc = "outer" => ~p.children
  BY <1>1, <1>7, <1>8 DEF Waiting, Ending, Alike
<1> QED
  BY <1>1, <1>8, <1>9, <1>10, Kept DEF Visits

LEMMA ReadyToQuitKeeps ==
  ASSUME ParentInv, ReadyToQuit
  PROVE  ParentInv'
<1> DEFINE shuts == p.asked # "no" /\ ~p.done
           s == IF shuts THEN DoShutdown(p) ELSE p
           dead == [p EXCEPT !.pc = "crashed"]
           a == [s EXCEPT !.pc = "ended"]
           b == [s EXCEPT !.pc = "select", !.keep = TRUE]
<1>1. /\ p \in ParentPrograms /\ Waiting(p) /\ p.pc = "outer" /\ ~p.children /\ UNCHANGED <<opt, kid>>
      /\ p' \in {a, b, dead}
  BY DEF ReadyToQuit, ParentInv
<1>2. DoShutdown(p) \in ParentPrograms /\ ~DoShutdown(p).children
  <2> DEFINE e == CloseIface(p, Unix)
             f == Dereference(e, Unix)
             t == DeleteChild(f, Unix)
  <2>1. e \in ParentPrograms /\ ~e.children
    BY <1>1 DEF ParentPrograms, CloseIface
  <2> HIDE DEF e
  <2>2. f \in ParentPrograms /\ ~f.children
    <3>1. [e.refs EXCEPT ![Unix] = @ - 1] \in [Ifaces -> Int]
      <4>1. e.refs \in [Ifaces -> Int]
        BY <2>1 DEF ParentPrograms
      <4> QED
        BY <4>1, IfaceKinds
    <3>2. (IF e.refs[Unix] = 1 THEN e.freed \cup {Unix} ELSE e.freed) \in SUBSET Ifaces
      BY <2>1, IfaceKinds DEF ParentPrograms
    <3> QED
      BY <2>1, <3>1, <3>2 DEF ParentPrograms, Dereference
  <2> HIDE DEF f
  <2>3. Waiting(f)
    BY <2>2 DEF Waiting
  <2>4. Waiting(t) /\ ~t.children
    BY <2>2, <2>3, IfaceKinds, DeleteChildWaits DEF Same
  <2>5. t \in ParentPrograms
    BY <2>4 DEF Waiting
  <2>6. DoShutdown(p) = [t EXCEPT !.done = TRUE,
               !.list = IF p.asked = "full" THEN <<>> ELSE @,
               !.pending = IF p.asked = "full" THEN @ \o t.list ELSE @]
    BY DEF DoShutdown, t, f, e
  <2> HIDE DEF t
  <2>7. /\ (IF p.asked = "full" THEN <<>> ELSE t.list) \in Seq(Ifaces)
        /\ (IF p.asked = "full" THEN t.pending \o t.list ELSE t.pending) \in Seq(Ifaces)
    <3>1. t.list \in Seq(Ifaces) /\ t.pending \in Seq(Ifaces)
      BY <2>5 DEF ParentPrograms
    <3>2. t.pending \o t.list \in Seq(Ifaces) /\ <<>> \in Seq(Ifaces)
      BY <3>1
    <3> QED
      BY <3>1, <3>2
  <2> QED
    BY <2>4, <2>5, <2>6, <2>7 DEF ParentPrograms
<1>3. s \in ParentPrograms /\ ~s.children
  BY <1>1, <1>2
<1> HIDE DEF s
<1>4. /\ a \in ParentPrograms /\ ~a.children /\ a.pc = "ended"
      /\ b \in ParentPrograms /\ ~b.children /\ b.pc = "select"
  <2>1. a \in ParentPrograms /\ ~a.children /\ a.pc = "ended"
    BY <1>3 DEF ParentPrograms, Pcs, Ends
  <2>2. b \in ParentPrograms /\ ~b.children /\ b.pc = "select"
    BY <1>3 DEF ParentPrograms, Pcs
  <2> QED
    BY <2>1, <2>2
<1>5. dead \in ParentPrograms /\ ~dead.children /\ dead.pc = "crashed"
  BY <1>1 DEF ParentPrograms, Pcs, Ends
<1> HIDE DEF a, b, dead
<1>6. p' \in ParentPrograms /\ ~p'.children /\ p'.pc \in {"ended", "select", "crashed"}
  BY <1>1, <1>4, <1>5
<1>7. Waiting(p') /\ Visits(p')
  BY <1>6 DEF Waiting, Visits
<1>8. p'.children = p.children
  BY <1>1, <1>6 DEF ParentPrograms
<1> QED
  BY <1>1, <1>6, <1>7, <1>8, Kept

LEMMA WorldKeeps ==
  ASSUME ParentInv, World \/ UNCHANGED parentvars
  PROVE  ParentInv'
<1>1. CASE \E k \in Kids : KidDies(k)
  <2>1. PICK k \in Kids : KidDies(k)
    BY <1>1
  <2>2. /\ UNCHANGED <<p, opt>> /\ kid[k] = "running" /\ kid' = [kid EXCEPT ![k] = "zombie"]
    BY <2>1 DEF KidDies
  <2>3. kid' \in [Kids -> {"running", "zombie", "gone"}] /\ p.children
    BY <2>2 DEF ParentInv, NoneLeft
  <2> QED
    BY <2>2, <2>3 DEF ParentInv, Waiting, Ending, Visits, NoneLeft
<1>2. CASE UNCHANGED <<p, opt, kid>>
  BY <1>2 DEF ParentInv, Waiting, Ending, Visits, NoneLeft
<1>3. World \/ UNCHANGED parentvars => (\E k \in Kids : KidDies(k)) \/ UNCHANGED <<p, opt, kid>>
  BY DEF World, ParentInterrupt, ParentConnect, Takes, Sends, Hangs, parentvars
<1> QED
  BY <1>1, <1>2, <1>3

(* In every reachable state: as long as parent has children nothing has asked it
   to end, its sigif is in the loop, and without children none is left. *)
THEOREM ParentInvariance == ParentAssumption => (ParentSpec => []ParentInv)
<1> SUFFICES ASSUME ParentAssumption PROVE ParentSpec => []ParentInv
  OBVIOUS
<1>1. ParentInit => ParentInv
  BY InitParentInv
<1>2. ParentInv /\ [ParentNext]_parentvars => ParentInv'
  BY MainKeeps, SelectInputKeeps, SelectSignalsKeeps, SelectTimeoutKeeps, SelectNothingKeeps,
     ParentAcceptKeeps, VisitInputKeeps, VisitSigTimeoutKeeps, VisitCltTimeoutKeeps, TurnEndsKeeps,
     ReadyToQuitKeeps, WorldKeeps, Zenon DEF ParentNext, Program
<1> QED
  BY <1>1, <1>2, PTL DEF ParentSpec

(* parent: a program that has ended has no process left, for any number of
   processes and clients, whatever they do. *)
THEOREM ParentEndsChildless == ParentAssumption => (ParentSpec => []EndsChildless)
<1> SUFFICES ASSUME ParentAssumption PROVE ParentSpec => []EndsChildless
  OBVIOUS
<1>1. ParentInv => EndsChildless
  BY DEF ParentInv, EndsChildless, NoneLeft
<1> QED
  BY <1>1, ParentInvariance, PTL
-----------------------------------------------------------------------------
(* A driver and the collector of its data. *)

Units == Nat \X Nat

Links == [up : Seq(Units), dn : Seq({"ok", "nl"}), s : BOOLEAN, g : BOOLEAN,
          serves : {"queue", "auth", "rcvr", "none"}]

DriverTypeOK ==
  drv \in [life : {"running", "ended", "failed"},
           sock : {"disconnected", "connecting", "connected"}, to : BOOLEAN,
           clt : {"connecting", "negotiating", "negotiated", "failed"}, out : BOOLEAN,
           conn : Nat, frames : Nat, starts : Nat]

CollectorTypeOK ==
  col \in [life : {"running", "ended", "failed"}, owner : Nat, data : Seq(Units),
           buf : Seq(Units), out : BOOLEAN, stale : Nat, synchs : Nat, starts : Nat]

(* What a connection holds while the collector has not taken it up; what it does
   not serve is closed, and the one it serves is the owner of the datum. *)
LinkOK(l, c) ==
  /\ l.serves \in {"queue", "auth"} => l.up \in {<<>>, DataAuth} /\ l.dn = <<>>
  /\ l.serves = "none" => ~l.g
  /\ l.serves = "rcvr" <=> c = col.owner

(* The driver writes to the last of its connections; a frame waits only for one
   that has been taken up. *)
DriverOK ==
  /\ drv.sock # "disconnected" => drv.conn \in 1 .. Len(conns)
  /\ drv.sock = "connecting" => Mine.up = <<>> /\ Mine.serves # "rcvr"
  /\ drv.sock = "connected" /\ drv.out => Mine.serves \notin {"queue", "auth"}

(* The end of a sequence of whole frames, each numbered up to n. *)
UnitFits(x, n, i) ==
  /\ x[i] \in (1 .. n) \X (1 .. Size)
  /\ i + Size - x[i][2] <= Len(x)
  /\ \A k \in i .. i + Size - x[i][2] : x[k] = <<x[i][1], x[i][2] + k - i>>
  /\ x[i][2] = Size /\ i < Len(x) => x[i + 1][2] = 1

Aligned(x, n) == \A i \in 1 .. Len(x) : UnitFits(x, n, i)

Stream == col.buf \o conns[col.owner].up

(* What the owner of the datum has still to give is such an end, and begins with
   a frame if the buffer takes no more than one. *)
StreamOK ==
  /\ col.owner \in 0 .. Len(conns)
  /\ Len(col.buf) < Size
  /\ col.owner # 0 => /\ Aligned(Stream, drv.frames)
                      /\ RdCap = Size /\ Stream # <<>> => Stream[1][2] = 1

DatumInv ==
  /\ DriverTypeOK /\ CollectorTypeOK /\ conns \in Seq(Links)
  /\ \A c \in 1 .. Len(conns) : LinkOK(conns[c], c)
  /\ DriverOK /\ StreamOK /\ DataWhole

LEMMA FrameType ==
  ASSUME DatumAssumption, NEW n \in Nat
  PROVE  /\ Frame(n) \in Seq(Units) /\ Len(Frame(n)) = Size
         /\ \A i \in 1 .. Size : Frame(n)[i] = <<n, i>>
<1>1. Size \in Nat
  BY DEF DatumAssumption
<1>2. \A i \in 1 .. Size : <<n, i>> \in Units
  BY <1>1 DEF Units
<1> QED
  BY <1>1, <1>2 DEF Frame

(* A frame behind whole frames. *)
LEMMA AlignedAppend ==
  ASSUME DatumAssumption, NEW n \in Nat, NEW x \in Seq(Units), Aligned(x, n)
  PROVE  Aligned(x \o Frame(n + 1), n + 1)
<1> DEFINE y == x \o Frame(n + 1)
           m == Len(x)
<1>1. Size \in Nat \ {0} /\ m \in Nat
  BY DEF DatumAssumption
<1>2. /\ Len(y) = m + Size
      /\ \A i \in 1 .. m : y[i] = x[i]
      /\ \A i \in m + 1 .. m + Size : y[i] = <<n + 1, i - m>>
  <2>1. n + 1 \in Nat
    OBVIOUS
  <2>2. /\ Frame(n + 1) \in Seq(Units) /\ Len(Frame(n + 1)) = Size
        /\ \A i \in 1 .. Size : Frame(n + 1)[i] = <<n + 1, i>>
    BY <2>1, FrameType
  <2> DEFINE f == Frame(n + 1)
  <2> HIDE DEF f
  <2>3. Len(y) = m + Size /\ \A i \in 1 .. m : y[i] = x[i]
    <3>1. f \in Seq(Units) /\ Len(f) = Size
      BY <2>2 DEF f
    <3>2. y = x \o f
      BY DEF f
    <3> HIDE DEF y
    <3> QED
      BY <1>1, <3>1, <3>2, ConcatProperties
  <2>4. ASSUME NEW i \in m + 1 .. m + Size
        PROVE  y[i] = <<n + 1, i - m>>
    <3>1. i - m \in 1 .. Size
      BY <1>1
    <3>2. y[i] = f[i - m]
      BY <1>1, <2>2, <3>1 DEF f
    <3> QED
      BY <2>2, <3>1, <3>2 DEF f
  <2> QED
    BY <2>3, <2>4
<1> HIDE DEF y
<1>3. ASSUME NEW i \in 1 .. m
      PROVE  UnitFits(y, n + 1, i)
  <2>1. /\ x[i] \in (1 .. n) \X (1 .. Size)
        /\ i + Size - x[i][2] <= m
        /\ \A k \in i .. i + Size - x[i][2] : x[k] = <<x[i][1], x[i][2] + k - i>>
        /\ x[i][2] = Size /\ i < m => x[i + 1][2] = 1
    BY DEF Aligned, UnitFits
  <2>2. y[i] = x[i] /\ x[i][2] \in 1 .. Size /\ x[i][1] \in 1 .. n
    BY <1>2, <2>1
  <2>3. x[i] \in (1 .. n + 1) \X (1 .. Size)
    BY <2>1
  <2>4. \A k \in i .. i + Size - x[i][2] : k \in 1 .. m
    BY <1>1, <2>1, <2>2
  <2>5. y[i][2] = Size /\ i < Len(y) => y[i + 1][2] = 1
    <3>1. CASE i < m
      <4>1. y[i + 1] = x[i + 1]
        BY <1>1, <1>2, <3>1
      <4> QED
        BY <2>1, <2>2, <3>1, <4>1
    <3>2. CASE i = m
      <4>1. y[m + 1] = <<n + 1, 1>>
        BY <1>1, <1>2
      <4> QED
        BY <3>2, <4>1
    <3> QED
      BY <1>1, <3>1, <3>2
  <2>6. i + Size - x[i][2] <= Len(y)
    BY <1>1, <1>2, <2>1, <2>2
  <2>7. \A k \in i .. i + Size - x[i][2] : y[k] = <<x[i][1], x[i][2] + k - i>>
    BY <1>2, <2>1, <2>4
  <2> QED
    BY <2>2, <2>3, <2>5, <2>6, <2>7 DEF UnitFits
<1>4. ASSUME NEW i \in m + 1 .. m + Size
      PROVE  UnitFits(y, n + 1, i)
  <2>1. y[i] = <<n + 1, i - m>> /\ i - m \in 1 .. Size
    BY <1>1, <1>2
  <2>2. \A k \in i .. m + Size : y[k] = <<n + 1, k - m>>
    BY <1>1, <1>2
  <2>3. i + Size - y[i][2] = m + Size
    BY <1>1, <2>1
  <2>4. y[i][2] = Size => i = Len(y)
    BY <1>1, <1>2, <2>1
  <2>5. \A k \in i .. m + Size : k - m = i - m + k - i
    BY <1>1
  <2> QED
    BY <1>1, <1>2, <2>1, <2>2, <2>3, <2>4, <2>5 DEF UnitFits
<1>5. \A i \in 1 .. Len(y) : i \in 1 .. m \/ i \in m + 1 .. m + Size
  BY <1>1, <1>2
<1> QED
  BY <1>3, <1>4, <1>5 DEF Aligned, y

(* What is left when some of it has been taken. *)
LEMMA AlignedSuffix ==
  ASSUME DatumAssumption, NEW n \in Nat, NEW x \in Seq(Units), Aligned(x, n),
         NEW m \in 0 .. Len(x)
  PROVE  Aligned(SubSeq(x, m + 1, Len(x)), n)
<1> DEFINE y == SubSeq(x, m + 1, Len(x))
<1>1. /\ Len(x) \in Nat /\ Size \in Nat /\ Len(y) = Len(x) - m
      /\ \A i \in 1 .. Len(x) - m : y[i] = x[m + i]
  BY DEF DatumAssumption
<1> HIDE DEF y
<1>2. ASSUME NEW i \in 1 .. Len(y)
      PROVE  UnitFits(y, n, i)
  <2>1. y[i] = x[m + i] /\ m + i \in 1 .. Len(x)
    BY <1>1
  <2>2. /\ x[m + i] \in (1 .. n) \X (1 .. Size)
        /\ m + i + Size - x[m + i][2] <= Len(x)
        /\ \A k \in m + i .. m + i + Size - x[m + i][2] :
             x[k] = <<x[m + i][1], x[m + i][2] + k - (m + i)>>
        /\ x[m + i][2] = Size /\ m + i < Len(x) => x[m + i + 1][2] = 1
    BY <2>1 DEF Aligned, UnitFits
  <2> DEFINE o == x[m + i][2]
  <2>3. o \in 1 .. Size
    BY <2>2
  <2>4. ASSUME NEW k \in i .. i + Size - o
        PROVE  y[k] = <<x[m + i][1], o + k - i>>
    <3>0. m + i + Size - o <= Len(x)
      BY <2>2
    <3> HIDE DEF o
    <3>1. m + k \in m + i .. m + i + Size - o /\ k \in 1 .. Len(x) - m
      BY <1>1, <2>3, <3>0
    <3>2. o + (m + k) - (m + i) = o + k - i
      BY <1>1, <2>3
    <3> QED
      BY <1>1, <2>2, <3>1, <3>2 DEF o
  <2>5. i < Len(y) => y[i + 1] = x[m + i + 1]
    BY <1>1
  <2>6. i + Size - o <= Len(y)
    BY <1>1, <2>2, <2>3
  <2>7. y[i][2] = o /\ y[i] \in (1 .. n) \X (1 .. Size)
    BY <2>1, <2>2
  <2>8. \A k \in i .. i + Size - y[i][2] : y[k] = <<y[i][1], y[i][2] + k - i>>
    BY <2>1, <2>4
  <2>9. y[i][2] = Size /\ i < Len(y) => y[i + 1][2] = 1
    <3>1. i < Len(y) => m + i < Len(x)
      BY <1>1
    <3> QED
      BY <2>1, <2>2, <2>5, <3>1
  <2> HIDE DEF o
  <2> QED
    BY <2>6, <2>7, <2>8, <2>9 DEF UnitFits
<1> QED
  BY <1>2 DEF Aligned, y

(* As many units as a frame has, when they are all there are or begin with the
   first of a frame, are a frame. *)
LEMMA AlignedWhole ==
  ASSUME DatumAssumption, NEW n \in Nat, NEW x \in Seq(Units), Aligned(x, n),
         Len(x) = Size \/ (Len(x) >= Size /\ x[1][2] = 1)
  PROVE  \E m \in 1 .. n : SubSeq(x, 1, Size) = Frame(m)
<1>1. Size \in Nat \ {0} /\ Len(x) \in Nat /\ Len(x) >= Size /\ 1 \in 1 .. Len(x)
  BY DEF DatumAssumption
<1> DEFINE o == x[1][2]
           m == x[1][1]
<1>2. /\ o \in 1 .. Size /\ m \in 1 .. n
      /\ \A k \in 1 .. 1 + Size - o : x[k] = <<m, o + k - 1>>
  BY <1>1 DEF Aligned, UnitFits
<1> HIDE DEF o, m
<1>3. o = 1
  <2>1. SUFFICES ASSUME o > 1, Len(x) = Size
                 PROVE  FALSE
    BY <1>1, <1>2 DEF o
  <2> DEFINE j == 1 + Size - o
  <2>2. j \in 1 .. Len(x) /\ j + 1 \in 1 .. Len(x) /\ j < Len(x)
    BY <1>1, <1>2, <2>1
  <2>3. x[j][2] = Size
    BY <1>1, <1>2
  <2> HIDE DEF j
  <2>4. x[j + 1][2] = 1
    BY <2>2, <2>3 DEF Aligned, UnitFits
  <2>5. j + 1 + Size - 1 <= Len(x)
    BY <2>2, <2>4 DEF Aligned, UnitFits
  <2> QED
    BY <1>1, <2>1, <2>2, <2>5
<1>4. \A k \in 1 .. Size : x[k] = <<m, k>>
  BY <1>1, <1>2, <1>3
<1>5. SubSeq(x, 1, Size) = Frame(m)
  BY <1>1, <1>4 DEF Frame
<1> QED
  BY <1>2, <1>5

LEMMA AlignedEmpty ==
  ASSUME NEW n
  PROVE  Aligned(<<>>, n)
BY DEF Aligned

LEMMA InitDatumInv ==
  ASSUME DatumAssumption, DataInit
  PROVE  DatumInv
<1>1. DriverTypeOK /\ CollectorTypeOK /\ conns \in Seq(Links)
  BY DEF DataInit, DriverTypeOK, CollectorTypeOK
<1> QED
  BY <1>1 DEF DataInit, DatumInv, DriverOK, StreamOK, DataWhole, DatumAssumption

(* Aligned looks at the numbers of frames from above only. *)
LEMMA AlignedMore ==
  ASSUME NEW n \in Nat, NEW x, Aligned(x, n)
  PROVE  Aligned(x, n + 1)
<1>1. 1 .. n \subseteq 1 .. n + 1
  OBVIOUS
<1> QED
  BY <1>1 DEF Aligned, UnitFits

LEMMA LinkChanged ==
  ASSUME conns \in Seq(Links), NEW c \in 1 .. Len(conns), NEW l \in Links,
         conns' = [conns EXCEPT ![c] = l]
  PROVE  /\ conns' \in Seq(Links) /\ Len(conns') = Len(conns) /\ conns'[c] = l
         /\ \A e \in 1 .. Len(conns) : e # c => conns'[e] = conns[e]
OBVIOUS

(* DataWhole and LinkOK do not see the driver but for the number of frames. *)
LEMMA DataStays ==
  ASSUME DriverTypeOK, DriverTypeOK', col' = col, DataWhole, drv'.frames >= drv.frames
  PROVE  DataWhole'
BY DEF DriverTypeOK, DataWhole

(* What the driver does to its connection. *)
LEMMA DriverKeeps ==
  ASSUME DatumAssumption, DatumInv, col' = col, drv.conn \in 1 .. Len(conns), NEW l \in Links,
         DriverTypeOK', drv'.conn = drv.conn, drv'.frames \in {drv.frames, drv.frames + 1},
         conns' = [conns EXCEPT ![drv.conn] = l], l.serves = Mine.serves, l.g = Mine.g,
         l.serves \in {"queue", "auth"} => l.up \in {<<>>, DataAuth} /\ l.dn = <<>>,
         l.serves = "rcvr" =>
           \/ l.up = Mine.up
           \/ drv'.frames = drv.frames + 1 /\ l.up = Mine.up \o Frame(drv.frames + 1),
         drv'.sock = "connecting" => l.up = <<>> /\ l.serves # "rcvr",
         drv'.sock = "connected" /\ drv'.out => l.serves \notin {"queue", "auth"}
  PROVE  DatumInv'
<1>1. /\ conns \in Seq(Links) /\ DriverTypeOK /\ CollectorTypeOK /\ DataWhole
      /\ \A c \in 1 .. Len(conns) : LinkOK(conns[c], c)
      /\ col.owner \in 0 .. Len(conns) /\ Len(col.buf) < Size
      /\ col.owner # 0 => /\ Aligned(Stream, drv.frames)
                          /\ RdCap = Size /\ Stream # <<>> => Stream[1][2] = 1
  BY DEF DatumInv, StreamOK
<1>2. /\ conns' \in Seq(Links) /\ Len(conns') = Len(conns) /\ conns'[drv.conn] = l
      /\ \A e \in 1 .. Len(conns) : e # drv.conn => conns'[e] = conns[e]
  BY <1>1, LinkChanged
<1>3. ASSUME NEW c \in 1 .. Len(conns')
      PROVE  LinkOK(conns[c], c)'
  BY <1>1, <1>2 DEF LinkOK, Mine
<1>4. DriverOK'
  BY <1>2 DEF DriverOK, Mine
<1>5. drv.frames \in Nat /\ drv'.frames >= drv.frames
  BY <1>1 DEF DriverTypeOK
<1>6. StreamOK'
  <2>1. SUFFICES ASSUME col.owner # 0
                 PROVE  /\ Aligned(Stream', drv'.frames)
                        /\ RdCap = Size /\ Stream' # <<>> => Stream'[1][2] = 1
    BY <1>1, <1>2 DEF StreamOK
  <2> DEFINE x == col.buf \o conns[col.owner].up
             y == col.buf \o conns'[col.owner].up
  <2>2. x = Stream /\ y = Stream'
    BY DEF Stream
  <2>3. x \in Seq(Units) /\ col.buf \in Seq(Units) /\ conns[col.owner] \in Links
    <3>1. col.owner \in 1 .. Len(conns) /\ col.buf \in Seq(Units)
      BY <1>1, <2>1 DEF CollectorTypeOK
    <3>2. conns[col.owner] \in Links
      BY <1>1, <3>1
    <3>3. conns[col.owner].up \in Seq(Units)
      BY <3>2 DEF Links
    <3> QED
      BY <3>1, <3>2, <3>3
  <2>4. Aligned(x, drv.frames) /\ (RdCap = Size /\ x # <<>> => x[1][2] = 1)
    BY <1>1, <2>1, <2>2
  <2>5. CASE conns'[col.owner].up = conns[col.owner].up
    <3>1. y = x
      BY <2>5
    <3>2. Aligned(x, drv'.frames)
      BY <1>5, <2>4, AlignedMore
    <3> QED
      BY <2>2, <2>4, <3>1, <3>2
  <2>6. CASE conns'[col.owner].up # conns[col.owner].up
    <3>1. col.owner = drv.conn /\ l.serves = "rcvr"
      BY <1>1, <1>2, <2>1, <2>6 DEF LinkOK, Mine
    <3>2. drv'.frames = drv.frames + 1 /\ conns'[col.owner].up = conns[col.owner].up \o Frame(drv.frames + 1)
      BY <1>2, <2>6, <3>1 DEF Mine
    <3> DEFINE f == Frame(drv.frames + 1)
    <3>3. f \in Seq(Units) /\ Len(f) = Size /\ \A i \in 1 .. Size : f[i] = <<drv.frames + 1, i>>
      BY <1>5, FrameType
    <3>4. Aligned(x \o f, drv.frames + 1)
      BY <1>5, <2>3, <2>4, AlignedAppend
    <3> HIDE DEF f
    <3>5. y = x \o f
      <4>1. conns[col.owner].up \in Seq(Units) /\ f \in Seq(Units)
        BY <2>3, <3>3 DEF Links, f
      <4>2. conns'[col.owner].up = conns[col.owner].up \o f
        BY <3>2 DEF f
      <4> DEFINE u == conns[col.owner].up
      <4> HIDE DEF u
      <4>3. u \in Seq(Units) /\ col.buf \in Seq(Units)
        BY <2>3, <4>1 DEF u
      <4>4. Joined(col.buf \o (u \o f), col.buf \o u, f)
        BY <4>1, <4>3, JoinedBehind, Zenon
      <4> QED
        BY <4>2, <4>4 DEF u, Joined
    <3>6. RdCap = Size => (x \o f)[1][2] = 1
      <4> HIDE DEF x
      <4>0. Size \in Nat \ {0}
        BY DEF DatumAssumption
      <4>1. CASE x = <<>>
        BY <3>3, <4>0, <4>1
      <4>2. CASE x # <<>>
        <5>1. (x \o f)[1] = x[1]
          BY <2>3, <3>3, <4>2
        <5> QED
          BY <2>4, <4>2, <5>1
      <4> QED
        BY <4>1, <4>2
    <3> HIDE DEF x, y
    <3> QED
      BY <2>2, <3>2, <3>4, <3>5, <3>6
  <2> QED
    BY <2>5, <2>6
<1>7. DataWhole'
  BY <1>1, <1>5, DataStays
<1>8. CollectorTypeOK'
  BY <1>1 DEF CollectorTypeOK
<1> QED
  BY <1>2, <1>3, <1>4, <1>6, <1>7, <1>8 DEF DatumInv

LEMMA MineTyped ==
  ASSUME DatumInv, drv.sock # "disconnected"
  PROVE  drv.conn \in 1 .. Len(conns) /\ Mine \in Links /\ LinkOK(Mine, drv.conn)
BY DEF DatumInv, DriverOK, Mine

LEMMA ConnectedKeeps ==
  ASSUME DatumAssumption, DatumInv, DataConnected
  PROVE  DatumInv'
<1> DEFINE w == Writes(drv, drv.conn, DataAuth)
           l == IF ~drv.out /\ w.sent THEN [Mine EXCEPT !.up = DataAuth] ELSE Mine
<1>1. /\ drv.sock = "connecting" /\ col' = col
      /\ drv' = (IF drv.out THEN [drv EXCEPT !.life = "failed"]
                  ELSE [drv EXCEPT !.life = w.life, !.sock = "connected",
                                   !.clt = "negotiating"])
      /\ conns' = (IF ~drv.out /\ w.sent
                      THEN [conns EXCEPT ![drv.conn].up = DataAuth] ELSE conns)
  BY DEF DataConnected
<1>2. drv.conn \in 1 .. Len(conns) /\ Mine \in Links /\ LinkOK(Mine, drv.conn)
  BY <1>1, MineTyped
<1>3. /\ DriverTypeOK /\ Mine.up = <<>> /\ Mine.serves # "rcvr" /\ conns \in Seq(Links)
  BY <1>1 DEF DatumInv, DriverOK
<1>4. w.life \in {"running", "failed", "ended"} /\ (w.sent => Mine.g)
  BY <1>3 DEF Writes, DriverTypeOK, Mine
<1> HIDE DEF w
<1>5. DriverTypeOK' /\ drv'.conn = drv.conn /\ drv'.frames = drv.frames /\ drv'.out = drv.out
      /\ drv'.sock = (IF drv.out THEN drv.sock ELSE "connected")
  BY <1>1, <1>3, <1>4 DEF DriverTypeOK
<1>6. DataAuth \in Seq(Units)
  BY DEF DataAuth, Units
<1>7. l \in Links /\ l.serves = Mine.serves /\ l.g = Mine.g /\ l.dn = Mine.dn
      /\ l.up \in {<<>>, DataAuth} /\ (drv.out => l = Mine)
  BY <1>2, <1>3, <1>6 DEF Links
<1>8. conns' = [conns EXCEPT ![drv.conn] = l]
  <2>1. CASE ~drv.out /\ w.sent
    BY <1>1, <2>1 DEF Mine
  <2>2. CASE ~(~drv.out /\ w.sent)
    BY <1>1, <1>3, <2>2 DEF Mine
  <2> QED
    BY <2>1, <2>2
<1> HIDE DEF l
<1>9. /\ l.serves \in {"queue", "auth"} => l.up \in {<<>>, DataAuth} /\ l.dn = <<>>
      /\ drv'.sock = "connecting" => l.up = <<>> /\ l.serves # "rcvr"
      /\ ~(drv'.sock = "connected" /\ drv'.out)
  BY <1>1, <1>2, <1>3, <1>5, <1>7 DEF LinkOK
<1> QED
  BY <1>1, <1>2, <1>3, <1>5, <1>7, <1>8, <1>9, DriverKeeps

LEMMA DriverInputKeeps ==
  ASSUME DatumAssumption, DatumInv, DriverInput
  PROVE  DatumInv'
<1> DEFINE w == Writes(drv, drv.conn, Frame(1))
           t == DataSend(drv, drv.conn)
           f == Frame(drv'.frames)
           up == IF drv'.frames > drv.frames THEN Mine.up \o f ELSE Mine.up
           l == [Mine EXCEPT !.dn = <<>>, !.up = up]
<1>1. /\ drv.sock = "connected" /\ Mine.dn # <<>> /\ col' = col
      /\ drv' = [t EXCEPT !.clt = "negotiated"]
      /\ conns' = [conns EXCEPT ![drv.conn].dn = <<>>,
                                ![drv.conn].up = IF drv'.frames > drv.frames
                                                   THEN @ \o Frame(drv'.frames) ELSE @]
  BY DEF DriverInput
<1>2. drv.conn \in 1 .. Len(conns) /\ Mine \in Links /\ LinkOK(Mine, drv.conn)
  BY <1>1, MineTyped
<1>3. DriverTypeOK /\ conns \in Seq(Links)
  BY DEF DatumInv
<1>4. Mine.serves \notin {"queue", "auth"} /\ Mine.up \in Seq(Units)
  BY <1>1, <1>2 DEF LinkOK, Links
<1>5. w.life \in {"running", "failed", "ended"}
  BY <1>3 DEF Writes, DriverTypeOK, Mine
<1> HIDE DEF w
<1>6. t = IF drv.out THEN [drv EXCEPT !.life = "failed"]
          ELSE [drv EXCEPT !.life = w.life, !.out = ~w.sent,
                           !.frames = IF w.sent THEN @ + 1 ELSE @]
  BY DEF DataSend, w
<1> HIDE DEF t
<1>7. /\ DriverTypeOK' /\ drv'.conn = drv.conn /\ drv'.frames \in {drv.frames, drv.frames + 1}
      /\ drv'.sock = "connected"
  <2>1. drv.frames + 1 \in Nat
    BY <1>3 DEF DriverTypeOK
  <2>2. (~w.sent) \in BOOLEAN
    OBVIOUS
  <2>3. CASE drv.out
    BY <1>1, <1>3, <1>6, <2>3 DEF DriverTypeOK
  <2>4. CASE ~drv.out /\ w.sent
    BY <1>1, <1>3, <1>5, <1>6, <2>1, <2>4 DEF DriverTypeOK
  <2>5. CASE ~drv.out /\ ~w.sent
    BY <1>1, <1>3, <1>5, <1>6, <2>5 DEF DriverTypeOK
  <2> QED
    BY <2>3, <2>4, <2>5
<1>8. drv.frames \in Nat /\ f \in Seq(Units)
  <2>1. drv.frames \in Nat /\ drv'.frames \in Nat
    BY <1>3, <1>7 DEF DriverTypeOK
  <2> QED
    BY <2>1, FrameType
<1>9. up \in Seq(Units)
  BY <1>4, <1>8, ConcatProperties
<1>10. conns' = [conns EXCEPT ![drv.conn] = l]
  <2>1. CASE drv'.frames > drv.frames
    <3>1. conns' = [conns EXCEPT ![drv.conn].dn = <<>>, ![drv.conn].up = @ \o f]
      BY <1>1, <2>1
    <3>2. l = [Mine EXCEPT !.dn = <<>>, !.up = Mine.up \o f]
      BY <2>1
    <3> HIDE DEF f, l
    <3> QED
      BY <1>2, <1>3, <3>1, <3>2 DEF Mine
  <2>2. CASE ~(drv'.frames > drv.frames)
    BY <1>1, <1>2, <1>3, <2>2 DEF Mine
  <2> QED
    BY <2>1, <2>2
<1>11. up = Mine.up \/ (drv'.frames = drv.frames + 1 /\ up = Mine.up \o Frame(drv.frames + 1))
  <2>1. CASE drv'.frames = drv.frames
    <3>1. ~(drv'.frames > drv.frames)
      BY <1>8, <2>1
    <3> QED
      BY <3>1
  <2>2. CASE drv'.frames = drv.frames + 1
    <3>1. f = Frame(drv.frames + 1) /\ drv'.frames > drv.frames
      BY <1>8, <2>2
    <3> HIDE DEF f
    <3> QED
      BY <2>2, <3>1
  <2> QED
    BY <1>7, <2>1, <2>2
<1> HIDE DEF up
<1>12. l \in Links /\ l.serves = Mine.serves /\ l.g = Mine.g /\ l.up = up
  <2>1. <<>> \in Seq({"ok", "nl"})
    OBVIOUS
  <2> QED
    BY <1>2, <1>9, <2>1 DEF Links
<1> HIDE DEF l
<1> QED
  BY <1>1, <1>2, <1>4, <1>7, <1>10, <1>11, <1>12, DriverKeeps

LEMMA DriverWriteKeeps ==
  ASSUME DatumAssumption, DatumInv, DriverWrite
  PROVE  DatumInv'
<1> DEFINE f == Frame(drv'.frames)
           l == IF Mine.g THEN [Mine EXCEPT !.up = @ \o f] ELSE Mine
<1>1. /\ drv.sock = "connected" /\ drv.out /\ col' = col
      /\ drv' = (IF Mine.g THEN [drv EXCEPT !.out = FALSE, !.frames = @ + 1]
                  ELSE [drv EXCEPT !.life = "failed"])
      /\ conns' = (IF Mine.g
                     THEN [conns EXCEPT ![drv.conn].up = @ \o Frame(drv'.frames)] ELSE conns)
  BY DEF DriverWrite
<1>2. drv.conn \in 1 .. Len(conns) /\ Mine \in Links /\ LinkOK(Mine, drv.conn)
  BY <1>1, MineTyped
<1>3. DriverTypeOK /\ conns \in Seq(Links) /\ Mine.serves \notin {"queue", "auth"}
  BY <1>1 DEF DatumInv, DriverOK
<1>4. Mine.up \in Seq(Units)
  BY <1>2 DEF Links
<1>5. /\ DriverTypeOK' /\ drv'.conn = drv.conn /\ drv'.sock = "connected"
      /\ drv'.frames = IF Mine.g THEN drv.frames + 1 ELSE drv.frames
  <2>1. drv.frames + 1 \in Nat
    BY <1>3 DEF DriverTypeOK
  <2>2. CASE Mine.g
    BY <1>1, <1>3, <2>1, <2>2 DEF DriverTypeOK
  <2>3. CASE ~Mine.g
    BY <1>1, <1>3, <2>3 DEF DriverTypeOK
  <2> QED
    BY <2>2, <2>3
<1>6. drv.frames \in Nat /\ f \in Seq(Units)
  <2>1. drv.frames \in Nat /\ drv'.frames \in Nat
    BY <1>3, <1>5 DEF DriverTypeOK
  <2> QED
    BY <2>1, FrameType
<1>7. Mine.up \o f \in Seq(Units)
  BY <1>4, <1>6, ConcatProperties
<1>8. conns' = [conns EXCEPT ![drv.conn] = l]
  <2>1. CASE Mine.g
    BY <1>1, <2>1 DEF Mine
  <2>2. CASE ~Mine.g
    BY <1>1, <1>3, <2>2 DEF Mine
  <2> QED
    BY <2>1, <2>2
<1>9. /\ l \in Links /\ l.serves = Mine.serves /\ l.g = Mine.g
      /\ l.up = IF Mine.g THEN Mine.up \o f ELSE Mine.up
  <2> HIDE DEF f
  <2> QED
    BY <1>2, <1>7 DEF Links
<1>10. \/ l.up = Mine.up
       \/ drv'.frames = drv.frames + 1 /\ l.up = Mine.up \o Frame(drv.frames + 1)
  <2> HIDE DEF l
  <2>1. CASE Mine.g
    <3>1. drv'.frames = drv.frames + 1
      BY <1>5, <2>1
    <3>2. f = Frame(drv.frames + 1)
      BY <3>1
    <3> HIDE DEF f
    <3> QED
      BY <1>9, <2>1, <3>1, <3>2
  <2>2. CASE ~Mine.g
    BY <1>9, <2>2
  <2> QED
    BY <2>1, <2>2
<1> HIDE DEF l
<1>11. drv'.frames \in {drv.frames, drv.frames + 1}
  BY <1>5
<1> QED
  BY <1>1, <1>2, <1>3, <1>5, <1>8, <1>9, <1>10, <1>11, DriverKeeps

LEMMA DriverEofKeeps ==
  ASSUME DatumAssumption, DatumInv, DriverEof
  PROVE  DatumInv'
<1> DEFINE l == [Mine EXCEPT !.s = FALSE]
<1>1. /\ drv.sock = "connected" /\ col' = col
      /\ drv' = (IF Mine.up # <<>> THEN Reset(drv) ELSE [drv EXCEPT !.life = "ended"])
      /\ conns' = [conns EXCEPT ![drv.conn].s = FALSE]
  BY DEF DriverEof
<1>2. drv.conn \in 1 .. Len(conns) /\ Mine \in Links /\ LinkOK(Mine, drv.conn)
  BY <1>1, MineTyped
<1>3. DriverTypeOK /\ (drv.out => Mine.serves \notin {"queue", "auth"})
  BY <1>1 DEF DatumInv, DriverOK
<1>4. /\ DriverTypeOK' /\ drv'.conn = drv.conn /\ drv'.frames = drv.frames /\ drv'.out = drv.out
      /\ drv'.sock # "connecting"
  BY <1>1, <1>3 DEF DriverTypeOK, Reset
<1>5. conns' = [conns EXCEPT ![drv.conn] = l]
  BY <1>1 DEF Mine
<1>6. l \in Links /\ l.serves = Mine.serves /\ l.g = Mine.g /\ l.up = Mine.up /\ l.dn = Mine.dn
  BY <1>2 DEF Links
<1> HIDE DEF l
<1>7. l.serves \in {"queue", "auth"} => l.up \in {<<>>, DataAuth} /\ l.dn = <<>>
  BY <1>2, <1>6 DEF LinkOK
<1> QED
  BY <1>1, <1>2, <1>3, <1>4, <1>5, <1>6, <1>7, DriverKeeps

(* A connection more, which the collector does not know. *)
LEMMA DataConnectKeeps ==
  ASSUME DatumAssumption, DatumInv, DataConnect
  PROVE  DatumInv'
<1>1. /\ DriverTypeOK /\ conns \in Seq(Links) /\ col' = col /\ CollectorTypeOK
      /\ col.owner \in 0 .. Len(conns)
      /\ \A c \in 1 .. Len(conns) : LinkOK(conns[c], c)
  BY DEF DatumInv, StreamOK, DataConnect
<1>2. NewConn \in Links
  BY DEF NewConn, Links
<1>3. /\ DriverTypeOK' /\ drv'.frames = drv.frames
      /\ conns' \in Seq(Links) /\ Len(conns') \in {Len(conns), Len(conns) + 1}
      /\ \A c \in 1 .. Len(conns) : conns'[c] = conns[c]
      /\ Len(conns') = Len(conns) + 1 => conns'[Len(conns) + 1] = NewConn
      /\ \/ drv'.sock = "disconnected"
         \/ drv'.sock = "connecting" /\ drv'.conn = Len(conns) + 1 /\ Len(conns') = Len(conns) + 1
  <2>1. CASE col.life = "running"
    <3>1. /\ conns' = Append(conns, NewConn)
          /\ drv' = [drv EXCEPT !.sock = "connecting", !.to = FALSE, !.conn = Len(conns) + 1]
      BY <2>1 DEF DataConnect
    <3>2. Len(conns) + 1 \in Nat
      BY <1>1
    <3>3. DriverTypeOK' /\ drv'.frames = drv.frames /\ drv'.sock = "connecting" /\ drv'.conn = Len(conns) + 1
      BY <1>1, <3>1, <3>2 DEF DriverTypeOK
    <3> QED
      BY <1>1, <1>2, <3>1, <3>3
  <2>2. CASE col.life # "running"
    <3>1. conns' = conns /\ drv' = Reset(drv)
      BY <2>2 DEF DataConnect
    <3>2. DriverTypeOK' /\ drv'.frames = drv.frames /\ drv'.sock = "disconnected"
      BY <1>1, <3>1 DEF DriverTypeOK, Reset
    <3> QED
      BY <1>1, <3>1, <3>2
  <2> QED
    BY <2>1, <2>2
<1>4. ASSUME NEW c \in 1 .. Len(conns')
      PROVE  LinkOK(conns[c], c)'
  BY <1>1, <1>3 DEF LinkOK, NewConn
<1>5. DriverOK'
  BY <1>1, <1>3 DEF DriverOK, Mine, NewConn
<1>6. StreamOK'
  <2>1. col.owner # 0 => col.owner \in 1 .. Len(conns)
    BY <1>1
  <2>2. col.owner # 0 => Stream' = Stream
    BY <1>1, <1>3, <2>1 DEF Stream
  <2>3. col.owner \in 0 .. Len(conns')
    BY <1>1, <1>3
  <2> QED
    BY <1>1, <1>3, <2>2, <2>3 DEF DatumInv, StreamOK
<1>7. DataWhole' /\ CollectorTypeOK'
  BY <1>1, <1>3 DEF DatumInv, DataWhole, CollectorTypeOK
<1> QED
  BY <1>3, <1>4, <1>5, <1>6, <1>7 DEF DatumInv

(* What the collector does to one of the connections, when the datum stays with
   its owner. *)
LEMMA CollectorKeeps ==
  ASSUME DatumAssumption, DatumInv, drv' = drv, NEW c \in 1 .. Len(conns), NEW l \in Links,
         CollectorTypeOK', col'.owner = col.owner, col'.data = col.data, col'.buf = col.buf,
         conns' = [conns EXCEPT ![c] = l],
         l.up = conns[c].up, LinkOK(l, c), l.serves = "rcvr" => conns[c].serves = "rcvr",
         conns[c].serves \notin {"queue", "auth"} => l.serves \notin {"queue", "auth"}
  PROVE  DatumInv'
<1>1. /\ DriverTypeOK /\ conns \in Seq(Links) /\ col.owner \in 0 .. Len(conns)
      /\ \A e \in 1 .. Len(conns) : LinkOK(conns[e], e)
  BY DEF DatumInv, StreamOK
<1>2. /\ conns' \in Seq(Links) /\ Len(conns') = Len(conns) /\ conns'[c] = l
      /\ \A e \in 1 .. Len(conns) : e # c => conns'[e] = conns[e]
  BY <1>1, LinkChanged
<1>3. ASSUME NEW e \in 1 .. Len(conns')
      PROVE  LinkOK(conns[e], e)'
  BY <1>1, <1>2 DEF LinkOK
<1>4. DriverOK'
  BY <1>1, <1>2 DEF DatumInv, DriverOK, Mine
<1>5. StreamOK'
  <2>1. col.owner # 0 => col.owner \in 1 .. Len(conns)
    BY <1>1
  <2>2. col.owner # 0 => Stream' = Stream
    BY <1>2, <2>1 DEF Stream
  <2> QED
    BY <1>2, <2>2 DEF DatumInv, StreamOK
<1>6. DataWhole' /\ DriverTypeOK'
  BY DEF DatumInv, DataWhole, DriverTypeOK
<1> QED
  BY <1>2, <1>3, <1>4, <1>5, <1>6 DEF DatumInv

LEMMA DataAcceptKeeps ==
  ASSUME DatumAssumption, DatumInv, DataAccept
  PROVE  DatumInv'
<1>1. PICK c \in 1 .. Len(conns) : /\ conns[c].serves = "queue"
                                  /\ conns' = [conns EXCEPT ![c].serves = "auth"]
  BY DEF DataAccept
<1> DEFINE l == [conns[c] EXCEPT !.serves = "auth"]
<1>2. drv' = drv /\ col' = col /\ CollectorTypeOK /\ conns[c] \in Links /\ LinkOK(conns[c], c)
  BY DEF DataAccept, DatumInv
<1>3. conns' = [conns EXCEPT ![c] = l]
  BY <1>1
<1>4. /\ l \in Links /\ l.up = conns[c].up /\ l.dn = conns[c].dn /\ l.serves = "auth"
  BY <1>2 DEF Links
<1> HIDE DEF l
<1>5. LinkOK(l, c)
  BY <1>1, <1>2, <1>4 DEF LinkOK
<1>6. CollectorTypeOK'
  BY <1>2 DEF CollectorTypeOK
<1> QED
  BY <1>1, <1>2, <1>3, <1>4, <1>5, <1>6, CollectorKeeps

(* The connection c is given up, and the datum with it if c had it. *)
LEMMA GivenUp ==
  ASSUME DatumAssumption, DatumInv, drv' = drv, NEW c \in 1 .. Len(conns), NEW l \in Links,
         CollectorTypeOK', col'.owner = (IF col.owner = c THEN 0 ELSE col.owner),
         col'.data = col.data, col'.buf = col.buf,
         conns' = [conns EXCEPT ![c] = l], l.serves = "none", ~l.g,
         l.up = <<>>
  PROVE  DatumInv'
<1>1. /\ DriverTypeOK /\ conns \in Seq(Links) /\ col.owner \in 0 .. Len(conns)
      /\ \A e \in 1 .. Len(conns) : LinkOK(conns[e], e)
  BY DEF DatumInv, StreamOK
<1>2. /\ conns' \in Seq(Links) /\ Len(conns') = Len(conns) /\ conns'[c] = l
      /\ \A e \in 1 .. Len(conns) : e # c => conns'[e] = conns[e]
  BY <1>1, LinkChanged
<1>3. ASSUME NEW e \in 1 .. Len(conns')
      PROVE  LinkOK(conns[e], e)'
  BY <1>1, <1>2 DEF LinkOK
<1>4. DriverOK'
  BY <1>1, <1>2 DEF DatumInv, DriverOK, Mine
<1>5. StreamOK'
  <2>1. col'.owner # 0 => col'.owner \in 1 .. Len(conns) /\ col'.owner # c /\ col.owner = col'.owner
    BY <1>1
  <2>2. col'.owner # 0 => Stream' = Stream
    BY <1>2, <2>1 DEF Stream
  <2>3. col'.owner \in 0 .. Len(conns')
    BY <1>1, <1>2
  <2> QED
    BY <1>2, <2>1, <2>2, <2>3 DEF DatumInv, StreamOK
<1>6. DataWhole' /\ DriverTypeOK'
  BY DEF DatumInv, DataWhole, DriverTypeOK
<1> QED
  BY <1>2, <1>3, <1>4, <1>5, <1>6 DEF DatumInv

LEMMA CollectorEofKeeps ==
  ASSUME DatumAssumption, DatumInv, CollectorEof
  PROVE  DatumInv'
<1>1. PICK c \in 1 .. Len(conns) :
        /\ conns[c].up = <<>>
        /\ col' = IF col.owner = c THEN [col EXCEPT !.owner = 0, !.out = FALSE] ELSE col
        /\ conns' = [conns EXCEPT ![c].serves = "none", ![c].g = FALSE]
  BY DEF CollectorEof
<1> DEFINE l == [conns[c] EXCEPT !.serves = "none", !.g = FALSE]
<1>2. drv' = drv /\ CollectorTypeOK /\ conns \in Seq(Links) /\ conns[c] \in Links
  BY DEF CollectorEof, DatumInv
<1>3. conns' = [conns EXCEPT ![c] = l]
  BY <1>1, <1>2
<1>4. l \in Links /\ l.up = <<>> /\ l.serves = "none" /\ ~l.g
  BY <1>1, <1>2 DEF Links
<1> HIDE DEF l
<1>5. /\ CollectorTypeOK' /\ col'.owner = (IF col.owner = c THEN 0 ELSE col.owner)
      /\ col'.data = col.data /\ col'.buf = col.buf
  BY <1>1, <1>2 DEF CollectorTypeOK
<1> QED
  BY <1>1, <1>2, <1>3, <1>4, <1>5, GivenUp

LEMMA AuthenticateKeeps ==
  ASSUME DatumAssumption, DatumInv, DataAuthenticate
  PROVE  DatumInv'
<1> DEFINE D(c) == [conns[c] EXCEPT !.up = <<>>]
<1>1. PICK c \in 1 .. Len(conns) :
        /\ conns[c].serves = "auth" /\ conns[c].up # <<>>
        /\ IF col.owner # 0
              THEN /\ conns' = [conns EXCEPT ![c] = [D(c) EXCEPT !.serves = "none", !.g = FALSE]]
                   /\ UNCHANGED col
            ELSE IF ~D(c).s
              THEN col' = [col EXCEPT !.life = "failed"] /\ UNCHANGED conns
            ELSE /\ col' = [col EXCEPT !.owner = c, !.buf = <<>>, !.out = FALSE]
                 /\ conns' = [conns EXCEPT ![c] = [D(c) EXCEPT !.serves = "rcvr",
                                                              !.dn = <<"ok">>]]
  BY DEF DataAuthenticate
<1>2. /\ drv' = drv /\ CollectorTypeOK /\ conns \in Seq(Links) /\ conns[c] \in Links
      /\ LinkOK(conns[c], c)
  BY DEF DataAuthenticate, DatumInv
<1>3. CASE col.owner # 0
  <2> DEFINE l == [D(c) EXCEPT !.serves = "none", !.g = FALSE]
  <2>1. conns' = [conns EXCEPT ![c] = l] /\ col' = col
    BY <1>1, <1>3
  <2>2. l \in Links /\ l.up = <<>> /\ l.serves = "none" /\ ~l.g
    <3>1. <<>> \in Seq(Units)
      OBVIOUS
    <3> QED
      BY <1>2, <3>1 DEF Links
  <2> HIDE DEF l
  <2>3. col.owner # c /\ CollectorTypeOK'
    BY <1>1, <1>2, <2>1 DEF LinkOK, CollectorTypeOK
  <2> QED
    BY <1>2, <2>1, <2>2, <2>3, GivenUp
<1>4. CASE col.owner = 0 /\ ~D(c).s
  <2>1. conns' = conns /\ col' = [col EXCEPT !.life = "failed"]
    BY <1>1, <1>4
  <2>2. /\ CollectorTypeOK' /\ col'.owner = col.owner /\ col'.data = col.data /\ col'.buf = col.buf
    BY <1>2, <2>1 DEF CollectorTypeOK
  <2>3. DriverTypeOK' /\ conns' \in Seq(Links) /\ DriverOK'
    BY <1>2, <2>1 DEF DatumInv, DriverTypeOK, DriverOK, Mine
  <2>4. \A e \in 1 .. Len(conns') : LinkOK(conns[e], e)'
    BY <2>1, <2>2 DEF DatumInv, LinkOK
  <2>5. Stream' = Stream
    BY <2>1, <2>2 DEF Stream
  <2>6. StreamOK' /\ DataWhole'
    BY <1>2, <2>1, <2>2, <2>5 DEF DatumInv, StreamOK, DataWhole
  <2> QED
    BY <2>2, <2>3, <2>4, <2>6 DEF DatumInv
<1>5. CASE col.owner = 0 /\ D(c).s
  <2> DEFINE l == [D(c) EXCEPT !.serves = "rcvr", !.dn = <<"ok">>]
  <2>1. conns' = [conns EXCEPT ![c] = l] /\ col' = [col EXCEPT !.owner = c, !.buf = <<>>, !.out = FALSE]
    BY <1>1, <1>5
  <2>2. l \in Links /\ l.up = <<>> /\ l.serves = "rcvr"
    <3>1. <<>> \in Seq(Units) /\ <<"ok">> \in Seq({"ok", "nl"})
      OBVIOUS
    <3> QED
      BY <1>2, <3>1 DEF Links
  <2> HIDE DEF l
  <2>3. /\ conns' \in Seq(Links) /\ Len(conns') = Len(conns) /\ conns'[c] = l
        /\ \A e \in 1 .. Len(conns) : e # c => conns'[e] = conns[e]
    BY <1>2, <2>1, <2>2, LinkChanged
  <2>4. /\ CollectorTypeOK' /\ col'.owner = c /\ col'.data = col.data /\ col'.buf = <<>>
    <3>1. <<>> \in Seq(Units) /\ c \in Nat
      OBVIOUS
    <3> QED
      BY <1>2, <2>1, <3>1 DEF CollectorTypeOK
  <2>5. ASSUME NEW e \in 1 .. Len(conns')
        PROVE  LinkOK(conns[e], e)'
    BY <1>5, <2>2, <2>3, <2>4 DEF LinkOK, DatumInv
  <2>6. DriverOK'
    BY <1>1, <1>2, <2>2, <2>3 DEF DatumInv, DriverOK, Mine
  <2>7. StreamOK'
    <3>1. Stream' = <<>>
      BY <2>2, <2>3, <2>4 DEF Stream
    <3>2. Aligned(<<>>, drv.frames)
      BY AlignedEmpty
    <3> QED
      BY <1>2, <2>3, <2>4, <3>1, <3>2 DEF StreamOK, DatumAssumption
  <2>8. DataWhole' /\ DriverTypeOK'
    BY <1>2, <2>4 DEF DatumInv, DataWhole, DriverTypeOK
  <2> QED
    BY <2>3, <2>4, <2>5, <2>6, <2>7, <2>8 DEF DatumInv
<1> QED
  BY <1>3, <1>4, <1>5

LEMMA MinOfTwo ==
  ASSUME NEW a \in Nat, NEW b \in Nat
  PROVE  Min({a, b}) = IF a <= b THEN a ELSE b
BY DEF Min

(* A read that makes a frame of what has come makes a whole one: all there was,
   or as much as the buffer takes at a time. *)
LEMMA CollectorInputKeeps ==
  ASSUME DatumAssumption, DatumInv, CollectorInput
  PROVE  DatumInv'
<1> DEFINE c == col.owner
           up == conns[c].up
           room == RdCap - Len(col.buf)
           n == Min({room, Len(up)})
           m == Len(col.buf)
           buf == col.buf \o SubSeq(up, 1, n)
           rest == SubSeq(up, n + 1, Len(up))
           l == [conns[c] EXCEPT !.up = rest]
           x == col.buf \o up
<1>1. /\ drv' = drv /\ c # 0 /\ up # <<>> /\ col' = Received(buf)
      /\ conns' = [conns EXCEPT ![c].up = rest]
  BY DEF CollectorInput
<1>2. /\ c \in 1 .. Len(conns) /\ CollectorTypeOK /\ DriverTypeOK /\ conns \in Seq(Links)
      /\ conns[c] \in Links /\ LinkOK(conns[c], c) /\ m < Size /\ col.buf \in Seq(Units)
      /\ drv.frames \in Nat
  BY <1>1 DEF DatumInv, StreamOK, CollectorTypeOK, DriverTypeOK
<1>3. Aligned(x, drv.frames) /\ (RdCap = Size /\ x # <<>> => x[1][2] = 1)
  BY <1>1 DEF DatumInv, StreamOK, Stream
<1>4. up \in Seq(Units) /\ Len(up) \in Nat /\ Len(up) > 0 /\ m \in Nat
  <2>1. up \in Seq(Units)
    BY <1>2 DEF Links
  <2> HIDE DEF up
  <2> QED
    BY <1>1, <1>2, <2>1
<1>5. Size \in Nat \ {0} /\ RdCap \in Nat \ {0} /\ Size <= RdCap
  BY DEF DatumAssumption
<1>6. n \in 1 .. Len(up) /\ n <= room /\ (n = Len(up) \/ n = room)
  <2>1. room \in Nat \ {0}
    BY <1>2, <1>4, <1>5
  <2>2. n = IF room <= Len(up) THEN room ELSE Len(up)
    <3> HIDE DEF room, up
    <3> QED
      BY <1>4, <2>1, MinOfTwo
  <2> HIDE DEF room, up, n
  <2> QED
    BY <1>4, <2>1, <2>2
<1>7. LinkOK(conns[c], c) /\ conns[c].serves = "rcvr"
  BY <1>2 DEF LinkOK
<1> HIDE DEF n, up
<1>20. Cut(Units, col.buf, up, n, x, buf, rest)
  <2>1. col.buf \in Seq(Units) /\ up \in Seq(Units) /\ n \in 1 .. Len(up)
    BY <1>2, <1>4, <1>6
  <2> QED
    BY <2>1, TakenParts, Zenon
<1> HIDE DEF x, buf, rest, m
<1>8. /\ buf \in Seq(Units) /\ rest \in Seq(Units) /\ x \in Seq(Units)
      /\ Len(buf) = m + n /\ Len(rest) = Len(up) - n /\ Len(x) = m + Len(up)
  BY <1>20 DEF Cut, m
<1>21. x = buf \o rest
  BY <1>20 DEF Cut
<1>22. buf = SubSeq(x, 1, Len(buf)) /\ rest = SubSeq(x, Len(buf) + 1, Len(x))
  BY <1>20 DEF Cut
<1>9. buf = SubSeq(x, 1, m + n) /\ rest = SubSeq(x, m + n + 1, Len(x)) /\ m + n \in 0 .. Len(x)
  <2>1. m + n \in 0 .. Len(x)
    BY <1>4, <1>6, <1>8
  <2> QED
    BY <1>8, <1>22, <2>1
<1>10. /\ col' = IF m + n < Size THEN [col EXCEPT !.buf = buf]
                ELSE IF m + n > Size THEN [col EXCEPT !.buf = <<>>]
                ELSE [col EXCEPT !.data = buf, !.stale = 0, !.buf = <<>>]
  BY <1>1, <1>8 DEF Received
<1>23. m < Size /\ room = RdCap - m
  BY <1>2 DEF m
<1>11. /\ CollectorTypeOK' /\ col'.owner = c /\ Len(col'.buf) < Size
       /\ col'.buf = IF m + n < Size THEN buf ELSE <<>>
       /\ col'.data = IF m + n = Size THEN buf ELSE col.data
  <2>1. <<>> \in Seq(Units) /\ Len(<<>>) = 0 /\ 0 \in Nat /\ buf \in Seq(Units) /\ Len(buf) = m + n
    BY <1>8
  <2>0. 0 < Size
    BY <1>5
  <2>2. CASE m + n < Size
    <3>1. col' = [col EXCEPT !.buf = buf] /\ m + n # Size
      BY <1>4, <1>5, <1>6, <1>10, <2>2
    <3>2. CollectorTypeOK' /\ col'.owner = c /\ col'.buf = buf /\ col'.data = col.data
      BY <1>2, <2>1, <3>1 DEF CollectorTypeOK
    <3> QED
      BY <2>1, <2>2, <3>1, <3>2
  <2>3. CASE m + n > Size
    <3>1. col' = [col EXCEPT !.buf = <<>>] /\ m + n # Size /\ ~(m + n < Size)
      BY <1>4, <1>5, <1>6, <1>10, <2>3
    <3>2. CollectorTypeOK' /\ col'.owner = c /\ col'.buf = <<>> /\ col'.data = col.data
      BY <1>2, <2>1, <3>1 DEF CollectorTypeOK
    <3> QED
      BY <2>0, <2>1, <3>1, <3>2
  <2>4. CASE m + n = Size
    <3>1. col' = [col EXCEPT !.data = buf, !.stale = 0, !.buf = <<>>] /\ ~(m + n < Size)
      BY <1>4, <1>5, <1>6, <1>10, <2>4
    <3>2. CollectorTypeOK' /\ col'.owner = c /\ col'.buf = <<>> /\ col'.data = buf
      BY <1>2, <2>1, <3>1 DEF CollectorTypeOK
    <3> QED
      BY <2>0, <2>1, <2>4, <3>1, <3>2
  <2> QED
    BY <1>4, <1>5, <1>6, <2>2, <2>3, <2>4
<1>12. l \in Links /\ l.up = rest /\ l.serves = "rcvr" /\ conns' = [conns EXCEPT ![c] = l]
  BY <1>1, <1>2, <1>7, <1>8 DEF Links
<1> HIDE DEF l
<1>13. /\ conns' \in Seq(Links) /\ Len(conns') = Len(conns) /\ conns'[c] = l
       /\ \A e \in 1 .. Len(conns) : e # c => conns'[e] = conns[e]
  BY <1>2, <1>12, LinkChanged
<1>14. ASSUME NEW e \in 1 .. Len(conns')
       PROVE  LinkOK(conns[e], e)'
  BY <1>11, <1>12, <1>13 DEF DatumInv, LinkOK
<1>15. DriverOK'
  <2>1. drv.conn # c => (drv.conn \in 1 .. Len(conns) => Mine' = Mine)
    BY <1>1, <1>13 DEF Mine
  <2>2. drv.conn = c => Mine' = l /\ Mine.serves = "rcvr"
    BY <1>1, <1>7, <1>13 DEF Mine
  <2> QED
    BY <1>1, <1>12, <1>13, <2>1, <2>2 DEF DatumInv, DriverOK
<1>16. ASSUME m + n = Size
       PROVE  \E k \in 1 .. drv.frames : buf = Frame(k)
  <2>1. Len(x) = Size \/ (Len(x) >= Size /\ x[1][2] = 1)
    <3>1. CASE n = Len(up)
      BY <1>8, <1>16, <3>1
    <3>2. CASE n = room
      <4>1. RdCap = Size /\ Len(x) >= Size /\ Len(x) # 0
        BY <1>4, <1>5, <1>6, <1>8, <1>16, <1>23, <3>2
      <4> QED
        BY <1>3, <4>1
    <3> QED
      BY <1>6, <3>1, <3>2
  <2> QED
    BY <1>2, <1>3, <1>8, <1>9, <1>16, <2>1, AlignedWhole
<1>17. DataWhole'
  <2>1. CASE m + n = Size
    BY <1>1, <1>11, <1>16, <2>1 DEF DataWhole
  <2>2. CASE m + n # Size
    BY <1>1, <1>11, <2>2 DEF DatumInv, DataWhole
  <2> QED
    BY <2>1, <2>2
<1>18. StreamOK'
  <2>1. Stream' = col'.buf \o rest
    BY <1>11, <1>12, <1>13 DEF Stream
  <2>2. CASE m + n < Size
    <3>1. Stream' = x
      BY <1>21, <1>11, <2>1, <2>2
    <3> QED
      BY <1>1, <1>2, <1>3, <1>11, <1>13, <3>1 DEF StreamOK
  <2>3. CASE m + n >= Size
    <3>1. Stream' = rest
      <4>1. col'.buf = <<>>
        BY <1>4, <1>5, <1>6, <1>11, <2>3
      <4> QED
        BY <1>8, <2>1, <4>1
    <3>2. Aligned(rest, drv.frames)
      BY <1>2, <1>3, <1>8, <1>9, AlignedSuffix
    <3>3. ASSUME RdCap = Size, rest # <<>>
          PROVE  rest[1][2] = 1
      <4>1. m + n = Size
        BY <1>4, <1>5, <1>6, <1>23, <2>3, <3>3
      <4>2. x[1][2] = 1 /\ 1 \in 1 .. Len(x) /\ Len(x) > Size
        <5>1. Len(rest) # 0
          BY <1>8, <3>3
        <5>2. Len(x) > Size
          BY <1>4, <1>6, <1>8, <4>1, <5>1
        <5> QED
          BY <1>3, <1>5, <1>8, <3>3, <5>2
      <4>3. UnitFits(x, drv.frames, 1)
        BY <1>3, <4>2 DEF Aligned
      <4>4. x[Size] = <<x[1][1], Size>>
        BY <1>5, <4>2, <4>3 DEF UnitFits
      <4>5. UnitFits(x, drv.frames, Size)
        BY <1>3, <1>5, <1>8, <4>2 DEF Aligned
      <4>6. x[Size + 1][2] = 1
        BY <4>2, <4>4, <4>5 DEF UnitFits
      <4>7. rest[1] = x[Size + 1]
        <5>1. rest[1] = x[Len(buf) + 1]
          BY <1>20, <3>3 DEF Cut
        <5> QED
          BY <1>8, <4>1, <5>1
      <4> QED
        BY <4>6, <4>7
    <3> QED
      BY <1>1, <1>2, <1>11, <1>13, <3>1, <3>2, <3>3 DEF StreamOK
  <2> QED
    BY <1>4, <1>5, <1>6, <2>2, <2>3
<1>19. DriverTypeOK'
  BY <1>1, <1>2 DEF DriverTypeOK
<1> QED
  BY <1>11, <1>13, <1>14, <1>15, <1>17, <1>18, <1>19 DEF DatumInv

(* A newline more on its way to the driver. *)
LEMMA NewlineKeeps ==
  ASSUME DatumAssumption, DatumInv, drv' = drv, col.owner # 0, CollectorTypeOK',
         col'.owner = col.owner, col'.data = col.data, col'.buf = col.buf,
         \/ conns' = conns
         \/ conns' = [conns EXCEPT ![col.owner].dn = Append(@, "nl")]
  PROVE  DatumInv'
<1> DEFINE c == col.owner
<1>0. c \in 1 .. Len(conns) /\ conns \in Seq(Links) /\ LinkOK(conns[c], c)
  BY DEF DatumInv, StreamOK
<1>1. conns[c] \in Links /\ conns[c].dn \in Seq({"ok", "nl"})
  <2>1. conns[c] \in Links
    BY <1>0
  <2> QED
    BY <2>1 DEF Links
<1>2. conns[c].serves = "rcvr"
  BY <1>0 DEF LinkOK
<1>3. CASE conns' = conns
  <2>1. conns' = [conns EXCEPT ![c] = conns[c]]
    BY <1>0, <1>1, <1>3
  <2> QED
    BY <1>0, <1>1, <2>1, CollectorKeeps
<1>4. CASE conns' = [conns EXCEPT ![c].dn = Append(@, "nl")]
  <2> DEFINE dn == Append(conns[c].dn, "nl")
             l == [conns[c] EXCEPT !.dn = dn]
  <2>1. dn \in Seq({"ok", "nl"})
    <3>1. "nl" \in {"ok", "nl"}
      OBVIOUS
    <3> QED
      BY <1>1, <3>1, AppendProperties
  <2>2. conns' = [conns EXCEPT ![c] = l]
    BY <1>4
  <2> HIDE DEF dn
  <2>3. l \in Links /\ l.up = conns[c].up /\ l.serves = "rcvr"
    BY <1>1, <1>2, <2>1 DEF Links
  <2> HIDE DEF l
  <2>4. LinkOK(l, c)
    BY <1>0, <2>3 DEF LinkOK
  <2> QED
    BY <1>0, <1>1, <1>2, <2>2, <2>3, <2>4, CollectorKeeps
<1> QED
  BY <1>3, <1>4

LEMMA SynchKeeps ==
  ASSUME DatumAssumption, DatumInv, Synch
  PROVE  DatumInv'
<1> DEFINE fits == Len(conns[col.owner].dn) < WireCap
           t == [col EXCEPT !.stale = @ + 1, !.synchs = @ + 1]
<1>1. /\ drv' = drv
      /\ \/ col' = t /\ conns' = conns /\ col.owner = 0
         \/ col' = [t EXCEPT !.life = "failed"] /\ conns' = conns /\ col.owner # 0
         \/ /\ col' = [t EXCEPT !.out = ~fits] /\ col.owner # 0
            /\ conns' = IF fits THEN [conns EXCEPT ![col.owner].dn = Append(@, "nl")]
                        ELSE conns
  BY DEF Synch
<1>2. CollectorTypeOK /\ col.stale + 1 \in Nat /\ col.synchs + 1 \in Nat /\ (~fits) \in BOOLEAN
  BY DEF DatumInv, CollectorTypeOK
<1> HIDE DEF fits
<1>3. /\ CollectorTypeOK' /\ col'.owner = col.owner /\ col'.data = col.data /\ col'.buf = col.buf
  BY <1>1, <1>2 DEF CollectorTypeOK
<1>4. CASE col.owner # 0
  BY <1>1, <1>3, <1>4, NewlineKeeps
<1>5. CASE col.owner = 0
  <2>1. conns' = conns /\ drv' = drv
    BY <1>1, <1>5
  <2>2. /\ \A c \in 1 .. Len(conns') : LinkOK(conns[c], c)'
        /\ DriverTypeOK' /\ conns' \in Seq(Links)
    BY <1>3, <2>1 DEF DatumInv, LinkOK, DriverTypeOK
  <2>3. DriverOK' /\ DataWhole' /\ StreamOK'
    BY <1>3, <1>5, <2>1 DEF DatumInv, DriverOK, Mine, DataWhole, StreamOK
  <2> QED
    BY <1>3, <2>2, <2>3 DEF DatumInv
<1> QED
  BY <1>4, <1>5

LEMMA CollectorWriteKeeps ==
  ASSUME DatumAssumption, DatumInv, CollectorWrite
  PROVE  DatumInv'
<1>1. /\ drv' = drv /\ col.owner # 0
      /\ col' = [col EXCEPT !.out = FALSE] \/ col' = [col EXCEPT !.life = "failed"]
      /\ \/ conns' = conns
         \/ conns' = [conns EXCEPT ![col.owner].dn = Append(@, "nl")]
  BY DEF CollectorWrite
<1>2. CollectorTypeOK
  BY DEF DatumInv
<1>3. /\ CollectorTypeOK' /\ col'.owner = col.owner /\ col'.data = col.data /\ col'.buf = col.buf
  BY <1>1, <1>2 DEF CollectorTypeOK
<1> QED
  BY <1>1, <1>3, NewlineKeeps

(* The sockets of a program that ends close. *)
LEMMA DriverStopsKeeps ==
  ASSUME DatumAssumption, DatumInv, DriverStops
  PROVE  DatumInv'
<1>1. /\ DriverTypeOK /\ conns \in Seq(Links) /\ col' = col /\ CollectorTypeOK
      /\ \A c \in 1 .. Len(conns) : conns[c] \in Links /\ LinkOK(conns[c], c)
  BY DEF DatumInv, DriverStops
<1>2. /\ conns' = [c \in 1 .. Len(conns) |-> [conns[c] EXCEPT !.s = FALSE]]
      /\ \A c \in 1 .. Len(conns) : [conns[c] EXCEPT !.s = FALSE] \in Links
  BY <1>1 DEF DriverStops, Links
<1>3. /\ conns' \in Seq(Links) /\ Len(conns') = Len(conns)
      /\ \A c \in 1 .. Len(conns) :
           conns'[c].up = conns[c].up /\ conns'[c].dn = conns[c].dn
           /\ conns'[c].g = conns[c].g /\ conns'[c].serves = conns[c].serves
  BY <1>1, <1>2 DEF Links
<1>4. /\ DriverTypeOK' /\ drv'.conn = drv.conn /\ drv'.frames = drv.frames
      /\ \/ drv'.sock = drv.sock /\ drv'.out = drv.out
         \/ drv'.sock = "disconnected"
  <2>1. CASE drv' = [drv EXCEPT !.life = "ended"]
    BY <1>1, <2>1 DEF DriverTypeOK
  <2>2. CASE drv' = [life |-> "running", sock |-> "disconnected", to |-> TRUE,
                     clt |-> "connecting", out |-> FALSE, conn |-> drv.conn,
                     frames |-> drv.frames, starts |-> drv.starts + 1]
    BY <1>1, <2>2 DEF DriverTypeOK
  <2> QED
    BY <2>1, <2>2 DEF DriverStops
<1>5. ASSUME NEW c \in 1 .. Len(conns')
      PROVE  LinkOK(conns[c], c)'
  BY <1>1, <1>3 DEF LinkOK
<1>6. DriverOK'
  BY <1>3, <1>4 DEF DatumInv, DriverOK, Mine
<1>7. StreamOK'
  <2>1. col.owner # 0 => col.owner \in 1 .. Len(conns)
    BY DEF DatumInv, StreamOK
  <2>2. col.owner # 0 => Stream' = Stream
    BY <1>1, <1>3, <2>1 DEF Stream
  <2> QED
    BY <1>1, <1>3, <1>4, <2>2 DEF DatumInv, StreamOK
<1>8. DataWhole' /\ CollectorTypeOK'
  BY <1>1, <1>4 DEF DatumInv, DataWhole, CollectorTypeOK
<1> QED
  BY <1>3, <1>4, <1>5, <1>6, <1>7, <1>8 DEF DatumInv

LEMMA CollectorStopsKeeps ==
  ASSUME DatumAssumption, DatumInv, CollectorStops
  PROVE  DatumInv'
<1> DEFINE L(c) == [conns[c] EXCEPT !.g = FALSE, !.serves = "none"]
<1>1. DriverTypeOK /\ conns \in Seq(Links) /\ drv' = drv /\ CollectorTypeOK
  BY DEF DatumInv, CollectorStops
<1>2. conns' = [c \in 1 .. Len(conns) |-> L(c)]
  BY DEF CollectorStops
<1>8. ASSUME NEW c \in 1 .. Len(conns)
      PROVE  L(c) \in Links /\ L(c).up = conns[c].up /\ ~L(c).g /\ L(c).serves = "none"
  <2>1. conns[c] \in Links
    BY <1>1
  <2> QED
    BY <2>1 DEF Links
<1> HIDE DEF L
<1>3. /\ conns' \in Seq(Links) /\ Len(conns') = Len(conns)
      /\ \A c \in 1 .. Len(conns) :
           conns'[c].up = conns[c].up /\ ~conns'[c].g /\ conns'[c].serves = "none"
  BY <1>1, <1>2, <1>8
<1>4. CollectorTypeOK' /\ col'.owner = 0 /\ col'.data = col.data /\ col'.buf = <<>>
  <2>1. <<>> \in Seq(Units) /\ col.starts + 1 \in Nat
    BY <1>1 DEF CollectorTypeOK
  <2> QED
    BY <1>1, <2>1 DEF CollectorStops, CollectorTypeOK
<1>5. ASSUME NEW c \in 1 .. Len(conns')
      PROVE  LinkOK(conns[c], c)'
  BY <1>3, <1>4 DEF LinkOK
<1>6. DriverOK'
  BY <1>1, <1>3 DEF DatumInv, DriverOK, Mine
<1>7. StreamOK' /\ DataWhole' /\ DriverTypeOK'
  BY <1>1, <1>4 DEF DatumInv, StreamOK, DataWhole, DriverTypeOK, DatumAssumption
<1> QED
  BY <1>3, <1>4, <1>5, <1>6, <1>7 DEF DatumInv

LEMMA StutterKeeps ==
  ASSUME DatumInv, UNCHANGED datavars
  PROVE  DatumInv'
<1>1. drv' = drv /\ col' = col /\ conns' = conns
  BY DEF datavars
<1>2. /\ DriverTypeOK' /\ CollectorTypeOK' /\ conns' \in Seq(Links)
      /\ \A c \in 1 .. Len(conns') : LinkOK(conns[c], c)'
  BY <1>1 DEF DatumInv, DriverTypeOK, CollectorTypeOK, LinkOK
<1>3. DriverOK' /\ StreamOK' /\ DataWhole'
  BY <1>1 DEF DatumInv, DriverOK, Mine, StreamOK, Stream, DataWhole
<1> QED
  BY <1>2, <1>3 DEF DatumInv

(* In every reachable state: what the owner of the datum has still to give is an
   end of the frames it has sent, whole but for the first of them; if the buffer
   takes no more than a frame, the first is whole as well. *)
THEOREM DatumInvariance ==
  DatumAssumption => (DataSpec => []DatumInv)
<1> SUFFICES ASSUME DatumAssumption
             PROVE  DataSpec => []DatumInv
  OBVIOUS
<1>1. DataInit => DatumInv
  BY InitDatumInv
<1>2. DatumInv /\ [DataNext]_datavars => DatumInv'
  <2> SUFFICES ASSUME DatumInv, [DataNext]_datavars
               PROVE  DatumInv'
    OBVIOUS
  <2>1. CASE Driver
    BY <2>1, DataConnectKeeps, ConnectedKeeps, DriverInputKeeps, DriverEofKeeps,
       DriverWriteKeeps DEF Driver
  <2>2. CASE Collector
    BY <2>2, DataAcceptKeeps, AuthenticateKeeps, CollectorInputKeeps, CollectorEofKeeps,
       CollectorWriteKeeps DEF Collector
  <2>3. CASE Synch \/ DriverStops \/ CollectorStops
    BY <2>3, SynchKeeps, DriverStopsKeeps, CollectorStopsKeeps
  <2>4. CASE UNCHANGED datavars
    BY <2>4, StutterKeeps
  <2> QED
    BY <2>1, <2>2, <2>3, <2>4 DEF DataNext
<1> QED
  BY <1>1, <1>2, PTL DEF DataSpec

(* Collection data: what the collector holds is one whole frame the driver sent,
   for any sizes, however reads divide the stream and either is started again. *)
THEOREM DatumStaysWhole ==
  DatumAssumption => (DataSpec => []DataWhole)
<1>1. DatumInv => DataWhole
  BY DEF DatumInv
<1> QED
  BY <1>1, DatumInvariance, PTL

-----------------------------------------------------------------------------
(* The logger. *)

UnitKinds == {"T", "M", "init", "tstamp", "data", "stamp", "n_rows", "row", "junk"}

StreamUnits == [kind : UnitKinds, a : Nat, b : Nat]

LoggedRows == [num : Nat, stamp : Nat, is : StreamUnits]

FileTypes == [open : BOOLEAN, size : Nat, stamp : Nat, bare : BOOLEAN,
              log : Seq(LoggedRows), large : BOOLEAN]

(* A file begins with a time stamp, and is bare just as long as that is all. *)
FileRight(g) ==
  /\ ~g.large
  /\ g.open => g.size >= TsSize /\ (g.size = TsSize => g.bare)

RightFiles == {g \in FileTypes : FileRight(g)}
OpenFiles  == {g \in RightFiles : g.open}

ReceiverTypes == [life : {"running", "ended", "lost"}, buf : Seq(StreamUnits),
                  state : {"hdr", "data"}, toread : Nat, ready : BOOLEAN,
                  stamp : Nat, cut : SUBSET Nat]

RightReceivers ==
  {t \in ReceiverTypes : t.toread >= IF t.state = "data" THEN 4 ELSE 3}

LgrInv ==
  /\ src \in [rows : Nat, stamps : Nat] /\ wire \in Seq(StreamUnits)
  /\ rcvr \in RightReceivers /\ files \in RightFiles

LEMMA LoggerSizes ==
  /\ BufCap \in Nat /\ MaxRows \in Nat /\ RowSize \in Nat /\ RowSize > 0
  /\ FileLimit \in Nat /\ TsSize = 10 /\ HdrSize = 8
BY LoggerAssumption DEF TsSize, HdrSize

LEMMA FileFields ==
  ASSUME NEW g \in RightFiles
  PROVE  /\ g \in FileTypes /\ g.open \in BOOLEAN /\ g.size \in Nat /\ g.stamp \in Nat
         /\ g.log \in Seq(LoggedRows) /\ ~g.large
         /\ g.open => g.size >= TsSize /\ (g.size = TsSize => g.bare)
BY DEF RightFiles, FileRight, FileTypes

(* A time stamp in a file that has none, or more. *)
LEMMA StampRight ==
  ASSUME NEW g \in FileTypes, ~g.large, NEW stamp \in Nat, g.open,
         g.size = 0 \/ g.size >= TsSize
  PROVE  WriteTstamp(g, stamp) \in OpenFiles
<1> DEFINE w == WriteTstamp(g, stamp)
<1>1. w = [g EXCEPT !.size = @ + TsSize, !.stamp = stamp, !.bare = g.size = 0]
  BY DEF WriteTstamp
<1>2. g.size \in Nat
  BY DEF FileTypes
<1>3. g.size + TsSize \in Nat /\ (g.size = 0) \in BOOLEAN
  BY <1>2, LoggerSizes
<1> HIDE DEF w
<1>4. w \in FileTypes
  BY <1>1, <1>3 DEF FileTypes
<1>5. w.size = g.size + TsSize /\ w.open = g.open /\ w.large = g.large
      /\ w.bare = (g.size = 0)
  BY <1>1 DEF FileTypes
<1>6. w.size >= TsSize /\ (w.size = TsSize => g.size = 0)
  BY <1>2, <1>5, LoggerSizes
<1>7. w.open /\ ~w.large /\ (w.size = TsSize => w.bare)
  BY <1>5, <1>6
<1> QED
  BY <1>4, <1>6, <1>7 DEF OpenFiles, RightFiles, FileRight, w

LEMMA NextFileRight ==
  ASSUME NEW g \in RightFiles, NEW stamp \in Nat
  PROVE  NextFile(g, stamp) \in OpenFiles
<1> DEFINE h == [g EXCEPT !.open = TRUE, !.size = 0]
<1>1. h \in FileTypes /\ h.open = TRUE /\ h.size = 0 /\ h.large = g.large
  BY FileFields DEF FileTypes
<1>2. NextFile(g, stamp) = WriteTstamp(h, stamp)
  BY DEF NextFile
<1> HIDE DEF h
<1> QED
  BY <1>1, <1>2, FileFields, StampRight

LEMMA TstampRight ==
  ASSUME NEW g \in RightFiles, NEW stamp \in Nat
  PROVE  ProcessTstamp(g, stamp) \in OpenFiles
<1>1. NextFile(g, stamp) \in OpenFiles
  BY NextFileRight
<1>2. g.open => WriteTstamp(g, stamp) \in OpenFiles
  BY FileFields, StampRight
<1> QED
  BY <1>1, <1>2, Zenon DEF ProcessTstamp

LEMMA Quotient ==
  ASSUME NEW a \in Nat, NEW b \in Nat, b > 0
  PROVE  a \div b \in Nat /\ b * (a \div b) <= a
OBVIOUS

LEMMA Product ==
  ASSUME NEW a \in Nat, NEW b \in Nat, NEW n \in Nat, n <= a
  PROVE  b * n <= b * a
OBVIOUS

(* As many rows as fit keep the file within its limit, or there is one behind
   its first time stamp. *)
LEMMA FitRight ==
  ASSUME NEW g \in OpenFiles, NEW n \in Nat, n >= 1, n <= RowsFit(g)
  PROVE  \/ g.size + HdrSize + RowSize * n <= FileLimit
         \/ n = 1 /\ g.bare
<1> DEFINE room == FileLimit - g.size - HdrSize
           fit == IF room < 0 THEN 0 ELSE room \div RowSize
<1>1. g.size \in Nat /\ (g.size = TsSize => g.bare)
  BY DEF OpenFiles, RightFiles, FileRight, FileTypes
<1>2. RowsFit(g) = IF fit < 1 /\ g.size = TsSize THEN 1 ELSE fit
  BY DEF RowsFit
<1>3. room \in Int
  BY <1>1, LoggerSizes
<1>4. CASE fit < 1 /\ g.size = TsSize
  BY <1>1, <1>2, <1>4
<1>5. CASE ~(fit < 1 /\ g.size = TsSize)
  <2>1. RowsFit(g) = fit
    BY <1>2, <1>5
  <2>2. room >= 0 /\ fit = room \div RowSize
    BY <1>3, <2>1
  <2> HIDE DEF room
  <2>3. room \in Nat
    BY <1>3, <2>2
  <2>4. fit \in Nat /\ RowSize * fit <= room
    BY <2>2, <2>3, LoggerSizes, Quotient
  <2> HIDE DEF fit
  <2>5. RowSize * n <= RowSize * fit
    BY <2>1, <2>4, LoggerSizes, Product
  <2>6. RowSize * n \in Nat /\ RowSize * fit \in Nat
    BY <2>4, LoggerSizes
  <2>7. RowSize * n <= room
    BY <1>3, <2>4, <2>5, <2>6
  <2> QED
    BY <1>1, <2>6, <2>7, LoggerSizes DEF room
<1> QED
  BY <1>4, <1>5

LEMMA FitNatural ==
  ASSUME NEW g \in OpenFiles
  PROVE  RowsFit(g) \in Nat
<1> DEFINE room == FileLimit - g.size - HdrSize
<1>1. room \in Int
  BY LoggerSizes DEF OpenFiles, RightFiles, FileTypes
<1>2. room >= 0 => room \div RowSize \in Nat
  <2> HIDE DEF room
  <2> QED
    BY <1>1, LoggerSizes, Quotient
<1> QED
  BY <1>1, <1>2 DEF RowsFit

LEMMA RowsRight ==
  ASSUME NEW g \in OpenFiles, NEW first \in Nat, NEW rows \in Seq(StreamUnits),
         Len(rows) >= 1, Len(rows) <= RowsFit(g)
  PROVE  WriteRows(g, first, rows) \in OpenFiles
<1> DEFINE n == Len(rows)
           size == g.size + HdrSize + RowSize * n
           more == [i \in 1 .. n |->
                      [num |-> first + i - 1, stamp |-> g.stamp, is |-> rows[i]]]
           w == WriteRows(g, first, rows)
<1>1. n \in Nat /\ n >= 1
  OBVIOUS
<1>2. /\ g \in FileTypes /\ g.open /\ ~g.large /\ g.size >= TsSize
      /\ g.size \in Nat /\ g.stamp \in Nat /\ g.log \in Seq(LoggedRows)
  BY DEF OpenFiles, RightFiles, FileRight, FileTypes
<1>3. more \in Seq(LoggedRows)
  <2>1. ASSUME NEW i \in 1 .. n
        PROVE  [num |-> first + i - 1, stamp |-> g.stamp, is |-> rows[i]] \in LoggedRows
    <3>1. first + i - 1 \in Nat /\ rows[i] \in StreamUnits
      BY <1>1
    <3> QED
      BY <3>1, <1>2 DEF LoggedRows
  <2> QED
    BY <1>1, <2>1
<1>4. g.log \o more \in Seq(LoggedRows)
  <2> HIDE DEF more
  <2> QED
    BY <1>2, <1>3
<1>5. size \in Nat /\ size > TsSize
  <2>1. RowSize * n \in Nat
    BY <1>1, LoggerSizes
  <2> HIDE DEF n
  <2> QED
    BY <1>2, <2>1, LoggerSizes
<1>6. size <= FileLimit \/ (g.bare /\ n = 1)
  BY <1>1, FitRight
<1>7. w = [g EXCEPT !.size = size, !.bare = FALSE,
                    !.large = @ \/ (size > FileLimit /\ ~(g.bare /\ n = 1)),
                    !.log = @ \o more]
  BY DEF WriteRows
<1>8. ~(g.large \/ (size > FileLimit /\ ~(g.bare /\ n = 1)))
  BY <1>2, <1>5, <1>6, LoggerSizes
<1> HIDE DEF size, more, n, w
<1>9. /\ w \in FileTypes /\ w.open /\ w.size = size
      /\ w.large = (g.large \/ (size > FileLimit /\ ~(g.bare /\ n = 1)))
  BY <1>2, <1>4, <1>5, <1>7 DEF FileTypes
<1>10. w.size >= TsSize /\ w.size # TsSize
  BY <1>5, <1>9, LoggerSizes
<1>11. ~w.large
  BY <1>8, <1>9, Zenon
<1> QED
  BY <1>9, <1>10, <1>11 DEF OpenFiles, RightFiles, FileRight, w

(* A pass: every turn leaves what can be divided further. *)
Dividings == [files : OpenFiles, first : Nat, rows : Seq(StreamUnits)]

LEMMA DivideRight ==
  ASSUME NEW x \in Dividings, NEW stamp \in Nat
  PROVE  Divide(x, stamp) \in Dividings
<1> DEFINE fit == RowsFit(x.files)
           n == Min({fit, Len(x.rows)})
           w == WriteRows(x.files, x.first, SubSeq(x.rows, 1, n))
           y == [files |-> IF n = Len(x.rows) THEN w ELSE NextFile(w, stamp),
                 first |-> x.first + n, rows |-> SubSeq(x.rows, n + 1, Len(x.rows))]
<1>1. x.files \in OpenFiles /\ x.files \in RightFiles /\ x.first \in Nat
      /\ x.rows \in Seq(StreamUnits)
  BY DEF Dividings, OpenFiles
<1>2. Divide(x, stamp) = IF x.rows = <<>> THEN x
                         ELSE IF fit < 1 THEN [x EXCEPT !.files = NextFile(@, stamp)]
                         ELSE y
  BY DEF Divide
<1>3. [x EXCEPT !.files = NextFile(@, stamp)] \in Dividings
  <2>1. NextFile(x.files, stamp) \in OpenFiles
    BY <1>1, NextFileRight
  <2> QED
    BY <2>1 DEF Dividings
<1>4. ASSUME x.rows # <<>>, ~(fit < 1)
      PROVE  y \in Dividings
  <2>1. fit \in Nat /\ Len(x.rows) \in Nat /\ Len(x.rows) >= 1
    BY <1>1, <1>4, FitNatural
  <2>2. n \in Nat /\ n >= 1 /\ n <= fit /\ n <= Len(x.rows)
    <3> HIDE DEF fit
    <3> QED
      BY <1>4, <2>1 DEF Min
  <2> HIDE DEF n
  <2>3. SubSeq(x.rows, 1, n) \in Seq(StreamUnits) /\ Len(SubSeq(x.rows, 1, n)) = n
    BY <1>1, <2>1, <2>2
  <2>4. w \in OpenFiles
    BY <1>1, <2>2, <2>3, RowsRight
  <2>5. NextFile(w, stamp) \in OpenFiles
    BY <2>4, NextFileRight DEF OpenFiles
  <2>6. SubSeq(x.rows, n + 1, Len(x.rows)) \in Seq(StreamUnits) /\ x.first + n \in Nat
    BY <1>1, <2>1, <2>2
  <2> HIDE DEF w
  <2> QED
    BY <2>4, <2>5, <2>6 DEF Dividings
<1> QED
  BY <1>2, <1>3, <1>4

LEMMA DataTurns ==
  ASSUME NEW g \in RightFiles, NEW stamp \in Nat, NEW first \in Nat,
         NEW rows \in Seq(StreamUnits)
  PROVE  \E f :
           /\ \A i \in 0 .. Len(rows) + 1 : f[i] \in Dividings
           /\ f[0] = [files |-> IF g.open THEN g ELSE NextFile(g, stamp),
                      first |-> first, rows |-> rows]
           /\ \A i \in 1 .. Len(rows) + 1 : f[i] = Divide(f[i - 1], stamp)
           /\ ProcessData(g, stamp, first, rows) = f[Len(rows) + 1].files
<1> DEFINE n == Len(rows) + 1
           b == [files |-> IF g.open THEN g ELSE NextFile(g, stamp),
                 first |-> first, rows |-> rows]
           step == [a \in (1 .. n) \X Dividings |-> Divide(a[2], stamp)]
           F(f) == [i \in 0 .. n |-> IF i = 0 THEN b ELSE Divide(f[i - 1], stamp)]
           turns == CHOOSE f : f = F(f)
<1>1. n \in Nat /\ n \in 0 .. n
  OBVIOUS
<1>2. b \in Dividings
  <2>1. NextFile(g, stamp) \in OpenFiles /\ (g.open => g \in OpenFiles)
    BY NextFileRight DEF OpenFiles
  <2> QED
    BY <2>1 DEF Dividings
<1>3. step \in [(1 .. n) \X Dividings -> Dividings]
  BY DivideRight
<1>4. PICK f \in [0 .. n -> Dividings] : Follows(f, b, step, n)
  <2> HIDE DEF n, step, b
  <2> QED
    BY <1>1, <1>2, <1>3, Recursion, Zenon
<1>5. f = F(f)
  <2>1. ASSUME NEW i \in 0 .. n
        PROVE  f[i] = F(f)[i]
    <3>1. CASE i = 0
      BY <3>1, <1>4 DEF Follows
    <3>2. CASE i \in 1 .. n
      <4>1. i - 1 \in 0 .. n
        BY <1>1, <3>2
      <4>2. f[i - 1] \in Dividings
        BY <1>4, <4>1
      <4>3. <<i, f[i - 1]>> \in (1 .. n) \X Dividings
        BY <3>2, <4>2
      <4>4. step[<<i, f[i - 1]>>] = Divide(f[i - 1], stamp)
        BY <4>3
      <4>5. f[i] = step[<<i, f[i - 1]>>]
        BY <3>2, <1>4 DEF Follows
      <4>6. F(f)[i] = Divide(f[i - 1], stamp)
        BY <1>1, <3>2
      <4> HIDE DEF step, F
      <4> QED
        BY <4>4, <4>5, <4>6
    <3> QED
      BY <1>1, <3>1, <3>2
  <2>2. f = [i \in 0 .. n |-> f[i]] /\ F(f) = [i \in 0 .. n |-> F(f)[i]]
    BY <1>4
  <2> HIDE DEF F, n
  <2> QED
    BY <2>1, <2>2
<1>6. turns = F(turns)
  BY <1>5
<1>7. ProcessData(g, stamp, first, rows) = turns[n].files
  BY DEF ProcessData
<1> HIDE DEF turns
<1>8. turns[0] = b
  <2>1. 0 \in 0 .. n
    BY <1>1
  <2>2. F(turns)[0] = b
    BY <2>1
  <2> HIDE DEF F, b, n
  <2> QED
    BY <1>6, <2>2
<1>9. ASSUME NEW i \in 1 .. n
      PROVE  turns[i] = Divide(turns[i - 1], stamp)
  <2>1. i \in 0 .. n /\ i # 0
    BY <1>1
  <2>2. F(turns)[i] = Divide(turns[i - 1], stamp)
    BY <2>1
  <2> HIDE DEF F, n
  <2> QED
    BY <1>6, <2>2
<1> DEFINE T == {i \in 0 .. n : turns[i] \in Dividings}
<1>10. 0 .. n \subseteq T
  <2>1. 0 \in T
    BY <1>1, <1>2, <1>8
  <2>2. ASSUME NEW i \in 1 .. n, i - 1 \in T
        PROVE  i \in T
    BY <1>1, <1>9, <2>2, DivideRight
  <2> HIDE DEF T, n
  <2> QED
    BY <1>1, <2>1, <2>2, Upwards
<1> HIDE DEF F, b
<1> QED
  BY <1>7, <1>8, <1>9, <1>10 DEF b

LEMMA DataRight ==
  ASSUME NEW g \in RightFiles, NEW stamp \in Nat, NEW first \in Nat,
         NEW rows \in Seq(StreamUnits)
  PROVE  ProcessData(g, stamp, first, rows) \in OpenFiles
<1>1. PICK f :
        /\ \A i \in 0 .. Len(rows) + 1 : f[i] \in Dividings
        /\ f[0] = [files |-> IF g.open THEN g ELSE NextFile(g, stamp),
                   first |-> first, rows |-> rows]
        /\ \A i \in 1 .. Len(rows) + 1 : f[i] = Divide(f[i - 1], stamp)
        /\ ProcessData(g, stamp, first, rows) = f[Len(rows) + 1].files
  BY DataTurns
<1>2. f[Len(rows) + 1] \in Dividings
  BY <1>1
<1> QED
  BY <1>1, <1>2 DEF Dividings

Receivings ==
  {x \in [rcvr : RightReceivers, files : RightFiles, cp : Nat, over : BOOLEAN] :
     x.cp <= Len(x.rcvr.buf)}

LEMMA ReceiverFields ==
  ASSUME NEW t \in RightReceivers
  PROVE  /\ t \in ReceiverTypes /\ t.buf \in Seq(StreamUnits) /\ Len(t.buf) \in Nat
         /\ t.toread \in Nat /\ t.state \in {"hdr", "data"} /\ t.stamp \in Nat
         /\ t.ready \in BOOLEAN /\ t.cut \in SUBSET Nat
         /\ t.state = "data" => t.toread >= 4
         /\ t.state = "hdr" => t.toread >= 3
BY DEF RightReceivers, ReceiverTypes

LEMMA ExpectHdrRight ==
  ASSUME NEW t \in ReceiverTypes
  PROVE  ExpectHdr(t) \in RightReceivers /\ ExpectHdr(t).buf = t.buf
<1> DEFINE u == [t EXCEPT !.state = "hdr", !.toread = 3]
<1>1. ExpectHdr(t) = u
  BY DEF ExpectHdr
<1>2. u \in ReceiverTypes
  BY DEF ReceiverTypes
<1>3. u.state = "hdr" /\ u.toread = 3 /\ u.buf = t.buf
  BY DEF ReceiverTypes
<1> HIDE DEF u
<1> QED
  BY <1>1, <1>2, <1>3 DEF RightReceivers

LEMMA SeekRight ==
  ASSUME NEW t \in RightReceivers, NEW cp \in Nat
  PROVE  SeekTmid(t, cp) \in RightReceivers
<1> DEFINE found == {i \in cp + 2 .. Len(t.buf) :
                       /\ t.buf[i].kind = "T"
                       /\ i = Len(t.buf) - cp \/ UnitAt(t, i + 1).kind = "M"}
           after == [t EXCEPT !.buf = SubSeq(@, Min(found), Len(@))]
           none == [t EXCEPT !.buf = <<>>, !.life = IF cp > 0 THEN "lost" ELSE @]
<1>1. SeekTmid(t, cp) = IF found # {} THEN ExpectHdr(after) ELSE ExpectHdr(none)
  BY DEF SeekTmid
<1>2. ASSUME found # {}
      PROVE  after \in ReceiverTypes
  <2>1. found \subseteq Nat
    BY ReceiverFields
  <2>2. \E i \in found : \A j \in found : i <= j
    <3> HIDE DEF found
    <3> QED
      BY <1>2, <2>1, LeastNatural
  <2>3. Min(found) \in found
    <3> HIDE DEF found
    <3> QED
      BY <2>2 DEF Min
  <2>4. Min(found) \in cp + 2 .. Len(t.buf)
    BY <2>3
  <2> HIDE DEF found
  <2>5. SubSeq(t.buf, Min(found), Len(t.buf)) \in Seq(StreamUnits)
    BY <2>4, ReceiverFields
  <2> QED
    BY <2>5, ReceiverFields DEF ReceiverTypes
<1>3. none \in ReceiverTypes
  <2>1. (IF cp > 0 THEN "lost" ELSE t.life) \in {"running", "ended", "lost"}
    BY DEF RightReceivers, ReceiverTypes
  <2>2. <<>> \in Seq(StreamUnits) /\ t \in ReceiverTypes
    BY ReceiverFields
  <2> QED
    BY <2>1, <2>2 DEF ReceiverTypes
<1> HIDE DEF found, after, none
<1> QED
  BY <1>1, <1>2, <1>3, ExpectHdrRight

LEMMA ExpectRight ==
  ASSUME NEW t \in RightReceivers, NEW cp \in Nat, NEW stale \in Nat
  PROVE  Expect(t, cp, stale) \in RightReceivers /\ Expect(t, cp, stale).buf = t.buf
<1> DEFINE n == IF t.buf[cp + 3].kind # "data" THEN 0
                ELSE IF cp + 4 <= Len(t.buf) THEN t.buf[cp + 4].a ELSE stale
           known == IF t.buf[cp + 3].kind = "init" THEN ~t.ready ELSE t.ready
           longer == [t EXCEPT !.state = "data", !.toread = 4 + n]
           ended == [t EXCEPT !.life = "ended"]
<1>1. n \in Nat
  <2>1. cp + 4 <= Len(t.buf) => t.buf[cp + 4] \in StreamUnits
    BY ReceiverFields
  <2> QED
    BY <2>1 DEF StreamUnits
<1>2. Expect(t, cp, stale) = IF known /\ 4 + n <= BufCap THEN longer ELSE ended
  BY DEF Expect
<1> HIDE DEF n, known
<1>3. longer \in RightReceivers /\ longer.buf = t.buf
  <2>1. 4 + n \in Nat /\ 4 + n >= 4 /\ t \in ReceiverTypes
    BY <1>1, ReceiverFields
  <2>2. longer \in ReceiverTypes
    BY <2>1 DEF ReceiverTypes
  <2>3. longer.state = "data" /\ longer.toread = 4 + n /\ longer.buf = t.buf
    BY <2>1 DEF ReceiverTypes
  <2> HIDE DEF longer
  <2> QED
    BY <2>1, <2>2, <2>3 DEF RightReceivers
<1>4. ended \in RightReceivers /\ ended.buf = t.buf
  BY ReceiverFields DEF RightReceivers, ReceiverTypes
<1> QED
  BY <1>2, <1>3, <1>4

LEMMA HandleRight ==
  ASSUME NEW x \in Receivings, x.rcvr.state = "data",
         Len(x.rcvr.buf) - x.cp >= x.rcvr.toread
  PROVE  Handle(x) \in Receivings
<1> DEFINE t == x.rcvr
           type == t.buf[x.cp + 3].kind
           fields == t.buf[x.cp + 4]
           rows == [i \in 1 .. fields.a |-> UnitAt(t, x.cp + 4 + i)]
           u == [t EXCEPT !.ready = TRUE,
                          !.stamp = IF type = "data" THEN @ ELSE fields.a]
           g == CASE type = "tstamp" -> ProcessTstamp(x.files, fields.a)
                  [] type = "data"   -> ProcessData(x.files, t.stamp, fields.b, rows)
                  [] OTHER           -> x.files
<1>1. t \in RightReceivers /\ x.files \in RightFiles /\ x.cp \in Nat /\ x.over \in BOOLEAN
  BY DEF Receivings
<1>2. Handle(x) = [x EXCEPT !.cp = @ + t.toread, !.rcvr = ExpectHdr(u), !.files = g]
  BY DEF Handle
<1>3. fields \in StreamUnits /\ fields.a \in Nat /\ fields.b \in Nat
  <2>1. x.cp + 4 \in 1 .. Len(t.buf)
    BY <1>1, ReceiverFields
  <2>2. fields \in StreamUnits
    BY <1>1, <2>1, ReceiverFields
  <2> HIDE DEF fields
  <2> QED
    BY <2>2 DEF StreamUnits
<1> HIDE DEF t, fields
<1>4. rows \in Seq(StreamUnits)
  <2>1. ASSUME NEW i \in 1 .. fields.a
        PROVE  UnitAt(t, x.cp + 4 + i) \in StreamUnits
    <3>1. x.cp + 4 + i \in Nat /\ x.cp + 4 + i >= 1
      BY <1>1, <1>3
    <3>2. Junk \in StreamUnits
      BY DEF Junk, Field, StreamUnits, UnitKinds
    <3>3. x.cp + 4 + i <= Len(t.buf) => t.buf[x.cp + 4 + i] \in StreamUnits
      BY <1>1, <3>1, ReceiverFields
    <3> QED
      BY <3>2, <3>3 DEF UnitAt
  <2> QED
    BY <1>3, <2>1
<1> HIDE DEF rows
<1>5. g \in RightFiles
  <2>1. t.stamp \in Nat
    BY <1>1, ReceiverFields
  <2>2. /\ ProcessTstamp(x.files, fields.a) \in RightFiles
        /\ ProcessData(x.files, t.stamp, fields.b, rows) \in RightFiles
    BY <1>1, <1>3, <1>4, <2>1, TstampRight, DataRight DEF OpenFiles
  <2> QED
    BY <1>1, <2>2
<1>6. u \in ReceiverTypes /\ u.buf = t.buf
  BY <1>1, <1>3, ReceiverFields DEF ReceiverTypes
<1> HIDE DEF u, g
<1>7. ExpectHdr(u) \in RightReceivers /\ ExpectHdr(u).buf = t.buf
  BY <1>6, ExpectHdrRight
<1>8. x.cp + t.toread \in Nat /\ x.cp + t.toread <= Len(t.buf)
  BY <1>1, ReceiverFields DEF t
<1> QED
  BY <1>1, <1>2, <1>5, <1>7, <1>8 DEF Receivings

LEMMA RoundRight ==
  ASSUME NEW x \in Receivings, NEW stale \in Nat
  PROVE  Round(x, stale) \in Receivings
<1> DEFINE t == x.rcvr
           y == [x EXCEPT !.rcvr = Expect(t, x.cp, stale)]
           z == [x EXCEPT !.rcvr = SeekTmid(t, x.cp), !.cp = 0, !.over = TRUE]
<1>1. /\ t \in RightReceivers /\ x.files \in RightFiles /\ x.cp \in Nat
      /\ x.over \in BOOLEAN /\ x.cp <= Len(t.buf)
  BY DEF Receivings
<1>2. y \in Receivings
  <2>1. Expect(t, x.cp, stale) \in RightReceivers /\ Expect(t, x.cp, stale).buf = t.buf
    BY <1>1, ExpectRight
  <2> HIDE DEF t
  <2> QED
    BY <1>1, <2>1 DEF Receivings
<1>3. z \in Receivings
  <2>1. SeekTmid(t, x.cp) \in RightReceivers
    BY <1>1, SeekRight
  <2>2. 0 <= Len(SeekTmid(t, x.cp).buf)
    BY <2>1, ReceiverFields
  <2>3. z \in [rcvr : RightReceivers, files : RightFiles, cp : Nat, over : BOOLEAN]
    BY <1>1, <2>1 DEF Receivings
  <2>4. z.cp = 0 /\ z.rcvr = SeekTmid(t, x.cp)
    BY <1>1, <2>1 DEF Receivings
  <2> HIDE DEF z
  <2> QED
    BY <2>2, <2>3, <2>4 DEF Receivings
<1>4. Round(x, stale) =
        IF x.over \/ t.life # "running" \/ Len(t.buf) - x.cp < t.toread THEN x
        ELSE IF t.state = "data" THEN Handle(x)
        ELSE IF t.buf[x.cp + 3].kind \in Types THEN y ELSE z
  BY DEF Round
<1>5. ASSUME ~(Len(t.buf) - x.cp < t.toread), t.state = "data"
      PROVE  Handle(x) \in Receivings
  <2>1. Len(t.buf) - x.cp >= t.toread
    BY <1>1, <1>5, ReceiverFields
  <2> QED
    BY <1>5, <2>1, HandleRight
<1> HIDE DEF y, z
<1> QED
  BY <1>2, <1>3, <1>4, <1>5

LEMMA MessagesTurns ==
  ASSUME NEW t \in RightReceivers, NEW g \in RightFiles, NEW stale \in Nat
  PROVE  \E f :
           /\ \A i \in 0 .. Len(t.buf) : f[i] \in Receivings
           /\ f[0] = [rcvr |-> t, files |-> g, cp |-> 0, over |-> FALSE]
           /\ \A i \in 1 .. Len(t.buf) : f[i] = Round(f[i - 1], stale)
           /\ Messages(t, g, stale) =
                [f[Len(t.buf)] EXCEPT !.rcvr.buf = SubSeq(@, f[Len(t.buf)].cp + 1, Len(@))]
<1> DEFINE n == Len(t.buf)
           b == [rcvr |-> t, files |-> g, cp |-> 0, over |-> FALSE]
           step == [a \in (1 .. n) \X Receivings |-> Round(a[2], stale)]
           F(f) == [i \in 0 .. n |-> IF i = 0 THEN b ELSE Round(f[i - 1], stale)]
           turns == CHOOSE f : f = F(f)
<1>1. n \in Nat /\ n \in 0 .. n
  BY ReceiverFields
<1>2. b \in Receivings
  BY <1>1 DEF Receivings
<1>3. step \in [(1 .. n) \X Receivings -> Receivings]
  BY RoundRight
<1>4. PICK f \in [0 .. n -> Receivings] : Follows(f, b, step, n)
  <2> HIDE DEF n, step, b
  <2> QED
    BY <1>1, <1>2, <1>3, Recursion, Zenon
<1>5. f = F(f)
  <2>1. ASSUME NEW i \in 0 .. n
        PROVE  f[i] = F(f)[i]
    <3>1. CASE i = 0
      BY <3>1, <1>4 DEF Follows
    <3>2. CASE i \in 1 .. n
      <4>1. i - 1 \in 0 .. n
        BY <1>1, <3>2
      <4>2. f[i - 1] \in Receivings
        BY <1>4, <4>1
      <4>3. <<i, f[i - 1]>> \in (1 .. n) \X Receivings
        BY <3>2, <4>2
      <4>4. step[<<i, f[i - 1]>>] = Round(f[i - 1], stale)
        BY <4>3
      <4>5. f[i] = step[<<i, f[i - 1]>>]
        BY <3>2, <1>4 DEF Follows
      <4>6. F(f)[i] = Round(f[i - 1], stale)
        BY <1>1, <3>2
      <4> HIDE DEF step, F
      <4> QED
        BY <4>4, <4>5, <4>6
    <3> QED
      BY <1>1, <3>1, <3>2
  <2>2. f = [i \in 0 .. n |-> f[i]] /\ F(f) = [i \in 0 .. n |-> F(f)[i]]
    BY <1>4
  <2> HIDE DEF F, n
  <2> QED
    BY <2>1, <2>2
<1>6. turns = F(turns)
  BY <1>5
<1>7. Messages(t, g, stale) =
        [turns[n] EXCEPT !.rcvr.buf = SubSeq(@, turns[n].cp + 1, Len(@))]
  BY DEF Messages
<1> HIDE DEF turns
<1>8. turns[0] = b
  <2>1. F(turns)[0] = b
    BY <1>1
  <2> HIDE DEF F, b, n
  <2> QED
    BY <1>6, <2>1
<1>9. ASSUME NEW i \in 1 .. n
      PROVE  turns[i] = Round(turns[i - 1], stale)
  <2>1. i \in 0 .. n /\ i # 0
    BY <1>1
  <2>2. F(turns)[i] = Round(turns[i - 1], stale)
    BY <2>1
  <2> HIDE DEF F, n
  <2> QED
    BY <1>6, <2>2
<1> DEFINE T == {i \in 0 .. n : turns[i] \in Receivings}
<1>10. 0 .. n \subseteq T
  <2>1. 0 \in T
    BY <1>1, <1>2, <1>8
  <2>2. ASSUME NEW i \in 1 .. n, i - 1 \in T
        PROVE  i \in T
    BY <1>1, <1>9, <2>2, RoundRight
  <2> HIDE DEF T, n
  <2> QED
    BY <1>1, <2>1, <2>2, Upwards
<1> HIDE DEF F, b
<1> QED
  BY <1>7, <1>8, <1>9, <1>10 DEF b

LEMMA MessagesRight ==
  ASSUME NEW t \in RightReceivers, NEW g \in RightFiles, NEW stale \in Nat
  PROVE  /\ Messages(t, g, stale).rcvr \in RightReceivers
         /\ Messages(t, g, stale).files \in RightFiles
<1>1. PICK f :
        /\ \A i \in 0 .. Len(t.buf) : f[i] \in Receivings
        /\ f[0] = [rcvr |-> t, files |-> g, cp |-> 0, over |-> FALSE]
        /\ \A i \in 1 .. Len(t.buf) : f[i] = Round(f[i - 1], stale)
        /\ Messages(t, g, stale) =
             [f[Len(t.buf)] EXCEPT !.rcvr.buf = SubSeq(@, f[Len(t.buf)].cp + 1, Len(@))]
  BY MessagesTurns
<1> DEFINE x == f[Len(t.buf)]
<1>2. x \in Receivings
  BY <1>1, ReceiverFields
<1>3. Messages(t, g, stale) =
        [x EXCEPT !.rcvr = [x.rcvr EXCEPT !.buf = SubSeq(@, x.cp + 1, Len(@))]]
  BY <1>1
<1> HIDE DEF x
<1>4. /\ x.rcvr \in RightReceivers /\ x.files \in RightFiles /\ x.cp \in Nat
      /\ x.cp <= Len(x.rcvr.buf)
  BY <1>2 DEF Receivings
<1>5. SubSeq(x.rcvr.buf, x.cp + 1, Len(x.rcvr.buf)) \in Seq(StreamUnits)
  BY <1>4, ReceiverFields
<1>6. [x.rcvr EXCEPT !.buf = SubSeq(@, x.cp + 1, Len(@))] \in RightReceivers
  BY <1>4, <1>5, ReceiverFields DEF RightReceivers, ReceiverTypes
<1> QED
  BY <1>2, <1>3, <1>4, <1>6 DEF Receivings

LEMMA MessageRight ==
  ASSUME NEW t \in RightReceivers, NEW g \in RightFiles, NEW stale \in Nat
  PROVE  /\ ProcessMessage(t, g, stale).rcvr \in RightReceivers
         /\ ProcessMessage(t, g, stale).files \in RightFiles
<1>1. SeekTmid(t, 0) \in RightReceivers
  BY SeekRight
<1> QED
  BY <1>1, MessagesRight DEF ProcessMessage

LEMMA InitLogs == LgrInit => LgrInv
BY DEF LgrInit, LgrInv, RightReceivers, ReceiverTypes, RightFiles, FileTypes, FileRight

LEMMA SendLogs == LgrInv /\ (SendStamp \/ SendRows) => LgrInv'
<1> SUFFICES ASSUME LgrInv, SendStamp \/ SendRows
             PROVE  LgrInv'
  OBVIOUS
<1>1. src.rows \in Nat /\ src.stamps \in Nat /\ wire \in Seq(StreamUnits)
  BY DEF LgrInv
<1>2. ASSUME NEW type \in {"init", "tstamp", "data"}
      PROVE  Hdr(type) \in Seq(StreamUnits)
  BY DEF Hdr, Field, StreamUnits, UnitKinds
<1>3. CASE SendStamp
  <2> DEFINE type == IF src.stamps = 0 THEN "init" ELSE "tstamp"
             more == Hdr(type) \o <<Field("stamp", src.stamps + 1, 0)>>
  <2>1. more \in Seq(StreamUnits)
    <3>1. Hdr(type) \in Seq(StreamUnits)
      BY <1>2
    <3>2. <<Field("stamp", src.stamps + 1, 0)>> \in Seq(StreamUnits)
      BY <1>1 DEF Field, StreamUnits, UnitKinds
    <3> HIDE DEF type
    <3> QED
      BY <3>1, <3>2
  <2>2. wire' = wire \o more /\ src' = [src EXCEPT !.stamps = @ + 1]
    BY <1>3 DEF SendStamp, OnWire
  <2>3. UNCHANGED <<rcvr, files>>
    BY <1>3 DEF SendStamp
  <2> HIDE DEF more
  <2>4. src' \in [rows : Nat, stamps : Nat]
    BY <1>1, <2>2 DEF LgrInv
  <2>5. wire' \in Seq(StreamUnits)
    BY <1>1, <2>1, <2>2
  <2> QED
    BY <2>3, <2>4, <2>5 DEF LgrInv
<1>4. CASE SendRows
  <2>1. PICK n \in 1 .. MaxRows :
          /\ wire' = wire \o (Hdr("data") \o <<Field("n_rows", n, src.rows + 1)>>
                                \o RowUnits(src.rows + 1, n, src.stamps))
          /\ src' = [src EXCEPT !.rows = @ + n]
    BY <1>4 DEF SendRows, OnWire
  <2> DEFINE first == Hdr("data")
             second == <<Field("n_rows", n, src.rows + 1)>>
             third == RowUnits(src.rows + 1, n, src.stamps)
             more == first \o second \o third
  <2>2. n \in Nat
    BY LoggerSizes
  <2>3. first \in Seq(StreamUnits) /\ second \in Seq(StreamUnits)
    BY <1>1, <1>2, <2>2 DEF Field, StreamUnits, UnitKinds
  <2>4. third \in Seq(StreamUnits)
    <3>1. ASSUME NEW i \in 1 .. n
          PROVE  Field("row", src.rows + 1 + i - 1, src.stamps) \in StreamUnits
      BY <1>1, <2>2 DEF Field, StreamUnits, UnitKinds
    <3> QED
      BY <2>2, <3>1 DEF RowUnits
  <2> HIDE DEF first, second, third
  <2>5. more \in Seq(StreamUnits)
    BY <2>3, <2>4
  <2>6. wire' = wire \o more
    BY <2>1 DEF first, second, third
  <2> HIDE DEF more
  <2>7. src.rows + n \in Nat
    BY <1>1, <2>2
  <2>8. src' \in [rows : Nat, stamps : Nat]
    BY <1>1, <2>1, <2>7 DEF LgrInv
  <2>9. wire' \in Seq(StreamUnits)
    BY <1>1, <2>5, <2>6
  <2> QED
    BY <1>4, <2>8, <2>9 DEF LgrInv, SendRows
<1> QED
  BY <1>3, <1>4

LEMMA ReadLogs == LgrInv /\ LgrRead => LgrInv'
<1> SUFFICES ASSUME LgrInv, LgrRead
             PROVE  LgrInv'
  OBVIOUS
<1>1. /\ rcvr \in RightReceivers /\ files \in RightFiles /\ wire \in Seq(StreamUnits)
      /\ Len(wire) \in Nat
  BY DEF LgrInv
<1>2. PICK n \in 1 .. Min({Len(wire), BufCap - Len(rcvr.buf)}), stale \in Stale :
        LET t == [rcvr EXCEPT !.buf = @ \o SubSeq(wire, 1, n), !.cut = @ \cup CutAt(n)]
            x == ProcessMessage(t, files, stale)
        IN /\ rcvr' = x.rcvr /\ files' = x.files
           /\ wire' = SubSeq(wire, n + 1, Len(wire))
  BY DEF LgrRead
<1> DEFINE t == [rcvr EXCEPT !.buf = @ \o SubSeq(wire, 1, n), !.cut = @ \cup CutAt(n)]
<1>3. n \in 1 .. Len(wire)
  <2>1. Len(rcvr.buf) \in Nat /\ BufCap \in Nat
    BY <1>1, ReceiverFields, LoggerSizes
  <2> QED
    BY <1>1, <2>1 DEF Min
<1>4. SubSeq(wire, 1, n) \in Seq(StreamUnits) /\ SubSeq(wire, n + 1, Len(wire)) \in Seq(StreamUnits)
  BY <1>1, <1>3
<1>5. CutAt(n) \in SUBSET Nat
  <2>1. CASE n < Len(wire) /\ wire[n].kind = "data"
    <3>1. n + 1 \in 1 .. Len(wire)
      BY <1>1, <1>3, <2>1
    <3>2. wire[n + 1] \in StreamUnits
      BY <1>1, <3>1
    <3>3. wire[n + 1].a \in Nat /\ wire[n + 1].b \in Nat
      BY <3>2 DEF StreamUnits
    <3>4. {wire[n + 1].b + i : i \in 0 .. wire[n + 1].a - 1} \subseteq Nat
      BY <3>3
    <3> QED
      BY <2>1, <3>4 DEF CutAt
  <2> QED
    BY <2>1 DEF CutAt
<1>6. t \in RightReceivers
  <2>1. rcvr.buf \o SubSeq(wire, 1, n) \in Seq(StreamUnits)
    BY <1>1, <1>4, ReceiverFields
  <2>2. rcvr.cut \cup CutAt(n) \in SUBSET Nat
    BY <1>1, <1>5, ReceiverFields
  <2> QED
    BY <1>1, <2>1, <2>2, ReceiverFields DEF RightReceivers, ReceiverTypes
<1>7. stale \in Nat
  BY LoggerSizes DEF Stale
<1> HIDE DEF t
<1>8. /\ ProcessMessage(t, files, stale).rcvr \in RightReceivers
      /\ ProcessMessage(t, files, stale).files \in RightFiles
  BY <1>1, <1>6, <1>7, MessageRight
<1>9. rcvr' \in RightReceivers /\ files' \in RightFiles /\ wire' \in Seq(StreamUnits)
  BY <1>2, <1>4, <1>8 DEF t
<1> QED
  BY <1>9 DEF LgrInv, LgrRead

(* The files and what is on its way to them are what they should be, however the
   stream is cut into reads. *)
THEOREM LogInvariance == LgrSpec => []LgrInv
<1>1. LgrInit => LgrInv
  BY InitLogs
<1>2. LgrInv /\ [LgrNext]_lgrvars => LgrInv'
  <2>1. LgrInv /\ UNCHANGED lgrvars => LgrInv'
    BY DEF LgrInv, lgrvars
  <2> QED
    BY <2>1, SendLogs, ReadLogs DEF LgrNext
<1> QED
  BY <1>1, <1>2, PTL DEF LgrSpec

(* A file keeps to its limit, but for one with a single row behind its time
   stamp, and begins with a time stamp, for any limit and any sizes of rows and
   messages, damaged ones among them (lgr.cc:51-119). *)
THEOREM FilesStayBounded == LgrSpec => []FilesBounded
<1>1. LgrInv => FilesBounded
  BY DEF LgrInv, RightFiles, FileRight, FilesBounded
<1> QED
  BY <1>1, LogInvariance, PTL

(* What the files say of rows from number first on. *)
LogOf(first, stamp, rows) ==
  [i \in 1 .. Len(rows) |-> [num |-> first + i - 1, stamp |-> stamp, is |-> rows[i]]]

LEMMA LogOfTyped ==
  ASSUME NEW first \in Nat, first >= 1, NEW stamp \in Nat, NEW rows \in Seq(StreamUnits)
  PROVE  /\ LogOf(first, stamp, rows) \in Seq(LoggedRows)
         /\ Len(LogOf(first, stamp, rows)) = Len(rows)
         /\ \A i \in 1 .. Len(rows) :
              LogOf(first, stamp, rows)[i] =
                [num |-> first + i - 1, stamp |-> stamp, is |-> rows[i]]
<1>1. Len(rows) \in Nat
  OBVIOUS
<1>2. ASSUME NEW i \in 1 .. Len(rows)
      PROVE  [num |-> first + i - 1, stamp |-> stamp, is |-> rows[i]] \in LoggedRows
  BY DEF LoggedRows
<1> QED
  BY <1>1, <1>2 DEF LogOf

LEMMA LogSplit ==
  ASSUME NEW first \in Nat, first >= 1, NEW stamp \in Nat, NEW rows \in Seq(StreamUnits),
         NEW n \in 0 .. Len(rows)
  PROVE  LogOf(first, stamp, rows) =
           LogOf(first, stamp, SubSeq(rows, 1, n))
             \o LogOf(first + n, stamp, SubSeq(rows, n + 1, Len(rows)))
<1> DEFINE a == SubSeq(rows, 1, n)
           b == SubSeq(rows, n + 1, Len(rows))
           pre == LogOf(first, stamp, a)
           q == LogOf(first + n, stamp, b)
           r == LogOf(first, stamp, rows)
<1>1. Len(rows) \in Nat /\ n \in Nat /\ n <= Len(rows) /\ first + n \in Nat /\ first + n >= 1
  OBVIOUS
<1>2. a \in Seq(StreamUnits) /\ Len(a) = n /\ \A i \in 1 .. n : a[i] = rows[i]
  BY <1>1
<1>3. /\ b \in Seq(StreamUnits) /\ Len(b) = Len(rows) - n
      /\ \A i \in 1 .. Len(rows) - n : b[i] = rows[n + i]
  BY <1>1
<1> HIDE DEF a, b
<1>4. /\ pre \in Seq(LoggedRows) /\ Len(pre) = n
      /\ \A i \in 1 .. n : pre[i] = [num |-> first + i - 1, stamp |-> stamp, is |-> rows[i]]
  <2>1. /\ pre \in Seq(LoggedRows) /\ Len(pre) = Len(a)
        /\ \A i \in 1 .. Len(a) : pre[i] = [num |-> first + i - 1, stamp |-> stamp, is |-> a[i]]
    BY <1>2, LogOfTyped, Zenon
  <2> HIDE DEF pre
  <2> QED
    BY <1>2, <2>1
<1>5. /\ q \in Seq(LoggedRows) /\ Len(q) = Len(rows) - n
      /\ \A i \in 1 .. Len(rows) - n :
           q[i] = [num |-> first + n + i - 1, stamp |-> stamp, is |-> rows[n + i]]
  <2>1. /\ q \in Seq(LoggedRows) /\ Len(q) = Len(b)
        /\ \A i \in 1 .. Len(b) : q[i] = [num |-> first + n + i - 1, stamp |-> stamp, is |-> b[i]]
    BY <1>1, <1>3, LogOfTyped, Zenon
  <2> HIDE DEF q
  <2> QED
    BY <1>3, <2>1
<1>6. /\ r \in Seq(LoggedRows) /\ Len(r) = Len(rows)
      /\ \A i \in 1 .. Len(rows) :
           r[i] = [num |-> first + i - 1, stamp |-> stamp, is |-> rows[i]]
  BY <1>1, LogOfTyped
<1> HIDE DEF pre, q, r
<1>7. pre \o q \in Seq(LoggedRows) /\ Len(pre \o q) = Len(rows)
  <2>1. pre \in Seq(LoggedRows) /\ q \in Seq(LoggedRows)
    BY <1>4, <1>5
  <2>2. Len(pre \o q) = Len(pre) + Len(q) /\ pre \o q \in Seq(LoggedRows)
    BY <2>1, ConcatProperties
  <2> QED
    BY <1>1, <1>4, <1>5, <2>2
<1>8. ASSUME NEW i \in 1 .. Len(rows)
      PROVE  (pre \o q)[i] = r[i]
  <2>1. CASE i <= n
    <3>1. (pre \o q)[i] = pre[i]
      BY <1>1, <1>4, <1>5, <2>1, ConcatProperties
    <3> QED
      BY <1>1, <1>4, <1>6, <2>1, <3>1
  <2>2. CASE i > n
    <3>1. i - n \in 1 .. Len(rows) - n
      BY <1>1, <2>2
    <3>2. (pre \o q)[i] = q[i - n]
      BY <1>1, <1>4, <1>5, <2>2, ConcatProperties
    <3>3. first + n + (i - n) - 1 = first + i - 1 /\ n + (i - n) = i
      BY <1>1
    <3> QED
      BY <1>5, <1>6, <3>1, <3>2, <3>3
  <2>3. i <= n \/ i > n
    BY <1>1
  <2> QED
    BY <2>1, <2>2, <2>3, Zenon
<1>9. pre \o q = r
  BY <1>6, <1>7, <1>8, SeqEqual
<1> QED
  BY <1>9 DEF a, b, pre, q, r

LEMMA StampLogs ==
  ASSUME NEW g \in FileTypes, NEW stamp \in Nat
  PROVE  /\ WriteTstamp(g, stamp).log = g.log
         /\ WriteTstamp(g, stamp).stamp = stamp
         /\ WriteTstamp(g, stamp).size = g.size + TsSize
         /\ WriteTstamp(g, stamp).open = g.open
BY DEF WriteTstamp, FileTypes

LEMMA NextFileLogs ==
  ASSUME NEW g \in RightFiles, NEW stamp \in Nat
  PROVE  /\ NextFile(g, stamp).log = g.log
         /\ NextFile(g, stamp).stamp = stamp
         /\ NextFile(g, stamp).size = TsSize
<1> DEFINE h == [g EXCEPT !.open = TRUE, !.size = 0]
<1>1. h \in FileTypes /\ h.size = 0 /\ h.log = g.log
  BY FileFields DEF FileTypes
<1>2. NextFile(g, stamp) = WriteTstamp(h, stamp)
  BY DEF NextFile
<1> HIDE DEF h
<1>3. 0 + TsSize = TsSize
  BY LoggerSizes
<1> QED
  BY <1>1, <1>2, <1>3, StampLogs

LEMMA TstampLogs ==
  ASSUME NEW g \in RightFiles, NEW stamp \in Nat
  PROVE  /\ ProcessTstamp(g, stamp).log = g.log
         /\ ProcessTstamp(g, stamp).stamp = stamp
<1>1. g \in FileTypes
  BY FileFields
<1> QED
  BY <1>1, NextFileLogs, StampLogs, Zenon DEF ProcessTstamp

LEMMA RowsLog ==
  ASSUME NEW g \in RightFiles, NEW first \in Nat, first >= 1, NEW rows \in Seq(StreamUnits)
  PROVE  /\ WriteRows(g, first, rows).log = g.log \o LogOf(first, g.stamp, rows)
         /\ WriteRows(g, first, rows).stamp = g.stamp
<1>1. g \in FileTypes
  BY FileFields
<1> QED
  BY <1>1 DEF WriteRows, LogOf, FileTypes

Divided(x, y, stamp) ==
  /\ y.files.stamp = stamp /\ y.first >= 1
  /\ y.files.log \o LogOf(y.first, stamp, y.rows) =
       x.files.log \o LogOf(x.first, stamp, x.rows)
  /\ Len(y.rows) <= Len(x.rows)
  /\ x.rows # <<>> /\ RowsFit(x.files) >= 1 => Len(y.rows) < Len(x.rows)
  /\ y.rows # <<>> => RowsFit(y.files) >= 1

(* A turn moves rows to the files, and but for the first it does move some. *)
LEMMA DivideLogs ==
  ASSUME NEW x \in Dividings, NEW stamp \in Nat, x.files.stamp = stamp, x.first >= 1
  PROVE  Divided(x, Divide(x, stamp), stamp)
<1> DEFINE fit == RowsFit(x.files)
           n == Min({fit, Len(x.rows)})
           a == SubSeq(x.rows, 1, n)
           b == SubSeq(x.rows, n + 1, Len(x.rows))
           w == WriteRows(x.files, x.first, a)
           u == [x EXCEPT !.files = NextFile(@, stamp)]
           v == [files |-> IF n = Len(x.rows) THEN w ELSE NextFile(w, stamp),
                 first |-> x.first + n, rows |-> b]
<1>1. x.files \in OpenFiles /\ x.files \in RightFiles /\ x.first \in Nat
      /\ x.rows \in Seq(StreamUnits) /\ Len(x.rows) \in Nat /\ fit \in Nat
  BY FitNatural DEF Dividings, OpenFiles
<1>2. Divide(x, stamp) = IF x.rows = <<>> THEN x ELSE IF fit < 1 THEN u ELSE v
  BY DEF Divide
<1>3. ASSUME NEW g \in RightFiles, g.size = TsSize
      PROVE  RowsFit(g) >= 1
  <2> DEFINE room == FileLimit - g.size - HdrSize
  <2>1. room \in Int
    BY FileFields, LoggerSizes
  <2>2. room >= 0 => room \div RowSize \in Nat
    <3> HIDE DEF room
    <3> QED
      BY <2>1, LoggerSizes, Quotient
  <2> QED
    BY <1>3, <2>1, <2>2 DEF RowsFit
<1>4. ASSUME x.rows # <<>>, fit < 1
      PROVE  Divided(x, u, stamp)
  <2>1. u.files = NextFile(x.files, stamp) /\ u.first = x.first /\ u.rows = x.rows
    BY DEF Dividings
  <2>2. NextFile(x.files, stamp) \in RightFiles
    BY <1>1, NextFileRight DEF OpenFiles
  <2> HIDE DEF u
  <2>3. u.files.stamp = stamp /\ u.files.log = x.files.log /\ RowsFit(u.files) >= 1
    BY <1>1, <1>3, <2>1, <2>2, NextFileLogs
  <2> QED
    BY <1>1, <1>4, <2>1, <2>3 DEF Divided
<1>5. ASSUME x.rows # <<>>, ~(fit < 1)
      PROVE  Divided(x, v, stamp)
  <2>1. Len(x.rows) >= 1
    BY <1>1, <1>5
  <2>2. n \in Nat /\ n >= 1 /\ n <= fit /\ n <= Len(x.rows)
    <3> HIDE DEF fit
    <3> QED
      BY <1>1, <1>5, <2>1 DEF Min
  <2> HIDE DEF n, fit
  <2>3. /\ a \in Seq(StreamUnits) /\ Len(a) = n
        /\ b \in Seq(StreamUnits) /\ Len(b) = Len(x.rows) - n
    BY <1>1, <2>2
  <2>4. w \in OpenFiles
    BY <1>1, <2>2, <2>3, RowsRight DEF fit
  <2>5. w.log = x.files.log \o LogOf(x.first, stamp, a) /\ w.stamp = stamp
    BY <1>1, <2>3, RowsLog
  <2>6. LogOf(x.first, stamp, x.rows) =
          LogOf(x.first, stamp, a) \o LogOf(x.first + n, stamp, b)
    <3>1. n \in 0 .. Len(x.rows)
      BY <1>1, <2>2
    <3> QED
      BY <1>1, <3>1, LogSplit, Zenon
  <2> HIDE DEF a, b, w
  <2>7. /\ v.first = x.first + n /\ v.rows = b
        /\ v.files = IF n = Len(x.rows) THEN w ELSE NextFile(w, stamp)
    OBVIOUS
  <2> HIDE DEF v
  <2>8. NextFile(w, stamp) \in RightFiles /\ w \in RightFiles
    BY <2>4, NextFileRight DEF OpenFiles
  <2>9. v.files.log = w.log /\ v.files.stamp = stamp
    BY <2>5, <2>7, <2>8, NextFileLogs
  <2>10. x.first + n \in Nat /\ x.first + n >= 1
    BY <1>1, <2>2
  <2>11. /\ x.files.log \in Seq(LoggedRows)
         /\ LogOf(x.first, stamp, a) \in Seq(LoggedRows)
         /\ LogOf(x.first + n, stamp, b) \in Seq(LoggedRows)
    BY <1>1, <2>3, <2>10, LogOfTyped, FileFields
  <2>12. v.files.log \o LogOf(v.first, stamp, v.rows) =
           x.files.log \o LogOf(x.first, stamp, x.rows)
    <3> DEFINE e == x.files.log
               pre == LogOf(x.first, stamp, a)
               q == LogOf(x.first + n, stamp, b)
    <3>1. e \in Seq(LoggedRows) /\ pre \in Seq(LoggedRows) /\ q \in Seq(LoggedRows)
      BY <2>11
    <3>2. /\ v.files.log = e \o pre /\ LogOf(v.first, stamp, v.rows) = q
          /\ LogOf(x.first, stamp, x.rows) = pre \o q
      BY <2>5, <2>6, <2>7, <2>9
    <3> HIDE DEF e, pre, q
    <3>3. (e \o pre) \o q = e \o (pre \o q)
      BY <3>1
    <3>4. /\ v.files.log \o LogOf(v.first, stamp, v.rows) = (e \o pre) \o q
          /\ e \o LogOf(x.first, stamp, x.rows) = e \o (pre \o q)
      BY <3>2
    <3> QED
      BY <3>3, <3>4 DEF e
  <2>13. v.rows # <<>> => n # Len(x.rows)
    BY <2>3, <2>7
  <2>14. v.rows # <<>> => RowsFit(v.files) >= 1
    BY <1>3, <2>7, <2>8, <2>13, NextFileLogs
  <2>15. Len(v.rows) < Len(x.rows) /\ v.first >= 1
    BY <1>1, <2>2, <2>3, <2>7, <2>10
  <2> QED
    BY <1>1, <2>9, <2>12, <2>14, <2>15 DEF Divided
<1>6. x.rows = <<>> => Divided(x, x, stamp)
  BY <1>1 DEF Divided
<1> HIDE DEF u, v, fit
<1> QED
  BY <1>2, <1>4, <1>5, <1>6, Zenon

Adds(h, g, first, stamp, rows) ==
  h.stamp = stamp /\ h.log = g.log \o LogOf(first, stamp, rows)

(* Whatever the files are at, all rows are logged, once and in order. *)
LEMMA DataLogs ==
  ASSUME NEW g \in RightFiles, NEW stamp \in Nat, NEW first \in Nat, first >= 1,
         NEW rows \in Seq(StreamUnits), g.open => g.stamp = stamp
  PROVE  Adds(ProcessData(g, stamp, first, rows), g, first, stamp, rows)
<1> DEFINE n == Len(rows) + 1
<1>1. PICK f :
        /\ \A i \in 0 .. n : f[i] \in Dividings
        /\ f[0] = [files |-> IF g.open THEN g ELSE NextFile(g, stamp),
                   first |-> first, rows |-> rows]
        /\ \A i \in 1 .. n : f[i] = Divide(f[i - 1], stamp)
        /\ ProcessData(g, stamp, first, rows) = f[n].files
  BY DataTurns
<1>2. Len(rows) \in Nat /\ n \in Nat /\ n = Len(rows) + 1
  OBVIOUS
<1> HIDE DEF n
<1> DEFINE all == g.log \o LogOf(first, stamp, rows)
           Logging(x) == /\ x.files.stamp = stamp /\ x.first >= 1
                      /\ x.files.log \o LogOf(x.first, stamp, x.rows) = all
           Fewer(x, i) == \/ x.rows = <<>>
                          \/ RowsFit(x.files) >= 1 /\ Len(x.rows) <= Len(rows) - (i - 1)
           T == {i \in 0 .. n : Logging(f[i]) /\ (i >= 1 => Fewer(f[i], i))}
<1>3. 0 \in T
  <2>1. /\ f[0].first = first /\ f[0].rows = rows
        /\ f[0].files = IF g.open THEN g ELSE NextFile(g, stamp)
    BY <1>1
  <2>2. f[0].files.log = g.log /\ f[0].files.stamp = stamp
    BY <2>1, NextFileLogs
  <2>3. Logging(f[0])
    BY <2>1, <2>2
  <2>4. 0 \in 0 .. n /\ ~(0 >= 1)
    BY <1>2
  <2> HIDE DEF all, Logging, Fewer
  <2> QED
    BY <2>3, <2>4
<1>4. ASSUME NEW i \in 1 .. n, i - 1 \in T
      PROVE  i \in T
  <2> DEFINE x == f[i - 1]
             y == f[i]
  <2>1. x \in Dividings /\ y = Divide(x, stamp) /\ y \in Dividings
    BY <1>1, <1>2
  <2>2. Logging(x) /\ (i - 1 >= 1 => Fewer(x, i - 1))
    BY <1>4
  <2>3. x.rows \in Seq(StreamUnits) /\ y.rows \in Seq(StreamUnits)
    BY <2>1 DEF Dividings
  <2>4. i - 1 = 0 => Len(x.rows) = Len(rows)
    BY <1>1
  <2> HIDE DEF x, y, all
  <2>5. /\ y.files.stamp = stamp /\ y.first >= 1
        /\ y.files.log \o LogOf(y.first, stamp, y.rows) =
             x.files.log \o LogOf(x.first, stamp, x.rows)
        /\ Len(y.rows) <= Len(x.rows)
        /\ x.rows # <<>> /\ RowsFit(x.files) >= 1 => Len(y.rows) < Len(x.rows)
        /\ y.rows # <<>> => RowsFit(y.files) >= 1
    BY <2>1, <2>2, DivideLogs DEF Divided
  <2>6. Logging(y)
    BY <2>2, <2>5
  <2>7. Len(x.rows) \in Nat /\ Len(y.rows) \in Nat
        /\ (x.rows = <<>> => Len(x.rows) = 0) /\ (Len(y.rows) = 0 => y.rows = <<>>)
    BY <2>3
  <2>8. Fewer(y, i)
    <3>1. CASE i - 1 = 0
      BY <1>2, <2>4, <2>5, <2>7, <3>1
    <3>2. CASE i - 1 >= 1 /\ x.rows = <<>>
      BY <2>5, <2>7, <3>2
    <3>3. CASE i - 1 >= 1 /\ x.rows # <<>>
      <4>1. RowsFit(x.files) >= 1 /\ Len(x.rows) <= Len(rows) - (i - 1 - 1)
        BY <2>2, <3>3
      <4>2. Len(y.rows) < Len(x.rows)
        BY <2>5, <3>3, <4>1
      <4>3. Len(y.rows) <= Len(rows) - (i - 1)
        BY <1>2, <2>7, <4>1, <4>2
      <4> QED
        BY <2>5, <4>3
    <3> QED
      BY <1>2, <3>1, <3>2, <3>3
  <2>9. i \in 0 .. n
    BY <1>2
  <2> QED
    BY <2>6, <2>8, <2>9 DEF y
<1>5. n \in T
  <2>1. 0 .. n \subseteq T
    <3> HIDE DEF T
    <3> QED
      BY <1>2, <1>3, <1>4, Upwards
  <2> HIDE DEF T
  <2> QED
    BY <1>2, <2>1
<1> HIDE DEF all
<1>6. f[n] \in Dividings /\ Logging(f[n]) /\ Fewer(f[n], n)
  <2>1. n \in 0 .. n /\ n >= 1
    BY <1>2
  <2> QED
    BY <1>1, <1>5, <2>1
<1> DEFINE z == f[n]
<1> HIDE DEF T, z
<1>7. z.rows \in Seq(StreamUnits) /\ Len(z.rows) \in Nat /\ z.files \in RightFiles
      /\ z.first \in Nat
  BY <1>6 DEF Dividings, OpenFiles, z
<1>8. z.rows = <<>>
  BY <1>2, <1>6, <1>7 DEF z
<1>9. Logging(z)
  BY <1>6 DEF z
<1>10. LogOf(z.first, stamp, z.rows) = <<>>
  BY <1>8 DEF LogOf
<1>11. z.files.log \in Seq(LoggedRows)
  BY <1>7, FileFields
<1>12. z.files.log \o <<>> = z.files.log
  BY <1>11
<1>13. z.files.log = all
  BY <1>9, <1>10, <1>12
<1> QED
  BY <1>1, <1>9, <1>13 DEF all, z, Adds

(* A place of the stream: the at-th unit of a message of n rows, none of which is
   a time stamp, that was sent when first was the next row and prev the last time
   stamp. *)
Places == {l \in [at : Nat \ {0}, n : Nat, first : Nat \ {0}, prev : Nat] :
             l.at <= 4 + l.n}

MessageType(l) == IF l.n > 0 THEN "data" ELSE IF l.prev = 0 THEN "init" ELSE "tstamp"

UnitOf(l) ==
  CASE l.at = 1 -> Field("T", 0, 0)
    [] l.at = 2 -> Field("M", 0, 0)
    [] l.at = 3 -> Field(MessageType(l), 0, 0)
    [] l.at = 4 /\ l.n = 0 -> Field("stamp", l.prev + 1, 0)
    [] l.at = 4 /\ l.n > 0 -> Field("n_rows", l.n, l.first)
    [] OTHER -> Field("row", l.first + l.at - 5, l.prev)

SameMessage(l, m) == m.n = l.n /\ m.first = l.first /\ m.prev = l.prev

StampBehind(l) == IF l.n = 0 THEN l.prev + 1 ELSE l.prev

NextMessage(l, m) == m.at = 1 /\ m.first = l.first + l.n /\ m.prev = StampBehind(l)

(* The units of s are those of the places of lay, one message after the other, and
   a message begins behind the last. *)
Laid(s, lay) ==
  /\ \A i \in 1 .. Len(s) + 1 : lay[i] \in Places
  /\ \A i \in 1 .. Len(s) :
       /\ s[i] = UnitOf(lay[i])
       /\ lay[i].n > 0 => lay[i].prev > 0
       /\ IF lay[i].at < 4 + lay[i].n
            THEN lay[i + 1].at = lay[i].at + 1 /\ SameMessage(lay[i], lay[i + 1])
            ELSE NextMessage(lay[i], lay[i + 1])
  /\ lay[Len(s) + 1].at = 1

LEMMA PlaceFields ==
  ASSUME NEW l \in Places
  PROVE  /\ l.at \in Nat /\ l.at >= 1 /\ l.at <= 4 + l.n /\ l.n \in Nat
         /\ l.first \in Nat /\ l.first >= 1 /\ l.prev \in Nat
BY DEF Places

LEMMA KnownUnit ==
  ASSUME NEW l \in Places
  PROVE  /\ l.at = 1 => UnitOf(l) = Field("T", 0, 0)
         /\ l.at = 2 => UnitOf(l) = Field("M", 0, 0)
         /\ l.at = 3 => UnitOf(l) = Field(MessageType(l), 0, 0)
         /\ l.at = 4 /\ l.n = 0 => UnitOf(l) = Field("stamp", l.prev + 1, 0)
         /\ l.at = 4 /\ l.n > 0 => UnitOf(l) = Field("n_rows", l.n, l.first)
         /\ l.at >= 5 => UnitOf(l) = Field("row", l.first + l.at - 5, l.prev)
BY PlaceFields DEF UnitOf

LEMMA KindTells ==
  ASSUME NEW l \in Places
  PROVE  /\ UnitOf(l).kind = "T" <=> l.at = 1
         /\ UnitOf(l).kind = "M" <=> l.at = 2
         /\ UnitOf(l).kind \in Types <=> l.at = 3
         /\ UnitOf(l).kind = "data" <=> l.at = 3 /\ l.n > 0
         /\ UnitOf(l).kind = "row" <=> l.at >= 5
<1>1. l.at \in Nat /\ l.at >= 1 /\ l.n \in Nat /\ l.at <= 4 + l.n
  BY PlaceFields
<1>2. /\ l.at = 1 => UnitOf(l).kind = "T"
      /\ l.at = 2 => UnitOf(l).kind = "M"
      /\ l.at = 3 => UnitOf(l).kind = MessageType(l)
      /\ l.at = 4 => UnitOf(l).kind \in {"stamp", "n_rows"}
      /\ l.at >= 5 => UnitOf(l).kind = "row"
  BY <1>1, KnownUnit DEF Field
<1>3. l.at = 1 \/ l.at = 2 \/ l.at = 3 \/ l.at = 4 \/ l.at >= 5
  BY <1>1
<1>4. MessageType(l) \in Types /\ (MessageType(l) = "data" <=> l.n > 0)
  BY <1>1 DEF MessageType, Types
<1> QED
  BY <1>1, <1>2, <1>3, <1>4 DEF Types

(* A message is on the stream to its end. *)
LEMMA InMessage ==
  ASSUME NEW s \in Seq(StreamUnits), NEW lay, Laid(s, lay), NEW a \in 1 .. Len(s),
         NEW k \in Nat, lay[a].at + k <= 4 + lay[a].n
  PROVE  /\ a + k \in 1 .. Len(s) /\ lay[a + k].at = lay[a].at + k
         /\ SameMessage(lay[a], lay[a + k])
<1> DEFINE OneMessage(j) == /\ a + j \in 1 .. Len(s) /\ lay[a + j].at = lay[a].at + j
                      /\ SameMessage(lay[a], lay[a + j])
           T == {j \in 0 .. k : OneMessage(j)}
<1>1. Len(s) \in Nat /\ lay[a] \in Places /\ lay[a].at \in Nat /\ lay[a].n \in Nat
      /\ lay[a].at >= 1
  BY PlaceFields DEF Laid
<1>2. 0 \in T
  BY <1>1 DEF SameMessage
<1>3. ASSUME NEW j \in 1 .. k, j - 1 \in T
      PROVE  j \in T
  <2> DEFINE m == a + (j - 1)
  <2>1. /\ m \in 1 .. Len(s) /\ lay[m].at = lay[a].at + (j - 1)
        /\ SameMessage(lay[a], lay[m])
    BY <1>3
  <2>2. lay[m].at < 4 + lay[m].n
    BY <1>1, <2>1 DEF SameMessage
  <2>3. lay[m + 1].at = lay[m].at + 1 /\ SameMessage(lay[m], lay[m + 1])
    BY <2>1, <2>2 DEF Laid
  <2>4. m + 1 = a + j /\ lay[m + 1].at = lay[a].at + j
    BY <1>1, <2>1, <2>3
  <2>5. m + 1 # Len(s) + 1
    BY <1>1, <2>4 DEF Laid
  <2>6. a + j \in 1 .. Len(s)
    <3> HIDE DEF m
    <3>1. m \in 1 .. Len(s) /\ m + 1 = a + j
      BY <2>1, <2>4
    <3>2. m + 1 \in 1 .. Len(s)
      BY <1>1, <2>5, <3>1
    <3> QED
      BY <3>1, <3>2
  <2>7. SameMessage(lay[a], lay[a + j])
    BY <2>1, <2>3, <2>4 DEF SameMessage
  <2> QED
    BY <1>1, <2>4, <2>6, <2>7
<1>4. 0 .. k \subseteq T
  <2> HIDE DEF T
  <2> QED
    BY <1>2, <1>3, Upwards
<1>5. k \in T
  <2> HIDE DEF T
  <2> QED
    BY <1>4
<1> QED
  BY <1>5

(* As long as none begins, it is the same message. *)
LEMMA NoneBegins ==
  ASSUME NEW s \in Seq(StreamUnits), NEW lay, Laid(s, lay), NEW a \in 1 .. Len(s),
         NEW b \in a .. Len(s) + 1, \A i \in a + 1 .. b : lay[i].at # 1
  PROVE  lay[b].at = lay[a].at + (b - a) /\ SameMessage(lay[a], lay[b])
<1> DEFINE OneMessage(j) == lay[a + j].at = lay[a].at + j /\ SameMessage(lay[a], lay[a + j])
           k == b - a
           T == {j \in 0 .. k : OneMessage(j)}
<1>1. Len(s) \in Nat /\ k \in Nat /\ a \in Nat /\ b \in Nat /\ lay[a].at \in Nat
  BY PlaceFields DEF Laid
<1>2. 0 \in T
  BY <1>1 DEF SameMessage
<1>3. ASSUME NEW j \in 1 .. k, j - 1 \in T
      PROVE  j \in T
  <2> DEFINE m == a + (j - 1)
  <2>1. /\ m \in 1 .. Len(s) /\ lay[m].at = lay[a].at + (j - 1)
        /\ SameMessage(lay[a], lay[m])
    BY <1>1, <1>3
  <2>2. m + 1 \in a + 1 .. b /\ m + 1 = a + j
    BY <1>1
  <2>3. lay[m + 1].at # 1
    BY <2>2
  <2>4. lay[m + 1].at = lay[m].at + 1 /\ SameMessage(lay[m], lay[m + 1])
    BY <2>1, <2>3 DEF Laid, NextMessage
  <2>5. lay[a + j].at = lay[a].at + j
    <3>1. lay[a + j].at = lay[a].at + (j - 1) + 1
      <4> HIDE DEF m
      <4> QED
        BY <2>1, <2>2, <2>4
    <3> QED
      BY <1>1, <3>1
  <2>6. SameMessage(lay[a], lay[a + j])
    BY <2>1, <2>2, <2>4 DEF SameMessage
  <2> QED
    BY <1>1, <2>5, <2>6
<1>4. 0 .. k \subseteq T
  <2> HIDE DEF T, k
  <2> QED
    BY <1>1, <1>2, <1>3, Upwards
<1>5. k \in T
  <2> HIDE DEF T, k
  <2> QED
    BY <1>1, <1>4
<1>6. a + k = b
  BY <1>1
<1> QED
  BY <1>5, <1>6

LoggedNums(log) == {log[i].num : i \in 1 .. Len(log)}

(* The log is right, but for rows of messages that were cut, up to the row next. *)
LogFits(log, cut, next) ==
  /\ \A i \in 1 .. Len(log) :
       /\ log[i].num >= 1 /\ log[i].num < next
       /\ Right(log[i]) \/ log[i].num \in cut
  /\ \A i, j \in 1 .. Len(log) : i < j => log[i].num < log[j].num
  /\ \A num \in 1 .. next - 1 : num \in LoggedNums(log) \cup cut

RowsOf(l)  == l.first .. l.first + l.n - 1
NextRow(l) == IF l.at = 1 THEN l.first ELSE l.first + l.n

(* What the receiver and the files know when the place l comes next. *)
Begins(l, t, g) ==
  /\ t.stamp = l.prev /\ (t.ready <=> l.prev > 0)
  /\ g.open => (l.prev > 0 /\ g.stamp = l.prev)
  /\ LogFits(g.log, t.cut, NextRow(l))
  /\ l.at = 1 \/ (l.at >= 5 /\ t.state = "hdr" /\ RowsOf(l) \subseteq t.cut)
  /\ t.state = "hdr" => t.toread = 3
  /\ t.state = "data" => \/ t.toread = 4 + l.n
                          \/ (t.toread = 4 /\ RowsOf(l) \subseteq t.cut)

LEMMA LogGrows ==
  ASSUME NEW log \in Seq(LoggedRows), NEW cut, NEW first \in Nat, first >= 1,
         LogFits(log, cut, first), NEW stamp \in Nat, NEW rows \in Seq(StreamUnits),
         \A i \in 1 .. Len(rows) : \/ rows[i] = Field("row", first + i - 1, stamp)
                                   \/ first + i - 1 \in cut
  PROVE  LogFits(log \o LogOf(first, stamp, rows), cut, first + Len(rows))
<1> DEFINE more == LogOf(first, stamp, rows)
           n == Len(rows)
           m == Len(log)
           all == log \o more
<1>1. m \in Nat /\ n \in Nat
  OBVIOUS
<1>2. /\ more \in Seq(LoggedRows) /\ Len(more) = n
      /\ \A i \in 1 .. n :
           more[i] = [num |-> first + i - 1, stamp |-> stamp, is |-> rows[i]]
  BY LogOfTyped
<1> HIDE DEF more
<1>3. Len(all) = m + n /\ \A i \in 1 .. m + n : all[i] = IF i <= m THEN log[i] ELSE more[i - m]
  <2>1. log \in Seq(LoggedRows) /\ more \in Seq(LoggedRows)
    BY <1>2
  <2>2. /\ Len(log \o more) = Len(log) + Len(more)
        /\ \A i \in 1 .. Len(log) + Len(more) :
             (log \o more)[i] = IF i <= Len(log) THEN log[i] ELSE more[i - Len(log)]
    BY <2>1, ConcatProperties
  <2> QED
    BY <1>2, <2>2
<1> HIDE DEF all, m
<1>4. ASSUME NEW i \in 1 .. m
      PROVE  /\ i \in 1 .. m + n /\ all[i] = log[i] /\ log[i].num \in Nat
             /\ log[i].num >= 1 /\ log[i].num < first
             /\ Right(log[i]) \/ log[i].num \in cut
  <2>1. log[i] \in LoggedRows
    BY DEF m
  <2>2. log[i].num \in Nat
    BY <2>1 DEF LoggedRows
  <2> QED
    BY <1>1, <1>3, <2>2 DEF LogFits, m
<1>5. ASSUME NEW i \in 1 .. n
      PROVE  /\ m + i \in 1 .. m + n /\ all[m + i] = more[i]
             /\ more[i].num = first + i - 1
             /\ Right(more[i]) \/ more[i].num \in cut
  <2>1. m + i \in 1 .. m + n /\ ~(m + i <= m) /\ (m + i) - m = i
    BY <1>1
  <2>2. all[m + i] = more[i]
    BY <1>3, <2>1
  <2>3. more[i] = [num |-> first + i - 1, stamp |-> stamp, is |-> rows[i]]
    BY <1>2
  <2> QED
    BY <2>1, <2>2, <2>3 DEF Right
<1>6. ASSUME NEW i \in 1 .. m + n
      PROVE  \/ i \in 1 .. m
             \/ i - m \in 1 .. n /\ m + (i - m) = i
  BY <1>1
<1>7. ASSUME NEW i \in 1 .. Len(all)
      PROVE  /\ all[i].num >= 1 /\ all[i].num < first + n
             /\ Right(all[i]) \/ all[i].num \in cut
  <2>1. CASE i \in 1 .. m
    BY <1>1, <1>4, <2>1
  <2>2. CASE i - m \in 1 .. n /\ m + (i - m) = i
    <3>1. all[i] = more[i - m] /\ more[i - m].num = first + (i - m) - 1
          /\ (Right(more[i - m]) \/ more[i - m].num \in cut)
      BY <1>5, <2>2
    <3> QED
      BY <1>1, <2>2, <3>1
  <2> QED
    BY <1>3, <1>6, <2>1, <2>2
<1>8. ASSUME NEW i \in 1 .. Len(all), NEW j \in 1 .. Len(all), i < j
      PROVE  all[i].num < all[j].num
  <2>1. CASE j \in 1 .. m
    <3>1. i \in 1 .. m
      BY <1>1, <1>8, <2>1
    <3>2. log[i].num < log[j].num
      BY <1>8, <2>1, <3>1 DEF LogFits, m
    <3> QED
      BY <1>4, <2>1, <3>1, <3>2
  <2>2. CASE j - m \in 1 .. n /\ m + (j - m) = j
    <3>1. all[j].num = first + (j - m) - 1
      BY <1>5, <2>2
    <3>2. CASE i \in 1 .. m
      <4>1. all[i].num \in Nat /\ all[i].num < first
        BY <1>4, <3>2
      <4>2. j - m \in Nat /\ j - m >= 1
        BY <1>1, <2>2
      <4> QED
        BY <3>1, <4>1, <4>2
    <3>3. CASE i - m \in 1 .. n /\ m + (i - m) = i
      <4>1. all[i].num = first + (i - m) - 1
        BY <1>5, <3>3
      <4> QED
        BY <1>1, <1>8, <2>2, <3>1, <3>3, <4>1
    <3> QED
      BY <1>3, <1>6, <3>2, <3>3
  <2> QED
    BY <1>3, <1>6, <2>1, <2>2
<1>9. ASSUME NEW num \in 1 .. first + n - 1
      PROVE  num \in LoggedNums(all) \cup cut
  <2>1. CASE num <= first - 1
    <3>1. num \in LoggedNums(log) \cup cut
      BY <1>1, <2>1 DEF LogFits
    <3>2. CASE num \in LoggedNums(log)
      <4>1. PICK i \in 1 .. m : num = log[i].num
        BY <3>2 DEF LoggedNums, m
      <4>2. i \in 1 .. Len(all) /\ num = all[i].num
        BY <1>3, <1>4, <4>1
      <4> QED
        BY <4>2 DEF LoggedNums
    <3> QED
      BY <3>1, <3>2
  <2>2. CASE num > first - 1
    <3> DEFINE i == num - first + 1
    <3>1. i \in 1 .. n /\ first + i - 1 = num
      BY <1>1, <2>2
    <3> HIDE DEF i
    <3>2. m + i \in 1 .. Len(all) /\ num = all[m + i].num
      BY <1>3, <1>5, <3>1
    <3> QED
      BY <3>2 DEF LoggedNums
  <2> QED
    BY <2>1, <2>2
<1> QED
  BY <1>7, <1>8, <1>9 DEF LogFits, all, more

LEMMA MoreCut ==
  ASSUME NEW l, NEW t \in RightReceivers, NEW u \in RightReceivers, NEW g, Begins(l, t, g),
         u.stamp = t.stamp, u.ready = t.ready, u.state = t.state, u.toread = t.toread,
         t.cut \subseteq u.cut
  PROVE  Begins(l, u, g)
<1>1. LogFits(g.log, u.cut, NextRow(l))
  BY DEF Begins, LogFits
<1>2. RowsOf(l) \subseteq t.cut => RowsOf(l) \subseteq u.cut
  OBVIOUS
<1> QED
  BY <1>1, <1>2 DEF Begins

(* The log without what comes next: what stays true of it. *)
LogSound(log, cut) ==
  /\ \A i \in 1 .. Len(log) : Right(log[i]) \/ log[i].num \in cut
  /\ \A i, j \in 1 .. Len(log) : i < j => log[i].num < log[j].num
  /\ \A num \in LoggedNums(log) : 1 .. num \subseteq LoggedNums(log) \cup cut

LEMMA FitsSound ==
  ASSUME NEW log \in Seq(LoggedRows), NEW cut, NEW next \in Nat, LogFits(log, cut, next)
  PROVE  LogSound(log, cut)
<1>1. ASSUME NEW num \in LoggedNums(log)
      PROVE  1 .. num \subseteq LoggedNums(log) \cup cut
  <2>1. PICK i \in 1 .. Len(log) : num = log[i].num
    BY DEF LoggedNums
  <2>2. log[i] \in LoggedRows
    BY <2>1
  <2>3. num \in Nat /\ num < next
    BY <2>1, <2>2 DEF LoggedRows, LogFits
  <2>4. 1 .. num \subseteq 1 .. next - 1
    BY <2>3
  <2> QED
    BY <2>4 DEF LogFits
<1> QED
  BY <1>1 DEF LogFits, LogSound

Starts(b, s) == Len(b) <= Len(s) /\ \A i \in 1 .. Len(b) : b[i] = s[i]

(* The message whose header a read has cut is among those that are known to be. *)
CutSeen(lay, n, cut) == n >= 1 /\ lay[n].at = 3 => RowsOf(lay[n]) \subseteq cut

(* A message is handled, and the next is at its place; or its rows are, if it was
   taken for shorter than it is. *)
LEMMA HandleGoesOn ==
  ASSUME NEW x \in Receivings, NEW s \in Seq(StreamUnits), NEW lay, Laid(s, lay),
         Starts(x.rcvr.buf, s), x.rcvr.state = "data",
         Len(x.rcvr.buf) - x.cp >= x.rcvr.toread,
         Begins(lay[x.cp + 1], x.rcvr, x.files)
  PROVE  /\ Handle(x).cp = x.cp + x.rcvr.toread /\ Handle(x).over = x.over
         /\ Handle(x).rcvr.buf = x.rcvr.buf /\ Handle(x).rcvr.cut = x.rcvr.cut
         /\ Handle(x).rcvr.life = x.rcvr.life /\ Handle(x).rcvr.state = "hdr"
         /\ Begins(lay[Handle(x).cp + 1], Handle(x).rcvr, Handle(x).files)
<1> DEFINE t == x.rcvr
           type == t.buf[x.cp + 3].kind
           fields == t.buf[x.cp + 4]
           rows == [i \in 1 .. fields.a |-> UnitAt(t, x.cp + 4 + i)]
           u == [t EXCEPT !.ready = TRUE,
                          !.stamp = IF type = "data" THEN @ ELSE fields.a]
           v == ExpectHdr(u)
           g == CASE type = "tstamp" -> ProcessTstamp(x.files, fields.a)
                  [] type = "data"   -> ProcessData(x.files, t.stamp, fields.b, rows)
                  [] OTHER           -> x.files
           c == x.cp + 1
           l == lay[c]
           z == x.cp + t.toread + 1
<1>1. t \in RightReceivers /\ x.files \in RightFiles /\ x.cp \in Nat /\ x.over \in BOOLEAN
  BY DEF Receivings
<1>2. Handle(x) = [x EXCEPT !.cp = @ + t.toread, !.rcvr = v, !.files = g]
  BY DEF Handle
<1>3. /\ t \in ReceiverTypes /\ t.buf \in Seq(StreamUnits) /\ Len(t.buf) \in Nat
      /\ t.toread \in Nat /\ t.toread >= 4 /\ t.stamp \in Nat
  BY <1>1, ReceiverFields
<1>4. /\ c \in 1 .. Len(s) /\ c + 2 \in 1 .. Len(t.buf) /\ c + 3 \in 1 .. Len(t.buf)
      /\ x.cp + 3 = c + 2 /\ x.cp + 4 = c + 3 /\ z = c + t.toread /\ Len(s) \in Nat
      /\ c \in Nat /\ x.cp + t.toread <= Len(t.buf)
  <2>1. Len(t.buf) - x.cp >= t.toread /\ Len(t.buf) <= Len(s) /\ Len(s) \in Nat
    BY DEF Starts
  <2> HIDE DEF t
  <2>2. x.cp \in Nat /\ Len(t.buf) \in Nat /\ t.toread \in Nat /\ t.toread >= 4
    BY <1>1, <1>3
  <2>3. c \in Nat /\ x.cp + t.toread <= Len(t.buf) /\ x.cp + 3 = c + 2 /\ x.cp + 4 = c + 3
    BY <2>1, <2>2
  <2>4. c \in 1 .. Len(s)
    BY <2>1, <2>2
  <2>5. c + 2 \in 1 .. Len(t.buf) /\ c + 3 \in 1 .. Len(t.buf)
    BY <2>1, <2>2
  <2>6. z = c + t.toread
    BY <2>2
  <2> QED
    BY <2>1, <2>3, <2>4, <2>5, <2>6
<1> HIDE DEF c, z
<1>5. /\ l \in Places /\ l.at = 1 /\ l.n \in Nat /\ l.first \in Nat /\ l.first >= 1
      /\ l.prev \in Nat
  <2>1. l \in Places
    BY <1>4 DEF Laid
  <2>2. Begins(l, t, x.files)
    BY DEF c
  <2> QED
    BY <2>1, <2>2, PlaceFields DEF Begins
<1>6. /\ c + 2 \in 1 .. Len(s) /\ lay[c + 2].at = 3 /\ SameMessage(l, lay[c + 2])
      /\ c + 3 \in 1 .. Len(s) /\ lay[c + 3].at = 4 /\ SameMessage(l, lay[c + 3])
  <2>1. l.at + 2 <= 4 + l.n /\ l.at + 3 <= 4 + l.n
    BY <1>5
  <2>2. /\ c + 2 \in 1 .. Len(s) /\ lay[c + 2].at = l.at + 2 /\ SameMessage(l, lay[c + 2])
    BY <1>4, <2>1, InMessage
  <2>3. /\ c + 3 \in 1 .. Len(s) /\ lay[c + 3].at = l.at + 3 /\ SameMessage(l, lay[c + 3])
    BY <1>4, <2>1, InMessage
  <2> QED
    BY <1>5, <2>2, <2>3
<1>7. type = MessageType(l)
  <2>1. t.buf[x.cp + 3] = UnitOf(lay[c + 2]) /\ lay[c + 2] \in Places
    BY <1>4, <1>6 DEF Laid, Starts
  <2>2. MessageType(lay[c + 2]) = MessageType(l)
    BY <1>6 DEF SameMessage, MessageType
  <2> QED
    BY <1>6, <2>1, <2>2, KnownUnit DEF Field
<1>8. /\ l.n = 0 => fields.a = l.prev + 1
      /\ l.n > 0 => fields.a = l.n /\ fields.b = l.first
  <2>1. t.buf[x.cp + 4] = UnitOf(lay[c + 3]) /\ lay[c + 3] \in Places
    BY <1>4, <1>6 DEF Laid, Starts
  <2>2. /\ l.n = 0 => fields = Field("stamp", l.prev + 1, 0)
        /\ l.n > 0 => fields = Field("n_rows", l.n, l.first)
    BY <1>6, <2>1, KnownUnit DEF SameMessage
  <2> QED
    BY <2>2 DEF Field
<1>9. l.n > 0 => l.prev > 0
  BY <1>4 DEF Laid
<1>10. /\ t.stamp = l.prev /\ (t.ready <=> l.prev > 0)
       /\ x.files.open => l.prev > 0 /\ x.files.stamp = l.prev
       /\ LogFits(x.files.log, t.cut, l.first)
       /\ t.toread = 4 + l.n \/ (t.toread = 4 /\ RowsOf(l) \subseteq t.cut)
  <2>1. Begins(l, t, x.files)
    BY DEF c
  <2> QED
    BY <1>5, <2>1 DEF Begins, NextRow
<1>11. /\ lay[z].prev = StampBehind(l) /\ NextRow(lay[z]) = l.first + l.n
       /\ lay[z].at = 1 \/ (lay[z].at >= 5 /\ RowsOf(lay[z]) \subseteq t.cut)
  <2>1. CASE t.toread = 4 + l.n
    <3> DEFINE e == c + (3 + l.n)
    <3>1. 3 + l.n \in Nat /\ l.at + (3 + l.n) <= 4 + l.n
      BY <1>5
    <3>2. e \in 1 .. Len(s) /\ lay[e].at = l.at + (3 + l.n) /\ SameMessage(l, lay[e])
      BY <1>4, <3>1, InMessage
    <3>3. lay[e].at = 4 + l.n /\ e + 1 = z
      BY <1>4, <1>5, <2>1, <3>2
    <3> HIDE DEF e
    <3>4. NextMessage(lay[e], lay[e + 1])
      BY <1>5, <3>2, <3>3 DEF Laid, SameMessage
    <3>5. lay[z].at = 1 /\ lay[z].first = l.first + l.n /\ lay[z].prev = StampBehind(l)
      BY <3>2, <3>3, <3>4 DEF NextMessage, SameMessage, StampBehind
    <3>6. NextRow(lay[z]) = lay[z].first
      BY <3>5 DEF NextRow
    <3> QED
      BY <3>5, <3>6, Zenon
  <2>2. CASE t.toread = 4 /\ RowsOf(l) \subseteq t.cut /\ l.n > 0
    <3>1. l.at + 4 <= 4 + l.n
      BY <1>5, <2>2
    <3>2. c + 4 \in 1 .. Len(s) /\ lay[c + 4].at = l.at + 4 /\ SameMessage(l, lay[c + 4])
      BY <1>4, <3>1, InMessage
    <3>3. lay[z].at = 5 /\ SameMessage(l, lay[z])
      BY <1>4, <1>5, <2>2, <3>2
    <3> QED
      BY <1>5, <2>2, <3>3 DEF SameMessage, NextRow, StampBehind, RowsOf
  <2>3. l.n = 0 \/ l.n > 0
    BY <1>5
  <2> QED
    BY <1>5, <1>10, <2>1, <2>2, <2>3
<1>12. l.n > 0 => /\ rows \in Seq(StreamUnits) /\ Len(rows) = l.n
                  /\ \A i \in 1 .. l.n : \/ rows[i] = Field("row", l.first + i - 1, l.prev)
                                         \/ l.first + i - 1 \in t.cut
  <2> SUFFICES ASSUME l.n > 0
               PROVE  /\ rows \in Seq(StreamUnits) /\ Len(rows) = l.n
                      /\ \A i \in 1 .. l.n :
                           \/ rows[i] = Field("row", l.first + i - 1, l.prev)
                           \/ l.first + i - 1 \in t.cut
    OBVIOUS
  <2>1. fields.a = l.n /\ l.n \in Nat
    BY <1>5, <1>8
  <2>2. ASSUME NEW i \in 1 .. l.n
        PROVE  UnitAt(t, x.cp + 4 + i) \in StreamUnits
    <3>1. x.cp + 4 + i \in Nat /\ x.cp + 4 + i >= 1
      BY <1>1, <2>1
    <3>2. Junk \in StreamUnits
      BY DEF Junk, Field, StreamUnits, UnitKinds
    <3>3. x.cp + 4 + i <= Len(t.buf) => t.buf[x.cp + 4 + i] \in StreamUnits
      BY <1>3, <3>1
    <3> QED
      BY <3>2, <3>3 DEF UnitAt
  <2>3. ASSUME NEW i \in 1 .. l.n
        PROVE  \/ UnitAt(t, x.cp + 4 + i) = Field("row", l.first + i - 1, l.prev)
               \/ l.first + i - 1 \in t.cut
    <3>1. CASE t.toread = 4 + l.n
      <4> DEFINE k == 3 + i
      <4>1. k \in Nat /\ l.at + k <= 4 + l.n /\ c + k = x.cp + 4 + i
        <5>1. x.cp \in Nat /\ l.n \in Nat /\ l.at = 1 /\ i \in 1 .. l.n /\ c \in Nat
              /\ c + 3 = x.cp + 4
          BY <1>1, <1>4, <1>5
        <5>2. c + k = x.cp + 4 + i
          <6> DEFINE m == l.n
                     o == x.cp
          <6>1. o \in Nat /\ c \in Nat /\ i \in 1 .. m /\ m \in Nat /\ c + 3 = o + 4
            BY <5>1
          <6> HIDE DEF m, o
          <6> QED
            BY <6>1 DEF o
        <5> HIDE DEF l
        <5> QED
          BY <5>1, <5>2
      <4>2. c + k \in 1 .. Len(s) /\ lay[c + k].at = l.at + k /\ SameMessage(l, lay[c + k])
        BY <1>4, <4>1, InMessage
      <4>3. lay[c + k].at = 4 + i /\ lay[c + k] \in Places
        BY <1>5, <4>2 DEF Laid
      <4>4. c + k \in 1 .. Len(t.buf)
        <5>1. x.cp \in Nat /\ l.n \in Nat /\ i \in 1 .. l.n /\ c + k = x.cp + 4 + i
              /\ Len(t.buf) \in Nat /\ x.cp + (4 + l.n) <= Len(t.buf)
          BY <1>1, <1>3, <1>4, <1>5, <3>1, <4>1
        <5> HIDE DEF t, l, k
        <5> QED
          BY <5>1
      <4> HIDE DEF k
      <4>5. t.buf[c + k] = UnitOf(lay[c + k])
        BY <4>2, <4>4 DEF Starts, Laid
      <4>6. UnitOf(lay[c + k]) = Field("row", l.first + (4 + i) - 5, l.prev)
        BY <4>2, <4>3, KnownUnit DEF SameMessage
      <4>7. l.first + (4 + i) - 5 = l.first + i - 1
        BY <1>5
      <4> QED
        BY <4>1, <4>4, <4>5, <4>6, <4>7 DEF UnitAt
    <3>2. CASE RowsOf(l) \subseteq t.cut
      <4>1. l.first + i - 1 \in RowsOf(l)
        BY <1>5 DEF RowsOf
      <4> QED
        BY <3>2, <4>1
    <3> QED
      BY <1>10, <3>1, <3>2
  <2> HIDE DEF t, l
  <2>4. /\ rows \in Seq(StreamUnits) /\ Len(rows) = l.n
        /\ \A i \in 1 .. l.n : rows[i] = UnitAt(t, x.cp + 4 + i)
    BY <2>1, <2>2
  <2> HIDE DEF rows
  <2> QED
    BY <2>3, <2>4
<1> HIDE DEF rows, type, fields, l
<1>13. LogFits(g.log, t.cut, l.first + l.n)
       /\ (g.open => StampBehind(l) > 0 /\ g.stamp = StampBehind(l))
  <2>1. CASE l.n > 0
    <3>1. type = "data"
      BY <1>7, <2>1 DEF MessageType
    <3>2. g = ProcessData(x.files, l.prev, l.first, rows)
      BY <1>8, <1>10, <2>1, <3>1
    <3>3. /\ g.stamp = l.prev
          /\ g.log = x.files.log \o LogOf(l.first, l.prev, rows)
      <4>1. rows \in Seq(StreamUnits) /\ (x.files.open => x.files.stamp = l.prev)
        BY <1>10, <1>12, <2>1
      <4>2. Adds(ProcessData(x.files, l.prev, l.first, rows), x.files, l.first, l.prev, rows)
        BY <1>1, <1>5, <4>1, DataLogs
      <4> HIDE DEF g
      <4> QED
        BY <3>2, <4>2 DEF Adds
    <3>4. x.files.log \in Seq(LoggedRows)
      BY <1>1, FileFields
    <3>5. LogFits(g.log, t.cut, l.first + l.n)
      BY <1>5, <1>10, <1>12, <2>1, <3>3, <3>4, LogGrows
    <3>6. StampBehind(l) = l.prev
      BY <1>5, <2>1 DEF StampBehind
    <3> HIDE DEF g
    <3> QED
      BY <1>9, <2>1, <3>3, <3>5, <3>6
  <2>2. CASE l.n = 0 /\ l.prev = 0
    <3>1. type = "init"
      BY <1>7, <2>2 DEF MessageType
    <3>2. g = x.files
      BY <3>1
    <3> HIDE DEF g
    <3> QED
      BY <1>5, <1>10, <2>2, <3>2
  <2>3. CASE l.n = 0 /\ l.prev > 0
    <3>1. type = "tstamp"
      BY <1>5, <1>7, <2>3 DEF MessageType
    <3>2. g = ProcessTstamp(x.files, l.prev + 1)
      BY <1>8, <2>3, <3>1
    <3>3. g.log = x.files.log /\ g.stamp = l.prev + 1
      BY <1>1, <1>5, <3>2, TstampLogs
    <3> HIDE DEF g
    <3> QED
      BY <1>5, <1>10, <2>3, <3>3 DEF StampBehind
  <2> QED
    BY <1>5, <2>1, <2>2, <2>3
<1>14. /\ v.buf = t.buf /\ v.cut = t.cut /\ v.life = t.life /\ v.state = "hdr"
       /\ v.toread = 3 /\ v.ready = TRUE
       /\ v.stamp = IF type = "data" THEN t.stamp ELSE fields.a
  BY <1>3 DEF ExpectHdr, ReceiverTypes
<1>15. v.stamp = StampBehind(l) /\ StampBehind(l) > 0
  <2>1. CASE l.n > 0
    BY <1>7, <1>9, <1>10, <1>14, <2>1 DEF MessageType, StampBehind
  <2>2. CASE l.n = 0
    BY <1>5, <1>7, <1>8, <1>14, <2>2 DEF MessageType, StampBehind
  <2> QED
    BY <1>5, <2>1, <2>2
<1> HIDE DEF v, g, t
<1>16. Begins(lay[z], v, g)
  BY <1>11, <1>13, <1>14, <1>15 DEF Begins
<1>17. /\ Handle(x).cp = x.cp + t.toread /\ Handle(x).rcvr = v /\ Handle(x).files = g
       /\ Handle(x).over = x.over
  BY <1>2 DEF Receivings
<1> QED
  BY <1>14, <1>16, <1>17 DEF z, t

(* What the type says of the length is right, but for the message of which a read
   has brought no more. *)
LEMMA ExpectGoesOn ==
  ASSUME NEW t \in RightReceivers, NEW cp \in Nat, NEW stale \in Stale, NEW g,
         NEW s \in Seq(StreamUnits), NEW lay, Laid(s, lay), Starts(t.buf, s),
         t.state = "hdr", Len(t.buf) - cp >= 3, lay[cp + 1].at = 1,
         CutSeen(lay, Len(t.buf), t.cut), Begins(lay[cp + 1], t, g)
  PROVE  /\ Expect(t, cp, stale).buf = t.buf /\ Expect(t, cp, stale).cut = t.cut
         /\ Expect(t, cp, stale).life = "running" =>
              /\ Expect(t, cp, stale).state = "data"
              /\ Begins(lay[cp + 1], Expect(t, cp, stale), g)
<1> DEFINE type == t.buf[cp + 3].kind
           n == IF type # "data" THEN 0
                ELSE IF cp + 4 <= Len(t.buf) THEN t.buf[cp + 4].a ELSE stale
           known == IF type = "init" THEN ~t.ready ELSE t.ready
           longer == [t EXCEPT !.state = "data", !.toread = 4 + n]
           ended == [t EXCEPT !.life = "ended"]
           c == cp + 1
           l == lay[c]
<1>1. Expect(t, cp, stale) = IF known /\ 4 + n <= BufCap THEN longer ELSE ended
  BY DEF Expect
<1>2. /\ t \in ReceiverTypes /\ t.buf \in Seq(StreamUnits) /\ Len(t.buf) \in Nat
      /\ Len(t.buf) <= Len(s) /\ Len(s) \in Nat
  BY ReceiverFields DEF Starts
<1>3. /\ c \in 1 .. Len(s) /\ c + 2 \in 1 .. Len(t.buf) /\ cp + 3 = c + 2 /\ cp + 4 = c + 3
      /\ c + 2 \in 1 .. Len(s)
  BY <1>2
<1>4. /\ l \in Places /\ l.at = 1 /\ l.n \in Nat /\ l.first \in Nat /\ l.prev \in Nat
      /\ Begins(l, t, g)
  BY <1>3, PlaceFields DEF Laid
<1> HIDE DEF c
<1>5. lay[c + 2].at = 3 /\ SameMessage(l, lay[c + 2])
      /\ c + 3 \in 1 .. Len(s) /\ lay[c + 3].at = 4 /\ SameMessage(l, lay[c + 3])
  <2>1. l.at + 2 <= 4 + l.n /\ l.at + 3 <= 4 + l.n
    BY <1>4
  <2>2. lay[c + 2].at = l.at + 2 /\ SameMessage(l, lay[c + 2])
    BY <1>3, <2>1, InMessage
  <2>3. /\ c + 3 \in 1 .. Len(s) /\ lay[c + 3].at = l.at + 3 /\ SameMessage(l, lay[c + 3])
    BY <1>3, <2>1, InMessage
  <2> QED
    BY <1>4, <2>2, <2>3
<1>6. type = "data" <=> l.n > 0
  <2>1. t.buf[cp + 3] = UnitOf(lay[c + 2]) /\ lay[c + 2] \in Places
    BY <1>3 DEF Laid, Starts
  <2>2. lay[c + 2].n = l.n
    BY <1>5 DEF SameMessage
  <2> QED
    BY <1>5, <2>1, <2>2, KindTells
<1>7. ASSUME 4 + n <= BufCap
      PROVE  n = l.n \/ (n = 0 /\ RowsOf(l) \subseteq t.cut)
  <2>1. CASE l.n = 0
    BY <1>6, <2>1
  <2>2. CASE l.n > 0 /\ cp + 4 <= Len(t.buf)
    <3>1. c + 3 \in 1 .. Len(t.buf)
      BY <1>2, <1>3, <1>5, <2>2
    <3>2. t.buf[cp + 4] = UnitOf(lay[c + 3]) /\ lay[c + 3] \in Places
      BY <1>3, <1>5, <3>1 DEF Laid, Starts
    <3>3. t.buf[cp + 4] = Field("n_rows", l.n, l.first)
      BY <1>5, <2>2, <3>2, KnownUnit DEF SameMessage
    <3>4. n = t.buf[cp + 4].a
      BY <1>6, <2>2
    <3> QED
      BY <3>3, <3>4 DEF Field
  <2>3. CASE l.n > 0 /\ ~(cp + 4 <= Len(t.buf))
    <3>1. n = stale
      BY <1>6, <2>3
    <3>2. n = 0
      BY <1>7, <3>1, LoggerSizes DEF Stale
    <3>3. Len(t.buf) = c + 2 /\ Len(t.buf) >= 1
      BY <1>2, <1>3, <2>3
    <3>4. RowsOf(lay[c + 2]) \subseteq t.cut
      BY <1>5, <3>3 DEF CutSeen
    <3>5. RowsOf(lay[c + 2]) = RowsOf(l)
      BY <1>5 DEF RowsOf, SameMessage
    <3> QED
      BY <3>2, <3>4, <3>5
  <2> QED
    BY <1>4, <2>1, <2>2, <2>3
<1> HIDE DEF n, l, type
<1>8. ASSUME 4 + n <= BufCap
      PROVE  Begins(l, longer, g)
  <2>1. /\ longer.buf = t.buf /\ longer.cut = t.cut /\ longer.state = "data"
        /\ longer.toread = 4 + n /\ longer.stamp = t.stamp /\ longer.ready = t.ready
    BY <1>2 DEF ReceiverTypes
  <2> HIDE DEF longer
  <2>2. longer.toread = 4 + l.n \/ (longer.toread = 4 /\ RowsOf(l) \subseteq longer.cut)
    BY <1>4, <1>7, <1>8, <2>1
  <2> QED
    BY <1>4, <2>1, <2>2 DEF Begins
<1>9. /\ longer.buf = t.buf /\ longer.cut = t.cut /\ longer.state = "data"
      /\ ended.buf = t.buf /\ ended.cut = t.cut /\ ended.life = "ended"
  BY <1>2 DEF ReceiverTypes
<1> HIDE DEF longer, ended, known
<1>10. CASE known /\ 4 + n <= BufCap
  <2>1. Expect(t, cp, stale) = longer
    BY <1>1, <1>10
  <2> QED
    BY <1>8, <1>9, <1>10, <2>1 DEF c, l
<1>11. CASE ~(known /\ 4 + n <= BufCap)
  <2>1. Expect(t, cp, stale) = ended
    BY <1>1, <1>11
  <2> QED
    BY <1>9, <2>1
<1> QED
  BY <1>10, <1>11

(* Behind the rows of a message that was cut the next header is found, or
   everything is discarded that was of it, or the receiver is lost. *)
LEMMA SeekGoesOn ==
  ASSUME NEW t \in RightReceivers, NEW cp \in Nat, NEW g,
         NEW s \in Seq(StreamUnits), NEW lay, Laid(s, lay), Starts(t.buf, s),
         cp < Len(t.buf), t.life = "running", lay[cp + 1].at >= 5,
         Begins(lay[cp + 1], t, g)
  PROVE  /\ SeekTmid(t, cp).cut = t.cut /\ SeekTmid(t, cp).state = "hdr"
         /\ cp = 0 => SeekTmid(t, cp).life = "running"
         /\ SeekTmid(t, cp).life = "running" =>
              \E j \in cp + 2 .. Len(t.buf) + 1 :
                /\ SeekTmid(t, cp).buf = SubSeq(t.buf, j, Len(t.buf))
                /\ Begins(lay[j], SeekTmid(t, cp), g)
<1> DEFINE n == Len(t.buf)
           c == cp + 1
           l == lay[c]
           found == {i \in cp + 2 .. n :
                       /\ t.buf[i].kind = "T"
                       /\ i = n - cp \/ UnitAt(t, i + 1).kind = "M"}
           after == [t EXCEPT !.buf = SubSeq(@, Min(found), Len(@))]
           none == [t EXCEPT !.buf = <<>>, !.life = IF cp > 0 THEN "lost" ELSE @]
           u == SeekTmid(t, cp)
<1>1. u = IF found # {} THEN ExpectHdr(after) ELSE ExpectHdr(none)
  BY DEF SeekTmid
<1>2. /\ t \in ReceiverTypes /\ t.buf \in Seq(StreamUnits) /\ n \in Nat
      /\ n <= Len(s) /\ Len(s) \in Nat
  BY ReceiverFields DEF Starts
<1>3. c \in 1 .. n /\ c \in 1 .. Len(s) /\ c + 1 = cp + 2 /\ c \in Nat
  BY <1>2
<1>4. /\ l \in Places /\ l.at >= 5 /\ l.at \in Nat /\ l.n \in Nat /\ l.n > 0
      /\ l.first \in Nat /\ l.first >= 1 /\ Begins(l, t, g)
  BY <1>3, PlaceFields DEF Laid
<1> HIDE DEF c, n, found, after, none, u
<1>5. /\ t.stamp = l.prev /\ (t.ready <=> l.prev > 0)
      /\ g.open => (l.prev > 0 /\ g.stamp = l.prev)
      /\ LogFits(g.log, t.cut, l.first + l.n) /\ RowsOf(l) \subseteq t.cut
  BY <1>4 DEF Begins, NextRow
<1>6. ASSUME NEW i \in 1 .. n
      PROVE  /\ t.buf[i].kind = "T" <=> lay[i].at = 1
             /\ lay[i].at = 1 /\ i < n => UnitAt(t, i + 1).kind = "M"
  <2>1. i \in 1 .. Len(s) /\ t.buf[i] = UnitOf(lay[i]) /\ lay[i] \in Places
    BY <1>2 DEF Laid, Starts, n
  <2>2. ASSUME lay[i].at = 1, i < n
        PROVE  UnitAt(t, i + 1).kind = "M"
    <3>1. i + 1 \in 1 .. n /\ i + 1 \in 1 .. Len(s)
      BY <1>2, <2>2
    <3>2. t.buf[i + 1] = UnitOf(lay[i + 1]) /\ lay[i + 1] \in Places
      BY <3>1 DEF Laid, Starts, n
    <3>3. lay[i].at < 4 + lay[i].n
      BY <2>1, <2>2, PlaceFields
    <3>4. lay[i + 1].at = 2
      BY <2>1, <2>2, <3>3 DEF Laid
    <3>5. UnitAt(t, i + 1) = t.buf[i + 1]
      BY <1>2, <3>1 DEF UnitAt, n
    <3> QED
      BY <3>2, <3>4, <3>5, KindTells
  <2> QED
    BY <2>1, <2>2, KindTells
<1>7. ASSUME NEW i \in cp + 2 .. n, lay[i].at = 1, i < n \/ cp = 0
      PROVE  i \in found
  <2>1. i \in 1 .. n
    BY <1>2
  <2>2. t.buf[i].kind = "T" /\ (i < n => UnitAt(t, i + 1).kind = "M")
    BY <1>6, <1>7, <2>1
  <2>3. i = n - cp \/ i < n
    BY <1>2, <1>7
  <2> QED
    BY <2>2, <2>3 DEF found
<1>8. ASSUME NEW j \in cp + 2 .. n + 1, \A i \in cp + 2 .. j - 1 : lay[i].at # 1,
             NEW r, r.stamp = t.stamp, r.ready = t.ready, r.cut = t.cut,
             r.state = "hdr", r.toread = 3
      PROVE  Begins(lay[j], r, g)
  <2>1. j \in Nat /\ j \in 1 .. Len(s) + 1 /\ j - 1 \in 1 .. Len(s) /\ j - 1 \in c .. Len(s) + 1
        /\ j \in c .. Len(s) + 1 /\ (j - 1) + 1 = j
    BY <1>2, <1>3
  <2>2. CASE lay[j].at = 1
    <3>1. \A i \in c + 1 .. j - 1 : lay[i].at # 1
      BY <1>3, <1>8
    <3>2. SameMessage(l, lay[j - 1])
      BY <1>3, <2>1, <3>1, NoneBegins
    <3>3. lay[j - 1] \in Places /\ lay[j - 1].at \in Nat /\ lay[j - 1].at >= 1
      BY <2>1, PlaceFields DEF Laid
    <3>4. NextMessage(lay[j - 1], lay[(j - 1) + 1])
      BY <2>1, <2>2, <3>3 DEF Laid
    <3>5. lay[j].first = l.first + l.n /\ lay[j].prev = l.prev
      BY <1>4, <2>1, <3>2, <3>4 DEF NextMessage, SameMessage, StampBehind
    <3>6. NextRow(lay[j]) = l.first + l.n
      BY <2>2, <3>5 DEF NextRow
    <3> QED
      BY <1>5, <1>8, <2>2, <3>5, <3>6 DEF Begins
  <2>3. CASE lay[j].at # 1
    <3>1. \A i \in c + 1 .. j : lay[i].at # 1
      BY <1>3, <1>8, <2>1, <2>3
    <3>2. lay[j].at = l.at + (j - c) /\ SameMessage(l, lay[j])
      BY <1>3, <2>1, <3>1, NoneBegins
    <3>3. lay[j].at >= 5
      BY <1>3, <1>4, <2>1, <3>2
    <3>4. NextRow(lay[j]) = l.first + l.n /\ RowsOf(lay[j]) = RowsOf(l)
          /\ lay[j].prev = l.prev
      BY <2>3, <3>2 DEF NextRow, RowsOf, SameMessage
    <3> QED
      BY <1>5, <1>8, <3>3, <3>4 DEF Begins
  <2> QED
    BY <2>2, <2>3
<1>9. ASSUME NEW r \in ReceiverTypes
      PROVE  /\ ExpectHdr(r).buf = r.buf /\ ExpectHdr(r).life = r.life
             /\ ExpectHdr(r).cut = r.cut /\ ExpectHdr(r).stamp = r.stamp
             /\ ExpectHdr(r).ready = r.ready
             /\ ExpectHdr(r).state = "hdr" /\ ExpectHdr(r).toread = 3
  BY DEF ExpectHdr, ReceiverTypes
<1>10. CASE found # {}
  <2> DEFINE m == Min(found)
  <2>1. found \subseteq Nat
    BY <1>2 DEF found
  <2>2. m \in found /\ \A i \in found : m <= i
    <3>1. \E i \in found : \A j \in found : i <= j
      BY <1>10, <2>1, LeastNatural
    <3> QED
      BY <2>1, <3>1 DEF Min
  <2> HIDE DEF m
  <2>3. m \in cp + 2 .. n /\ m \in Nat
    BY <2>1, <2>2 DEF found
  <2>4. SubSeq(t.buf, m, n) \in Seq(StreamUnits)
    BY <1>2, <2>3 DEF n
  <2>5. /\ after \in ReceiverTypes /\ after.buf = SubSeq(t.buf, m, n) /\ after.life = t.life
        /\ after.cut = t.cut /\ after.stamp = t.stamp /\ after.ready = t.ready
    BY <1>2, <2>4 DEF ReceiverTypes, after, m, n
  <2>6. u = ExpectHdr(after)
    BY <1>1, <1>10
  <2>7. /\ u.buf = SubSeq(t.buf, m, n) /\ u.life = "running" /\ u.cut = t.cut
        /\ u.stamp = t.stamp /\ u.ready = t.ready /\ u.state = "hdr" /\ u.toread = 3
    BY <1>9, <2>5, <2>6
  <2>8. \A i \in cp + 2 .. m - 1 : lay[i].at # 1
    <3> SUFFICES ASSUME NEW i \in cp + 2 .. m - 1, lay[i].at = 1
                 PROVE  FALSE
      OBVIOUS
    <3>1. i \in cp + 2 .. n /\ i < n /\ i < m /\ i \in Nat
      BY <1>2, <2>3
    <3>2. i \in found
      BY <1>7, <3>1
    <3> QED
      BY <2>2, <2>3, <3>1, <3>2
  <2>9. m \in cp + 2 .. n + 1
    BY <1>2, <2>3
  <2>10. Begins(lay[m], u, g)
    BY <1>8, <2>7, <2>8, <2>9
  <2> QED
    BY <2>7, <2>9, <2>10 DEF u, n
<1>11. CASE found = {}
  <2>1. <<>> \in Seq(StreamUnits) /\ (IF cp > 0 THEN "lost" ELSE t.life) \in {"running", "lost"}
    OBVIOUS
  <2>2. /\ none \in ReceiverTypes /\ none.buf = <<>>
        /\ none.life = (IF cp > 0 THEN "lost" ELSE t.life)
        /\ none.cut = t.cut /\ none.stamp = t.stamp /\ none.ready = t.ready
    BY <1>2, <2>1 DEF ReceiverTypes, none
  <2>3. u = ExpectHdr(none)
    BY <1>1, <1>11
  <2>4. /\ u.buf = <<>> /\ u.life = (IF cp > 0 THEN "lost" ELSE "running")
        /\ u.cut = t.cut /\ u.stamp = t.stamp /\ u.ready = t.ready /\ u.state = "hdr"
        /\ u.toread = 3
    BY <1>9, <2>2, <2>3
  <2>5. SubSeq(t.buf, n + 1, n) = <<>>
    BY <1>2 DEF n
  <2>6. ASSUME u.life = "running"
        PROVE  Begins(lay[n + 1], u, g)
    <3>1. cp = 0
      BY <2>4, <2>6
    <3>2. n + 1 \in cp + 2 .. n + 1
      BY <1>2, <1>3, <3>1
    <3>3. \A i \in cp + 2 .. (n + 1) - 1 : lay[i].at # 1
      BY <1>2, <1>7, <1>11, <3>1
    <3> QED
      BY <1>8, <2>4, <3>2, <3>3
  <2>7. n + 1 \in cp + 2 .. n + 1
    BY <1>2, <1>3
  <2> QED
    BY <2>4, <2>5, <2>6, <2>7 DEF u, n
<1> QED
  BY <1>10, <1>11

LEMMA BeginsSound ==
  ASSUME NEW l \in Places, NEW t, NEW g \in RightFiles, Begins(l, t, g)
  PROVE  LogSound(g.log, t.cut)
<1>1. NextRow(l) \in Nat
  BY PlaceFields DEF NextRow
<1>2. g.log \in Seq(LoggedRows) /\ LogFits(g.log, t.cut, NextRow(l))
  BY FileFields DEF Begins
<1> QED
  BY <1>1, <1>2, FitsSound

(* Where process_message is in the buffer b after k turns of its loop: a turn in
   DATA state consumes at least four units, and a turn in HDR state brings DATA. *)
Reached(x, b, lay, cut, k) ==
  /\ x.rcvr.cut = cut /\ LogSound(x.files.log, cut)
  /\ x.rcvr.life = "running" =>
       IF x.over
         THEN /\ x.cp = 0 /\ cut # {} /\ x.rcvr.state = "hdr"
              /\ \E j \in 1 .. Len(b) + 1 : /\ x.rcvr.buf = SubSeq(b, j, Len(b))
                                            /\ Begins(lay[j], x.rcvr, x.files)
         ELSE /\ x.rcvr.buf = b /\ Begins(lay[x.cp + 1], x.rcvr, x.files)
              /\ x.rcvr.state = "data" => x.cp + 3 <= Len(b)
              /\ \/ Len(b) - x.cp < x.rcvr.toread
                 \/ 2 * k <= x.cp + (IF x.rcvr.state = "data" THEN 2 ELSE 0)

LEMMA HandleReaches ==
  ASSUME NEW x \in Receivings, NEW b \in Seq(StreamUnits), NEW cut,
         NEW s \in Seq(StreamUnits), NEW lay, Laid(s, lay), Starts(b, s),
         NEW k \in Nat, Reached(x, b, lay, cut, k),
         ~x.over, x.rcvr.life = "running", Len(b) - x.cp >= x.rcvr.toread,
         x.rcvr.state = "data"
  PROVE  Reached(Handle(x), b, lay, cut, k + 1)
<1> DEFINE y == Handle(x)
           t == x.rcvr
<1>1. /\ t.buf = b /\ Begins(lay[x.cp + 1], t, x.files) /\ t.cut = cut
      /\ 2 * k <= x.cp + 2
  <2>1. x.cp \in Nat /\ t.toread \in Nat /\ Len(b) \in Nat
    BY ReceiverFields DEF Receivings
  <2> QED
    BY <2>1 DEF Reached
<1>2. /\ y.cp = x.cp + t.toread /\ y.over = x.over
      /\ y.rcvr.buf = b /\ y.rcvr.cut = cut
      /\ y.rcvr.life = "running" /\ y.rcvr.state = "hdr"
      /\ Begins(lay[y.cp + 1], y.rcvr, y.files)
  BY <1>1, HandleGoesOn
<1>3. y \in Receivings
  BY <1>1, HandleRight
<1>4. t.toread \in Nat /\ t.toread >= 4 /\ x.cp \in Nat
  BY ReceiverFields DEF Receivings
<1>5. y.cp + 1 \in 1 .. Len(s) + 1
  <2>1. y.cp \in Nat /\ y.cp <= Len(b) /\ Len(b) \in Nat /\ Len(s) \in Nat /\ Len(b) <= Len(s)
    BY <1>2, <1>3, <1>4 DEF Receivings, Starts
  <2> HIDE DEF y
  <2> QED
    BY <2>1
<1>6. lay[y.cp + 1] \in Places /\ y.files \in RightFiles
  BY <1>3, <1>5 DEF Laid, Receivings
<1> HIDE DEF y, t
<1>7. LogSound(y.files.log, cut)
  BY <1>2, <1>6, BeginsSound
<1>8. y.cp \in Nat /\ 2 * (k + 1) <= y.cp + 0
  BY <1>1, <1>2, <1>4
<1>9. Reached(y, b, lay, cut, k + 1)
  BY <1>2, <1>7, <1>8 DEF Reached
<1> QED
  BY <1>9 DEF y

LEMMA ExpectReaches ==
  ASSUME NEW x \in Receivings, NEW b \in Seq(StreamUnits), NEW cut, NEW stale \in Stale,
         NEW s \in Seq(StreamUnits), NEW lay, Laid(s, lay), Starts(b, s),
         CutSeen(lay, Len(b), cut), NEW k \in Nat, Reached(x, b, lay, cut, k),
         ~x.over, x.rcvr.life = "running", Len(b) - x.cp >= x.rcvr.toread,
         x.rcvr.state = "hdr", lay[x.cp + 1].at = 1
  PROVE  Reached([x EXCEPT !.rcvr = Expect(x.rcvr, x.cp, stale)], b, lay, cut, k + 1)
<1> DEFINE t == x.rcvr
           u == Expect(t, x.cp, stale)
           y == [x EXCEPT !.rcvr = u]
<1>1. /\ t \in RightReceivers /\ x.cp \in Nat /\ Len(b) \in Nat /\ t.toread \in Nat
      /\ t.toread >= 3
  BY ReceiverFields DEF Receivings
<1>2. /\ t.buf = b /\ Begins(lay[x.cp + 1], t, x.files) /\ t.cut = cut
      /\ 2 * k <= x.cp /\ LogSound(x.files.log, cut)
  BY <1>1 DEF Reached
<1>3. Len(b) - x.cp >= 3
  BY <1>1
<1>4. /\ u.buf = b /\ u.cut = cut
      /\ u.life = "running" => u.state = "data" /\ Begins(lay[x.cp + 1], u, x.files)
  BY <1>1, <1>2, <1>3, ExpectGoesOn
<1>5. y.rcvr = u /\ y.files = x.files /\ y.cp = x.cp /\ y.over = x.over
  BY DEF Receivings
<1>6. x.cp + 3 <= Len(b) /\ 2 * (k + 1) <= x.cp + 2
  BY <1>1, <1>2, <1>3
<1> HIDE DEF u, y, t
<1> QED
  BY <1>2, <1>4, <1>5, <1>6 DEF Reached, y, u, t

(* Rows stand where a message should begin: they are of a message that was cut. *)
LEMMA SeekReaches ==
  ASSUME NEW x \in Receivings, NEW b \in Seq(StreamUnits), NEW cut,
         NEW s \in Seq(StreamUnits), NEW lay, Laid(s, lay), Starts(b, s),
         NEW k \in Nat, Reached(x, b, lay, cut, k),
         ~x.over, x.rcvr.life = "running", Len(b) - x.cp >= x.rcvr.toread,
         x.rcvr.state = "hdr", lay[x.cp + 1].at >= 5
  PROVE  Reached([x EXCEPT !.rcvr = SeekTmid(x.rcvr, x.cp), !.cp = 0, !.over = TRUE],
                 b, lay, cut, k + 1)
<1> DEFINE t == x.rcvr
           l == lay[x.cp + 1]
           u == SeekTmid(t, x.cp)
           y == [x EXCEPT !.rcvr = u, !.cp = 0, !.over = TRUE]
<1>1. /\ t \in RightReceivers /\ x.cp \in Nat /\ Len(b) \in Nat /\ t.toread \in Nat
      /\ t.toread >= 3
  BY ReceiverFields DEF Receivings
<1>2. t.buf = b /\ Begins(l, t, x.files) /\ t.cut = cut /\ LogSound(x.files.log, cut)
  BY <1>1 DEF Reached
<1>3. x.cp < Len(b) /\ x.cp + 1 \in 1 .. Len(s) + 1
  BY <1>1 DEF Starts
<1>4. /\ u.cut = cut /\ u.state = "hdr"
      /\ u.life = "running" =>
           \E j \in x.cp + 2 .. Len(b) + 1 :
             u.buf = SubSeq(b, j, Len(b)) /\ Begins(lay[j], u, x.files)
  BY <1>1, <1>2, <1>3, SeekGoesOn
<1>5. y.rcvr = u /\ y.files = x.files /\ y.cp = 0 /\ y.over = TRUE
  BY DEF Receivings
<1>6. cut # {}
  <2>1. l \in Places /\ l.at \in Nat /\ l.n \in Nat /\ l.first \in Nat /\ l.at <= 4 + l.n
    BY <1>3, PlaceFields DEF Laid
  <2>2. l.at >= 5
    OBVIOUS
  <2>3. RowsOf(l) \subseteq cut
    BY <1>2, <2>1, <2>2 DEF Begins
  <2> HIDE DEF l
  <2>4. l.first \in RowsOf(l)
    BY <2>1, <2>2 DEF RowsOf
  <2> QED
    BY <2>3, <2>4
<1>7. ASSUME NEW j \in x.cp + 2 .. Len(b) + 1
      PROVE  j \in 1 .. Len(b) + 1
  BY <1>1
<1> HIDE DEF u, y, t, l
<1> QED
  BY <1>2, <1>4, <1>5, <1>6, <1>7 DEF Reached, y, u, t

LEMMA RoundReaches ==
  ASSUME NEW x \in Receivings, NEW b \in Seq(StreamUnits), NEW cut, NEW stale \in Stale,
         NEW s \in Seq(StreamUnits), NEW lay, Laid(s, lay), Starts(b, s),
         CutSeen(lay, Len(b), cut), NEW k \in Nat, Reached(x, b, lay, cut, k)
  PROVE  Reached(Round(x, stale), b, lay, cut, k + 1)
<1> DEFINE t == x.rcvr
           c == x.cp + 1
           l == lay[c]
           go == ~x.over /\ t.life = "running" /\ ~(Len(t.buf) - x.cp < t.toread)
           y == [x EXCEPT !.rcvr = Expect(t, x.cp, stale)]
           z == [x EXCEPT !.rcvr = SeekTmid(t, x.cp), !.cp = 0, !.over = TRUE]
<1>1. /\ t \in RightReceivers /\ x.cp \in Nat /\ Len(b) \in Nat /\ t.toread \in Nat
      /\ t.toread >= 3 /\ t.state \in {"hdr", "data"} /\ Len(s) \in Nat
  BY ReceiverFields DEF Receivings
<1>2. CASE ~go
  <2>1. Round(x, stale) = x
    BY <1>2 DEF Round
  <2>2. Reached(x, b, lay, cut, k + 1)
    <3>1. (~x.over /\ t.life = "running") => (t.buf = b /\ Len(b) - x.cp < t.toread)
      BY <1>2 DEF Reached
    <3> HIDE DEF t
    <3>2. ~x.over /\ t.life = "running" => Len(b) - x.cp < t.toread
      BY <3>1
    <3> QED
      BY <3>2 DEF Reached, t
  <2> QED
    BY <2>1, <2>2
<1>3. CASE go
  <2>1. t.buf = b /\ Begins(l, t, x.files) /\ ~x.over /\ t.life = "running"
    BY <1>3 DEF Reached
  <2>2. Len(b) - x.cp >= t.toread
    BY <1>1, <1>3, <2>1
  <2>3. CASE t.state = "data"
    <3>1. Round(x, stale) = Handle(x)
      BY <1>3, <2>3 DEF Round
    <3> QED
      BY <2>1, <2>2, <2>3, <3>1, HandleReaches
  <2>4. CASE t.state = "hdr"
    <3>1. c \in 1 .. Len(s) /\ c + 2 \in 1 .. Len(b) /\ c + 2 \in 1 .. Len(s) /\ x.cp + 3 = c + 2
      BY <1>1, <2>2 DEF Starts
    <3>2. l \in Places /\ l.at \in Nat /\ l.n \in Nat /\ l.at <= 4 + l.n
      BY <3>1, PlaceFields DEF Laid
    <3>3. t.buf[x.cp + 3] = UnitOf(lay[c + 2]) /\ lay[c + 2] \in Places
      <4>1. b[c + 2] = s[c + 2] /\ s[c + 2] = UnitOf(lay[c + 2]) /\ lay[c + 2] \in Places
        BY <3>1 DEF Laid, Starts
      <4> HIDE DEF t, c
      <4> QED
        BY <2>1, <3>1, <4>1
    <3>4. t.buf[x.cp + 3].kind \in Types <=> lay[c + 2].at = 3
      BY <3>3, KindTells
    <3>5. CASE l.at = 1
      <4>1. l.at + 2 <= 4 + l.n
        BY <3>2, <3>5
      <4>2. lay[c + 2].at = l.at + 2
        BY <3>1, <4>1, InMessage
      <4>3. Round(x, stale) = y
        BY <1>3, <2>4, <3>4, <3>5, <4>2 DEF Round
      <4> QED
        BY <2>1, <2>2, <2>4, <3>5, <4>3, ExpectReaches
    <3>6. CASE l.at # 1
      <4>1. l.at >= 5
        BY <2>1, <3>6 DEF Begins
      <4>2. lay[c + 2].at # 3
        <5>1. c + 1 \in 1 .. Len(s) /\ (c + 1) + 1 = c + 2 /\ lay[c + 1] \in Places
          <6> HIDE DEF c
          <6>1. c + 1 \in 1 .. Len(s) /\ (c + 1) + 1 = c + 2
            BY <1>1, <3>1
          <6> QED
            BY <6>1 DEF Laid
        <5>2. lay[c + 1].at = 1 \/ lay[c + 1].at >= 6
          <6>1. lay[c + 1].at = 1 \/ lay[c + 1].at = l.at + 1
            BY <3>1 DEF Laid, NextMessage
          <6> HIDE DEF l
          <6> QED
            BY <3>2, <4>1, <6>1
        <5>3. lay[c + 2].at = 1 \/ lay[c + 2].at = lay[c + 1].at + 1
          BY <5>1 DEF Laid, NextMessage
        <5>4. lay[c + 1].at \in Nat
          BY <5>1, PlaceFields
        <5> HIDE DEF c
        <5> QED
          BY <5>2, <5>3, <5>4
      <4>3. Round(x, stale) = z
        BY <1>3, <2>4, <3>4, <4>2 DEF Round
      <4>4. Reached(z, b, lay, cut, k + 1)
        BY <2>1, <2>2, <2>4, <4>1, SeekReaches
      <4> HIDE DEF z
      <4> QED
        BY <4>3, <4>4
    <3> QED
      BY <3>5, <3>6
  <2> QED
    BY <1>1, <2>3, <2>4
<1> QED
  BY <1>2, <1>3

(* What process_message leaves of the stream s, which began with the buffer. *)
LeftAt(x, b, lay, j) ==
  /\ x.rcvr.buf = SubSeq(b, j, Len(b)) /\ Begins(lay[j], x.rcvr, x.files)
  /\ x.rcvr.state = "data" => Len(x.rcvr.buf) >= 3

Left(x, b, lay, cut) ==
  /\ x.rcvr.cut = cut /\ LogSound(x.files.log, cut)
  /\ x.rcvr.life = "running" =>
       /\ \E j \in 1 .. Len(b) + 1 : LeftAt(x, b, lay, j)
       /\ cut = {} => Len(x.rcvr.buf) < x.rcvr.toread

LEMMA TailFrom ==
  ASSUME NEW b \in Seq(StreamUnits), NEW j \in 1 .. Len(b) + 1
  PROVE  /\ SubSeq(b, j, Len(b)) \in Seq(StreamUnits)
         /\ Len(SubSeq(b, j, Len(b))) = Len(b) - j + 1
         /\ \A i \in 1 .. Len(b) - j + 1 : SubSeq(b, j, Len(b))[i] = b[j + i - 1]
<1>1. Len(b) \in Nat /\ j \in Nat
  OBVIOUS
<1> QED
  BY <1>1

LEMMA MessagesLeave ==
  ASSUME NEW t \in RightReceivers, NEW g \in RightFiles, NEW stale \in Stale,
         NEW s \in Seq(StreamUnits), NEW lay, Laid(s, lay), Starts(t.buf, s),
         CutSeen(lay, Len(t.buf), t.cut), Begins(lay[1], t, g), t.life = "running",
         t.state = "data" => Len(t.buf) >= 3
  PROVE  Left(Messages(t, g, stale), t.buf, lay, t.cut)
<1> DEFINE b == t.buf
           n == Len(b)
           cut == t.cut
<1>1. /\ b \in Seq(StreamUnits) /\ n \in Nat /\ t.toread \in Nat
      /\ t.state = "data" => t.toread >= 4
  BY ReceiverFields
<1>2. stale \in Nat
  BY LoggerSizes DEF Stale
<1>3. PICK f :
        /\ \A i \in 0 .. n : f[i] \in Receivings
        /\ f[0] = [rcvr |-> t, files |-> g, cp |-> 0, over |-> FALSE]
        /\ \A i \in 1 .. n : f[i] = Round(f[i - 1], stale)
        /\ Messages(t, g, stale) =
             [f[n] EXCEPT !.rcvr.buf = SubSeq(@, f[n].cp + 1, Len(@))]
  BY <1>2, MessagesTurns
<1> DEFINE T == {k \in 0 .. n : Reached(f[k], b, lay, cut, k)}
           x == f[n]
           y == Messages(t, g, stale)
<1>4. 0 \in T
  <2>1. lay[1] \in Places
    BY DEF Laid
  <2>2. LogSound(g.log, cut)
    BY <2>1, BeginsSound
  <2>3. Reached(f[0], b, lay, cut, 0)
    <3>1. f[0].rcvr = t /\ f[0].files = g /\ f[0].cp = 0 /\ f[0].over = FALSE
      BY <1>3
    <3> HIDE DEF b, n, cut
    <3>2. t.buf = b /\ t.cut = cut /\ 0 + 1 = 1 /\ (t.state = "data" => 0 + 3 <= Len(b))
      BY DEF b, cut
    <3> QED
      BY <2>2, <3>1, <3>2 DEF Reached
  <2> QED
    BY <1>1, <2>3
<1>5. ASSUME NEW k \in 1 .. n, k - 1 \in T
      PROVE  k \in T
  <2>1. k - 1 \in 0 .. n /\ k - 1 \in Nat /\ (k - 1) + 1 = k /\ k \in 0 .. n
    BY <1>1
  <2>2. f[k - 1] \in Receivings /\ f[k] = Round(f[k - 1], stale)
    BY <1>3, <2>1
  <2>3. Reached(f[k - 1], b, lay, cut, k - 1)
    BY <1>5
  <2>4. Reached(Round(f[k - 1], stale), b, lay, cut, (k - 1) + 1)
    <3>1. CutSeen(lay, Len(b), cut) /\ Starts(b, s)
      OBVIOUS
    <3> HIDE DEF b, n, cut, T
    <3> QED
      BY <1>1, <2>1, <2>2, <2>3, <3>1, RoundReaches
  <2> HIDE DEF b, n, cut
  <2> QED
    BY <2>1, <2>2, <2>4
<1>6. n \in T
  <2> HIDE DEF T, n
  <2>1. 0 .. n \subseteq T
    BY <1>1, <1>4, <1>5, Upwards
  <2> QED
    BY <1>1, <2>1
<1>7. Reached(x, b, lay, cut, n) /\ x \in Receivings
  BY <1>1, <1>3, <1>6
<1>8. /\ x.rcvr \in RightReceivers /\ x.files \in RightFiles /\ x.cp \in Nat
      /\ x.cp <= Len(x.rcvr.buf)
  BY <1>7 DEF Receivings
<1> HIDE DEF x, T, b, n, cut
<1>9. /\ x.rcvr.buf \in Seq(StreamUnits) /\ Len(x.rcvr.buf) \in Nat
      /\ x.rcvr.toread \in Nat /\ x.rcvr.state \in {"hdr", "data"}
      /\ x.rcvr.state = "data" => x.rcvr.toread >= 4
      /\ x.rcvr.state = "hdr" => x.rcvr.toread >= 3
      /\ x.rcvr \in ReceiverTypes
  BY <1>8, ReceiverFields
<1> DEFINE rest == SubSeq(x.rcvr.buf, x.cp + 1, Len(x.rcvr.buf))
<1>10. /\ rest \in Seq(StreamUnits) /\ Len(rest) = Len(x.rcvr.buf) - x.cp
  <2> DEFINE a == x.rcvr.buf
             j == x.cp + 1
  <2>1. a \in Seq(StreamUnits) /\ j \in 1 .. Len(a) + 1 /\ Len(a) - j + 1 = Len(a) - x.cp
    BY <1>8, <1>9
  <2> HIDE DEF a, j
  <2>2. SubSeq(a, j, Len(a)) \in Seq(StreamUnits) /\ Len(SubSeq(a, j, Len(a))) = Len(a) - j + 1
    BY <2>1, TailFrom
  <2> QED
    BY <2>1, <2>2 DEF a, j
<1>11. /\ y.files = x.files /\ y.rcvr.buf = rest /\ y.rcvr.cut = x.rcvr.cut
       /\ y.rcvr.life = x.rcvr.life /\ y.rcvr.state = x.rcvr.state
       /\ y.rcvr.toread = x.rcvr.toread /\ y.rcvr.stamp = x.rcvr.stamp
       /\ y.rcvr.ready = x.rcvr.ready
  <2>1. y = [x EXCEPT !.rcvr = [x.rcvr EXCEPT !.buf = rest]]
    BY <1>3 DEF x, n
  <2>2. y.rcvr = [x.rcvr EXCEPT !.buf = rest] /\ y.files = x.files
    BY <1>7, <2>1 DEF Receivings
  <2> HIDE DEF y, rest
  <2> QED
    BY <1>9, <2>2 DEF ReceiverTypes
<1> HIDE DEF y, rest
<1>12. ASSUME NEW l, Begins(l, x.rcvr, x.files)
       PROVE  Begins(l, y.rcvr, y.files)
  BY <1>11, <1>12 DEF Begins
<1>13. ASSUME x.rcvr.life = "running", x.over
       PROVE  /\ \E j \in 1 .. n + 1 : LeftAt(y, b, lay, j)
              /\ cut # {}
  <2>1. /\ x.cp = 0 /\ cut # {} /\ x.rcvr.state = "hdr"
        /\ \E j \in 1 .. n + 1 : /\ x.rcvr.buf = SubSeq(b, j, n)
                                 /\ Begins(lay[j], x.rcvr, x.files)
    BY <1>7, <1>13 DEF Reached, n
  <2>2. rest = x.rcvr.buf
    BY <1>9, <2>1 DEF rest
  <2> QED
    BY <1>11, <1>12, <2>1, <2>2 DEF LeftAt, n
<1>14. ASSUME x.rcvr.life = "running", ~x.over
       PROVE  /\ x.cp + 1 \in 1 .. n + 1 /\ LeftAt(y, b, lay, x.cp + 1)
              /\ Len(rest) < x.rcvr.toread
  <2>1. /\ x.rcvr.buf = b /\ Begins(lay[x.cp + 1], x.rcvr, x.files)
        /\ x.rcvr.state = "data" => x.cp + 3 <= n
        /\ \/ n - x.cp < x.rcvr.toread
           \/ 2 * n <= x.cp + (IF x.rcvr.state = "data" THEN 2 ELSE 0)
    BY <1>7, <1>14 DEF Reached, n
  <2>2. x.cp + 1 \in 1 .. n + 1 /\ Len(rest) = n - x.cp /\ rest = SubSeq(b, x.cp + 1, n)
    BY <1>1, <1>8, <1>10, <2>1 DEF n, rest
  <2>3. x.rcvr.state = "data" => Len(rest) >= 3
    BY <1>1, <1>8, <2>1, <2>2
  <2>4. n - x.cp < x.rcvr.toread
    <3>1. CASE x.rcvr.state = "data"
      BY <1>1, <1>8, <1>9, <2>1, <3>1
    <3>2. CASE x.rcvr.state = "hdr"
      BY <1>1, <1>8, <1>9, <2>1, <3>2
    <3> QED
      BY <1>9, <3>1, <3>2
  <2> QED
    BY <1>11, <1>12, <2>1, <2>2, <2>3, <2>4 DEF LeftAt, n
<1>15. /\ y.rcvr.cut = cut /\ LogSound(y.files.log, cut)
       /\ y.rcvr.life = "running" =>
            /\ \E j \in 1 .. n + 1 : LeftAt(y, b, lay, j)
            /\ cut = {} => Len(y.rcvr.buf) < y.rcvr.toread
  <2>1. x.rcvr.cut = cut /\ LogSound(x.files.log, cut)
    BY <1>7 DEF Reached
  <2> QED
    BY <1>11, <1>13, <1>14, <2>1
<1> QED
  BY <1>15 DEF Left, y, b, n, cut

(* The places from the j-th on. *)
Behind(s, lay, j) == [i \in 1 .. Len(s) - j + 2 |-> lay[j + i - 1]]

LEMMA LaidBehind ==
  ASSUME NEW s \in Seq(StreamUnits), NEW lay, Laid(s, lay), NEW j \in 1 .. Len(s) + 1
  PROVE  /\ Laid(SubSeq(s, j, Len(s)), Behind(s, lay, j))
         /\ \A i \in 1 .. Len(s) - j + 2 : Behind(s, lay, j)[i] = lay[j + i - 1]
<1> DEFINE r == SubSeq(s, j, Len(s))
           m == Len(s) - j + 1
           b == Behind(s, lay, j)
<1>1. Len(s) \in Nat /\ j \in Nat /\ j >= 1 /\ m \in Nat /\ j + m = Len(s) + 1
      /\ Len(s) - j + 2 = m + 1
  OBVIOUS
<1>2. /\ r \in Seq(StreamUnits) /\ Len(r) = m /\ \A i \in 1 .. m : r[i] = s[j + i - 1]
  BY TailFrom
<1>3. \A i \in 1 .. Len(s) - j + 2 : b[i] = lay[j + i - 1]
  BY DEF Behind
<1> HIDE DEF r, m, b
<1>4. ASSUME NEW i \in 1 .. m + 1
      PROVE  b[i] \in Places
  <2>1. j + i - 1 \in 1 .. Len(s) + 1
    BY <1>1
  <2> QED
    BY <1>1, <1>3, <2>1 DEF Laid
<1>5. ASSUME NEW i \in 1 .. m
      PROVE  /\ r[i] = UnitOf(b[i])
             /\ b[i].n > 0 => b[i].prev > 0
             /\ IF b[i].at < 4 + b[i].n
                  THEN b[i + 1].at = b[i].at + 1 /\ SameMessage(b[i], b[i + 1])
                  ELSE NextMessage(b[i], b[i + 1])
  <2> DEFINE k == j + i - 1
  <2>1. k \in 1 .. Len(s) /\ i \in 1 .. m + 1 /\ i + 1 \in 1 .. m + 1
        /\ j + (i + 1) - 1 = k + 1
    BY <1>1
  <2>2. b[i] = lay[k]
    BY <1>1, <1>3, <2>1
  <2>3. b[i + 1] = lay[j + (i + 1) - 1]
    BY <1>1, <1>3, <2>1
  <2>4. r[i] = s[k]
    BY <1>2
  <2> HIDE DEF k
  <2> QED
    BY <2>1, <2>2, <2>3, <2>4 DEF Laid
<1>6. b[m + 1].at = 1
  <2>1. m + 1 \in 1 .. m + 1 /\ j + (m + 1) - 1 = Len(s) + 1
    BY <1>1
  <2>2. b[m + 1] = lay[j + (m + 1) - 1]
    BY <1>1, <1>3, <2>1
  <2> QED
    BY <2>1, <2>2 DEF Laid
<1>7. Laid(r, b)
  BY <1>2, <1>4, <1>5, <1>6 DEF Laid
<1> QED
  BY <1>3, <1>7 DEF r, b

LEMMA TailOfTail ==
  ASSUME NEW b \in Seq(StreamUnits), NEW j \in 1 .. Len(b) + 1,
         NEW k \in 1 .. Len(SubSeq(b, j, Len(b))) + 1
  PROVE  /\ j + k - 1 \in 1 .. Len(b) + 1
         /\ SubSeq(SubSeq(b, j, Len(b)), k, Len(SubSeq(b, j, Len(b))))
              = SubSeq(b, j + k - 1, Len(b))
<1> DEFINE r == SubSeq(b, j, Len(b))
           m == Len(b) - j + 1
           h == j + k - 1
           pre == SubSeq(r, k, Len(r))
           q == SubSeq(b, h, Len(b))
<1>1. /\ r \in Seq(StreamUnits) /\ Len(r) = m /\ \A i \in 1 .. m : r[i] = b[j + i - 1]
  BY TailFrom
<1>2. Len(b) \in Nat /\ j \in Nat /\ j >= 1 /\ m \in Nat /\ k \in 1 .. m + 1
      /\ k \in 1 .. Len(r) + 1
  BY <1>1
<1> HIDE DEF r
<1>3. h \in 1 .. Len(b) + 1 /\ Len(b) - h + 1 = m - k + 1
  BY <1>2
<1>4. /\ pre \in Seq(StreamUnits) /\ Len(pre) = m - k + 1
      /\ \A i \in 1 .. m - k + 1 : pre[i] = r[k + i - 1]
  <2>1. /\ pre \in Seq(StreamUnits) /\ Len(pre) = Len(r) - k + 1
        /\ \A i \in 1 .. Len(r) - k + 1 : pre[i] = r[k + i - 1]
    BY <1>1, <1>2, TailFrom
  <2> HIDE DEF pre, m
  <2> QED
    BY <1>1, <2>1
<1>5. q \in Seq(StreamUnits) /\ Len(q) = m - k + 1 /\ \A i \in 1 .. m - k + 1 : q[i] = b[h + i - 1]
  <2> HIDE DEF h, m
  <2>1. /\ q \in Seq(StreamUnits) /\ Len(q) = Len(b) - h + 1
        /\ \A i \in 1 .. Len(b) - h + 1 : q[i] = b[h + i - 1]
    BY <1>3, TailFrom
  <2> HIDE DEF q
  <2> QED
    BY <1>3, <2>1
<1> HIDE DEF pre, q
<1>6. ASSUME NEW i \in 1 .. m - k + 1
      PROVE  pre[i] = q[i]
  <2>1. k + i - 1 \in 1 .. m /\ j + (k + i - 1) - 1 = h + i - 1
    BY <1>2
  <2>2. r[k + i - 1] = b[j + (k + i - 1) - 1]
    BY <1>1, <2>1
  <2> QED
    BY <1>4, <1>5, <2>1, <2>2
<1> HIDE DEF m
<1>7. pre = q
  BY <1>4, <1>5, <1>6
<1> QED
  BY <1>3, <1>7 DEF pre, q, r

(* However the stream is cut into reads, process_message leaves it where a message
   begins or among the rows of one that was cut, with the files as they should be up
   to there. *)
LEMMA MessageLeaves ==
  ASSUME NEW t \in RightReceivers, NEW g \in RightFiles, NEW stale \in Stale,
         NEW s \in Seq(StreamUnits), NEW lay, Laid(s, lay), Starts(t.buf, s),
         CutSeen(lay, Len(t.buf), t.cut), Begins(lay[1], t, g), t.life = "running",
         t.state = "data" => Len(t.buf) >= 3
  PROVE  Left(ProcessMessage(t, g, stale), t.buf, lay, t.cut)
<1> DEFINE b == t.buf
           n == Len(b)
           seek == n >= t.toread /\ (b[1].kind # "T" \/ b[2].kind # "M")
           u == SeekTmid(t, 0)
<1>1. /\ b \in Seq(StreamUnits) /\ n \in Nat /\ t.toread \in Nat /\ t.toread >= 3
      /\ n <= Len(s) /\ Len(s) \in Nat
  BY ReceiverFields DEF Starts
<1>2. ProcessMessage(t, g, stale) = IF seek THEN Messages(u, g, stale)
                                    ELSE Messages(t, g, stale)
  BY DEF ProcessMessage
<1>3. CASE ~seek
  BY <1>2, <1>3, MessagesLeave
<1>4. CASE seek
  <2>1. 1 \in 1 .. n /\ 2 \in 1 .. n /\ 1 \in 1 .. Len(s) /\ 2 \in 1 .. Len(s) /\ 0 < n /\ 0 + 1 = 1
    BY <1>1, <1>4
  <2>2. /\ lay[1] \in Places /\ lay[1].at \in Nat /\ lay[1].at >= 1 /\ lay[1].n \in Nat
        /\ lay[2] \in Places
    BY <2>1, PlaceFields DEF Laid
  <2>3. lay[1].at >= 5
    <3>1. ASSUME lay[1].at = 1
          PROVE  FALSE
      <4>1. b[1] = UnitOf(lay[1]) /\ b[2] = UnitOf(lay[2])
        BY <2>1 DEF Laid, Starts
      <4>2. lay[1].at < 4 + lay[1].n
        BY <2>2, <3>1
      <4>3. lay[1 + 1].at = 2
        BY <2>1, <3>1, <4>2 DEF Laid
      <4>4. b[1].kind = "T" /\ b[2].kind = "M"
        BY <2>2, <3>1, <4>1, <4>3, KindTells
      <4> QED
        BY <1>4, <4>4
    <3> QED
      BY <3>1 DEF Begins
  <2>4. /\ u.cut = t.cut /\ u.state = "hdr" /\ u.life = "running"
        /\ \E j \in 0 + 2 .. n + 1 : /\ u.buf = SubSeq(b, j, n)
                                     /\ Begins(lay[j], u, g)
    BY <2>1, <2>3, SeekGoesOn
  <2>5. u \in RightReceivers
    BY SeekRight
  <2> HIDE DEF u
  <2>6. PICK j \in 1 .. n + 1 : u.buf = SubSeq(b, j, n) /\ Begins(lay[j], u, g)
    BY <1>1, <2>4
  <2> DEFINE r == SubSeq(s, j, Len(s))
             laid == Behind(s, lay, j)
             b2 == u.buf
             m == n - j + 1
  <2>7. j \in 1 .. Len(s) + 1 /\ j \in Nat /\ m \in Nat /\ 1 \in 1 .. Len(s) - j + 2
        /\ j + 1 - 1 = j /\ m <= Len(s) - j + 1
    BY <1>1
  <2>8. Laid(r, laid) /\ \A i \in 1 .. Len(s) - j + 2 : laid[i] = lay[j + i - 1]
    BY <2>7, LaidBehind
  <2>9. /\ r \in Seq(StreamUnits) /\ Len(r) = Len(s) - j + 1
        /\ \A i \in 1 .. Len(s) - j + 1 : r[i] = s[j + i - 1]
    BY <2>7, TailFrom
  <2>10. /\ b2 \in Seq(StreamUnits) /\ Len(b2) = m
         /\ \A i \in 1 .. m : b2[i] = b[j + i - 1]
    <3> HIDE DEF b, b2
    <3>1. /\ SubSeq(b, j, Len(b)) \in Seq(StreamUnits)
          /\ Len(SubSeq(b, j, Len(b))) = Len(b) - j + 1
          /\ \A i \in 1 .. Len(b) - j + 1 : SubSeq(b, j, Len(b))[i] = b[j + i - 1]
      BY <1>1, TailFrom
    <3>2. b2 = SubSeq(b, j, Len(b))
      BY <2>6 DEF b2
    <3> QED
      BY <3>1, <3>2
  <2> HIDE DEF r, laid, b2, b, n
  <2>11. Starts(b2, r)
    <3>1. ASSUME NEW i \in 1 .. m
          PROVE  b2[i] = r[i]
      <4>1. j + i - 1 \in 1 .. n /\ i \in 1 .. Len(s) - j + 1
        BY <1>1, <2>7
      <4>2. b[j + i - 1] = s[j + i - 1]
        BY <4>1 DEF Starts, b, n
      <4> QED
        BY <2>9, <2>10, <4>1, <4>2
    <3> HIDE DEF m
    <3> QED
      BY <2>7, <2>9, <2>10, <3>1 DEF Starts
  <2>12. CutSeen(laid, Len(b2), u.cut)
    <3>1. CASE m >= 1
      <4>1. m \in 1 .. Len(s) - j + 2 /\ j + m - 1 = n /\ n >= 1
        BY <1>1, <2>7, <3>1
      <4>2. laid[m] = lay[j + m - 1]
        BY <2>8, <4>1
      <4>3. CutSeen(lay, n, t.cut)
        BY DEF n, b
      <4> QED
        BY <2>4, <2>10, <4>1, <4>2, <4>3 DEF CutSeen
    <3>2. CASE ~(m >= 1)
      BY <2>10, <3>2 DEF CutSeen
    <3> QED
      BY <3>1, <3>2
  <2>13. Begins(laid[1], u, g)
    BY <2>6, <2>7, <2>8
  <2>14. Left(Messages(u, g, stale), b2, laid, u.cut)
    BY <2>4, <2>5, <2>8, <2>9, <2>11, <2>12, <2>13, MessagesLeave DEF b2
  <2> DEFINE y == Messages(u, g, stale)
  <2> HIDE DEF y
  <2>15. ASSUME NEW k \in 1 .. Len(b2) + 1, LeftAt(y, b2, laid, k)
         PROVE  \E h \in 1 .. n + 1 : LeftAt(y, b, lay, h)
    <3> DEFINE h == j + k - 1
    <3>1. h \in 1 .. n + 1 /\ SubSeq(b2, k, Len(b2)) = SubSeq(b, h, n)
      BY <1>1, <2>6, TailOfTail DEF b2, n
    <3>2. k \in 1 .. Len(s) - j + 2
      BY <1>1, <2>7, <2>10
    <3>3. laid[k] = lay[h]
      BY <2>8, <3>2
    <3> HIDE DEF h
    <3>4. LeftAt(y, b, lay, h)
      BY <2>15, <3>1, <3>3 DEF LeftAt, n
    <3> QED
      BY <3>1, <3>4
  <2>16. Left(y, b, lay, t.cut)
    BY <2>4, <2>14, <2>15 DEF Left, y, n
  <2> QED
    BY <1>2, <1>4, <2>16 DEF y, b, n
<1> QED
  BY <1>3, <1>4

(* A read takes the stream apart at another place, and process_message leaves the
   end of it. *)
LEMMA RestOfStream ==
  ASSUME NEW a \in Seq(StreamUnits), NEW w \in Seq(StreamUnits), NEW n \in 0 .. Len(w)
  PROVE  LET b == a \o SubSeq(w, 1, n)
         IN /\ b \in Seq(StreamUnits) /\ Len(b) = Len(a) + n /\ Starts(b, a \o w)
            /\ \A j \in 1 .. Len(b) + 1 :
                 SubSeq(b, j, Len(b)) \o SubSeq(w, n + 1, Len(w))
                   = SubSeq(a \o w, j, Len(a \o w))
<1> DEFINE pre == SubSeq(w, 1, n)
           q == SubSeq(w, n + 1, Len(w))
           b == a \o pre
           s == a \o w
           m == Len(a)
<1>1. m \in Nat /\ n \in Nat /\ Len(w) \in Nat /\ n <= Len(w)
  OBVIOUS
<1>2. pre \in Seq(StreamUnits) /\ Len(pre) = n /\ \A i \in 1 .. n : pre[i] = w[i]
  BY <1>1
<1>3. /\ q \in Seq(StreamUnits) /\ Len(q) = Len(w) - n
      /\ \A i \in 1 .. Len(w) - n : q[i] = w[n + i]
  BY <1>1
<1> HIDE DEF pre, q
<1>4. /\ b \in Seq(StreamUnits) /\ Len(b) = m + n
      /\ \A i \in 1 .. m + n : b[i] = IF i <= m THEN a[i] ELSE pre[i - m]
  <2>1. /\ Len(a \o pre) = Len(a) + Len(pre)
        /\ \A i \in 1 .. Len(a) + Len(pre) :
             (a \o pre)[i] = IF i <= Len(a) THEN a[i] ELSE pre[i - Len(a)]
    BY <1>2, ConcatProperties
  <2>2. b \in Seq(StreamUnits)
    BY <1>2
  <2> QED
    BY <1>2, <2>1, <2>2
<1>5. /\ s \in Seq(StreamUnits) /\ Len(s) = m + Len(w)
      /\ \A i \in 1 .. m + Len(w) : s[i] = IF i <= m THEN a[i] ELSE w[i - m]
  <2>1. /\ Len(a \o w) = Len(a) + Len(w)
        /\ \A i \in 1 .. Len(a) + Len(w) :
             (a \o w)[i] = IF i <= Len(a) THEN a[i] ELSE w[i - Len(a)]
    BY ConcatProperties
  <2>2. s \in Seq(StreamUnits)
    OBVIOUS
  <2> QED
    BY <2>1, <2>2
<1> HIDE DEF b, s, m
<1>6. ASSUME NEW i \in 1 .. m + n
      PROVE  i \in 1 .. m + Len(w) /\ b[i] = s[i]
  <2>1. i \in 1 .. m + Len(w)
    BY <1>1
  <2>2. CASE i <= m
    BY <1>4, <1>5, <2>1, <2>2
  <2>3. CASE ~(i <= m)
    <3>1. i - m \in 1 .. n
      BY <1>1, <2>3
    <3> QED
      BY <1>2, <1>4, <1>5, <2>1, <2>3, <3>1
  <2> QED
    BY <2>1, <2>2, <2>3
<1>7. Starts(b, s)
  <2>1. Len(b) <= Len(s)
    BY <1>1, <1>4, <1>5
  <2>2. \A i \in 1 .. Len(b) : b[i] = s[i]
    BY <1>4, <1>6
  <2> QED
    BY <2>1, <2>2 DEF Starts
<1>8. ASSUME NEW j \in 1 .. Len(b) + 1
      PROVE  SubSeq(b, j, Len(b)) \o q = SubSeq(s, j, Len(s))
  <2> DEFINE c == SubSeq(b, j, Len(b))
             z == SubSeq(s, j, Len(s))
             k == m + n - j + 1
             e == c \o q
  <2>1. k \in Nat /\ j \in Nat /\ j >= 1 /\ j + k = m + n + 1 /\ j \in 1 .. Len(s) + 1
    BY <1>1, <1>4, <1>5
  <2>2. c \in Seq(StreamUnits) /\ Len(c) = k /\ \A i \in 1 .. k : c[i] = b[j + i - 1]
    <3>1. /\ c \in Seq(StreamUnits) /\ Len(c) = Len(b) - j + 1
          /\ \A i \in 1 .. Len(b) - j + 1 : c[i] = b[j + i - 1]
      BY <1>4, TailFrom
    <3>2. Len(b) - j + 1 = k
      BY <1>1, <1>4, <2>1
    <3> HIDE DEF c, k
    <3> QED
      BY <3>1, <3>2
  <2>3. /\ z \in Seq(StreamUnits) /\ Len(z) = k + (Len(w) - n)
        /\ \A i \in 1 .. k + (Len(w) - n) : z[i] = s[j + i - 1]
    <3>1. /\ z \in Seq(StreamUnits) /\ Len(z) = Len(s) - j + 1
          /\ \A i \in 1 .. Len(s) - j + 1 : z[i] = s[j + i - 1]
      BY <1>5, <2>1, TailFrom
    <3>2. Len(s) - j + 1 = k + (Len(w) - n)
      BY <1>1, <1>5, <2>1
    <3> HIDE DEF z, k
    <3> QED
      BY <3>1, <3>2
  <2> HIDE DEF c, z, k
  <2>4. /\ e \in Seq(StreamUnits) /\ Len(e) = k + (Len(w) - n)
        /\ \A i \in 1 .. k + (Len(w) - n) : e[i] = IF i <= k THEN c[i] ELSE q[i - k]
    <3>1. /\ Len(c \o q) = Len(c) + Len(q)
          /\ \A i \in 1 .. Len(c) + Len(q) :
               (c \o q)[i] = IF i <= Len(c) THEN c[i] ELSE q[i - Len(c)]
      BY <1>3, <2>2, ConcatProperties
    <3>2. e \in Seq(StreamUnits)
      BY <1>3, <2>2
    <3> QED
      BY <1>3, <2>2, <3>1, <3>2
  <2> HIDE DEF e
  <2>5. ASSUME NEW i \in 1 .. k + (Len(w) - n)
        PROVE  e[i] = z[i]
    <3>1. j + i - 1 \in 1 .. m + Len(w) /\ i \in Nat
      BY <1>1, <2>1
    <3>2. CASE i <= k
      <4>1. i \in 1 .. k /\ j + i - 1 \in 1 .. m + n
        BY <1>1, <2>1, <3>1, <3>2
      <4> QED
        BY <1>6, <2>2, <2>3, <2>4, <3>2, <4>1
    <3>3. CASE ~(i <= k)
      <4>1. i - k \in 1 .. Len(w) - n /\ ~(j + i - 1 <= m) /\ (j + i - 1) - m = n + (i - k)
        BY <1>1, <2>1, <3>1, <3>3
      <4>2. q[i - k] = w[n + (i - k)]
        BY <1>3, <4>1
      <4>3. s[j + i - 1] = w[n + (i - k)]
        BY <1>5, <3>1, <4>1
      <4> QED
        BY <2>3, <2>4, <3>3, <4>2, <4>3
    <3> QED
      BY <3>2, <3>3
  <2>6. e = z
    BY <2>3, <2>4, <2>5
  <2> QED
    BY <2>6 DEF c, z, e
<1> QED
  BY <1>4, <1>7, <1>8 DEF b, s, m, pre, q

PlaceAt(at, n, first, prev) == [at |-> at, n |-> n, first |-> first, prev |-> prev]

GoesFurther(s, lay, first, prev, n, more) ==
  \E far :
    /\ Laid(s \o more, far)
    /\ far[Len(s \o more) + 1].first = first + n
    /\ far[Len(s \o more) + 1].prev = IF n = 0 THEN prev + 1 ELSE prev
    /\ IF Len(s) > 0 THEN far[1] = lay[1]
       ELSE far[1].at = 1 /\ far[1].first = first /\ far[1].prev = prev

(* tm_bfr sends one message more. *)
LEMMA LaidFurther ==
  ASSUME NEW s \in Seq(StreamUnits), NEW lay, Laid(s, lay),
         NEW first, NEW prev, first = lay[Len(s) + 1].first, prev = lay[Len(s) + 1].prev,
         NEW n \in Nat, n > 0 => prev > 0,
         NEW more \in Seq(StreamUnits), Len(more) = 4 + n,
         \A i \in 1 .. 4 + n : more[i] = UnitOf(PlaceAt(i, n, first, prev))
  PROVE  GoesFurther(s, lay, first, prev, n, more)
<1> DEFINE m == Len(s)
           k == m + (4 + n)
           r == s \o more
           end == PlaceAt(1, 0, first + n, IF n = 0 THEN prev + 1 ELSE prev)
           far == [i \in 1 .. k + 1 |-> IF i <= m THEN lay[i]
                                        ELSE IF i <= k THEN PlaceAt(i - m, n, first, prev)
                                        ELSE end]
<1>1. m \in Nat /\ m + 1 \in 1 .. m + 1
  OBVIOUS
<1>2. lay[m + 1] \in Places /\ lay[m + 1].at = 1
  BY <1>1 DEF Laid
<1>3. first \in Nat /\ first >= 1 /\ prev \in Nat
  BY <1>2, PlaceFields
<1>4. /\ r \in Seq(StreamUnits) /\ Len(r) = k
      /\ \A i \in 1 .. k : r[i] = IF i <= m THEN s[i] ELSE more[i - m]
  <2>1. /\ Len(s \o more) = Len(s) + Len(more)
        /\ \A i \in 1 .. Len(s) + Len(more) :
             (s \o more)[i] = IF i <= Len(s) THEN s[i] ELSE more[i - Len(s)]
    BY ConcatProperties
  <2>2. r \in Seq(StreamUnits)
    OBVIOUS
  <2> QED
    BY <2>1, <2>2
<1> HIDE DEF r, end
<1>5. \A i \in 1 .. k + 1 :
        far[i] = IF i <= m THEN lay[i]
                 ELSE IF i <= k THEN PlaceAt(i - m, n, first, prev) ELSE end
  OBVIOUS
<1> HIDE DEF far, m
<1>6. ASSUME NEW i \in 1 .. 4 + n
      PROVE  /\ m + i \in 1 .. k /\ far[m + i] = PlaceAt(i, n, first, prev)
             /\ far[m + i].at = i /\ far[m + i].n = n /\ far[m + i].first = first
             /\ far[m + i].prev = prev /\ far[m + i] \in Places
             /\ r[m + i] = UnitOf(far[m + i])
  <2>1. m + i \in 1 .. k /\ m + i \in 1 .. k + 1 /\ ~(m + i <= m) /\ m + i <= k
        /\ (m + i) - m = i
    BY <1>1
  <2>2. far[m + i] = PlaceAt(i, n, first, prev)
    BY <1>5, <2>1
  <2>3. r[m + i] = more[i]
    BY <1>4, <2>1
  <2>4. PlaceAt(i, n, first, prev) \in Places
    BY <1>3 DEF Places, PlaceAt
  <2> QED
    BY <2>1, <2>2, <2>3, <2>4 DEF PlaceAt
<1>7. /\ far[k + 1] = end /\ end.at = 1 /\ end.n = 0 /\ end.first = first + n
      /\ end.prev = (IF n = 0 THEN prev + 1 ELSE prev) /\ end \in Places
  <2>1. k + 1 \in 1 .. k + 1 /\ ~(k + 1 <= m) /\ ~(k + 1 <= k)
    BY <1>1
  <2>2. end \in Places
    BY <1>3 DEF Places, PlaceAt, end
  <2> QED
    BY <1>5, <2>1, <2>2 DEF PlaceAt, end
<1>8. ASSUME NEW i \in 1 .. m
      PROVE  i \in 1 .. k /\ i \in 1 .. k + 1 /\ far[i] = lay[i] /\ r[i] = s[i]
  <2>1. i \in 1 .. k /\ i \in 1 .. k + 1 /\ i <= m
    BY <1>1
  <2> QED
    BY <1>4, <1>5, <2>1
<1>9. /\ 1 \in 1 .. 4 + n /\ far[m + 1].at = 1 /\ far[m + 1].first = first
      /\ far[m + 1].prev = prev
  <2>1. 1 \in 1 .. 4 + n
    OBVIOUS
  <2> QED
    BY <1>6, <2>1
<1>10. ASSUME NEW i \in 1 .. k
       PROVE  \/ i \in 1 .. m
              \/ i - m \in 1 .. 4 + n /\ m + (i - m) = i
  BY <1>1
<1>11. ASSUME NEW i \in 1 .. k + 1
       PROVE  far[i] \in Places
  <2>1. i \in 1 .. k \/ i = k + 1
    <3>1. k \in Nat
      BY <1>1
    <3> HIDE DEF k
    <3> QED
      BY <3>1
  <2>2. CASE i \in 1 .. m
    <3>1. i \in 1 .. m + 1
      BY <1>1, <2>2
    <3> QED
      BY <1>8, <2>2, <3>1 DEF Laid, m
  <2>3. CASE i - m \in 1 .. 4 + n /\ m + (i - m) = i
    BY <1>6, <2>3
  <2> QED
    BY <1>7, <1>10, <2>1, <2>2, <2>3
<1>12. ASSUME NEW i \in 1 .. k
       PROVE  /\ r[i] = UnitOf(far[i])
              /\ far[i].n > 0 => far[i].prev > 0
              /\ IF far[i].at < 4 + far[i].n
                   THEN far[i + 1].at = far[i].at + 1 /\ SameMessage(far[i], far[i + 1])
                   ELSE NextMessage(far[i], far[i + 1])
  <2>1. CASE i \in 1 .. m
    <3>1. /\ s[i] = UnitOf(lay[i])
          /\ lay[i].n > 0 => lay[i].prev > 0
          /\ IF lay[i].at < 4 + lay[i].n
               THEN lay[i + 1].at = lay[i].at + 1 /\ SameMessage(lay[i], lay[i + 1])
               ELSE NextMessage(lay[i], lay[i + 1])
      BY <2>1 DEF Laid, m
    <3>2. far[i] = lay[i] /\ r[i] = s[i]
      BY <1>8, <2>1
    <3>3. CASE i < m
      <4>1. i + 1 \in 1 .. m
        BY <1>1, <2>1, <3>3
      <4>2. far[i + 1] = lay[i + 1]
        BY <1>8, <4>1
      <4> QED
        BY <3>1, <3>2, <4>2
    <3>4. CASE i = m
      <4>1. ~(lay[i].at < 4 + lay[i].n)
        <5>1. lay[i] \in Places
          BY <1>1, <2>1 DEF Laid, m
        <5>2. lay[i].at \in Nat /\ lay[i].at >= 1
          BY <5>1, PlaceFields
        <5>3. lay[i + 1].at = 1
          BY <1>2, <3>4
        <5> QED
          BY <3>1, <5>2, <5>3
      <4>2. NextMessage(lay[i], lay[m + 1])
        BY <3>1, <3>4, <4>1
      <4>3. NextMessage(far[i], far[m + 1])
        BY <1>9, <3>2, <4>2 DEF NextMessage, m
      <4> QED
        BY <3>1, <3>2, <3>4, <4>1, <4>3
    <3> QED
      BY <1>1, <2>1, <3>3, <3>4
  <2>2. CASE i - m \in 1 .. 4 + n /\ m + (i - m) = i
    <3> DEFINE h == i - m
    <3>1. /\ far[i].at = h /\ far[i].n = n /\ far[i].first = first
          /\ far[i].prev = prev /\ r[i] = UnitOf(far[i])
      BY <1>6, <2>2
    <3>2. h \in 1 .. 4 + n /\ m + h = i /\ i \in Nat
      BY <1>1, <2>2
    <3> HIDE DEF h
    <3>3. CASE h < 4 + n
      <4>1. h + 1 \in 1 .. 4 + n /\ m + (h + 1) = i + 1
        BY <1>1, <3>2, <3>3
      <4>2. /\ far[i + 1].at = h + 1 /\ far[i + 1].n = n /\ far[i + 1].first = first
            /\ far[i + 1].prev = prev
        <5>1. /\ far[m + (h + 1)].at = h + 1 /\ far[m + (h + 1)].n = n
              /\ far[m + (h + 1)].first = first /\ far[m + (h + 1)].prev = prev
          BY <1>6, <4>1
        <5> QED
          BY <4>1, <5>1
      <4> QED
        BY <3>1, <3>3, <4>2 DEF SameMessage
    <3>4. CASE h = 4 + n
      <4>1. i + 1 = k + 1
        BY <1>1, <3>2, <3>4
      <4>2. far[i + 1] = end
        BY <1>7, <4>1
      <4>3. ~(far[i].at < 4 + far[i].n)
        BY <3>1, <3>4
      <4>4. NextMessage(far[i], far[i + 1])
        BY <1>3, <1>7, <3>1, <4>2 DEF NextMessage, StampBehind
      <4> QED
        BY <3>1, <4>3, <4>4
    <3> QED
      BY <3>2, <3>3, <3>4
  <2> QED
    BY <1>10, <2>1, <2>2
<1>13. Laid(r, far)
  <2>1. far[k + 1].at = 1
    BY <1>7
  <2> HIDE DEF k
  <2> QED
    BY <1>4, <1>11, <1>12, <2>1 DEF Laid
<1>14. IF m > 0 THEN far[1] = lay[1]
       ELSE far[1].at = 1 /\ far[1].first = first /\ far[1].prev = prev
  <2>1. CASE m > 0
    <3>1. 1 \in 1 .. m
      BY <1>1, <2>1
    <3> QED
      BY <1>8, <2>1, <3>1
  <2>2. CASE ~(m > 0)
    <3>1. m + 1 = 1
      BY <1>1, <2>2
    <3> QED
      BY <1>9, <2>2, <3>1
  <2> QED
    BY <2>1, <2>2
<1>15. far[Len(r) + 1].first = first + n
       /\ far[Len(r) + 1].prev = (IF n = 0 THEN prev + 1 ELSE prev)
  BY <1>4, <1>7
<1> HIDE DEF k
<1> QED
  BY <1>13, <1>14, <1>15 DEF r, m, GoesFurther

(* The units of the stream are laid out from place to place as sent says they were
   sent, and the receiver and the files know what came before. *)
Continues(s, lay, sent, t, g) ==
  /\ Laid(s, lay)
  /\ lay[Len(s) + 1].first = sent.rows + 1 /\ lay[Len(s) + 1].prev = sent.stamps
  /\ Begins(lay[1], t, g)

StreamInv ==
  /\ LgrInv
  /\ LogSound(files.log, rcvr.cut)
  /\ rcvr.life = "running" =>
       /\ \E lay : Continues(rcvr.buf \o wire, lay, src, rcvr, files)
       /\ rcvr.state = "data" => Len(rcvr.buf) >= 3
       /\ rcvr.cut = {} => Len(rcvr.buf) < rcvr.toread

LEMMA InitStream == LgrInit => StreamInv
<1> SUFFICES ASSUME LgrInit
             PROVE  StreamInv
  OBVIOUS
<1> DEFINE l == PlaceAt(1, 0, 1, 0)
           lay == [i \in {1} |-> l]
           s == rcvr.buf \o wire
<1>1. LgrInv
  BY InitLogs
<1>2. /\ rcvr.buf = <<>> /\ wire = <<>> /\ src.rows = 0 /\ src.stamps = 0
      /\ rcvr.state = "hdr" /\ rcvr.toread = 3 /\ rcvr.ready = FALSE /\ rcvr.stamp = 0
      /\ rcvr.cut = {} /\ files.open = FALSE /\ files.log = <<>>
  BY DEF LgrInit
<1>3. s = <<>> /\ Len(s) = 0 /\ Len(rcvr.buf) = 0 /\ Len(files.log) = 0
  BY <1>2
<1>4. LogSound(files.log, rcvr.cut)
  BY <1>3 DEF LogSound, LoggedNums
<1>5. l.at = 1 /\ l.n = 0 /\ l.first = 1 /\ l.prev = 0 /\ l \in Places
  BY DEF PlaceAt, Places
<1>6. lay[1] = l
  OBVIOUS
<1>7. LogFits(files.log, rcvr.cut, 1)
  BY <1>3 DEF LogFits
<1> HIDE DEF l, lay, s
<1>8. Laid(s, lay)
  BY <1>3, <1>5, <1>6 DEF Laid
<1>9. Begins(lay[1], rcvr, files)
  BY <1>2, <1>5, <1>6, <1>7 DEF Begins, NextRow
<1>10. Continues(s, lay, src, rcvr, files)
  BY <1>2, <1>3, <1>5, <1>6, <1>8, <1>9 DEF Continues
<1> QED
  BY <1>1, <1>2, <1>3, <1>4, <1>10 DEF StreamInv, s

LEMMA HeadAndField ==
  ASSUME NEW h \in Seq(StreamUnits), Len(h) = 3, NEW f \in Seq(StreamUnits), Len(f) = 1
  PROVE  /\ h \o f \in Seq(StreamUnits) /\ Len(h \o f) = 4
         /\ (h \o f)[1] = h[1] /\ (h \o f)[2] = h[2] /\ (h \o f)[3] = h[3]
         /\ (h \o f)[4] = f[1]
<1>1. /\ Len(h \o f) = Len(h) + Len(f)
      /\ \A i \in 1 .. Len(h) + Len(f) :
           (h \o f)[i] = IF i <= Len(h) THEN h[i] ELSE f[i - Len(h)]
  BY ConcatProperties
<1>2. h \o f \in Seq(StreamUnits)
  OBVIOUS
<1> DEFINE r == h \o f
<1> HIDE DEF r
<1>3. Len(r) = 4 /\ \A i \in 1 .. 4 : r[i] = IF i <= 3 THEN h[i] ELSE f[i - 3]
  BY <1>1 DEF r
<1>4. r[1] = h[1] /\ r[2] = h[2] /\ r[3] = h[3] /\ r[4] = f[1]
  BY <1>3
<1> QED
  BY <1>2, <1>3, <1>4 DEF r

(* The places of what is sent come behind those of the stream. *)
LEMMA SentFurther ==
  ASSUME StreamInv, NEW n \in Nat, n > 0 => src.stamps > 0,
         NEW more \in Seq(StreamUnits), Len(more) = 4 + n,
         \A i \in 1 .. 4 + n : more[i] = UnitOf(PlaceAt(i, n, src.rows + 1, src.stamps)),
         wire' = wire \o more, rcvr' = rcvr, files' = files, LgrInv',
         src'.rows = src.rows + n,
         src'.stamps = IF n = 0 THEN src.stamps + 1 ELSE src.stamps
  PROVE  StreamInv'
<1> DEFINE b == rcvr.buf
           s == b \o wire
<1>1. /\ rcvr \in RightReceivers /\ wire \in Seq(StreamUnits)
      /\ src.rows \in Nat /\ src.stamps \in Nat
  BY DEF StreamInv, LgrInv
<1>2. b \in Seq(StreamUnits) /\ rcvr.toread \in Nat
      /\ (rcvr.state = "hdr" \/ rcvr.state = "data")
  BY <1>1, ReceiverFields
<1>3. s \in Seq(StreamUnits) /\ Len(s) = Len(b) + Len(wire) /\ Len(s) \in Nat
  <2> HIDE DEF b
  <2> QED
    BY <1>1, <1>2
<1>4. s \o more = b \o (wire \o more)
  <2> HIDE DEF b
  <2> QED
    BY <1>1, <1>2
<1>5. ASSUME rcvr.life = "running"
      PROVE  \E far : Continues(s \o more, far, src', rcvr, files)
  <2>1. PICK lay : Continues(s, lay, src, rcvr, files)
    BY <1>5 DEF StreamInv
  <2> DEFINE e == lay[Len(s) + 1]
  <2> HIDE DEF s
  <2>2. Laid(s, lay) /\ e.first = src.rows + 1 /\ e.prev = src.stamps
        /\ Begins(lay[1], rcvr, files)
    BY <2>1 DEF Continues
  <2>3. PICK far :
          /\ Laid(s \o more, far)
          /\ far[Len(s \o more) + 1].first = e.first + n
          /\ far[Len(s \o more) + 1].prev = IF n = 0 THEN e.prev + 1 ELSE e.prev
          /\ IF Len(s) > 0 THEN far[1] = lay[1]
             ELSE far[1].at = 1 /\ far[1].first = e.first /\ far[1].prev = e.prev
    <3> DEFINE first == e.first
               prev == e.prev
    <3>1. /\ first = lay[Len(s) + 1].first /\ prev = lay[Len(s) + 1].prev
          /\ n > 0 => prev > 0
          /\ \A i \in 1 .. 4 + n : more[i] = UnitOf(PlaceAt(i, n, first, prev))
      BY <2>2
    <3>2. Laid(s, lay)
      BY <2>2
    <3> HIDE DEF first, prev
    <3>3. GoesFurther(s, lay, first, prev, n, more)
      BY <1>3, <3>1, <3>2, LaidFurther
    <3> QED
      BY <3>3 DEF first, prev, GoesFurther
  <2>4. Begins(far[1], rcvr, files)
    <3>1. CASE Len(s) > 0
      BY <2>2, <2>3, <3>1
    <3>2. CASE ~(Len(s) > 0)
      <4>1. Len(s) = 0 /\ Len(b) = 0
        <5>1. Len(b) \in Nat /\ Len(wire) \in Nat
          BY <1>1, <1>2
        <5> HIDE DEF b
        <5> QED
          BY <1>3, <3>2, <5>1
      <4>2. rcvr.state = "hdr"
        BY <1>2, <1>5, <4>1 DEF StreamInv
      <4>3. lay[1].at = 1 /\ lay[1] = e
        BY <2>2, <4>1 DEF Laid
      <4>4. /\ far[1].at = 1 /\ far[1].first = lay[1].first /\ far[1].prev = lay[1].prev
        BY <2>3, <3>2, <4>3
      <4> HIDE DEF e
      <4> QED
        BY <2>2, <4>2, <4>3, <4>4 DEF Begins, NextRow
    <3> QED
      BY <3>1, <3>2
  <2>5. /\ far[Len(s \o more) + 1].first = src'.rows + 1
        /\ far[Len(s \o more) + 1].prev = src'.stamps
    <3>1. e.first + n = src'.rows + 1
      BY <1>1, <2>2
    <3>2. src'.stamps = IF n = 0 THEN e.prev + 1 ELSE e.prev
      BY <2>2
    <3> HIDE DEF e
    <3> QED
      BY <2>3, <3>1, <3>2
  <2> QED
    BY <2>3, <2>4, <2>5 DEF Continues
<1>6. rcvr.life = "running" => \E far : Continues(rcvr'.buf \o wire', far, src', rcvr', files')
  BY <1>4, <1>5
<1> HIDE DEF s, b
<1> QED
  BY <1>6 DEF StreamInv

LEMMA SendStream == StreamInv /\ (SendStamp \/ SendRows) => StreamInv'
<1> SUFFICES ASSUME StreamInv, SendStamp \/ SendRows
             PROVE  StreamInv'
  OBVIOUS
<1>1. LgrInv' /\ src \in [rows : Nat, stamps : Nat]
  BY SendLogs DEF StreamInv, LgrInv
<1>2. src.rows \in Nat /\ src.stamps \in Nat
  BY <1>1
<1>3. CASE SendStamp
  <2> DEFINE type == IF src.stamps = 0 THEN "init" ELSE "tstamp"
             last == Field("stamp", src.stamps + 1, 0)
             more == Hdr(type) \o <<last>>
             pl(i) == PlaceAt(i, 0, src.rows + 1, src.stamps)
  <2>1. /\ wire' = wire \o more /\ src' = [src EXCEPT !.stamps = @ + 1]
        /\ rcvr' = rcvr /\ files' = files
    BY <1>3 DEF SendStamp, OnWire
  <2>2. type \in UnitKinds
    BY DEF UnitKinds
  <2>3. last \in StreamUnits
    BY <1>2 DEF Field, StreamUnits, UnitKinds
  <2> HIDE DEF type, last
  <2>4. /\ more \in Seq(StreamUnits) /\ Len(more) = 4
        /\ more[1] = Field("T", 0, 0) /\ more[2] = Field("M", 0, 0)
        /\ more[3] = Field(type, 0, 0) /\ more[4] = last
    <3>1. Hdr(type) \in Seq(StreamUnits)
      BY <2>2 DEF Hdr, Field, StreamUnits, UnitKinds
    <3>2. /\ Len(Hdr(type)) = 3 /\ Hdr(type)[1] = Field("T", 0, 0)
          /\ Hdr(type)[2] = Field("M", 0, 0) /\ Hdr(type)[3] = Field(type, 0, 0)
      BY DEF Hdr
    <3>3. <<last>> \in Seq(StreamUnits) /\ Len(<<last>>) = 1 /\ <<last>>[1] = last
      BY <2>3
    <3> DEFINE h == Hdr(type)
               f == <<last>>
    <3> HIDE DEF h, f
    <3>4. h \in Seq(StreamUnits) /\ Len(h) = 3 /\ f \in Seq(StreamUnits) /\ Len(f) = 1
      BY <3>1, <3>2, <3>3 DEF h, f
    <3>5. /\ h \o f \in Seq(StreamUnits) /\ Len(h \o f) = 4
          /\ (h \o f)[1] = h[1] /\ (h \o f)[2] = h[2] /\ (h \o f)[3] = h[3]
          /\ (h \o f)[4] = f[1]
      BY <3>4, HeadAndField
    <3> QED
      BY <3>2, <3>3, <3>5 DEF h, f
  <2> HIDE DEF more
  <2>5. ASSUME NEW i \in 1 .. 4
        PROVE  /\ pl(i) \in Places /\ pl(i).at = i /\ pl(i).n = 0 /\ pl(i).prev = src.stamps
    BY <1>2 DEF PlaceAt, Places
  <2>6. MessageType(pl(3)) = type
    <3>1. pl(3).n = 0 /\ pl(3).prev = src.stamps
      BY <2>5
    <3> HIDE DEF pl
    <3> QED
      BY <3>1 DEF MessageType, type
  <2> HIDE DEF pl
  <2>7. ASSUME NEW i \in 1 .. 4
        PROVE  more[i] = UnitOf(pl(i))
    <3>1. i = 1 \/ i = 2 \/ i = 3 \/ i = 4
      OBVIOUS
    <3>2. UnitOf(pl(1)) = Field("T", 0, 0)
      BY <2>5, KnownUnit
    <3>3. UnitOf(pl(2)) = Field("M", 0, 0)
      BY <2>5, KnownUnit
    <3>4. UnitOf(pl(3)) = Field(type, 0, 0)
      BY <2>5, <2>6, KnownUnit
    <3>5. UnitOf(pl(4)) = Field("stamp", src.stamps + 1, 0)
      <4>1. pl(4) \in Places /\ pl(4).at = 4 /\ pl(4).n = 0 /\ pl(4).prev = src.stamps
        BY <2>5
      <4> QED
        BY <4>1, KnownUnit
    <3> QED
      BY <2>4, <3>1, <3>2, <3>3, <3>4, <3>5 DEF last
  <2>8. /\ src'.rows = src.rows + 0
        /\ src'.stamps = IF 0 = 0 THEN src.stamps + 1 ELSE src.stamps
    BY <1>1, <1>2, <2>1
  <2>9. \A i \in 1 .. 4 + 0 : more[i] = UnitOf(PlaceAt(i, 0, src.rows + 1, src.stamps))
    BY <2>7 DEF pl
  <2>10. Len(more) = 4 + 0 /\ 0 \in Nat /\ (0 > 0 => src.stamps > 0)
    BY <2>4
  <2> QED
    BY <1>1, <2>1, <2>4, <2>8, <2>9, <2>10, SentFurther
<1>4. CASE SendRows
  <2>1. PICK n \in 1 .. MaxRows :
          /\ wire' = wire \o (Hdr("data") \o <<Field("n_rows", n, src.rows + 1)>>
                                \o RowUnits(src.rows + 1, n, src.stamps))
          /\ src' = [src EXCEPT !.rows = @ + n]
    BY <1>4 DEF SendRows, OnWire
  <2>2. src.stamps > 0 /\ rcvr' = rcvr /\ files' = files
    BY <1>4 DEF SendRows
  <2> DEFINE h == Hdr("data")
             f == <<Field("n_rows", n, src.rows + 1)>>
             r == RowUnits(src.rows + 1, n, src.stamps)
             more == h \o f \o r
             pl(i) == PlaceAt(i, n, src.rows + 1, src.stamps)
  <2>3. n \in Nat /\ n >= 1
    BY LoggerSizes
  <2>4. /\ h \in Seq(StreamUnits) /\ Len(h) = 3 /\ h[1] = Field("T", 0, 0)
        /\ h[2] = Field("M", 0, 0) /\ h[3] = Field("data", 0, 0)
    BY DEF Hdr, Field, StreamUnits, UnitKinds
  <2>5. /\ f \in Seq(StreamUnits) /\ Len(f) = 1 /\ f[1] = Field("n_rows", n, src.rows + 1)
    BY <1>2, <2>3 DEF Field, StreamUnits, UnitKinds
  <2>6. /\ r \in Seq(StreamUnits) /\ Len(r) = n
        /\ \A i \in 1 .. n : r[i] = Field("row", src.rows + 1 + i - 1, src.stamps)
    <3>1. ASSUME NEW i \in 1 .. n
          PROVE  Field("row", src.rows + 1 + i - 1, src.stamps) \in StreamUnits
      BY <1>2, <2>3 DEF Field, StreamUnits, UnitKinds
    <3> QED
      BY <2>3, <3>1 DEF RowUnits
  <2> HIDE DEF h, f, r
  <2>7. /\ h \o f \in Seq(StreamUnits) /\ Len(h \o f) = 4
        /\ (h \o f)[1] = h[1] /\ (h \o f)[2] = h[2] /\ (h \o f)[3] = h[3]
        /\ (h \o f)[4] = f[1]
    BY <2>4, <2>5, HeadAndField
  <2> DEFINE front == h \o f
  <2> HIDE DEF front
  <2>8. /\ front \o r \in Seq(StreamUnits) /\ Len(front \o r) = 4 + n
        /\ \A i \in 1 .. 4 + n :
             (front \o r)[i] = IF i <= 4 THEN front[i] ELSE r[i - 4]
    <3>1. front \in Seq(StreamUnits) /\ Len(front) = 4
      BY <2>7 DEF front
    <3>2. /\ Len(front \o r) = Len(front) + Len(r)
          /\ \A i \in 1 .. Len(front) + Len(r) :
               (front \o r)[i] = IF i <= Len(front) THEN front[i] ELSE r[i - Len(front)]
      BY <2>6, <3>1, ConcatProperties
    <3>3. front \o r \in Seq(StreamUnits)
      BY <2>6, <3>1
    <3> QED
      BY <2>6, <3>1, <3>2, <3>3
  <2>9. more = front \o r
    BY DEF front
  <2>10. wire' = wire \o more
    BY <2>1 DEF h, f, r
  <2> HIDE DEF more
  <2>11. ASSUME NEW i \in 1 .. 4 + n
         PROVE  /\ pl(i) \in Places /\ pl(i).at = i /\ pl(i).n = n
                /\ pl(i).first = src.rows + 1 /\ pl(i).prev = src.stamps
    BY <1>2, <2>3 DEF PlaceAt, Places
  <2> HIDE DEF pl
  <2>12. ASSUME NEW i \in 1 .. 4 + n
         PROVE  more[i] = UnitOf(pl(i))
    <3>1. /\ pl(i) \in Places /\ pl(i).at = i /\ pl(i).n = n /\ pl(i).n > 0
          /\ pl(i).first = src.rows + 1 /\ pl(i).prev = src.stamps
      BY <2>3, <2>11
    <3>2. more[i] = IF i <= 4 THEN front[i] ELSE r[i - 4]
      BY <2>8, <2>9
    <3>3. CASE i = 1
      BY <2>4, <2>7, <3>1, <3>2, <3>3, KnownUnit DEF front
    <3>4. CASE i = 2
      BY <2>4, <2>7, <3>1, <3>2, <3>4, KnownUnit DEF front
    <3>5. CASE i = 3
      <4>1. MessageType(pl(i)) = "data"
        BY <3>1 DEF MessageType
      <4> QED
        BY <2>4, <2>7, <3>1, <3>2, <3>5, <4>1, KnownUnit DEF front
    <3>6. CASE i = 4
      BY <2>5, <2>7, <3>1, <3>2, <3>6, KnownUnit DEF front
    <3>7. CASE i >= 5
      <4>1. i - 4 \in 1 .. n /\ ~(i <= 4) /\ src.rows + 1 + (i - 4) - 1 = src.rows + 1 + i - 5
        BY <1>2, <2>3, <3>7
      <4>2. more[i] = Field("row", src.rows + 1 + (i - 4) - 1, src.stamps)
        BY <2>6, <3>2, <4>1
      <4>3. UnitOf(pl(i)) = Field("row", src.rows + 1 + i - 5, src.stamps)
        BY <3>1, <3>7, KnownUnit
      <4> QED
        BY <4>1, <4>2, <4>3
    <3> QED
      BY <2>3, <3>3, <3>4, <3>5, <3>6, <3>7
  <2>13. src'.rows = src.rows + n /\ src'.stamps = (IF n = 0 THEN src.stamps + 1 ELSE src.stamps)
    BY <1>1, <2>1, <2>3
  <2>14. \A i \in 1 .. 4 + n : more[i] = UnitOf(PlaceAt(i, n, src.rows + 1, src.stamps))
    BY <2>12 DEF pl
  <2>15. Len(more) = 4 + n /\ more \in Seq(StreamUnits)
    BY <2>8, <2>9
  <2> QED
    BY <1>1, <2>2, <2>3, <2>10, <2>13, <2>14, <2>15, SentFurther
<1> QED
  BY <1>3, <1>4

LEMMA ReadStream == StreamInv /\ LgrRead => StreamInv'
<1> SUFFICES ASSUME StreamInv, LgrRead
             PROVE  StreamInv'
  OBVIOUS
<1> DEFINE a == rcvr.buf
           s == a \o wire
<1>1. /\ rcvr \in RightReceivers /\ files \in RightFiles /\ wire \in Seq(StreamUnits)
      /\ Len(wire) \in Nat /\ rcvr.life = "running" /\ LgrInv' /\ src' = src
  <2>1. LgrInv /\ LgrInv'
    BY ReadLogs DEF StreamInv
  <2>2. rcvr.life = "running" /\ src' = src
    BY DEF LgrRead
  <2> QED
    BY <2>1, <2>2 DEF LgrInv
<1>2. PICK n \in 1 .. Min({Len(wire), BufCap - Len(rcvr.buf)}), stale \in Stale :
        LET t == [rcvr EXCEPT !.buf = @ \o SubSeq(wire, 1, n), !.cut = @ \cup CutAt(n)]
            x == ProcessMessage(t, files, stale)
        IN /\ rcvr' = x.rcvr /\ files' = x.files
           /\ wire' = SubSeq(wire, n + 1, Len(wire))
  BY DEF LgrRead
<1> DEFINE b == a \o SubSeq(wire, 1, n)
           q == SubSeq(wire, n + 1, Len(wire))
           cut == rcvr.cut \cup CutAt(n)
           t == [rcvr EXCEPT !.buf = b, !.cut = cut]
           x == ProcessMessage(t, files, stale)
<1>3. n \in 1 .. Len(wire) /\ n \in Nat
  <2>1. Len(rcvr.buf) \in Nat /\ BufCap \in Nat
    BY <1>1, ReceiverFields, LoggerSizes
  <2> QED
    BY <1>1, <2>1 DEF Min
<1>4. rcvr' = x.rcvr /\ files' = x.files /\ wire' = q
  BY <1>2
<1>5. /\ a \in Seq(StreamUnits) /\ Len(a) \in Nat /\ rcvr \in ReceiverTypes
  BY <1>1, ReceiverFields
<1> HIDE DEF a
<1>6. /\ b \in Seq(StreamUnits) /\ Len(b) = Len(a) + n /\ Starts(b, s)
      /\ \A j \in 1 .. Len(b) + 1 : SubSeq(b, j, Len(b)) \o q = SubSeq(s, j, Len(s))
  <2>1. n \in 0 .. Len(wire)
    BY <1>3
  <2> QED
    BY <1>1, <1>5, <2>1, RestOfStream
<1>7. /\ s \in Seq(StreamUnits) /\ Len(s) = Len(a) + Len(wire) /\ Len(s) \in Nat
      /\ \A i \in 1 .. Len(wire) : s[Len(a) + i] = wire[i]
  <2>1. /\ Len(a \o wire) = Len(a) + Len(wire)
        /\ \A i \in 1 .. Len(a) + Len(wire) :
             (a \o wire)[i] = IF i <= Len(a) THEN a[i] ELSE wire[i - Len(a)]
    BY <1>1, <1>5, ConcatProperties
  <2>2. s \in Seq(StreamUnits)
    BY <1>1, <1>5
  <2>3. ASSUME NEW i \in 1 .. Len(wire)
        PROVE  /\ Len(a) + i \in 1 .. Len(a) + Len(wire) /\ ~(Len(a) + i <= Len(a))
               /\ (Len(a) + i) - Len(a) = i
    BY <1>1, <1>5
  <2> HIDE DEF s
  <2>4. /\ Len(s) = Len(a) + Len(wire)
        /\ \A i \in 1 .. Len(a) + Len(wire) :
             s[i] = IF i <= Len(a) THEN a[i] ELSE wire[i - Len(a)]
    BY <2>1 DEF s
  <2>5. \A i \in 1 .. Len(wire) : s[Len(a) + i] = wire[i]
    BY <2>3, <2>4
  <2> QED
    BY <1>1, <1>5, <2>2, <2>4, <2>5
<1>8. PICK lay : Continues(s, lay, src, rcvr, files)
  BY <1>1 DEF StreamInv, a
<1> HIDE DEF b, q, s
<1>9. /\ Laid(s, lay) /\ Begins(lay[1], rcvr, files)
      /\ lay[Len(s) + 1].first = src.rows + 1 /\ lay[Len(s) + 1].prev = src.stamps
  BY <1>8 DEF Continues
<1>10. CutAt(n) \in SUBSET Nat
  <2>1. CASE n < Len(wire) /\ wire[n].kind = "data"
    <3>1. n + 1 \in 1 .. Len(wire)
      BY <1>1, <1>3, <2>1
    <3>2. wire[n + 1] \in StreamUnits
      BY <1>1, <3>1
    <3>3. wire[n + 1].a \in Nat /\ wire[n + 1].b \in Nat
      BY <3>2 DEF StreamUnits
    <3>4. {wire[n + 1].b + i : i \in 0 .. wire[n + 1].a - 1} \subseteq Nat
      BY <3>3
    <3> QED
      BY <2>1, <3>4 DEF CutAt
  <2> QED
    BY <2>1 DEF CutAt
<1>11. CutSeen(lay, Len(b), cut)
  <2> SUFFICES ASSUME Len(b) >= 1, lay[Len(b)].at = 3
               PROVE  RowsOf(lay[Len(b)]) \subseteq cut
    BY DEF CutSeen
  <2> DEFINE e == Len(b)
             l == lay[e]
  <2>1. e \in 1 .. Len(s) /\ e = Len(a) + n /\ e \in Nat
    BY <1>1, <1>3, <1>5, <1>6, <1>7
  <2> HIDE DEF e
  <2>2. /\ l \in Places /\ l.at = 3 /\ l.n \in Nat /\ l.first \in Nat
        /\ s[e] = UnitOf(l)
    BY <1>9, <2>1, PlaceFields DEF Laid, e
  <2>3. CASE l.n = 0
    <3>1. RowsOf(l) = {}
      BY <2>2, <2>3 DEF RowsOf
    <3> QED
      BY <3>1 DEF e
  <2>4. CASE l.n > 0
    <3>1. wire[n].kind = "data"
      <4>1. s[e] = wire[n]
        BY <1>3, <1>7, <2>1
      <4> QED
        BY <2>2, <2>4, <4>1, KindTells
    <3>2. /\ e + 1 \in 1 .. Len(s) /\ lay[e + 1].at = 4 /\ SameMessage(l, lay[e + 1])
      <4>1. l.at + 1 <= 4 + l.n
        BY <2>2
      <4>2. /\ e + 1 \in 1 .. Len(s) /\ lay[e + 1].at = l.at + 1
            /\ SameMessage(l, lay[e + 1])
        BY <1>7, <1>9, <2>1, <4>1, InMessage
      <4> QED
        BY <2>2, <4>2
    <3>3. n + 1 \in 1 .. Len(wire) /\ n < Len(wire) /\ e + 1 = Len(a) + (n + 1)
      BY <1>1, <1>3, <1>5, <1>7, <2>1, <3>2
    <3>4. wire[n + 1] = UnitOf(lay[e + 1]) /\ lay[e + 1] \in Places
      <4>1. s[e + 1] = UnitOf(lay[e + 1]) /\ lay[e + 1] \in Places
        BY <1>9, <3>2 DEF Laid
      <4>2. s[Len(a) + (n + 1)] = wire[n + 1]
        BY <1>7, <3>3
      <4> QED
        BY <3>3, <4>1, <4>2
    <3>5. wire[n + 1] = Field("n_rows", l.n, l.first)
      BY <2>4, <3>2, <3>4, KnownUnit DEF SameMessage
    <3>6. wire[n + 1].a = l.n /\ wire[n + 1].b = l.first
      BY <3>5 DEF Field
    <3>7. CutAt(n) = {l.first + i : i \in 0 .. l.n - 1}
      BY <3>1, <3>3, <3>6 DEF CutAt
    <3>8. ASSUME NEW r \in RowsOf(l)
          PROVE  r \in CutAt(n)
      <4>1. r - l.first \in 0 .. l.n - 1 /\ r = l.first + (r - l.first)
        BY <2>2 DEF RowsOf
      <4> QED
        BY <3>7, <4>1
    <3> QED
      BY <3>8 DEF e
  <2> QED
    BY <2>2, <2>3, <2>4
<1>12. /\ t.buf = b /\ t.cut = cut /\ t.stamp = rcvr.stamp /\ t.ready = rcvr.ready
       /\ t.state = rcvr.state /\ t.toread = rcvr.toread /\ t.life = "running"
       /\ t \in RightReceivers
  <2>1. cut \in SUBSET Nat
    BY <1>5, <1>10 DEF ReceiverTypes
  <2>2. /\ t.buf = b /\ t.cut = cut /\ t.stamp = rcvr.stamp /\ t.ready = rcvr.ready
        /\ t.state = rcvr.state /\ t.toread = rcvr.toread /\ t.life = "running"
        /\ t \in ReceiverTypes
    BY <1>1, <1>5, <1>6, <2>1 DEF ReceiverTypes
  <2> HIDE DEF t, cut
  <2> QED
    BY <1>1, <2>2 DEF RightReceivers
<1>13. rcvr.cut \subseteq cut
  OBVIOUS
<1> HIDE DEF t, cut, x
<1>14. Begins(lay[1], t, files)
  BY <1>1, <1>9, <1>12, <1>13, MoreCut
<1>15. t.state = "data" => Len(t.buf) >= 3
  BY <1>1, <1>3, <1>5, <1>6, <1>12 DEF StreamInv, a
<1>16. Left(x, b, lay, cut)
  BY <1>1, <1>6, <1>7, <1>9, <1>11, <1>12, <1>14, <1>15, MessageLeaves DEF x
<1>17. ASSUME NEW j \in 1 .. Len(b) + 1, LeftAt(x, b, lay, j)
       PROVE  Continues(x.rcvr.buf \o q, Behind(s, lay, j), src, x.rcvr, x.files)
  <2> DEFINE r == SubSeq(s, j, Len(s))
             far == Behind(s, lay, j)
  <2>1. x.rcvr.buf \o q = r
    BY <1>6, <1>17 DEF LeftAt
  <2>2. j \in 1 .. Len(s) + 1 /\ Len(s) - j + 2 \in 1 .. Len(s) - j + 2
        /\ j + (Len(s) - j + 2) - 1 = Len(s) + 1 /\ 1 \in 1 .. Len(s) - j + 2
        /\ j + 1 - 1 = j /\ (Len(s) - j + 1) + 1 = Len(s) - j + 2
    BY <1>1, <1>3, <1>5, <1>6, <1>7
  <2>3. Laid(r, far) /\ \A i \in 1 .. Len(s) - j + 2 : far[i] = lay[j + i - 1]
    BY <1>7, <1>9, <2>2, LaidBehind
  <2>4. Len(r) = Len(s) - j + 1
    BY <1>7, <2>2, TailFrom
  <2> HIDE DEF r, far
  <2>5. far[Len(r) + 1] = lay[Len(s) + 1]
    BY <2>2, <2>3, <2>4
  <2>6. far[1] = lay[j]
    BY <2>2, <2>3
  <2>7. Begins(lay[j], x.rcvr, x.files)
    BY <1>17 DEF LeftAt
  <2> QED
    BY <1>9, <2>1, <2>3, <2>5, <2>6, <2>7 DEF Continues, far
<1>18. /\ LogSound(x.files.log, x.rcvr.cut)
       /\ x.rcvr.life = "running" =>
            /\ \E far : Continues(x.rcvr.buf \o q, far, src, x.rcvr, x.files)
            /\ x.rcvr.state = "data" => Len(x.rcvr.buf) >= 3
            /\ x.rcvr.cut = {} => Len(x.rcvr.buf) < x.rcvr.toread
  <2>1. x.rcvr.cut = cut /\ LogSound(x.files.log, cut)
    BY <1>16 DEF Left
  <2>2. ASSUME x.rcvr.life = "running"
        PROVE  /\ \E far : Continues(x.rcvr.buf \o q, far, src, x.rcvr, x.files)
               /\ x.rcvr.state = "data" => Len(x.rcvr.buf) >= 3
               /\ cut = {} => Len(x.rcvr.buf) < x.rcvr.toread
    <3>1. PICK j \in 1 .. Len(b) + 1 : LeftAt(x, b, lay, j)
      BY <1>16, <2>2 DEF Left
    <3>2. Continues(x.rcvr.buf \o q, Behind(s, lay, j), src, x.rcvr, x.files)
      BY <1>17, <3>1
    <3> QED
      BY <1>16, <2>2, <3>1, <3>2 DEF Left, LeftAt
  <2> QED
    BY <2>1, <2>2
<1> QED
  BY <1>1, <1>4, <1>18 DEF StreamInv

(* What the receiver has of the stream follows on what the files have. *)
THEOREM StreamInvariance == LgrSpec => []StreamInv
<1>1. LgrInit => StreamInv
  BY InitStream
<1>2. StreamInv /\ [LgrNext]_lgrvars => StreamInv'
  <2>1. StreamInv /\ UNCHANGED lgrvars => StreamInv'
    BY DEF StreamInv, LgrInv, lgrvars
  <2> QED
    BY <2>1, SendStream, ReadStream DEF LgrNext
<1> QED
  BY <1>1, <1>2, PTL DEF LgrSpec

(* The number of the row that comes next at l, or after it. *)
ComesNext(l) == l.first + (IF l.at > 5 THEN l.at - 5 ELSE 0)

(* What is missing of a stream that has come to its end stands in the buffer. *)
LEMMA WaitsBehind ==
  ASSUME NEW s \in Seq(StreamUnits), NEW lay, Laid(s, lay), NEW num \in Nat,
         num >= NextRow(lay[1]), num < lay[Len(s) + 1].first
  PROVE  \E i \in 1 .. Len(s) : s[i].kind = "row" /\ s[i].a = num
<1> DEFINE Past(i) == ComesNext(lay[i]) > num
           T == {i \in 1 .. Len(s) + 1 : Past(i)}
<1>1. Len(s) \in Nat
  OBVIOUS
<1>2. ASSUME NEW i \in 1 .. Len(s) + 1
      PROVE  /\ lay[i] \in Places /\ lay[i].at \in Nat /\ lay[i].at >= 1 /\ lay[i].n \in Nat
             /\ lay[i].at <= 4 + lay[i].n /\ lay[i].first \in Nat /\ lay[i].prev \in Nat
             /\ ComesNext(lay[i]) \in Nat
  <2>1. lay[i] \in Places
    BY DEF Laid
  <2> QED
    BY <2>1, PlaceFields DEF ComesNext
<1>3. Len(s) + 1 \in T
  <2>1. Len(s) + 1 \in 1 .. Len(s) + 1 /\ lay[Len(s) + 1].at = 1
    BY <1>1 DEF Laid
  <2>2. ComesNext(lay[Len(s) + 1]) = lay[Len(s) + 1].first
    BY <1>2, <2>1 DEF ComesNext
  <2> QED
    BY <2>1, <2>2
<1>4. ~Past(1) /\ 1 \in 1 .. Len(s) + 1
  <2>1. 1 \in 1 .. Len(s) + 1
    BY <1>1
  <2>2. /\ lay[1].at \in Nat /\ lay[1].at >= 1 /\ lay[1].n \in Nat
        /\ lay[1].at <= 4 + lay[1].n /\ lay[1].first \in Nat
    BY <1>2, <2>1
  <2>3. ComesNext(lay[1]) <= NextRow(lay[1])
    BY <2>2 DEF ComesNext, NextRow
  <2> QED
    BY <1>2, <2>1, <2>2, <2>3 DEF NextRow
<1>5. PICK m \in T : \A i \in T : m <= i
  <2>1. T \subseteq Nat /\ T # {}
    BY <1>1, <1>3
  <2> HIDE DEF T
  <2> QED
    BY <2>1, LeastNatural
<1> DEFINE i == m - 1
           l == lay[i]
<1>6. i \in 1 .. Len(s) /\ i + 1 = m /\ i < m /\ i \in 1 .. Len(s) + 1 /\ m \in 1 .. Len(s) + 1
  <2>1. m \in 1 .. Len(s) + 1 /\ m # 1
    BY <1>4, <1>5
  <2> QED
    BY <1>1, <2>1
<1>7. ComesNext(l) <= num /\ ComesNext(lay[i + 1]) > num
  <2>1. i \notin T
    BY <1>1, <1>5, <1>6
  <2>2. ~Past(i) /\ Past(m)
    BY <1>5, <1>6, <2>1
  <2>3. ComesNext(lay[i]) \in Nat
    BY <1>2, <1>6
  <2> HIDE DEF i
  <2> QED
    BY <1>6, <2>2, <2>3
<1> HIDE DEF i, T
<1>8. /\ l \in Places /\ l.at \in Nat /\ l.at >= 1 /\ l.n \in Nat /\ l.at <= 4 + l.n
      /\ l.first \in Nat /\ l.prev \in Nat
  BY <1>2, <1>6
<1>9. l.at >= 5 /\ l.first + l.at - 5 = num
  <2>1. CASE l.at < 4 + l.n
    <3>1. lay[i + 1].at = l.at + 1 /\ lay[i + 1].first = l.first
      BY <1>6, <2>1 DEF Laid, SameMessage
    <3> DEFINE k == lay[i + 1]
    <3> HIDE DEF l, k
    <3>2. k.at = l.at + 1 /\ k.first = l.first
      BY <3>1 DEF k
    <3>3. ComesNext(l) <= num /\ ComesNext(k) > num
      BY <1>7 DEF k
    <3>4. CASE l.at < 5
      BY <1>8, <3>2, <3>3, <3>4 DEF ComesNext
    <3>5. CASE l.at >= 5
      <4>1. ComesNext(k) = l.first + (l.at + 1 - 5)
        BY <1>8, <3>2, <3>5 DEF ComesNext
      <4>2. ComesNext(l) = l.first + (l.at - 5)
        BY <1>8, <3>5 DEF ComesNext
      <4> QED
        BY <1>8, <3>3, <3>5, <4>1, <4>2
    <3> QED
      BY <1>8, <3>4, <3>5
  <2>2. CASE l.at = 4 + l.n
    <3>1. lay[i + 1].at = 1 /\ lay[i + 1].first = l.first + l.n
      BY <1>6, <1>8, <2>2 DEF Laid, NextMessage
    <3> HIDE DEF l
    <3> QED
      BY <1>7, <1>8, <2>2, <3>1 DEF ComesNext
  <2> QED
    BY <1>8, <2>1, <2>2
<1>10. s[i] = UnitOf(l)
  BY <1>6 DEF Laid
<1>11. s[i] = Field("row", num, l.prev)
  BY <1>8, <1>9, <1>10, KnownUnit
<1>12. s[i].kind = "row" /\ s[i].a = num
  BY <1>11 DEF Field
<1> QED
  BY <1>6, <1>12

LEMMA StreamContained == StreamInv => DamageContained
<1> SUFFICES ASSUME StreamInv
             PROVE  DamageContained
  OBVIOUS
<1> DEFINE logged == {files.log[i].num : i \in 1 .. Len(files.log)}
           behind == IF rcvr.cut = {} THEN {}
                     ELSE {u.a : u \in {u \in ToSet(rcvr.buf) : u.kind = "row"}}
           b == rcvr.buf
<1>1. /\ \A i \in 1 .. Len(files.log) :
           Right(files.log[i]) \/ files.log[i].num \in rcvr.cut
      /\ \A i, j \in 1 .. Len(files.log) :
           i < j => files.log[i].num < files.log[j].num
      /\ \A num \in logged : 1 .. num \subseteq logged \cup rcvr.cut
  BY DEF StreamInv, LogSound, LoggedNums
<1>2. ASSUME rcvr.life = "running", wire = <<>>, NEW num \in 1 .. src.rows
      PROVE  num \in logged \cup rcvr.cut \cup behind
  <2>1. /\ rcvr \in RightReceivers /\ src.rows \in Nat
    BY DEF StreamInv, LgrInv
  <2>2. b \in Seq(StreamUnits) /\ Len(b) \in Nat /\ (rcvr.state = "hdr" \/ rcvr.state = "data")
    BY <2>1, ReceiverFields
  <2>3. PICK lay : Continues(rcvr.buf \o wire, lay, src, rcvr, files)
    BY <1>2 DEF StreamInv
  <2>4. rcvr.buf \o wire = b
    BY <1>2, <2>2
  <2>5. /\ Laid(b, lay) /\ lay[Len(b) + 1].first = src.rows + 1
        /\ Begins(lay[1], rcvr, files)
    BY <2>3, <2>4 DEF Continues
  <2>6. 1 \in 1 .. Len(b) + 1 /\ lay[1] \in Places
    BY <2>2, <2>5 DEF Laid
  <2>7. /\ lay[1].at \in Nat /\ lay[1].at >= 1 /\ lay[1].n \in Nat
        /\ lay[1].at <= 4 + lay[1].n /\ lay[1].first \in Nat
    BY <2>6, PlaceFields
  <2>8. NextRow(lay[1]) \in Nat
    BY <2>7 DEF NextRow
  <2>9. CASE num < NextRow(lay[1])
    <3>1. num \in 1 .. NextRow(lay[1]) - 1
      BY <2>1, <2>8, <2>9
    <3>2. num \in LoggedNums(files.log) \cup rcvr.cut
      BY <2>5, <3>1 DEF Begins, LogFits
    <3> QED
      BY <3>2 DEF LoggedNums
  <2>10. CASE num >= NextRow(lay[1]) /\ rcvr.cut # {}
    <3>1. num \in Nat /\ num < lay[Len(b) + 1].first
      BY <2>1, <2>5
    <3>2. PICK i \in 1 .. Len(b) : b[i].kind = "row" /\ b[i].a = num
      BY <2>2, <2>5, <2>10, <3>1, WaitsBehind
    <3>3. b[i] \in ToSet(b)
      BY <2>2, <3>2 DEF ToSet
    <3> QED
      BY <2>10, <3>2, <3>3
  <2>11. CASE num >= NextRow(lay[1]) /\ rcvr.cut = {}
    <3>1. Len(b) < rcvr.toread
      BY <1>2, <2>11 DEF StreamInv
    <3>2. lay[1].at = 1
      <4>1. ASSUME lay[1].at >= 5, RowsOf(lay[1]) \subseteq rcvr.cut
            PROVE  FALSE
        <5>1. lay[1].first \in RowsOf(lay[1])
          BY <2>7, <4>1 DEF RowsOf
        <5> QED
          BY <2>11, <4>1, <5>1
      <4> QED
        BY <2>5, <4>1 DEF Begins
    <3>3. CASE Len(b) = 0
      <4>1. lay[1].first = src.rows + 1
        BY <2>5, <3>3
      <4>2. NextRow(lay[1]) = src.rows + 1
        BY <3>2, <4>1 DEF NextRow
      <4> QED
        BY <2>1, <2>11, <4>2
    <3>4. CASE Len(b) > 0
      <4>1. 1 \in 1 .. Len(b) /\ 3 + lay[1].n \in Nat /\ lay[1].at + (3 + lay[1].n) <= 4 + lay[1].n
        BY <2>2, <2>7, <3>2, <3>4
      <4>2. 1 + (3 + lay[1].n) \in 1 .. Len(b)
        BY <2>2, <2>5, <4>1, InMessage
      <4>3. rcvr.toread = 3 \/ rcvr.toread = 4 + lay[1].n
            \/ (rcvr.toread = 4 /\ RowsOf(lay[1]) = {})
        BY <2>2, <2>5, <2>11 DEF Begins
      <4>4. RowsOf(lay[1]) = {} => lay[1].n = 0
        <5>1. lay[1].n > 0 => lay[1].first \in RowsOf(lay[1])
          BY <2>7 DEF RowsOf
        <5> QED
          BY <2>7, <5>1
      <4> QED
        BY <2>2, <2>7, <3>1, <4>2, <4>3, <4>4
    <3> QED
      BY <2>2, <3>3, <3>4
  <2> QED
    BY <2>1, <2>8, <2>9, <2>10, <2>11
<1> HIDE DEF logged, behind
<1>3. rcvr.life = "running" /\ wire = <<>> =>
        1 .. src.rows \subseteq logged \cup rcvr.cut \cup behind
  BY <1>2
<1> QED
  BY <1>1, <1>3 DEF DamageContained, logged, behind

(* The files say of every row what was sent, under its number and its time stamp,
   once and in order, but for the rows of messages whose header a read has cut; for
   any sizes and any division of the stream into reads (tm_rcvr.cc:34-109, 148-176;
   lgr.cc:55-127). *)
THEOREM DamageStaysContained == LgrSpec => []DamageContained
BY StreamContained, StreamInvariance, PTL
=============================================================================
