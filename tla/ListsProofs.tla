---------------------------- MODULE ListsProofs -----------------------------
(***************************************************************************)
(* Induction over the naturals and recursive functions, stated with sets   *)
(* where the library's theorems have operators, and what Only returns.     *)
(***************************************************************************)
EXTENDS Lists, FiniteSetTheorems, SequenceTheorems, WellFoundedInduction, TLAPS

(* A set of naturals has a least member: the intervals up to its members are
   finite sets, on which inclusion is well-founded. *)
LEMMA LeastNatural ==
  ASSUME NEW T, T \subseteq Nat, T # {}
  PROVE  \E x \in T : \A y \in T : x <= y
<1> DEFINE U == {0 .. n : n \in T}
<1>1. ASSUME NEW u \in U
      PROVE  u \in FiniteSubsetsOf(Nat)
  <2>1. PICK n \in T : u = 0 .. n
    OBVIOUS
  <2>2. n \in Nat /\ u \subseteq Nat
    BY <2>1
  <2>3. IsFiniteSet(0 .. n)
    BY <2>2, FS_Interval
  <2> QED
    BY <2>1, <2>2, <2>3 DEF FiniteSubsetsOf
<1>2. PICK u \in U : \A v \in U : <<v, u>> \notin StrictSubsetOrdering(Nat)
  <2>1. U \subseteq FiniteSubsetsOf(Nat) /\ U # {}
    BY <1>1
  <2>2. IsWellFoundedOn(StrictSubsetOrdering(Nat), FiniteSubsetsOf(Nat))
    BY FS_StrictSubsetOrderingWellFounded
  <2> HIDE DEF U
  <2> QED
    BY <2>1, <2>2, WFMin, Zenon
<1>3. PICK x \in T : u = 0 .. x
  OBVIOUS
<1>4. ASSUME NEW y \in T, y < x
      PROVE  FALSE
  <2>1. x \in Nat /\ y \in Nat /\ 0 .. y \in U
    OBVIOUS
  <2>2. 0 .. y \subseteq 0 .. x /\ 0 .. x \subseteq Nat /\ 0 .. y \subseteq Nat
    BY <1>4
  <2>3. x \in 0 .. x /\ x \notin 0 .. y
    BY <1>4, <2>1
  <2> QED
    BY <2>1, <2>2, <2>3, <1>2, <1>3 DEF StrictSubsetOrdering
<1> QED
  BY <1>4

(* Induction up to a bound. *)
LEMMA Upwards ==
  ASSUME NEW n \in Nat, NEW T, 0 \in T, \A i \in 1 .. n : i - 1 \in T => i \in T
  PROVE  0 .. n \subseteq T
<1>1. SUFFICES ASSUME NEW j \in 0 .. n, j \notin T
               PROVE  FALSE
  OBVIOUS
<1> DEFINE U == {i \in 0 .. n : i \notin T}
<1>2. PICK x \in U : \A y \in U : x <= y
  <2>1. U \subseteq Nat /\ U # {}
    BY <1>1
  <2> HIDE DEF U
  <2> QED
    BY <2>1, LeastNatural
<1>3. x \in 1 .. n /\ x - 1 \in 0 .. n
  BY <1>2
<1>4. x - 1 \in T
  BY <1>2, <1>3
<1> QED
  BY <1>2, <1>3, <1>4

Follows(f, b, step, n) == f[0] = b /\ \A i \in 1 .. n : f[i] = step[<<i, f[i - 1]>>]

(* A recursive function whose steps stay in S exists, and stays in S. *)
LEMMA Recursion ==
  ASSUME NEW n \in Nat, NEW S, NEW b \in S, NEW step \in [(1 .. n) \X S -> S]
  PROVE  \E f \in [0 .. n -> S] : Follows(f, b, step, n)
<1> DEFINE Good(f, m) ==
             /\ f \in [0 .. m -> S]
             /\ f[0] = b
             /\ \A i \in 1 .. m : f[i] = step[<<i, f[i - 1]>>]
           T == {m \in 0 .. n : \E f : Good(f, m)}
<1>1. 0 \in T
  <2> DEFINE g == [i \in 0 .. 0 |-> b]
  <2>1. Good(g, 0)
    OBVIOUS
  <2> HIDE DEF g
  <2> QED
    BY <2>1
<1>2. ASSUME NEW m \in 1 .. n, m - 1 \in T
      PROVE  m \in T
  <2>1. PICK f : Good(f, m - 1)
    BY <1>2
  <2> DEFINE g == [i \in 0 .. m |-> IF i = m THEN step[<<m, f[m - 1]>>] ELSE f[i]]
  <2>2. f[m - 1] \in S
    BY <2>1
  <2>3. <<m, f[m - 1]>> \in (1 .. n) \X S
    BY <2>2
  <2>4. step[<<m, f[m - 1]>>] \in S
    BY <2>3
  <2>5. \A i \in 0 .. m : g[i] \in S
    BY <2>1, <2>4
  <2>6. g[0] = b
    BY <2>1
  <2>7. ASSUME NEW i \in 1 .. m
        PROVE  g[i] = step[<<i, g[i - 1]>>]
    <3>1. g[i - 1] = f[i - 1]
      OBVIOUS
    <3>2. CASE i = m
      <4>1. g[m] = step[<<m, f[m - 1]>>]
        OBVIOUS
      <4> HIDE DEF g
      <4> QED
        BY <3>1, <3>2, <4>1, Zenon
    <3>3. CASE i \in 1 .. m - 1
      BY <3>1, <3>3, <2>1
    <3> QED
      BY <3>2, <3>3
  <2>8. g \in [0 .. m -> S]
    BY <2>5
  <2> HIDE DEF g
  <2>9. Good(g, m)
    BY <2>6, <2>7, <2>8
  <2> QED
    BY <2>9
<1>3. n \in T
  <2> HIDE DEF T
  <2> QED
    BY <1>1, <1>2, Upwards
<1>4. PICK f : Good(f, n)
  BY <1>3
<1> QED
  BY <1>4 DEF Follows

Picks(pick, s, S) ==
  /\ pick[0] = <<>>
  /\ \A i \in 1 .. Len(s) :
       pick[i] = IF s[i] \in S THEN Append(pick[i - 1], s[i]) ELSE pick[i - 1]
  /\ Only(s, S) = pick[Len(s)]

(* Only, step by step. *)
LEMMA OnlySteps ==
  ASSUME NEW E, NEW s \in Seq(E), NEW S
  PROVE  \E pick \in [0 .. Len(s) -> Seq(E)] : Picks(pick, s, S)
<1> DEFINE n == Len(s)
           Step(i, t) == IF s[i] \in S THEN Append(t, s[i]) ELSE t
           step == [a \in (1 .. n) \X Seq(E) |-> Step(a[1], a[2])]
           F(f) == [i \in 0 .. n |-> IF i = 0 THEN <<>>
                                     ELSE IF s[i] \in S THEN Append(f[i - 1], s[i])
                                     ELSE f[i - 1]]
           pick == CHOOSE f : f = F(f)
<1>1. n \in Nat
  OBVIOUS
<1>2. \A i \in 1 .. n, t \in Seq(E) : Step(i, t) \in Seq(E)
  OBVIOUS
<1>3. step \in [(1 .. n) \X Seq(E) -> Seq(E)]
  BY <1>2
<1>4. \E f \in [0 .. n -> Seq(E)] : Follows(f, <<>>, step, n)
  <2>1. <<>> \in Seq(E)
    OBVIOUS
  <2> HIDE DEF n, step
  <2> QED
    BY <1>1, <1>3, <2>1, Recursion, Zenon
<1>5. PICK f \in [0 .. n -> Seq(E)] :
        f[0] = <<>> /\ \A i \in 1 .. n : f[i] = step[<<i, f[i - 1]>>]
  BY <1>4 DEF Follows
<1>6. f = F(f)
  <2>1. ASSUME NEW i \in 1 .. n
        PROVE  step[<<i, f[i - 1]>>] = Step(i, f[i - 1])
    <3>1. f[i - 1] \in Seq(E)
      OBVIOUS
    <3>2. <<i, f[i - 1]>> \in (1 .. n) \X Seq(E)
      BY <3>1
    <3> HIDE DEF Step
    <3> QED
      BY <3>2
  <2> HIDE DEF step
  <2>2. ASSUME NEW i \in 0 .. n
        PROVE  f[i] = F(f)[i]
    <3>1. CASE i = 0
      BY <3>1, <1>5
    <3>2. CASE i \in 1 .. n
      BY <3>2, <1>5, <2>1
    <3> QED
      BY <3>1, <3>2
  <2>3. f = [i \in 0 .. n |-> f[i]] /\ F(f) = [i \in 0 .. n |-> F(f)[i]]
    OBVIOUS
  <2> QED
    BY <2>2, <2>3
<1>7. pick = F(pick)
  BY <1>6
<1>8. Only(s, S) = pick[n]
  BY DEF Only
<1> HIDE DEF pick
<1>9. pick[0] = <<>> /\ \A i \in 1 .. n : pick[i] = Step(i, pick[i - 1])
  <2>1. pick[0] = F(pick)[0] /\ \A i \in 1 .. n : pick[i] = F(pick)[i]
    BY <1>7
  <2>2. F(pick)[0] = <<>> /\ \A i \in 1 .. n : F(pick)[i] = Step(i, pick[i - 1])
    BY <1>1
  <2> HIDE DEF F, Step
  <2> QED
    BY <2>1, <2>2
<1>10. pick \in [0 .. n -> Seq(E)]
  <2> DEFINE T == {i \in 0 .. n : pick[i] \in Seq(E)}
  <2> HIDE DEF Step
  <2>1. 0 \in T
    <3>1. <<>> \in Seq(E) /\ 0 \in 0 .. n
      BY <1>1
    <3>2. pick[0] \in Seq(E)
      BY <1>9, <3>1, Zenon
    <3> QED
      BY <3>1, <3>2
  <2>2. ASSUME NEW i \in 1 .. n, i - 1 \in T
        PROVE  i \in T
    <3>1. pick[i - 1] \in Seq(E)
      BY <2>2
    <3>2. pick[i] \in Seq(E)
      BY <1>2, <1>9, <3>1
    <3> QED
      BY <3>2
  <2>3. 0 .. n \subseteq T
    <3> HIDE DEF T, n
    <3> QED
      BY <1>1, <2>1, <2>2, Upwards
  <2>4. pick = [i \in 0 .. n |-> pick[i]]
    BY <1>7
  <2> QED
    BY <2>3, <2>4
<1>11. Picks(pick, s, S)
  BY <1>8, <1>9 DEF Picks
<1> QED
  BY <1>10, <1>11

(* t has those of the first m members of s that are in S. *)
Holds(t, s, S, m) ==
  \A x : (\E i \in 1 .. Len(t) : t[i] = x) <=> x \in S /\ \E i \in 1 .. m : s[i] = x

LEMMA HoldsNext ==
  ASSUME NEW E, NEW s \in Seq(E), NEW S, NEW m \in 1 .. Len(s), NEW t \in Seq(E),
         Holds(t, s, S, m - 1)
  PROVE  Holds(IF s[m] \in S THEN Append(t, s[m]) ELSE t, s, S, m)
<1>1. CASE s[m] \in S
  <2> DEFINE u == Append(t, s[m])
  <2>1. /\ Len(u) = Len(t) + 1
        /\ u[Len(t) + 1] = s[m]
        /\ \A i \in 1 .. Len(t) : u[i] = t[i]
    OBVIOUS
  <2> HIDE DEF u
  <2>2. ASSUME NEW x
        PROVE  (\E i \in 1 .. Len(u) : u[i] = x) <=> x \in S /\ \E i \in 1 .. m : s[i] = x
    <3>1. (\E i \in 1 .. Len(u) : u[i] = x) <=> x = s[m] \/ \E i \in 1 .. Len(t) : t[i] = x
      BY <2>1
    <3>2. (\E i \in 1 .. m : s[i] = x) <=> x = s[m] \/ \E i \in 1 .. m - 1 : s[i] = x
      OBVIOUS
    <3>3. (\E i \in 1 .. Len(t) : t[i] = x) <=> x \in S /\ \E i \in 1 .. m - 1 : s[i] = x
      BY DEF Holds
    <3> QED
      BY <1>1, <3>1, <3>2, <3>3, Zenon
  <2> QED
    BY <1>1, <2>2 DEF Holds, u
<1>2. CASE s[m] \notin S
  <2>1. ASSUME NEW x
        PROVE  (\E i \in 1 .. Len(t) : t[i] = x) <=> x \in S /\ \E i \in 1 .. m : s[i] = x
    <3>1. (\E i \in 1 .. m : s[i] = x) <=> x = s[m] \/ \E i \in 1 .. m - 1 : s[i] = x
      OBVIOUS
    <3>2. (\E i \in 1 .. Len(t) : t[i] = x) <=> x \in S /\ \E i \in 1 .. m - 1 : s[i] = x
      BY DEF Holds
    <3> QED
      BY <1>2, <3>1, <3>2, Zenon
  <2> QED
    BY <1>2, <2>1 DEF Holds
<1> QED
  BY <1>1, <1>2

(* What is left of a list has those of its members that are in S. *)
LEMMA OnlyMembers ==
  ASSUME NEW E, NEW s \in Seq(E), NEW S
  PROVE  Only(s, S) \in Seq(E) /\ Holds(Only(s, S), s, S, Len(s))
<1>1. \E pick \in [0 .. Len(s) -> Seq(E)] : Picks(pick, s, S)
  BY OnlySteps
<1>2. PICK pick \in [0 .. Len(s) -> Seq(E)] : Picks(pick, s, S)
  BY <1>1
<1> DEFINE T == {m \in 0 .. Len(s) : Holds(pick[m], s, S, m)}
<1>3. 0 \in T
  <2>1. Holds(<<>>, s, S, 0)
    BY DEF Holds
  <2> QED
    BY <1>2, <2>1 DEF Picks
<1>4. ASSUME NEW m \in 1 .. Len(s), m - 1 \in T
      PROVE  m \in T
  <2>1. pick[m - 1] \in Seq(E) /\ Holds(pick[m - 1], s, S, m - 1)
    BY <1>4
  <2>2. Holds(pick[m], s, S, m)
    BY <1>2, <2>1, HoldsNext DEF Picks
  <2> QED
    BY <2>2
<1>5. Len(s) \in Nat /\ Len(s) \in 0 .. Len(s)
  OBVIOUS
<1>6. 0 .. Len(s) \subseteq T
  <2> HIDE DEF T
  <2> QED
    BY <1>3, <1>4, <1>5, Upwards
<1> QED
  BY <1>2, <1>5, <1>6 DEF Picks

(* all is x and y joined; head is x with the first k of y, and rest what is left. *)
Cut(E, x, y, k, all, head, rest) ==
  /\ all \in Seq(E) /\ head \in Seq(E) /\ rest \in Seq(E)
  /\ Len(all) = Len(x) + Len(y) /\ Len(head) = Len(x) + k /\ Len(rest) = Len(y) - k
  /\ all = head \o rest
  /\ head = SubSeq(all, 1, Len(head))
  /\ rest = SubSeq(all, Len(head) + 1, Len(all))
  /\ rest # <<>> => rest[1] = all[Len(head) + 1]

(* The part of a sequence y that is taken behind x, and what is left of it. *)
LEMMA TakenParts ==
  ASSUME NEW E, NEW x \in Seq(E), NEW y \in Seq(E), NEW k \in 1 .. Len(y)
  PROVE  Cut(E, x, y, k, x \o y, x \o SubSeq(y, 1, k), SubSeq(y, k + 1, Len(y)))
<1> DEFINE all == x \o y
           front == SubSeq(y, 1, k)
           head == x \o front
           rest == SubSeq(y, k + 1, Len(y))
<1>1. /\ front \in Seq(E) /\ Len(front) = k /\ rest \in Seq(E) /\ Len(rest) = Len(y) - k
      /\ front \o rest = y /\ Len(y) \in Nat /\ Len(x) \in Nat
  OBVIOUS
<1> HIDE DEF front, rest
<1>2. /\ all \in Seq(E) /\ Len(all) = Len(x) + Len(y)
      /\ head \in Seq(E) /\ Len(head) = Len(x) + k
  BY <1>1, ConcatProperties
<1>3. head \o rest = all
  <2>1. (x \o front) \o rest = x \o (front \o rest)
    <3>1. front \in Seq(E) /\ rest \in Seq(E)
      BY <1>1
    <3> QED
      BY <3>1
  <2> QED
    BY <1>1, <2>1
<1> HIDE DEF head, all
<1>4. SubSeq(head \o rest, 1, Len(head)) = head
  <2>1. 1 \in 1 .. Len(head) /\ Len(head) \in 1 .. Len(head)
    BY <1>1, <1>2
  <2>2. SubSeq(head \o rest, 1, Len(head)) = SubSeq(head, 1, Len(head))
    BY <1>1, <1>2, <2>1, SubSeqOfConcat1, Zenon
  <2>3. SubSeq(head, 1, Len(head)) = head
    BY <1>2, SubSeqFull, Zenon
  <2> QED
    BY <2>2, <2>3
<1>5. /\ Len(head) \in Nat /\ Len(all) = Len(head) + Len(rest)
      /\ \A i \in 1 .. Len(rest) : all[Len(head) + i] = rest[i]
  <2>1. Len(head) \in Nat /\ Len(rest) \in Nat
    BY <1>1, <1>2
  <2>2. head \in Seq(E) /\ rest \in Seq(E)
    BY <1>1, <1>2
  <2>3. /\ Len(head \o rest) = Len(head) + Len(rest)
        /\ \A i \in 1 .. Len(rest) : (head \o rest)[Len(head) + i] = rest[i]
    BY <2>1, <2>2
  <2> QED
    BY <1>3, <2>1, <2>3
<1>6. SubSeq(all, Len(head) + 1, Len(all)) = rest
  <2> DEFINE t == SubSeq(all, Len(head) + 1, Len(all))
  <2>1. t \in Seq(E) /\ Len(t) = Len(rest) /\ \A i \in 1 .. Len(rest) : t[i] = rest[i]
    <3>1. \A i \in Len(head) + 1 .. Len(all) : all[i] \in E
      BY <1>2, <1>5
    <3>2. Len(rest) \in Nat /\ Len(all) \in Nat
      BY <1>1, <1>2
    <3>3. t \in Seq(E) /\ Len(t) = Len(rest)
      BY <1>5, <3>1, <3>2
    <3>4. ASSUME NEW i \in 1 .. Len(rest)
          PROVE  t[i] = all[Len(head) + i]
      BY <1>5, <3>1, <3>2
    <3> QED
      BY <1>5, <3>3, <3>4
  <2> HIDE DEF t
  <2> QED
    BY <1>1, <2>1, SeqEqual, Zenon DEF t
<1>7. rest # <<>> => rest[1] = all[Len(head) + 1]
  <2>1. rest # <<>> => 1 \in 1 .. Len(rest)
    BY <1>1
  <2> QED
    BY <1>5, <2>1
<1> QED
  BY <1>1, <1>2, <1>3, <1>4, <1>6, <1>7 DEF all, head, front, rest, Cut

Joined(y, x, f) == y = x \o f

(* Joining is associative. *)
LEMMA JoinedBehind ==
  ASSUME NEW E, NEW x \in Seq(E), NEW y \in Seq(E), NEW z \in Seq(E)
  PROVE  Joined(x \o (y \o z), x \o y, z)
<1>1. (x \o y) \o z = x \o (y \o z)
  OBVIOUS
<1> QED
  BY <1>1 DEF Joined
=============================================================================
