------------------------------ MODULE PlayerProofs ------------------------------
(***************************************************************************)
(* The mutex and the row timer of tm_generator, for any log files, buffers *)
(* and commands, however many commands come.                               *)
(*                                                                         *)
(* execute takes the mutex and hands it on to tm_start, tm_play and the    *)
(* events; each of them is shown to give it back with the timer set as the *)
(* generator's flags say.  A generator that is not hung is so whatever the *)
(* program is about, since only commands change it.                        *)
(***************************************************************************)
EXTENDS Player, TLAPS

Gens == [started : BOOLEAN, regulated : BOOLEAN, period : Nat, tmr : Nat,
         mutex : BOOLEAN, hung : BOOLEAN, autostart : BOOLEAN, autoquit : BOOLEAN]

Free(g) == g \in Gens /\ ~g.mutex /\ ~g.hung
Held(g) == g \in Gens /\ g.mutex /\ ~g.hung

Due(g) == IF g.started /\ g.regulated THEN g.period ELSE 0

Settled(g) == Free(g) /\ g.tmr = Due(g)

(* What the timer depends on. *)
SameFlags(h, g) ==
  h.started = g.started /\ h.regulated = g.regulated /\ h.period = g.period

GenInv == /\ gen \in Gens
          /\ ~gen.hung => Settled(gen)
          /\ gen.hung => gen.tmr = 0 /\ "q" \in Commands /\ pc # "start"

-----------------------------------------------------------------------------
LEMMA LockFree ==
  ASSUME NEW g, Free(g)
  PROVE  Held(Lock(g)) /\ SameFlags(Lock(g), g) /\ Lock(g).tmr = g.tmr
BY DEF Free, Held, Lock, Gens, SameFlags

LEMMA UnlockHeld ==
  ASSUME NEW g, Held(g)
  PROVE  Free(Unlock(g)) /\ SameFlags(Unlock(g), g) /\ Unlock(g).tmr = g.tmr
BY DEF Free, Held, Unlock, Gens, SameFlags

LEMMA EventSettles ==
  ASSUME NEW g, Free(g)
  PROVE  Free(Event(g)) /\ SameFlags(Event(g), g) /\ Event(g).tmr = g.tmr
BY LockFree, UnlockHeld DEF Event, SameFlags

LEMMA SetTimeHeld ==
  ASSUME NEW g, Held(g), NEW period \in Nat
  PROVE  /\ Held(SetTime(g, period)) /\ SameFlags(SetTime(g, period), g)
         /\ SetTime(g, period).tmr = period
BY DEF Held, SetTime, Gens, SameFlags

(* tm_start gives the mutex back and sets the timer. *)
LEMMA TmStartSettles ==
  ASSUME NEW g, Held(g)
  PROVE  Settled(TmStart(g)) /\ TmStart(g).started
<1> DEFINE s == [g EXCEPT !.started = TRUE]
           t == SetTime(s, IF s.regulated THEN s.period ELSE 0)
<1>1. Held(s) /\ s.started /\ s.regulated \in BOOLEAN /\ s.period \in Nat
  BY DEF Held, Gens
<1> HIDE DEF s
<1>2. Held(t) /\ SameFlags(t, s) /\ t.tmr = Due(s)
  BY <1>1, SetTimeHeld DEF Due
<1> HIDE DEF t
<1>3. Free(Unlock(t)) /\ SameFlags(Unlock(t), s) /\ Unlock(t).tmr = Due(s)
  BY <1>2, UnlockHeld DEF SameFlags
<1>4. Free(Event(Unlock(t))) /\ SameFlags(Event(Unlock(t)), s) /\ Event(Unlock(t)).tmr = Due(s)
  BY <1>3, EventSettles DEF SameFlags
<1>5. TmStart(g) = Event(Unlock(t))
  BY Zenon DEF TmStart, t, s
<1> QED
  BY <1>1, <1>4, <1>5 DEF Settled, Due, SameFlags

(* So does tm_play, started or not. *)
LEMMA TmPlaySettles ==
  ASSUME PlayerAssumption, NEW g, Held(g)
  PROVE  Settled(TmPlay(g))
<1> DEFINE r == [g EXCEPT !.regulated = TRUE]
           s == [r EXCEPT !.period = RowPeriod]
<1>1. Held(r) /\ r.regulated
  BY DEF Held, Gens
<1> HIDE DEF r
<1>2. Held(s) /\ s.regulated /\ s.period \in Nat /\ s.started \in BOOLEAN
  BY <1>1 DEF Held, Gens, PlayerAssumption
<1> HIDE DEF s
<1>3. TmPlay(g) = IF s.started THEN Unlock(SetTime(s, s.period)) ELSE TmStart(s)
  BY Zenon DEF TmPlay, s, r
<1>4. CASE s.started
  <2> DEFINE t == SetTime(s, s.period)
  <2>1. Held(t) /\ SameFlags(t, s) /\ t.tmr = s.period
    BY <1>2, SetTimeHeld
  <2> HIDE DEF t
  <2>2. Free(Unlock(t)) /\ SameFlags(Unlock(t), s) /\ Unlock(t).tmr = s.period
    BY <2>1, UnlockHeld DEF SameFlags
  <2>3. TmPlay(g) = Unlock(t)
    BY <1>3, <1>4 DEF t
  <2> QED
    BY <1>2, <1>4, <2>2, <2>3 DEF Settled, Due, SameFlags
<1>5. CASE ~s.started
  BY <1>2, <1>3, <1>5, TmStartSettles
<1> QED
  BY <1>4, <1>5

(* What a command starts from: nothing holds the mutex. *)
LEMMA AtCommand ==
  ASSUME GenInv, Alive
  PROVE  /\ Settled(gen) /\ Held(Lock(gen)) /\ SameFlags(Lock(gen), gen)
         /\ Lock(gen).tmr = gen.tmr /\ Lock(gen).period \in Nat
<1>1. Settled(gen)
  BY DEF GenInv, Alive
<1>2. Held(Lock(gen)) /\ SameFlags(Lock(gen), gen) /\ Lock(gen).tmr = gen.tmr
  BY <1>1, LockFree DEF Settled
<1> QED
  BY <1>1, <1>2 DEF Held, Gens

(* What a command ends in. *)
LEMMA SettledInv ==
  ASSUME NEW g, Settled(g), gen' = g
  PROVE  GenInv'
BY DEF Settled, Free, GenInv, Due

LEMMA StartCmdKeeps ==
  ASSUME GenInv, StartCmd PROVE GenInv'
BY AtCommand, TmStartSettles, SettledInv DEF StartCmd, Command, InLoop, SetGen

LEMMA AutostartKeeps ==
  ASSUME GenInv, Autostart PROVE GenInv'
<1>1. CASE gen.autostart
  BY <1>1, LockFree, TmStartSettles, SettledInv
     DEF Autostart, SetGen, GenInv, Settled
<1>2. CASE ~gen.autostart
  BY <1>2 DEF Autostart, GenInv, Settled, Free, Due
<1> QED
  BY <1>1, <1>2

LEMMA StopCmdKeeps ==
  ASSUME GenInv, StopCmd PROVE GenInv'
<1> DEFINE h == Lock(gen)
           s == [h EXCEPT !.started = FALSE]
           u == Unlock(s)
           t == SetTime(u, 0)
<1>1. Held(h)
  BY AtCommand DEF StopCmd, Command, InLoop
<1> HIDE DEF h
<1>2. Held(s) /\ ~s.started
  BY <1>1 DEF Held, Gens
<1> HIDE DEF s
<1>3. Free(u) /\ ~u.started
  BY <1>2, UnlockHeld DEF SameFlags
<1> HIDE DEF u
<1>4. Free(t) /\ ~t.started /\ t.tmr = 0
  BY <1>3 DEF Free, SetTime, Gens
<1> HIDE DEF t
<1>5. Settled(Event(t))
  BY <1>4, EventSettles DEF Settled, Due, SameFlags
<1>6. gen' = Event(t)
  BY Zenon DEF StopCmd, SetGen, t, u, s, h
<1> QED
  BY <1>5, <1>6, SettledInv

LEMMA StepCmdKeeps ==
  ASSUME GenInv, StepCmd PROVE GenInv'
<1> DEFINE h == Lock(gen)
           g == [h EXCEPT !.regulated = TRUE]
           z == [g EXCEPT !.period = 0]
<1>1. /\ Held(h) /\ SameFlags(h, gen) /\ h.tmr = gen.tmr /\ gen.tmr = Due(gen)
      /\ gen.started \in BOOLEAN
  BY AtCommand DEF StepCmd, Command, InLoop, Settled, Free, Gens
<1> HIDE DEF h
<1>2. /\ Held(g) /\ g.started = gen.started /\ g.regulated /\ g.period = gen.period
      /\ g.tmr = gen.tmr
  BY <1>1 DEF Held, Gens, SameFlags
<1> HIDE DEF g
<1>3. /\ Held(z) /\ z.started = gen.started /\ z.regulated /\ z.period = 0
  BY <1>2 DEF Held, Gens
<1> HIDE DEF z
<1>4. gen' = IF ~gen.started THEN TmStart(z)
             ELSE IF g.period # 0 THEN Unlock(SetTime(z, 0)) ELSE Unlock(g)
  BY Zenon DEF StepCmd, SetGen, z, g, h
<1>5. CASE ~gen.started
  BY <1>3, <1>4, <1>5, TmStartSettles, SettledInv
<1>6. CASE gen.started /\ g.period # 0
  <2> DEFINE t == SetTime(z, 0)
  <2>1. Held(t) /\ SameFlags(t, z) /\ t.tmr = 0
    BY <1>3, SetTimeHeld
  <2> HIDE DEF t
  <2>2. Settled(Unlock(t))
    BY <1>3, <2>1, UnlockHeld DEF Settled, Due, SameFlags
  <2>3. gen' = Unlock(t)
    BY <1>4, <1>6 DEF t
  <2> QED
    BY <2>2, <2>3, SettledInv
<1>7. CASE gen.started /\ g.period = 0
  <2>1. g.tmr = 0
    BY <1>1, <1>2, <1>7 DEF Due
  <2>2. Settled(Unlock(g))
    BY <1>2, <1>7, <2>1, UnlockHeld DEF Settled, Due, SameFlags
  <2> QED
    BY <1>4, <1>7, <2>2, SettledInv
<1> QED
  BY <1>1, <1>5, <1>6, <1>7

LEMMA PlayCmdKeeps ==
  ASSUME PlayerAssumption, GenInv, PlayCmd PROVE GenInv'
BY AtCommand, TmPlaySettles, SettledInv DEF PlayCmd, Command, InLoop, SetGen

LEMMA FasterCmdKeeps ==
  ASSUME PlayerAssumption, GenInv, FasterCmd PROVE GenInv'
<1> DEFINE g == Lock(gen)
           faster == (g.period * 2) \div 3
           p == [g EXCEPT !.period = faster]
           s == [p EXCEPT !.regulated = FALSE]
<1>1. Held(g) /\ g.period \in Nat /\ g.started \in BOOLEAN /\ g.regulated \in BOOLEAN
  BY AtCommand DEF FasterCmd, Command, InLoop, Held, Gens
<1> HIDE DEF g
<1>2. faster \in Nat
  BY <1>1
<1> HIDE DEF faster
<1>3. Held(p) /\ p.started = g.started /\ p.regulated = g.regulated /\ p.period = faster
  BY <1>1, <1>2 DEF Held, Gens
<1> HIDE DEF p
<1>4. Held(s) /\ ~s.regulated
  BY <1>3 DEF Held, Gens
<1> HIDE DEF s
<1>5. gen' = IF ~g.started \/ (g.regulated /\ g.period = 0) THEN TmPlay(g)
             ELSE IF ~g.regulated THEN Unlock(g)
             ELSE IF faster < 1 THEN Event(Unlock(SetTime(s, 0)))
             ELSE Unlock(SetTime(p, faster))
  BY Zenon DEF FasterCmd, SetGen, s, p, faster, g
<1>6. CASE ~g.started \/ (g.regulated /\ g.period = 0)
  BY <1>1, <1>5, <1>6, TmPlaySettles, SettledInv
<1>7. CASE g.started /\ ~g.regulated
  <2>1. g.tmr = 0
    BY <1>7, AtCommand DEF FasterCmd, Command, InLoop, Settled, Due, SameFlags, g
  <2>2. Settled(Unlock(g))
    BY <1>1, <1>7, <2>1, UnlockHeld DEF Settled, Due, SameFlags
  <2>3. gen' = Unlock(g)
    BY <1>5, <1>7
  <2> QED
    BY <2>2, <2>3, SettledInv
<1>8. CASE g.started /\ g.regulated /\ g.period # 0 /\ faster < 1
  <2>1. Held(SetTime(s, 0)) /\ SameFlags(SetTime(s, 0), s) /\ SetTime(s, 0).tmr = 0
    BY <1>4, SetTimeHeld
  <2> DEFINE u == Unlock(SetTime(s, 0))
  <2>2. Free(u) /\ ~u.regulated /\ u.tmr = 0
    BY <1>4, <2>1, UnlockHeld DEF SameFlags
  <2> HIDE DEF u
  <2>3. Settled(Event(u))
    BY <2>2, EventSettles DEF Settled, Due, SameFlags
  <2>4. gen' = Event(u)
    BY <1>5, <1>8 DEF u
  <2> QED
    BY <2>3, <2>4, SettledInv
<1>9. CASE g.started /\ g.regulated /\ g.period # 0 /\ ~(faster < 1)
  <2> DEFINE t == SetTime(p, faster)
  <2>1. Held(t) /\ SameFlags(t, p) /\ t.tmr = faster
    BY <1>2, <1>3, SetTimeHeld
  <2> HIDE DEF t
  <2>2. Settled(Unlock(t))
    BY <1>3, <1>9, <2>1, UnlockHeld DEF Settled, Due, SameFlags
  <2>3. gen' = Unlock(t)
    BY <1>5, <1>9 DEF t
  <2> QED
    BY <2>2, <2>3, SettledInv
<1> QED
  BY <1>1, <1>6, <1>7, <1>8, <1>9

LEMMA SlowerCmdKeeps ==
  ASSUME PlayerAssumption, GenInv, SlowerCmd PROVE GenInv'
<1> DEFINE g == Lock(gen)
           slower == (g.period * 3) \div 2
           p == [g EXCEPT !.period = slower]
           s == [p EXCEPT !.regulated = TRUE]
           t == SetTime(s, slower)
<1>1. Held(g) /\ g.period \in Nat /\ g.started \in BOOLEAN
  BY AtCommand DEF SlowerCmd, Command, InLoop, Held, Gens
<1> HIDE DEF g
<1>2. slower \in Nat
  BY <1>1
<1> HIDE DEF slower
<1>3. Held(p) /\ p.started = g.started /\ p.period = slower
  BY <1>1, <1>2 DEF Held, Gens
<1> HIDE DEF p
<1>4. Held(s) /\ s.regulated /\ s.started = g.started /\ s.period = slower
  BY <1>3 DEF Held, Gens
<1> HIDE DEF s
<1>5. Held(t) /\ SameFlags(t, s) /\ t.tmr = slower
  BY <1>2, <1>4, SetTimeHeld
<1> HIDE DEF t
<1>6. gen' = IF ~g.started THEN TmPlay(g) ELSE Unlock(t)
  BY Zenon DEF SlowerCmd, SetGen, t, s, p, slower, g
<1>7. CASE ~g.started
  BY <1>1, <1>6, <1>7, TmPlaySettles, SettledInv
<1>8. CASE g.started
  <2>1. Settled(Unlock(t))
    BY <1>4, <1>5, <1>8, UnlockHeld DEF Settled, Due, SameFlags
  <2>2. gen' = Unlock(t)
    BY <1>6, <1>8
  <2> QED
    BY <2>1, <2>2, SettledInv
<1> QED
  BY <1>1, <1>7, <1>8

LEMMA FastForwardCmdKeeps ==
  ASSUME GenInv, FastForwardCmd PROVE GenInv'
<1> DEFINE h == Lock(gen)
           f == [h EXCEPT !.regulated = FALSE]
           g == SetTime(f, 0)
<1>1. Held(h)
  BY AtCommand DEF FastForwardCmd, Command, InLoop
<1> HIDE DEF h
<1>2. Held(f) /\ ~f.regulated
  BY <1>1 DEF Held, Gens
<1> HIDE DEF f
<1>3. Held(g) /\ ~g.regulated /\ g.tmr = 0
  BY <1>2, SetTimeHeld DEF SameFlags
<1> HIDE DEF g
<1>4. gen' = IF g.started THEN Event(Unlock(g)) ELSE TmStart(g)
  BY Zenon DEF FastForwardCmd, SetGen, g, f, h
<1>5. CASE g.started
  <2>1. Free(Unlock(g)) /\ ~Unlock(g).regulated /\ Unlock(g).tmr = 0
    BY <1>3, UnlockHeld DEF SameFlags
  <2>2. Settled(Event(Unlock(g)))
    BY <2>1, EventSettles DEF Settled, Due, SameFlags
  <2>3. gen' = Event(Unlock(g))
    BY <1>4, <1>5
  <2> QED
    BY <2>2, <2>3, SettledInv
<1>6. CASE ~g.started
  BY <1>3, <1>4, <1>6, TmStartSettles, SettledInv
<1> QED
  BY <1>5, <1>6

(* Quit hangs on the mutex it holds, with the timer stopped. *)
LEMMA QuitCmdKeeps ==
  ASSUME GenInv, QuitCmd PROVE GenInv'
<1> DEFINE h == Lock(gen)
           t == SetTime(h, 0)
<1>1. Held(h)
  BY AtCommand DEF QuitCmd, Command, InLoop
<1> HIDE DEF h
<1>2. Held(t) /\ t.tmr = 0
  BY <1>1, SetTimeHeld
<1> HIDE DEF t
<1>3. Lock(t) \in Gens /\ Lock(t).hung /\ Lock(t).tmr = 0
  BY <1>2 DEF Held, Lock, Gens
<1>4. gen' = Lock(t)
  BY Zenon DEF QuitCmd, SetGen, t, h
<1>5. "q" \in Commands /\ pc' # "start"
  BY DEF QuitCmd, Command, InLoop, NoStep
<1> QED
  BY <1>3, <1>4, <1>5 DEF GenInv

LEMMA InitGenInv ==
  ASSUME PlayerAssumption, Init PROVE GenInv
<1>1. PICK opt \in Options :
        gen = [started |-> FALSE, regulated |-> opt.regulate,
               period |-> RowPeriod, tmr |-> 0, mutex |-> FALSE, hung |-> FALSE,
               autostart |-> opt.autostart, autoquit |-> opt.autoquit]
  BY DEF Init
<1>2. opt \in [autostart : BOOLEAN, regulate : BOOLEAN, autoquit : BOOLEAN]
      /\ RowPeriod \in Nat
  BY DEF PlayerAssumption
<1> QED
  BY <1>1, <1>2 DEF GenInv, Settled, Free, Due, Gens

LEMMA NextGenInv ==
  ASSUME PlayerAssumption, GenInv, [Next]_vars PROVE GenInv'
<1>1. CASE Cmd
  BY <1>1, StartCmdKeeps, StopCmdKeeps, StepCmdKeeps, PlayCmdKeeps, FasterCmdKeeps,
     SlowerCmdKeeps, FastForwardCmdKeeps, QuitCmdKeeps DEF Cmd
<1>2. CASE Autostart
  BY <1>2, AutostartKeeps
<1>3. CASE UNCHANGED gen /\ (pc' = "start" => pc = "start")
  BY <1>3 DEF GenInv, Settled, Free, Due
<1>4. CASE Inner /\ ~Autostart
  <2>1. UNCHANGED gen /\ (pc' = "start" => pc = "start")
    BY <1>4 DEF Inner, TstampIn, DataIn, Copy, EndRead, SendTstamp, SendRows, SkipRef,
                EndTransmit, Beside, Leave
  <2> QED
    BY <1>3, <2>1
<1>5. CASE ReadFile \/ ReadEof \/ Tick \/ Negotiated \/ WriteMore \/ End \/ BfrReads
  <2>1. UNCHANGED gen /\ (pc' = "start" => pc = "start")
    BY <1>5 DEF ReadFile, ReadEof, Tick, Negotiated, WriteMore, End, BfrReads
  <2> QED
    BY <1>3, <2>1
<1>6. CASE UNCHANGED vars
  BY <1>3, <1>6 DEF vars
<1> QED
  BY <1>1, <1>2, <1>4, <1>5, <1>6 DEF Next

(* Whatever commands come, in whatever order, at whatever stage of playing: a
   generator that is not hung has its mutex free and its timer as its flags
   say (tm_gen.cc:187-325). *)
THEOREM GeneratorInvariance == Spec => []GenInv
<1>1. Init => GenInv
  BY InitGenInv, PlayerAssumption
<1>2. GenInv /\ [Next]_vars => GenInv'
  BY NextGenInv, PlayerAssumption
<1> QED BY <1>1, <1>2, PTL DEF Spec

(* Between handlers the mutex is free, and only Quit hangs on it
   (tm_gen.cc:193-282, rdr.cc:195-219). *)
THEOREM MutexStaysFree == Spec => []MutexFree
<1>1. GenInv => MutexFree
  BY DEF GenInv, Settled, Free, MutexFree, InLoop, Alive
<1> QED BY <1>1, GeneratorInvariance, PTL

(* The row timer runs just when rows leave at its pace (tm_gen.cc:187-264,
   297-325). *)
THEOREM TimerStaysRight == Spec => []TimerKept
<1>1. GenInv => TimerKept
  BY DEF GenInv, Settled, Due, TimerKept, InLoop, Alive
<1> QED BY <1>1, GeneratorInvariance, PTL
-----------------------------------------------------------------------------
(* The end of playback at full speed. *)

(* Where the program is between reads, and what -q can count on at full speed:
   obuf holds nothing when the file ends. *)
Reading ==
  /\ pc \in {"start", "loop", "data", "transmit"}
  /\ life \in {"running", "shutdown", "ended", "fatal"}
  /\ pc \in {"start", "loop"} \/ (pc = "transmit" /\ single) =>
       todo = <<>> /\ n_rows = 0
  /\ pc = "start" => life = "running"
  /\ ~mlf.open => ~(mlf.nth < Len(Files)) /\ (gen.autoquit => life # "running")

FullSpeed ==
  /\ ~gen.regulated /\ ~single
  /\ negotiated => (buffering <=> out.pending # <<>>)
  /\ ~negotiated => buffering /\ out.pending = <<>> /\ pc \in {"start", "loop"}
  /\ pc \in {"start", "loop"} /\ mlf.reading => ~buffering
  /\ life \in {"shutdown", "ended"} =>
       pc = "loop" /\ ~mlf.open /\ negotiated /\ out.pending = <<>>
  /\ life = "ended" => Ready

PlayInv ==
  /\ DOMAIN out = {"sock", "pending", "iov", "wiov", "overflow"}
  /\ DOMAIN mlf = {"open", "reading", "left", "nth"}
  /\ Reading
  /\ ~everRegulated => FullSpeed

(* The parts of the generator the start of a file depends on. *)
Flags == {"started", "regulated", "period", "tmr", "mutex", "hung", "autostart",
          "autoquit"}

Alike(h, g) == /\ DOMAIN h = Flags
               /\ h.autoquit = g.autoquit /\ h.regulated = g.regulated

LEMMA HelpersAlike ==
  ASSUME NEW g, DOMAIN g = Flags, NEW period
  PROVE  /\ Alike(Lock(g), g) /\ Alike(Unlock(g), g) /\ Alike(SetTime(g, period), g)
         /\ Alike([g EXCEPT !.started = TRUE], g)
         /\ Alike([g EXCEPT !.started = FALSE], g)
         /\ Alike([g EXCEPT !.period = period], g)
<1>1. Alike(Lock(g), g)
  BY DEF Lock, Alike, Flags
<1>2. Alike(Unlock(g), g)
  BY DEF Unlock, Alike, Flags
<1>3. Alike(SetTime(g, period), g)
  BY DEF SetTime, Alike, Flags
<1>4. /\ Alike([g EXCEPT !.started = TRUE], g) /\ Alike([g EXCEPT !.started = FALSE], g)
      /\ Alike([g EXCEPT !.period = period], g)
  BY DEF Alike, Flags
<1> QED
  BY <1>1, <1>2, <1>3, <1>4

LEMMA EventAlike ==
  ASSUME NEW g, DOMAIN g = Flags PROVE Alike(Event(g), g)
BY HelpersAlike DEF Event, Alike

LEMMA TmStartAlike ==
  ASSUME NEW g, DOMAIN g = Flags PROVE Alike(TmStart(g), g)
<1> DEFINE s == [g EXCEPT !.started = TRUE]
           t == SetTime(s, IF s.regulated THEN s.period ELSE 0)
<1>1. Alike(s, g)
  BY HelpersAlike
<1> HIDE DEF s
<1>2. Alike(t, s)
  BY <1>1, HelpersAlike DEF Alike
<1> HIDE DEF t
<1>3. Alike(Unlock(t), t)
  BY <1>2, HelpersAlike DEF Alike
<1>4. Alike(Event(Unlock(t)), Unlock(t))
  BY <1>3, EventAlike DEF Alike
<1>5. TmStart(g) = Event(Unlock(t))
  BY Zenon DEF TmStart, t, s
<1> QED
  BY <1>1, <1>2, <1>3, <1>4, <1>5 DEF Alike

LEMMA TmPlayAlike ==
  ASSUME NEW g, DOMAIN g = Flags
  PROVE  DOMAIN TmPlay(g) = Flags /\ TmPlay(g).autoquit = g.autoquit /\ TmPlay(g).regulated
<1> DEFINE r == [g EXCEPT !.regulated = TRUE]
           s == [r EXCEPT !.period = RowPeriod]
<1>1. DOMAIN r = Flags /\ r.autoquit = g.autoquit /\ r.regulated
  BY DEF Flags
<1> HIDE DEF r
<1>2. DOMAIN s = Flags /\ s.autoquit = g.autoquit /\ s.regulated
  BY <1>1, HelpersAlike DEF Alike
<1> HIDE DEF s
<1>3. TmPlay(g) = IF s.started THEN Unlock(SetTime(s, s.period)) ELSE TmStart(s)
  BY Zenon DEF TmPlay, s, r
<1> DEFINE t == SetTime(s, s.period)
<1>4. Alike(Unlock(t), s)
  <2>1. Alike(t, s)
    BY <1>2, HelpersAlike
  <2> HIDE DEF t
  <2>2. Alike(Unlock(t), t)
    BY <2>1, HelpersAlike DEF Alike
  <2> QED
    BY <2>1, <2>2 DEF Alike
<1>5. Alike(TmStart(s), s)
  BY <1>2, TmStartAlike
<1> QED
  BY <1>2, <1>3, <1>4, <1>5 DEF Alike

LEMMA LockAlike ==
  ASSUME GenInv
  PROVE  DOMAIN gen = Flags /\ Alike(Lock(gen), gen)
<1>1. DOMAIN gen = Flags
  BY DEF GenInv, Gens, Flags
<1> QED
  BY <1>1, HelpersAlike

(* No command changes whether the program ends by itself, and what a command
   leaves regulated has been regulated. *)
AsToldAtStart == gen'.autoquit = gen.autoquit /\ everRegulated' = (everRegulated \/ gen'.regulated)

LEMMA StartCmdTold ==
  ASSUME GenInv, StartCmd PROVE AsToldAtStart
BY LockAlike, TmStartAlike DEF StartCmd, SetGen, AsToldAtStart, Alike

LEMMA StopCmdTold ==
  ASSUME GenInv, StopCmd PROVE AsToldAtStart
<1> DEFINE s == [Lock(gen) EXCEPT !.started = FALSE]
           t == SetTime(Unlock(s), 0)
<1>1. Alike(s, Lock(gen))
  BY LockAlike, HelpersAlike DEF Alike
<1> HIDE DEF s
<1>2. Alike(t, s)
  BY <1>1, HelpersAlike DEF Alike
<1> HIDE DEF t
<1>3. Alike(Event(t), t)
  BY <1>2, EventAlike DEF Alike
<1>4. gen' = Event(t) /\ everRegulated' = (everRegulated \/ Event(t).regulated)
  BY Zenon DEF StopCmd, SetGen, t, s
<1> QED
  BY <1>1, <1>2, <1>3, <1>4, LockAlike DEF Alike, AsToldAtStart

LEMMA StepCmdTold ==
  ASSUME GenInv, StepCmd PROVE AsToldAtStart /\ gen'.regulated
<1> DEFINE g == [Lock(gen) EXCEPT !.regulated = TRUE]
           z == [g EXCEPT !.period = 0]
           s == IF ~gen.started THEN TmStart(z)
                ELSE IF g.period # 0 THEN Unlock(SetTime(z, 0)) ELSE Unlock(g)
<1>1. DOMAIN g = Flags /\ g.autoquit = gen.autoquit /\ g.regulated
  BY LockAlike DEF Alike, Flags
<1> HIDE DEF g
<1>2. Alike(z, g)
  BY <1>1, HelpersAlike
<1> HIDE DEF z
<1>3. Alike(TmStart(z), z) /\ Alike(Unlock(g), g)
  BY <1>1, <1>2, TmStartAlike, HelpersAlike DEF Alike
<1>4. Alike(Unlock(SetTime(z, 0)), z)
  BY <1>2, HelpersAlike DEF Alike
<1>5. s.autoquit = gen.autoquit /\ s.regulated
  BY <1>1, <1>2, <1>3, <1>4 DEF Alike
<1>6. gen' = s /\ everRegulated' = (everRegulated \/ s.regulated)
  BY Zenon DEF StepCmd, SetGen, s, z, g
<1> QED
  BY <1>5, <1>6 DEF AsToldAtStart

LEMMA PlayCmdTold ==
  ASSUME GenInv, PlayCmd PROVE AsToldAtStart
BY LockAlike, TmPlayAlike DEF PlayCmd, SetGen, AsToldAtStart, Alike

LEMMA FasterCmdTold ==
  ASSUME GenInv, FasterCmd PROVE AsToldAtStart
<1> DEFINE g == Lock(gen)
           faster == (g.period * 2) \div 3
           p == [g EXCEPT !.period = faster]
           r == [p EXCEPT !.regulated = FALSE]
           s == IF ~g.started \/ (g.regulated /\ g.period = 0) THEN TmPlay(g)
                ELSE IF ~g.regulated THEN Unlock(g)
                ELSE IF faster < 1 THEN Event(Unlock(SetTime(r, 0)))
                ELSE Unlock(SetTime(p, faster))
<1>1. DOMAIN g = Flags /\ g.autoquit = gen.autoquit
  BY LockAlike DEF Alike
<1> HIDE DEF g, faster
<1>2. Alike(p, g)
  BY <1>1, HelpersAlike
<1> HIDE DEF p
<1>3. DOMAIN r = Flags /\ r.autoquit = gen.autoquit
  BY <1>1, <1>2 DEF Alike, Flags
<1> HIDE DEF r
<1>4. Alike(SetTime(r, 0), r) /\ Alike(SetTime(p, faster), p)
  BY <1>2, <1>3, HelpersAlike DEF Alike
<1>5. /\ Alike(Unlock(SetTime(r, 0)), SetTime(r, 0))
      /\ Alike(Unlock(SetTime(p, faster)), SetTime(p, faster)) /\ Alike(Unlock(g), g)
  BY <1>1, <1>4, HelpersAlike DEF Alike
<1>6. Alike(Event(Unlock(SetTime(r, 0))), Unlock(SetTime(r, 0)))
  BY <1>5, EventAlike DEF Alike
<1>7. TmPlay(g).autoquit = g.autoquit
  BY <1>1, TmPlayAlike
<1>8. s.autoquit = gen.autoquit
  BY <1>1, <1>2, <1>3, <1>4, <1>5, <1>6, <1>7 DEF Alike
<1>9. gen' = s /\ everRegulated' = (everRegulated \/ s.regulated)
  BY Zenon DEF FasterCmd, SetGen, s, r, p, faster, g
<1> QED
  BY <1>8, <1>9 DEF AsToldAtStart

LEMMA SlowerCmdTold ==
  ASSUME GenInv, SlowerCmd PROVE AsToldAtStart
<1> DEFINE g == Lock(gen)
           slower == (g.period * 3) \div 2
           p == [g EXCEPT !.period = slower]
           r == [p EXCEPT !.regulated = TRUE]
           t == SetTime(r, slower)
           s == IF ~g.started THEN TmPlay(g) ELSE Unlock(t)
<1>1. DOMAIN g = Flags /\ g.autoquit = gen.autoquit
  BY LockAlike DEF Alike
<1> HIDE DEF g, slower
<1>2. Alike(p, g)
  BY <1>1, HelpersAlike
<1> HIDE DEF p
<1>3. DOMAIN r = Flags /\ r.autoquit = gen.autoquit
  BY <1>1, <1>2 DEF Alike, Flags
<1> HIDE DEF r
<1>4. Alike(t, r)
  BY <1>3, HelpersAlike
<1> HIDE DEF t
<1>5. Alike(Unlock(t), t)
  BY <1>4, HelpersAlike DEF Alike
<1>6. s.autoquit = gen.autoquit
  BY <1>1, <1>3, <1>4, <1>5, TmPlayAlike DEF Alike
<1>7. gen' = s /\ everRegulated' = (everRegulated \/ s.regulated)
  BY Zenon DEF SlowerCmd, SetGen, s, t, r, p, slower, g
<1> QED
  BY <1>6, <1>7 DEF AsToldAtStart

LEMMA FastForwardCmdTold ==
  ASSUME GenInv, FastForwardCmd PROVE AsToldAtStart
<1> DEFINE f == [Lock(gen) EXCEPT !.regulated = FALSE]
           g == SetTime(f, 0)
           s == IF g.started THEN Event(Unlock(g)) ELSE TmStart(g)
<1>1. DOMAIN f = Flags /\ f.autoquit = gen.autoquit
  BY LockAlike DEF Alike, Flags
<1> HIDE DEF f
<1>2. Alike(g, f)
  BY <1>1, HelpersAlike
<1> HIDE DEF g
<1>3. Alike(Unlock(g), g) /\ Alike(TmStart(g), g)
  BY <1>2, HelpersAlike, TmStartAlike DEF Alike
<1>4. Alike(Event(Unlock(g)), Unlock(g))
  BY <1>3, EventAlike DEF Alike
<1>5. s.autoquit = gen.autoquit
  BY <1>1, <1>2, <1>3, <1>4 DEF Alike
<1>6. gen' = s /\ everRegulated' = (everRegulated \/ s.regulated)
  BY Zenon DEF FastForwardCmd, SetGen, s, g, f
<1> QED
  BY <1>5, <1>6 DEF AsToldAtStart

LEMMA QuitCmdTold ==
  ASSUME GenInv, QuitCmd PROVE AsToldAtStart
<1> DEFINE t == SetTime(Lock(gen), 0)
<1>1. Alike(t, Lock(gen))
  BY LockAlike, HelpersAlike DEF Alike
<1> HIDE DEF t
<1>2. Alike(Lock(t), t)
  BY <1>1, HelpersAlike DEF Alike
<1>3. gen' = Lock(t) /\ everRegulated' = (everRegulated \/ Lock(t).regulated)
  BY Zenon DEF QuitCmd, SetGen, t
<1> QED
  BY <1>1, <1>2, <1>3, LockAlike DEF Alike, AsToldAtStart

-----------------------------------------------------------------------------
(* The files: a command opens none but the one the playback goes on with, and
   asks for no end that had not been asked for. *)

Mlf == {"open", "reading", "left", "nth"}

LEMMA NextFileShape ==
  ASSUME DOMAIN mlf = Mlf
  PROVE  /\ DOMAIN NextFile(mlf) = Mlf
         /\ NextFile(mlf).reading => ~buffering
         /\ ~NextFile(mlf).open => ~(NextFile(mlf).nth < Len(Files))
         /\ ~(mlf.nth < Len(Files)) => ~NextFile(mlf).open
<1>1. CASE mlf.nth < Len(Files)
  BY <1>1 DEF NextFile, Mlf
<1>2. CASE ~(mlf.nth < Len(Files))
  BY <1>2 DEF NextFile, Mlf
<1> QED
  BY <1>1, <1>2

FileStands ==
  /\ DOMAIN mlf' = Mlf
  /\ mlf'.reading => mlf.reading \/ ~buffering
  /\ ~mlf'.open => ~(mlf'.nth < Len(Files)) /\ (gen.autoquit => life # "running")
  /\ ~mlf.open => ~mlf'.open
  /\ life' = life

LEMMA EventStartFile ==
  ASSUME PlayInv, life \in {"running", "shutdown"}, EventStart
  PROVE  FileStands
<1> DEFINE m == IF mlf.open THEN mlf ELSE NextFile(mlf)
<1>1. DOMAIN mlf = Mlf
  BY DEF PlayInv, Mlf
<1>2. /\ DOMAIN m = Mlf
      /\ ~m.open => ~(m.nth < Len(Files)) /\ (gen.autoquit => life # "running")
      /\ ~mlf.open => ~m.open
  BY <1>1, NextFileShape DEF PlayInv, Reading
<1>3. mlf' = [m EXCEPT !.reading = ~buffering]
  BY DEF EventStart
<1>4. life' = life
  BY NextFileShape DEF EventStart, AfterEof, PlayInv, Reading
<1> HIDE DEF m
<1> QED
  BY <1>2, <1>3, <1>4 DEF FileStands, Mlf

LEMMA StoppedFile ==
  ASSUME PlayInv, life' = life, mlf' = mlf \/ mlf' = [mlf EXCEPT !.reading = FALSE]
  PROVE  FileStands
BY DEF PlayInv, Reading, FileStands, Mlf

(* Every command and the start of the program. *)
LEMMA CommandPlays ==
  ASSUME PlayInv, life \in {"running", "shutdown"}, pc \in {"start", "loop"},
         AsToldAtStart, Elsewhere, FileStands,
         \/ pc' = "loop" /\ UNCHANGED single
         \/ pc' = "transmit" /\ single' /\ gen'.regulated
  PROVE  PlayInv'
<1>1. /\ DOMAIN out' = {"sock", "pending", "iov", "wiov", "overflow"}
      /\ DOMAIN mlf' = {"open", "reading", "left", "nth"}
  BY DEF PlayInv, Elsewhere, conn, FileStands, Mlf
<1>2. Reading'
  BY DEF PlayInv, Reading, Elsewhere, FileStands, AsToldAtStart
<1>3. ASSUME ~everRegulated' PROVE FullSpeed'
  <2>1. ~everRegulated /\ ~gen'.regulated /\ FullSpeed
    BY <1>3 DEF AsToldAtStart, PlayInv
  <2>2. UNCHANGED <<negotiated, buffering, out, q, single>> /\ pc' = "loop"
    BY <2>1 DEF Elsewhere, conn, queue
  <2> QED
    BY <2>1, <2>2 DEF FullSpeed, FileStands, Ready
<1> QED
  BY <1>1, <1>2, <1>3 DEF PlayInv

LEMMA CmdPlays ==
  ASSUME GenInv, PlayInv, Cmd PROVE PlayInv'
<1>1. pc = "loop" /\ life \in {"running", "shutdown"} /\ Elsewhere
  BY DEF Cmd, StartCmd, StopCmd, StepCmd, PlayCmd, FasterCmd, SlowerCmd, FastForwardCmd,
         QuitCmd, Command, InLoop, Alive
<1>2. FileStands
  <2>1. EventStart \/ (life' = life /\ (mlf' = mlf \/ mlf' = [mlf EXCEPT !.reading = FALSE]))
    BY DEF Cmd, StartCmd, StopCmd, StepCmd, PlayCmd, FasterCmd, SlowerCmd,
           FastForwardCmd, QuitCmd, Started
  <2> QED
    BY <1>1, <2>1, EventStartFile, StoppedFile
<1>3. AsToldAtStart
  BY StartCmdTold, StopCmdTold, StepCmdTold, PlayCmdTold, FasterCmdTold, SlowerCmdTold,
     FastForwardCmdTold, QuitCmdTold DEF Cmd
<1>4. CASE StepCmd
  <2>1. pc' = "transmit" /\ single' /\ gen'.regulated
    BY <1>4, StepCmdTold DEF StepCmd
  <2> QED
    BY <1>1, <1>2, <1>3, <2>1, CommandPlays
<1>5. CASE ~StepCmd
  <2>1. pc' = "loop" /\ UNCHANGED single
    BY <1>1, <1>5 DEF Cmd, StartCmd, StopCmd, PlayCmd, FasterCmd, SlowerCmd,
                      FastForwardCmd, QuitCmd, NoStep
  <2> QED
    BY <1>1, <1>2, <1>3, <2>1, CommandPlays
<1> QED
  BY <1>4, <1>5

LEMMA AutostartPlays ==
  ASSUME GenInv, PlayInv, Autostart PROVE PlayInv'
<1>1. pc = "start" /\ pc' = "loop" /\ life = "running" /\ Elsewhere /\ UNCHANGED single
  BY DEF Autostart, PlayInv, Reading
<1>2. CASE gen.autostart
  <2>1. AsToldAtStart
    BY <1>2, LockAlike, TmStartAlike DEF Autostart, SetGen, AsToldAtStart, Alike
  <2>2. FileStands
    BY <1>1, <1>2, EventStartFile DEF Autostart
  <2> QED
    BY <1>1, <2>1, <2>2, CommandPlays
<1>3. CASE ~gen.autostart
  <2>1. UNCHANGED <<gen, everRegulated, mlf, life>>
    BY <1>3 DEF Autostart
  <2>2. FileStands
    BY <2>1, StoppedFile
  <2> QED
    BY <1>1, <2>1, <2>2 DEF PlayInv, Reading, FullSpeed, Elsewhere, conn, queue, Ready
<1> QED
  BY <1>2, <1>3

-----------------------------------------------------------------------------
(* Output. *)

OutShape(o) == DOMAIN o = {"sock", "pending", "iov", "wiov", "overflow"}

LEMMA SendKeepsShape ==
  ASSUME NEW o, OutShape(o), NEW parts
  PROVE  OutShape(PutOut(o)) /\ OutShape(IWritev(o, parts))
<1>1. ASSUME NEW p, OutShape(p) PROVE OutShape(PutOut(p))
  BY <1>1 DEF PutOut, OutShape
<1>2. OutShape(FillObuf(o, parts))
  BY DEF FillObuf, OutShape
<1>3. OutShape(WriteVector(o, parts))
  BY DEF WriteVector, OutShape
<1> QED
  BY <1>1, <1>2, <1>3 DEF IWritev

(* What writing does to the state: the flag follows obuf. *)
Wrote ==
  /\ OutShape(out')
  /\ buffering' = (out'.pending # <<>>)
  /\ DOMAIN mlf' = Mlf /\ mlf'.open = mlf.open /\ mlf'.nth = mlf.nth
  /\ mlf'.reading => mlf.reading \/ ~buffering'

LEMMA BufferingWrote ==
  ASSUME DOMAIN mlf = Mlf, NEW o, OutShape(o), Buffering(o)
  PROVE  Wrote
BY DEF Buffering, Wrote, Mlf

LEMMA SendMsgWrote ==
  ASSUME PlayInv, NEW parts, SendMsg(parts)
  PROVE  Wrote /\ life' \in {"fatal", life}
<1>1. OutShape(IWritev(out, parts)) /\ DOMAIN mlf = Mlf
  BY SendKeepsShape DEF PlayInv, OutShape, Mlf
<1> QED
  BY <1>1, BufferingWrote DEF SendMsg, Fatal

(* Messages go out of transmit_data only after a read, unless one row is sent
   at a time. *)
LEMMA TransmitPlays ==
  ASSUME PlayInv, InTransmit, Beside, Wrote, life' \in {"fatal", life},
         (UNCHANGED pc) \/ Leave
  PROVE  PlayInv'
<1>1. Reading'
  BY DEF PlayInv, Reading, InTransmit, Alive, Beside, Wrote, Leave
<1>2. ASSUME ~everRegulated' PROVE FullSpeed'
  <2>1. FullSpeed /\ negotiated /\ life = "running"
    BY <1>2 DEF PlayInv, FullSpeed, InTransmit, Alive, Beside
  <2>2. pc' \in {"transmit", "data"} /\ life' \in {"fatal", "running"}
    BY <2>1 DEF FullSpeed, InTransmit, Leave
  <2> QED
    BY <2>1, <2>2 DEF FullSpeed, Beside, Wrote
<1> QED
  BY <1>1, <1>2 DEF PlayInv, Wrote, OutShape, Mlf

LEMMA InnerPlays ==
  ASSUME GenInv, PlayInv, Inner PROVE PlayInv'
<1>1. CASE Autostart
  BY <1>1, AutostartPlays
<1>2. CASE TstampIn \/ DataIn \/ Copy
  <2>1. /\ pc = "data" /\ pc' \in {"data", "transmit"} /\ Alive
        /\ pc' = "transmit" => ~gen.regulated /\ ~single'
        /\ pc' = "data" => UNCHANGED single
        /\ UNCHANGED <<gen, mlf, conn, life, everRegulated>>
    BY <1>2 DEF TstampIn, DataIn, Copy, InData
  <2>2. Reading'
    BY <2>1 DEF PlayInv, Reading
  <2>3. ASSUME ~everRegulated' PROVE FullSpeed'
    BY <2>1, <2>3 DEF PlayInv, FullSpeed, conn, Alive
  <2> QED
    BY <2>1, <2>2, <2>3 DEF PlayInv, conn
<1>3. CASE EndRead
  <2>1. DOMAIN mlf' = Mlf /\ mlf'.open = mlf.open /\ mlf'.nth = mlf.nth /\ (mlf'.reading => ~buffering)
    BY <1>3 DEF EndRead, PlayInv, Mlf
  <2>2. Reading'
    BY <1>3, <2>1 DEF EndRead, InData, PlayInv, Reading
  <2>3. ASSUME ~everRegulated' PROVE FullSpeed'
    BY <1>3, <2>1, <2>3 DEF EndRead, InData, Alive, PlayInv, FullSpeed, conn, queue
  <2> QED
    BY <1>3, <2>1, <2>2, <2>3 DEF PlayInv, EndRead, conn, Mlf
<1>4. CASE SendTstamp \/ SendRows
  <2>1. InTransmit /\ Beside /\ (UNCHANGED pc \/ Leave) /\ \E parts : SendMsg(parts)
    BY <1>4 DEF SendTstamp, SendRows
  <2> QED
    BY <2>1, SendMsgWrote, TransmitPlays
<1>5. CASE SkipRef \/ EndTransmit
  <2>1. InTransmit /\ Beside /\ (UNCHANGED pc \/ Leave) /\ UNCHANGED <<mlf, buffering, out, life>>
    BY <1>5 DEF SkipRef, EndTransmit
  <2>2. Reading'
    BY <2>1 DEF PlayInv, Reading, InTransmit, Alive, Beside, Leave
  <2>3. ASSUME ~everRegulated' PROVE FullSpeed'
    BY <2>1, <2>3 DEF PlayInv, FullSpeed, InTransmit, Alive, Beside, Leave
  <2> QED
    BY <2>1, <2>2, <2>3 DEF PlayInv
<1> QED
  BY <1>1, <1>2, <1>3, <1>4, <1>5 DEF Inner

(* Reading begins only when obuf is empty, so at the end of the last file
   nothing waits in it. *)
LEMMA ReadPlays ==
  ASSUME PlayInv, ReadFile \/ ReadEof PROVE PlayInv'
<1>1. CASE ReadFile
  <2>1. DOMAIN mlf' = Mlf /\ mlf'.open = mlf.open /\ mlf'.nth = mlf.nth /\ mlf'.reading = mlf.reading
    BY <1>1 DEF ReadFile, PlayInv, Mlf
  <2>2. Reading'
    BY <1>1, <2>1 DEF ReadFile, InLoop, Alive, PlayInv, Reading
  <2>3. ASSUME ~everRegulated' PROVE FullSpeed'
    BY <1>1, <2>1, <2>3 DEF ReadFile, InLoop, Alive, PlayInv, FullSpeed, conn
  <2> QED
    BY <1>1, <2>1, <2>2, <2>3 DEF PlayInv, ReadFile, conn, Mlf
<1>2. CASE ReadEof
  <2>1. /\ DOMAIN mlf' = Mlf
        /\ mlf'.reading => ~buffering
        /\ ~mlf'.open => ~(mlf'.nth < Len(Files))
        /\ life' = IF ~mlf'.open /\ gen.autoquit THEN "shutdown" ELSE life
    BY <1>2, NextFileShape DEF ReadEof, AfterEof, PlayInv, Mlf
  <2>2. /\ pc = "loop" /\ pc' = "loop" /\ life \in {"running", "shutdown"} /\ mlf.reading /\ mlf.open
        /\ UNCHANGED <<gen, queue, todo, n_rows, single, conn, everRegulated>>
    BY <1>2 DEF ReadEof, InLoop, Alive
  <2>3. Reading'
    BY <2>1, <2>2 DEF PlayInv, Reading
  <2>4. ASSUME ~everRegulated' PROVE FullSpeed'
    <3>1. FullSpeed /\ negotiated /\ out.pending = <<>> /\ life = "running"
      BY <2>2, <2>4 DEF PlayInv, FullSpeed
    <3> QED
      BY <2>1, <2>2, <3>1 DEF FullSpeed, conn
  <2> QED
    BY <2>1, <2>2, <2>3, <2>4 DEF PlayInv, conn, Mlf
<1> QED
  BY <1>1, <1>2

LEMMA TickPlays ==
  ASSUME PlayInv, Tick PROVE PlayInv'
<1>1. Reading'
  BY DEF Tick, InLoop, Alive, PlayInv, Reading, input
<1>2. everRegulated'
  BY DEF Tick, PlayInv, FullSpeed
<1> QED
  BY <1>1, <1>2 DEF PlayInv, Tick, conn, input

LEMMA ConnectionPlays ==
  ASSUME PlayInv, Negotiated \/ WriteMore \/ BfrReads PROVE PlayInv'
<1>1. CASE Negotiated
  <2>1. Wrote /\ life' \in {"fatal", life}
    BY <1>1, SendMsgWrote DEF Negotiated
  <2>2. /\ pc = "loop" /\ pc' = "loop" /\ ~negotiated /\ negotiated' /\ Alive
        /\ UNCHANGED <<gen, queue, todo, n_rows, single, everRegulated>>
    BY <1>1 DEF Negotiated, InLoop
  <2>3. Reading'
    BY <2>1, <2>2 DEF PlayInv, Reading, Wrote
  <2>4. ASSUME ~everRegulated' PROVE FullSpeed'
    <3>1. FullSpeed /\ ~mlf.reading /\ life = "running"
      BY <2>2, <2>4 DEF PlayInv, FullSpeed, Alive
    <3> QED
      BY <2>1, <2>2, <3>1 DEF FullSpeed, Wrote
  <2> QED
    BY <2>1, <2>2, <2>3, <2>4 DEF PlayInv, Wrote, OutShape, Mlf
<1>2. CASE WriteMore
  <2>1. Wrote
    BY <1>2, SendKeepsShape, BufferingWrote DEF WriteMore, PlayInv, OutShape, Mlf
  <2>2. /\ pc = "loop" /\ pc' = "loop" /\ out.pending # <<>> /\ Alive /\ life' = life
        /\ UNCHANGED <<gen, queue, todo, n_rows, single, everRegulated, negotiated>>
    BY <1>2 DEF WriteMore, InLoop
  <2>3. Reading'
    BY <2>1, <2>2 DEF PlayInv, Reading, Wrote
  <2>4. ASSUME ~everRegulated' PROVE FullSpeed'
    <3>1. FullSpeed /\ negotiated /\ buffering /\ ~mlf.reading /\ life = "running"
      BY <2>2, <2>4 DEF PlayInv, FullSpeed, Alive
    <3> QED
      BY <2>1, <2>2, <3>1 DEF FullSpeed, Wrote
  <2> QED
    BY <2>1, <2>2, <2>3, <2>4 DEF PlayInv, Wrote, OutShape, Mlf
<1>3. CASE BfrReads
  <2>1. out' = [out EXCEPT !.sock = <<>>] /\ UNCHANGED <<gen, queue, input, pc, single,
          negotiated, buffering, life, everRegulated>>
    BY <1>3 DEF BfrReads
  <2>2. DOMAIN out' = DOMAIN out /\ out'.pending = out.pending
    BY <2>1 DEF PlayInv
  <2>3. Reading'
    BY <2>1 DEF PlayInv, Reading, input
  <2>4. ASSUME ~everRegulated' PROVE FullSpeed'
    BY <2>1, <2>2, <2>4 DEF PlayInv, FullSpeed, input, queue, Ready
  <2> QED
    BY <2>1, <2>2, <2>3, <2>4 DEF PlayInv, input
<1> QED
  BY <1>1, <1>2, <1>3

LEMMA EndPlays ==
  ASSUME PlayInv, End PROVE PlayInv'
<1>1. Reading'
  BY DEF End, InLoop, Alive, PlayInv, Reading, input
<1>2. ASSUME ~everRegulated' PROVE FullSpeed'
  BY <1>2 DEF End, InLoop, Alive, PlayInv, FullSpeed, input, conn, queue, Ready
<1> QED
  BY <1>1, <1>2 DEF PlayInv, End, conn, input

LEMMA StutterPlays ==
  ASSUME PlayInv, UNCHANGED vars PROVE PlayInv'
BY DEF PlayInv, Reading, FullSpeed, Ready, vars, input, conn, queue

LEMMA InitPlayInv ==
  ASSUME Init PROVE PlayInv
BY DEF Init, PlayInv, Reading, FullSpeed

LEMMA NextPlayInv ==
  ASSUME GenInv, PlayInv, [Next]_vars PROVE PlayInv'
BY CmdPlays, InnerPlays, ReadPlays, TickPlays, ConnectionPlays, EndPlays, StutterPlays DEF Next

(* Nothing is read before everything read is written, and the end of the last
   file is read as everything is: whatever the files, the buffers and the
   commands (rdr.cc:66-97, 240-277). *)
THEOREM PlayInvariance == Spec => []PlayInv
<1>1. Init => PlayInv
  BY InitPlayInv
<1>2. GenInv /\ PlayInv /\ [Next]_vars => PlayInv'
  BY NextPlayInv
<1> QED BY <1>1, <1>2, GeneratorInvariance, PTL DEF Spec

(* At full speed, -q ends the program after every row has been written
   (rdr.cc:86-90, 98-106). *)
THEOREM EndsAfterAll == Spec => []EndsComplete
<1>1. PlayInv => EndsComplete
  BY DEF PlayInv, Reading, FullSpeed, EndsComplete
<1> QED BY <1>1, PlayInvariance, PTL
=============================================================================
