---------------------------- MODULE UnixNamesProofs -----------------------------
(***************************************************************************)
(* What UnixNames promises while no server gives its name up, for any      *)
(* number of processes and services and any number of deaths.  With a      *)
(* release it does not hold (README).                                      *)
(*                                                                         *)
(* The lock file is made once and stays, so there is one flock; whoever is *)
(* in claim_server holds it.  That a process which is about to replace the *)
(* pid file finds nobody who has claimed the name follows from what the    *)
(* pid file said when it was checked, and stays true while it has the      *)
(* lock.                                                                   *)
(***************************************************************************)
EXTENDS UnixNames, FiniteSetTheorems, SequenceTheorems, TLAPS

(* Only a finite number of processes, none of which gives its name up. *)
NoReleases ==
  /\ NamesAssumption /\ IsFiniteSet(Procs)
  /\ \A f \in Faults : f.releases = 0

(* No process has begun to release. *)
NotReleasing == \A p \in Procs : pc[p] \notin Releasing

(* There is one lock file, once there is any, and it keeps its name. *)
OneLockFile ==
  /\ Len(holder) = lockfile /\ lockfile \in {0, 1}
  /\ \A p \in Procs : pc[p] = "open" => lockfile = 1

(* Between flock and unlock a process holds the lock. *)
LockHeld ==
  \A p \in Procs :
    /\ pc[p] \in {"flock", "unlock"} \cup Claiming => lock_fd[p] = 1 /\ lockfile = 1
    /\ pc[p] \in {"unlock"} \cup Claiming => holder[1] = p

(* Who replaces the pid file of a name finds nobody who has claimed it. *)
NobodyThere ==
  \A p \in Procs : pc[p] \in {"unlink", "create", "write"} =>
    \A q \in Procs : Service[q] = Service[p] => pc[q] \notin Claimed

(* The pid file that is written is the one in the directory. *)
FileOpen ==
  \A p \in Procs : pc[p] = "write" =>
    /\ pidfile[Service[p]] # NoFile
    /\ pidfile[Service[p]].ino = pid_fd[p]

(* The directory is there for all who have been through mkdir. *)
DirThere == \A p \in Procs : pc[p] \in (Claiming \ {"mkdir"}) \cup Claimed => dir

NInv == /\ TypeOK /\ NotReleasing /\ OneLockFile /\ LockHeld /\ NobodyThere
        /\ FileOpen /\ DirThere /\ ClaimOnRecord /\ ServerReachable

(* At most one process holds the lock. *)
LEMMA OneInside ==
  ASSUME NInv, NEW p \in Procs, NEW q \in Procs,
         pc[p] \in {"unlock"} \cup Claiming, pc[q] \in {"unlock"} \cup Claiming
  PROVE  p = q
BY DEF NInv, LockHeld

(* The pid file tells the one server of a name. *)
LEMMA SameServer ==
  ASSUME NInv, NEW p \in Procs, NEW q \in Procs, Service[p] = Service[q],
         Service[p] \in Services, pc[p] \in Claimed, pc[q] \in Claimed
  PROVE  p = q
BY DEF NInv, ClaimOnRecord, ServersOf

(* UnixNames!OneServer, from the invariant: a set of which any two members are
   equal has at most one. *)
LEMMA AtMostOne ==
  ASSUME NamesAssumption, NInv
  PROVE  OneServer
<1> SUFFICES ASSUME NEW s \in Services PROVE Cardinality(ServersOf(s)) <= 1
  BY DEF OneServer
<1>1. CASE ServersOf(s) = {}
  BY <1>1, FS_EmptySet
<1>2. CASE ServersOf(s) # {}
  <2>1. PICK p \in Procs : p \in ServersOf(s)
    BY <1>2 DEF ServersOf
  <2>2. ServersOf(s) = {p}
    BY <2>1, SameServer DEF ServersOf
  <2> QED
    BY <2>2, FS_Singleton
<1> QED
  BY <1>1, <1>2

LEMMA InitNInv ==
  ASSUME NoReleases, Init
  PROVE  NInv
<1>1. PICK f \in Faults : pc = [p \in Procs |-> IF p \in f.absent THEN "absent" ELSE "start"]
  BY DEF Init
<1>2. \A p \in Procs : pc[p] \in {"absent", "start"}
  BY <1>1
<1>3. holder = <<>> /\ Len(holder) = 0
  BY DEF Init
<1>4. TypeOK
  <2>1. pc \in [Procs -> {"absent", "start"}]
    BY <1>1
  <2>2. holder \in Seq(Procs \cup {NoProc})
    BY <1>3
  <2>3. 0 \in 0 .. Len(holder)
    BY <1>3
  <2> QED
    BY <1>2, <2>1, <2>2, <2>3 DEF Init, TypeOK, Claiming, Claimed, Releasing, Ended
<1>5. ClaimOnRecord /\ ServerReachable
  BY <1>2 DEF ClaimOnRecord, ServerReachable, ServersOf, Claimed
<1>6. NotReleasing /\ LockHeld /\ NobodyThere /\ FileOpen /\ DirThere
  BY <1>2 DEF NotReleasing, LockHeld, NobodyThere, FileOpen, DirThere, Claiming,
       Claimed,
              Releasing
<1>7. OneLockFile
  BY <1>2, <1>3 DEF Init, OneLockFile
<1> QED
  BY <1>4, <1>5, <1>6, <1>7 DEF NInv

(* What a process gives up is a lock nobody else had. *)
LEMMA UnlockedType ==
  ASSUME NInv, NEW p \in Procs
  PROVE  /\ Unlocked(p) \in Seq(Procs \cup {NoProc})
         /\ Len(Unlocked(p)) = Len(holder)
         /\ \A i \in 1 .. Len(holder) :
              Unlocked(p)[i] = IF holder[i] = p THEN NoProc ELSE holder[i]
<1>1. holder \in Seq(Procs \cup {NoProc})
  BY DEF NInv, TypeOK
<1>2. Len(holder) \in Nat /\ DOMAIN holder = 1 .. Len(holder)
  BY <1>1
<1>3. Unlocked(p) \in [1 .. Len(holder) -> Procs \cup {NoProc}]
  BY <1>1, <1>2 DEF Unlocked
<1>4. Unlocked(p) \in Seq(Procs \cup {NoProc}) /\ Len(Unlocked(p)) = Len(holder)
  BY <1>2, <1>3, SeqDef, LenProperties
<1> QED
  BY <1>2, <1>4 DEF Unlocked

LEMMA MakeLockNInv ==
  ASSUME NoReleases, NInv, NEW p \in Procs, MakeLock(p)
  PROVE  NInv'
<1> USE DEF NInv, MakeLock, Goto, fs
<1>1. TypeOK'
  BY UnlockedType DEF TypeOK, OneLockFile, LockHeld, Claiming, Claimed, Releasing,
       Ended, NoReleases, NamesAssumption
<1>2. NotReleasing'
  BY DEF TypeOK, NotReleasing, Releasing
<1>3. OneLockFile'
  BY UnlockedType DEF TypeOK, OneLockFile
<1>4. LockHeld'
  BY UnlockedType, OneInside DEF TypeOK, OneLockFile, LockHeld, Claiming
<1>5. NobodyThere'
  BY OneInside DEF TypeOK, NobodyThere, Claiming, Claimed, ClaimOnRecord, ServersOf,
       Ended
<1>6. FileOpen'
  BY OneInside DEF TypeOK, FileOpen, Claiming, NoReleases, NamesAssumption
<1>7. DirThere'
  BY DEF TypeOK, DirThere, Claiming, Claimed
<1>8. ClaimOnRecord'
  BY OneInside DEF TypeOK, ClaimOnRecord, ServersOf, Claiming, Claimed, NobodyThere,
       FileOpen, NoReleases, NamesAssumption
<1>9. ServerReachable'
  BY SameServer DEF TypeOK, ServerReachable, Claimed, DirThere, NoReleases,
       NamesAssumption
<1> QED
  BY <1>1, <1>2, <1>3, <1>4, <1>5, <1>6, <1>7, <1>8, <1>9

LEMMA OpenLockNInv ==
  ASSUME NoReleases, NInv, NEW p \in Procs, OpenLock(p)
  PROVE  NInv'
<1> USE DEF NInv, OpenLock, Goto, fs
<1>1. TypeOK'
  BY UnlockedType DEF TypeOK, OneLockFile, LockHeld, Claiming, Claimed, Releasing,
       Ended, NoReleases, NamesAssumption
<1>2. NotReleasing'
  BY DEF TypeOK, NotReleasing, Releasing
<1>3. OneLockFile'
  BY UnlockedType DEF TypeOK, OneLockFile
<1>4. LockHeld'
  BY UnlockedType, OneInside DEF TypeOK, OneLockFile, LockHeld, Claiming
<1>5. NobodyThere'
  BY OneInside DEF TypeOK, NobodyThere, Claiming, Claimed, ClaimOnRecord, ServersOf,
       Ended
<1>6. FileOpen'
  BY OneInside DEF TypeOK, FileOpen, Claiming, NoReleases, NamesAssumption
<1>7. DirThere'
  BY DEF TypeOK, DirThere, Claiming, Claimed
<1>8. ClaimOnRecord'
  BY OneInside DEF TypeOK, ClaimOnRecord, ServersOf, Claiming, Claimed, NobodyThere,
       FileOpen, NoReleases, NamesAssumption
<1>9. ServerReachable'
  BY SameServer DEF TypeOK, ServerReachable, Claimed, DirThere, NoReleases,
       NamesAssumption
<1> QED
  BY <1>1, <1>2, <1>3, <1>4, <1>5, <1>6, <1>7, <1>8, <1>9

LEMMA FlockNInv ==
  ASSUME NoReleases, NInv, NEW p \in Procs, Flock(p)
  PROVE  NInv'
<1> USE DEF NInv, Flock, Goto, fs
<1>1. TypeOK'
  <2>1. lock_fd[p] \in 1 .. Len(holder)
    BY DEF TypeOK
  <2>2. holder' \in Seq(Procs \cup {NoProc}) /\ Len(holder') = Len(holder)
    BY <2>1, ExceptSeq DEF TypeOK
  <2>3. pc' \in [Procs -> {"start", "open", "flock"} \cup Claiming \cup Claimed
                          \cup Releasing \cup Ended]
    BY DEF TypeOK, Claiming
  <2>4. \A q \in Procs : pc'[q] \in {"flock"} \cup Claiming =>
           pc[q] \in {"flock"} \cup Claiming
    BY DEF TypeOK, Claiming
  <2> QED
    BY <2>2, <2>3, <2>4 DEF TypeOK
<1>2. NotReleasing'
  BY DEF TypeOK, NotReleasing, Releasing
<1>3. OneLockFile'
  BY UnlockedType DEF TypeOK, OneLockFile
<1>4. LockHeld'
  BY UnlockedType, OneInside DEF TypeOK, OneLockFile, LockHeld, Claiming, NoReleases,
       NamesAssumption
<1>5. NobodyThere'
  <2>1. \A q \in Procs : /\ pc'[q] \in {"unlink", "create", "write"} => pc'[q] = pc[q]
                         /\ pc'[q] \in Claimed => pc'[q] = pc[q]
    BY DEF TypeOK, Claimed
  <2> QED
    BY <2>1 DEF NobodyThere
<1>6. FileOpen'
  BY OneInside DEF TypeOK, FileOpen, Claiming, NoReleases, NamesAssumption
<1>7. DirThere'
  BY DEF TypeOK, DirThere, Claiming, Claimed
<1>8. ClaimOnRecord'
  BY OneInside DEF TypeOK, ClaimOnRecord, ServersOf, Claiming, Claimed, NobodyThere,
       FileOpen, NoReleases, NamesAssumption
<1>9. ServerReachable'
  BY SameServer DEF TypeOK, ServerReachable, Claimed, DirThere, NoReleases,
       NamesAssumption
<1> QED
  BY <1>1, <1>2, <1>3, <1>4, <1>5, <1>6, <1>7, <1>8, <1>9

LEMMA MkDirNInv ==
  ASSUME NoReleases, NInv, NEW p \in Procs, MkDir(p)
  PROVE  NInv'
<1> USE DEF NInv, MkDir, Goto, fs
<1>1. TypeOK'
  BY UnlockedType DEF TypeOK, OneLockFile, LockHeld, Claiming, Claimed, Releasing,
       Ended, NoReleases, NamesAssumption
<1>2. NotReleasing'
  BY DEF TypeOK, NotReleasing, Releasing
<1>3. OneLockFile'
  BY UnlockedType DEF TypeOK, OneLockFile
<1>4. LockHeld'
  BY UnlockedType, OneInside DEF TypeOK, OneLockFile, LockHeld, Claiming
<1>5. NobodyThere'
  BY OneInside DEF TypeOK, NobodyThere, Claiming, Claimed, ClaimOnRecord, ServersOf,
       Ended
<1>6. FileOpen'
  BY OneInside DEF TypeOK, FileOpen, Claiming, NoReleases, NamesAssumption
<1>7. DirThere'
  BY DEF TypeOK, DirThere, Claiming, Claimed
<1>8. ClaimOnRecord'
  BY OneInside DEF TypeOK, ClaimOnRecord, ServersOf, Claiming, Claimed, NobodyThere,
       FileOpen, NoReleases, NamesAssumption
<1>9. ServerReachable'
  BY SameServer DEF TypeOK, ServerReachable, Claimed, DirThere, NoReleases,
       NamesAssumption
<1> QED
  BY <1>1, <1>2, <1>3, <1>4, <1>5, <1>6, <1>7, <1>8, <1>9

LEMMA CheckNInv ==
  ASSUME NoReleases, NInv, NEW p \in Procs, Check(p)
  PROVE  NInv'
<1> USE DEF NInv, Check, Goto, fs, MayBeDead, MayBeAlive, Alive
<1>1. TypeOK'
  <2>1. holder' \in Seq(Procs \cup {NoProc}) /\ Len(holder') = Len(holder)
    BY UnlockedType DEF TypeOK
  <2>2. pc' \in [Procs -> {"start", "open", "flock"} \cup Claiming \cup Claimed
                          \cup Releasing \cup Ended]
    BY DEF TypeOK, Claiming, Ended
  <2>3. \A q \in Procs : pc'[q] \in {"flock"} \cup Claiming =>
           pc[q] \in {"flock"} \cup Claiming
    BY DEF TypeOK, Claiming
  <2> QED
    BY <2>1, <2>2, <2>3 DEF TypeOK
<1>2. NotReleasing'
  BY DEF TypeOK, NotReleasing, Releasing
<1>3. OneLockFile'
  BY UnlockedType DEF TypeOK, OneLockFile
<1>4. LockHeld'
  BY UnlockedType, OneInside DEF TypeOK, OneLockFile, LockHeld, Claiming
<1>5. NobodyThere'
  <2>1. ASSUME NEW q \in Procs, pc'[q] \in {"unlink", "create", "write"},
               NEW r \in Procs, Service[r] = Service[q], pc'[r] \in Claimed
        PROVE  FALSE
    <3>1. pc[r] \in Claimed /\ r \in ServersOf(Service[q]) /\ Service[q] \in Services
      BY <2>1 DEF TypeOK, Claimed, ServersOf, NoReleases, NamesAssumption
    <3>2. pidfile[Service[q]] # NoFile /\ pidfile[Service[q]].pid = r
      BY <3>1 DEF ClaimOnRecord
    <3>3. Alive(r) /\ r # NoProc
      BY <3>1 DEF NotReleasing, Claimed, Ended, NoReleases, NamesAssumption
    <3>4. CASE q = p
      BY <2>1, <3>2, <3>3, <3>4 DEF TypeOK
    <3>5. CASE q # p
      BY <2>1, <3>1, <3>5 DEF TypeOK, NobodyThere
    <3> QED
      BY <3>4, <3>5
  <2> QED
    BY <2>1 DEF NobodyThere
<1>6. FileOpen'
  BY OneInside DEF TypeOK, FileOpen, Claiming, NoReleases, NamesAssumption
<1>7. DirThere'
  BY DEF TypeOK, DirThere, Claiming, Claimed
<1>8. ClaimOnRecord'
  BY OneInside DEF TypeOK, ClaimOnRecord, ServersOf, Claiming, Claimed, NobodyThere,
       FileOpen, NoReleases, NamesAssumption
<1>9. ServerReachable'
  BY SameServer DEF TypeOK, ServerReachable, Claimed, DirThere, NoReleases,
       NamesAssumption
<1> QED
  BY <1>1, <1>2, <1>3, <1>4, <1>5, <1>6, <1>7, <1>8, <1>9

LEMMA UnlinkPidNInv ==
  ASSUME NoReleases, NInv, NEW p \in Procs, UnlinkPid(p)
  PROVE  NInv'
<1> USE DEF NInv, UnlinkPid, Goto, fs
<1>1. TypeOK'
  BY UnlockedType DEF TypeOK, OneLockFile, LockHeld, Claiming, Claimed, Releasing,
       Ended, NoReleases, NamesAssumption
<1>2. NotReleasing'
  BY DEF TypeOK, NotReleasing, Releasing
<1>3. OneLockFile'
  BY UnlockedType DEF TypeOK, OneLockFile
<1>4. LockHeld'
  BY UnlockedType, OneInside DEF TypeOK, OneLockFile, LockHeld, Claiming
<1>5. NobodyThere'
  BY OneInside DEF TypeOK, NobodyThere, Claiming, Claimed, ClaimOnRecord, ServersOf,
       Ended
<1>6. FileOpen'
  BY OneInside DEF TypeOK, FileOpen, Claiming, NoReleases, NamesAssumption
<1>7. DirThere'
  BY DEF TypeOK, DirThere, Claiming, Claimed
<1>8. ClaimOnRecord'
  BY OneInside DEF TypeOK, ClaimOnRecord, ServersOf, Claiming, Claimed, NobodyThere,
       FileOpen, NoReleases, NamesAssumption
<1>9. ServerReachable'
  BY SameServer DEF TypeOK, ServerReachable, Claimed, DirThere, NoReleases,
       NamesAssumption
<1> QED
  BY <1>1, <1>2, <1>3, <1>4, <1>5, <1>6, <1>7, <1>8, <1>9

LEMMA CreatePidNInv ==
  ASSUME NoReleases, NInv, NEW p \in Procs, CreatePid(p)
  PROVE  NInv'
<1> USE DEF NInv, CreatePid, Goto, fs
<1>1. TypeOK'
  <2>1. holder' \in Seq(Procs \cup {NoProc}) /\ Len(holder') = Len(holder)
    BY UnlockedType DEF TypeOK
  <2>2. pc' \in [Procs -> {"start", "open", "flock"} \cup Claiming \cup Claimed
                          \cup Releasing \cup Ended]
    BY DEF TypeOK, Claiming, Claimed, Ended
  <2>3. \A q \in Procs : pc'[q] \in {"flock"} \cup Claiming =>
           pc[q] \in {"flock"} \cup Claiming
    BY DEF TypeOK, Claiming
  <2>4. Service[p] \in Services
    BY DEF NoReleases, NamesAssumption
  <2>5. pidfile' \in [Services -> [ino : Procs, pid : Procs \cup {NoProc}] \cup {NoFile}]
    BY <2>4 DEF TypeOK
  <2>6. pid_fd' \in [Procs -> Procs \cup {NoProc}]
    BY <2>4 DEF TypeOK
  <2> QED
    BY <2>1, <2>2, <2>3, <2>5, <2>6 DEF TypeOK
<1>2. NotReleasing'
  BY DEF TypeOK, NotReleasing, Releasing
<1>3. OneLockFile'
  BY UnlockedType DEF TypeOK, OneLockFile
<1>4. LockHeld'
  BY UnlockedType, OneInside DEF TypeOK, OneLockFile, LockHeld, Claiming
<1>5. NobodyThere'
  BY OneInside DEF TypeOK, NobodyThere, Claiming, Claimed, ClaimOnRecord, ServersOf,
       Ended
<1>6. FileOpen'
  BY OneInside DEF TypeOK, FileOpen, Claiming, NoReleases, NamesAssumption
<1>7. DirThere'
  BY DEF TypeOK, DirThere, Claiming, Claimed
<1>8. ClaimOnRecord'
  BY OneInside DEF TypeOK, ClaimOnRecord, ServersOf, Claiming, Claimed, NobodyThere,
       FileOpen, NoReleases, NamesAssumption
<1>9. ServerReachable'
  BY SameServer DEF TypeOK, ServerReachable, Claimed, DirThere, NoReleases,
       NamesAssumption
<1> QED
  BY <1>1, <1>2, <1>3, <1>4, <1>5, <1>6, <1>7, <1>8, <1>9

LEMMA WritePidNInv ==
  ASSUME NoReleases, NInv, NEW p \in Procs, WritePid(p)
  PROVE  NInv'
<1> USE DEF NInv, WritePid, Goto, fs
<1>1. TypeOK'
  <2>1. holder' \in Seq(Procs \cup {NoProc}) /\ Len(holder') = Len(holder)
    BY UnlockedType DEF TypeOK
  <2>2. pc' \in [Procs -> {"start", "open", "flock"} \cup Claiming \cup Claimed
                          \cup Releasing \cup Ended]
    BY DEF TypeOK, Claiming, Claimed, Ended
  <2>3. \A q \in Procs : pc'[q] \in {"flock"} \cup Claiming =>
           pc[q] \in {"flock"} \cup Claiming
    BY DEF TypeOK, Claiming
  <2>4. Service[p] \in Services
    BY DEF NoReleases, NamesAssumption
  <2>5. pidfile' \in [Services -> [ino : Procs, pid : Procs \cup {NoProc}] \cup {NoFile}]
    BY <2>4 DEF TypeOK
  <2>6. pid_fd' \in [Procs -> Procs \cup {NoProc}]
    BY <2>4 DEF TypeOK
  <2> QED
    BY <2>1, <2>2, <2>3, <2>5, <2>6 DEF TypeOK
<1>2. NotReleasing'
  BY DEF TypeOK, NotReleasing, Releasing
<1>3. OneLockFile'
  BY UnlockedType DEF TypeOK, OneLockFile
<1>4. LockHeld'
  BY UnlockedType, OneInside DEF TypeOK, OneLockFile, LockHeld, Claiming
<1>5. NobodyThere'
  BY OneInside DEF TypeOK, NobodyThere, Claiming, Claimed, ClaimOnRecord, ServersOf,
       Ended
<1>6. FileOpen'
  BY OneInside DEF TypeOK, FileOpen, Claiming, NoReleases, NamesAssumption
<1>7. DirThere'
  BY DEF TypeOK, DirThere, Claiming, Claimed
<1>8. ClaimOnRecord'
  <2>1. Service[p] \in Services /\ pc[p] = "write"
    BY DEF NoReleases, NamesAssumption
  <2>2. pidfile' = [pidfile EXCEPT ![Service[p]].pid = p]
    BY <2>1 DEF FileOpen
  <2>3. pidfile'[Service[p]] \in [ino : Procs, pid : Procs \cup {NoProc}]
        /\ pidfile'[Service[p]].pid = p
    <3>1. pidfile[Service[p]] \in [ino : Procs, pid : Procs \cup {NoProc}]
      BY <2>1 DEF TypeOK, FileOpen
    <3>2. pidfile'[Service[p]] = [pidfile[Service[p]] EXCEPT !.pid = p]
      BY <2>1, <2>2 DEF TypeOK
    <3> QED
      BY <3>1, <3>2
  <2>4. ASSUME NEW s \in Services, NEW q \in Procs, Service[q] = s, pc'[q] \in Claimed
        PROVE  pidfile'[s] # NoFile /\ pidfile'[s].pid = q
    <3>1. CASE q = p
      BY <2>3, <2>4, <3>1 DEF NoReleases, NamesAssumption
    <3>2. CASE q # p
      <4>1. pc[q] \in Claimed
        BY <2>4, <3>2 DEF TypeOK
      <4>2. s # Service[p]
        BY <2>1, <2>4, <4>1 DEF NobodyThere
      <4> QED
        BY <2>2, <2>4, <4>1, <4>2 DEF ClaimOnRecord, ServersOf, TypeOK
    <3> QED
      BY <3>1, <3>2
  <2> QED
    BY <2>4 DEF ClaimOnRecord, ServersOf
<1>9. ServerReachable'
  BY SameServer DEF TypeOK, ServerReachable, Claimed, DirThere, NoReleases,
       NamesAssumption
<1> QED
  BY <1>1, <1>2, <1>3, <1>4, <1>5, <1>6, <1>7, <1>8, <1>9

LEMMA UnlockNInv ==
  ASSUME NoReleases, NInv, NEW p \in Procs, Unlock(p)
  PROVE  NInv'
<1> USE DEF NInv, Unlock, Goto, fs
<1>1. TypeOK'
  BY UnlockedType DEF TypeOK, OneLockFile, LockHeld, Claiming, Claimed, Releasing,
       Ended, NoReleases, NamesAssumption
<1>2. NotReleasing'
  BY DEF TypeOK, NotReleasing, Releasing
<1>3. OneLockFile'
  BY UnlockedType DEF TypeOK, OneLockFile
<1>4. LockHeld'
  BY UnlockedType, OneInside DEF TypeOK, OneLockFile, LockHeld, Claiming
<1>5. NobodyThere'
  BY OneInside DEF TypeOK, NobodyThere, Claiming, Claimed, ClaimOnRecord, ServersOf,
       Ended
<1>6. FileOpen'
  BY OneInside DEF TypeOK, FileOpen, Claiming, NoReleases, NamesAssumption
<1>7. DirThere'
  BY DEF TypeOK, DirThere, Claiming, Claimed
<1>8. ClaimOnRecord'
  BY OneInside DEF TypeOK, ClaimOnRecord, ServersOf, Claiming, Claimed, NobodyThere,
       FileOpen, NoReleases, NamesAssumption
<1>9. ServerReachable'
  BY SameServer DEF TypeOK, ServerReachable, Claimed, DirThere, NoReleases,
       NamesAssumption
<1> QED
  BY <1>1, <1>2, <1>3, <1>4, <1>5, <1>6, <1>7, <1>8, <1>9

LEMMA UnlinkSockNInv ==
  ASSUME NoReleases, NInv, NEW p \in Procs, UnlinkSock(p)
  PROVE  NInv'
<1> USE DEF NInv, UnlinkSock, Goto, fs
<1>1. TypeOK'
  BY UnlockedType DEF TypeOK, OneLockFile, LockHeld, Claiming, Claimed, Releasing,
       Ended, NoReleases, NamesAssumption
<1>2. NotReleasing'
  BY DEF TypeOK, NotReleasing, Releasing
<1>3. OneLockFile'
  BY UnlockedType DEF TypeOK, OneLockFile
<1>4. LockHeld'
  BY UnlockedType, OneInside DEF TypeOK, OneLockFile, LockHeld, Claiming
<1>5. NobodyThere'
  BY OneInside DEF TypeOK, NobodyThere, Claiming, Claimed, ClaimOnRecord, ServersOf,
       Ended
<1>6. FileOpen'
  BY OneInside DEF TypeOK, FileOpen, Claiming, NoReleases, NamesAssumption
<1>7. DirThere'
  BY DEF TypeOK, DirThere, Claiming, Claimed
<1>8. ClaimOnRecord'
  BY OneInside DEF TypeOK, ClaimOnRecord, ServersOf, Claiming, Claimed, NobodyThere,
       FileOpen, NoReleases, NamesAssumption
<1>9. ServerReachable'
  BY SameServer DEF TypeOK, ServerReachable, Claimed, DirThere, NoReleases,
       NamesAssumption
<1> QED
  BY <1>1, <1>2, <1>3, <1>4, <1>5, <1>6, <1>7, <1>8, <1>9

LEMMA BindNInv ==
  ASSUME NoReleases, NInv, NEW p \in Procs, Bind(p)
  PROVE  NInv'
<1> USE DEF NInv, Bind, Goto, fs
<1>1. TypeOK'
  BY UnlockedType DEF TypeOK, OneLockFile, LockHeld, Claiming, Claimed, Releasing,
       Ended, NoReleases, NamesAssumption
<1>2. NotReleasing'
  BY DEF TypeOK, NotReleasing, Releasing
<1>3. OneLockFile'
  BY UnlockedType DEF TypeOK, OneLockFile
<1>4. LockHeld'
  BY UnlockedType, OneInside DEF TypeOK, OneLockFile, LockHeld, Claiming
<1>5. NobodyThere'
  BY OneInside DEF TypeOK, NobodyThere, Claiming, Claimed, ClaimOnRecord, ServersOf,
       Ended
<1>6. FileOpen'
  BY OneInside DEF TypeOK, FileOpen, Claiming, NoReleases, NamesAssumption
<1>7. DirThere'
  BY DEF TypeOK, DirThere, Claiming, Claimed
<1>8. ClaimOnRecord'
  BY OneInside DEF TypeOK, ClaimOnRecord, ServersOf, Claiming, Claimed, NobodyThere,
       FileOpen, NoReleases, NamesAssumption
<1>9. ServerReachable'
  BY SameServer DEF TypeOK, ServerReachable, Claimed, DirThere, NoReleases,
       NamesAssumption
<1> QED
  BY <1>1, <1>2, <1>3, <1>4, <1>5, <1>6, <1>7, <1>8, <1>9

LEMMA CrashNInv ==
  ASSUME NoReleases, NInv, NEW p \in Procs, Crash(p)
  PROVE  NInv'
<1> USE DEF NInv, Crash, Goto, fs, Alive
<1>1. TypeOK'
  BY UnlockedType DEF TypeOK, OneLockFile, LockHeld, Claiming, Claimed, Releasing,
       Ended, NoReleases, NamesAssumption
<1>2. NotReleasing'
  BY DEF TypeOK, NotReleasing, Releasing
<1>3. OneLockFile'
  BY UnlockedType DEF TypeOK, OneLockFile
<1>4. LockHeld'
  BY UnlockedType, OneInside DEF TypeOK, OneLockFile, LockHeld, Claiming
<1>5. NobodyThere'
  BY OneInside DEF TypeOK, NobodyThere, Claiming, Claimed, ClaimOnRecord, ServersOf,
       Ended
<1>6. FileOpen'
  BY OneInside DEF TypeOK, FileOpen, Claiming, NoReleases, NamesAssumption
<1>7. DirThere'
  BY DEF TypeOK, DirThere, Claiming, Claimed
<1>8. ClaimOnRecord'
  BY OneInside DEF TypeOK, ClaimOnRecord, ServersOf, Claiming, Claimed, NobodyThere,
       FileOpen, NoReleases, NamesAssumption
<1>9. ServerReachable'
  BY SameServer DEF TypeOK, ServerReachable, Claimed, DirThere, NoReleases,
       NamesAssumption
<1> QED
  BY <1>1, <1>2, <1>3, <1>4, <1>5, <1>6, <1>7, <1>8, <1>9

(* Nobody closes its socket, nor is there anything to release. *)
LEMMA NoneCloses ==
  ASSUME NoReleases, NInv, NEW p \in Procs
  PROVE  /\ ~Close(p) /\ ~ReleaseSock(p) /\ ~ReleasePid(p)
         /\ ~RmDir(p) /\ ~UnlinkLock(p)
<1>1. ~Close(p)
  <2> SUFFICES ASSUME Tolerated(0, 1) PROVE FALSE
    BY DEF Close
  <2> DEFINE Releasers == {q \in Procs : pc[q] \in Releasing}
  <2>1. PICK f \in Faults : Cardinality(Releasers) + 1 <= f.releases
    BY DEF Tolerated
  <2>2. Cardinality(Releasers) \in Nat
    BY FS_Subset, FS_CardinalityType DEF NoReleases
  <2>3. f.releases = 0
    BY DEF NoReleases
  <2> QED
    BY <2>1, <2>2, <2>3
<1>2. pc[p] \notin Releasing
  BY DEF NInv, NotReleasing
<1> QED
  BY <1>1, <1>2 DEF ReleaseSock, ReleasePid, RmDir, UnlinkLock, Goto, Releasing

LEMMA NextNInv ==
  ASSUME NoReleases, NInv, [Next]_vars
  PROVE  NInv'
<1>1. CASE UNCHANGED vars
  BY <1>1 DEF vars, fs, NInv, TypeOK, NotReleasing, OneLockFile, LockHeld,
       NobodyThere, FileOpen,
              DirThere, ClaimOnRecord, ServerReachable, ServersOf
<1>2. ASSUME NEW p \in Procs, Step(p) \/ Close(p) \/ Crash(p)
      PROVE  NInv'
  BY <1>2, NoneCloses, MakeLockNInv, OpenLockNInv, FlockNInv, MkDirNInv, CheckNInv,
     UnlinkPidNInv, CreatePidNInv, WritePidNInv, UnlockNInv, UnlinkSockNInv, BindNInv,
     CrashNInv DEF Step
<1> QED
  BY <1>1, <1>2 DEF Next

(* While no server gives its name up, the invariant holds, for any number of
   processes and services, whoever is killed at whatever call
   (unix_name.cc:100-203, socket.cc:95-137). *)
THEOREM ClaimsInvariance == NoReleases => (Spec => []NInv)
<1> SUFFICES ASSUME NoReleases PROVE Spec => []NInv
  OBVIOUS
<1>1. Init => NInv
  BY InitNInv
<1>2. NInv /\ [Next]_vars => NInv'
  BY NextNInv
<1> QED BY <1>1, <1>2, PTL DEF Spec

(* At most one living process has claimed a name, whatever crashes leave
   behind (socket.h:193-198, unix_name.cc:162-180). *)
THEOREM NamesServedOnce == NoReleases => (Spec => []OneServer)
<1> SUFFICES ASSUME NoReleases PROVE Spec => []OneServer
  OBVIOUS
<1>1. NInv => OneServer
  BY AtMostOne DEF NoReleases
<1>2. Spec => []NInv
  BY ClaimsInvariance
<1> QED BY <1>1, <1>2, PTL

(* The pid file of a name stands for who has claimed it, and its socket file
   for who serves it (unix_name.cc:166-203, socket.cc:126-137). *)
THEOREM NamesStand == NoReleases => (Spec => []ClaimStands)
<1> SUFFICES ASSUME NoReleases PROVE Spec => []ClaimStands
  OBVIOUS
<1>1. NInv => ClaimStands
  BY DEF NInv, ClaimStands
<1>2. Spec => []NInv
  BY ClaimsInvariance
<1> QED BY <1>1, <1>2, PTL
=================================================================================
