------------------------------- MODULE UnixNames --------------------------------
(***************************************************************************)
(* How the servers of an Experiment share /var/run/linkeng/<Experiment>    *)
(* (unix_name.cc, and Socket::connect and Socket::close of socket.cc): a   *)
(* lock file beside the directory serialises the claims, a pid file in it  *)
(* says which process serves a name, a socket file is what clients         *)
(* connect to.  One action per system call, since other processes run in   *)
(* between.  A process claims once; a pid is not used again.               *)
(***************************************************************************)
EXTENDS Naturals, Sequences, FiniteSets

CONSTANTS
  Procs,        \* server processes of the Experiment
  Services,     \* names of services
  Service,      \* the service each process serves
  NoFile,       \* a file that is not there
  NoProc,       \* nobody
  Faults        \* bound: what may happen in one behaviour: the processes that
                \* are never started, how many die, how many close their socket

NamesAssumption ==
  /\ Service \in [Procs -> Services]
  /\ NoFile \notin Procs /\ NoProc \notin Procs
  /\ NoFile \notin [ino : Procs, pid : Procs \cup {NoProc}]
  /\ Faults \subseteq [absent : SUBSET Procs, crashes : Nat, releases : Nat]

VARIABLES
  pc,        \* where each process is
  lock_fd,   \* the lock file each process has open, 0 if none
  holder,    \* who holds the flock on each lock file ever made
  lockfile,  \* which lock file the name stands for, 0 if none
  dir,       \* the Experiment directory exists
  pidfile,   \* the pid file of each service: its inode and the pid in it
  pid_fd,    \* the inode of the pid file each process has open for writing
  sockfile   \* who listens on the socket file of each service

fs   == <<lockfile, dir, pidfile, pid_fd, sockfile>>
vars == <<pc, lock_fd, holder, fs>>

Claiming  == {"mkdir", "check", "unlink", "create", "write"}
Claimed   == {"unlock", "rmsock", "bind", "serving", "rel_sock", "rel_pid"}
Releasing == {"rel_sock", "rel_pid", "rel_dir", "rel_lock", "done"}
Ended     == {"refused", "failed", "dead", "done", "absent"}

Init ==
  /\ \E f \in Faults : pc = [p \in Procs |-> IF p \in f.absent THEN "absent" ELSE "start"]
  /\ lock_fd = [p \in Procs |-> 0]
  /\ holder = <<>>
  /\ lockfile = 0
  /\ dir = FALSE
  /\ pidfile = [s \in Services |-> NoFile]
  /\ pid_fd = [p \in Procs |-> NoProc]
  /\ sockfile = [s \in Services |-> NoFile]

(* Whether d processes may die and r give their name up. *)
Tolerated(d, r) ==
  LET Among(states) == Cardinality({p \in Procs : pc[p] \in states})
  IN \E f \in Faults : /\ \A p \in Procs : pc[p] = "absent" <=> p \in f.absent
                       /\ Among({"dead"}) + d <= f.crashes
                       /\ Among(Releasing) + r <= f.releases

Goto(p, from, to) == pc[p] = from /\ pc' = [pc EXCEPT ![p] = to]

-----------------------------------------------------------------------------
(* lock(); the process tries again after 200 ms (socket.cc:99-104).        *)

(* open(O_CREAT|O_EXCL) makes the lock file unless it is there. *)
MakeLock(p) ==
  /\ Goto(p, "start", "open")
  /\ \/ lockfile = 0 /\ holder' = Append(holder, NoProc) /\ lockfile' = Len(holder')
     \/ lockfile # 0 /\ UNCHANGED <<holder, lockfile>>
  /\ UNCHANGED <<lock_fd, dir, pidfile, pid_fd, sockfile>>

(* Mutant of OpenLock: a failing open is not noticed. *)
OpenUnchecked(p) ==
  /\ Goto(p, "open", "flock")
  /\ lock_fd' = [lock_fd EXCEPT ![p] = lockfile]
  /\ UNCHANGED <<holder, fs>>

(* open(O_RDONLY) fails when the lock file has gone again. *)
OpenLock(p) ==
  /\ \/ lockfile # 0 /\ Goto(p, "open", "flock")
     \/ lockfile = 0 /\ Goto(p, "open", "start")
  /\ lock_fd' = [lock_fd EXCEPT ![p] = lockfile]
  /\ UNCHANGED <<holder, fs>>

(* Mutant of Flock: the result of flock is not looked at. *)
FlockAnyway(p) ==
  /\ Goto(p, "flock", "mkdir")
  /\ holder' = [holder EXCEPT ![lock_fd[p]] = p]
  /\ UNCHANGED <<lock_fd, fs>>

Flock(p) ==
  /\ \/ /\ Goto(p, "flock", "mkdir")
        /\ holder[lock_fd[p]] = NoProc
        /\ holder' = [holder EXCEPT ![lock_fd[p]] = p]
     \/ /\ Goto(p, "flock", "start")
        /\ holder[lock_fd[p]] # NoProc
        /\ UNCHANGED holder
  /\ UNCHANGED <<lock_fd, fs>>

(* The flock of a process goes with it, and with unlock(). *)
Unlocked(p) == [i \in DOMAIN holder |-> IF holder[i] = p THEN NoProc ELSE holder[i]]

-----------------------------------------------------------------------------
(* claim_server()                                                          *)

MkDir(p) ==
  /\ Goto(p, "mkdir", "check")
  /\ dir' = TRUE
  /\ UNCHANGED <<lock_fd, holder, lockfile, pidfile, pid_fd, sockfile>>

Alive(p) == pc[p] \notin Ended

(* kill(pid, 0) of the pid in the file.  An empty file leaves pid_buf as it
   was, uninitialised: any answer is possible. *)
MayBeAlive(file) == file.pid # NoProc => Alive(file.pid)

MayBeDead(file)  == file.pid # NoProc => ~Alive(file.pid)

Check(p) ==
  LET file == pidfile[Service[p]]
  IN /\ \/ file = NoFile /\ Goto(p, "check", "create") /\ UNCHANGED holder
        \/ /\ file # NoFile /\ MayBeAlive(file)
           /\ Goto(p, "check", "refused")
           /\ holder' = Unlocked(p)
        \/ /\ file # NoFile /\ MayBeDead(file)
           /\ Goto(p, "check", "unlink") /\ UNCHANGED holder
     /\ UNCHANGED <<lock_fd, fs>>

UnlinkPid(p) ==
  /\ Goto(p, "unlink", "create")
  /\ pidfile' = [pidfile EXCEPT ![Service[p]] = NoFile]
  /\ UNCHANGED <<lock_fd, holder, lockfile, dir, pid_fd, sockfile>>

(* fopen(pid_name, "w"): the file is empty until it is closed. *)
CreatePid(p) ==
  LET file == pidfile[Service[p]]
      ino  == IF file = NoFile THEN p ELSE file.ino
  IN \/ /\ dir
        /\ Goto(p, "create", "write")
        /\ pidfile' = [pidfile EXCEPT ![Service[p]] = [ino |-> ino, pid |-> NoProc]]
        /\ pid_fd' = [pid_fd EXCEPT ![p] = ino]
        /\ UNCHANGED <<lock_fd, holder, lockfile, dir, sockfile>>
     \/ /\ ~dir
        /\ Goto(p, "create", "refused")
        /\ holder' = Unlocked(p)
        /\ UNCHANGED <<lock_fd, fs>>

(* fprintf and fclose; the file may have been unlinked. *)
WritePid(p) ==
  LET file == pidfile[Service[p]]
  IN /\ Goto(p, "write", "unlock")
     /\ pidfile' = IF file # NoFile /\ file.ino = pid_fd[p]
                   THEN [pidfile EXCEPT ![Service[p]].pid = p] ELSE pidfile
     /\ UNCHANGED <<lock_fd, holder, lockfile, dir, pid_fd, sockfile>>

(* Mutant of Unlock: the lock stays. *)
UnlockNothing(p) == Goto(p, "unlock", "rmsock") /\ UNCHANGED <<lock_fd, holder, fs>>

Unlock(p) ==
  /\ Goto(p, "unlock", "rmsock")
  /\ holder' = Unlocked(p)
  /\ lock_fd' = [lock_fd EXCEPT ![p] = 0]
  /\ UNCHANGED fs

-----------------------------------------------------------------------------
(* The rest of connect(), behind the lock.                                 *)

UnlinkSock(p) ==
  /\ Goto(p, "rmsock", "bind")
  /\ sockfile' = [sockfile EXCEPT ![Service[p]] = NoFile]
  /\ UNCHANGED <<lock_fd, holder, lockfile, dir, pidfile, pid_fd>>

(* bind() fails, and the process ends, when the name exists or the directory
   does not; it takes a name given up badly to get there (names_two). *)
Bind(p) ==
  LET bound == dir /\ sockfile[Service[p]] = NoFile
  IN /\ Goto(p, "bind", IF bound THEN "serving" ELSE "failed")
     /\ sockfile' = IF bound THEN [sockfile EXCEPT ![Service[p]] = p] ELSE sockfile
     /\ UNCHANGED <<lock_fd, holder, lockfile, dir, pidfile, pid_fd>>

-----------------------------------------------------------------------------
(* close() of the server socket: release_server(), without the lock.       *)

Close(p) ==
  /\ Tolerated(0, 1)
  /\ Goto(p, "serving", "rel_sock")
  /\ UNCHANGED <<lock_fd, holder, fs>>

ReleaseSock(p) ==
  /\ Goto(p, "rel_sock", "rel_pid")
  /\ sockfile' = [sockfile EXCEPT ![Service[p]] = NoFile]
  /\ UNCHANGED <<lock_fd, holder, lockfile, dir, pidfile, pid_fd>>

ReleasePid(p) ==
  /\ Goto(p, "rel_pid", "rel_dir")
  /\ pidfile' = [pidfile EXCEPT ![Service[p]] = NoFile]
  /\ UNCHANGED <<lock_fd, holder, lockfile, dir, pid_fd, sockfile>>

DirEmpty == \A s \in Services : pidfile[s] = NoFile /\ sockfile[s] = NoFile

RmDir(p) ==
  \/ /\ dir /\ DirEmpty
     /\ Goto(p, "rel_dir", "rel_lock")
     /\ dir' = FALSE
     /\ UNCHANGED <<lock_fd, holder, lockfile, pidfile, pid_fd, sockfile>>
  \/ /\ ~(dir /\ DirEmpty)
     /\ Goto(p, "rel_dir", "done")
     /\ UNCHANGED <<lock_fd, holder, fs>>

UnlinkLock(p) ==
  /\ Goto(p, "rel_lock", "done")
  /\ lockfile' = 0
  /\ UNCHANGED <<lock_fd, holder, dir, pidfile, pid_fd, sockfile>>

(* The process is killed: the kernel gives up its lock, its files stay. *)
Crash(p) ==
  /\ Alive(p)
  /\ Tolerated(1, 0)
  /\ pc' = [pc EXCEPT ![p] = "dead"]
  /\ holder' = Unlocked(p)
  /\ UNCHANGED <<lock_fd, fs>>

Step(p) ==
  \/ MakeLock(p) \/ OpenLock(p) \/ Flock(p)
  \/ MkDir(p) \/ Check(p) \/ UnlinkPid(p) \/ CreatePid(p) \/ WritePid(p) \/ Unlock(p)
  \/ UnlinkSock(p) \/ Bind(p)
  \/ ReleaseSock(p) \/ ReleasePid(p) \/ RmDir(p) \/ UnlinkLock(p)

Next == \E p \in Procs : Step(p) \/ Close(p) \/ Crash(p)

(* A process that is not killed makes its next call; the retry of lock() is
   on a timer. *)
Spec == Init /\ [][Next]_vars /\ \A p \in Procs : WF_vars(Step(p))
-----------------------------------------------------------------------------
TypeOK ==
  /\ pc \in [Procs -> {"start", "open", "flock"} \cup Claiming \cup Claimed
                      \cup Releasing \cup Ended]
  /\ lock_fd \in [Procs -> 0 .. Len(holder)]
  /\ \A p \in Procs : pc[p] \in {"flock"} \cup Claiming => lock_fd[p] # 0
  /\ holder \in Seq(Procs \cup {NoProc})
  /\ lockfile \in 0 .. Len(holder)
  /\ dir \in BOOLEAN
  /\ pidfile \in [Services -> [ino : Procs, pid : Procs \cup {NoProc}] \cup {NoFile}]
  /\ pid_fd \in [Procs -> Procs \cup {NoProc}]
  /\ sockfile \in [Services -> Procs \cup {NoFile}]

ServersOf(s) == {p \in Procs : Service[p] = s /\ pc[p] \in Claimed}

(* At most one living process has claimed a name, whatever crashes leave
   behind (socket.h:193-198, unix_name.cc:162-180). *)
OneServer == \A s \in Services : Cardinality(ServersOf(s)) <= 1

(* The pid file of a name stands for the process that has claimed it, until
   that process gives the name up: it is what refuses the next one
   (unix_name.cc:166-178, 196-203). *)
ClaimOnRecord ==
  \A s \in Services : \A p \in ServersOf(s) :
    pidfile[s] # NoFile /\ pidfile[s].pid = p

(* A client that connects to the socket file of a name gets the process that
   serves it (socket.cc:126-137). *)
ServerReachable ==
  \A p \in Procs : pc[p] = "serving" => dir /\ sockfile[Service[p]] = p

(* A name that is claimed stays so, and leads to the server that claimed it
   (unix_name.cc:166-203, socket.cc:126-137). *)
ClaimStands == ClaimOnRecord /\ ServerReachable

(* claim_server refuses a process only while a living one has claimed the
   name (socket.h:194-198).  It does not hold, with a release nor with
   a crash (README). *)
RefusedForOwner ==
  [][\A p \in Procs : (pc[p] # "refused" /\ pc'[p] = "refused") =>
                        ServersOf(Service[p]) # {}]_vars

(* A server that starts comes to serve, or is refused, or ends: nobody waits
   for the lock for ever, whoever died holding it (socket.cc:99-104). *)
StartsOrEnds ==
  \A p \in Procs : []<>(pc[p] \in {"serving"} \cup Ended)
=============================================================================
