--------------------------- MODULE Lifecycle_proofs ---------------------------
(***************************************************************************)
(* Proofs about Lifecycle: the types of the variables, and, for commands   *)
(* that do not overlap and no watchdog, that stop lasts and that a daemon  *)
(* is named by its pidfile.                                                *)
(***************************************************************************)
EXTENDS Lifecycle, FiniteSetTheorems, TLAPS

-----------------------------------------------------------------------------
(* The types *)

Pglcmds ==
  [cmd : {"none", "restart_not_wd"} \cup Commands,
   at : {"idle", "stop_wd", "delete", "term", "wait", "status", "insert", "start",
         "start_wd"}]

DogStates == {"none", "new", "checked", "asleep", "waiting", "leaving"}

(* A command moves on within its types. *)
LEMMA GotoType ==
  ASSUME TypeOK, NEW p \in Callers, NEW at, Goto(p, at),
         at \in {"idle", "stop_wd", "delete", "term", "wait", "status", "insert",
                 "start", "start_wd"}
  PROVE  pglcmd' \in [Callers -> Pglcmds]
BY DEF TypeOK, Goto, Pglcmds

(* A command ends within its types. *)
LEMMA ExitType ==
  ASSUME TypeOK, NEW p \in Callers, NEW code, NEW watchdogs \in [Dogs -> DogStates],
         Exit(p, code, watchdogs)
  PROVE  /\ pglcmd' \in [Callers -> Pglcmds]
         /\ dog' \in [Dogs -> DogStates]
         /\ wish' \in {"none", "changing", "up", "down", "watchdog"}
<1>1. pglcmd \in [Callers -> Pglcmds]
  BY DEF TypeOK, Pglcmds
<1>2. pglcmd' \in [Callers -> Pglcmds]
  BY <1>1 DEF Exit, Idle, Pglcmds
<1>3. dog' \in [Dogs -> DogStates]
  BY DEF Exit, DogStates
<1>4. wish' \in {"none", "changing", "up", "down", "watchdog"}
  BY DEF Exit, Wished, TypeOK
<1> QED
  BY <1>2, <1>3, <1>4

(* What a step of pglcmd does to the types. *)
LEMMA StepType ==
  ASSUME TypeOK, NEW p \in Callers, Step(p)
  PROVE  TypeOK'
<1> USE LifecycleAssumption
<1>0. /\ dog \in [Dogs -> DogStates] /\ pglcmd \in [Callers -> Pglcmds]
      /\ dogfile \in {Nobody} \cup Dogs /\ may \in Circumstances
  BY DEF TypeOK, DogStates, Pglcmds
<1>1. ASSUME Goto(p, "delete") \/ Goto(p, "term") \/ Goto(p, "wait") \/ Goto(p, "status")
               \/ Goto(p, "insert") \/ Goto(p, "start") \/ Goto(p, "start_wd")
      PROVE  pglcmd' \in [Callers -> Pglcmds]
  BY <1>1, GotoType
<1>2. CASE do_stop_wd(p)
  <2> DEFINE left == [w \in Dogs |-> IF w = dogfile THEN "none" ELSE dog[w]]
  <2>1. left \in [Dogs -> DogStates]
    BY <1>0 DEF DogStates
  <2>2. \/ Exit(p, 0, left)
        \/ Goto(p, "delete") /\ dog' = left /\ UNCHANGED wish
    BY <1>2 DEF do_stop_wd
  <2>3. /\ dogfile' = Nobody
        /\ UNCHANGED <<may, pgld, lock, pidfile, rules>>
    BY <1>2 DEF do_stop_wd, daemons
  <2> HIDE DEF left
  <2> QED
    BY <1>1, <2>1, <2>2, <2>3, ExitType DEF TypeOK, DogStates, Pglcmds, Alive
<1>3. CASE delete_iptables(p)
  BY <1>1, <1>3 DEF delete_iptables, dogs, daemons, TypeOK, Pglcmds, Alive
<1>4. CASE killproc(p)
  BY <1>1, <1>4 DEF killproc, RemovePidfile, dogs, TypeOK, Pglcmds, Alive
<1>5. ASSUME AfterStop(p)
      PROVE  /\ pglcmd' \in [Callers -> Pglcmds] /\ dog' \in [Dogs -> DogStates]
             /\ wish' \in {"none", "changing", "up", "down", "watchdog"}
  BY <1>0, <1>1, <1>5, ExitType DEF AfterStop, TypeOK
<1>6. CASE Stopped(p)
  BY <1>5, <1>6 DEF Stopped, RemovePidfile, TypeOK, Pglcmds, DogStates, Alive
<1>7. CASE Timeout(p)
  <2>1. \/ UNCHANGED <<pgld, lock, pidfile>>
        \/ pgld' = [d \in Daemons |-> "none"] /\ RemovePidfile
    BY <1>7 DEF Timeout, daemons
  <2>2. UNCHANGED <<may, dogfile, rules>> /\ AfterStop(p)
    BY <1>7 DEF Timeout
  <2> QED
    BY <1>5, <2>1, <2>2 DEF RemovePidfile, TypeOK, Pglcmds, DogStates, Alive
<1>8. CASE CheckStatus(p)
  BY <1>0, <1>1, <1>8, ExitType DEF CheckStatus, daemons, TypeOK, Pglcmds, DogStates, Alive
<1>9. CASE insert_iptables(p)
  BY <1>1, <1>9 DEF insert_iptables, dogs, daemons, TypeOK, Pglcmds, Alive
<1>10. CASE start_daemon(p)
  <2>1. \/ Goto(p, "start_wd") /\ UNCHANGED <<dog, wish>>
        \/ Exit(p, 0, dog)
    BY <1>10 DEF start_daemon
  <2>2. \/ UNCHANGED pgld
        \/ \E d \in Daemons : pgld[d] = "none" /\ pgld' = [pgld EXCEPT ![d] = "forked"]
    BY <1>10 DEF start_daemon
  <2>3. UNCHANGED <<may, dogfile, lock, pidfile, rules>>
    BY <1>10 DEF start_daemon
  <2>4. pgld' \in [Daemons -> {"none", "forked", "loading", "up", "ending"}]
        /\ Alive \subseteq Alive'
    BY <2>2 DEF TypeOK, Alive
  <2>5. lock' \in {Nobody} \cup Alive' /\ pidfile' \in {"none", "empty", "dead"} \cup Alive'
    BY <2>3, <2>4 DEF TypeOK
  <2> QED
    BY <1>0, <1>1, <2>1, <2>3, <2>4, <2>5, ExitType DEF TypeOK, Pglcmds, DogStates
<1>11. CASE do_start_wd(p)
  <2>1. \E watchdogs \in [Dogs -> DogStates] : Exit(p, 0, watchdogs)
    BY <1>0, <1>11 DEF do_start_wd, Kennels, DogStates
  <2>2. UNCHANGED <<may, dogfile, pgld, lock, pidfile, rules>>
    BY <1>11 DEF do_start_wd, daemons
  <2> QED
    BY <2>1, <2>2, ExitType DEF TypeOK, Pglcmds, DogStates, Alive
<1> QED
  BY <1>2, <1>3, <1>4, <1>6, <1>7, <1>8, <1>9, <1>10, <1>11 DEF Step

(* What a watchdog does to the types. *)
LEMMA DogType ==
  ASSUME TypeOK, NEW w \in Dogs, Dog(w)
  PROVE  TypeOK'
<1> USE DEF TypeOK, daemons, Alive
<1>1. CASE DogBegins(w)
  BY <1>1 DEF DogBegins
<1>2. CASE DogWrites(w)
  BY <1>2 DEF DogWrites
<1>3. CASE DogLooks(w)
  BY <1>3 DEF DogLooks, Callers
<1>4. CASE DogLeaves(w)
  BY <1>4 DEF DogLeaves
<1> QED
  BY <1>1, <1>2, <1>3, <1>4 DEF Dog

(* What a daemon does to the types. *)
LEMMA DaemonType ==
  ASSUME TypeOK, NEW d \in Daemons, Daemon(d) \/ Crash(d)
  PROVE  TypeOK'
<1> USE LifecycleAssumption DEF TypeOK, dogs, Alive
<1>1. CASE create_pidfile(d)
  BY <1>1 DEF create_pidfile, Dies
<1>2. CASE Serve(d)
  BY <1>2 DEF Serve, Dies
<1>3. CASE Terminate(d)
  BY <1>3 DEF Terminate, RemovePidfile
<1>4. CASE Crash(d)
  BY <1>4 DEF Crash, Dies
<1> QED
  BY <1>1, <1>2, <1>3, <1>4 DEF Daemon

(* The types of the variables: a lock and a pidfile are those of a living    *)
(* process, however many commands, watchdogs and daemons there are.          *)
THEOREM LifecycleTypes == Spec => []TypeOK
<1>1. Init => TypeOK
  <2> SUFFICES ASSUME Init PROVE TypeOK
    OBVIOUS
  <2>1. pglcmd \in [Callers -> Pglcmds]
    BY DEF Init, Idle, Pglcmds
  <2> QED
    BY <2>1 DEF Init, TypeOK, Pglcmds
<1>2. TypeOK /\ [Next]_vars => TypeOK'
  <2> SUFFICES ASSUME TypeOK, [Next]_vars PROVE TypeOK'
    OBVIOUS
  <2>1. ASSUME NEW p \in Admins, NEW cmd \in Commands, Call(p, cmd) PROVE TypeOK'
    <3>1. /\ pglcmd' \in [Callers -> Pglcmds]
          /\ wish' \in {"none", "changing", "up", "down", "watchdog"}
      BY <2>1, LifecycleAssumption DEF Call, TypeOK, Pglcmds, Callers
    <3> QED
      BY <2>1, <3>1 DEF Call, TypeOK, Pglcmds, dogs, daemons, Alive
  <2>2. ASSUME NEW p \in Callers, Step(p) PROVE TypeOK'
    BY <2>2, StepType
  <2>3. ASSUME NEW w \in Dogs, Dog(w) PROVE TypeOK'
    BY <2>3, DogType
  <2>4. ASSUME NEW d \in Daemons, Daemon(d) \/ Crash(d) PROVE TypeOK'
    BY <2>4, DaemonType
  <2>5. CASE Flush
    BY <2>5 DEF Flush, TypeOK, dogs, daemons, Alive
  <2>6. CASE UNCHANGED vars
    BY <2>6 DEF vars, TypeOK, dogs, daemons, Alive
  <2> QED
    BY <2>1, <2>2, <2>3, <2>4, <2>5, <2>6 DEF Next
<1> QED
  BY <1>1, <1>2, PTL DEF Spec

-----------------------------------------------------------------------------
(* The inductive invariant without a watchdog *)

(* The administrators' commands do not overlap. *)
OneAtATime == \A p, q \in Admins : ~At(p, "idle") /\ ~At(q, "idle") => p = q

(* Nobody but an administrator's pglcmd runs. *)
NoDogs ==
  /\ \A w \in Dogs : dog[w] = "none"
  /\ \A p \in Callers \ Admins : pglcmd[p] = Idle

(* Where a command can be. *)
Course(p) ==
  \/ pglcmd[p] = Idle
  \/ pglcmd[p].cmd = "stop_wd" /\ At(p, "stop_wd")
  \/ pglcmd[p].cmd = "stop" /\ pglcmd[p].at \in {"stop_wd", "delete", "term", "wait"}
  \/ pglcmd[p].cmd = "start" /\ pglcmd[p].at \in {"status", "insert", "start"}
  \/ pglcmd[p].cmd = "restart" /\ pglcmd[p].at \in {"stop_wd", "delete", "term", "wait",
                                                     "status", "insert", "start"}

(* There is one daemon at most; from its lock on it is the one that the      *)
(* pidfile names, and before that there is no pidfile.                       *)
OneDaemon ==
  /\ \A d, e \in Alive : d = e
  /\ pidfile # "empty"
  /\ \A d \in Daemons :
       /\ pgld[d] \in {"loading", "up", "ending"} => pidfile = d /\ lock = d
       /\ pgld[d] = "forked" => pidfile = "none" /\ lock = Nobody

(* A start that has looked for a daemon still finds none, and the rules that *)
(* a stop has deleted stay away.                                             *)
Undisturbed(p) ==
  /\ pglcmd[p].at \in {"insert", "start"} => Alive = {} /\ pidfile = "none"
  /\ pglcmd[p].at \in {"term", "wait"} => ~rules

(* After a stop nobody starts anything but what does not change its wish. *)
Down ==
  wish = "down" =>
    /\ ~rules /\ Alive = {}
    /\ \A p \in Admins : pglcmd[p].cmd \in {"none", "stop_wd"}

AloneInv ==
  /\ NoDogs
  /\ \A p \in Admins : Course(p) /\ Undisturbed(p)
  /\ OneDaemon
  /\ Down

IInv == "watchdog" \notin may => AloneInv

-----------------------------------------------------------------------------
(* The steps without a watchdog *)

(* The types as the steps below need them. *)
LEMMA Typed ==
  ASSUME TypeOK
  PROVE  /\ pglcmd \in [Callers -> Pglcmds] /\ Admins \subseteq Callers
         /\ dog \in [Dogs -> DogStates]
         /\ pgld \in [Daemons -> {"none", "forked", "loading", "up", "ending"}]
         /\ lock \in {Nobody} \cup Alive
         /\ pidfile \in {"none", "empty", "dead"} \cup Alive
BY DEF TypeOK, Callers, Pglcmds, DogStates

(* While one command runs, the others are idle. *)
LEMMA OthersIdle ==
  ASSUME TypeOK, AloneInv, OneAtATime, NEW p \in Callers, ~At(p, "idle")
  PROVE  /\ p \in Admins
         /\ \A q \in Callers \ {p} : pglcmd[q] = Idle
<1>1. p \in Admins
  BY DEF AloneInv, NoDogs, At, Idle
<1>2. ASSUME NEW q \in Callers, q # p PROVE pglcmd[q] = Idle
  <2>1. CASE q \in Admins
    BY <1>1, <1>2, <2>1 DEF OneAtATime, AloneInv, Course, At
  <2>2. CASE q \notin Admins
    BY <1>2, <2>2 DEF AloneInv, NoDogs
  <2> QED
    BY <2>1, <2>2
<1> QED
  BY <1>1, <1>2

(* Without watchdogs a command that ends leaves nobody running. *)
LEMMA AloneExit ==
  ASSUME TypeOK, AloneInv, NEW p \in Admins,
         \A q \in Callers \ {p} : pglcmd[q] = Idle,
         NEW code, NEW watchdogs, \A w \in Dogs : watchdogs[w] = "none",
         Exit(p, code, watchdogs)
  PROVE  /\ \A q \in Callers : pglcmd'[q] = Idle
         /\ \A w \in Dogs : dog'[w] = "none"
         /\ wish' = Wished(pglcmd[p].cmd)
BY Typed DEF Exit

(* The parts of the invariant that hold when nobody is running. *)
LEMMA AtRest ==
  ASSUME \A q \in Callers : pglcmd[q] = Idle, \A w \in Dogs : dog[w] = "none"
  PROVE  /\ NoDogs
         /\ \A q \in Admins : Course(q) /\ Undisturbed(q) /\ pglcmd[q].cmd = "none"
BY DEF NoDogs, Course, Undisturbed, Idle, Callers

(* A command that moves on leaves the others idle. *)
LEMMA AloneGoto ==
  ASSUME TypeOK, AloneInv, NEW p \in Admins,
         \A q \in Callers \ {p} : pglcmd[q] = Idle,
         NEW at, Goto(p, at), \A w \in Dogs : dog'[w] = "none"
  PROVE  /\ NoDogs'
         /\ pglcmd'[p].cmd = pglcmd[p].cmd /\ pglcmd'[p].at = at
         /\ \A q \in Admins \ {p} : (Course(q) /\ Undisturbed(q) /\ pglcmd[q].cmd = "none")'
<1>1. /\ pglcmd'[p].cmd = pglcmd[p].cmd /\ pglcmd'[p].at = at
      /\ \A q \in Callers \ {p} : pglcmd'[q] = Idle
  BY Typed DEF Goto, Pglcmds
<1>2. \A q \in Admins \ {p} : q \in Callers
  BY DEF Callers
<1>3. NoDogs'
  BY <1>1 DEF NoDogs
<1>4. ASSUME NEW q \in Admins \ {p}
      PROVE  (Course(q) /\ Undisturbed(q) /\ pglcmd[q].cmd = "none")'
  BY <1>1, <1>2 DEF Course, Undisturbed, Idle
<1> QED
  BY <1>1, <1>3, <1>4

(* A living daemon is the only one, and if there is more than none there is  *)
(* exactly one.                                                              *)
LEMMA CountAlive ==
  ASSUME OneDaemon
  PROVE  Alive # {} => Cardinality(Alive) = 1
<1> SUFFICES ASSUME NEW d \in Alive PROVE Cardinality(Alive) = 1
  OBVIOUS
<1>1. Alive = {d}
  BY DEF OneDaemon
<1> QED
  BY <1>1, FS_Singleton

(* Every step of a command keeps the invariant. *)
LEMMA AloneStep ==
  ASSUME TypeOK, AloneInv, OneAtATime, "watchdog" \notin may,
         NEW p \in Callers, Step(p)
  PROVE  AloneInv'
<1> USE LifecycleAssumption
<1>1. ~At(p, "idle")
  BY DEF Step, do_stop_wd, delete_iptables, killproc, Stopped, Timeout, CheckStatus,
         insert_iptables, start_daemon, do_start_wd, At
<1>2. /\ p \in Admins /\ \A q \in Callers \ {p} : pglcmd[q] = Idle
  BY <1>1, OthersIdle
<1>3. /\ \A w \in Dogs : dog[w] = "none"
      /\ Course(p) /\ Undisturbed(p) /\ OneDaemon /\ Down
      /\ pglcmd[p].cmd \in {"start", "stop", "restart", "stop_wd"}
      /\ pglcmd[p].cmd # "stop_wd" => wish # "down"
      /\ \A q \in Admins \ {p} : pglcmd[q].cmd = "none"
  BY <1>1, <1>2 DEF AloneInv, NoDogs, Course, Down, At, Idle, Callers
<1>4. CASE do_stop_wd(p)
  <2> DEFINE left == [w \in Dogs |-> IF w = dogfile THEN "none" ELSE dog[w]]
  <2>1. \A w \in Dogs : left[w] = "none"
    BY <1>3
  <2>2. UNCHANGED <<pgld, lock, pidfile, rules>>
    BY <1>4 DEF do_stop_wd, daemons
  <2>3. OneDaemon'
    BY <1>3, <2>2 DEF OneDaemon, Alive
  <2>4. CASE pglcmd[p].cmd = "stop_wd"
    <3>1. Exit(p, 0, left)
      BY <1>4, <2>4 DEF do_stop_wd
    <3>2. /\ \A q \in Callers : pglcmd'[q] = Idle
          /\ \A w \in Dogs : dog'[w] = "none" /\ wish' = wish
      <4> HIDE DEF left
      <4> QED
        BY <1>2, <2>1, <2>4, <3>1, AloneExit DEF Wished
    <3>3. wish' = wish
      BY <1>2, <2>4, <3>1 DEF Exit, Wished
    <3> QED
      BY <1>3, <2>2, <2>3, <3>2, <3>3, AtRest DEF AloneInv, Down, Alive, NoDogs, Course,
         Undisturbed, Idle, Callers
  <2>5. CASE pglcmd[p].cmd # "stop_wd"
    <3>1. Goto(p, "delete") /\ dog' = left /\ wish' = wish
      BY <1>4, <2>5 DEF do_stop_wd
    <3>2. /\ NoDogs' /\ pglcmd'[p].cmd = pglcmd[p].cmd /\ pglcmd'[p].at = "delete"
          /\ \A q \in Admins \ {p} : (Course(q) /\ Undisturbed(q))'
      BY <1>2, <2>1, <3>1, AloneGoto
    <3>3. (Course(p) /\ Undisturbed(p))'
      BY <1>3, <1>4, <2>5, <3>2 DEF Course, Undisturbed, At, Idle, do_stop_wd
    <3> QED
      BY <1>3, <2>3, <2>5, <3>1, <3>2, <3>3 DEF AloneInv, Down
  <2> QED
    BY <2>4, <2>5
<1>5. CASE delete_iptables(p)
  <2>1. Goto(p, "term") /\ ~rules' /\ UNCHANGED <<dog, pgld, lock, pidfile, wish>>
    BY <1>5 DEF delete_iptables, dogs, daemons
  <2>2. /\ NoDogs' /\ pglcmd'[p].cmd = pglcmd[p].cmd /\ pglcmd'[p].at = "term"
        /\ \A q \in Admins \ {p} : (Course(q) /\ Undisturbed(q))'
    BY <1>2, <1>3, <2>1, AloneGoto
  <2>3. (Course(p) /\ Undisturbed(p))'
    BY <1>3, <1>5, <2>1, <2>2 DEF Course, Undisturbed, At, delete_iptables, Idle
  <2>4. OneDaemon' /\ Down'
    BY <1>3, <1>5, <2>1 DEF OneDaemon, Down, Alive, Course, At, delete_iptables, Idle
  <2> QED
    BY <2>2, <2>3, <2>4 DEF AloneInv
<1>6. CASE killproc(p)
  <2>1. Goto(p, "wait") /\ UNCHANGED <<dog, rules, wish>> /\ At(p, "term")
    BY <1>6 DEF killproc, dogs
  <2>2. /\ NoDogs' /\ pglcmd'[p].cmd = pglcmd[p].cmd /\ pglcmd'[p].at = "wait"
        /\ \A q \in Admins \ {p} : (Course(q) /\ Undisturbed(q))'
    BY <1>2, <1>3, <2>1, AloneGoto
  <2>3. (Course(p) /\ Undisturbed(p))'
    BY <1>3, <2>1, <2>2 DEF Course, Undisturbed, At, Idle
  <2>4. OneDaemon'
    <3>1. CASE pidfile \in Daemons
      BY <1>3, <1>6, <3>1, Typed DEF killproc, OneDaemon, Alive
    <3>2. CASE pidfile \notin Daemons
      <4>1. /\ pidfile' = "none" /\ lock' = Nobody /\ pgld' = pgld
        BY <1>6, <3>2 DEF killproc, RemovePidfile
      <4>2. \A d \in Daemons : pgld[d] \notin {"loading", "up", "ending"}
        BY <1>3, <3>2 DEF OneDaemon
      <4> QED
        BY <1>3, <4>1, <4>2 DEF OneDaemon, Alive
    <3> QED
      BY <3>1, <3>2
  <2>5. Down'
    BY <1>3, <2>1 DEF Down, Course, At, Idle
  <2> QED
    BY <2>2, <2>3, <2>4, <2>5 DEF AloneInv
<1>7. ASSUME At(p, "wait"), AfterStop(p), Alive' = {}, pidfile' = "none", rules' = rules
      PROVE  AloneInv'
  <2>1. OneDaemon' /\ pglcmd[p].cmd \in {"stop", "restart"} /\ ~rules
    BY <1>3, <1>7 DEF OneDaemon, Alive, Course, Undisturbed, At, Idle
  <2>2. CASE pglcmd[p].cmd = "stop"
    <3>1. Exit(p, 0, dog)
      BY <1>7, <2>2 DEF AfterStop
    <3>2. /\ \A q \in Callers : pglcmd'[q] = Idle
          /\ \A w \in Dogs : dog'[w] = "none"
      BY <1>2, <1>3, <3>1, AloneExit
    <3> QED
      BY <1>7, <2>1, <3>2, AtRest DEF AloneInv, Down, NoDogs, Course, Undisturbed, Idle,
         Callers
  <2>3. CASE pglcmd[p].cmd # "stop"
    <3>1. Goto(p, "status") /\ UNCHANGED <<dog, wish>>
      BY <1>7, <2>3 DEF AfterStop
    <3>2. /\ NoDogs' /\ pglcmd'[p].cmd = pglcmd[p].cmd /\ pglcmd'[p].at = "status"
          /\ \A q \in Admins \ {p} : (Course(q) /\ Undisturbed(q))'
      BY <1>2, <1>3, <3>1, AloneGoto
    <3>3. (Course(p) /\ Undisturbed(p))'
      BY <2>1, <2>3, <3>2 DEF Course, Undisturbed, At
    <3> QED
      BY <1>3, <2>1, <2>3, <3>1, <3>2, <3>3 DEF AloneInv, Down
  <2> QED
    BY <2>2, <2>3
<1>8. CASE Stopped(p)
  <2>1. /\ At(p, "wait") /\ AfterStop(p) /\ UNCHANGED <<pgld, rules>> /\ pidfile' = "none"
        /\ Cardinality(Alive) # 1
    BY <1>8 DEF Stopped, RemovePidfile
  <2>2. Alive = {}
    BY <1>3, <2>1, CountAlive
  <2> QED
    BY <1>7, <2>1, <2>2 DEF Alive
<1>9. CASE Timeout(p)
  <2>1. /\ At(p, "wait") /\ AfterStop(p) /\ UNCHANGED rules
        /\ Cardinality(Alive) = 1 /\ \A d \in Alive : pgld[d] # "forked"
        /\ pidfile # "none" => /\ pgld' = [d \in Daemons |-> "none"]
                               /\ pidfile' = "none"
    BY <1>9 DEF Timeout, RemovePidfile
  <2>2. \E d \in Alive : pgld[d] \in {"loading", "up", "ending"}
    <3>1. Alive # {}
      <4> SUFFICES ASSUME Alive = {} PROVE FALSE
        OBVIOUS
      <4>1. Cardinality(Alive) = 0
        BY FS_EmptySet
      <4> QED
        BY <2>1, <4>1
    <3> QED
      BY <2>1, <3>1, Typed DEF Alive
  <2>3. pidfile # "none"
    BY <1>3, <2>2 DEF OneDaemon, Alive
  <2> QED
    BY <1>7, <2>1, <2>3 DEF Alive
<1>10. ASSUME NEW code, Exit(p, code, dog), pglcmd[p].cmd \in {"start", "restart"},
              OneDaemon'
       PROVE  AloneInv'
  <2>1. /\ \A q \in Callers : pglcmd'[q] = Idle
        /\ \A w \in Dogs : dog'[w] = "none"
        /\ wish' = "up"
    BY <1>2, <1>3, <1>10, AloneExit DEF Wished
  <2> QED
    BY <1>10, <2>1 DEF AloneInv, Down, NoDogs, Course, Undisturbed, Idle, Callers
<1>11. CASE CheckStatus(p)
  <2>1. /\ At(p, "status") /\ UNCHANGED <<pgld, lock, pidfile, rules>>
        /\ IF Status = 3 THEN Goto(p, "insert") /\ UNCHANGED <<dog, wish>>
                         ELSE Exit(p, Status, dog)
    BY <1>11 DEF CheckStatus, daemons
  <2>2. OneDaemon' /\ pglcmd[p].cmd \in {"start", "restart"}
    BY <1>3, <2>1 DEF OneDaemon, Alive, Course, At, Idle
  <2>3. CASE Status = 3
    <3>1. Alive = {} /\ pidfile = "none"
      BY <1>3, <2>3, Typed DEF Status, OneDaemon, Alive
    <3>2. /\ NoDogs' /\ pglcmd'[p].cmd = pglcmd[p].cmd /\ pglcmd'[p].at = "insert"
          /\ \A q \in Admins \ {p} : (Course(q) /\ Undisturbed(q))'
      BY <1>2, <1>3, <2>1, <2>3, AloneGoto
    <3>3. (Course(p) /\ Undisturbed(p))'
      BY <2>1, <2>2, <3>1, <3>2 DEF Course, Undisturbed, At, Alive
    <3>4. Down'
      BY <1>3, <2>1, <2>2, <2>3 DEF Down
    <3> QED
      BY <2>2, <3>2, <3>3, <3>4 DEF AloneInv
  <2> QED
    BY <1>10, <2>1, <2>2, <2>3
<1>12. CASE insert_iptables(p)
  <2>1. /\ At(p, "insert") /\ Goto(p, "start")
        /\ UNCHANGED <<dog, pgld, lock, pidfile, wish>>
    BY <1>12 DEF insert_iptables, dogs, daemons
  <2>2. /\ NoDogs' /\ pglcmd'[p].cmd = pglcmd[p].cmd /\ pglcmd'[p].at = "start"
        /\ \A q \in Admins \ {p} : (Course(q) /\ Undisturbed(q))'
    BY <1>2, <1>3, <2>1, AloneGoto
  <2>3. (Course(p) /\ Undisturbed(p))' /\ OneDaemon' /\ Down'
    BY <1>3, <2>1, <2>2 DEF Course, Undisturbed, At, OneDaemon, Alive, Down, Idle
  <2> QED
    BY <2>2, <2>3 DEF AloneInv
<1>13. CASE start_daemon(p)
  <2>1. /\ At(p, "start") /\ Exit(p, 0, dog) /\ UNCHANGED <<lock, pidfile>>
        /\ \/ UNCHANGED pgld
           \/ \E d \in Daemons : pgld[d] = "none" /\ pgld' = [pgld EXCEPT ![d] = "forked"]
    BY <1>13 DEF start_daemon
  <2>2. pglcmd[p].cmd \in {"start", "restart"} /\ Alive = {} /\ pidfile = "none"
        /\ lock = Nobody
    BY <1>3, <2>1, Typed DEF Course, Undisturbed, At, Idle
  <2>3. OneDaemon'
    BY <1>3, <2>1, <2>2, Typed DEF OneDaemon, Alive
  <2> QED
    BY <1>10, <2>1, <2>2, <2>3
<1>14. CASE do_start_wd(p)
  BY <1>3, <1>14 DEF do_start_wd, Course, At, Idle
<1> QED
  BY <1>4, <1>5, <1>6, <1>8, <1>9, <1>11, <1>12, <1>13, <1>14 DEF Step

(* A daemon that goes its way stays the only one and keeps its pidfile. *)
LEMMA AloneDaemon ==
  ASSUME TypeOK, AloneInv, NEW d \in Daemons, Daemon(d) \/ Crash(d)
  PROVE  AloneInv'
<1> USE LifecycleAssumption
<1>1. OneDaemon /\ pgld[d] # "none"
  BY DEF AloneInv, Daemon, create_pidfile, Serve, Terminate, Crash
<1>2. Alive = {d}
  BY <1>1 DEF OneDaemon, Alive
<1>3. UNCHANGED <<pglcmd, dog, rules, wish>>
  BY DEF Daemon, create_pidfile, Serve, Terminate, Crash, dogs
<1>4. OneDaemon'
  <2> USE <1>1, <1>2, Typed DEF OneDaemon, Alive
  <2>1. CASE create_pidfile(d)
    BY <2>1 DEF create_pidfile
  <2>2. CASE Serve(d)
    BY <2>2 DEF Serve, Dies
  <2>3. CASE Terminate(d)
    BY <2>3 DEF Terminate, RemovePidfile
  <2>4. CASE Crash(d)
    BY <2>4 DEF Crash, Dies
  <2> QED
    BY <2>1, <2>2, <2>3, <2>4 DEF Daemon
<1>5. wish # "down" /\ \A p \in Admins : ~(pglcmd[p].at \in {"insert", "start"})
  BY <1>2 DEF AloneInv, Down, Undisturbed
<1> QED
  BY <1>3, <1>4, <1>5 DEF AloneInv, NoDogs, Course, Undisturbed, Down, At

(* A command that begins is the only one. *)
LEMMA AloneCall ==
  ASSUME TypeOK, AloneInv, OneAtATime', "watchdog" \notin may,
         NEW p \in Admins, NEW cmd \in Commands, Call(p, cmd)
  PROVE  AloneInv'
<1>1. /\ UNCHANGED <<dog, pgld, lock, pidfile, rules>> /\ cmd # "start_wd"
      /\ wish' = IF cmd = "stop_wd" THEN wish ELSE "changing"
  BY DEF Call, dogs, daemons
<1>2. /\ \A q \in Callers \ {p} : pglcmd'[q] = pglcmd[q]
      /\ pglcmd'[p].cmd = cmd
      /\ cmd = "start" => pglcmd'[p].at = "status"
      /\ cmd \in {"stop", "restart", "stop_wd"} => pglcmd'[p].at = "stop_wd"
  BY Typed DEF Call
<1>3. cmd \in {"start", "stop", "restart", "stop_wd"}
  BY <1>1, LifecycleAssumption
<1>4. (Course(p) /\ Undisturbed(p))'
  BY <1>2, <1>3 DEF Course, Undisturbed, At
<1>5. ASSUME NEW q \in Admins \ {p} PROVE (Course(q) /\ Undisturbed(q))'
  BY <1>1, <1>2, <1>5 DEF AloneInv, Course, Undisturbed, At, Alive, Callers
<1>6. OneDaemon' /\ NoDogs'
  BY <1>1, <1>2 DEF AloneInv, OneDaemon, NoDogs, Alive
<1>7. Down'
  <2> SUFFICES ASSUME wish' = "down"
               PROVE  /\ ~rules' /\ Alive' = {}
                      /\ \A q \in Admins : pglcmd'[q].cmd \in {"none", "stop_wd"}
    BY DEF Down
  <2>1. wish = "down" /\ cmd = "stop_wd"
    BY <1>1
  <2> QED
    BY <1>1, <1>2, <2>1 DEF AloneInv, Down, Alive, Callers
<1> QED
  BY <1>4, <1>5, <1>6, <1>7 DEF AloneInv

-----------------------------------------------------------------------------
(* The theorems *)

(* Without a watchdog, and as long as the commands do not overlap, every     *)
(* step keeps the invariant.                                                 *)
LEMMA AloneNext ==
  ASSUME TypeOK, IInv, OneAtATime, OneAtATime', [Next]_vars
  PROVE  IInv'
<1> SUFFICES ASSUME "watchdog" \notin may', AloneInv, "watchdog" \notin may
             PROVE  AloneInv'
  <2>1. may' = may
    BY DEF Next, vars, Call, Step, do_stop_wd, delete_iptables, killproc, Stopped,
       Timeout, CheckStatus, insert_iptables, start_daemon, do_start_wd, Dog, DogBegins,
       DogWrites, DogLooks, DogLeaves, Daemon, create_pidfile, Serve, Terminate, Crash,
       Flush
  <2> QED
    BY <2>1 DEF IInv
<1>1. ASSUME NEW p \in Admins, NEW cmd \in Commands, Call(p, cmd) PROVE AloneInv'
  BY <1>1, AloneCall
<1>2. ASSUME NEW p \in Callers, Step(p) PROVE AloneInv'
  BY <1>2, AloneStep
<1>3. ASSUME NEW w \in Dogs PROVE ~Dog(w)
  BY DEF AloneInv, NoDogs, Dog, DogBegins, DogWrites, DogLooks, DogLeaves
<1>4. ASSUME NEW d \in Daemons, Daemon(d) \/ Crash(d) PROVE AloneInv'
  BY <1>4, AloneDaemon
<1>5. CASE Flush \/ UNCHANGED vars
  <2>1. /\ UNCHANGED <<pglcmd, dog, pgld, lock, pidfile, wish>>
        /\ rules' = FALSE \/ rules' = rules
    BY <1>5 DEF Flush, vars, dogs, daemons
  <2> QED
    BY <2>1 DEF AloneInv, NoDogs, Course, Undisturbed, OneDaemon, Down, At, Alive
<1> QED
  BY <1>1, <1>2, <1>3, <1>4, <1>5 DEF Next

(* The invariant holds throughout a life without a watchdog in which one     *)
(* command is over before the next one begins.                               *)
THEOREM AloneInvariance == Spec /\ []OneAtATime => []IInv
<1>1. Init => IInv
  BY DEF Init, IInv, AloneInv, NoDogs, Course, Undisturbed, OneDaemon, Down, Alive, Idle,
     Callers
<1>2. TypeOK /\ IInv /\ OneAtATime /\ OneAtATime' /\ [Next]_vars => IInv'
  BY AloneNext
<1> QED
  BY <1>1, <1>2, LifecycleTypes, PTL DEF Spec

(* README:116, stop "deletes iptables rules and stops pgld": whatever it     *)
(* found, and however pgld crashed and the rules were flushed meanwhile.     *)
THEOREM StopTheorem == Spec /\ []OneAtATime => []StopLastsAlone
<1>1. IInv => StopLastsAlone
  BY DEF IInv, AloneInv, Down, StopLastsAlone, StopLasts
<1> QED
  BY <1>1, AloneInvariance, PTL

(* A pgld that has got as far as its lock is the one in the pidfile, so that *)
(* the next command finds it.                                                *)
THEOREM PidfileTheorem == Spec /\ []OneAtATime => []PidfileNamesDaemon
<1>1. IInv => PidfileNamesDaemon
  BY DEF IInv, AloneInv, OneDaemon, PidfileNamesDaemon
<1> QED
  BY <1>1, AloneInvariance, PTL

=============================================================================
