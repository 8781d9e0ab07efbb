------------------------------- MODULE Lifecycle -------------------------------
(***************************************************************************)
(* Who starts and stops what: pglcmd start, stop and restart (do_start,    *)
(* do_stop, do_restart, do_start_wd, do_stop_wd in pglcmd/pglcmd.lib), the *)
(* watchdog pglcmd/pglcmd.wd.in with the pglcmd restart_not_wd it runs,    *)
(* the pgld processes with their pidfile and its lock, and the iptables    *)
(* rules that send packets to them.  The functions of pglcmd.lsb.lib find  *)
(* processes by pidfile and by name, as written there.                     *)
(*                                                                         *)
(* Module MasterList models the blocklist build inside do_start, module    *)
(* Pgld the inside of a pgld process.  Inserting and deleting the rules is *)
(* one step each here.                                                     *)
(***************************************************************************)
EXTENDS Integers, FiniteSets

CONSTANTS
  Admins,    (* the pglcmd processes of administrators, cron and init        *)
  Dogs,      (* bound: the watchdog processes there may be at a time         *)
  Daemons,   (* bound: the pgld processes there may be at a time             *)
  Commands,  (* what the administrators call                                 *)
  Circumstances  (* sets of what there is in a behaviour:                   *)
                 (* "watchdog": the setting WD says that do_start starts    *)
                 (*   one, or somebody calls start_wd                      *)
                 (* "crash": a pgld process fails or is killed              *)
                 (* "flush": another firewall removes the rules             *)

Nobody == "nobody"

ASSUME LifecycleAssumption ==
  /\ Commands \subseteq {"start", "stop", "restart", "start_wd", "stop_wd"}
  /\ Circumstances \subseteq SUBSET {"watchdog", "crash", "flush"}
  /\ IsFiniteSet(Daemons)
  /\ Nobody \notin Dogs \cup Daemons
  /\ Daemons \cap {"none", "empty", "dead"} = {}

VARIABLES
  may,      (* which of the circumstances this behaviour has                *)
  pglcmd,   (* the pglcmd processes: an administrator's, or a watchdog's child *)
  dog,      (* the watchdog processes                                       *)
  dogfile,  (* WD_PID: nobody, or a watchdog                                *)
  pgld,     (* the pgld processes                                           *)
  lock,     (* who has a lock on the file that PIDFILE names now            *)
  pidfile,  (* PIDFILE: "none", "empty", "dead" or a pgld process           *)
  rules,    (* whether the rules are in the kernel                          *)
  wish      (* what the administrators' last finished command asked for     *)

dogs == <<dog, dogfile>>
daemons == <<pgld, lock, pidfile>>
vars == <<may, pglcmd, dogs, daemons, rules, wish>>

-----------------------------------------------------------------------------
Callers == Admins \cup Dogs

Idle == [cmd |-> "none", at |-> "idle"]

At(p, at) == pglcmd[p].at = at
Goto(p, at) == pglcmd' = [pglcmd EXCEPT ![p].at = at]

Alive == {d \in Daemons : pgld[d] # "none"}

(* Broken variant: no pidof if the pidfile does not help. *)
StatusByPidfile ==
  CASE pidfile \in Daemons -> 0 [] pidfile = "dead" -> 1 [] OTHER -> 3

(* pidofproc without a pidfile option, as status_of_proc calls it: 0, or 1   *)
(* when the pidfile names a dead process, or 3 when nothing is found.        *)
Status ==
  CASE pidfile \in Daemons -> 0
    [] pidfile = "dead" -> 1
    [] pidfile \in {"none", "empty"} -> IF Alive = {} THEN 3 ELSE 0

Init ==
  /\ may \in Circumstances
  /\ pglcmd = [p \in Callers |-> Idle]
  /\ dog = [w \in Dogs |-> "none"] /\ dogfile = Nobody
  /\ pgld = [d \in Daemons |-> "none"] /\ lock = Nobody /\ pidfile = "none"
  /\ rules = FALSE
  /\ wish = "none"

Call(p, cmd) ==
  /\ At(p, "idle")
  /\ cmd = "start_wd" => "watchdog" \in may
  /\ pglcmd' = [pglcmd EXCEPT ![p] =
       [cmd |-> cmd,
        at |-> CASE cmd = "start" -> "status"
                 [] cmd \in {"stop", "restart", "stop_wd"} -> "stop_wd"
                 [] cmd = "start_wd" -> "start_wd"]]
  /\ wish' = IF cmd = "stop_wd" THEN wish ELSE "changing"
  /\ UNCHANGED <<may, dogs, daemons, rules>>

Wished(cmd) ==
  CASE cmd \in {"start", "restart"} -> "up"
    [] cmd = "stop" -> "down"
    [] cmd = "start_wd" -> "watchdog"
    [] OTHER -> wish

(* pglcmd exits, and if it is the child of one of the watchdogs then, that   *)
(* watchdog looks at the exit code.                                          *)
Exit(p, code, watchdogs) ==
  /\ pglcmd' = [pglcmd EXCEPT ![p] = Idle]
  /\ wish' = IF p \in Admins THEN Wished(pglcmd[p].cmd) ELSE wish
  /\ dog' = [w \in Dogs |->
       CASE w # p \/ watchdogs[w] # "waiting" -> watchdogs[w]
         [] OTHER -> IF code = 0 THEN "asleep" ELSE "leaving"]

-----------------------------------------------------------------------------
(* do_stop_wd and do_stop *)

(* The KILL takes the watchdog that WD_PID names and leaves its child alone. *)
do_stop_wd(p) ==
  /\ At(p, "stop_wd")
  /\ LET left == [w \in Dogs |-> IF w = dogfile THEN "none" ELSE dog[w]]
     IN  IF pglcmd[p].cmd = "stop_wd"
           THEN Exit(p, 0, left)
           ELSE Goto(p, "delete") /\ dog' = left /\ UNCHANGED wish
  /\ dogfile' = Nobody
  /\ UNCHANGED <<may, daemons, rules>>

delete_iptables(p) ==
  /\ At(p, "delete")
  /\ rules' = FALSE
  /\ Goto(p, "term")
  /\ UNCHANGED <<may, dogs, daemons, wish>>

(* Broken variant: as if the lock were on the name of the file. *)
UnlinkOnly == pidfile' = "none" /\ UNCHANGED lock

(* Removing the file leaves its inode, and the lock on it, to its process. *)
RemovePidfile == pidfile' = "none" /\ lock' = Nobody

(* killproc -p PIDFILE: TERM to the process that the pidfile names; a        *)
(* pidfile that names none is removed.                                       *)
killproc(p) ==
  /\ At(p, "term")
  /\ IF pidfile \in Daemons
       THEN pgld' = [pgld EXCEPT ![pidfile] = "ending"] /\ UNCHANGED <<lock, pidfile>>
       ELSE RemovePidfile /\ UNCHANGED pgld
  /\ Goto(p, "wait")
  /\ UNCHANGED <<may, dogs, rules, wish>>

AfterStop(p) ==
  IF pglcmd[p].cmd = "stop"
    THEN Exit(p, 0, dog)
    ELSE Goto(p, "status") /\ UNCHANGED <<dog, wish>>

(* Broken variant: the TERM has been sent, that is enough. *)
NotWaiting(p) ==
  /\ At(p, "wait")
  /\ RemovePidfile
  /\ AfterStop(p)
  /\ UNCHANGED <<may, dogfile, pgld, rules>>

(* kill -0 "$(pidof $DAEMON)" fails for no process, and for more than one. *)
Stopped(p) ==
  /\ At(p, "wait")
  /\ Cardinality(Alive) # 1
  /\ RemovePidfile
  /\ AfterStop(p)
  /\ UNCHANGED <<may, dogfile, pgld, rules>>

(* Broken variant: nothing is done to a daemon that does not stop. *)
GiveUp(p) ==
  /\ At(p, "wait")
  /\ Cardinality(Alive) = 1
  /\ AfterStop(p)
  /\ UNCHANGED <<may, dogfile, daemons, rules>>

(* After 20 seconds, in which a new pgld gets as far as its pidfile. *)
Timeout(p) ==
  /\ At(p, "wait")
  /\ Cardinality(Alive) = 1
  /\ \A d \in Alive : pgld[d] # "forked"
  /\ IF pidfile = "none"
       THEN UNCHANGED daemons
       ELSE pgld' = [d \in Daemons |-> "none"] /\ RemovePidfile
  /\ AfterStop(p)
  /\ UNCHANGED <<may, dogfile, rules>>

-----------------------------------------------------------------------------
(* do_start and do_start_wd *)

(* A daemon that runs is left alone; a dead one with a pidfile is an error.  *)
CheckStatus(p) ==
  /\ At(p, "status")
  /\ IF Status = 3
       THEN Goto(p, "insert") /\ UNCHANGED <<dog, wish>>
       ELSE Exit(p, Status, dog)
  /\ UNCHANGED <<may, dogfile, daemons, rules>>

insert_iptables(p) ==
  /\ At(p, "insert")
  /\ rules' = TRUE
  /\ Goto(p, "start")
  /\ UNCHANGED <<may, dogs, daemons, wish>>

(* start-stop-daemon --start --oknodo --pidfile: nothing if the pidfile      *)
(* names a process.  pgld forks, and its parent exits with 0 at once.  The   *)
(* bound Daemons limits the processes there are.                             *)
start_daemon(p) ==
  /\ At(p, "start")
  /\ IF pidfile \in Daemons \/ Alive = Daemons
       THEN UNCHANGED pgld
       ELSE \E d \in Daemons : /\ pgld[d] = "none"
                               /\ pgld' = [pgld EXCEPT ![d] = "forked"]
  /\ IF "watchdog" \in may
       THEN Goto(p, "start_wd") /\ UNCHANGED <<dog, wish>>
       ELSE Exit(p, 0, dog)
  /\ UNCHANGED <<may, dogfile, lock, pidfile, rules>>

Kennels == {w \in Dogs : dog[w] = "none" /\ At(w, "idle")}

(* In the background; --exec finds no script, so there always is a new one,  *)
(* up to the bound Dogs.                                                     *)
do_start_wd(p) ==
  /\ At(p, "start_wd")
  /\ IF Kennels = {}
       THEN Exit(p, 0, dog)
       ELSE \E w \in Kennels : Exit(p, 0, [dog EXCEPT ![w] = "new"])
  /\ UNCHANGED <<may, dogfile, daemons, rules>>

-----------------------------------------------------------------------------
(* pglcmd.wd *)

(* [ ! -f "$WD_PID" ] *)
DogBegins(w) ==
  /\ dog[w] = "new"
  /\ dog' = [dog EXCEPT ![w] = IF dogfile = Nobody THEN "checked" ELSE "none"]
  /\ UNCHANGED <<may, pglcmd, dogfile, daemons, rules, wish>>

DogWrites(w) ==
  /\ dog[w] = "checked"
  /\ dogfile' = w
  /\ dog' = [dog EXCEPT ![w] = "asleep"]
  /\ UNCHANGED <<may, pglcmd, daemons, rules, wish>>

(* Broken variant: the watchdog looks only for the daemon. *)
AlarmedByDaemon == Status # 0

Alarmed == Status # 0 \/ ~rules

DogLooks(w) ==
  /\ dog[w] = "asleep"
  /\ Alarmed
  /\ dog' = [dog EXCEPT ![w] = "waiting"]
  /\ pglcmd' = [pglcmd EXCEPT ![w] = [cmd |-> "restart_not_wd", at |-> "delete"]]
  /\ UNCHANGED <<may, dogfile, daemons, rules, wish>>

(* "We only end up here, if restart fails!" *)
DogLeaves(w) ==
  /\ dog[w] = "leaving"
  /\ dog' = [dog EXCEPT ![w] = "none"]
  /\ dogfile' = Nobody
  /\ UNCHANGED <<may, pglcmd, daemons, rules, wish>>

-----------------------------------------------------------------------------
(* pgld *)

Dies(d) ==
  /\ pgld' = [pgld EXCEPT ![d] = "none"]
  /\ lock' = IF lock = d THEN Nobody ELSE lock

(* fopen truncates the file before lockf finds out whose it is. *)
create_pidfile(d) ==
  /\ pgld[d] = "forked"
  /\ IF lock = Nobody
       THEN /\ pgld' = [pgld EXCEPT ![d] = "loading"]
            /\ lock' = d /\ pidfile' = d
       ELSE Dies(d) /\ pidfile' = "empty"
  /\ UNCHANGED <<may, pglcmd, dogs, rules, wish>>

(* The kernel has one listener per queue. *)
Serve(d) ==
  /\ pgld[d] = "loading"
  /\ IF \A e \in Daemons \ {d} : pgld[e] \notin {"up", "ending"}
       THEN pgld' = [pgld EXCEPT ![d] = "up"] /\ UNCHANGED <<may, lock, pidfile>>
       ELSE Dies(d) /\ pidfile' = IF pidfile = d THEN "dead" ELSE pidfile
  /\ UNCHANGED <<may, pglcmd, dogs, rules, wish>>

Crash(d) ==
  /\ "crash" \in may
  /\ pgld[d] \in {"loading", "up"}
  /\ Dies(d)
  /\ pidfile' = IF pidfile = d THEN "dead" ELSE pidfile
  /\ UNCHANGED <<may, pglcmd, dogs, rules, wish>>

(* The handler of TERM unlinks the pidfile, whomever it names. *)
Terminate(d) ==
  /\ pgld[d] = "ending"
  /\ pgld' = [pgld EXCEPT ![d] = "none"]
  /\ RemovePidfile
  /\ UNCHANGED <<may, pglcmd, dogs, rules, wish>>

Flush ==
  /\ "flush" \in may
  /\ rules' = FALSE
  /\ UNCHANGED <<may, pglcmd, dogs, daemons, wish>>

Step(p) ==
  \/ do_stop_wd(p) \/ delete_iptables(p) \/ killproc(p) \/ Stopped(p) \/ Timeout(p)
  \/ CheckStatus(p) \/ insert_iptables(p) \/ start_daemon(p) \/ do_start_wd(p)

Dog(w) == DogBegins(w) \/ DogWrites(w) \/ DogLooks(w) \/ DogLeaves(w)

Daemon(d) == create_pidfile(d) \/ Serve(d) \/ Terminate(d)

Next ==
  \/ \E p \in Admins : \E cmd \in Commands : Call(p, cmd)
  \/ \E p \in Callers : Step(p)
  \/ \E w \in Dogs : Dog(w)
  \/ \E d \in Daemons : Daemon(d) \/ Crash(d)
  \/ Flush

Spec == Init /\ [][Next]_vars

(* Every process goes on; nobody has to call, crash or flush. *)
FairSpec ==
  /\ Spec
  /\ \A p \in Callers : WF_vars(Step(p))
  /\ \A w \in Dogs : WF_vars(Dog(w))
  /\ \A d \in Daemons : WF_vars(Daemon(d))

-----------------------------------------------------------------------------
(* Properties *)

(* The types of the variables; a lock is that of a living process. *)
TypeOK ==
  /\ pglcmd \in [Callers ->
       [cmd : {"none", "restart_not_wd"} \cup Commands,
        at : {"idle", "stop_wd", "delete", "term", "wait", "status", "insert", "start",
              "start_wd"}]]
  /\ may \in Circumstances
  /\ dog \in [Dogs -> {"none", "new", "checked", "asleep", "waiting", "leaving"}]
  /\ dogfile \in {Nobody} \cup Dogs
  /\ pgld \in [Daemons -> {"none", "forked", "loading", "up", "ending"}]
  /\ lock \in {Nobody} \cup Alive
  /\ pidfile \in {"none", "empty", "dead"} \cup Alive
  /\ rules \in BOOLEAN
  /\ wish \in {"none", "changing", "up", "down", "watchdog"}

Serving == \E d \in Daemons : pgld[d] = "up"

(* README:116: stop "deletes iptables rules and stops pgld": between a stop  *)
(* and the next command there are no rules and there is no pgld.             *)
StopLasts == wish = "down" => ~rules /\ Alive = {}

(* Without a watchdog, whatever the stop found and however pgld crashed. *)
StopLastsAlone == "watchdog" \notin may => StopLasts

(* Without a watchdog a pgld process that runs can be found by the pidfile. *)
PidfileNamesDaemon ==
  "watchdog" \notin may =>
    \A d \in Daemons : pgld[d] \in {"loading", "up"} => pidfile = d

Watched == \E w \in Dogs : dog[w] # "none"

(* README:113: start "inserts iptables rules, starts pgld and the watchdog": *)
(* if nothing interferes, a start or restart leads to both rules and daemon. *)
StartServes == may = {} /\ wish = "up" ~> wish # "up" \/ (rules /\ Serving)

(* A daemon that the pidfile does not name, as the second of two starts at   *)
(* once leaves it: do_stop sends it no TERM, and without a pidfile no KILL   *)
(* either; do_start finds it and does nothing, so nobody inserts the rules.  *)
Stray == \E d \in Daemons : pgld[d] \in {"loading", "up"} /\ pidfile # d

(* README:96: the watchdog "monitors pgl and restarts it if necessary": as   *)
(* long as one is there, pgld does not stay away, nor do the rules, unless   *)
(* there is a stray daemon.                                                  *)
DogRepairs ==
  /\ Watched /\ Alive = {} ~> ~Watched \/ Alive # {}
  /\ Watched /\ ~rules ~> ~Watched \/ rules \/ Stray

=============================================================================
