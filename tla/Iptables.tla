------------------------------- MODULE Iptables -------------------------------
(***************************************************************************)
(* The iptables rules of pgl and the packets that meet them.  pglcmd/      *)
(* pglcmd.lib inserts the rules one command at a time and writes, on the   *)
(* way, the script that will remove them (insert_iptables,                 *)
(* fail_insert_iptables, white_local, delete_iptables); configure and the  *)
(* hook of NetworkManager change rules while pgld runs.  pgld marks the    *)
(* packets of its queue and sends them through the rules again             *)
(* (nfqueue_cb of pgld/src/pgld.c).                                        *)
(*                                                                         *)
(* What a shell still has to do is a sequence of instructions; a line of   *)
(* the remove script is such an instruction as well.  A rule is its kind:  *)
(*   "queue": to pgld,  "reject": the packets with the reject mark,        *)
(*   "port": whitelisted by a setting,  "list": by the allowlists,         *)
(*   "loop": the loopback device,  "local": DNS servers and LAN.           *)
(* Rules of a kind are inserted in a row and by the same code; they are    *)
(* one rule here.  Log rules are left out: they decide nothing.            *)
(***************************************************************************)
EXTENDS Integers, Sequences, FiniteSets, SequencesExt

CONSTANTS
  Chains,     (* CHAINS, a sequence: "INPUT", "OUTPUT", "FORWARD"           *)
  MaxDeaths,  (* bound: how often pglcmd or the machine dies                *)
  Circumstances  (* sets of what there is in a behaviour:                   *)
                 (* "fail": iptables and start_daemon may fail              *)
                 (* "stuck": so may iptables in the remove script           *)
                 (* "nice": NICE_LEVEL may be no nice level                 *)
                 (* "kill": pglcmd is killed,  "reboot": the machine is off *)
                 (* "end": pgld ends by itself                              *)
                 (* "hook": if-up or a configure run beside pglcmd          *)
                 (* "repair": the watchdog restarts with restart_not_wd     *)
                 (* "packets": there are packets                            *)

ASSUME IptablesAssumption ==
  /\ Chains \in Seq({"INPUT", "OUTPUT", "FORWARD"})
  /\ \A i, j \in DOMAIN Chains : Chains[i] = Chains[j] => i = j
  /\ MaxDeaths \in Nat
  /\ Circumstances \subseteq SUBSET {"fail", "stuck", "nice", "kill", "reboot", "end",
                                      "hook", "repair", "packets"}

VARIABLES
  may,      (* which of the circumstances this behaviour has                *)
  proc,     (* what "pglcmd" and "hook" execute                             *)
  conf,     (* whether pglcmd.conf whitelists the port                      *)
  script,   (* the lines of REMOVE_SCRIPT; a file that is not there has none*)
  tmp,      (* the lines of REMOVE_SCRIPT.tmp                               *)
  made,     (* the chains pgl_in, pgl_out, pgl_fwd that exist, as INPUT ... *)
  chain,    (* their rules, the first one first                             *)
  jump,     (* how many rules in INPUT ... send packets to pgl's chain      *)
  daemon,   (* pgld listens to the queue                                    *)
  result,   (* how pglcmd's last start or stop ended                        *)
  refused,  (* how many starts have failed in a row since the last death,   *)
            (* as far as one more than there are chains                     *)
  deaths,
  lost,     (* lines of a remove script that failed when they were executed *)
            (* last                                                         *)
  pkt       (* the packet under way                                         *)

files == <<script, tmp>>
kernel == <<made, chain, jump>>
history == <<result, refused, deaths, lost>>
vars == <<may, proc, conf, files, kernel, daemon, history, pkt>>

-----------------------------------------------------------------------------
(* Instructions *)

Procs == {"pglcmd", "hook"}

Set == Range(Chains)

Starters == {"start", "restart", "restart_not_wd"}
Configures == {"allow", "disallow"}

Do(op) == [do |-> op, chain |-> "-", rule |-> "-"]
On(op, c) == [do |-> op, chain |-> c, rule |-> "-"]
Rule(op, c, r) == [do |-> op, chain |-> c, rule |-> r]

(* for CHAIN in $CHAINS; do lines; done *)
ForEach(lines) ==
  LET upto[n \in 0 .. Len(Chains)] ==
        IF n = 0 THEN <<>> ELSE upto[n - 1] \o lines[Chains[n]]
  IN  upto[Len(Chains)]

(* sh $REMOVE_SCRIPT; rm $REMOVE_SCRIPT -- if it is there. *)
delete_iptables == <<Do("sh"), Do("rm")>>

(* The whitelisted port, the allowlists, the block rule: each goes to the    *)
(* head of the chain.                                                        *)
Ports(c, port) == IF port THEN <<Rule("insert", c, "port")>> ELSE <<>>
allow_list(c) == <<Rule("insert", c, "list")>>
Block(c) == <<Rule("insert", c, "reject")>>

Setup(c, port) ==
  <<On("record", c), On("create", c), Rule("insert", c, "queue")>>
    \o Ports(c, port) \o allow_list(c) \o Block(c)

Loopback(c) ==
  IF c \in {"INPUT", "OUTPUT"} THEN <<Rule("insert", c, "loop")>> ELSE <<>>

Local(c) == <<Rule("insert", c, "local")>>
LocalUnlessThere(c) == <<Rule("ensure", c, "local")>>

(* "quick test of $CMD_OPTION": only start and restart insert unseen, and    *)
(* only they do something about the loopback device.                         *)
white_local(cmd) ==
  IF cmd \in {"start", "restart"}
    THEN ForEach([c \in Set |-> Loopback(c)]) \o ForEach([c \in Set |-> Local(c)])
    ELSE ForEach([c \in Set |-> LocalUnlessThere(c)])

(* Broken variant: a rule is remembered when it is there. *)
ActivateFirst(c) == <<On("activate", c), On("remember", c)>>

Activate(c) == <<On("remember", c), On("activate", c)>>

(* Broken variant: each chain is activated as soon as it is set up. *)
ActivatingEarly(cmd, port) ==
  LET setup == [c \in Set |-> Setup(c, port) \o Activate(c)]
  IN  delete_iptables \o ForEach(setup) \o white_local(cmd) \o <<Do("cat"), Do("mv")>>

(* An old remove script is executed first. *)
insert_iptables(cmd, port) ==
  LET setup == [c \in Set |-> Setup(c, port)]
  IN  delete_iptables \o ForEach(setup) \o white_local(cmd)
        \o ForEach([c \in Set |-> Activate(c)]) \o <<Do("cat"), Do("mv")>>

(* Broken variant: a port is added without a look at what there is. *)
ChangeUntested(cmd, c) ==
  <<Rule(IF cmd = "allow" THEN "insert" ELSE "delete", c, "port")>>

(* insert_iptables in configure mode: "always with a test if necessary".     *)
Change(cmd, c) == <<Rule(IF cmd = "allow" THEN "ensure" ELSE "delete", c, "port")>>

configure(cmd) ==
  <<Do("if_running")>> \o ForEach([c \in Set |-> Change(cmd, c)])

if_up == <<Do("if_running")>> \o white_local("if_up")

do_start(cmd, port) ==
  <<Do("unless_running")>> \o insert_iptables(cmd, port) \o <<Do("start_daemon")>>

do_stop == delete_iptables \o <<Do("killproc")>>

Program(cmd, port) ==
  CASE cmd = "start" -> do_start(cmd, port)
    [] cmd = "stop" -> do_stop
    [] cmd \in {"restart", "restart_not_wd"} -> do_stop \o do_start(cmd, port)
    [] cmd = "if_up" -> if_up
    [] cmd \in Configures -> configure(cmd)

(* Broken variant: nothing is taken back. *)
TakingNothingBack(cmd, rule) == <<>>

(* What is done after an iptables command failed.  A failure in the local    *)
(* rules just exits.                                                         *)
fail_insert_iptables(cmd, rule) ==
  IF cmd \in Starters /\ rule # "local"
    THEN <<Do("cat"), Do("mv")>> \o delete_iptables
    ELSE <<>>

-----------------------------------------------------------------------------
(* The shell *)

Idle == [cmd |-> "none", todo |-> <<>>, ok |-> TRUE]

Busy(p) == proc[p].todo # <<>>
Instr(p) == Head(proc[p].todo)
At(p, op) == Busy(p) /\ Instr(p).do = op

GoOn(p) == proc' = [proc EXCEPT ![p].todo = Tail(@)]
Instead(p, todo, ok) == proc' = [proc EXCEPT ![p].todo = todo, ![p].ok = ok]

Give(p) == Instead(p, fail_insert_iptables(proc[p].cmd, Instr(p).rule), FALSE)

NoPacket ==
  [at |-> "none", chain |-> "-", class |-> "other", listed |-> FALSE, mark |-> "none",
   rounds |-> 0, off |-> FALSE, deaf |-> FALSE]

Init ==
  /\ may \in Circumstances
  /\ proc = [p \in Procs |-> Idle]
  /\ conf = FALSE
  /\ script = <<>> /\ tmp = <<>>
  /\ made = {} /\ chain = [c \in Set |-> <<>>] /\ jump = [c \in Set |-> 0]
  /\ daemon = FALSE
  /\ result = "none" /\ refused = 0 /\ deaths = 0 /\ lost = {}
  /\ pkt = NoPacket

configure_permanent(cmd) == IF cmd \in Configures THEN cmd = "allow" ELSE conf

(* pglcmd reads its settings when it begins; a permanent configure first     *)
(* saves the changed one.                                                    *)
Call(p, cmd) ==
  /\ proc[p] = Idle
  /\ cmd = "restart_not_wd" => "repair" \in may
  /\ p = "hook" => "hook" \in may
  /\ proc' = [proc EXCEPT ![p] = [cmd |-> cmd, todo |-> Program(cmd, conf), ok |-> TRUE]]
  /\ conf' = configure_permanent(cmd)
  /\ UNCHANGED <<may, files, kernel, daemon, history, pkt>>

Exit(p) ==
  /\ proc[p].cmd # "none" /\ ~Busy(p)
  /\ proc' = [proc EXCEPT ![p] = Idle]
  /\ result' = CASE proc[p].cmd = "stop" -> "down"
                 [] proc[p].cmd \in Starters -> IF proc[p].ok THEN "up" ELSE "failed"
                 [] OTHER -> result
  /\ refused' = IF proc[p].cmd \notin Starters THEN refused
                ELSE IF proc[p].ok THEN 0
                ELSE Min({refused + 1, Len(Chains) + 1})
  /\ UNCHANGED <<may, conf, files, kernel, daemon, deaths, lost, pkt>>

(* status_of_proc *)
CheckStatus(p) ==
  /\ At(p, "if_running") \/ At(p, "unless_running")
  /\ IF daemon = (Instr(p).do = "if_running")
       THEN GoOn(p)
       ELSE Instead(p, <<>>, TRUE)
  /\ UNCHANGED <<may, conf, files, kernel, daemon, history, pkt>>

(* The packets in the queue are lost with their listener. *)
Deafened == IF pkt.at = "queued" THEN [pkt EXCEPT !.at = "dropped", !.deaf = TRUE] ELSE pkt

(* "Test NICE_LEVEL setting": exit $E_CONFIG, with the rules inserted.  This   *)
(* start was not refused by what others left.                                *)
bad_nice_level(p) ==
  /\ "nice" \in may /\ At(p, "start_daemon")
  /\ proc' = [proc EXCEPT ![p] = Idle]
  /\ result' = "exited" /\ refused' = 0
  /\ UNCHANGED <<may, conf, files, kernel, daemon, deaths, lost, pkt>>

start_daemon(p) ==
  /\ At(p, "start_daemon")
  /\ \/ daemon' = TRUE /\ GoOn(p)
     \/ "fail" \in may /\ Instead(p, delete_iptables, FALSE) /\ UNCHANGED daemon
  /\ UNCHANGED <<may, conf, files, kernel, history, pkt>>

killproc(p) ==
  /\ At(p, "killproc")
  /\ daemon' = FALSE /\ pkt' = Deafened
  /\ GoOn(p)
  /\ UNCHANGED <<may, conf, files, kernel, history>>

-----------------------------------------------------------------------------
(* The remove script *)

Record(p) ==
  /\ At(p, "record")
  /\ script' = script \o <<On("F", Instr(p).chain), On("X", Instr(p).chain)>>
  /\ GoOn(p)
  /\ UNCHANGED <<may, conf, tmp, kernel, daemon, history, pkt>>

Remember(p) ==
  /\ At(p, "remember")
  /\ tmp' = Append(tmp, On("D", Instr(p).chain))
  /\ GoOn(p)
  /\ UNCHANGED <<may, conf, script, kernel, daemon, history, pkt>>

(* cat $REMOVE_SCRIPT >> ${REMOVE_SCRIPT}.tmp *)
Cat(p) ==
  /\ At(p, "cat")
  /\ tmp' = tmp \o script
  /\ GoOn(p)
  /\ UNCHANGED <<may, conf, script, kernel, daemon, history, pkt>>

(* mv ${REMOVE_SCRIPT}.tmp $REMOVE_SCRIPT *)
Mv(p) ==
  /\ At(p, "mv")
  /\ script' = IF tmp = <<>> THEN script ELSE tmp
  /\ tmp' = <<>>
  /\ GoOn(p)
  /\ UNCHANGED <<may, conf, kernel, daemon, history, pkt>>

Sh(p) ==
  /\ At(p, "sh")
  /\ proc' = [proc EXCEPT ![p].todo = script \o Tail(@)]
  /\ UNCHANGED <<may, conf, files, kernel, daemon, history, pkt>>

Rm(p) ==
  /\ At(p, "rm")
  /\ script' = <<>>
  /\ GoOn(p)
  /\ UNCHANGED <<may, conf, tmp, kernel, daemon, history, pkt>>

-----------------------------------------------------------------------------
(* iptables.  A command fails if its chain is missing, or for other reasons. *)

Fails(p, sound) ==
  /\ ~sound \/ "fail" \in may
  /\ Give(p)
  /\ UNCHANGED <<may, conf, files, kernel, daemon, history, pkt>>

(* iptables -N *)
Create(p) ==
  LET c == Instr(p).chain IN
  /\ At(p, "create")
  /\ \/ /\ c \notin made
        /\ made' = made \cup {c}
        /\ GoOn(p)
        /\ UNCHANGED <<may, conf, files, chain, jump, daemon, history, pkt>>
     \/ Fails(p, c \notin made)

(* Broken variant: a rule goes to a chain that is not there. *)
InsertBlindly(p) ==
  LET c == Instr(p).chain  r == Instr(p).rule IN
  /\ At(p, "insert") \/ At(p, "ensure")
  /\ chain' = [chain EXCEPT ![c] = <<r>> \o @]
  /\ GoOn(p)
  /\ UNCHANGED <<may, conf, files, made, jump, daemon, history, pkt>>

(* iptables -I $PGL_CHAIN, in configure and if-up unless the rule is there.  *)
Insert(p) ==
  LET c == Instr(p).chain  r == Instr(p).rule IN
  /\ At(p, "insert") \/ At(p, "ensure")
  /\ \/ /\ c \in made
        /\ chain' = IF At(p, "ensure") /\ r \in Range(chain[c])
                      THEN chain
                      ELSE [chain EXCEPT ![c] = <<r>> \o @]
        /\ GoOn(p)
        /\ UNCHANGED <<may, conf, files, made, jump, daemon, history, pkt>>
     \/ Fails(p, c \in made)

(* iptables -D $PGL_CHAIN *)
Delete(p) ==
  LET c == Instr(p).chain  r == Instr(p).rule IN
  /\ At(p, "delete")
  /\ \/ /\ chain' = [chain EXCEPT ![c] = RemoveFirst(@, r)]
        /\ GoOn(p)
        /\ UNCHANGED <<may, conf, files, made, jump, daemon, history, pkt>>
     \/ r \in Range(chain[c]) /\ Fails(p, TRUE)

(* iptables -I $CHAIN ... -j $PGL_CHAIN *)
ActivateChain(p) ==
  LET c == Instr(p).chain IN
  /\ At(p, "activate")
  /\ \/ /\ c \in made
        /\ jump' = [jump EXCEPT ![c] = @ + 1]
        /\ GoOn(p)
        /\ UNCHANGED <<may, conf, files, made, chain, daemon, history, pkt>>
     \/ Fails(p, c \in made)

(* The lines of the remove script: -D $CHAIN ... -j, -F and -X $PGL_CHAIN.   *)
(* A chain that is not empty or that a rule jumps to is not deleted.         *)
Executed(p) ==
  /\ GoOn(p)
  /\ lost' = lost \ {Instr(p)}
  /\ UNCHANGED <<result, refused, deaths>>

Deactivate(p) ==
  LET c == Instr(p).chain IN
  /\ At(p, "D")
  /\ jump' = [jump EXCEPT ![c] = IF @ > 0 THEN @ - 1 ELSE 0]
  /\ Executed(p)
  /\ UNCHANGED <<may, conf, files, made, chain, daemon, pkt>>

Flush(p) ==
  /\ At(p, "F")
  /\ chain' = [chain EXCEPT ![Instr(p).chain] = <<>>]
  /\ Executed(p)
  /\ UNCHANGED <<may, conf, files, made, jump, daemon, pkt>>

DeleteChain(p) ==
  LET c == Instr(p).chain IN
  /\ At(p, "X")
  /\ made' = IF jump[c] = 0 /\ chain[c] = <<>> THEN made \ {c} ELSE made
  /\ Executed(p)
  /\ UNCHANGED <<may, conf, files, chain, jump, daemon, pkt>>

(* Errors are ignored, whatever they are. *)
FailUnnoticed(p) ==
  /\ "stuck" \in may
  /\ At(p, "D") \/ At(p, "F") \/ At(p, "X")
  /\ GoOn(p)
  /\ lost' = lost \cup {Instr(p)}
  /\ UNCHANGED <<may, conf, files, kernel, daemon, result, refused, deaths, pkt>>

-----------------------------------------------------------------------------
(* Trouble *)

Dead ==
  /\ deaths < MaxDeaths
  /\ deaths' = deaths + 1
  /\ result' = "dead" /\ refused' = 0

(* Between any two instructions; a remove script under way dies with pglcmd. *)
Kill ==
  /\ "kill" \in may /\ Busy("pglcmd")
  /\ Dead
  /\ proc' = [proc EXCEPT !["pglcmd"] = Idle]
  /\ UNCHANGED <<may, conf, files, kernel, daemon, lost, pkt>>

(* Files survive, the kernel's rules do not. *)
Reboot ==
  /\ "reboot" \in may
  /\ Dead
  /\ proc' = [p \in Procs |-> Idle]
  /\ made' = {} /\ chain' = [c \in Set |-> <<>>] /\ jump' = [c \in Set |-> 0]
  /\ daemon' = FALSE /\ lost' = {}
  /\ pkt' = NoPacket
  /\ UNCHANGED <<may, conf, files>>

End ==
  /\ "end" \in may /\ daemon
  /\ daemon' = FALSE /\ pkt' = Deafened
  /\ UNCHANGED <<may, proc, conf, files, kernel, history>>

-----------------------------------------------------------------------------
(* Packets *)

Filtering(c) == jump[c] > 0 /\ "queue" \in Range(chain[c])

Arrive ==
  /\ "packets" \in may
  /\ pkt.at \in {"none", "accepted", "dropped"}
  /\ \E c \in Set, class \in {"other", "port"}, listed \in BOOLEAN :
       pkt' = [NoPacket EXCEPT !.at = "hook", !.chain = c, !.class = class,
                               !.listed = listed]
  /\ UNCHANGED <<may, proc, conf, files, kernel, daemon, history>>

(* Broken variant: the block rule asks for no mark. *)
MatchesAnyMark(rule) ==
  CASE rule \in {"queue", "reject"} -> TRUE
    [] OTHER -> pkt.class = rule

Matches(rule) ==
  CASE rule = "queue" -> TRUE
    [] rule = "reject" -> pkt.mark = "reject"
    [] OTHER -> pkt.class = rule

(* Broken variant: marked packets are sent to pgl's chain as well. *)
DecidingRegardless ==
  LET rules == chain[pkt.chain]
      hits == {i \in DOMAIN rules : Matches(rules[i])}
  IN  IF jump[pkt.chain] = 0 \/ hits = {} \/ pkt.rounds > 1
        THEN "none" ELSE rules[Min(hits)]

(* The first rule of pgl that decides on the packet, if any does: "marked    *)
(* accept" packets are not sent to pgl's chain.                              *)
Deciding ==
  LET rules == chain[pkt.chain]
      hits == {i \in DOMAIN rules : Matches(rules[i])}
  IN  IF jump[pkt.chain] = 0 \/ pkt.mark = "accept" \/ hits = {}
        THEN "none" ELSE rules[Min(hits)]

(* Whitelisted packets RETURN.  The kernel drops what nobody listens for.    *)
Traverse ==
  /\ pkt.at = "hook"
  /\ pkt' = [pkt EXCEPT
       !.at = CASE Deciding = "reject" -> "dropped"
                [] Deciding = "queue" -> IF daemon THEN "queued" ELSE "dropped"
                [] OTHER -> "accepted",
       !.off = @ \/ ~Filtering(pkt.chain),
       !.deaf = @ \/ ~daemon]
  /\ UNCHANGED <<may, proc, conf, files, kernel, daemon, history>>

(* NF_REPEAT with a mark *)
nfqueue_cb ==
  /\ pkt.at = "queued" /\ daemon
  /\ pkt' = [pkt EXCEPT !.at = "hook", !.rounds = @ + 1,
                        !.mark = IF pkt.listed THEN "reject" ELSE "accept"]
  /\ UNCHANGED <<may, proc, conf, files, kernel, daemon, history>>

-----------------------------------------------------------------------------
Shell(p) ==
  \/ Exit(p) \/ CheckStatus(p) \/ bad_nice_level(p) \/ start_daemon(p) \/ killproc(p)
  \/ Record(p) \/ Remember(p) \/ Cat(p) \/ Mv(p) \/ Sh(p) \/ Rm(p)
  \/ Create(p) \/ Insert(p) \/ Delete(p) \/ ActivateChain(p)
  \/ Deactivate(p) \/ Flush(p) \/ DeleteChain(p) \/ FailUnnoticed(p)

Commands(p) == IF p = "pglcmd" THEN Starters \cup Configures \cup {"stop"}
                               ELSE Configures \cup {"if_up"}

Next ==
  \/ \E p \in Procs : \E cmd \in Commands(p) : Call(p, cmd)
  \/ \E p \in Procs : Shell(p)
  \/ Kill \/ Reboot \/ End
  \/ Arrive \/ Traverse \/ nfqueue_cb

Spec == Init /\ [][Next]_vars

-----------------------------------------------------------------------------
(* Properties *)

Ops == {"if_running", "unless_running", "start_daemon", "killproc", "record", "remember",
        "cat", "mv", "sh", "rm", "create", "insert", "ensure", "delete", "activate",
        "D", "F", "X"}

Rules == {"queue", "reject", "port", "list", "loop", "local"}

Instruction == [do : Ops, chain : Set \cup {"-"}, rule : Rules \cup {"-"}]

(* The types of the variables; a chain that does not exist has no rules, and *)
(* nothing jumps to it.                                                      *)
TypeOK ==
  /\ may \in Circumstances
  /\ \A p \in Procs : /\ proc[p].cmd \in {"none"} \cup Commands(p)
                      /\ proc[p].todo \in Seq(Instruction)
                      /\ proc[p].ok \in BOOLEAN
  /\ conf \in BOOLEAN /\ daemon \in BOOLEAN
  /\ script \in Seq(Instruction) /\ tmp \in Seq(Instruction)
  /\ made \subseteq Set
  /\ chain \in [Set -> Seq(Rules)]
  /\ jump \in [Set -> Nat]
  /\ \A c \in Set \ made : chain[c] = <<>> /\ jump[c] = 0
  /\ result \in {"none", "up", "down", "failed", "exited", "dead"}
  /\ refused \in Nat /\ deaths \in 0 .. MaxDeaths
  /\ lost \subseteq Instruction

Recorded(c) == On("D", c) \in Range(script \o tmp \o proc["pglcmd"].todo)

(* "Remember the removal command before actually inserting"                  *)
(* (pglcmd.lib:1334): whatever dies when, a rule that sends packets to pgl   *)
(* is removed by a line of one of the two files, or of a script under way,   *)
(* unless that line was executed and failed.                                 *)
JumpsRecorded == \A c \in Set : jump[c] > 0 => Recorded(c) \/ On("D", c) \in lost

Resting(how) == result = how /\ proc["pglcmd"] = Idle

(* fail_insert_iptables "Removes all iptables rules again", and do_stop does *)
(* so too: after a start that an iptables command or pgld made fail and      *)
(* after a stop, no packet goes to a queue where nobody listens, even if an  *)
(* earlier start was killed and its remove script was never put together --  *)
(* unless the chain could not be flushed.                                    *)
ReleasesTraffic ==
  Resting("failed") \/ Resting("down") =>
    \A c \in Set : Filtering(c) => On("F", c) \in lost

(* A bad NICE_LEVEL, and failures other than of the remove script itself,    *)
(* leave nothing behind after the next stop.                                 *)
StopCleans ==
  Resting("down") /\ may \cap {"stuck", "kill", "reboot", "hook"} = {} =>
    made = {} /\ script = <<>> /\ tmp = <<>>

(* After a death, every start that finds something left over fails, but it   *)
(* clears away a chain: there are no more such starts than chains.           *)
HealsWithin == may \cap {"fail", "stuck", "hook"} = {} => refused <= Len(Chains)

(* Taken together: as long as the remove scripts succeed, no failure, death  *)
(* or stop leaves behind what a user could not get rid of by starting or     *)
(* stopping pgl.                                                             *)
CleansUp == ReleasesTraffic /\ StopCleans /\ HealsWithin

(* Chains are activated last: a chain that sends packets to pgld has its     *)
(* rules already, those for the LAN and (pglcmd.defaults:275) the loopback   *)
(* device included -- the latter unless the watchdog did the restart, which  *)
(* white_local takes for an if-up.                                           *)
ActiveComplete ==
  \A c \in Set : Filtering(c) =>
    /\ {"list", "local", "reject"} \subseteq Range(chain[c])
    /\ c \in {"INPUT", "OUTPUT"} /\ "repair" \notin may => "loop" \in Range(chain[c])

(* The list decides: a packet from or to a listed address that nothing       *)
(* whitelists gets through only if the rules were not all there at one of    *)
(* the times it met them, and a packet of another address is dropped only if *)
(* pgld was not listening.  It decides once: a packet that pgld has marked   *)
(* does not come back to its queue ("... the packet will loop forever",      *)
(* pglcmd.lib:1302), whatever happens to the rules meanwhile.                *)
ListDecides ==
  /\ pkt.at = "accepted" /\ pkt.listed /\ pkt.class = "other" => pkt.off
  /\ pkt.at = "dropped" /\ ~pkt.listed => pkt.deaf
  /\ pkt.at = "queued" => pkt.rounds = 0

(* configure --permanent, start and stop in any order, one after the other:  *)
(* the rules of a running pgl are what the configuration file says.          *)
ConfHonoured ==
  /\ may \cap {"fail", "kill", "hook"} = {}
  /\ proc["pglcmd"] = Idle /\ daemon
  => \A c \in Set : conf <=> "port" \in Range(chain[c])

=============================================================================
