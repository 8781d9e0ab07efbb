--------------------------------- MODULE Pgld ---------------------------------
(***************************************************************************)
(* The daemon process of src/pgld/src/pgld.c: one thread that starts up,   *)
(* loads the lists and answers packets, and signal handlers that run on    *)
(* top of it.  install_sighandler leaves sa_mask empty, so a handler can   *)
(* be interrupted by any signal but its own, at any point.                 *)
(*                                                                         *)
(* stack holds the interrupted computations, the running one last.  The    *)
(* blocklist is abstracted to the files whose ranges it holds; Blocklist   *)
(* and Loader model what happens inside.  A computation that keeps an      *)
(* index, a count or a pointer into the array has a reference, "stale" as  *)
(* soon as the array is freed: what it does then is undefined.  Here the   *)
(* process dies of SIGSEGV or gets away with it, and a load that goes on   *)
(* with the indices and counts of an array that is gone, on the array that *)
(* a reload has put in its place, leaves some or none of its ranges: it    *)
(* blanks those at its old indices and cuts off as many as it had merged.  *)
(* list.torn is a history variable: such a load had a part in the list.    *)
(***************************************************************************)
EXTENDS Integers, Sequences, SequencesExt

CONSTANTS
  NFiles,      (* blockfile_count, the lists on the command line            *)
  Signals,     (* the signals that are sent to the daemon                   *)
  MaxSignals,  (* bound: how many signals are sent to one process           *)
  MaxVersion,  (* bound: how often the list files are rewritten             *)
  LogLocks     (* localtime and syslog take a lock that is not reentrant    *)

Handled == {"USR1", "USR2", "HUP", "TERM", "INT"}

ASSUME PgldAssumption ==
  /\ NFiles \in Nat \ {0}
  /\ Signals \subseteq Handled
  /\ MaxSignals \in Nat /\ MaxVersion \in Nat
  /\ LogLocks \in BOOLEAN

Files == 1 .. NFiles

VARIABLES
  stack,    (* the computations: main's, then the handlers' on top of it    *)
  pending,  (* signals sent and not yet delivered: a set, they coalesce     *)
  sent,     (* how many signals were sent to this process                    *)
  exited,   (* "no", or how the process ended                               *)
  version,  (* how often the list files have been rewritten                 *)
  list,     (* the blocklist                                                *)
  failed,   (* the files the last load could not load                       *)
  queue,    (* the NFQUEUE handle                                           *)
  packet,   (* the packet in the queue or in the daemon's hands             *)
  logger,   (* the depth of the computation inside do_log, or 0             *)
  pidfile   (* whom the pidfile names                                       *)

listVars == <<list, failed>>
kernelVars == <<queue, packet>>
vars == <<stack, pending, sent, exited, version, listVars, kernelVars, logger,
          pidfile>>

-----------------------------------------------------------------------------
Top == Last(stack)

Frame(sig, at) == [sig |-> sig, at |-> at, file |-> 0, ref |-> "none", bad |-> FALSE]

Running(at) == exited = "no" /\ Top.at = at

Main == stack[1]

Replace(frame) == stack' = [stack EXCEPT ![Len(stack)] = frame]

Goto(at) == Replace([Top EXCEPT !.at = at])

GotoWithRef(at) == Replace([Top EXCEPT !.at = at, !.ref = "live"])

Return == stack' = Front(stack)

(* What the freed array does to those who still refer to it. *)
Freed(frames) ==
  [x \in DOMAIN frames |->
     [frames[x] EXCEPT !.ref = IF @ = "live" THEN "stale" ELSE @]]

Exit(how) ==
  /\ exited' = how
  /\ packet' = "none"
  /\ UNCHANGED <<stack, pending, sent, version, listVars, logger>>

(* SIGSEGV: its handler runs, unless it is the one that caused it. *)
Crash ==
  \/ /\ \A x \in 1 .. Len(stack) : stack[x].sig # "SEGV"
     /\ stack' = Append(stack, Frame("SEGV", "unbind"))
     /\ UNCHANGED <<pending, sent, exited, version, listVars, kernelVars, logger,
                    pidfile>>
  \/ /\ \E x \in 1 .. Len(stack) : stack[x].sig = "SEGV"
     /\ Exit("died")
     /\ UNCHANGED <<queue, pidfile>>

(* The C library lets the computation into do_log. *)
MayLog == logger = 0 \/ ~LogLocks

NoList == [held |-> {}, since |-> version, merged |-> FALSE, slack |-> FALSE,
           torn |-> FALSE]

-----------------------------------------------------------------------------
(* main up to the loop *)

Init ==
  /\ stack = <<Frame("main", "pidfile")>>
  /\ pending = {} /\ sent = 0
  /\ exited = "no"
  /\ version = 0
  /\ list = NoList
  /\ failed = {}
  /\ queue = "unbound" /\ packet = "none"
  /\ logger = 0
  /\ pidfile = "none"

create_pidfile ==
  /\ Running("pidfile")
  /\ \/ /\ pidfile' = "ours"
        /\ Goto("handlers")
        /\ UNCHANGED <<pending, sent, exited, version, listVars, kernelVars, logger>>
     \/ Exit("error") /\ UNCHANGED <<queue, pidfile>>

install_sighandler ==
  /\ Running("handlers")
  /\ Goto("init")
  /\ UNCHANGED <<pending, sent, exited, version, listVars, kernelVars, logger, pidfile>>

(* The list a HUP has loaded by now is forgotten, not freed. *)
blocklist_init ==
  /\ Running("init")
  /\ list' = NoList
  /\ Goto("clear")
  /\ UNCHANGED <<pending, sent, exited, version, failed, kernelVars, logger, pidfile>>

nfqueue_bind ==
  /\ Running("bind")
  /\ \/ /\ queue' = "bound"
        /\ Goto("recv")
        /\ UNCHANGED <<pending, sent, exited, version, listVars, packet, logger, pidfile>>
     \/ Exit("error") /\ UNCHANGED <<queue, pidfile>>

-----------------------------------------------------------------------------
(* load_all_lists, in main or in the handler of SIGHUP *)

LoadClear ==
  /\ Running("clear")
  /\ list' = NoList
  /\ failed' = {}
  /\ stack' = Append(Front(Freed(stack)),
                     [Top EXCEPT !.at = "open", !.file = 1, !.bad = FALSE])
  /\ UNCHANGED <<pending, sent, exited, version, kernelVars, logger, pidfile>>

(* Broken variants: the loop runs once too often, or once too rarely. *)
MoreFilesThanThere == Top.file \in Files \cup {NFiles + 1}
MoreFilesButLast == Top.file \in 1 .. NFiles - 1

MoreFiles == Top.file \in Files

(* load_list remembers how many entries there are before the file. *)
LoadOpen ==
  /\ Running("open")
  /\ MoreFiles
  /\ GotoWithRef("read")
  /\ UNCHANGED <<pending, sent, exited, version, listVars, kernelVars, logger, pidfile>>

NextFile(bad) ==
  Replace([Top EXCEPT !.at = "open", !.file = @ + 1, !.ref = "none",
                      !.bad = @ \/ bad])

Stale == Top.ref = "stale"

(* What is left of the files in the array after a step that may be one for    *)
(* an array that is gone.                                                    *)
Left(files) == IF Stale THEN SUBSET files ELSE {files}

(* A merge that a HUP got in between has shrunk the array but not the        *)
(* capacity the append believes in.                                          *)
LoadRead ==
  /\ Running("read")
  /\ \/ /\ \E left \in Left(list.held \cup {Top.file}) :
             list' = [list EXCEPT !.held = left, !.merged = FALSE,
                                  !.torn = @ \/ Stale]
        /\ NextFile(FALSE)
        /\ UNCHANGED <<pending, sent, exited, version, failed, kernelVars, logger,
                       pidfile>>
     \/ (list.slack \/ Stale) /\ Crash

(* The file is unreadable, and what it left is rolled back.  After a reload  *)
(* the rollback point is one of another array.                               *)
LoadFail ==
  /\ Running("read")
  /\ \/ /\ \E left \in Left(list.held), slack \in {FALSE, list.slack} :
             list' = [list EXCEPT !.held = left, !.slack = slack,
                                  !.torn = @ \/ Stale]
        /\ failed' = failed \cup {Top.file}
        /\ NextFile(TRUE)
        /\ UNCHANGED <<pending, sent, exited, version, kernelVars, logger, pidfile>>
     \/ Stale /\ Crash

LoadSort ==
  /\ Running("open")
  /\ ~MoreFiles
  /\ GotoWithRef("merge")
  /\ UNCHANGED <<pending, sent, exited, version, listVars, kernelVars, logger, pidfile>>

(* qsort and the merge work on the array they began with.  The merge of an   *)
(* array that has been replaced goes on with i, j, ip_max and merged of the   *)
(* old one: what it blanks and what count -= merged cuts off is lost.         *)
LoadMerge ==
  /\ Running("merge")
  /\ \/ /\ \E left \in Left(list.held), merged \in {TRUE, ~Stale}, slack \in BOOLEAN :
             list' = [list EXCEPT !.held = left, !.merged = merged, !.slack = slack,
                                  !.torn = @ \/ Stale]
        /\ Replace([Top EXCEPT !.at = "loaded", !.ref = "none"])
        /\ UNCHANGED <<pending, sent, exited, version, failed, kernelVars, logger,
                       pidfile>>
     \/ Stale /\ Crash

(* A failed load ends a daemon that has not begun to serve. *)
MainLoaded ==
  /\ Running("loaded")
  /\ Top.sig = "main"
  /\ IF Top.bad
       THEN Exit("error") /\ UNCHANGED <<queue, pidfile>>
       ELSE /\ Goto("bind")
            /\ UNCHANGED <<pending, sent, exited, version, listVars, kernelVars,
                           logger, pidfile>>

-----------------------------------------------------------------------------
(* nfqueue_loop and nfqueue_cb *)

(* A packet without a header or of another hook gets no verdict. *)
Recv ==
  /\ Running("recv")
  /\ packet = "queued"
  /\ \/ packet' = "held" /\ GotoWithRef("search")
     \/ packet' = "held" /\ Goto("log")
     \/ packet' = "none" /\ UNCHANGED stack
  /\ UNCHANGED <<pending, sent, exited, version, listVars, queue, logger, pidfile>>

RecvError ==
  /\ Running("recv")
  /\ queue' = "closed"
  /\ \E how \in {"clean", "error"} : Exit(how)
  /\ UNCHANGED pidfile

(* The search of a freed array finds anything. *)
Search ==
  /\ Running("search")
  /\ \/ /\ \/ Replace([Top EXCEPT !.at = "accept", !.ref = "none"])
           \/ (list.held # {} \/ Top.ref = "stale") /\ Goto("reject")
        /\ UNCHANGED <<pending, sent, exited, version, listVars, kernelVars, logger,
                       pidfile>>
     \/ Top.ref = "stale" /\ Crash

Accept ==
  /\ Running("accept")
  /\ packet' = "none"
  /\ Goto("recv")
  /\ UNCHANGED <<pending, sent, exited, version, listVars, queue, logger, pidfile>>

Reject ==
  /\ Running("reject")
  /\ packet' = "none"
  /\ Goto("hit")
  /\ UNCHANGED <<pending, sent, exited, version, listVars, queue, logger, pidfile>>

(* found_range->hits++ *)
Hit ==
  /\ Running("hit")
  /\ \/ /\ Goto("log")
        /\ UNCHANGED <<pending, sent, exited, version, listVars, kernelVars, logger,
                       pidfile>>
     \/ Top.ref = "stale" /\ Crash

-----------------------------------------------------------------------------
(* do_log with the name of an entry, in nfqueue_cb and in blocklist_stats *)

LogBegin ==
  /\ Running("log")
  /\ MayLog
  /\ logger' = IF LogLocks THEN Len(stack) ELSE 0
  /\ Goto("logging")
  /\ UNCHANGED <<pending, sent, exited, version, listVars, kernelVars, pidfile>>

AfterLog ==
  IF Top.sig = "main" THEN Replace([Top EXCEPT !.at = "recv", !.ref = "none"])
  ELSE IF Top.sig \in {"TERM", "INT"} THEN Replace([Top EXCEPT !.at = "free", !.ref = "none"])
  ELSE Return

LogEnd ==
  /\ Running("logging")
  /\ \/ /\ logger' = 0
        /\ AfterLog
        /\ packet' = IF Top.sig = "main" /\ packet = "held" THEN "none" ELSE packet
        /\ UNCHANGED <<pending, sent, exited, version, listVars, queue, pidfile>>
     \/ Top.ref = "stale" /\ Crash

-----------------------------------------------------------------------------
(* sighandler *)

(* Broken variant: HUP reopens no list. *)
StartNoReload(s) == IF s \in {"TERM", "INT"} THEN "unbind" ELSE "stats"

Start(s) ==
  CASE s \in {"USR1", "USR2"} -> "stats"
    [] s = "HUP"              -> "reopen"
    [] s \in {"TERM", "INT"}  -> "unbind"

(* A signal does not interrupt its own handler.  Before install_sighandler   *)
(* it ends the process.                                                      *)
Deliver(s) ==
  /\ exited = "no"
  /\ s \in pending
  /\ \A x \in 1 .. Len(stack) : stack[x].sig # s
  /\ pending' = pending \ {s}
  /\ IF Main.at \in {"pidfile", "handlers"}
       THEN /\ exited' = "died"
            /\ UNCHANGED stack
       ELSE /\ stack' = Append(stack, Frame(s, Start(s)))
            /\ UNCHANGED exited
  /\ UNCHANGED <<sent, version, listVars, kernelVars, logger, pidfile>>

(* blocklist_stats: one entry with hits stands for all of them. *)
Stats ==
  /\ Running("stats")
  /\ IF list.held = {} THEN AfterLog ELSE GotoWithRef("log")
  /\ UNCHANGED <<pending, sent, exited, version, listVars, kernelVars, logger, pidfile>>

Reopen ==
  /\ Running("reopen")
  /\ MayLog
  /\ \/ /\ Goto("clear")
        /\ UNCHANGED <<pending, sent, exited, version, listVars, kernelVars, logger,
                       pidfile>>
     \/ Exit("error") /\ UNCHANGED <<queue, pidfile>>

(* "Blocklist(s) reloaded." is logged after a failure as well. *)
HupLoaded ==
  /\ Running("loaded")
  /\ Top.sig = "HUP"
  /\ MayLog
  /\ Goto("reloaded")
  /\ UNCHANGED <<pending, sent, exited, version, listVars, kernelVars, logger, pidfile>>

Reloaded ==
  /\ Running("reloaded")
  /\ Return
  /\ UNCHANGED <<pending, sent, exited, version, listVars, kernelVars, logger, pidfile>>

(* nfqueue_unbind leaves nfqueue_h set: a second call uses a closed handle. *)
Unbind ==
  /\ Running("unbind")
  /\ queue # "unbound" => MayLog
  /\ \/ /\ queue' = IF queue = "bound" THEN "closed" ELSE queue
        /\ IF Top.sig = "SEGV"
             THEN Exit("died")
             ELSE /\ Goto("stats")
                  /\ UNCHANGED <<pending, sent, exited, version, listVars, packet,
                                 logger>>
        /\ UNCHANGED pidfile
     \/ queue = "closed" /\ Crash

FreeAll ==
  /\ Running("free")
  /\ list' = NoList
  /\ stack' = [Freed(stack) EXCEPT ![Len(stack)].at = "unlink"]
  /\ UNCHANGED <<pending, sent, exited, version, failed, kernelVars, logger, pidfile>>

(* Broken variant: the handler returns to what it interrupted. *)
UnlinkReturning ==
  /\ Running("unlink")
  /\ pidfile' = "none"
  /\ Return
  /\ UNCHANGED <<pending, sent, exited, version, listVars, kernelVars, logger>>

Unlink ==
  /\ Running("unlink")
  /\ pidfile' = "none"
  /\ Exit("clean")
  /\ UNCHANGED queue

-----------------------------------------------------------------------------
(* The world around the process *)

Kill(s) ==
  /\ exited = "no"
  /\ sent < MaxSignals
  /\ sent' = sent + 1
  /\ pending' = pending \cup {s}
  /\ UNCHANGED <<stack, exited, version, listVars, kernelVars, logger, pidfile>>

(* The kernel queues a packet. *)
Arrive ==
  /\ exited = "no"
  /\ queue = "bound"
  /\ packet = "none"
  /\ packet' = "queued"
  /\ UNCHANGED <<stack, pending, sent, exited, version, listVars, queue, logger, pidfile>>

Rewrite ==
  /\ version < MaxVersion
  /\ version' = version + 1
  /\ UNCHANGED <<stack, pending, sent, exited, listVars, kernelVars, logger, pidfile>>

Restart ==
  /\ exited # "no"
  /\ stack' = <<Frame("main", "pidfile")>>
  /\ pending' = {} /\ sent' = 0
  /\ exited' = "no"
  /\ list' = NoList
  /\ failed' = {}
  /\ queue' = "unbound" /\ packet' = "none"
  /\ logger' = 0
  /\ pidfile' = IF pidfile = "ours" THEN "stale" ELSE pidfile
  /\ UNCHANGED version

Boot == create_pidfile \/ install_sighandler \/ blocklist_init \/ nfqueue_bind

Load ==
  \/ LoadClear
  \/ LoadOpen
  \/ LoadRead
  \/ LoadFail
  \/ LoadSort
  \/ LoadMerge
  \/ MainLoaded

Answer ==
  \/ Recv
  \/ Search
  \/ Accept
  \/ Reject
  \/ Hit
  \/ LogBegin
  \/ LogEnd

Handle ==
  \/ Stats
  \/ Reopen
  \/ HupLoaded
  \/ Reloaded
  \/ Unbind
  \/ FreeAll
  \/ Unlink

Step == Boot \/ Load \/ Answer \/ Handle

World ==
  \/ \E s \in Signals : Kill(s)
  \/ Arrive
  \/ Rewrite
  \/ Restart

Next ==
  \/ Step
  \/ RecvError
  \/ \E s \in Signals : Deliver(s)
  \/ World

Spec == Init /\ [][Next]_vars

(* The running computation goes on, and the kernel delivers a signal that is *)
(* not blocked.                                                              *)
FairSpec == Spec /\ WF_vars(Step) /\ \A s \in Signals : WF_vars(Deliver(s))

-----------------------------------------------------------------------------
(* Properties *)

Labels ==
  {"pidfile", "handlers", "init", "clear", "open", "read", "merge", "loaded", "bind",
   "recv", "search", "accept", "reject", "hit", "log", "logging", "stats", "reopen",
   "reloaded", "unbind", "free", "unlink"}

(* The types of the variables; main is at the bottom of the stack. *)
TypeOK ==
  /\ stack # <<>> /\ stack[1].sig = "main"
  /\ \A x \in 1 .. Len(stack) :
       stack[x] \in [sig : {"main", "SEGV"} \cup Signals, at : Labels,
                     file : 0 .. NFiles + 1,
                     ref : {"none", "live", "stale"}, bad : BOOLEAN]
  /\ pending \subseteq Signals /\ sent \in 0 .. MaxSignals
  /\ exited \in {"no", "clean", "error", "died"}
  /\ version \in 0 .. MaxVersion
  /\ list \in [held : SUBSET Files, since : 0 .. MaxVersion,
               merged : BOOLEAN, slack : BOOLEAN, torn : BOOLEAN]
  /\ failed \subseteq Files
  /\ queue \in {"unbound", "bound", "closed"}
  /\ packet \in {"none", "queued", "held"}
  /\ logger \in 0 .. Len(stack)
  /\ pidfile \in {"none", "ours", "stale"}

(* The list is completely loaded, sorted and merged: each file is in it or   *)
(* was found unreadable by the last load.                                    *)
WholeList == list.merged /\ list.held \cup failed = Files

(* A reload ends with a whole list, whatever it interrupted and wherever      *)
(* signals interrupted it, and a packet is looked up only in a whole list: a  *)
(* reload is never seen halfway.  The one exception is the list of a first    *)
(* load that a HUP got into, and only until the next reload.                 *)
SearchesWholeList ==
  /\ Running("reloaded") => WholeList /\ ~list.torn
  /\ Running("search") /\ Top.ref = "live" => WholeList \/ list.torn

(* docs/pgld.1: HUP reopens the logfile and reloads the blocklist.  It does  *)
(* not pull the entry of a packet from under nfqueue_cb.                     *)
HitsLiveEntry == Running("hit") => Top.ref = "live"

(* A HUP sent after the lists were rewritten makes the daemon serve them,    *)
(* even one that comes while an earlier HUP is being handled, unless the     *)
(* process ends.                                                             *)
HupTakesEffect ==
  \A v \in 0 .. MaxVersion :
    "HUP" \in pending /\ version = v ~>
      exited # "no" \/ (list.merged /\ list.since >= v)

(* TERM ends the daemon, whatever it is doing. *)
TermEnds == "TERM" \in pending ~> exited # "no"

=============================================================================
