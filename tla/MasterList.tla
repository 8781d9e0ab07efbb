------------------------------ MODULE MasterList ------------------------------
(***************************************************************************)
(* How pglcmd builds the master blocklist that pgld is started with:       *)
(* update_blocklists, get_blocklist, extract_blocklist, build_blocklist    *)
(* and the md5 sum that spares a rebuild, in pglcmd/pglcmd.lib, as the     *)
(* commands start, reload and update run them.  Nothing keeps two pglcmd   *)
(* processes from running at a time, and every one may be killed between   *)
(* two steps.  logrotate signals pgld without asking pglcmd.               *)
(*                                                                         *)
(* The content of a list is its version.  The files a process works on are *)
(* all global; what it keeps in shell variables is in its record.  A list   *)
(* is written in place, by cp into the downloads and by sed into the        *)
(* extracted lists: a writer that is stopped there leaves a broken file.    *)
(***************************************************************************)
EXTENDS Integers

CONSTANTS
  Procs,        (* the pglcmd processes                                     *)
  Remote,       (* lists that blocklists.list may name                      *)
  Local,        (* lists in LOCAL_BLOCKLIST_DIR                             *)
  MaxVersion,   (* bound: the versions a list goes through                  *)
  Empty,        (* the versions that have no line                           *)
  Commands,     (* what pglcmd is called with                               *)
  Circumstances (* sets of what may happen in a behaviour:                  *)
                (* "death": a process is killed between two steps, or exits *)
                (*   on a failing rm                                        *)
                (* "tear": a kill or a full disk stops cp or sed halfway    *)
                (* "failure": $DAEMON -m fails, a download is corrupt       *)
                (* "edit": the administrator edits lists while pglcmd runs  *)
                (* "rotation": logrotate sends HUP to pgld                  *)

Lists == Remote \cup Local

Restarts == {"restart", "force-restart"}
AllCommands ==
  {"start", "reload", "force-reload", "update", "force-update"} \cup Restarts

ASSUME MasterListAssumption ==
  /\ Remote \cap Local = {}
  /\ MaxVersion \in Nat \ {0}
  /\ Empty \subseteq 1 .. MaxVersion
  /\ Commands \subseteq AllCommands
  /\ Circumstances \subseteq SUBSET {"death", "tear", "failure", "edit", "rotation"}

Missing == 0     (* there is no such file                                   *)
Broken == -1     (* a file whose writer did not finish                      *)
Versions == 1 .. MaxVersion
Files == {Broken, Missing} \cup Versions

VARIABLES
  may,         (* which of the circumstances this behaviour has             *)
  proc,        (* the pglcmd processes                                      *)
  wanted,      (* the lists named by blocklists.list                        *)
  source,      (* the lists as their servers, or their local files, have them *)
  downloaded,  (* BLOCKLIST_DOWNLOADED of the remote lists                  *)
  extracted,   (* BLOCKLIST_EXTRACTED                                       *)
  master,      (* MASTER_BLOCKLIST                                          *)
  backup,      (* MASTER_BLOCKLIST~                                         *)
  md5,         (* MD5SUM_FILE: {}, or the set of its one sum                *)
  daemon       (* what pgld runs with                                       *)

settings == <<wanted, source>>
lists == <<downloaded, extracted>>
built == <<master, backup, md5>>
vars == <<may, proc, settings, lists, built, daemon>>

-----------------------------------------------------------------------------
(* A master list is made of the versions of its lists. *)
NoMaster == [state |-> "missing", of |-> {}]
Unfinished == [state |-> "unfinished", of |-> {}]
Merged(names) ==
  [state |-> "built",
   of |-> {<<l, extracted[l]>> : l \in {n \in names : extracted[n] # Missing}}]

Down == [up |-> FALSE, list |-> NoMaster]

Idle == [at |-> "idle", cmd |-> "none", todo |-> {}, list |-> "none",
         used |-> {}, sum |-> {}]

At(p, at) == proc[p].at = at

Goto(p, at) == proc' = [proc EXCEPT ![p].at = at]

(* exit *)
Leave(p) == proc' = [proc EXCEPT ![p] = Idle]

Forced(p) == proc[p].cmd \in {"force-restart", "force-reload"}
Starting(p) == proc[p].cmd \in {"start"} \cup Restarts

Here == {l \in Local : source[l] # Missing}

(* Broken variants: the sum ignores the local lists, or blocklists.list. *)
SumOfWanted == [wanted |-> wanted, master |-> master, local |-> {}]
SumOfLocal == [wanted |-> {}, master |-> master, local |-> {<<l, source[l]>> : l \in Here}]

(* set_md5sum: neither the downloaded nor the extracted lists are in it. *)
Sum == [wanted |-> wanted, master |-> master,
        local |-> {<<l, source[l]>> : l \in Here}]

Init ==
  /\ may \in Circumstances
  /\ proc = [p \in Procs |-> Idle]
  /\ wanted \in SUBSET Remote
  /\ source \in [Lists -> {1}]
  /\ downloaded = [l \in Remote |-> Missing]
  /\ extracted = [l \in Lists |-> Missing]
  /\ master = NoMaster /\ backup = NoMaster
  /\ md5 = {}
  /\ daemon = Down

-----------------------------------------------------------------------------
(* pglcmd.in calls update_blocklists, do_start or do_reload; do_restart is a *)
(* do_stop before a do_start.                                                *)

Call(p, cmd) ==
  /\ At(p, "idle")
  /\ proc' = [proc EXCEPT ![p].cmd = cmd,
                ![p].at = CASE cmd = "force-update" -> "wipe"
                            [] cmd = "update" -> "forget"
                            [] OTHER -> "check"]
  /\ daemon' = IF cmd \in Restarts THEN Down ELSE daemon
  /\ UNCHANGED <<may, settings, lists, built>>

(* rm -rf $BLOCKLISTS_DIR, which MD5SUM_FILE is in *)
Wipe(p) ==
  /\ At(p, "wipe")
  /\ downloaded' = [l \in Remote |-> Missing]
  /\ extracted' = [l \in Lists |-> Missing]
  /\ md5' = {}
  /\ Goto(p, "forget")
  /\ UNCHANGED <<may, settings, master, backup, daemon>>

(* Broken variants: update_blocklists keeps the old md5 sum; the rebuild is  *)
(* skipped whenever there is a sum.                                          *)
ForgetNothing(p) ==
  /\ At(p, "forget")
  /\ proc' = [proc EXCEPT ![p].at = "gather", ![p].todo = wanted]
  /\ UNCHANGED <<may, settings, lists, built, daemon>>
UpToDateIfSaved == md5 # {}

(* update_blocklists: "Remove the old MD5SUM file now" *)
Forget(p) ==
  /\ At(p, "forget")
  /\ md5' = {}
  /\ proc' = [proc EXCEPT ![p].at = "gather", ![p].todo = wanted]
  /\ UNCHANGED <<may, settings, lists, master, backup, daemon>>

UpToDate == md5 = {Sum}

(* do_start and do_reload *)
Check(p) ==
  /\ At(p, "check")
  /\ IF Starting(p) = daemon.up THEN Leave(p)
     ELSE IF ~Forced(p) /\ UpToDate THEN Goto(p, "signal")
     ELSE Goto(p, "unsave")
  /\ UNCHANGED <<may, settings, lists, built, daemon>>

-----------------------------------------------------------------------------
(* build_blocklist up to the list of files *)

Unsave(p) ==
  /\ At(p, "unsave")
  /\ md5' = {}
  /\ Goto(p, "backup")
  /\ UNCHANGED <<may, settings, lists, master, backup, daemon>>

MoveToBackup(p) ==
  /\ At(p, "backup")
  /\ IF master = NoMaster
       THEN UNCHANGED <<may, master, backup>>
       ELSE backup' = master /\ master' = NoMaster
  /\ proc' = [proc EXCEPT ![p].at = "collect", ![p].todo = wanted \cup Here,
                          ![p].used = {}]
  /\ UNCHANGED <<may, settings, lists, md5, daemon>>

Collect(p, l) ==
  /\ At(p, "collect")
  /\ l \in proc[p].todo
  /\ proc' = [proc EXCEPT
       ![p].todo = @ \ {l}, ![p].used = @ \cup {l}, ![p].list = l,
       ![p].at = CASE l \in Local -> "extract"
                   [] l \in Remote /\ extracted[l] = Missing -> "get"
                   [] OTHER -> "collect"]
  /\ UNCHANGED <<may, settings, lists, built, daemon>>

Collected(p) ==
  /\ At(p, "collect")
  /\ proc[p].todo = {}
  /\ IF proc[p].used = {}
       THEN Leave(p)
       ELSE proc' = [proc EXCEPT ![p].at = "merge", ![p].list = "none"]
  /\ UNCHANGED <<may, settings, lists, built, daemon>>

-----------------------------------------------------------------------------
(* get_blocklist and extract_blocklist, for an update or for a build *)

Gather(p, l) ==
  /\ At(p, "gather")
  /\ l \in proc[p].todo
  /\ proc' = [proc EXCEPT ![p].todo = @ \ {l}, ![p].list = l, ![p].at = "get"]
  /\ UNCHANGED <<may, settings, lists, built, daemon>>

(* update_blocklists returns, and do_reload follows. *)
Gathered(p) ==
  /\ At(p, "gather")
  /\ proc[p].todo = {}
  /\ proc' = [proc EXCEPT ![p].at = "check", ![p].list = "none"]
  /\ UNCHANGED <<may, settings, lists, built, daemon>>

(* Broken variant: what a failed wget has written is taken for the list. *)
GetKeepingPart(p) ==
  LET l == proc[p].list IN
  /\ At(p, "get")
  /\ \E v \in {source[l], Broken} : downloaded' = [downloaded EXCEPT ![l] = v]
  /\ Goto(p, "extract")
  /\ UNCHANGED <<may, settings, extracted, built, daemon>>

(* wget: a new list, or an old one that is current or has to do. *)
Get(p) ==
  LET l == proc[p].list IN
  /\ At(p, "get")
  /\ \/ downloaded' = [downloaded EXCEPT ![l] = source[l]] /\ Goto(p, "extract")
     \/ downloaded[l] # Missing /\ Goto(p, "extract") /\ UNCHANGED downloaded
     \/ downloaded[l] = Missing /\ Leave(p) /\ UNCHANGED downloaded
  /\ UNCHANGED <<may, settings, extracted, built, daemon>>

(* A list without a line does not replace one that has been there.  Of a      *)
(* broken one there may be a line left or none.                              *)
Extracted(l, content) ==
  IF content \notin Empty \cup {Broken} \/ extracted[l] = Missing THEN {content}
  ELSE {extracted[l]} \cup ({content} \ Empty)

Content(l) == IF l \in Local THEN source[l] ELSE downloaded[l]

(* A packed file that cannot be unpacked is removed, and pglcmd exits.  A     *)
(* broken one that is not packed is as good as any.                          *)
Extract(p) ==
  LET l == proc[p].list
      content == Content(l) IN
  /\ At(p, "extract")
  /\ \/ /\ content # Missing
        /\ \E e \in Extracted(l, content) : extracted' = [extracted EXCEPT ![l] = e]
        /\ Goto(p, IF proc[p].used = {} THEN "gather" ELSE "collect")
        /\ UNCHANGED downloaded
     \/ /\ content = Missing
        /\ Leave(p)
        /\ UNCHANGED lists
     \/ /\ "failure" \in may \/ content = Broken
        /\ downloaded' = IF l \in Local THEN downloaded
                         ELSE [downloaded EXCEPT ![l] = Missing]
        /\ Leave(p)
        /\ UNCHANGED extracted
  /\ UNCHANGED <<may, settings, built, daemon>>

(* cp -f --preserve=timestamps sets the time of the file when it is through:  *)
(* what is left of a download is newer than the list it was copied from, and  *)
(* the next Get keeps it.                                                    *)
Tear(p) ==
  LET l == proc[p].list IN
  /\ "tear" \in may
  /\ \/ /\ At(p, "get")
        /\ downloaded' = [downloaded EXCEPT ![l] = Broken]
        /\ UNCHANGED extracted
     \/ /\ At(p, "extract")
        /\ Content(l) \notin {Missing} \cup Empty
        /\ extracted' = [extracted EXCEPT ![l] = Broken]
        /\ UNCHANGED downloaded
  /\ Leave(p)
  /\ UNCHANGED <<may, settings, built, daemon>>

-----------------------------------------------------------------------------
(* build_blocklist: the pipeline into $DAEMON -m > $MASTER_BLOCKLIST *)

Truncate(p) ==
  /\ At(p, "merge")
  /\ master' = Unfinished
  /\ Goto(p, "merging")
  /\ UNCHANGED <<may, settings, lists, backup, md5, daemon>>

Merge(p) ==
  /\ At(p, "merging")
  /\ \/ master' = Merged(proc[p].used) /\ Goto(p, "sum")
     \/ "failure" \in may /\ Goto(p, "restore") /\ UNCHANGED master
  /\ UNCHANGED <<may, settings, lists, backup, md5, daemon>>

(* Broken variant: what the failed pipeline left is kept. *)
RestoreNothing(p) ==
  /\ At(p, "restore")
  /\ Goto(p, "sum")
  /\ UNCHANGED <<may, settings, lists, built, daemon>>

Restore(p) ==
  /\ At(p, "restore")
  /\ IF backup = NoMaster
       THEN Leave(p) /\ UNCHANGED <<may, master, backup>>
       ELSE master' = backup /\ backup' = NoMaster /\ Goto(p, "sum")
  /\ UNCHANGED <<may, settings, lists, md5, daemon>>

(* set_md5sum reads everything again; the file is written after that. *)
SetSum(p) ==
  /\ At(p, "sum")
  /\ proc' = [proc EXCEPT ![p].at = "save", ![p].used = {}, ![p].sum = {Sum}]
  /\ UNCHANGED <<may, settings, lists, built, daemon>>

SaveSum(p) ==
  /\ At(p, "save")
  /\ md5' = proc[p].sum
  /\ proc' = [proc EXCEPT ![p].at = "signal", ![p].sum = {}]
  /\ UNCHANGED <<may, settings, lists, master, backup, daemon>>

-----------------------------------------------------------------------------
(* pgld reads the master list *)

Loads(list) == daemon' = [up |-> TRUE, list |-> list]

(* A pgld that cannot load its list does not start; one that runs already    *)
(* clears its list and goes on with what it can load.                        *)
Reached(p) ==
  IF Starting(p) THEN ~daemon.up /\ master # NoMaster ELSE daemon.up

Signal(p) ==
  /\ At(p, "signal")
  /\ IF Reached(p) THEN Loads(master) ELSE UNCHANGED daemon
  /\ Goto(p, "done")
  /\ UNCHANGED <<may, settings, lists, built>>

Finish(p) ==
  /\ At(p, "done")
  /\ Leave(p)
  /\ UNCHANGED <<may, settings, lists, built, daemon>>

LogRotate ==
  /\ "rotation" \in may
  /\ daemon.up
  /\ Loads(master)
  /\ UNCHANGED <<may, proc, settings, lists, built>>

-----------------------------------------------------------------------------
(* The world around pglcmd *)

(* pglcmd stop, or the end of the daemon *)
Stop ==
  /\ daemon.up
  /\ daemon' = Down
  /\ UNCHANGED <<may, proc, settings, lists, built>>

Die(p) ==
  /\ "death" \in may
  /\ ~At(p, "idle")
  /\ Leave(p)
  /\ UNCHANGED <<may, settings, lists, built, daemon>>

Quiet == "edit" \in may \/ \A p \in Procs : At(p, "idle")

Configure ==
  /\ Quiet
  /\ wanted' \in SUBSET Remote
  /\ UNCHANGED <<may, proc, source, lists, built, daemon>>

EditLocal(l) ==
  /\ Quiet
  /\ \E v \in {Missing} \cup Versions : source' = [source EXCEPT ![l] = v]
  /\ UNCHANGED <<may, proc, wanted, lists, built, daemon>>

Publish(l) ==
  /\ source[l] < MaxVersion
  /\ source' = [source EXCEPT ![l] = @ + 1]
  /\ UNCHANGED <<may, proc, wanted, lists, built, daemon>>

Build(p) ==
  \/ Unsave(p) \/ MoveToBackup(p)
  \/ \E l \in Lists : Collect(p, l)
  \/ Collected(p)
  \/ Truncate(p) \/ Merge(p) \/ Restore(p)
  \/ SetSum(p) \/ SaveSum(p)

Update(p) ==
  \/ Wipe(p) \/ Forget(p)
  \/ \E l \in Remote : Gather(p, l)
  \/ Gathered(p)
  \/ Get(p) \/ Extract(p) \/ Tear(p)

Pglcmd(p) ==
  \/ \E cmd \in Commands : Call(p, cmd)
  \/ Check(p) \/ Update(p) \/ Build(p)
  \/ Signal(p) \/ Finish(p)
  \/ Die(p)

World ==
  \/ LogRotate \/ Stop \/ Configure
  \/ \E l \in Local : EditLocal(l)
  \/ \E l \in Remote : Publish(l)

Next == World \/ \E p \in Procs : Pglcmd(p)

Spec == Init /\ [][Next]_vars

-----------------------------------------------------------------------------
(* Properties *)

Labels ==
  {"idle", "wipe", "forget", "gather", "get", "extract", "check", "unsave", "backup",
   "collect", "merge", "merging", "restore", "sum", "save", "signal", "done"}

Masters == [state : {"missing", "unfinished", "built"},
            of : SUBSET (Lists \X (Files \ {Missing}))]
Sums == [wanted : SUBSET Remote, master : Masters,
         local : SUBSET (Local \X Versions)]

(* The types of the variables.  Nothing follows a sum in its file, and no     *)
(* list is broken where nothing tears one.                                   *)
TypeOK ==
  /\ \A p \in Procs :
       /\ proc[p].at \in Labels
       /\ proc[p].cmd \in {"none"} \cup Commands
       /\ proc[p].todo \subseteq Lists /\ proc[p].used \subseteq Lists
       /\ proc[p].list \in {"none"} \cup Lists
       /\ proc[p].sum = {} \/ \E s \in proc[p].sum : proc[p].sum = {s}
  /\ may \in Circumstances
  /\ wanted \subseteq Remote
  /\ source \in [Lists -> {Missing} \cup Versions]
  /\ downloaded \in [Remote -> Files] /\ extracted \in [Lists -> Files]
  /\ "tear" \notin may => /\ \A l \in Remote : downloaded[l] # Broken
                         /\ \A l \in Lists : extracted[l] # Broken
  /\ master \in Masters /\ backup \in Masters
  /\ md5 = {} \/ \E s \in md5 : s \in Sums /\ md5 = {s}
  /\ daemon \in [up : BOOLEAN, list : Masters]

(* The list is what build_blocklist would make of the settings and of the     *)
(* extracted lists as they are now, a broken one included.                    *)
Current(list) ==
  /\ list.state = "built"
  /\ \A l \in wanted : <<l, extracted[l]>> \in list.of
  /\ \A l \in Here : source[l] \in Empty \/ <<l, source[l]>> \in list.of
  /\ \A entry \in list.of : entry[1] \in wanted \cup Here

Whole(list) == \A entry \in list.of : entry[2] # Broken

(* And if no writer was stopped halfway, each of its lists is whole. *)
Sound(list) == Current(list) /\ ("tear" \notin may => Whole(list))

(* pglcmd.lib:2347: "if anything goes wrong, it's clear we have to rebuild   *)
(* the blocklist": whenever start or reload would skip the rebuild, the      *)
(* master list is complete and made of the lists that are configured, in the *)
(* versions that are there.                                                  *)
TrustedIsCurrent == UpToDate => Current(master)

(* That is so whenever and wherever pglcmd is killed, as long as the merge   *)
(* itself does not fail and nobody edits the lists while pglcmd runs; and    *)
(* each list in it is whole, unless the kill hit the writing of that list.   *)
DeathIsNoticed ==
  may \cap {"failure", "edit"} = {} => (UpToDate => Sound(master))

(* README:131: update "updates the blocklists, rebuilds the master           *)
(* blocklist and reloads pgld": when an update has been through its reload   *)
(* and no other command is still under way, pgld has the lists as they are.  *)
LoadedIsCurrent ==
  \A p \in Procs :
    /\ At(p, "done") /\ proc[p].cmd = "update" /\ daemon.up
    /\ \A q \in Procs : proc[q].at \in {"idle", "done"}
    => Current(daemon.list)

(* When a command is through, pgld has the lists that this one gathered, as   *)
(* long as nothing but a kill or a full disk interferes; and these are whole  *)
(* if none was cut off.                                                      *)
LoadedUnlessFailed ==
  may \subseteq {"death", "tear"} =>
    \A p \in Procs : At(p, "done") /\ daemon.up => Sound(daemon.list)

(* A master list that was built once is kept, as it is or as its backup,      *)
(* until another one has been built to the end, however often downloads and  *)
(* merges fail.                                                              *)
HasWholeList == "built" \in {master.state, backup.state}
KeepsWholeList == [][HasWholeList /\ "death" \notin may => HasWholeList']_vars

=============================================================================
