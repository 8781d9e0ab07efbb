--------------------------- MODULE MasterList_proofs ---------------------------
(***************************************************************************)
(* Proofs about MasterList: the types of the variables, for any number of  *)
(* processes; and, as long as one pglcmd ends before the next one begins,  *)
(* that a kill is noticed, that pgld gets what was gathered, and that a    *)
(* whole list is never lost.                                               *)
(***************************************************************************)
EXTENDS MasterList, TLAPS

-----------------------------------------------------------------------------
(* The inductive invariants *)

(* What TypeOK leaves open: the whole records of the processes, and which    *)
(* lists are downloaded and extracted.                                       *)
Process ==
  {r \in [at : Labels, cmd : {"none"} \cup Commands, todo : SUBSET Lists,
          list : {"none"} \cup Lists, used : SUBSET Lists, sum : SUBSET Sums] :
     /\ r.at = "get" => r.list \in Remote
     /\ r.at = "extract" => r.list \in Lists
     /\ r.at = "gather" => r.todo \subseteq Remote
     /\ r.at \in {"idle", "wipe", "forget", "gather"} => r.used = {}
     /\ r.at \in {"get", "extract"} /\ r.used = {} => r.todo \subseteq Remote
     /\ r.sum = {} \/ \E s \in r.sum : r.sum = {s}}

DataOK ==
  /\ may \in Circumstances
  /\ wanted \subseteq Remote
  /\ source \in [Lists -> {Missing} \cup Versions]
  /\ downloaded \in [Remote -> Files]
  /\ extracted \in [Lists -> Files]
  /\ master \in Masters /\ backup \in Masters
  /\ md5 = {} \/ \E s \in md5 : s \in Sums /\ md5 = {s}
  /\ daemon \in [up : BOOLEAN, list : Masters]

TypeInv == proc \in [Procs -> Process] /\ DataOK

(* Where nothing tears a file, none is broken, and none gets into a list.    *)
NoneTorn ==
  "tear" \notin may =>
    /\ \A l \in Remote : downloaded[l] # Broken
    /\ \A l \in Lists : extracted[l] # Broken
    /\ Whole(master) /\ Whole(backup) /\ Whole(daemon.list)

(* One pglcmd is over before the next one begins. *)
OneAtATime == \A p, q \in Procs : ~At(p, "idle") /\ ~At(q, "idle") => p = q

(* A list is current for a sum if it is made of what was configured when the *)
(* sum was made.                                                             *)
CurrentFor(list, s) ==
  /\ list.state = "built"
  /\ \A l \in s.wanted : <<l, extracted[l]>> \in list.of
  /\ \A e \in s.local : e[2] \in Empty \/ e \in list.of
  /\ \A e \in list.of : e[1] \in s.wanted \/ \E x \in s.local : x[1] = e[1]

(* A build goes through the lists that are configured. *)
InBuild(p) ==
  \/ proc[p].at \in {"collect", "merge", "merging"}
  \/ proc[p].at \in {"get", "extract"} /\ proc[p].used # {}

(* The list that is being gathered. *)
Pending(p) == IF proc[p].at \in {"get", "extract"} THEN {proc[p].list} ELSE {}

(* The extracted list is there, and a local one is as its file. *)
Ready(l) ==
  /\ extracted[l] # Missing
  /\ l \in Local => source[l] \in Empty \/ extracted[l] = source[l]

BuildInv(p) ==
  /\ InBuild(p) => /\ proc[p].used \cup proc[p].todo = wanted \cup Here
                   /\ \A l \in proc[p].used \ Pending(p) : Ready(l)
  /\ proc[p].at \in {"merge", "merging"} => proc[p].todo = {}
  /\ proc[p].at \in {"sum", "save", "signal"} => Current(master)
  /\ At(p, "save") => proc[p].sum = {Sum}
  /\ ~At(p, "restore")

(* From the first step of an update or of a build until the list is whole    *)
(* there is no sum; at other times nobody touches the lists it speaks for.   *)
Unsaved(p) ==
  proc[p].at \in {"gather", "get", "extract", "backup", "collect", "merge", "merging",
                  "restore", "sum", "save"}

SumInv ==
  /\ \A s \in md5 : s.master = master => CurrentFor(master, s)
  /\ \A p \in Procs : Unsaved(p) => md5 = {}

DeathInv ==
  may \cap {"failure", "edit"} = {} => SumInv /\ \A p \in Procs : BuildInv(p)

(* A pgld that is to be started stays down until it is. *)
LoadInv(p) ==
  /\ Starting(p) /\ proc[p].at \notin {"idle", "check", "done"} => ~daemon.up
  /\ At(p, "done") /\ daemon.up => Current(daemon.list)

LoadedInv == may \subseteq {"death", "tear"} => \A p \in Procs : LoadInv(p)

(* An unfinished master list is nobody's backup while there is a better one. *)
WholeInv ==
  "death" \notin may =>
    /\ master.state = "missing" => master = NoMaster
    /\ backup.state = "missing" => backup = NoMaster
    /\ \A p \in Procs :
         /\ InBuild(p) => master.state # "built"
         /\ proc[p].at \in {"merging", "restore"} => master.state = "unfinished"
    /\ master.state = "unfinished" =>
         \/ \E p \in Procs : proc[p].at \in {"merging", "restore"}
         \/ backup.state # "built"

IInv == DeathInv /\ LoadedInv /\ WholeInv

-----------------------------------------------------------------------------
(* The types *)

(* Both constants are lists of versions. *)
LEMMA Constants ==
  /\ Remote \subseteq Lists /\ Local \subseteq Lists
  /\ Missing \notin Versions /\ Broken \notin Versions
  /\ Missing \in Files /\ Broken \in Files /\ Versions \subseteq Files
  /\ Broken # Missing
BY MasterListAssumption DEF Lists, Files, Versions, Missing, Broken

(* The sums and the master lists have the form that is expected of them. *)
LEMMA SumType ==
  ASSUME DataOK
  PROVE  Sum \in Sums
BY Constants DEF DataOK, Sum, Sums, Here

LEMMA MasterTypes ==
  ASSUME DataOK
  PROVE  /\ \A names \in SUBSET Lists : Merged(names) \in Masters
         /\ NoMaster \in Masters /\ Unfinished \in Masters
         /\ Down \in [up : BOOLEAN, list : Masters]
BY DEF DataOK, Merged, Masters, NoMaster, Unfinished, Down

(* A process that moves on, and one that ends. *)
LEMMA MoveType ==
  ASSUME proc \in [Procs -> Process], NEW p \in Procs, NEW r \in Process,
         proc' = [proc EXCEPT ![p] = r]
  PROVE  proc' \in [Procs -> Process]
OBVIOUS

LEMMA LeaveType ==
  ASSUME proc \in [Procs -> Process], NEW p \in Procs, Leave(p)
  PROVE  proc' \in [Procs -> Process]
BY DEF Leave, Idle, Process, Labels

LEMMA GotoType ==
  ASSUME proc \in [Procs -> Process], NEW p \in Procs,
         NEW at \in Labels, Goto(p, at),
         at \notin {"idle", "wipe", "forget", "gather", "get", "extract"}
  PROVE  proc' \in [Procs -> Process]
<1> DEFINE r == [proc[p] EXCEPT !.at = at]
<1>1. r \in Process
  BY DEF Process
<1>2. proc' = [proc EXCEPT ![p] = r]
  BY DEF Goto
<1> QED
  BY <1>1, <1>2

(* A command begins. *)
LEMMA CallType ==
  ASSUME TypeInv, NEW p \in Procs, NEW cmd \in Commands, Call(p, cmd)
  PROVE  TypeInv'
<1> DEFINE at == CASE cmd = "force-update" -> "wipe"
                   [] cmd = "update" -> "forget"
                   [] OTHER -> "check"
           r == [proc[p] EXCEPT !.cmd = cmd, !.at = at]
<1>1. at \in {"wipe", "forget", "check"}
  BY DEF Labels
<1>2. proc' = [proc EXCEPT ![p] = r]
  BY DEF Call, TypeInv, Process
<1>3. r \in Process
  <2>1. proc[p].used = {}
    BY DEF Call, At, TypeInv, Process
  <2> HIDE DEF at
  <2> QED
    BY <1>1, <2>1, ZenonT(30) DEF TypeInv, Process, Labels
<1>4. proc' \in [Procs -> Process]
  <2> HIDE DEF r
  <2> QED
    BY <1>2, <1>3 DEF TypeInv
<1>5. DataOK'
  BY MasterTypes DEF Call, TypeInv, DataOK, settings, lists, built
<1> QED
  BY <1>4, <1>5 DEF TypeInv

(* The steps before a command reaches the lists. *)
LEMMA BeginType ==
  ASSUME TypeInv, NEW p \in Procs, Wipe(p) \/ Forget(p) \/ Check(p)
  PROVE  TypeInv'
<1> USE Constants DEF TypeInv, settings, lists, built
<1>1. CASE Wipe(p)
  <2> DEFINE r == [proc[p] EXCEPT !.at = "forget"]
  <2>1. r \in Process
    BY <1>1 DEF Process, Labels, Wipe, At
  <2>2. proc' = [proc EXCEPT ![p] = r]
    BY <1>1 DEF Wipe, Goto
  <2>3. proc' \in [Procs -> Process]
    BY <2>1, <2>2, MoveType
  <2> QED
    BY <1>1, <2>3 DEF Wipe, DataOK
<1>2. CASE Forget(p)
  <2> DEFINE r == [proc[p] EXCEPT !.at = "gather", !.todo = wanted]
  <2>0. wanted \subseteq Remote /\ wanted \in SUBSET Lists
    BY DEF DataOK
  <2>1. r \in Process
    BY <1>2, <2>0, ZenonT(30) DEF Process, Labels, Forget, At
  <2>2. proc' = [proc EXCEPT ![p] = r]
    BY <1>2 DEF Forget
  <2>3. proc' \in [Procs -> Process]
    BY <2>1, <2>2, MoveType
  <2> QED
    BY <1>2, <2>3 DEF Forget, DataOK
<1>3. CASE Check(p)
  <2>1. proc' \in [Procs -> Process]
    BY <1>3, GotoType, LeaveType DEF Check, Labels
  <2> QED
    BY <1>3, <2>1 DEF Check, DataOK
<1> QED
  BY <1>1, <1>2, <1>3

(* The lists are gathered. *)
LEMMA GatherType ==
  ASSUME TypeInv, NEW p \in Procs,
         \/ \E l \in Remote : Gather(p, l)
         \/ Gathered(p) \/ Get(p) \/ Extract(p) \/ Tear(p)
  PROVE  TypeInv'
<1> USE Constants DEF TypeInv, settings, lists, built
<1>1. ASSUME NEW l \in Remote, Gather(p, l) PROVE TypeInv'
  <2> DEFINE r == [proc[p] EXCEPT !.todo = @ \ {l}, !.list = l, !.at = "get"]
  <2>0. proc[p].todo \subseteq Remote
    BY <1>1 DEF Gather, At, Process
  <2>1. r \in Process
    BY <2>0, ZenonT(30) DEF Process, Labels
  <2>2. proc' = [proc EXCEPT ![p] = r]
    BY <1>1 DEF Gather
  <2>3. proc' \in [Procs -> Process]
    BY <2>1, <2>2, MoveType
  <2> QED
    BY <1>1, <2>3 DEF Gather, DataOK
<1>2. CASE Gathered(p)
  <2> DEFINE r == [proc[p] EXCEPT !.at = "check", !.list = "none"]
  <2>1. r \in Process
    BY ZenonT(30) DEF Process, Labels
  <2>2. proc' = [proc EXCEPT ![p] = r]
    BY <1>2 DEF Gathered
  <2>3. proc' \in [Procs -> Process]
    BY <2>1, <2>2, MoveType
  <2> QED
    BY <1>2, <2>3 DEF Gathered, DataOK
<1>3. CASE Get(p)
  <2>1. proc[p].list \in Remote
    BY <1>3 DEF Get, At, Process
  <2> DEFINE r == [proc[p] EXCEPT !.at = "extract"]
  <2>2. r \in Process
    BY <1>3, <2>1 DEF Process, Labels, Get, At
  <2>3. proc' = [proc EXCEPT ![p] = r] \/ Leave(p)
    BY <1>3 DEF Get, Goto
  <2>4. proc' \in [Procs -> Process]
    <3> HIDE DEF r
    <3> QED
      BY <2>2, <2>3, LeaveType
  <2> QED
    BY <1>3, <2>1, <2>4 DEF Get, DataOK
<1>4. CASE Extract(p)
  <2> DEFINE l == proc[p].list
             at == IF proc[p].used = {} THEN "gather" ELSE "collect"
             r == [proc[p] EXCEPT !.at = at]
  <2>1. l \in Lists
    BY <1>4 DEF Extract, At, Process
  <2>2. Content(l) \in Files
    BY <2>1 DEF DataOK, Lists, Content
  <2>3. \/ /\ \E e \in Extracted(l, Content(l)) : extracted' = [extracted EXCEPT ![l] = e]
           /\ Goto(p, at) /\ UNCHANGED downloaded
        \/ /\ Leave(p) /\ UNCHANGED extracted
           /\ \/ UNCHANGED downloaded
              \/ /\ l \notin Local
                 /\ downloaded' = [downloaded EXCEPT ![l] = Missing]
    BY <1>4 DEF Extract
  <2>4. UNCHANGED <<may, wanted, source, master, backup, md5, daemon>>
    BY <1>4 DEF Extract
  <2>5. extracted' \in [Lists -> Files] /\ downloaded' \in [Remote -> Files]
    <3>1. Extracted(l, Content(l)) \subseteq Files
      BY <2>1, <2>2 DEF Extracted, DataOK
    <3> QED
      BY <2>1, <2>3, <3>1 DEF DataOK
  <2>6. proc' \in [Procs -> Process]
    <3>1. CASE Leave(p)
      BY <3>1, LeaveType
    <3>2. CASE Goto(p, at)
      <4>1. at \in {"gather", "collect"} /\ (at = "gather" => proc[p].used = {})
        OBVIOUS
      <4>2. proc[p].at = "extract"
        BY <1>4 DEF Extract, At
      <4>3. r \in Process
        <5> HIDE DEF at
        <5> QED
          BY <4>1, <4>2 DEF Process, Labels
      <4>4. proc' = [proc EXCEPT ![p] = r]
        BY <3>2 DEF Goto
      <4> QED
        BY <4>3, <4>4, MoveType
    <3> QED
      BY <2>3, <3>1, <3>2
  <2> QED
    BY <2>4, <2>5, <2>6 DEF DataOK
<1>5. CASE Tear(p)
  <2>1. proc' \in [Procs -> Process]
    BY <1>5, LeaveType DEF Tear
  <2>2. downloaded' \in [Remote -> Files] /\ extracted' \in [Lists -> Files]
    BY <1>5 DEF Tear, DataOK
  <2> QED
    BY <1>5, <2>1, <2>2 DEF Tear, DataOK
<1> QED
  BY <1>1, <1>2, <1>3, <1>4, <1>5

(* The master list is built. *)
LEMMA BuildType ==
  ASSUME TypeInv, NEW p \in Procs, Build(p)
  PROVE  TypeInv'
<1> USE Constants, MasterTypes DEF TypeInv, settings, lists, built
<1>1. CASE Unsave(p)
  <2>1. proc' \in [Procs -> Process]
    BY <1>1, GotoType DEF Unsave, Labels
  <2> QED
    BY <1>1, <2>1 DEF Unsave, DataOK
<1>2. CASE MoveToBackup(p)
  <2> DEFINE r == [proc[p] EXCEPT !.at = "collect", !.todo = wanted \cup Here, !.used = {}]
  <2>0. wanted \cup Here \in SUBSET Lists
    BY DEF DataOK, Here
  <2>1. r \in Process
    BY <2>0, ZenonT(30) DEF Process, Labels
  <2>2. proc' = [proc EXCEPT ![p] = r]
    BY <1>2 DEF MoveToBackup
  <2>3. proc' \in [Procs -> Process]
    BY <2>1, <2>2, MoveType
  <2> QED
    BY <1>2, <2>3 DEF MoveToBackup, DataOK
<1>3. ASSUME NEW l \in Lists, Collect(p, l) PROVE TypeInv'
  <2> DEFINE at == CASE l \in Local -> "extract"
                     [] l \in Remote /\ extracted[l] = Missing -> "get"
                     [] OTHER -> "collect"
             r == [proc[p] EXCEPT !.todo = @ \ {l}, !.used = @ \cup {l}, !.list = l, !.at = at]
  <2>1. at \in {"extract", "get", "collect"} /\ (at = "get" => l \in Remote)
    OBVIOUS
  <2>2. proc' = [proc EXCEPT ![p] = r]
    <3>1. proc' = [proc EXCEPT ![p].todo = @ \ {l}, ![p].used = @ \cup {l},
                              ![p].list = l, ![p].at = at]
      BY <1>3 DEF Collect
    <3> HIDE DEF at
    <3> QED
      BY <3>1 DEF Process
  <2>3. r \in Process
    <3>1. r \in [at : Labels, cmd : {"none"} \cup Commands, todo : SUBSET Lists,
                 list : {"none"} \cup Lists, used : SUBSET Lists, sum : SUBSET Sums]
      <4> HIDE DEF at
      <4> QED
        BY <2>1, ZenonT(30) DEF Process, Labels
    <3>2. r.list = l /\ r.at = at /\ r.used # {} /\ r.sum = proc[p].sum
      BY DEF Process
    <3>3. proc[p].sum = {} \/ \E s \in proc[p].sum : proc[p].sum = {s}
      BY DEF Process
    <3> HIDE DEF r, at
    <3> QED
      BY <2>1, <3>1, <3>2, <3>3 DEF Process
  <2>4. proc' \in [Procs -> Process]
    <3> HIDE DEF r
    <3> QED
      BY <2>2, <2>3, MoveType
  <2> QED
    BY <1>3, <2>4 DEF Collect, DataOK
<1>4. CASE Collected(p)
  <2> DEFINE r == [proc[p] EXCEPT !.at = "merge", !.list = "none"]
  <2>1. r \in Process
    BY ZenonT(30) DEF Process, Labels
  <2>2. proc' = [proc EXCEPT ![p] = r] \/ Leave(p)
    BY <1>4 DEF Collected
  <2>3. proc' \in [Procs -> Process]
    <3> HIDE DEF r
    <3> QED
      BY <2>1, <2>2, LeaveType
  <2> QED
    BY <1>4, <2>3 DEF Collected, DataOK
<1>5. CASE Truncate(p)
  <2>1. proc' \in [Procs -> Process]
    BY <1>5, GotoType DEF Truncate, Labels
  <2> QED
    BY <1>5, <2>1 DEF Truncate, DataOK
<1>6. CASE Merge(p)
  <2>1. proc' \in [Procs -> Process]
    BY <1>6, GotoType DEF Merge, Labels
  <2>2. proc[p].used \in SUBSET Lists
    BY DEF Process
  <2> QED
    BY <1>6, <2>1, <2>2 DEF Merge, DataOK
<1>7. CASE Restore(p)
  <2>1. proc' \in [Procs -> Process]
    BY <1>7, GotoType, LeaveType DEF Restore, Labels
  <2> QED
    BY <1>7, <2>1 DEF Restore, DataOK
<1>8. CASE SetSum(p)
  <2> DEFINE r == [proc[p] EXCEPT !.at = "save", !.used = {}, !.sum = {Sum}]
  <2>1. r \in Process
    BY SumType, ZenonT(30) DEF Process, Labels
  <2>2. proc' = [proc EXCEPT ![p] = r]
    BY <1>8 DEF SetSum
  <2>3. proc' \in [Procs -> Process]
    BY <2>1, <2>2, MoveType
  <2> QED
    BY <1>8, <2>3 DEF SetSum, DataOK
<1>9. CASE SaveSum(p)
  <2> DEFINE r == [proc[p] EXCEPT !.at = "signal", !.sum = {}]
  <2>1. r \in Process
    BY ZenonT(30) DEF Process, Labels
  <2>2. proc' = [proc EXCEPT ![p] = r]
    BY <1>9 DEF SaveSum
  <2>3. proc' \in [Procs -> Process]
    BY <2>1, <2>2, MoveType
  <2>4. md5' = {} \/ \E s \in md5' : s \in Sums /\ md5' = {s}
    BY <1>9 DEF SaveSum, Process
  <2> QED
    BY <1>9, <2>3, <2>4 DEF SaveSum, DataOK
<1> QED
  BY <1>1, <1>2, <1>3, <1>4, <1>5, <1>6, <1>7, <1>8, <1>9 DEF Build

(* The end of a command. *)
LEMMA EndType ==
  ASSUME TypeInv, NEW p \in Procs, Signal(p) \/ Finish(p) \/ Die(p)
  PROVE  TypeInv'
<1> USE Constants DEF TypeInv, settings, lists, built
<1>1. CASE Signal(p)
  <2>1. proc' \in [Procs -> Process]
    BY <1>1, GotoType DEF Signal, Labels
  <2>2. daemon' = daemon \/ daemon' = [up |-> TRUE, list |-> master]
    BY <1>1 DEF Signal, Loads
  <2>3. UNCHANGED <<may, wanted, source, downloaded, extracted, master, backup, md5>>
    BY <1>1 DEF Signal
  <2>4. master \in Masters /\ daemon \in [up : BOOLEAN, list : Masters]
    BY DEF DataOK
  <2>5. [up |-> TRUE, list |-> master] \in [up : BOOLEAN, list : Masters]
    BY <2>4
  <2>6. daemon' \in [up : BOOLEAN, list : Masters]
    BY <2>2, <2>4, <2>5, Zenon
  <2> QED
    BY <2>1, <2>3, <2>6 DEF DataOK
<1>2. CASE Finish(p)
  <2>1. proc' \in [Procs -> Process]
    BY <1>2, LeaveType DEF Finish
  <2> QED
    BY <1>2, <2>1 DEF Finish, DataOK
<1>3. CASE Die(p)
  <2>1. proc' \in [Procs -> Process]
    BY <1>3, LeaveType DEF Die
  <2> QED
    BY <1>3, <2>1 DEF Die, DataOK
<1> QED
  BY <1>1, <1>2, <1>3

(* The world around the processes. *)
LEMMA WorldType ==
  ASSUME TypeInv, World
  PROVE  TypeInv'
<1> USE Constants, MasterTypes DEF TypeInv, settings, lists, built, DataOK
<1>1. CASE LogRotate
  BY <1>1 DEF LogRotate, Loads
<1>2. CASE Stop
  BY <1>2 DEF Stop
<1>3. CASE Configure
  BY <1>3 DEF Configure
<1>4. ASSUME NEW l \in Local, EditLocal(l) PROVE TypeInv'
  BY <1>4 DEF EditLocal
<1>5. ASSUME NEW l \in Remote, Publish(l) PROVE TypeInv'
  <2>1. source[l] \in {Missing} \cup Versions
    OBVIOUS
  <2>2. source[l] + 1 \in Versions
    BY <1>5, <2>1, MasterListAssumption DEF Publish, Versions, Missing
  <2> QED
    BY <1>5, <2>2 DEF Publish
<1> QED
  BY <1>1, <1>2, <1>3, <1>4, <1>5 DEF World

LEMMA TypeNext == TypeInv /\ [Next]_vars => TypeInv'
<1> SUFFICES ASSUME TypeInv, [Next]_vars PROVE TypeInv'
  OBVIOUS
<1>1. CASE World
  BY <1>1, WorldType
<1>2. ASSUME NEW p \in Procs, Pglcmd(p) PROVE TypeInv'
  BY <1>2, CallType, BeginType, GatherType, BuildType, EndType DEF Pglcmd, Update
<1>3. CASE UNCHANGED vars
  BY <1>3 DEF vars, settings, lists, built, TypeInv, DataOK
<1> QED
  BY <1>1, <1>2, <1>3 DEF Next

LEMMA TypeInvariance == Spec => []TypeInv
<1>1. Init => TypeInv
  <2> SUFFICES ASSUME Init PROVE TypeInv
    OBVIOUS
  <2>1. proc \in [Procs -> Process]
    BY DEF Init, Idle, Process, Labels
  <2>2. source \in [Lists -> {Missing} \cup Versions]
    BY MasterListAssumption DEF Init, Versions
  <2> QED
    BY <2>1, <2>2, Constants, MasterTypes DEF Init, TypeInv, DataOK, Masters, NoMaster, Down
<1> QED
  BY <1>1, TypeNext, PTL DEF Spec

(* No file gets broken but by what tears one. *)
LEMMA NoneTornNext == TypeInv /\ NoneTorn /\ [Next]_vars => NoneTorn'
<1> SUFFICES ASSUME TypeInv, NoneTorn, [Next]_vars, "tear" \notin may'
             PROVE  /\ \A l \in Remote : downloaded'[l] # Broken
                    /\ \A l \in Lists : extracted'[l] # Broken
                    /\ Whole(master') /\ Whole(backup') /\ Whole(daemon'.list)
  BY DEF NoneTorn, Whole
<1> USE DEF settings, lists, built
<1>1. may' = may
  <2>1. World \/ UNCHANGED vars => may' = may
    BY DEF World, LogRotate, Stop, Configure, EditLocal, Publish, vars
  <2>2. ASSUME NEW p \in Procs, Pglcmd(p) PROVE may' = may
    BY <2>2 DEF Pglcmd, Call, Check, Update, Wipe, Forget, Gather, Gathered, Get, Extract, Tear,
         Build, Unsave, MoveToBackup, Collect, Collected, Truncate, Merge, Restore, SetSum,
         SaveSum, Signal, Finish, Die
  <2> QED
    BY <2>1, <2>2 DEF Next
<1>2. /\ \A l \in Remote : downloaded[l] # Broken
      /\ \A l \in Lists : extracted[l] # Broken
      /\ Whole(master) /\ Whole(backup) /\ Whole(daemon.list)
  BY <1>1 DEF NoneTorn
<1>3. Whole(NoMaster) /\ Whole(Unfinished) /\ Whole(Down.list)
  BY DEF Whole, NoMaster, Unfinished, Down
<1>4. \A names \in SUBSET Lists : Whole(Merged(names))
  BY <1>2 DEF Whole, Merged
<1>5. \A l \in Lists : source[l] # Broken
  BY Constants DEF TypeInv, DataOK
<1>6. ASSUME NEW p \in Procs, Pglcmd(p)
      PROVE  /\ \A l \in Remote : downloaded'[l] # Broken
             /\ \A l \in Lists : extracted'[l] # Broken
  <2>1. CASE Wipe(p)
    BY <2>1, Constants DEF Wipe
  <2>2. CASE Get(p)
    <3>1. extracted' = extracted
      BY <2>2 DEF Get
    <3>2. downloaded' = downloaded
          \/ \E l \in Lists : downloaded' = [downloaded EXCEPT ![l] = source[l]]
      BY <2>2, Constants DEF Get, At, TypeInv, Process
    <3> QED
      BY <1>2, <1>5, <3>1, <3>2 DEF TypeInv, DataOK
  <2>3. CASE Extract(p)
    <3> DEFINE l == proc[p].list
    <3>1. l \in Lists
      BY <2>3 DEF Extract, At, TypeInv, Process
    <3>2. Content(l) # Broken
      BY <1>2, <1>5, <3>1 DEF Content, Lists
    <3>3. \A e \in Extracted(l, Content(l)) : e # Broken
      BY <1>2, <3>1, <3>2 DEF Extracted
    <3>4. \/ extracted' = extracted
          \/ \E e \in Extracted(l, Content(l)) : extracted' = [extracted EXCEPT ![l] = e]
      BY <2>3 DEF Extract
    <3>5. downloaded' = downloaded \/ downloaded' = [downloaded EXCEPT ![l] = Missing]
      BY <2>3 DEF Extract
    <3> QED
      BY <1>2, <3>3, <3>4, <3>5, Constants DEF TypeInv, DataOK
  <2>4. CASE UNCHANGED lists
    BY <1>2, <2>4
  <2>5. UNCHANGED lists \/ Wipe(p) \/ Get(p) \/ Extract(p)
    BY <1>1, <1>6 DEF Pglcmd, Call, Check, Update, Forget, Gather, Gathered, Tear, Build,
         Unsave, MoveToBackup, Collect, Collected, Truncate, Merge, Restore, SetSum, SaveSum,
         Signal, Finish, Die
  <2> QED
    BY <2>1, <2>2, <2>3, <2>4, <2>5
<1>7. ASSUME NEW p \in Procs, Pglcmd(p) PROVE Whole(master') /\ Whole(backup')
  <2>1. \/ UNCHANGED <<master, backup>>
        \/ MoveToBackup(p) \/ Truncate(p) \/ Merge(p) \/ Restore(p)
    BY <1>7 DEF Pglcmd, Call, Check, Update, Wipe, Forget, Gather, Gathered, Get, Extract, Tear,
         Build, Unsave, Collect, Collected, SetSum, SaveSum, Signal, Finish, Die
  <2>2. proc[p].used \in SUBSET Lists
    BY DEF TypeInv, Process
  <2> QED
    BY <1>2, <1>3, <1>4, <2>1, <2>2 DEF MoveToBackup, Truncate, Merge, Restore
<1>8. ASSUME NEW p \in Procs, Pglcmd(p) PROVE Whole(daemon'.list)
  <2>1. daemon' \in {daemon, Down} \/ Loads(master)
    BY <1>8 DEF Pglcmd, Call, Check, Update, Wipe, Forget, Gather, Gathered, Get, Extract, Tear,
         Build, Unsave, MoveToBackup, Collect, Collected, Truncate, Merge, Restore, SetSum,
         SaveSum, Signal, Finish, Die
  <2> QED
    BY <1>2, <1>3, <2>1 DEF Loads
<1>9. CASE World \/ UNCHANGED vars
  <2>1. UNCHANGED <<lists, master, backup>> /\ (daemon' \in {daemon, Down} \/ Loads(master))
    BY <1>9 DEF World, LogRotate, Stop, Configure, EditLocal, Publish, vars
  <2> QED
    BY <1>2, <1>3, <2>1 DEF Loads
<1> QED
  BY <1>6, <1>7, <1>8, <1>9 DEF Next

LEMMA NoneTornInvariance == Spec => []NoneTorn
<1>1. Init => NoneTorn
  BY Constants DEF Init, NoneTorn, Whole, NoMaster, Down
<1> QED
  BY <1>1, TypeInvariance, NoneTornNext, PTL DEF Spec

(* The types of the variables, however many processes work on the files at a *)
(* time: nothing follows a sum in its file, and no download and no extracted *)
(* list is broken unless a kill or a full disk stopped the writing of one.   *)
THEOREM MasterListTypes == Spec => []TypeOK
<1>1. TypeInv /\ NoneTorn => TypeOK
  BY DEF TypeInv, DataOK, TypeOK, Process, NoneTorn
<1> QED
  BY <1>1, TypeInvariance, NoneTornInvariance, PTL

-----------------------------------------------------------------------------
(* One command at a time *)

(* The record of a process in the next state, field by field. *)
LEMMA Fields ==
  ASSUME TypeInv, NEW p \in Procs
  PROVE  /\ proc[p] \in Process /\ DOMAIN proc = Procs
         /\ Leave(p) => proc'[p] = Idle
BY DEF TypeInv, Leave, Process

(* While a process takes a step, the others have ended and stay so. *)
LEMMA Alone ==
  ASSUME TypeInv, OneAtATime, OneAtATime', NEW p \in Procs, Pglcmd(p)
  PROVE  /\ \A q \in Procs \ {p} : At(q, "idle") /\ At(q, "idle")'
         /\ may' = may
<1> USE DEF settings, lists, built
<1>1. may' = may
  BY DEF Pglcmd, Call, Check, Update, Wipe, Forget, Gather, Gathered, Get, Extract, Build,
         Tear, Unsave, MoveToBackup, Collect, Collected, Truncate, Merge, Restore, SetSum, SaveSum,
         Signal, Finish, Die
<1>2. \A q \in Procs \ {p} : proc'[q] = proc[q]
  BY DEF TypeInv, Goto, Leave, Pglcmd, Call, Check, Update, Wipe, Forget, Gather, Gathered, Get,
         Extract, Tear, Build, Unsave, MoveToBackup, Collect, Collected, Truncate, Merge, Restore,
         SetSum, SaveSum, Signal, Finish, Die
<1>3. CASE At(p, "idle")
  <2>1. PICK cmd \in Commands : Call(p, cmd)
    BY <1>3 DEF Pglcmd, At, Check, Update, Wipe, Forget, Gather, Gathered, Get, Extract, Tear, Build,
                Unsave, MoveToBackup, Collect, Collected, Truncate, Merge, Restore, SetSum,
                SaveSum, Signal, Finish, Die
  <2>2. proc'[p].at \in {"wipe", "forget", "check"}
    BY <2>1 DEF Call, TypeInv, Process
  <2> QED
    BY <1>1, <1>2, <2>2 DEF OneAtATime, At
<1> QED
  BY <1>1, <1>2, <1>3 DEF OneAtATime, At

(* A process that has ended owes nothing. *)
LEMMA Ended ==
  ASSUME NEW q \in Procs, At(q, "idle")'
  PROVE  BuildInv(q)' /\ LoadInv(q)' /\ ~Unsaved(q)' /\ ~InBuild(q)'
BY DEF At, BuildInv, LoadInv, Unsaved, InBuild

LEMMA EndedNow ==
  ASSUME TypeInv, NEW p \in Procs, Leave(p)
  PROVE  At(p, "idle")' /\ BuildInv(p)' /\ LoadInv(p)' /\ ~Unsaved(p)' /\ ~InBuild(p)'
<1>1. At(p, "idle")'
  BY Fields DEF Idle, At
<1> QED
  BY <1>1, Ended

-----------------------------------------------------------------------------
(* A kill is noticed *)

(* What is current is current for the sum of the same moment. *)
LEMMA CurrentSum ==
  ASSUME NEW list
  PROVE  Current(list) <=> CurrentFor(list, Sum)
<1>1. Sum.wanted = wanted /\ Sum.local = {<<l, source[l]>> : l \in Here}
  BY DEF Sum
<1>2. ASSUME NEW e PROVE (\E x \in Sum.local : x[1] = e) <=> e \in Here
  <2>1. ASSUME e \in Here PROVE <<e, source[e]>> \in Sum.local /\ <<e, source[e]>>[1] = e
    BY <1>1, <2>1
  <2>2. ASSUME NEW x \in Sum.local, x[1] = e PROVE e \in Here
    BY <1>1, <2>2
  <2> QED
    BY <2>1, <2>2
<1> QED
  BY <1>1, <1>2 DEF Current, CurrentFor

(* What the build of a process is about does not change with what others do. *)
LEMMA BuildFrame ==
  ASSUME NEW p \in Procs, BuildInv(p), proc' = proc, Sum' = Sum, Here' = Here,
         UNCHANGED <<wanted, extracted, master>>,
         \A l \in Local : source'[l] = source[l]
  PROVE  BuildInv(p)'
BY DEF BuildInv, InBuild, Pending, Ready, Current, At, Here

LEMMA SumFrame ==
  ASSUME SumInv, proc' = proc, UNCHANGED <<md5, extracted, master>>
  PROVE  SumInv'
BY DEF SumInv, CurrentFor, Unsaved

(* The steps of an update and the check leave a build as it should be. *)
LEMMA BuildInvGather ==
  ASSUME TypeInv, NEW p \in Procs, BuildInv(p), SumInv, "failure" \notin may,
         \/ \E cmd \in Commands : Call(p, cmd)
         \/ Check(p) \/ Update(p)
  PROVE  BuildInv(p)'
<1> USE Fields DEF At, Goto, settings, lists, built
<1>1. ASSUME NEW cmd \in Commands, Call(p, cmd) PROVE BuildInv(p)'
  BY <1>1 DEF Call, BuildInv, InBuild, Process
<1>2. CASE Check(p)
  <2>1. UpToDate => Current(master)
    BY CurrentSum DEF UpToDate, SumInv, Sum
  <2>2. Current(master)' <=> Current(master)
    BY <1>2 DEF Check, Current, Here
  <2>3. CASE Leave(p)
    BY <2>3, EndedNow
  <2>4. CASE Goto(p, "signal") /\ UpToDate
    BY <2>1, <2>2, <2>4 DEF BuildInv, InBuild
  <2>5. CASE Goto(p, "unsave")
    BY <2>5 DEF BuildInv, InBuild
  <2> QED
    BY <1>2, <2>3, <2>4, <2>5 DEF Check
<1>3. CASE Wipe(p)
  BY <1>3 DEF Wipe, BuildInv, InBuild
<1>4. CASE Forget(p)
  <2>1. proc'[p].at = "gather"
    BY <1>4 DEF Forget, Process
  <2> QED
    BY <2>1 DEF BuildInv, InBuild
<1>5. CASE Gathered(p)
  <2>1. proc'[p].at = "check"
    BY <1>5 DEF Gathered, Process
  <2> QED
    BY <2>1 DEF BuildInv, InBuild
<1>6. ASSUME NEW l \in Remote, Gather(p, l) PROVE BuildInv(p)'
  BY <1>6 DEF Gather, BuildInv, InBuild, Process
<1>7. CASE Get(p)
  <2>1. UNCHANGED <<wanted, source, extracted>> /\ proc[p].at = "get"
    BY <1>7 DEF Get
  <2>2. CASE Leave(p)
    BY <2>2, EndedNow
  <2>3. CASE Goto(p, "extract")
    <3>1. /\ proc'[p].at = "extract" /\ proc'[p].used = proc[p].used
          /\ proc'[p].todo = proc[p].todo /\ proc'[p].list = proc[p].list
      BY <2>3 DEF Process
    <3>2. Pending(p)' = Pending(p) /\ Here' = Here /\ (InBuild(p)' <=> InBuild(p))
      BY <2>1, <3>1 DEF Pending, Here, InBuild
    <3>3. \A l : Ready(l)' <=> Ready(l)
      BY <2>1 DEF Ready
    <3> QED
      BY <2>1, <3>1, <3>2, <3>3 DEF BuildInv
  <2> QED
    BY <1>7, <2>2, <2>3 DEF Get
<1>8. CASE Extract(p)
  <2> DEFINE l == proc[p].list
             at == IF proc[p].used = {} THEN "gather" ELSE "collect"
  <2>1. UNCHANGED <<wanted, source>> /\ proc[p].at = "extract" /\ l \in Lists
    BY <1>8 DEF Extract, Process
  <2>2. CASE Leave(p)
    BY <2>2, EndedNow
  <2>3. ASSUME Content(l) # Missing, Goto(p, at),
               NEW e \in Extracted(l, Content(l)), extracted' = [extracted EXCEPT ![l] = e]
        PROVE  BuildInv(p)'
    <3>1. /\ proc'[p].at = at /\ proc'[p].used = proc[p].used /\ proc'[p].todo = proc[p].todo
      BY <2>3 DEF Process
    <3>2. CASE proc[p].used = {}
      BY <3>1, <3>2 DEF BuildInv, InBuild
    <3>3. CASE proc[p].used # {}
      <4>1. Here' = Here /\ Pending(p)' = {} /\ Pending(p) = {l} /\ InBuild(p)
        BY <2>1, <3>1, <3>3 DEF Here, Pending, InBuild
      <4>2. \A x \in Lists \ {l} : Ready(x)' <=> Ready(x)
        BY <2>1, <2>3 DEF Ready, TypeInv, DataOK
      <4>3. ASSUME NEW x, x = l PROVE Ready(x)'
        <5>1. e # Missing /\ extracted'[l] = e
          BY <2>1, <2>3 DEF Extracted, TypeInv, DataOK
        <5>2. l \in Local => source[l] \in Empty \/ e = source[l]
          BY <2>1, <2>3, Constants DEF Extracted, Content, TypeInv, DataOK
        <5> QED
          BY <2>1, <4>3, <5>1, <5>2 DEF Ready
      <4>4. proc[p].used \subseteq Lists
        BY DEF Process
      <4>5. proc'[p].at = "collect"
        BY <3>1, <3>3
      <4>6. \A x \in proc[p].used : Ready(x)'
        <5> HIDE DEF l, at
        <5>1. \A x \in proc[p].used \ {l} : Ready(x)
          BY <4>1 DEF BuildInv
        <5> QED
          BY <4>2, <4>3, <4>4, <5>1
      <4> HIDE DEF l, at
      <4> QED
        BY <2>1, <3>1, <4>1, <4>5, <4>6 DEF BuildInv
    <3> QED
      BY <3>2, <3>3
  <2> QED
    BY <1>8, <2>2, <2>3 DEF Extract
<1>9. CASE Tear(p)
  BY <1>9, EndedNow DEF Tear
<1> QED
  BY <1>1, <1>2, <1>3, <1>4, <1>5, <1>6, <1>7, <1>8, <1>9 DEF Update

(* So do the steps of a build, the end of one with a list that is current. *)
LEMMA BuildInvBuild ==
  ASSUME TypeInv, NEW p \in Procs, BuildInv(p), "failure" \notin may, Build(p)
  PROVE  BuildInv(p)'
<1> USE Fields DEF At, Goto, settings, lists, built
<1>1. CASE Unsave(p)
  BY <1>1 DEF Unsave, BuildInv, InBuild
<1>2. CASE MoveToBackup(p)
  <2>1. /\ proc'[p].at = "collect" /\ proc'[p].used = {} /\ proc'[p].todo = wanted \cup Here
        /\ wanted' = wanted /\ Here' = Here
    BY <1>2 DEF MoveToBackup, Process, Here
  <2> QED
    BY <2>1 DEF BuildInv
<1>3. ASSUME NEW l \in Lists, Collect(p, l) PROVE BuildInv(p)'
  <2> DEFINE at == CASE l \in Local -> "extract"
                     [] l \in Remote /\ extracted[l] = Missing -> "get"
                     [] OTHER -> "collect"
  <2>1. /\ proc'[p].used = proc[p].used \cup {l} /\ proc'[p].todo = proc[p].todo \ {l}
        /\ proc'[p].list = l /\ proc'[p].at = at
    <3>1. proc' = [proc EXCEPT ![p].todo = @ \ {l}, ![p].used = @ \cup {l},
                              ![p].list = l, ![p].at = at]
      BY <1>3 DEF Collect
    <3> HIDE DEF at
    <3> QED
      BY <3>1 DEF Process
  <2>2. /\ UNCHANGED <<wanted, source, extracted>> /\ proc[p].at = "collect"
        /\ l \in proc[p].todo /\ Here' = Here /\ Pending(p) = {}
    BY <1>3 DEF Collect, Here, Pending
  <2>3. \A x : Ready(x)' <=> Ready(x)
    BY <2>2 DEF Ready
  <2>4. at \in {"extract", "get"} \/ (at = "collect" /\ Ready(l))
    BY DEF Ready, Lists
  <2>5. \A x \in proc'[p].used \ Pending(p)' : Ready(x)'
    <3> HIDE DEF at
    <3> QED
      BY <2>1, <2>2, <2>3, <2>4 DEF BuildInv, InBuild, Pending
  <2>6. proc'[p].used \cup proc'[p].todo = proc[p].used \cup proc[p].todo
    BY <2>1, <2>2
  <2> HIDE DEF at
  <2> QED
    BY <2>1, <2>2, <2>4, <2>5, <2>6 DEF BuildInv, InBuild
<1>4. CASE Collected(p)
  <2>1. CASE Leave(p)
    BY <2>1, EndedNow
  <2>2. CASE proc' = [proc EXCEPT ![p].at = "merge", ![p].list = "none"]
    <3>1. /\ proc'[p].at = "merge" /\ proc'[p].used = proc[p].used
          /\ proc'[p].todo = proc[p].todo
      BY <2>2 DEF Process
    <3>2. /\ UNCHANGED <<wanted, source, extracted>> /\ Here' = Here
          /\ proc[p].at = "collect" /\ proc[p].todo = {}
      BY <1>4 DEF Collected, Here
    <3> QED
      BY <3>1, <3>2 DEF BuildInv, InBuild, Pending, Ready
  <2> QED
    BY <1>4, <2>1, <2>2 DEF Collected
<1>5. CASE Truncate(p)
  <2>1. /\ proc'[p].at = "merging" /\ proc'[p].used = proc[p].used
        /\ proc'[p].todo = proc[p].todo
    BY <1>5 DEF Truncate, Process
  <2>2. /\ UNCHANGED <<wanted, source, extracted>> /\ Here' = Here /\ proc[p].at = "merge"
    BY <1>5 DEF Truncate, Here
  <2> QED
    BY <2>1, <2>2 DEF BuildInv, InBuild, Pending, Ready
<1>6. CASE Merge(p)
  <2>1. /\ UNCHANGED <<wanted, source, extracted>> /\ Here' = Here /\ proc[p].at = "merging"
        /\ master' = Merged(proc[p].used) /\ proc'[p].at = "sum"
    BY <1>6 DEF Merge, Here, Process
  <2>2. proc[p].used = wanted \cup Here /\ \A l \in proc[p].used : Ready(l)
    BY <2>1 DEF BuildInv, InBuild, Pending
  <2>3. Current(Merged(proc[p].used))
    BY <2>2 DEF Current, Merged, Ready, Here
  <2>4. Current(master)'
    BY <2>1, <2>3 DEF Current
  <2> QED
    BY <2>1, <2>4 DEF BuildInv, InBuild
<1>7. CASE Restore(p)
  BY <1>7 DEF Restore, BuildInv
<1>8. CASE SetSum(p)
  <2>1. /\ proc[p].at = "sum" /\ proc'[p].at = "save" /\ proc'[p].sum = {Sum}
        /\ UNCHANGED <<wanted, source, extracted, master>>
    BY <1>8 DEF SetSum, Process
  <2>2. Sum' = Sum /\ (Current(master)' <=> Current(master))
    BY <2>1 DEF Sum, Here, Current
  <2> QED
    BY <2>1, <2>2 DEF BuildInv, InBuild
<1>9. CASE SaveSum(p)
  <2>1. /\ proc[p].at = "save" /\ proc'[p].at = "signal"
        /\ UNCHANGED <<wanted, source, extracted, master>>
    BY <1>9 DEF SaveSum, Process
  <2>2. Current(master)' <=> Current(master)
    BY <2>1 DEF Here, Current
  <2> QED
    BY <2>1, <2>2 DEF BuildInv, InBuild
<1> QED
  BY <1>1, <1>2, <1>3, <1>4, <1>5, <1>6, <1>7, <1>8, <1>9 DEF Build

(* There is no sum while a list is in the making, and the one that is saved  *)
(* in the end is that of a current list.                                     *)
LEMMA SumInvStep ==
  ASSUME TypeInv, NEW p \in Procs, BuildInv(p), SumInv, Pglcmd(p),
         \A q \in Procs \ {p} : At(q, "idle")'
  PROVE  SumInv'
<1> USE Fields DEF At, Goto, settings, lists, built
<1>1. \A q \in Procs \ {p} : ~Unsaved(q)'
  BY DEF Unsaved
<1>2. ASSUME md5' = {} PROVE SumInv'
  BY <1>2 DEF SumInv
<1>3. ASSUME UNCHANGED <<md5, extracted, master>>, Unsaved(p)' => Unsaved(p) PROVE SumInv'
  BY <1>1, <1>3 DEF SumInv, CurrentFor
<1>4. Unsaved(p) => md5 = {}
  BY DEF SumInv
<1>5. Leave(p) => ~Unsaved(p)'
  BY EndedNow
<1>6. ASSUME NEW cmd \in Commands, Call(p, cmd) PROVE SumInv'
  <2>1. proc'[p].at \in {"wipe", "forget", "check"}
    BY <1>6 DEF Call, Process
  <2> QED
    BY <1>3, <1>6, <2>1 DEF Call, Unsaved
<1>7. CASE Wipe(p) \/ Forget(p) \/ Unsave(p)
  BY <1>2, <1>7 DEF Wipe, Forget, Unsave
<1>8. CASE Check(p) \/ Finish(p)
  <2>1. UNCHANGED <<md5, extracted, master>>
    BY <1>8 DEF Check, Finish
  <2>2. Goto(p, "signal") \/ Goto(p, "unsave") => ~Unsaved(p)'
    BY DEF Unsaved, Process
  <2>3. Leave(p) \/ Goto(p, "signal") \/ Goto(p, "unsave")
    BY <1>8 DEF Check, Finish
  <2> QED
    BY <1>3, <1>5, <2>1, <2>2, <2>3
<1>9. CASE Gathered(p) \/ Signal(p)
  BY <1>3, <1>9 DEF Gathered, Signal, Unsaved, Process
<1>10. CASE \/ \E l \in Remote : Gather(p, l)
            \/ Get(p) \/ Extract(p) \/ Tear(p) \/ MoveToBackup(p)
            \/ \E l \in Lists : Collect(p, l)
            \/ Collected(p) \/ Truncate(p) \/ Merge(p) \/ Restore(p) \/ SetSum(p)
  <2>1. Unsaved(p) /\ md5' = md5
    BY <1>10 DEF Gather, Get, Extract, Tear, MoveToBackup, Collect, Collected, Truncate, Merge,
                 Restore, SetSum, Unsaved
  <2> QED
    BY <1>2, <1>4, <2>1
<1>11. CASE SaveSum(p)
  <2>1. /\ proc[p].at = "save" /\ md5' = proc[p].sum /\ ~Unsaved(p)'
        /\ UNCHANGED <<extracted, master>>
    BY <1>11 DEF SaveSum, Process, Unsaved
  <2>2. md5' = {Sum} /\ CurrentFor(master, Sum)
    BY <2>1, CurrentSum DEF BuildInv
  <2> QED
    BY <1>1, <2>1, <2>2 DEF SumInv, CurrentFor
<1>12. CASE Die(p)
  BY <1>3, <1>5, <1>12 DEF Die
<1> QED
  BY <1>6, <1>7, <1>8, <1>9, <1>10, <1>11, <1>12 DEF Pglcmd, Update, Build

(* What the world around pglcmd does to a list that it works on. *)
LEMMA PublishFrame ==
  ASSUME NEW l \in Remote, Publish(l)
  PROVE  /\ Here' = Here /\ Sum' = Sum
         /\ \A x \in Local : source'[x] = source[x]
         /\ UNCHANGED <<may, proc, wanted, extracted, built, daemon>>
<1>1. /\ \A x \in Local : source'[x] = source[x]
      /\ UNCHANGED <<may, proc, wanted, extracted, built, daemon>>
  BY MasterListAssumption DEF Publish, lists
<1>2. Here' = Here
  BY <1>1 DEF Here
<1>3. {<<x, source[x]>> : x \in Here}' = {<<x, source[x]>> : x \in Here}
  BY <1>1, <1>2 DEF Here
<1> QED
  BY <1>1, <1>2, <1>3 DEF Sum, built

LEMMA DeathInvNext ==
  ASSUME TypeInv, OneAtATime, OneAtATime', DeathInv, [Next]_vars
  PROVE  DeathInv'
<1> USE DEF settings, lists, built
<1>1. ASSUME NEW p \in Procs, Pglcmd(p) PROVE DeathInv'
  <2> SUFFICES ASSUME may' \cap {"failure", "edit"} = {}
               PROVE  SumInv' /\ \A q \in Procs : BuildInv(q)'
    BY DEF DeathInv
  <2>1. may' = may /\ \A q \in Procs \ {p} : At(q, "idle") /\ At(q, "idle")'
    BY <1>1, Alone
  <2>2. SumInv /\ BuildInv(p) /\ "failure" \notin may
    BY <2>1 DEF DeathInv
  <2>3. SumInv'
    BY <1>1, <2>1, <2>2, SumInvStep
  <2>4. ASSUME (\E cmd \in Commands : Call(p, cmd)) \/ Check(p) \/ Update(p)
        PROVE  BuildInv(p)'
    BY <2>2, <2>4, BuildInvGather
  <2>5. ASSUME Build(p) PROVE BuildInv(p)'
    BY <2>2, <2>5, BuildInvBuild
  <2>6. ASSUME Signal(p) PROVE BuildInv(p)'
    <3>1. proc'[p].at = "done"
      BY <2>6, Fields DEF Signal, Goto, Process
    <3> QED
      BY <3>1 DEF BuildInv, InBuild, At
  <2>7. ASSUME Finish(p) \/ Die(p) PROVE BuildInv(p)'
    BY <2>7, EndedNow DEF Finish, Die
  <2>8. BuildInv(p)'
    BY <1>1, <2>4, <2>5, <2>6, <2>7 DEF Pglcmd
  <2>9. \A q \in Procs \ {p} : BuildInv(q)'
    BY <2>1, Ended
  <2> QED
    BY <2>3, <2>8, <2>9
<1>2. CASE LogRotate \/ Stop \/ UNCHANGED vars
  <2>1. UNCHANGED <<may, proc, wanted, source, extracted, built>>
    BY <1>2 DEF LogRotate, Stop, vars
  <2>2. Here' = Here /\ Sum' = Sum
    BY <2>1 DEF Here, Sum
  <2> QED
    BY <2>1, <2>2, BuildFrame, SumFrame DEF DeathInv
<1>3. CASE Configure \/ \E l \in Local : EditLocal(l)
  <2>1. UNCHANGED <<may, proc, extracted, built>> /\ Quiet
    BY <1>3 DEF Configure, EditLocal
  <2>2. SumInv => SumInv'
    BY <2>1, SumFrame
  <2>3. ASSUME "edit" \notin may, NEW p \in Procs PROVE BuildInv(p)'
    BY <2>1, <2>3, Ended DEF Quiet, At
  <2> QED
    BY <2>1, <2>2, <2>3 DEF DeathInv
<1>4. ASSUME NEW l \in Remote, Publish(l) PROVE DeathInv'
  BY <1>4, PublishFrame, BuildFrame, SumFrame DEF DeathInv
<1> QED
  BY <1>1, <1>2, <1>3, <1>4 DEF Next, World

-----------------------------------------------------------------------------
(* pgld gets what was gathered *)

(* The steps of an update or a build begin after the check, and none of them *)
(* ends the command but with a failure.                                      *)
LEMMA Course ==
  ASSUME TypeInv, NEW p \in Procs, Update(p) \/ Build(p)
  PROVE  \/ Leave(p)
         \/ /\ proc[p].at \notin {"idle", "check", "done"} /\ proc'[p].at # "done"
            /\ proc'[p].cmd = proc[p].cmd
<1> USE Fields DEF At, Goto, Process
<1>1. CASE Wipe(p) \/ Forget(p)
  BY <1>1 DEF Wipe, Forget
<1>2. ASSUME NEW l \in Remote, Gather(p, l) PROVE proc[p].at = "gather" /\ proc'[p].at = "get"
                                                 /\ proc'[p].cmd = proc[p].cmd
  BY <1>2 DEF Gather
<1>3. CASE Gathered(p)
  BY <1>3 DEF Gathered
<1>4. CASE Get(p) \/ Extract(p) \/ Tear(p)
  BY <1>4 DEF Get, Extract, Tear
<1>5. CASE Unsave(p) \/ MoveToBackup(p)
  BY <1>5 DEF Unsave, MoveToBackup
<1>6. ASSUME NEW l \in Lists, Collect(p, l)
      PROVE  /\ proc[p].at = "collect" /\ proc'[p].at \in {"extract", "get", "collect"}
             /\ proc'[p].cmd = proc[p].cmd
  BY <1>6 DEF Collect
<1>7. CASE Collected(p)
  BY <1>7 DEF Collected
<1>8. CASE Truncate(p) \/ Merge(p) \/ Restore(p)
  BY <1>8 DEF Truncate, Merge, Restore
<1>9. CASE SetSum(p) \/ SaveSum(p)
  BY <1>9 DEF SetSum, SaveSum
<1> QED
  BY <1>1, <1>2, <1>3, <1>4, <1>5, <1>6, <1>7, <1>8, <1>9 DEF Update, Build

LEMMA LoadedInvNext ==
  ASSUME TypeInv, OneAtATime, OneAtATime', DeathInv, LoadedInv, [Next]_vars
  PROVE  LoadedInv'
<1> SUFFICES ASSUME may' \subseteq {"death", "tear"}
             PROVE  \A q \in Procs : LoadInv(q)'
  BY DEF LoadedInv
<1> USE DEF settings, lists, built
<1>1. ASSUME NEW p \in Procs, Pglcmd(p) PROVE \A q \in Procs : LoadInv(q)'
  <2>1. may' = may /\ \A q \in Procs \ {p} : At(q, "idle") /\ At(q, "idle")'
    BY <1>1, Alone
  <2>2. LoadInv(p) /\ BuildInv(p)
    BY <2>1 DEF LoadedInv, DeathInv
  <2>3. \A q \in Procs \ {p} : LoadInv(q)'
    BY <2>1, Ended
  <2> USE Fields DEF At, Goto
  <2>4. Leave(p) => LoadInv(p)'
    BY EndedNow
  <2>5. ASSUME NEW cmd \in Commands, Call(p, cmd) PROVE LoadInv(p)'
    <3>1. /\ proc'[p].at \in {"wipe", "forget", "check"}
          /\ proc'[p].at # "check" => proc'[p].cmd \in {"update", "force-update"}
      BY <2>5 DEF Call, Process
    <3> QED
      BY <3>1 DEF LoadInv, Starting, Restarts
  <2>6. ASSUME Check(p) PROVE LoadInv(p)'
    <3>1. CASE Leave(p)
      BY <2>4, <3>1
    <3>2. CASE /\ Starting(p) # daemon.up /\ daemon' = daemon
               /\ Goto(p, "signal") \/ Goto(p, "unsave")
      <4>1. /\ proc'[p].at \in {"signal", "unsave"} /\ proc'[p].cmd = proc[p].cmd
        BY <3>2 DEF Process
      <4>2. daemon.up \in BOOLEAN
        BY DEF TypeInv, DataOK
      <4> QED
        BY <3>2, <4>1, <4>2 DEF LoadInv, Starting
    <3> QED
      BY <2>6, <3>1, <3>2 DEF Check
  <2>7. ASSUME Update(p) \/ Build(p) PROVE LoadInv(p)'
    <3>1. daemon' = daemon
      BY <2>7 DEF Update, Build, Wipe, Forget, Gather, Gathered, Get, Extract, Tear, Unsave,
                  MoveToBackup, Collect, Collected, Truncate, Merge, Restore, SetSum, SaveSum
    <3>2. \/ Leave(p)
          \/ /\ proc[p].at \notin {"idle", "check", "done"} /\ proc'[p].at # "done"
             /\ proc'[p].cmd = proc[p].cmd
      BY <2>7, Course
    <3> QED
      BY <2>2, <2>4, <3>1, <3>2 DEF LoadInv, Starting
  <2>8. ASSUME Signal(p) PROVE LoadInv(p)'
    <3>1. /\ proc[p].at = "signal" /\ proc'[p].at = "done"
          /\ UNCHANGED <<wanted, source, extracted, master>>
      BY <2>8 DEF Signal, Process
    <3>2. Current(master)
      BY <2>2, <3>1 DEF BuildInv
    <3>3. daemon'.up => daemon'.list = master
      BY <2>2, <2>8, <3>1 DEF Signal, Reached, Loads, LoadInv
    <3>4. ASSUME daemon'.list = master PROVE Current(daemon.list)'
      BY <3>1, <3>2, <3>4 DEF Current, Here
    <3> QED
      BY <3>1, <3>3, <3>4, Zenon DEF LoadInv
  <2>9. ASSUME Finish(p) \/ Die(p) PROVE LoadInv(p)'
    BY <2>4, <2>9 DEF Finish, Die
  <2>10. LoadInv(p)'
    BY <1>1, <2>5, <2>6, <2>7, <2>8, <2>9 DEF Pglcmd
  <2> QED
    BY <2>3, <2>10
<1>2. CASE LogRotate
  BY <1>2 DEF LogRotate
<1>3. CASE Stop
  BY <1>3 DEF Stop, LoadInv, Down
<1>4. CASE Configure \/ \E l \in Local : EditLocal(l)
  <2>1. Quiet /\ may' = may /\ proc' = proc
    BY <1>4 DEF Configure, EditLocal
  <2> QED
    BY <2>1, Ended DEF Quiet, At
<1>5. ASSUME NEW l \in Remote, Publish(l) PROVE \A q \in Procs : LoadInv(q)'
  <2>1. Current(daemon.list)' <=> Current(daemon.list)
    BY <1>5, PublishFrame DEF Current, Here
  <2> QED
    BY <1>5, <2>1, PublishFrame DEF LoadedInv, LoadInv, Starting, At
<1>6. CASE UNCHANGED vars
  <2>1. Current(daemon.list)' <=> Current(daemon.list)
    BY <1>6 DEF vars, Current, Here
  <2> QED
    BY <1>6, <2>1 DEF vars, LoadedInv, LoadInv, Starting, At
<1> QED
  BY <1>1, <1>2, <1>3, <1>4, <1>5, <1>6 DEF Next, World

-----------------------------------------------------------------------------
(* A whole list is kept *)

LEMMA WholeInvNext ==
  ASSUME TypeInv, OneAtATime, OneAtATime', WholeInv, [Next]_vars
  PROVE  WholeInv' /\ (HasWholeList /\ "death" \notin may => HasWholeList')
<1> USE DEF settings, lists, built
<1>1. ASSUME UNCHANGED <<may, proc, master, backup>>
      PROVE  WholeInv' /\ (HasWholeList => HasWholeList')
  BY <1>1 DEF WholeInv, HasWholeList, InBuild
<1>2. CASE World \/ UNCHANGED vars
  BY <1>1, <1>2 DEF World, LogRotate, Stop, Configure, EditLocal, Publish, vars
<1>3. ASSUME NEW p \in Procs, Pglcmd(p), "death" \notin may
      PROVE  WholeInv' /\ (HasWholeList => HasWholeList')
  <2> DEFINE Parts ==
        /\ master.state = "missing" => master = NoMaster
        /\ backup.state = "missing" => backup = NoMaster
        /\ InBuild(p) => master.state # "built"
        /\ proc[p].at \in {"merging", "restore"} => master.state = "unfinished"
        /\ \/ master.state # "unfinished"
           \/ proc[p].at \in {"merging", "restore"}
           \/ backup.state # "built"
  <2>1. may' = may /\ \A q \in Procs \ {p} : At(q, "idle") /\ At(q, "idle")'
    BY <1>3, Alone
  <2>2. Parts
    BY <1>3, <2>1 DEF WholeInv, At
  <2>3. Parts' => WholeInv'
    BY <2>1 DEF WholeInv, At, InBuild
  <2> USE Fields DEF At, Goto
  <2>4. ASSUME UNCHANGED <<master, backup>>, InBuild(p)' => InBuild(p),
               proc'[p].at \notin {"merging", "restore"},
               proc[p].at \notin {"merging", "restore"} \/ backup.state # "built"
        PROVE  Parts' /\ (HasWholeList => HasWholeList')
    BY <2>2, <2>4 DEF HasWholeList
  <2>5. ASSUME \/ \E cmd \in Commands : Call(p, cmd)
               \/ Check(p) \/ Update(p) \/ Unsave(p)
               \/ \E l \in Lists : Collect(p, l)
               \/ Collected(p) \/ SetSum(p) \/ SaveSum(p) \/ Signal(p) \/ Finish(p)
        PROVE  Parts' /\ (HasWholeList => HasWholeList')
    <3>1. UNCHANGED <<master, backup>> /\ proc[p].at \notin {"merging", "restore"}
      BY <2>5 DEF Call, Check, Update, Wipe, Forget, Gather, Gathered, Get, Extract, Tear, Unsave,
                  Collect, Collected, SetSum, SaveSum, Signal, Finish
    <3>2. (InBuild(p)' => InBuild(p)) /\ proc'[p].at \notin {"merging", "restore"}
      <4> USE DEF InBuild, Process
      <4>1. ASSUME NEW cmd \in Commands, Call(p, cmd)
            PROVE  proc'[p].at \in {"wipe", "forget", "check"}
        BY <4>1 DEF Call
      <4>2. CASE Check(p) \/ Unsave(p) \/ Signal(p) \/ Finish(p)
        BY <4>2 DEF Check, Unsave, Signal, Finish, Idle
      <4>3. CASE Wipe(p) \/ Forget(p) \/ Gathered(p)
        BY <4>3 DEF Wipe, Forget, Gathered
      <4>4. ASSUME NEW l \in Remote, Gather(p, l)
            PROVE  proc'[p].at = "get" /\ proc'[p].used = {}
        BY <4>4 DEF Gather
      <4>5. CASE Get(p) \/ Extract(p) \/ Tear(p)
        BY <4>5 DEF Get, Extract, Tear, Idle
      <4>6. ASSUME NEW l \in Lists, Collect(p, l)
            PROVE  InBuild(p) /\ proc'[p].at \in {"extract", "get", "collect"}
        BY <4>6 DEF Collect
      <4>7. CASE Collected(p)
        BY <4>7 DEF Collected, Idle
      <4>8. CASE SetSum(p) \/ SaveSum(p)
        BY <4>8 DEF SetSum, SaveSum
      <4> QED
        BY <2>5, <4>1, <4>2, <4>3, <4>4, <4>5, <4>6, <4>7, <4>8 DEF Update
    <3> QED
      BY <2>4, <3>1, <3>2
  <2>6. ASSUME MoveToBackup(p) PROVE Parts' /\ (HasWholeList => HasWholeList')
    <3>1. proc[p].at = "backup" /\ proc'[p].at = "collect"
      BY <2>6 DEF MoveToBackup, Process
    <3>2. NoMaster.state = "missing"
      BY DEF NoMaster
    <3>3. CASE UNCHANGED <<master, backup>> /\ master = NoMaster
      BY <2>2, <3>1, <3>2, <3>3 DEF HasWholeList
    <3>4. CASE backup' = master /\ master' = NoMaster /\ master # NoMaster
      <4>1. master.state \in {"missing", "unfinished", "built"}
        BY DEF TypeInv, DataOK, Masters
      <4> QED
        BY <2>2, <3>1, <3>2, <3>4, <4>1 DEF HasWholeList
    <3> QED
      BY <2>6, <3>3, <3>4 DEF MoveToBackup
  <2>7. ASSUME Truncate(p) PROVE Parts' /\ (HasWholeList => HasWholeList')
    <3>1. /\ proc[p].at = "merge" /\ proc'[p].at = "merging" /\ backup' = backup
          /\ master'.state = "unfinished"
      BY <2>7 DEF Truncate, Process, Unfinished
    <3> QED
      BY <2>2, <3>1 DEF InBuild, HasWholeList
  <2>8. ASSUME Merge(p) PROVE Parts' /\ (HasWholeList => HasWholeList')
    <3>1. proc[p].at = "merging" /\ backup' = backup
      BY <2>8 DEF Merge
    <3>2. CASE master' = master /\ Goto(p, "restore")
      <4>1. proc'[p].at = "restore"
        BY <3>2 DEF Process
      <4> QED
        BY <2>2, <3>1, <3>2, <4>1 DEF InBuild, HasWholeList
    <3>3. CASE master' = Merged(proc[p].used) /\ Goto(p, "sum")
      <4>1. proc'[p].at = "sum" /\ master'.state = "built"
        BY <3>3 DEF Process, Merged
      <4> QED
        BY <2>2, <3>1, <4>1 DEF InBuild, HasWholeList
    <3> QED
      BY <2>8, <3>2, <3>3 DEF Merge
  <2>9. ASSUME Restore(p) PROVE Parts' /\ (HasWholeList => HasWholeList')
    <3>1. proc[p].at = "restore" /\ NoMaster.state = "missing" /\ NoMaster.state # "built"
      BY <2>9 DEF Restore, NoMaster
    <3>2. CASE backup = NoMaster /\ Leave(p) /\ UNCHANGED <<master, backup>>
      <4>1. proc'[p].at = "idle"
        BY <3>2 DEF Idle
      <4> QED
        BY <2>2, <3>1, <3>2, <4>1 DEF InBuild, HasWholeList
    <3>3. CASE backup # NoMaster /\ master' = backup /\ backup' = NoMaster /\ Goto(p, "sum")
      <4>1. proc'[p].at = "sum"
        BY <3>3 DEF Process
      <4> QED
        BY <2>2, <3>1, <3>3, <4>1 DEF InBuild, HasWholeList
    <3> QED
      BY <2>9, <3>2, <3>3 DEF Restore
  <2>10. ~Die(p)
    BY <1>3 DEF Die
  <2>11. Parts' /\ (HasWholeList => HasWholeList')
    <3> HIDE DEF Parts
    <3> QED
      BY <1>3, <2>5, <2>6, <2>7, <2>8, <2>9, <2>10 DEF Pglcmd, Build
  <2> HIDE DEF Parts
  <2> QED
    BY <2>3, <2>11
<1>4. may' = may
  BY <1>2, Alone DEF Next, World, LogRotate, Stop, Configure, EditLocal, Publish, vars
<1>5. WholeInv' \/ "death" \notin may
  BY <1>4 DEF WholeInv
<1> QED
  BY <1>2, <1>3, <1>5 DEF Next

-----------------------------------------------------------------------------
(* The theorems: their hypothesis is that no two commands overlap.           *)

LEMMA InitIInv == Init => IInv
<1> SUFFICES ASSUME Init PROVE IInv
  OBVIOUS
<1>1. \A p \in Procs : proc[p].at = "idle" /\ proc[p].sum = {}
  BY DEF Init, Idle
<1>2. md5 = {} /\ master = NoMaster /\ backup = NoMaster /\ NoMaster.state = "missing"
  BY DEF Init, NoMaster
<1>3. DeathInv
  BY <1>1, <1>2 DEF DeathInv, SumInv, BuildInv, Unsaved, InBuild, At
<1>4. LoadedInv
  BY <1>1 DEF LoadedInv, LoadInv, At
<1>5. WholeInv
  BY <1>1, <1>2 DEF WholeInv, InBuild
<1> QED
  BY <1>3, <1>4, <1>5 DEF IInv

LEMMA IInvInvariance == Spec /\ []OneAtATime => []IInv
<1>1. TypeInv /\ OneAtATime /\ OneAtATime' /\ IInv /\ [Next]_vars => IInv'
  BY DeathInvNext, LoadedInvNext, WholeInvNext DEF IInv
<1> QED
  BY <1>1, InitIInv, TypeInvariance, PTL DEF Spec

(* pglcmd.lib:2347 holds wherever a command is killed, if it runs alone, no  *)
(* merge fails and nobody edits the lists: start and reload never trust a    *)
(* master list that is not made of the configured lists as they are there,   *)
(* nor a list that is not whole, unless the writing of a list was cut off.   *)
THEOREM DeathTheorem == Spec /\ []OneAtATime => []DeathIsNoticed
<1>1. IInv /\ NoneTorn => DeathIsNoticed
  <2> SUFFICES ASSUME IInv, NoneTorn, may \cap {"failure", "edit"} = {}, UpToDate
               PROVE  Sound(master)
    BY DEF DeathIsNoticed
  <2>1. Sum \in md5 /\ Sum.master = master
    BY DEF UpToDate, Sum
  <2>2. Current(master)
    BY <2>1, CurrentSum DEF IInv, DeathInv, SumInv
  <2> QED
    BY <2>2 DEF Sound, NoneTorn
<1> QED
  BY <1>1, IInvInvariance, NoneTornInvariance, PTL

(* README:131: when start, reload, restart or update is through, pgld has    *)
(* the lists that the command gathered, whole unless one was cut off.        *)
THEOREM LoadedTheorem == Spec /\ []OneAtATime => []LoadedUnlessFailed
<1>1. IInv /\ NoneTorn => LoadedUnlessFailed
  BY DEF IInv, LoadedInv, LoadInv, LoadedUnlessFailed, Sound, NoneTorn
<1> QED
  BY <1>1, IInvInvariance, NoneTornInvariance, PTL

(* Downloads and merges may fail at every step of every command: the last    *)
(* whole list stays, as the master list or as its backup.                    *)
THEOREM WholeTheorem == Spec /\ []OneAtATime => KeepsWholeList
<1>1. TypeInv /\ OneAtATime /\ OneAtATime' /\ IInv /\ [Next]_vars
        => [HasWholeList /\ "death" \notin may => HasWholeList']_vars
  BY WholeInvNext DEF IInv
<1> QED
  BY <1>1, IInvInvariance, TypeInvariance, PTL DEF Spec, KeepsWholeList

=============================================================================
