-------------------------------- MODULE Loader --------------------------------
(***************************************************************************)
(* How pgld fills the blocklist from its list files (load_list of          *)
(* src/pgld/src/parser.c, load_all_lists of src/pgld/src/pgld.c), at the   *)
(* start and again at every reload, and what "pgld -m" makes of them:      *)
(* pglcmd pipes all lists through it and gives the daemon what it prints,  *)
(* the master blocklist.                                                   *)
(*                                                                         *)
(* A file is first read as text.  If that yields nothing, what it appended *)
(* is rolled back and the file is read as a P2B binary; if that fails, it  *)
(* is rolled back as well.  The module adds the parser to Blocklist: its   *)
(* steps append to and clear the blocklist with Blocklist's own actions.   *)
(*                                                                         *)
(* The text comes line by line from Stream.  A line counts by the range it *)
(* yields, if any: a line of no known format and an ipfilter.dat line with *)
(* a level above 127 yield none.  A line that is just a range has no label.*)
(***************************************************************************)
EXTENDS Blocklist, Stream, SequencesExt

CONSTANTS
  NFiles,    (* blockfile_count; "pgld -m" may have 0 and reads stdin then  *)
  Contents,  (* what a list file may contain, records as in Content         *)
  TryLines,  (* the lines after which text without a range is given up: 100 *)
  RangeIn,   (* what the three formats of a line read out of it             *)
  LabelIn,   (* whether they read a label, too                              *)
  LineOf     (* what "%s:%s-%s" prints for a range with or without a label  *)

NoRange == <<>>

Content ==
  [readable : BOOLEAN,                            (* stream_open succeeds   *)
   gz       : BOOLEAN,                            (* its name ends in .gz   *)
   text     : Seq(Bytes),                         (* the file read as text  *)
   format   : {"none", "p2b", "p2b3"},            (* the header of the file *)
   items    : Seq(Ranges),                        (* the ranges of a P2B    *)
   tear     : {"no", "labels", "count", "items"}] (* where a P2B3 breaks off*)

ASSUME LoaderAssumption ==
  /\ NFiles \in Nat \ {0}
  /\ TryLines \in Nat \ {0}
  /\ Contents \subseteq Content
  /\ \A c \in Contents : c.gz => c.format = "none"
  /\ RangeIn \in [Line -> Ranges \cup {NoRange}]
  /\ LabelIn \in [Line -> BOOLEAN]

(* A line without a label begins with a colon: no format reads it.  What is  *)
(* printed ends in the one line feed of the format, and what the merge makes *)
(* of two ranges is a range a list may hold.                                 *)
ASSUME DumpAssumption ==
  /\ LineOf \in [(Ip \X Ip) \X BOOLEAN -> Line]
  /\ \A r \in Ranges : /\ RangeIn[LineOf[r, TRUE]] = r
                       /\ LabelIn[LineOf[r, TRUE]]
                       /\ RangeIn[LineOf[r, FALSE]] = NoRange
  /\ \A p \in Ip \X Ip, b \in BOOLEAN :
       LET l == LineOf[p, b]
       IN  l # <<>> /\ \A x \in 1 .. Len(l) : l[x] = LF <=> x = Len(l)
  /\ \A r, s \in Ranges :
       r[1] <= s[1] /\ s[1] <= r[2] + 1 /\ r[2] < s[2] => <<r[1], s[2]>> \in Ranges

VARIABLES
  opt_merge,  (* this is "pgld -m"                                          *)
  blockfiles, (* the files of the command line: what each may hold          *)
  step,       (* where load_all_lists or load_list is                       *)
  serving,    (* the first load succeeded: main is in nfqueue_loop          *)
  files,      (* the contents of the files opened so far by this load       *)
  rest,       (* the ranges left to read of a P2B                           *)
  total, ok,  (* the counters of loadlist_ascii                             *)
  prevcount,  (* load_list's rollback point                                 *)
  ret,        (* the result of load_all_lists so far: 0 or -1               *)
  labels,     (* the appended entries, by their numbers, that have a label  *)
  master,     (* the file "pgld -m" prints to                               *)
  written,    (* the loop variable of blocklist_dump                        *)
  premerged   (* history: the merged list of "pgld -m"                      *)

premergeVars == <<opt_merge, blockfiles, master, written, premerged>>
fileVars == <<serving, files, rest, total, ok, prevcount, ret, labels>>
loaderVars == <<premergeVars, step, fileVars>>
allVars == <<vars, streamVars, loaderVars>>

Current == files[Len(files)]

(* Without a file, the list is standard input. *)
Stdin == blockfiles = <<>>
FilesToLoad == IF Stdin THEN 1 ELSE Len(blockfiles)
Piped(c) == c.readable /\ ~c.gz

-----------------------------------------------------------------------------
LoaderInit ==
  /\ Init
  /\ StreamInit
  /\ opt_merge \in BOOLEAN
  /\ \E n \in {0, NFiles} : /\ n = 0 => opt_merge
                           /\ blockfiles = [x \in 1 .. n |-> Contents]
  /\ step = "idle"
  /\ serving = FALSE
  /\ files = <<>>
  /\ rest = <<>>
  /\ total = 0 /\ ok = 0 /\ prevcount = 0 /\ ret = 0 /\ labels = {}
  /\ master = <<>> /\ written = 0 /\ premerged = <<>>

(* The start of load_all_lists: from main, from the handler of SIGHUP, or,   *)
(* after an exit, in the next process.                                       *)
LoadAllBegin ==
  /\ step \in {"idle", "exited"}
  /\ blocklist_clear(0)
  /\ step' = "next"
  /\ files' = <<>>
  /\ ret' = 0
  /\ labels' = {}
  /\ UNCHANGED <<premergeVars, streamVars, serving, rest, total, ok, prevcount>>

(* load_list begins and opens the file as a stream of text. *)
AsciiOpen ==
  /\ step = "next"
  /\ Len(files) < FilesToLoad
  /\ \E c \in IF Stdin THEN {d \in Contents : Piped(d)}
                        ELSE blockfiles[Len(files) + 1] :
       /\ files' = Append(files, c)
       /\ IF c.readable
            THEN /\ step' = "ascii"
                 /\ stream_open(c.gz, c.text)
                 /\ UNCHANGED ret
            ELSE /\ ret' = -1
                 /\ UNCHANGED <<step, streamVars>>
  /\ prevcount' = Len(entries)
  /\ total' = 0 /\ ok' = 0
  /\ UNCHANGED <<premergeVars, vars, serving, rest, labels>>

AsciiRead ==
  /\ step = "ascii"
  /\ stream_getline
  /\ step' = "line"
  /\ UNCHANGED <<premergeVars, vars, fileVars>>

(* Broken variant: the line after the last one to try is tried, too. *)
GiveUpLate == ok = 0 /\ total > TryLines

(* Line total+1 is one too many for text that has yielded nothing. *)
GiveUp == ok = 0 /\ total + 1 > TryLines

(* The labels after an append. *)
Labelled(b) ==
  LET n == Len(entries) + 1 IN IF b THEN labels \cup {n} ELSE labels \ {n}

AsciiLine ==
  /\ step = "line"
  /\ buf # <<>>
  /\ ~GiveUp
  /\ IF RangeIn[buf] = NoRange
       THEN UNCHANGED <<vars, ok, labels>>
       ELSE /\ blocklist_append(RangeIn[buf])
            /\ ok' = ok + 1
            /\ labels' = Labelled(LabelIn[buf])
  /\ total' = total + 1
  /\ step' = "ascii"
  /\ UNCHANGED <<premergeVars, streamVars, serving, files, rest, prevcount, ret>>

(* Text with at least one range is a list. *)
AsciiAccept ==
  /\ step = "line"
  /\ buf = <<>>
  /\ ok > 0
  /\ stream_close
  /\ step' = "next"
  /\ UNCHANGED <<premergeVars, vars, fileVars>>

(* Broken variant: the count is rolled back but not the capacity. *)
RollBackCount(n) ==
  /\ entries' = SubSeq(entries, 1, n)
  /\ alloc' = n
  /\ UNCHANGED <<size, numips, loaded, loopVars, searchVars, pc>>

RollBack(n) == blocklist_clear(n)

AsciiReject ==
  /\ step = "line"
  /\ \/ buf = <<>> /\ ok = 0
     \/ buf # <<>> /\ GiveUp
  /\ stream_close
  /\ RollBack(prevcount)
  /\ prevcount' = prevcount
  /\ step' = "header"
  /\ UNCHANGED <<premergeVars, serving, files, rest, total, ok, ret, labels>>

(* Broken variant: the result of load_list is lost. *)
FailedUnseen == step' = "next" /\ UNCHANGED ret

(* load_list returns -1 to load_all_lists, which takes no notice of it when  *)
(* the list is standard input.                                               *)
Failed ==
  /\ step' = "next"
  /\ ret' = IF Stdin THEN ret ELSE -1

(* The header is one of the P2B formats and, in version 3, its labels follow;*)
(* standard input has no name to be opened by a second time.                 *)
HeaderReadable(c) ==
  ~Stdin /\ c.format # "none" /\ ~(c.format = "p2b3" /\ c.tear = "labels")

BinaryHeader ==
  /\ step = "header"
  /\ IF HeaderReadable(Current)
       THEN /\ step' = "binary"
            /\ rest' = IF Current.format = "p2b3" /\ Current.tear = "count"
                         THEN <<>> ELSE Current.items
            /\ UNCHANGED <<vars, ret>>
       ELSE RollBack(prevcount) /\ Failed /\ UNCHANGED rest
  /\ UNCHANGED <<premergeVars, streamVars, serving, files, total, ok, prevcount, labels>>

BinaryRange ==
  /\ step = "binary"
  /\ rest # <<>>
  /\ blocklist_append(Head(rest))
  /\ rest' = Tail(rest)
  /\ \E b \in BOOLEAN : labels' = Labelled(b)
  /\ UNCHANGED <<premergeVars, streamVars, step, serving, files, total, ok,
                 prevcount, ret>>

(* Versions 1 and 2 end at the first read error, which is not a failure;     *)
(* version 3 fails when fewer ranges follow than announced, unless even      *)
(* their number is missing.                                                  *)
BinaryEnd ==
  /\ step = "binary"
  /\ rest = <<>>
  /\ IF Current.format = "p2b3" /\ Current.tear = "items"
       THEN RollBack(prevcount) /\ Failed
       ELSE step' = "next" /\ UNCHANGED <<vars, ret>>
  /\ UNCHANGED <<premergeVars, streamVars, serving, files, rest, total, ok, prevcount, labels>>

LoadAllSort ==
  /\ step = "next"
  /\ Len(files) = FilesToLoad
  /\ blocklist_sort
  /\ step' = "merge"
  /\ UNCHANGED <<premergeVars, streamVars, fileVars>>

LoadAllMerge ==
  /\ step = "merge"
  /\ Merge
  /\ UNCHANGED <<streamVars, loaderVars>>

(* load_all_lists returns.  A failed first load makes main return; a failed  *)
(* reload is logged, and pgld goes on with what it has.                      *)
LoadAllEnd ==
  /\ step = "merge"
  /\ pc = "ready"
  /\ ~opt_merge
  /\ IF ret = 0 \/ serving
       THEN step' = "idle" /\ serving' = TRUE
       ELSE step' = "exited" /\ UNCHANGED serving
  /\ UNCHANGED <<premergeVars, vars, streamVars, files, rest, total, ok, prevcount,
                 ret, labels>>

-----------------------------------------------------------------------------
(* pgld -m: blocklist_dump prints what was loaded, whatever load_all_lists   *)
(* returned.                                                                 *)

(* The name is empty if none of the labels it is made of has any text. *)
HasLabel(e) == e.name \cap labels # {}

DumpLine(e) == LineOf[<<e.ip_min, e.ip_max>>, HasLabel(e)]

DumpBegin ==
  /\ step = "merge"
  /\ pc = "ready"
  /\ opt_merge
  /\ step' = "dump"
  /\ master' = <<>>
  /\ written' = 0
  /\ premerged' =
       [x \in 1 .. Len(entries) |-> [ip_min |-> entries[x].ip_min,
                                     ip_max |-> entries[x].ip_max,
                                     labelled |-> HasLabel(entries[x])]]
  /\ UNCHANGED <<opt_merge, blockfiles, vars, streamVars, fileVars>>

(* Broken variant: the last entry is not printed. *)
ToDumpShort == written + 1 < Len(entries)

ToDump == written < Len(entries)

blocklist_dump ==
  /\ step = "dump"
  /\ ToDump
  /\ master' = master \o DumpLine(entries[written + 1])
  /\ written' = written + 1
  /\ UNCHANGED <<opt_merge, blockfiles, premerged, vars, streamVars, step, fileVars>>

DumpEnd ==
  /\ step = "dump"
  /\ ~ToDump
  /\ step' = "dumped"
  /\ UNCHANGED <<premergeVars, vars, streamVars, fileVars>>

Listing(text) ==
  [readable |-> TRUE, gz |-> FALSE, text |-> text, format |-> "none",
   items |-> <<>>, tear |-> "no"]

(* pglcmd starts the daemon with what was printed; its list is empty. *)
StartDaemon ==
  /\ step = "dumped"
  /\ blocklist_clear(0)
  /\ opt_merge' = FALSE
  /\ blockfiles' = <<{Listing(master)}>>
  /\ step' = "idle"
  /\ files' = <<>> /\ labels' = {}
  /\ total' = 0 /\ ok' = 0 /\ prevcount' = 0 /\ ret' = 0
  /\ UNCHANGED <<master, written, premerged, streamVars, serving, rest>>

-----------------------------------------------------------------------------
(* The process died in the merge; the next one starts from nothing. *)
LoaderRespawn ==
  /\ step = "merge"
  /\ Respawn
  /\ step' = "idle"
  /\ serving' = FALSE
  /\ files' = <<>> /\ rest' = <<>>
  /\ total' = 0 /\ ok' = 0 /\ prevcount' = 0 /\ ret' = 0 /\ labels' = {}
  /\ UNCHANGED <<premergeVars, streamVars>>

LoadSteps ==
  \/ AsciiOpen
  \/ AsciiRead
  \/ AsciiLine
  \/ AsciiAccept
  \/ AsciiReject
  \/ BinaryHeader
  \/ BinaryRange
  \/ BinaryEnd
  \/ LoadAllSort
  \/ LoadAllMerge
  \/ LoadAllEnd
  \/ DumpBegin
  \/ blocklist_dump
  \/ DumpEnd

LoaderNext ==
  \/ LoadAllBegin
  \/ LoadSteps
  \/ StartDaemon
  \/ LoaderRespawn

LoaderSpec == LoaderInit /\ [][LoaderNext]_allVars

(* A load is a loop of one thread over finite files. *)
LoaderFairSpec == LoaderSpec /\ WF_allVars(LoadSteps)

-----------------------------------------------------------------------------
(* Properties *)

LoaderTypeOK ==
  /\ opt_merge \in BOOLEAN
  /\ blockfiles \in Seq(SUBSET Content)
  /\ step \in {"idle", "next", "ascii", "line", "header", "binary", "merge", "exited",
              "dump", "dumped"}
  /\ serving \in BOOLEAN
  /\ files \in Seq(Content) /\ Len(files) <= FilesToLoad
  /\ total \in Nat /\ ok \in 0 .. total
  /\ prevcount \in 0 .. MaxEntries
  /\ ret \in {0, -1}
  /\ data \in Seq(Bytes) /\ buf \in Line
  /\ avail \in 0 .. Chunk /\ avail <= Len(data)
  /\ opened <=> step \in {"ascii", "line"}

(* The lines of a text; one that fills the caller's buffer ends there. *)
LinesOf[t \in Seq(Bytes)] ==
  IF t = <<>> THEN <<>>
  ELSE LET ends == {n \in 1 .. Len(t) : t[n] = LF \/ n = MaxLine - 1}
           n == Min(ends \cup {Len(t)})
       IN  <<SubSeq(t, 1, n)>> \o LinesOf[SubSeq(t, n + 1, Len(t))]

TextRanges(c) == LET l == LinesOf[c.text] IN [x \in 1 .. Len(l) |-> RangeIn[l[x]]]

(* What the file formats promise, without the order in which they are tried. *)
IsText(c) ==
  LET r == TextRanges(c)
  IN  \E x \in 1 .. Len(r) : x <= TryLines /\ r[x] # NoRange

Loadable(c) ==
  /\ c.readable
  /\ \/ IsText(c)
     \/ ~Stdin /\ c.format = "p2b"
     \/ ~Stdin /\ c.format = "p2b3" /\ c.tear \in {"no", "count"}

OnlyRanges(r) ==
  FlattenSeq([x \in 1 .. Len(r) |-> IF r[x] = NoRange THEN <<>> ELSE <<r[x]>>])

RangesIn(c) ==
  IF ~Loadable(c) THEN <<>>
  ELSE IF IsText(c) THEN OnlyRanges(TextRanges(c))
  ELSE IF c.format = "p2b3" /\ c.tear = "count" THEN <<>>
  ELSE c.items

(* The blocklist in use was loaded from every range of every file that could *)
(* be loaded, in order, and from nothing else: no rest of a file that turned *)
(* out to be unreadable, nothing of an earlier load, and nothing of another  *)
(* file lost by a rollback.                                                  *)
LoadedIsWhatFilesHold ==
  pc # "load" =>
    [x \in 1 .. Len(loaded) |-> <<loaded[x].ip_min, loaded[x].ip_max>>]
      = FlattenSeq([x \in 1 .. Len(files) |-> RangesIn(files[x])])

(* The first load leads to serving packets exactly if every named list file  *)
(* could be loaded, whichever of them could not; a failed reload never ends  *)
(* the service.                                                              *)
ServesAfterGoodLoad ==
  [][step = "merge" /\ step' \in {"idle", "exited"} /\ pc = "ready" =>
       (serving' <=> \/ serving
                     \/ \A x \in 1 .. Len(files) : Loadable(files[x]))]_allVars

OnMaster == ~opt_merge /\ blockfiles = <<{Listing(master)}>>

(* A daemon that is given the output of "pgld -m" blocks nothing that was    *)
(* not in the lists that were premerged; and if every range of that output   *)
(* has a label, then it blocks all of it, and starts unless there is nothing *)
(* to block.  (A range without a label is printed as a line that no format   *)
(* reads: parser.c:93 accepts "just a range", but it does not survive.)      *)
PremergedIsBlocked ==
  step = "merge" /\ pc = "ready" /\ OnMaster =>
    /\ \A ip \in Ip : Blocks(entries, ip) => Blocks(premerged, ip)
    /\ (\A x \in 1 .. Len(premerged) : premerged[x].labelled) =>
         /\ \A ip \in Ip : Blocks(premerged, ip) => Blocks(entries, ip)
         /\ ret = 0 <=> premerged # <<>>

(* However the decompressed bytes fall into stream->out, a compressed file   *)
(* is read line by line like a plain one: no byte is lost, read twice or put *)
(* into another line, and the last line needs no line feed.                  *)
ReadsLines == Reader!Spec

(* The parser drives the blocklist only through its operations. *)
ImplementsBlocklist == Spec

(* Every load comes to an end, and so does its dump. *)
LoadEnds == step = "next" ~> step \in {"idle", "exited", "dumped"} \/ pc = "crashed"

=============================================================================
