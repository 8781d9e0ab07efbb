# TLA+ models of peerguardian (pgl)

pgl blocks network traffic from and to the address ranges of blocklists. This
directory models its three programs: the daemon `pgld` (C), the control script
`pglcmd` with its watchdog (shell), and the graphical front end `pglgui` (Qt).
Paths below are relative to the root of the repository.

1. [The system](#1-the-system)
2. [Modules, runs and plan](#2-modules-runs-and-plan)
3. [Blocklist](#3-blocklist), 4. [Loader](#4-loader), 5. [Pgld](#5-pgld),
   6. [MasterList](#6-masterlist), 7. [Lifecycle](#7-lifecycle),
   8. [Iptables](#8-iptables), 9. [RootQueue and Gui](#9-rootqueue-and-gui),
   10. [Ports and Whitelist](#10-ports-and-whitelist)
11. [What is proved](#11-what-is-proved)
12. [Where code and documentation disagree](#12-where-code-and-documentation-disagree)
13. [What is not modelled](#13-what-is-not-modelled)

## 1. The system

| Component | Source | State | Operations | Hard behaviour |
|---|---|---|---|---|
| Blocklist | `pgld/src/blocklist.c` | the array of ranges, its count, believed capacity, numips | append, clear, sort, merge, find, stats | merging in place by blanking, sorting again and cutting off; 32-bit boundaries |
| List loader | `pgld/src/parser.c`, `stream.c` | the stream's buffer, position in a file, counters, rollback point | get a line, try ASCII, roll back, try binary, roll back; load and dump (`pgld -m`) | lines across fillings of a buffer, partial files, rollback to the right place, files that fail, a dump that has to be read back |
| Daemon | `pgld/src/pgld.c` | packet being handled, found range, hits, queue, pidfile | start, packet verdicts, signals USR1/USR2/HUP/TERM/INT/SEGV, exits | signal handlers that interrupt packet handling, list loading and each other |
| D-Bus plugin | `pgld/src/dbus.c` | connection | init, send | none beyond blocking I/O |
| Packet path | the rules of `pglcmd.lib`, `nfqueue_cb` | chains, marks | verdicts by mark and NF_REPEAT | a packet passes the hook twice; rules change in between |
| iptables script | `insert_iptables`, `delete_iptables`, `white_local` in `pglcmd.lib` | rules in the kernel, remove script on disk | insert, delete | a step that fails; a crash between rule and remove script |
| Life cycle | `pglcmd.lib`, `pglcmd.lsb.lib`, `pglcmd.in` | pidfiles, processes, rules | start, stop, restart, start_wd, stop_wd | several pglcmd at once, the watchdog's among them |
| Watchdog | `pglcmd.wd.in` | its loop, its pidfile | look, restart | restarting while an administrator stops or starts |
| Blocklist build | `build_blocklist`, `update_blocklists`, `do_reload` in `pglcmd.lib` | downloads, master list, backup, md5 file | build, update, reload | crash or failure between the steps; two processes |
| Root commands of the GUI | `pglgui/src/super_user.cpp`, `proc_thread.cpp` | queue of commands, running thread | add, execute, finished | requests while a command runs |
| Settings of the GUI | `pglgui/src/option.cpp`, `whitelist_manager.cpp`, `blocklist_manager.cpp`, `pglcore.cpp` | values and their active copies | change, apply, undo | application that fails halfway |
| Whitelist of the GUI | `whitelist_item.cpp`, `whitelist_manager.cpp`, `add_exception_dialog.cpp`, `port.cpp`, `utils.cpp` | the list in the window, what is switched off | enter words, tick, remove, undo, apply, load | one exception by several names, in ranges and in two files |

The components interact as follows. `pglcmd start` builds the master blocklist
with `pgld -m` if its md5 sum says so, inserts the iptables rules that send
packets to `pgld`'s NFQUEUE, starts `pgld` with the master list, and starts the
watchdog. `pgld` answers each packet with NF_REPEAT and a mark, and the rules in
front of the queue act on the mark. `pglcmd reload`, `update` and logrotate
signal `pgld` with SIGHUP; `pglcmd stop` kills the watchdog, removes the rules
with the script that `start` recorded, and ends `pgld` through its pidfile. The
watchdog runs `pglcmd restart_not_wd` when it misses the daemon or the rules.
`pglgui` edits pgl's configuration and runs `pglcmd` as root through a queue of
commands. Nothing serialises the `pglcmd` processes of administrators, cron,
init, the watchdog and the GUI; they share files only.

What makes each part correct:

- **Blocklist**: sorting and merging change no blocked address; the search finds
  exactly the blocked ones; the array is never written past its allocation.
- **Loader**: the list holds what the readable files hold, in order; the daemon
  serves if they all were readable; what `pgld -m` prints says the same.
- **Daemon**: whatever signals interrupt, a packet is looked up in a complete
  list; reloads take effect; TERM ends it; the pidfile names it while it serves.
- **Blocklist build**: the sum that spares a rebuild never vouches for a list
  that is not the configured one; a whole list survives failures; after a
  command `pgld` runs with the lists that were gathered.
- **Life cycle and watchdog**: stop lasts, start leads to a filtering system, a
  daemon can be found by its pidfile, the watchdog repairs what it watches.
- **iptables, packet path**: rules are never left behind, every packet gets one
  verdict and none loops.
- **GUI**: a command that was accepted is run once; what is shown as active is
  what the files hold; the whitelist has one line for a rule and keeps what was
  asked for.

## 2. Modules, runs and plan

| Module | Models | Extends | State |
|---|---|---|---|
| `Blocklist` | blocklist.c | | modelled, checked, proved (`Blocklist_proofs`) |
| `LineReader` | what `fgets` promises | | the abstract specification of `Stream` |
| `Stream` | stream.c | | modelled, checked with `Loader`, proved with `Loader` |
| `Loader` | parser.c, `load_all_lists`, `pgld -m` | `Blocklist`, `Stream` | modelled, checked, proved (`Loader_proofs`) |
| `Pgld` | pgld.c | | modelled, checked, proved (`Pgld_proofs`) |
| `MasterList` | the build of the master blocklist | | modelled, checked, proved (`MasterList_proofs`) |
| `Lifecycle` | start, stop, watchdog, pidfiles | | modelled, checked, proved (`Lifecycle_proofs`) |
| `Iptables` | insert, delete, white_local, configure, remove script; packets, marks, verdicts | | modelled, checked, proved (`Iptables_proofs`) |
| `RootQueue` | SuperUser, ProcessT | | modelled, checked and proved with `Gui` |
| `Gui` | Option, managers, PglCore, applyChanges, rootFinished | `RootQueue` | modelled, checked, proved (`Gui_proofs`) |
| `Ports` | port.cpp, and what words look like | | modelled, checked with `Whitelist` |
| `Whitelist` | the whitelist as a list of words, with its dialog | `Ports` | modelled, checked, proved (`Whitelist_proofs`) |

Abstract specifications: `Loader` is shown to implement `Blocklist`
(`ImplementsBlocklist`), and `Stream`, as `Loader` uses it, to implement
`LineReader` (`Reader == INSTANCE LineReader WITH open <- opened, left <- data,
line <- buf`, `ReadsLines`). For packets, `ListDecides` states what an abstract
filter would; `Gui` states its outcome against the shown choices.

| Run | Module | Expected | Distinct states |
|---|---|---|---|
| `blocklist_any` | `MCBlocklist` | pass | 460 000 |
| `loader_files` | `MCLoader` | pass | 62 000 |
| `pgld_signals` | `MCPgld` | pass | 241 000 |
| `pgld_hup` | `MCPgld` | violation | |
| `master_one` | `MCMasterList` | pass | 1 600 000 |
| `master_failing`, `master_two` | `MCMasterList` | violation | |
| `life_one` | `MCLifecycle` | pass | 41 000 |
| `life_stop` | `MCLifecycle` | violation | |
| `iptables_any` | `MCIptables` | pass | 2 270 000 |
| `gui_any` | `MCGui` | pass | 2 750 000 |
| `whitelist_any` | `MCWhitelist` | pass | 38 000 |

To keep the runs few, `MasterList`, `Lifecycle`, `Iptables` and `Gui` have a
variable `may`: what kinds of trouble (deaths, failures, a watchdog ...) there
are in a behaviour is chosen once, at the start, from the constant
`Circumstances`; properties that depend on a circumstance name it. Definitions
whose comment begins with "Broken variant" are plausible mistakes in the code,
which the properties are tested against; no specification uses them.

Section 11 says which properties are theorems and why the others are not.

## 3. Blocklist

`entries` is the C array up to `count` (C index n is n+1 here), `size` the
capacity `blocklist_append` believes in, `alloc` the slots of the last realloc.
One action is one operation (`blocklist_append`, `blocklist_clear`,
`blocklist_sort`) or one iteration of a loop of `blocklist_merge` and of
`bsearch`; `pc` is the place in `blocklist_merge`, which calls itself until a
pass merges nothing. `loaded` is a history variable holding the list before the
sort. A name is the set of loaded entries whose labels it is made of, so that a
label can be compared with what it stands for. Addresses are `0 .. MaxIp` with
arithmetic modulo `MaxIp + 1`. `qsort` is any permutation that puts `ip_min` in
order (it is not stable); appended ranges may overlap, repeat and be inverted,
as no parser checks them.

`blocklist_any` (`MaxIp` = 3, up to 3 ranges from 13, three of them inverted,
chunks of 2): the merged list blocks exactly what was loaded (`CoverageExact`);
the search is right for every address (`FindExact`); no append writes past the
array (`WithinAllocation`), although the merge shrinks the allocation behind
`size`; a label in the log names a range that does hold the address
(`LabelsHonest`); everything ends (`Terminates`). Three entries are the smallest
list in which a group of more than two is merged or a group is followed by
another; four addresses are enough for a gap, for contact and for the last
address. Two more properties are only proved: the merged ranges have a gap
between any two of them (`Separated`), and the NULL name of a blanked entry is
dereferenced only if a range begins at the last address
(`CrashNeedsLastAddress`: in the code, a P2B file with a range at
255.255.255.255). `blocklist_dump` is in `Loader`; the statistics' log lines are
left out.

## 4. Loader

`Stream` is stream.c. `data` is what the file still has to give, `avail` how
much of it lies decompressed in `stream->out`. `stream_getline` of a compressed
file is one action: it fills the buffer (`Fills`), cuts a line off its front
(`Copies`, `CutLine`) or finds none (`NoCopy`). When the data ends with the last
free byte of the buffer, zlib may say so now or at the next call: a choice. A
file that is damaged ends where the damage is. A plain file is read with
`fgets`. `LineReader` is what `fgets` promises, and `ReadsLines` says that a
compressed file gives the same lines.

`Loader` extends `Blocklist` and `Stream` and adds what `load_list`, the parsers
and `load_all_lists` decide: each file is tried as text, rolled back, tried as
binary, rolled back or taken, and counted. A file is a record of what the code
can tell apart: readable or not, compressed or not, its bytes, the binary format
its header names, the binary ranges, and where it breaks off (`tear`). `RangeIn`
and `LabelIn` are what the three formats read from a line. `TryLines` stands for
the 100 lines after which a text without ranges is given up. Reading one line or
one binary range is one action, together with its append.

`opt_merge` and `blockfiles` are the command line. With `pgld -m` the merged
list is printed, one action for each line; `StartDaemon` is pglcmd giving the
output to a daemon. (pglcmd pipes the lists, joined and filtered, through
standard input; only the joined text is modelled.) `LineOf` is what is printed
for a range. If its label is empty, the line begins with a colon, and
`DumpAssumption` states what the three formats do with it: `%299[^:]` wants at
least one character and the other two begin with a number, so it gives nothing.
It also says that a printed line has its line feed at its end and nowhere else, and
that `Ranges` has, with two ranges that overlap or adjoin, the range the merge makes
of them; a list file may hold any range, so the latter leaves nothing out.

`loader_files` has one or two files of fourteen kinds: unreadable; text with a
range soon enough, too late, behind a line that fills the buffer, or without a
label; compressed text of no, one, two and three fillings of `Chunk` = 4 bytes,
with the same variations and without a final line feed; P2B of versions 1 or 2
and 3, whole and broken off at each place. With two files every rollback happens
both into an empty list and into one that must be kept. Three ranges, one inside
another, one at the last address, so that the merge can crash as well.

- `LoadedIsWhatFilesHold` compares the list with a definition of what the files
  say that does not know the order in which formats are tried (`RangesIn`).
- `ServesAfterGoodLoad`: a daemon starts exactly if every file could be loaded,
  whichever of them could not, and a failed reload never ends it.
- `PremergedIsBlocked`: a daemon on the master list blocks nothing that was not
  premerged, and all of it if every range has a label. The exemption is real:
  `parser.c:93` accepts a line that is just a range, in any build; a range all
  of whose lines are like that is dumped as a line no parser reads, and so is
  not blocked. If no line of the first hundred has a label, the daemon refuses
  the master list.
- `ReadsLines`, `ImplementsBlocklist` and `LoadEnds`.

Left out: character sets, the text of labels (a P2B label may hold a colon,
which spoils its dumped line in the same way, and so does a line feed; labels
too long for a merged name are in `Blocklist`), and builds with `LOWMEM`.

## 5. Pgld

The daemon is one thread; signal handlers run on top of it, with `sa_mask`
empty, so that any other signal interrupts a handler. `stack` holds these
computations; each step belongs to the top one. The blocklist is abstracted to
the set of files it holds, `list.since` to the version of the files it was read
from. A computation that holds a pointer, index or count of the array has `ref`,
which turns "stale" when a handler frees the array; a stale computation is
undefined behaviour, and the model lets it either crash or go on. What a load
does that goes on after a reload has replaced the array is worse than nothing:
`blocklist_merge` has kept its `i`, `j`, `ip_max` and `merged`, blanks whatever
ranges are at these places now, and `count -= merged` cuts off as many as it
has counted in both arrays (`pgld/src/blocklist.c:114-186`). `Left` therefore
takes any of the files away, and `list.torn`, a history variable, says that this
has happened. Signals
coalesce in the set `pending`, as the kernel's standard signals do. Packets
arrive one at a time: `nfqueue_loop` handles them in sequence, and a second one
only waits.

`pgld_signals` (two lists, up to two signals of each behaviour, one rewrite of
the lists): a reload ends with a complete, merged list, and packets are looked
up in no other (`SearchesWholeList`): it has every list but those that the load
failed on. The exception is a first load that a HUP got into (section 12); the next
reload repairs it. No reload
is lost (`HupTakesEffect`), TERM ends the daemon (`TermEnds`). Two signals are
enough for every nesting of two handlers, of one handler with main, and for a
reload after a torn first load. `LogLocks` turns on what the C library may do:
`localtime` and `syslog` lock, and a handler that logs inside `do_log` waits for
ever; the run has it off, because with it no liveness property holds, as is to
be expected.

Fairness: the thread runs on (`WF` of `Step`) and a sent signal is delivered;
nothing forces signals or packets to come. `Restart` is the next process.

## 6. MasterList

The files are global variables (`downloaded`, `extracted`, `master`, `backup`,
`md5`); what a `pglcmd` process keeps in shell variables is in `proc[p]`. Each
command of the scripts that changes a file is one action, so that another
process, logrotate's HUP or a kill can come between any two. A list's content is
its version; a master list is the set of list versions it was merged from; a sum
is what `set_md5sum` hashes: the settings, the local lists and the master list,
but not the downloaded ones. `cp` and `sed` write a list in place: `Tear` is a
kill or a full disk in the middle of that, and leaves the version `Broken`, which
the code takes for a list like any other (an unpacked one; a packed one is
removed when it cannot be unpacked). The circumstance "death" is any other kill,
or a failing `rm`, `mv` or `mkdir`, between two steps.

`master_one` (one process at a time, one remote and one local list with two
versions, the second of which is empty; either kills between two steps, or kills
in the middle of a write, or failing downloads and merges with HUPs from
logrotate): a kill never makes a later start trust a list that is not the
configured one, if nobody edits the lists meanwhile
(`DeathIsNoticed`; an edit between the reading of a local list and the sum is
taken for merged); if nothing fails
then `pgld` ends up with what the command gathered (`LoadedUnlessFailed`). Both
properties ask for whole lists (`Sound`) unless the writing of one was cut off:
what then happens to it is in section 12. Failures
never cost the last whole list (`KeepsWholeList`). One remote and one local list
are enough, as the code treats lists of a kind alike and one after the other.
`restart` takes the place of `start` and leaves out what `do_stop` does, which
is in `Lifecycle`. The two violation runs are described in section 12.

No fairness is used: the properties are safety properties.

## 7. Lifecycle

`pglcmd[p]` is where a `pglcmd` process is in `do_stop` and `do_start`; the
callers are administrators (cron and init included) and, for each watchdog, the
`restart_not_wd` it runs, which survives the KILL its watchdog gets. `dog[w]`
goes from "new" over "checked" (it has seen no `WD_PID`) to "asleep", and is
"waiting" while its child runs. A `pgld` process is "forked", "loading" (pidfile
written and locked), "up" or "ending" (it got TERM). `pidfile` is what the file
says: nothing, empty, a dead or a living process; `lock` belongs to the inode
the name stands for now, so unlinking frees the name and not the lock. `Status`
is `pidofproc` of pglcmd's own `pglcmd.lsb.lib`, with its fallback to `pidof`.
The time limit of `do_stop` is a choice (`Timeout`), except that 20 seconds are
taken to be enough for a forked `pgld` to write its pidfile.

`life_one` has one administrator who calls start, stop, restart, start_wd and
stop_wd in any order, one watchdog at a time and two `pgld` processes, in four
worlds: nothing special; crashes of `pgld`; a watchdog; a watchdog with crashes
and with a firewall that flushes the rules. Without a watchdog a stop lasts
(`StopLastsAlone`) and a running daemon can be found by its pidfile
(`PidfileNamesDaemon`), however often it crashed; undisturbed, a start serves
(`StartServes`). With one, a daemon that ended is started again and lost rules
come back, unless a stray daemon is in the way (`DogRepairs`). A daemon is
`Stray` when the pidfile does not name it, as two simultaneous starts can leave
it: `do_stop` then ends nothing and `do_start` finds a running `pgld` and does
nothing, so that a watchdog that misses the rules deletes what there is, inserts
none, and does so again, for ever. (A second `pgld` empties the pidfile of the
first when it opens it, `pgld.c:185`, before it finds it locked and ends.) No
property covers two overlapping starts: `StartServes` speaks of an undisturbed
one, and `DogRepairs` leaves stray daemons out. The bounds `Dogs` and `Daemons`
limit processes alive at a time: where no slot is free, the start has no effect.
`life_stop` has two watchdogs.

Fairness: every process goes on with its next step, as the scheduler sees to it.
Nobody has to call anything; crashes and flushes are never forced.

## 8. Iptables

What a shell still has to do is a sequence of instructions, `proc[p].todo`, of
"pglcmd" and of a "hook" that runs beside it (if-up by NetworkManager, or a
`configure`). A start appends what it goes through: delete what an old remove
script says, then for each chain create, record, insert, then white_local, then
remember and activate each chain, and put the script together. `record` and
`remember` write lines to `script` and `tmp`, and these lines are instructions
too, which `sh` puts in front of the rest. Each instruction is one action
(`Shell`), so that a failure, a death, another process or a packet can come
between any two. A command of the remove script may fail (`FailUnnoticed`); the
code goes on and removes the script in any case (`pglcmd.lib:1427`), and `lost`
remembers the lines that failed when they were executed last. A start with a bad
`NICE_LEVEL` exits behind the activation and takes nothing back
(`bad_nice_level`, result "exited"). `kernel` is what iptables has: chains,
their rules in order, and how many rules jump to them. A packet meets the rules
of one moment, may go to `pgld`'s queue, and meets those of a later moment with
its mark.

`iptables_any` (two chains) has eight worlds: remove scripts whose commands fail,
with bad nice levels; the latter alone; the watchdog's repairs with a `pgld` that ends; kills and
reboots; the hook; packets with a `pgld` that ends, with failures, with kills.
Whatever dies or fails when, each rule that sends packets to pgl has a line that
removes it, unless just this line was executed and failed (`JumpsRecorded`).
`CleansUp` has three parts: after a start that failed and after a stop no packet
goes to a queue where nobody listens, unless the chain could not be flushed
(`ReleasesTraffic`); where the remove scripts succeed and nothing dies, a stop
leaves nothing, a start with a bad nice level before it included (`StopCleans`);
after a death at most as many starts are refused as there are chains
(`HealsWithin`; the bound is reached). A chain is active only with its rules
complete (`ActiveComplete`). The list decides what passes, except for packets that
came while rules were missing or nobody listened, and decides once
(`ListDecides`). The port rules are those of the configuration file
(`ConfHonoured`). Section 12 says what the exemptions in `JumpsRecorded` and
`ReleasesTraffic` stand for.

`ActiveComplete` makes an exemption: `white_local` takes `restart_not_wd` and
`force-restart` for an if-up, so that after a repair by the watchdog the loopback
device is not whitelisted, other than `pglcmd.defaults:275` has it.

Bounds: two chains are the least for "one chain done, the other not";
`MaxDeaths` = 2 lets a death follow the recovery from another; `refused` stops
counting one above the number that `HealsWithin` allows. There is one `pglcmd` at
a time, as `Lifecycle` has several. Left out: custom scripts and log rules,
`IPTABLES_SETTINGS` other than 1, `IPTABLES_ACTIVATION=0`, single interfaces, and
established connections, whose packets never get to these rules. There is no
fairness, as all properties are safety properties.

## 9. RootQueue and Gui

`RootQueue` is `SuperUser` and its thread: commands are added, written to a
script that begins with `set -e`, and run one after the other; without a sudo
program they are refused and stay queued. While the thread runs, the process
dialog is in front of the window; therefore `Idle` guards whatever the user
does there. `Gui` says what the commands are and do. An entry of the whitelist
or of the blocklists and an option has the value shown (`now`) and the active
one (`was`), as an `Option` has `d_ptr` and `d_active_ptr`. `applyChanges`
compares the two; `rootFinished` loads everything from the files after a
success, and only tidies up (`cleanup`) after a failure. `settings` is what
`PglSettings` has in memory, which an application changes before its commands
run (`storeSettings`); what is written to the file is another matter
(`generatePglcmdConf`): `setValueInData` takes any line with the name of a variable
in it for the line of that variable. `disk.hidden` has the options without a line
of their own whose name is in another line, as CRON is in CRON_MAILTO; such an
option keeps its default in the file, whatever is applied. Each command of the
script is one step, `Perform`, that works only if what it needs is there (the file
it moves, the rule it deletes).

`gui_any`: two whitelist items (one of them an address of incoming connections),
a list that is a URL and one that is a file, two options and a frequency, in
five worlds: whitelisting from the window and from the log with commands that
fail and a dialog that is cancelled; lists, with undo and failures; options,
hidden ones or not, with restarts of pgl's window; options, with scripts that
cannot be written; a `pgld` that is started and stopped meanwhile. In two of
them no sudo program is known at first. An application that succeeds, whatever
failed before it, has left in the files what was shown, but for hidden options
(`AppliedIsFiled`), and the same in the rules (`RulesFollow`); the button for
applying and undoing tells at any time whether there is something to do
(`ButtonTells`). Two entries of a kind are enough, as the code treats them in a
loop without looking at others; `MaxCommands` = 5 is more than the longest
application, and enough for one behind a refused one.

What the properties except, because the code is like that:

- A hidden option is not filed (section 12).
- After a failure (or a refusal) and a further edit or undo, PglSettings, iptables
  and the local lists may hold parts of the application that failed; nothing
  compares them with what is shown. `torn` marks this, and `AppliedIsFiled` and
  `RulesFollow` say nothing then. The same holds after "Allow temporarily" beside
  pending edits: its success saves half of them and reloads the rest away.
- `mLogViewWhitelistItems` is not cleared by a success, so that a later failure
  removes the items of earlier applications from the window.
- The `-D` command of an incoming address lacks the `!` of the other commands
  (`whitelist_manager.cpp:384`): a rule that is there is not deleted, and deleting
  one that is not fails the whole script.
- With `CRON="0"` or without a cron script no frequency is checked when pglgui
  starts; every application then moves the script to an empty path and fails.
- A frequency that is changed while the file is in that place already needs no
  command; the button goes dark and the change stays pending.
- Refused commands run a second time with the next batch; a `mv` among them then
  finds its file moved and fails that batch.

No fairness: all properties are safety properties.

## 10. Ports and Whitelist

`Gui` treats an exception as an indivisible item; here it is a word with a
protocol and a connection, and what counts is which words are the same. `Ports`
says what a word can be (a number, a name of `/etc/services`, a range with or
without an end, an address with or without a mask, rubbish), which names belong
together (`systemPorts`, `Aliases`) and what lies in a range (`containsPort`).
A word also has how it is `written`: 080 and 80, or HTTP and http, are two words,
of the same number or, but for case, of the same name. `isPort` asks with
`toLower`, and so HTTP is accepted; but it has neither number nor aliases. (While
pgl runs, iptables may refuse such a word; here every application succeeds.) A
number of too many digits (`NotInt`) is a port for `isPort` and none for
`containsPort`. A name may stand for several numbers, of which `portNumber` takes
the first (`PortOf`), and a port may have a name in several spellings, of which
`addAliases` takes one (`Spelling`). `Meaning` says what a word is about.

`Whitelist` has the list in the window. An entry has its state in the files
(`was`), its state now (`now`) and the mark of a removed one; `conf` and `off`
are the variables of `pglcmd.conf` and the switched-off values of `pglgui.conf`.
The dialog is one action, `addEntry`: it splits the words, objects to some, and
adds or switches on the others. `Apply` is an application together with its
success, after which both files are read again. `wanted` is a history variable:
what was accepted or allowed and not taken back since.

`whitelist_any` starts with up to two values in the file and two switched off
(`MaxFiled`), in ten worlds: names of one port and of another protocol; a port that
is listed for two protocols; ranges in, around and across each other, one of them
without an end; a port with a name, beside a range and before one without an end;
files edited by hand, which may hold one exception twice; addresses for two
connections; 080 beside 80, its name and a range; 080, HTTP and a number of too
many digits; a name in two spellings; a name of two ports.

- `ListOK`: no two lines of the window are about the same rule, if their words are
  `Comparable`: the same word, two numbers, or two `Regular` ones, which numbers
  written as usual and names in one spelling are. Of the others
  the code may make two lines, as of 080 beside http (section 12).
- `UnchangedIsFiled`: if nothing is marked as changed, the window is what a new
  start would show; edits that cancel out leave nothing behind.
- `WantedIsOn`: what was asked for stays let through, though another entry may
  stand in for it, until it is taken back; files edited by hand are left out (see
  below).
- `OffStaysOff`: an application takes what was switched off or removed out of
  `pglcmd.conf`, by whatever comparable name, unless this was edited by hand, and
  what was removed is not read back by its own name.

Bounds: Init gives up to four entries, and `MaxEntries` = 4 leaves room for one
more beside three; `MaxWords` = 2 lets the second word of a line be the same as the
first. No fairness: all properties are safety properties.

The code has its own idea of sameness, which the properties follow:

- A range without an end counts as inside every range that begins before it
  (`whitelist_item.cpp:101`), and so is not added beside one. `wanted` therefore
  only follows addresses and single ports, and of the names only those of one port
  (`Single`): a name of two is an alias of the first, and the entry of either
  number may stand in for it.
- A port is the same as a range around it, in both directions; entering a range
  switches on the entry of a port inside it, and the range itself is not added.
- Files edited by hand may hold a port between two ranges around it. When the
  first range goes, the port is read as the same as the second one and takes its
  place: a port of the second range that was asked for is blocked again.
- A port that is switched off is not shown beside a range without an end that
  begins before it; its name can then be entered anew, and if that is removed, the
  port comes back, switched off. So `OffStaysOff` speaks of the same word.
- Cancelling the dialog still adds the words it had nothing to object to.

Limits: no service name looks like a number; a range ":90" is one from 0; an
address counts as it is written, so 10.0.0.1 and 10.0.0.1/32 are two exceptions.

## 11. What is proved

TLC's runs are small; these hold for every value of the constants:

- `Blocklist_proofs`: `Invariance` (`Spec => []IInv`), and from it `TypeCorrect`,
  `CoverageTheorem`, `SeparatedTheorem`, `FindTheorem`, `AllocationTheorem`,
  `CrashTheorem` and `LabelsTheorem`, under `BlocklistAssumption` alone (addresses
  from 0 to `MaxIp`, chunks of at least one).
- `Loader_proofs`: `LoaderRefines` (`LoaderSpec => Spec`), and with it
  `LoadedCoverage` and `LoadedAllocation`; `LinesTheorem` (the lines are those of
  `fgets`); `LoaderTypes`; `LoadedTheorem` (`LoadedIsWhatFilesHold`),
  `ServingTheorem` (`ServesAfterGoodLoad`) and `PremergedTheorem`
  (`PremergedIsBlocked`). They hold for every content of the files, size of
  buffers and number of files, under the assumptions of `Loader` and `Stream`.
- `Pgld_proofs`: `PgldTypes` and `SearchTheorem` (`SearchesWholeList`), for any
  number of files, rewrites and signals, wherever these are delivered.
- `MasterList_proofs`: `MasterListTypes`, for any number of processes at once;
  `DeathTheorem` (`DeathIsNoticed`), `LoadedTheorem` (`LoadedUnlessFailed`) and
  `WholeTheorem` (`KeepsWholeList`), for any lists, versions and circumstances.
- `Lifecycle_proofs`: `LifecycleTypes`, and `StopTheorem` (`StopLastsAlone`) and
  `PidfileTheorem` (`PidfileNamesDaemon`), for any number of administrators and
  daemons.
- `Iptables_proofs`: `IptablesTypes`, `ActiveTheorem` (`ActiveComplete`),
  `ListTheorem` (`ListDecides`), `JumpsTheorem` (`JumpsRecorded`), `ConfTheorem`
  (`ConfHonoured`) and `CleansTheorem` (`CleansUp`), for any set and order of
  chains, any number of deaths and all circumstances together, failing remove
  scripts and bad nice levels included; of `CleansUp` the part that needs no
  circumstances, `ReleasesTraffic`, is `ReleasesTheorem`.
- `Gui_proofs`: `GuiTypes`, `ButtonTheorem` (`ButtonTells`), `FiledTheorem`
  (`AppliedIsFiled`) and `RulesTheorem` (`RulesFollow`), for any items and lists,
  any length of the queue, and all circumstances together; `FiledTheorem` says
  nothing of a hidden option. `GuiAssumption` has both sets finite, as the window
  lists them.
- `Whitelist_proofs`: `WhitelistInvariant`, and from it `ListTheorem` (`ListOK`),
  `FiledTheorem` (`UnchangedIsFiled`), `WantedTheorem` (`WantedIsOn`) and
  `OffTheorem` (`OffStaysOff`), for any words, services, ticks and lengths; the
  first and the last speak of comparable words. `ServiceAssumption` only says that
  a line of `/etc/services` has a number and names, which are no numbers; a name may
  be there for several numbers, protocols and in several spellings.

The theorems of `MasterList` and `Lifecycle` other than the types have a
hypothesis, `[]OneAtATime`: a command of an administrator is over before the next
one begins. It is what the properties are about; the runs `master_one` and
`life_one` have one process (one administrator) and so satisfy it, and
`master_two` shows what happens without it. Nothing in the code provides it. The
processes themselves are any number. `LifecycleAssumption` keeps the names of
daemons and watchdogs apart from the words for "nobody" that the model uses
beside them, and says no more than that of them.

### Blocklist

The properties of the blocklist are not inductive: in the middle of a pass the
array is neither sorted nor free of blanked entries, and blanked ones read as the
last address. `IInv` says what a pass keeps. `Frontier` is the last entry the
pass is done with. `OrderInv`: behind it the array is sorted as before the pass,
and if nothing was merged so far, the part up to it has gaps. `GroupInv`: the
entries from `i` to `j - 1` form one group without a hole that reaches to
`ip_max`; while it is blanked, entry `i` already covers all of it. `CoverInv`:
entries that are not blanked block exactly the loaded addresses. `BlankInv`:
`merged` counts the blanked entries, and so the second sort pushes exactly these
behind the cut, unless a range begins at the last address; it needs a lemma on
cardinality (`ReorderingKeepsCount`). `HeapInv` ties `size` to `alloc` while
loading. `SearchInv` is the invariant of binary search. Each conjunct is checked
by `blocklist_any` as well. The proof has one lemma for each action. For the
labels, a second invariant, `LabelInv`, speaks of the entries and of the group
that is being merged, whose name is still under construction.

### Loader and Stream

For the refinements, `LoaderInv` has two parts. `ParseInv` says that the rollback
point lies within the list, that what is left to read consists of ranges, that
the stream is open exactly while a file is read as text, and of the stream that
it holds no more than the data has (`StreamInv`). `FilesInv` says that the files,
the master list among them, are such as list files may be: without it the daemon
could not be shown to read what `pgld -m` printed. Each step of the loader is then
a step of the blocklist, or changes none of its variables, and a step of the line
reader, or changes none of those. The latter is shown first, for
`stream_open`, `stream_getline` and `stream_close`; the argument is that the
buffer is at least as long as a line, so that a line that is not complete in it
is complete in the file.

What a text yields is defined by recursion (`LinesOf`, `FlattenSeq`), and induction
over it needs three general lemmas: `Counting`, induction over numbers for a set
instead of a formula, from the least element that `WFMin` gives; `Recursion`, a
recursion along a measure has a solution, so that the function its definition
chooses satisfies it (`LinesEquation`, `FlattenFacts`); and `FlattenMore`, one
sequence more. From them: a line that is complete in front of a text is the first
of its lines (`FirstOfLines`, `LineInFront`).

`HoldInv` is the invariant of a load. Between files the list holds what the files
so far hold (`Whole`). While a text is read there are lines taken, which have
yielded what was appended and were counted right (`Counted`), and the lines of the
text are these and the lines still to come (`TextInv`); a P2B is split in the same
way (`ItemsInv`). At the rollback point the list is what the earlier files hold,
so that each rejection leaves just that. `ret` is 0 as long as every file could be
loaded.

For `pgld -m`, `MergedInv` says that the merge makes only ranges of the list files.
It would not hold of the list alone: while a group is blanked its entries are not
all ranges, and of a group with a blanked entry of an earlier pass in it (before the
crash on its name) nothing can be said. `MasterInv` says that the text printed so
far is that of the entries written so far. `MasterReads` then reads that text with
the lemmas above: its lines are those printed, and the ranges found are those with a
label, if one of them is among the first `TryLines` lines.

### Pgld

A packet is looked up by main, and between main's steps any handlers may have
run. `StackOK` says that main is at the bottom of the stack and that no handler
is there twice, so that the stack is finite and only HUP's reload and the freeing
of TERM and INT touch the list. `LoadInv` gives each computation on the stack
what it believes of the list (`Fits`: the files before its own are done; after
its merge, all are, and merged), or else somebody above it hides the list from
it (`Hides`): a reload that is not finished, which will have restored the belief
when it returns, or a handler that has freed the list and never returns. What main
believes may be wrong if the list is torn; the handler of HUP never has a stale
reference, since only a second one could take its array away, and so no reload
leaves a torn list.

### MasterList

`DeathInv`: the sum on disk, if it is the sum of the master list, belongs to the
lists that this was made of (`SumInv`), and from the first step of an update or
a build to its end there is no sum; in the middle of a build, what was gathered
so far is what is configured (`BuildInv`). `LoadedInv`: a `pgld` that is to be
started stays down until it is, and then has the current list. `WholeInv`: a
master list is unfinished only while somebody is merging or the backup is not
better. `NoneTorn` needs no hypothesis on overlapping commands: where no writer
is cut off, every download, extracted list, master list and loaded list is
whole; `KeepsWholeList` is an action property that follows from it step by step.

### Lifecycle

Without a watchdog nobody but an administrator's `pglcmd` runs (`NoDogs`). `Course`
says at which places a command can be. `Undisturbed`: a start that has looked for
a daemon still finds none, and the rules that a stop has deleted stay away.
`OneDaemon`: at most one `pgld` is alive, and from its lock on it is the one that
the pidfile names; before that there is no pidfile. `Down`: after a stop there are
neither rules nor daemons, and nobody is about to start any. The two properties
follow.

### Iptables

The invariants describe the instructions that a shell still has before it.
`ProcOK` says that they come in an order `pglcmd` can produce: nothing is
cleared once a chain is being set up, the lines of a script come before anything
else, each chain goes through its stages in order (`Before`), what belongs
together is adjacent (`Follows`), and who begins to set up a chain finishes it
(`Closed`). `ChainInv`: an active chain that filters has its rules, a reject
before the queue; of one that is about to be activated, what it lacks is
pending. `RecordInv`: the removal command of an active chain for which it is
still `Owed` (it has not failed) is in a file, and a file is only removed when
the commands in it have been executed, or when they are in the other file.
`PacketInv`: a packet's mark is the verdict of the list, and it has gone through
the queue at most once. Each step of a shell takes the first instruction away,
which keeps order and adjacency; only a starting command, and `sh` when it reads
a script, put instructions in front.

`ConfHonoured` and `CleansUp` are about what a whole start or stop has done. For
them `ShapeInv` describes a program as a whole, by what may come later in it
(`Late`), what comes right behind what (`Led`) and how it ends (`Ends`), so that
from the instructions that are left one can tell which have been carried out.
`ConfInv`, where nothing fails, dies or is hooked in, says of each chain
(`ConfChain`) that its port rule is there once, as configured, or that the
instruction for it is still to come. For `CleansUp`, `RememberedInv` holds in
all circumstances, and `FiledInv` where the lines of remove scripts do not fail: the
removal commands of what a start makes are in the script, for each chain the
deletion of its jump and the flush before its own deletion (`Tidies`), so that `sh`
never meets a command that is bound to fail. `QueueInv` (a chain that is `Held`,
that is, has a queue although no flush of it failed, has its flush in the script)
and `FreeInv` (after a stop none is held, after a failed start none that packets
are sent to) are all that `ReleasesTraffic` needs. `StopInv`, where nothing dies
and the scripts succeed (`Alone`): each chain that exists goes with the script
under way or with the next one, also after a start that exited (`Exits`), and
behind a stop there is none. `HealInv`, where nothing fails by itself
(`Unfailing`), counts with `refused`: each start that is refused takes the first
chain that is left with it.
A hook outside `pglcmd` may keep a chain in use; both leave that circumstance out,
as `CleansUp` does. These invariants, too, were checked by TLC on the instance of
`iptables_any` first.

### Gui

What holds when an application has succeeded must be known while its script
runs, and that must be known when it is submitted, be it after failures that left
the queue, the files and PglSettings in any mixture. `GeneratedIs` says which
commands an application makes. `CommandsInv`: for each command in the queue, old
ones from refused applications included, there is a reason in what is shown
(`Caused`), so that running it a second time, or late, does no harm. `KeptInv`
and `KeptNet`: where nothing is changed in the window, it is what the files,
PglSettings and the rules hold, even after a failure; `FreshInv` and `FreshNet`
say the same of the active values unless an application has failed. While a
script runs, what is changed is in the files already or its command is still to
come (the file being what `generatePglcmdConf` makes of the variables, `SetValue`),
and the copies in `/tmp` are the wanted ones or have been moved already
(`ConfInv`, `ListsInv`, `CronInv`, `WayNet`); with nothing to come, everything has
arrived (`Arrived`). A reload is the last command, and so pgld is told of all
lists. Without a cron script every application fails, which is why `Sane` asks
for one. `ButtonInv` has for "no command" that at most the frequency is changed.

### Whitelist

`WhitelistInv`: the list is `load(conf, off)`, perhaps with marks on its
entries, and what was added behind it (`Edits`); no two of its entries are
`Alike`, of the same rule and comparable (`Distinct`), and none is the same as
one before it (`Separate`). That the code's sameness, which is not symmetric, is
fine enough is `SameRule`: an entry that is alike to an item is the same as the
item (two regular words of one number are aliases of each other, `SameNumber`),
so `addItem` and `addOrEnable` never put a second one behind it. `undo` gives
back what was loaded (`UndoesEdits`), and a list without marks has nothing
behind it. The operators are folds over sequences, some over other folds. The
library's induction theorems cannot be used for them; `FoldExists` and
`FoldTrace` give instead the sequence of values a fold goes through, by counting
(`Counting`, which is about a set of numbers), and each fold of the model has a
lemma that says so.

`WantedIsOn` needs more, `WantedInv`: while nothing is edited by hand, no value in
a variable of `pglcmd.conf` is the same as a later one of it (`Clean`), and for
each exception asked for an entry that is on lets it through (`StillOn`).

1. `InitClean`, `LoadHolds`: the files written by pglgui show all they hold, so
   `pglcmd.conf` is clean; and what is read from a clean one is exactly its values,
   before all that comes from `pglgui.conf` (`Held`). Editing keeps that
   (`EditsHeld`).
2. `Written`: an application goes through the entries in order. After each one the
   variables are still clean and hold what is on of the entries seen and what was
   on of the others (`WrittenUpTo`). The order counts: a value that is put in again
   comes last, behind the values it must not cover, and an entry with the value of
   one that is off can only be an exception from the log, behind it (`Twins`).
3. `EnablesOn`: after the dialog each item that it had nothing to object to is
   the same as an entry that is on, and for an address, a single port or a name
   of one port the same means let through (`SinglePasses`); `TakenBackOn` is
   about the entries that go.

`OffStaysOff` follows from the same: after an application each value in
`pglcmd.conf` is that of an entry that is on, and no other entry is alike to it
(`OffGone`). For what was removed, edited by hand or not, `TakenStaysOut` follows
both files from the removed entry on: nothing that comes later has its value, so
neither file has it, and what is read was filed (`LoadFiled`).

### What is only model-checked

- Every liveness property (`Terminates`, `LoadEnds`, `HupTakesEffect`, `TermEnds`,
  `StartServes`, `DogRepairs`): the prover has no rules for fairness and ENABLED.

## 12. Where code and documentation disagree

- `pgld_hup`, `HitsLiveEntry`: a HUP after `blocklist_find` and before
  `found_range->hits++` (`pgld/src/pgld.c:400`) frees the entry under
  `nfqueue_cb`.
- `master_failing`, `TrustedIsCurrent`: `build_blocklist` removes the sum "so that
  if anything goes wrong, it's clear we have to rebuild", restores the old list
  after a failed merge, and then saves a sum (`pglcmd/pglcmd.lib:2490`) of it
  and of the new settings all the same. The next start takes it for current.
- `master_two`, `LoadedIsCurrent`: a start during an update saves its sum after
  the update has removed it; the update's `do_reload` then skips the rebuild. The
  property asks only when the update is through and no command is under way.
- `life_stop`, `StopLasts`: stop kills the watchdog but neither the restart that
  this one has under way nor a watchdog that has not written its pidfile yet.

Other disagreements have no run of their own. The modules have them, and a property
exempts each by name; without the exemption TLC finds it violated.

- `SearchesWholeList`, `list.torn`: a daemon that was sent a HUP is to "reload the
  blocklist" (`docs/pgld.1:184`). But the handlers are installed before the first
  load (`pgld/src/pgld.c:725`). A HUP that is delivered during main's merge loads
  the whole list; main then goes on with its own counts over it, cuts off ranges
  that nothing else in it covers (`pgld/src/blocklist.c:182`), and serves what is
  left.
- `DeathIsNoticed` and `LoadedUnlessFailed`, `Sound`: `update_blocklists` removes the
  sum "so that if anything goes wrong, it's clear we have to rebuild"
  (`pglcmd/pglcmd.lib:2276`). But a `cp -f --preserve=timestamps` that is cut off
  (2148) leaves part of a download with a new time, which the next update keeps
  (2147), and a `sed` that is cut off leaves part of an extracted remote list,
  which every start takes (2378). The rebuild merges what is there and saves a sum
  that later starts trust.
- `JumpsRecorded` and `ReleasesTraffic`, `lost`: the rules are to be deleted "in any
  case" (`pglcmd/pglcmd.lib:1422`), and errors of the remove script are "no problem
  for us" (1400). But a command of it may fail for another reason than that its
  rule is gone; the script is removed all the same (1427), the rule stays, and no
  file says how to remove it.
- `ReleasesTraffic`, "exited": "Remove iptables again, since starting failed"
  (`pglcmd/pglcmd.lib:1867`) is what a `pgld` that does not start leads to. A bad
  `NICE_LEVEL` exits before (1851) and leaves the active chains with a queue that
  nobody listens to, until the next stop.
- `AppliedIsFiled`, `disk.hidden`: "assume changes will be applied, if not this
  button will be enabled afterwards" (`pglgui/src/pglgui.cpp:626`). With
  `CRON_MAILTO=` and no `CRON=` in `pglcmd.conf`, `setValueInData`
  (`pglgui/src/utils.cpp:311`) finds the name, changes nothing and adds nothing: all
  commands succeed and CRON is not filed.
- `ListOK` and `OffStaysOff`, `Comparable`: "the port number can be consider an alias
  too" (`pglgui/src/port.cpp:32`). But 080 is not the alias 80, and `toInt`
  (`whitelist_item.cpp:60`) makes nothing of http: they are two lines for one rule,
  and switching either off leaves it in.

## 13. What is not modelled

- The D-Bus plugin: it sends messages and has no state of its own but a
  connection.
- Option parsing, character sets, the formats of a line, log texts, statistics.
- Of `pglcmd`: the mails, checks and statistics, which only read state, and the
  filters between the lists and `pgld -m`.
- The init, cron and NetworkManager scripts, which only call `pglcmd`:
  `LogRotate` of `MasterList` and the administrators of `Lifecycle` stand for
  these callers. Debian packaging.
- Of the GUI: the log view, the tray icon, the search for a sudo program, the
  settings of the windows, and everything about the looks of widgets. The dialog
  for blocklists only passes a path or URL on; `Gui` has its effect.
