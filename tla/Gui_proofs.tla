------------------------------ MODULE Gui_proofs ------------------------------
(***************************************************************************)
(* Proofs about Gui for any whitelist items and blocklists, any length of  *)
(* the queue of commands, and all circumstances at once: what was applied  *)
(* is in the files and in the rules, and the button tells what is left.    *)
(***************************************************************************)
EXTENDS Gui, FiniteSetTheorems, SequenceTheorems, TLAPS

USE GuiAssumption

-----------------------------------------------------------------------------
(* The types *)

Places == Times \cup {"none"}

(* What an entry can be: one that was not there before cannot be removed.    *)
EntryStates ==
  {x \in [was : States, now : States, removed : BOOLEAN] :
     /\ x.now = "absent" => x = Absent
     /\ x.removed => x.was # "absent"}

Options ==
  [boot : [was : BOOLEAN, now : BOOLEAN],
   auto : [was : BOOLEAN, now : BOOLEAN],
   freq : [was : Places, now : Places]]

Disks ==
  [conf : Confs, lists : [Lists -> States], place : Places,
   tmpconf : Confs \cup {None}, tmplists : [Lists \ Local -> States] \cup {None},
   links : SUBSET Local, hidden : SUBSET {"boot", "auto"}]

Nets == [daemon : BOOLEAN, seen : BOOLEAN, rules : SUBSET Items, served : SUBSET Lists]

MvConf == Do("mv", "pglcmd.conf", "")
MvLists == Do("mv", "blocklists.list", "")
Reload == Do("reload", "", "")

(* The commands that a script can have. *)
Commands ==
  [do : {"iptables"}, on : Items, how : {"-I", "-D"}]
    \cup [do : {"link"}, on : Local, how : {"on"}]
    \cup [do : {"rm"}, on : Local, how : {"absent"}]
    \cup [do : {"rename"}, on : Local, how : {"on", "off"}]
    \cup [do : {"mvcron"}, on : Places, how : Places]
    \cup {MvConf, MvLists, Reload}

QueueOK ==
  /\ thread \in {"idle", "started", "running", "done"}
  /\ sudo \in BOOLEAN /\ ok \in BOOLEAN
  /\ commands \in Seq(Commands) /\ todo \in Seq(Commands)
  /\ thread \in {"idle", "done"} => todo = <<>>
  /\ thread \in {"started", "running"} => ok

WindowOK ==
  /\ entry \in [Entries -> EntryStates] /\ option \in Options
  /\ radio \in Places /\ button \in BOOLEAN

WorldOK ==
  /\ may \in Circumstances
  /\ disk \in Disks /\ settings \in Confs /\ disabled \subseteq Items
  /\ net \in Nets
  /\ ~net.daemon => net.rules = {} /\ net.served = {}

HistoryOK ==
  /\ logged \subseteq Items /\ temp \subseteq Items
  /\ result \in {"none", "applied", "failed"} /\ torn \in BOOLEAN

TypeInv == QueueOK /\ WindowOK /\ WorldOK /\ HistoryOK

-----------------------------------------------------------------------------
(* The inductive invariants *)

(* Applying would take no command: at most the frequency is changed. *)
Quiet ==
  /\ radio # "none" /\ disk.place = radio
  /\ ~hasToUpdatePglcmdConf(entry) /\ ~hasToReloadBlocklists(entry)

ButtonInv ==
  Idle /\ "full" \notin may => /\ button => Changed
                               /\ Changed => button \/ Quiet

(* What the settings, pglcmd.conf and the lists are after an application. *)
WantedConf ==
  [white |-> {i \in Items : On(entry, i)}, boot |-> option.boot.now, auto |-> option.auto.now]

FileConf == generatePglcmdConf(WantedConf)

Wanted(l) ==
  IF On(entry, l) \/ (l \in Local /\ isAdded(entry[l])) THEN "on"
  ELSE IF Off(entry, l) THEN "off" ELSE "absent"

WantedLists == [l \in Lists \ Local |-> Wanted(l)]

(* What is shown is the reason for each command that is queued. *)
Caused(c) ==
  /\ c = MvConf => hasToUpdatePglcmdConf(entry)
  /\ c = MvLists => hasToUpdateBlocklistsFile(entry)
  /\ c.do \in {"link", "rm", "rename"} => isChanged(entry[c.on]) /\ c.how = Wanted(c.on)
  /\ c.do = "mvcron" => c.how = radio
  /\ c.do = "iptables" /\ c.how = "-I" => On(entry, c.on) \/ c.on \in temp \/ "daemon" \in may
  /\ c.do = "iptables" /\ c.how = "-D" => ~On(entry, c.on) /\ isChanged(entry[c.on])

CommandsInv ==
  /\ Range(todo) \subseteq Range(commands)
  /\ Idle /\ commands # <<>> => result = "failed"
  /\ ~Idle => result = "none"
  /\ ~torn => \A c \in Range(commands) : Caused(c)

(* Where nothing is changed, the window is what the files hold.  A local     *)
(* list may have been dealt with already.                                    *)
ItemKept(i) ==
  /\ On(entry, i) <=> i \in settings.white
  /\ On(entry, i) <=> i \in disk.conf.white
  /\ Off(entry, i) <=> i \in disabled

KeptInv ==
  /\ \A i \in Items : ~isChanged(entry[i]) => ItemKept(i)
  /\ \A l \in Lists : ~isChanged(entry[l]) => disk.lists[l] = entry[l].now
  /\ \A l \in Local : disk.lists[l] \in {entry[l].was, Wanted(l)}
  /\ ~OptionChanged("boot") => /\ option.boot.now = settings.boot
                            /\ disk.conf.boot = setValueInData("boot", option.boot.now)
  /\ ~OptionChanged("auto") => /\ option.auto.now = settings.auto
                            /\ disk.conf.auto = setValueInData("auto", option.auto.now)

(* Unless an application has failed, what is active is what the files hold.  *)
FreshInv ==
  /\ \A i \in Items : /\ entry[i].was = "on" <=> i \in settings.white
                      /\ entry[i].was = "on" <=> i \in disk.conf.white
                      /\ entry[i].was = "off" <=> i \in disabled
  /\ \A l \in Lists : disk.lists[l] = entry[l].was
  /\ option.boot.was = settings.boot /\ disk.conf.boot = setValueInData("boot", option.boot.was)
  /\ option.auto.was = settings.auto /\ disk.conf.auto = setValueInData("auto", option.auto.was)

(* While a script runs, what is not in the files yet is still to come.       *)
ConfInv ==
  hasToUpdatePglcmdConf(entry) =>
    /\ settings = WantedConf
    /\ disk.conf = FileConf \/ MvConf \in Range(todo)
    /\ MvConf \in Range(todo) => disk.tmpconf \in {FileConf, None}

ListsInv ==
  /\ hasToUpdateBlocklistsFile(entry) =>
       /\ (\A l \in Lists \ Local : disk.lists[l] = Wanted(l)) \/ MvLists \in Range(todo)
       /\ MvLists \in Range(todo) => disk.tmplists \in {WantedLists, None}
  /\ \A l \in Local : isChanged(entry[l]) =>
       disk.lists[l] = Wanted(l) \/ manageLocal(entry, l) \in Range(todo)

CronInv ==
  \/ disk.place = radio /\ radio # "none"
  \/ \E c \in Range(todo) : c.do = "mvcron"

(* The files hold what was asked for. *)
Filed ==
  LET of(state) == {l \in Lists : disk.lists[l] = state} IN
  /\ disk.conf.white = asked.on \cap Items
  /\ "boot" \notin disk.hidden => disk.conf.boot = asked.boot
  /\ "auto" \notin disk.hidden => disk.conf.auto = asked.auto
  /\ disabled = asked.off \cap Items
  /\ of("on") \ asked.odd = asked.on \cap Lists
  /\ of("off") \ asked.odd = (asked.off \cap Lists) \ asked.odd
  /\ disk.place = asked.radio

(* The frequency that is shown is that of the files, and nothing was edited  *)
(* after a failure.                                                          *)
Sane == ~torn /\ disk.place # "none"

Running == ~torn /\ ~Idle

FileInv ==
  /\ Sane => KeptInv
  /\ Sane /\ Idle /\ result # "failed" => FreshInv
  /\ Running /\ asked = None => ~Changed
  /\ Running /\ ok /\ asked # None => asked = Shown(entry) /\ CronInv
  /\ Running /\ ok /\ asked # None /\ disk.place # "none" => ConfInv /\ ListsInv
  /\ ~torn /\ result = "applied" => Filed

(* What iptables and pgld have, as long as nobody starts or stops it. *)
RuleFor(i, on) ==
  /\ on => i \in net.rules
  /\ ~on /\ i \in net.rules => i \in temp \cup Incoming

ServedNow == net.served = Served(disk.lists)

KeptNet ==
  /\ \A i \in Items : ~isChanged(entry[i]) => RuleFor(i, On(entry, i))
  /\ hasToReloadBlocklists(entry) \/ ServedNow

FreshNet ==
  /\ \A i \in Items : RuleFor(i, entry[i].was = "on")
  /\ ServedNow

WayNet ==
  /\ \A i \in Items : isChanged(entry[i]) =>
       \/ RuleFor(i, On(entry, i))
       \/ Do("iptables", i, IF On(entry, i) THEN "-I" ELSE "-D") \in Range(todo)
  /\ hasToReloadBlocklists(entry) /\ todo # <<>> => todo[Len(todo)] = Reload
  /\ ServedNow \/ (hasToReloadBlocklists(entry) /\ todo # <<>>)

AppliedNet ==
  /\ \A i \in Items : RuleFor(i, i \in disk.conf.white)
  /\ ServedNow

NetInv ==
  "daemon" \notin may =>
    /\ net.seen = net.daemon
    /\ net.daemon =>
       /\ Sane => KeptNet
       /\ Sane /\ Idle /\ result # "failed" => FreshNet
       /\ Running /\ ok /\ asked # None /\ disk.place # "none" => WayNet
       /\ ~torn /\ result = "applied" => AppliedNet

IInv == TypeInv /\ ButtonInv /\ CommandsInv /\ FileInv /\ NetInv

-----------------------------------------------------------------------------
(* Facts about the data *)

(* What is in a sequence is at some place of it. *)
LEMMA InRange ==
  ASSUME NEW S, NEW t \in Seq(S)
  PROVE  /\ Len(t) \in Nat
         /\ Range(t) \subseteq S
         /\ \A x : x \in Range(t) <=> \E n \in 1 .. Len(t) : x = t[n]
         /\ t = <<>> <=> Range(t) = {}
<1>1. Range(t) = {t[n] : n \in 1 .. Len(t)} /\ Range(t) \in SUBSET S
  BY RangeEquality, RangeOfSeq
<1>2. Len(t) \in Nat /\ (t = <<>> <=> Len(t) = 0)
  BY EmptySeq, LenProperties
<1>3. t # <<>> => t[1] \in Range(t)
  BY <1>1, <1>2
<1> QED
  BY <1>1, <1>2, <1>3

(* A sequence that is not empty is its head and its tail, which ends alike. *)
LEMMA TailFacts ==
  ASSUME NEW S, NEW t \in Seq(S), t # <<>>
  PROVE  /\ Head(t) \in Range(t) /\ Head(t) \in S
         /\ Tail(t) \in Seq(S)
         /\ \A x : x \in Range(t) <=> x = Head(t) \/ x \in Range(Tail(t))
         /\ Tail(t) = <<>> => t[Len(t)] = Head(t)
         /\ Tail(t) # <<>> => Tail(t)[Len(Tail(t))] = t[Len(t)]
<1> DEFINE s == Tail(t)
           k == Len(t)
<1>1. /\ Head(t) = t[1] /\ t[1] \in S
      /\ k \in Nat \ {0}
      /\ s \in Seq(S) /\ Len(s) = k - 1
      /\ \A n \in 1 .. k - 1 : s[n] = t[n + 1]
  BY HeadTailProperties, EmptySeq, LenProperties
<1>2. \A x : x \in Range(t) <=> \E n \in 1 .. k : x = t[n]
  BY InRange
<1> HIDE DEF s, k
<1>3. /\ \A x : x \in Range(s) <=> \E n \in 1 .. k - 1 : x = s[n]
      /\ s = <<>> <=> k - 1 = 0
  BY <1>1, InRange, EmptySeq
<1>4. ASSUME NEW x \in Range(t), x # t[1] PROVE x \in Range(s)
  <2>1. PICK n \in 1 .. k : x = t[n]
    BY <1>2
  <2>2. n - 1 \in 1 .. k - 1 /\ (n - 1) + 1 = n
    BY <1>1, <1>4, <2>1
  <2>3. s[n - 1] = t[n]
    BY <1>1, <2>2
  <2> QED
    BY <1>3, <2>1, <2>2, <2>3
<1>5. ASSUME NEW x \in Range(s) PROVE x \in Range(t)
  <2>1. PICK n \in 1 .. k - 1 : x = s[n]
    BY <1>3
  <2>2. n + 1 \in 1 .. k /\ x = t[n + 1]
    BY <1>1, <2>1
  <2> QED
    BY <1>2, <2>2
<1>6. t[1] \in Range(t)
  BY <1>1, <1>2
<1>7. /\ s = <<>> => t[k] = t[1]
      /\ s # <<>> => s[k - 1] = t[k]
  BY <1>1, <1>3
<1> QED
  BY <1>1, <1>4, <1>5, <1>6, <1>7 DEF s, k

(* Two sequences one after the other. *)
LEMMA Concatenated ==
  ASSUME NEW S, NEW s \in Seq(S), NEW t \in Seq(S)
  PROVE  /\ s \o t \in Seq(S)
         /\ \A x : x \in Range(s \o t) <=> x \in Range(s) \/ x \in Range(t)
         /\ t # <<>> => /\ s \o t # <<>>
                        /\ (s \o t)[Len(s \o t)] = t[Len(t)]
         /\ s \o t = <<>> => s = <<>> /\ t = <<>>
<1>1. /\ s \o t \in Seq(S) /\ Len(s) \in Nat /\ Len(t) \in Nat
      /\ Len(s \o t) = Len(s) + Len(t)
      /\ \A n \in 1 .. Len(s) + Len(t) :
           (s \o t)[n] = IF n <= Len(s) THEN s[n] ELSE t[n - Len(s)]
  BY ConcatProperties, LenProperties
<1>2. \A x : x \in Range(s \o t) <=> x \in Range(s) \/ x \in Range(t)
  BY RangeConcatenation
<1>3. /\ s = <<>> <=> Len(s) = 0
      /\ t = <<>> <=> Len(t) = 0
      /\ s \o t = <<>> <=> Len(s) + Len(t) = 0
  BY <1>1, EmptySeq
<1> QED
  BY <1>1, <1>2, <1>3

(* Commands that are only given on a condition. *)
LEMMA IfFacts ==
  ASSUME NEW S, NEW t \in Seq(S), NEW condition \in BOOLEAN
  PROVE  /\ If(condition, t) \in Seq(S)
         /\ \A x : x \in Range(If(condition, t)) <=> condition /\ x \in Range(t)
<1>1. <<>> \in Seq(S)
  BY EmptySeq
<1>2. Range(<<>>) = {}
  BY <1>1, InRange
<1> QED
  BY <1>1, <1>2 DEF If

LEMMA Single ==
  ASSUME NEW S, NEW c \in S
  PROVE  /\ <<c>> \in Seq(S) /\ <<c>> # <<>>
         /\ <<c>>[Len(<<c>>)] = c
         /\ \A x : x \in Range(<<c>>) <=> x = c
<1>1. <<c>> \in Seq(S) /\ Len(<<c>>) = 1 /\ <<c>>[1] = c /\ <<c>> # <<>>
  OBVIOUS
<1> DEFINE t == <<c>>
<1> HIDE DEF t
<1>2. \A x : x \in Range(t) <=> \E n \in 1 .. 1 : x = t[n]
  BY <1>1, InRange DEF t
<1> QED
  BY <1>1, <1>2 DEF t

(* SetToSeq has every element of a finite set. *)
LEMMA SetToSeqIs ==
  ASSUME NEW S, IsFiniteSet(S)
  PROVE  /\ Cardinality(S) \in Nat
         /\ SetToSeq(S) \in [1 .. Cardinality(S) -> S]
         /\ \A x \in S : \E n \in 1 .. Cardinality(S) : SetToSeq(S)[n] = x
<1> DEFINE k == Cardinality(S)
           f == SetToSeq(S)
<1>1. k \in Nat /\ ExistsBijection(1 .. k, S)
  BY FS_CardinalityType
<1>2. PICK g : g \in Bijection(1 .. k, S)
  BY <1>1 DEF ExistsBijection
<1>3. g \in [1 .. k -> S] /\ IsInjective(g)
  BY <1>2 DEF Bijection, Injection, IsInjective
<1>4. f \in [1 .. k -> S] /\ IsInjective(f)
  BY <1>3 DEF SetToSeq
<1>5. ASSUME NEW x \in S, \A n \in 1 .. k : f[n] # x PROVE FALSE
  <2>1. IsFiniteSet(S \ {x}) /\ Cardinality(S \ {x}) = k - 1
    BY FS_RemoveElement
  <2>2. IsFiniteSet(1 .. k) /\ Cardinality(1 .. k) = k
    BY <1>1, FS_Interval
  <2>3. f \in [1 .. k -> S \ {x}]
    BY <1>4, <1>5
  <2> HIDE DEF f, k
  <2>4. k - 1 < k
    BY <1>1
  <2>5. \E m, n \in 1 .. k : m # n /\ f[m] = f[n]
    <3> DEFINE A == 1 .. k
               B == S \ {x}
    <3>1. /\ IsFiniteSet(A) /\ IsFiniteSet(B) /\ f \in [A -> B]
          /\ Cardinality(B) < Cardinality(A)
      BY <2>1, <2>2, <2>3, <2>4
    <3> HIDE DEF A, B
    <3>2. \E m, n \in A : m # n /\ f[m] = f[n]
      BY <3>1, FS_PigeonHole
    <3> QED
      BY <3>2 DEF A
  <2> QED
    BY <1>4, <2>5 DEF IsInjective
<1> QED
  BY <1>1, <1>4, <1>5

LEMMA ForAllIs ==
  ASSUME NEW set, IsFiniteSet(set), NEW command, \A x \in set : command[x] \in Commands
  PROVE  /\ ForAll(set, command) \in Seq(Commands)
         /\ \A c : c \in Range(ForAll(set, command)) <=> \E x \in set : c = command[x]
<1> DEFINE t == ForAll(set, command)
           k == Cardinality(set)
<1>1. /\ k \in Nat /\ SetToSeq(set) \in [1 .. k -> set]
      /\ \A x \in set : \E n \in 1 .. k : SetToSeq(set)[n] = x
  BY SetToSeqIs
<1>2. t = [n \in 1 .. k |-> command[SetToSeq(set)[n]]]
  BY DEF ForAll
<1> HIDE DEF k
<1>3. t \in [1 .. k -> Commands]
  BY <1>1, <1>2
<1>4. t \in Seq(Commands) /\ Len(t) = k
  BY <1>1, <1>3, SeqDef, LenProperties
<1> HIDE DEF t
<1>5. \A c : c \in Range(t) <=> \E n \in 1 .. k : c = t[n]
  BY <1>4, InRange
<1>6. \A n \in 1 .. k : t[n] = command[SetToSeq(set)[n]]
  BY <1>2
<1>7. \A c : c \in Range(t) <=> \E x \in set : c = command[x]
  BY <1>1, <1>5, <1>6
<1> QED
  BY <1>4, <1>7 DEF t

-----------------------------------------------------------------------------
(* The commands of an application *)

(* What there is in the commands made of the entries x. *)
RuleOrdered(x, c) ==
  \E i \in WhitelistChanges(x) : c = Do("iptables", i, IF On(x, i) THEN "-I" ELSE "-D")

LocalOrdered(x, c) == \E l \in LocalChanges(x) : c = manageLocal(x, l)

Ordered(x, c) ==
  \/ net.seen /\ RuleOrdered(x, c)
  \/ hasToUpdatePglcmdConf(x) /\ c = MvConf
  \/ hasToUpdateBlocklistsFile(x) /\ c = MvLists
  \/ LocalOrdered(x, c)
  \/ (radio = "none" \/ disk.place # radio) /\ c = Do("mvcron", disk.place, radio)
  \/ hasToReloadBlocklists(x) /\ c = Reload

(* The commands for the rules. *)
LEMMA RuleCommands ==
  ASSUME NEW x \in [Entries -> EntryStates]
  PROVE  /\ generateIptablesCommands(x) \in Seq(Commands)
         /\ \A c : c \in Range(generateIptablesCommands(x)) <=> RuleOrdered(x, c)
<1> DEFINE W == WhitelistChanges(x)
           allows == [i \in Items |-> On(x, i)]
           command == [i \in W |-> Do("iptables", i, IF allows[i] THEN "-I" ELSE "-D")]
<1>1. W \subseteq Items /\ IsFiniteSet(W)
  BY FS_Subset DEF WhitelistChanges
<1>2. \A i \in W : command[i] = Do("iptables", i, IF On(x, i) THEN "-I" ELSE "-D")
  BY <1>1
<1>5. \A i \in W : command[i] \in Commands
  BY <1>1 DEF Commands, Do
<1>3. generateIptablesCommands(x) = ForAll(W, command)
  BY DEF generateIptablesCommands, getCommands
<1> HIDE DEF W, command
<1>4. /\ ForAll(W, command) \in Seq(Commands)
      /\ \A c : c \in Range(ForAll(W, command)) <=> \E i \in W : c = command[i]
  BY <1>1, <1>5, ForAllIs
<1> QED
  BY <1>2, <1>3, <1>4 DEF RuleOrdered, W

(* A command for a local list. *)
LEMMA LocalCommand ==
  ASSUME NEW x \in [Entries -> EntryStates], NEW l \in Local, isChanged(x[l])
  PROVE  /\ manageLocal(x, l) \in Commands
         /\ manageLocal(x, l).on = l
         /\ manageLocal(x, l).do \in {"link", "rm", "rename"}
         /\ manageLocal(x, l).how = IF On(x, l) \/ isAdded(x[l]) THEN "on"
                                    ELSE IF Off(x, l) THEN "off" ELSE "absent"
<1>1. l \in Entries /\ x[l] \in EntryStates
  BY DEF Entries
<1>2. x[l].now \in {"on", "off"}
  BY <1>1 DEF EntryStates, isChanged, Absent, States
<1>3. CASE isAdded(x[l])
  <2>1. manageLocal(x, l) = Do("link", l, "on")
    BY <1>1, <1>3 DEF manageLocal, isAdded, EntryStates
  <2> QED
    BY <1>3, <2>1 DEF Commands, Do
<1>4. CASE ~isAdded(x[l]) /\ x[l].removed
  BY <1>4 DEF manageLocal, Commands, Do, On, Off
<1>5. CASE ~isAdded(x[l]) /\ ~x[l].removed
  <2>1. manageLocal(x, l) = Do("rename", l, x[l].now)
    BY <1>5 DEF manageLocal
  <2> QED
    BY <1>2, <1>5, <2>1 DEF Commands, Do, On, Off
<1> QED
  BY <1>1, <1>3, <1>4, <1>5 DEF EntryStates

LEMMA LocalCommands ==
  ASSUME NEW x \in [Entries -> EntryStates]
  PROVE  LET command == [l \in LocalChanges(x) |-> manageLocal(x, l)] IN
         /\ ForAll(LocalChanges(x), command) \in Seq(Commands)
         /\ \A c : c \in Range(ForAll(LocalChanges(x), command)) <=> LocalOrdered(x, c)
<1> DEFINE W == LocalChanges(x)
           command == [l \in W |-> manageLocal(x, l)]
<1>1. W \subseteq Lists /\ IsFiniteSet(W)
  BY FS_Subset DEF LocalChanges
<1>2. \A l \in W : command[l] = manageLocal(x, l)
  OBVIOUS
<1>5. \A l \in W : command[l] \in Commands
  BY LocalCommand DEF LocalChanges
<1> HIDE DEF W, command
<1>3. /\ ForAll(W, command) \in Seq(Commands)
      /\ \A c : c \in Range(ForAll(W, command)) <=> \E l \in W : c = command[l]
  BY <1>1, <1>5, ForAllIs
<1>4. \A c : c \in Range(ForAll(W, command)) <=> LocalOrdered(x, c)
  BY <1>2, <1>3 DEF LocalOrdered, W
<1> QED
  BY <1>3, <1>4 DEF W, command

(* All of them, in the order of applyChanges; the reload is the last one. *)
LEMMA GeneratedIs ==
  ASSUME NEW x \in [Entries -> EntryStates], TypeInv
  PROVE  /\ Generated(x) \in Seq(Commands)
         /\ \A c : c \in Range(Generated(x)) <=> Ordered(x, c)
         /\ hasToReloadBlocklists(x) =>
              Generated(x) # <<>> /\ Generated(x)[Len(Generated(x))] = Reload
<1> DEFINE command == [l \in LocalChanges(x) |-> manageLocal(x, l)]
           cron == Do("mvcron", disk.place, radio)
           s1 == If(net.seen, generateIptablesCommands(x))
           s2 == If(hasToUpdatePglcmdConf(x), <<MvConf>>)
           s3 == If(hasToUpdateBlocklistsFile(x), <<MvLists>>)
           s4 == ForAll(LocalChanges(x), command)
           s5 == updateFrequency
           s6 == If(hasToReloadBlocklists(x), <<Reload>>)
<1>0. /\ net.seen \in BOOLEAN /\ disk.place \in Places /\ radio \in Places
      /\ hasToUpdatePglcmdConf(x) \in BOOLEAN
      /\ hasToUpdateBlocklistsFile(x) \in BOOLEAN
      /\ hasToReloadBlocklists(x) \in BOOLEAN
  BY DEF TypeInv, WorldOK, WindowOK, Nets, Disks, hasToUpdatePglcmdConf,
         hasToUpdateBlocklistsFile, hasToReloadBlocklists
<1>1. MvConf \in Commands /\ MvLists \in Commands /\ Reload \in Commands /\ cron \in Commands
  BY <1>0 DEF Commands, Do
<1> HIDE DEF command, cron
<1>2. /\ s1 \in Seq(Commands)
      /\ \A c : c \in Range(s1) <=> net.seen /\ RuleOrdered(x, c)
  BY <1>0, RuleCommands, IfFacts
<1>3. /\ s2 \in Seq(Commands)
      /\ \A c : c \in Range(s2) <=> hasToUpdatePglcmdConf(x) /\ c = MvConf
  BY <1>0, <1>1, Single, IfFacts
<1>4. /\ s3 \in Seq(Commands)
      /\ \A c : c \in Range(s3) <=> hasToUpdateBlocklistsFile(x) /\ c = MvLists
  BY <1>0, <1>1, Single, IfFacts
<1>5. /\ s4 \in Seq(Commands)
      /\ \A c : c \in Range(s4) <=> LocalOrdered(x, c)
  BY LocalCommands DEF command
<1>6. /\ s5 \in Seq(Commands)
      /\ \A c : c \in Range(s5) <=> (radio = "none" \/ disk.place # radio) /\ c = cron
  <2> DEFINE moves == radio = "none" \/ disk.place # radio
  <2>1. moves \in BOOLEAN /\ s5 = If(moves, <<cron>>)
    BY DEF updateFrequency, cron
  <2> HIDE DEF moves
  <2>2. If(moves, <<cron>>) \in Seq(Commands)
        /\ \A c : c \in Range(If(moves, <<cron>>)) <=> moves /\ c = cron
    BY <1>1, <2>1, Single, IfFacts
  <2> QED
    BY <2>1, <2>2 DEF moves
<1>7. /\ s6 \in Seq(Commands)
      /\ \A c : c \in Range(s6) <=> hasToReloadBlocklists(x) /\ c = Reload
      /\ hasToReloadBlocklists(x) => s6 # <<>> /\ s6[Len(s6)] = Reload
  <2>1. hasToReloadBlocklists(x) => s6 = <<Reload>>
    BY DEF If
  <2> QED
    BY <1>0, <1>1, <2>1, Single, IfFacts
<1>8. Generated(x) = ((((s1 \o s2) \o s3) \o s4) \o s5) \o s6
  BY DEF Generated, command, MvConf, MvLists, Reload
<1> HIDE DEF s1, s2, s3, s4, s5, s6
<1> DEFINE t2 == s1 \o s2
           t3 == t2 \o s3
           t4 == t3 \o s4
           s == t4 \o s5
<1>9. /\ t2 \in Seq(Commands)
      /\ \A c : c \in Range(t2) <=> c \in Range(s1) \/ c \in Range(s2)
  BY <1>2, <1>3, Concatenated
<1> HIDE DEF t2
<1>10. /\ t3 \in Seq(Commands)
       /\ \A c : c \in Range(t3) <=> c \in Range(t2) \/ c \in Range(s3)
  BY <1>9, <1>4, Concatenated
<1> HIDE DEF t3
<1>11. /\ t4 \in Seq(Commands)
       /\ \A c : c \in Range(t4) <=> c \in Range(t3) \/ c \in Range(s4)
  BY <1>10, <1>5, Concatenated
<1> HIDE DEF t4
<1>12. /\ s \in Seq(Commands)
       /\ \A c : c \in Range(s) <=> c \in Range(t4) \/ c \in Range(s5)
  BY <1>11, <1>6, Concatenated
<1> HIDE DEF s
<1>13. /\ s \o s6 \in Seq(Commands)
       /\ \A c : c \in Range(s \o s6) <=> c \in Range(s) \/ c \in Range(s6)
       /\ s6 # <<>> => s \o s6 # <<>> /\ (s \o s6)[Len(s \o s6)] = s6[Len(s6)]
  BY <1>12, <1>7, Concatenated
<1>14. Generated(x) = s \o s6
  BY <1>8 DEF s, t4, t3, t2
<1>15. \A c : c \in Range(s \o s6) <=> Ordered(x, c)
  BY <1>2, <1>3, <1>4, <1>5, <1>6, <1>7, <1>9, <1>10, <1>11, <1>12, <1>13 DEF Ordered, cron
<1> QED
  BY <1>7, <1>13, <1>14, <1>15

-----------------------------------------------------------------------------
(* The types *)

(* What the operations make of an entry. *)
LEMMA EntryTypes ==
  /\ Absent \in EntryStates /\ Added \in EntryStates
  /\ \A state \in States : Loaded(state) \in EntryStates
  /\ \A x \in EntryStates :
       /\ x.now = "absent" <=> x = Absent
       /\ Undone(x) \in EntryStates
       /\ x # Absent => /\ [x EXCEPT !.now = "on", !.removed = FALSE] \in EntryStates
                        /\ Removed(x) \in EntryStates
                        /\ ~x.removed => [x EXCEPT !.now = "on"] \in EntryStates
                                         /\ [x EXCEPT !.now = "off"] \in EntryStates
<1>1. Absent \in EntryStates /\ Added \in EntryStates
  BY DEF EntryStates, Absent, Added, States
<1>2. \A state \in States : Loaded(state) \in EntryStates
  BY <1>1 DEF EntryStates, Loaded, Absent, States
<1>3. ASSUME NEW x \in EntryStates
      PROVE  /\ x.now = "absent" <=> x = Absent
             /\ Undone(x) \in EntryStates
  BY <1>2 DEF EntryStates, Absent, Undone
<1>4. ASSUME NEW x \in EntryStates, x # Absent
      PROVE  /\ [x EXCEPT !.now = "on", !.removed = FALSE] \in EntryStates
             /\ Removed(x) \in EntryStates
             /\ ~x.removed => [x EXCEPT !.now = "on"] \in EntryStates
                              /\ [x EXCEPT !.now = "off"] \in EntryStates
  BY <1>1, <1>4 DEF EntryStates, Removed, States
<1> QED
  BY <1>1, <1>2, <1>3, <1>4

(* An entry is replaced. *)
LEMMA EntryReplaced ==
  ASSUME entry \in [Entries -> EntryStates], NEW e \in Entries, NEW x \in EntryStates
  PROVE  [entry EXCEPT ![e] = x] \in [Entries -> EntryStates]
OBVIOUS

LEMMA OutdateTypes ==
  ASSUME HistoryOK, Outdate, UNCHANGED <<logged, temp>>
  PROVE  HistoryOK'
BY DEF HistoryOK, Outdate

LEMMA ButtonType == Changed \in BOOLEAN /\ Changed' \in BOOLEAN
BY DEF Changed

(* Any edit. *)
LEMMA EditedTypes ==
  ASSUME TypeInv, Edited,
         entry' \in [Entries -> EntryStates], option' \in Options, radio' \in Places
  PROVE  TypeInv'
<1>1. button' \in BOOLEAN
  BY ButtonType DEF Edited
<1>2. QueueOK' /\ WorldOK'
  BY DEF TypeInv, Edited, QueueOK, WorldOK, queueVars
<1>3. HistoryOK'
  BY OutdateTypes DEF TypeInv, Edited
<1> QED
  BY <1>1, <1>2, <1>3 DEF TypeInv, WindowOK

LEMMA AddTypes ==
  ASSUME TypeInv, NEW e \in Entries, Add(e)
  PROVE  TypeInv'
<1>1. entry[e] \in EntryStates /\ option \in Options /\ radio \in Places
      /\ entry \in [Entries -> EntryStates]
  BY DEF TypeInv, WindowOK
<1>2. PICK x \in EntryStates : Edit(e, x)
  BY <1>1, EntryTypes DEF Add
<1> QED
  BY <1>1, <1>2, EditedTypes, EntryReplaced DEF Edit

LEMMA ToggleTypes ==
  ASSUME TypeInv, NEW e \in Entries, Toggle(e)
  PROVE  TypeInv'
<1>1. entry[e] \in EntryStates /\ option \in Options /\ radio \in Places
      /\ entry \in [Entries -> EntryStates]
  BY DEF TypeInv, WindowOK
<1>2. Listed(e) /\ Edit(e, [entry[e] EXCEPT !.now = IF entry[e].now = "on" THEN "off" ELSE "on"])
  BY <1>1 DEF Toggle, EntryStates
<1>3. [entry[e] EXCEPT !.now = IF entry[e].now = "on" THEN "off" ELSE "on"] \in EntryStates
  BY <1>1, <1>2, EntryTypes DEF Listed
<1> QED
  BY <1>1, <1>2, <1>3, EditedTypes, EntryReplaced DEF Edit

LEMMA TakeOutTypes ==
  ASSUME TypeInv, NEW e \in Entries, TakeOut(e)
  PROVE  TypeInv'
<1>1. entry[e] \in EntryStates /\ option \in Options /\ radio \in Places
      /\ entry \in [Entries -> EntryStates]
  BY DEF TypeInv, WindowOK
<1>2. Removed(entry[e]) \in EntryStates /\ Edit(e, Removed(entry[e]))
  BY <1>1, EntryTypes DEF TakeOut, Listed
<1> QED
  BY <1>1, <1>2, EditedTypes, EntryReplaced DEF Edit

LEMMA checkboxTypes ==
  ASSUME TypeInv, NEW o \in {"boot", "auto"}, checkboxChanged(o)
  PROVE  TypeInv'
<1>1. option' \in Options
  BY DEF TypeInv, WindowOK, Options, checkboxChanged
<1> QED
  BY <1>1, EditedTypes DEF TypeInv, WindowOK, checkboxChanged

LEMMA radioTypes ==
  ASSUME TypeInv, NEW t \in Times, updateRadioButtonToggled(t)
  PROVE  TypeInv'
<1>1. option' \in Options /\ radio' \in Places
  BY DEF TypeInv, WindowOK, Options, updateRadioButtonToggled, Places
<1> QED
  BY <1>1, EditedTypes DEF TypeInv, WindowOK, updateRadioButtonToggled

LEMMA undoTypes ==
  ASSUME TypeInv, undoAll
  PROVE  TypeInv'
<1>1. entry' \in [Entries -> EntryStates]
  BY EntryTypes DEF TypeInv, WindowOK, undoAll
<1>2. /\ option \in Options /\ DOMAIN option = {"boot", "auto", "freq"}
      /\ option' = [o \in DOMAIN option |-> UndoneOption(option[o])]
  BY DEF TypeInv, WindowOK, Options, undoAll
<1>3. /\ option' = [o \in {"boot", "auto", "freq"} |-> UndoneOption(option[o])]
      /\ UndoneOption(option.boot) \in [was : BOOLEAN, now : BOOLEAN]
      /\ UndoneOption(option.auto) \in [was : BOOLEAN, now : BOOLEAN]
      /\ UndoneOption(option.freq) \in [was : Places, now : Places]
  BY <1>2 DEF Options, UndoneOption, Active, Value
<1>4. option' \in Options
  BY <1>3 DEF Options
<1>5. radio' \in Places
  BY <1>2 DEF TypeInv, WindowOK, Options, undoAll, Checked
<1>6. QueueOK' /\ WorldOK'
  BY DEF TypeInv, undoAll, QueueOK, WorldOK, queueVars
<1>7. HistoryOK' /\ button' \in BOOLEAN
  BY OutdateTypes DEF TypeInv, undoAll
<1> QED
  BY <1>1, <1>4, <1>5, <1>6, <1>7 DEF TypeInv, WindowOK

(* What Submit does with the queue. *)
LEMMA SubmitTypes ==
  ASSUME QueueOK, NEW added \in Seq(Commands), NEW other \in BOOLEAN, Idle,
         Submit(added, other)
  PROVE  QueueOK' /\ button' \in BOOLEAN /\ result' \in {"none", "failed"}
<1> DEFINE queue == commands \o added
<1>1. queue \in Seq(Commands)
  BY Concatenated DEF QueueOK
<1>2. \/ /\ executeAll(queue)
         /\ button' = IF Refused(queue) THEN Changed' ELSE other
         /\ result' = IF Refused(queue) THEN "failed" ELSE "none"
      \/ executeNothing(queue) /\ button' = other /\ result' = "failed"
  BY DEF Submit
<1> HIDE DEF queue
<1>3. ASSUME executeAll(queue) PROVE QueueOK'
  BY <1>1, <1>3 DEF executeAll, QueueOK, Idle
<1>4. ASSUME executeNothing(queue) PROVE QueueOK'
  BY <1>1, <1>4 DEF executeNothing, QueueOK, Idle
<1> QED
  BY <1>2, <1>3, <1>4, ButtonType

(* The parts of the state that applyChanges makes. *)
LEMMA ConfTypes ==
  ASSUME TypeInv, NEW x \in [Entries -> EntryStates]
  PROVE  /\ storeSettings(x) \in Confs
         /\ \A s \in Confs : generatePglcmdConf(s) \in Confs
         /\ generateBlocklistsFile(x) \in [Lists \ Local -> States]
         /\ {l \in LocalChanges(x) : isAdded(x[l])} \subseteq Local
         /\ None \notin Confs
<1>1. /\ settings.white \subseteq Items /\ settings.boot \in BOOLEAN /\ settings.auto \in BOOLEAN
      /\ option.boot.now \in BOOLEAN /\ option.auto.now \in BOOLEAN
  BY DEF TypeInv, WorldOK, WindowOK, Confs, Options
<1>2. storeSettings(x) \in Confs
  BY <1>1 DEF storeSettings, Confs, updatePglSettings, WhitelistChanges
<1>5. \A s \in Confs : generatePglcmdConf(s) \in Confs
  BY DEF generatePglcmdConf, setValueInData, Confs
<1>3. generateBlocklistsFile(x) \in [Lists \ Local -> States]
  <2>1. \A l \in Lists \ Local :
          (CASE On(x, l) -> "on" [] Off(x, l) -> "off" [] OTHER -> "absent") \in States
    BY DEF On, Off, States
  <2> QED
    BY <2>1 DEF generateBlocklistsFile
<1>4. None \notin Confs
  <2>1. DOMAIN None = {"none"} /\ \A c \in Confs : DOMAIN c = {"white", "boot", "auto"}
    BY DEF None, Confs
  <2> QED
    BY <2>1
<1> QED
  BY <1>2, <1>3, <1>4, <1>5 DEF LocalChanges

LEMMA ApplyTypes ==
  ASSUME TypeInv, NEW x \in [Entries -> EntryStates], Idle, Apply(x), logged' \subseteq Items
  PROVE  TypeInv'
<1>1. Generated(x) \in Seq(Commands)
  BY GeneratedIs
<1>2. QueueOK' /\ button' \in BOOLEAN /\ result' \in {"none", "failed"}
  BY <1>1, SubmitTypes DEF Apply, TypeInv
<1>3. settings' \in Confs
  BY ConfTypes DEF Apply, TypeInv, WorldOK
<1>4. disk' \in Disks
  <2>1. disk \in Disks
    BY DEF TypeInv, WorldOK
  <2>2. /\ generatePglcmdConf(settings') \in Confs \cup {None}
        /\ generateBlocklistsFile(x) \in [Lists \ Local -> States] \cup {None}
        /\ {l \in LocalChanges(x) : isAdded(x[l])} \in SUBSET Local
    BY <1>3, ConfTypes
  <2> QED
    BY <2>1, <2>2 DEF Apply, Disks
<1>5. WindowOK'
  BY <1>2 DEF Apply, WindowOK, TypeInv
<1>6. WorldOK'
  BY <1>3, <1>4 DEF Apply, WorldOK, TypeInv
<1>7. HistoryOK'
  BY <1>2 DEF Apply, HistoryOK, TypeInv
<1> QED
  BY <1>2, <1>5, <1>6, <1>7 DEF TypeInv

LEMMA applyTypes ==
  ASSUME TypeInv, applyChanges
  PROVE  TypeInv'
BY ApplyTypes DEF applyChanges, TypeInv, WindowOK, HistoryOK

LEMMA AllowPermanentlyTypes ==
  ASSUME TypeInv, NEW i \in Items, AllowPermanently(i)
  PROVE  TypeInv'
<1>1. entry \in [Entries -> EntryStates] /\ i \in Entries /\ addItem(i) \in EntryStates
  BY EntryTypes DEF TypeInv, WindowOK, addItem, Entries
<1> DEFINE x == [entry EXCEPT ![i] = addItem(i)]
<1>2. x \in [Entries -> EntryStates]
  BY <1>1, EntryReplaced
<1>3. Idle /\ Apply(x) /\ logged' \subseteq Items
  BY DEF AllowPermanently, TypeInv, HistoryOK
<1> HIDE DEF x
<1> QED
  BY <1>2, <1>3, ApplyTypes

LEMMA AllowTemporarilyTypes ==
  ASSUME TypeInv, NEW i \in Items, AllowTemporarily(i)
  PROVE  /\ TypeInv'
         /\ getCommands({i}, [j \in {i} |-> TRUE]) \in Seq(Commands)
         /\ \A c : c \in Range(getCommands({i}, [j \in {i} |-> TRUE])) <=>
                     c = Do("iptables", i, "-I")
<1> DEFINE allows == [j \in {i} |-> TRUE]
           command == [j \in {i} |-> Do("iptables", j, IF allows[j] THEN "-I" ELSE "-D")]
           s == getCommands({i}, allows)
<1>1. s = ForAll({i}, command)
  BY DEF getCommands
<1>2. IsFiniteSet({i}) /\ \A j \in {i} : command[j] = Do("iptables", i, "-I")
  BY FS_Singleton
<1>3. \A j \in {i} : command[j] \in Commands
  BY <1>2 DEF Commands, Do
<1>4. /\ ForAll({i}, command) \in Seq(Commands)
      /\ \A c : c \in Range(ForAll({i}, command)) <=> \E j \in {i} : c = command[j]
  <2> DEFINE W == {i}
  <2>1. IsFiniteSet(W) /\ \A j \in W : command[j] \in Commands
    BY <1>2, <1>3
  <2> HIDE DEF W, command
  <2>2. /\ ForAll(W, command) \in Seq(Commands)
        /\ \A c : c \in Range(ForAll(W, command)) <=> \E j \in W : c = command[j]
    BY <2>1, ForAllIs
  <2> QED
    BY <2>2 DEF W
<1> HIDE DEF command
<1>5. s \in Seq(Commands) /\ \A c : c \in Range(s) <=> c = Do("iptables", i, "-I")
  BY <1>1, <1>2, <1>4
<1>6. Idle /\ Submit(s, button)
  BY DEF AllowTemporarily
<1> HIDE DEF s
<1>7. QueueOK' /\ button' \in BOOLEAN /\ result' \in {"none", "failed"}
  BY <1>5, <1>6, SubmitTypes DEF TypeInv, WindowOK
<1>8. WindowOK' /\ WorldOK' /\ HistoryOK'
  BY <1>7, ButtonType DEF AllowTemporarily, TypeInv, WindowOK, WorldOK, HistoryOK
<1> QED
  BY <1>5, <1>7, <1>8 DEF TypeInv, s

(* What a command that works leaves behind. *)
LEMMA CommandTypes ==
  ASSUME TypeInv, NEW c \in Commands, Works(c)
  PROVE  /\ DiskAfter(c) \in Disks
         /\ NetAfter(c) \in Nets
         /\ NetAfter(c).daemon = net.daemon /\ NetAfter(c).seen = net.seen
         /\ ~net.daemon => NetAfter(c).rules = {} /\ NetAfter(c).served = {}
<1>1. disk \in Disks /\ net \in Nets /\ (~net.daemon => net.rules = {} /\ net.served = {})
  BY DEF TypeInv, WorldOK
<1>2. \A state \in States, l \in Local : [disk EXCEPT !.lists[l] = state] \in Disks
  BY <1>1 DEF Disks
<1>3. CASE c \in [do : {"iptables"}, on : Items, how : {"-I", "-D"}]
  <2>1. DiskAfter(c) = disk
    BY <1>3 DEF DiskAfter
  <2>2. CASE c.how = "-I"
    BY <1>1, <1>3, <2>1, <2>2 DEF Works, NetAfter, Nets
  <2>3. CASE c.how = "-D"
    BY <1>1, <1>3, <2>1, <2>3 DEF NetAfter, Nets
  <2> QED
    BY <1>3, <2>2, <2>3
<1>4. CASE c \in [do : {"link"}, on : Local, how : {"on"}]
  <2>1. DiskAfter(c) = [disk EXCEPT !.lists[c.on] = c.how, !.links = @ \ {c.on}]
        /\ NetAfter(c) = net
    BY <1>4 DEF DiskAfter, NetAfter
  <2> DEFINE d == [disk EXCEPT !.lists[c.on] = c.how]
  <2>2. d \in Disks
    BY <1>2, <1>4 DEF States
  <2>3. DiskAfter(c) = [d EXCEPT !.links = @ \ {c.on}]
    BY <1>1, <1>4, <2>1 DEF Disks
  <2> HIDE DEF d
  <2>4. DiskAfter(c) \in Disks
    BY <2>2, <2>3 DEF Disks
  <2> QED
    BY <1>1, <2>1, <2>4
<1>5. CASE c \in [do : {"rm"}, on : Local, how : {"absent"}]
           \/ c \in [do : {"rename"}, on : Local, how : {"on", "off"}]
  <2>1. DiskAfter(c) = [disk EXCEPT !.lists[c.on] = c.how] /\ NetAfter(c) = net
    BY <1>5 DEF DiskAfter, NetAfter
  <2>2. c.on \in Local /\ c.how \in States
    BY <1>5 DEF States
  <2> QED
    BY <1>1, <1>2, <2>1, <2>2
<1>6. CASE c \in [do : {"mvcron"}, on : Places, how : Places]
  <2>1. DiskAfter(c) = [disk EXCEPT !.place = c.how] /\ NetAfter(c) = net
    BY <1>6 DEF DiskAfter, NetAfter
  <2> QED
    BY <1>1, <1>6, <2>1 DEF Disks
<1>7. CASE c = MvConf
  <2>1. DiskAfter(c) = [disk EXCEPT !.conf = disk.tmpconf, !.tmpconf = None]
        /\ NetAfter(c) = net /\ disk.tmpconf # None
    BY <1>7 DEF DiskAfter, NetAfter, Works, MvConf, Do
  <2> QED
    BY <1>1, <2>1 DEF Disks
<1>8. CASE c = MvLists
  <2> DEFINE lists == [l \in Lists |-> IF l \in Local THEN disk.lists[l] ELSE disk.tmplists[l]]
  <2>1. DiskAfter(c) = [disk EXCEPT !.lists = lists, !.tmplists = None]
        /\ NetAfter(c) = net /\ disk.tmplists # None
    BY <1>8 DEF DiskAfter, NetAfter, Works, MvLists, Do
  <2>2. lists \in [Lists -> States]
    BY <1>1, <2>1 DEF Disks
  <2> HIDE DEF lists
  <2> QED
    BY <1>1, <2>1, <2>2 DEF Disks
<1>9. CASE c = Reload
  <2>1. DiskAfter(c) = disk
        /\ NetAfter(c) = IF net.daemon THEN [net EXCEPT !.served = Served(disk.lists)] ELSE net
    BY <1>9 DEF DiskAfter, NetAfter, Reload, Do
  <2> QED
    BY <1>1, <2>1 DEF Nets, Served
<1> QED
  BY <1>3, <1>4, <1>5, <1>6, <1>7, <1>8, <1>9 DEF Commands

LEMMA PerformTypes ==
  ASSUME TypeInv, Perform
  PROVE  TypeInv'
<1>1. thread = "running" /\ todo \in Seq(Commands) /\ todo # <<>>
  BY DEF TypeInv, QueueOK, Perform
<1>2. Head(todo) \in Commands /\ Tail(todo) \in Seq(Commands)
  BY <1>1, TailFacts
<1>3. WindowOK' /\ HistoryOK'
  BY DEF TypeInv, Perform, others, memory, shown, history, WindowOK, HistoryOK
<1>4. CASE Works(Head(todo))
  <2>1. Succeed /\ net' = NetAfter(Head(todo)) /\ disk' = DiskAfter(Head(todo))
    BY <1>4 DEF Perform
  <2>2. QueueOK'
    BY <1>1, <1>2, <2>1 DEF TypeInv, QueueOK, Succeed
  <2>3. WorldOK'
    BY <1>2, <1>4, <2>1, CommandTypes
       DEF TypeInv, Perform, others, memory, WorldOK
  <2> QED
    BY <1>3, <2>2, <2>3 DEF TypeInv
<1>5. CASE ~Works(Head(todo))
  <2>1. Abort /\ UNCHANGED <<net, disk>>
    BY <1>5 DEF Perform
  <2>2. QueueOK'
    BY <1>1, <1>2, <2>1, EmptySeq DEF TypeInv, QueueOK, Abort
  <2>3. WorldOK'
    BY <2>1 DEF TypeInv, Perform, others, memory, WorldOK
  <2> QED
    BY <1>3, <2>2, <2>3 DEF TypeInv
<1> QED
  BY <1>4, <1>5

(* The kinds of commands, and what each is about. *)
LEMMA CommandKinds ==
  /\ MvConf.do = "mv" /\ MvLists.do = "mv" /\ Reload.do = "reload" /\ MvConf # MvLists
  /\ \A c \in Commands :
       /\ c.do = "iptables" => c.on \in Items /\ c.how \in {"-I", "-D"}
       /\ c.do \in {"link", "rm", "rename"} => c.on \in Local /\ c.how \in States
       /\ c.do = "mvcron" => c.on \in Places /\ c.how \in Places
       /\ c.do = "mv" => c \in {MvConf, MvLists}
       /\ c.do = "reload" => c = Reload
       /\ c.do \in {"iptables", "link", "rm", "rename", "mvcron", "mv", "reload"}
<1>1. MvConf.do = "mv" /\ MvLists.do = "mv" /\ Reload.do = "reload" /\ MvConf.on # MvLists.on
  BY DEF MvConf, MvLists, Reload, Do
<1>2. ASSUME NEW c \in Commands
      PROVE  /\ c.do = "iptables" => c.on \in Items /\ c.how \in {"-I", "-D"}
             /\ c.do \in {"link", "rm", "rename"} => c.on \in Local /\ c.how \in States
             /\ c.do = "mvcron" => c.on \in Places /\ c.how \in Places
             /\ c.do = "mv" => c \in {MvConf, MvLists}
             /\ c.do = "reload" => c = Reload
             /\ c.do \in {"iptables", "link", "rm", "rename", "mvcron", "mv", "reload"}
  <2>1. CASE c \in [do : {"iptables"}, on : Items, how : {"-I", "-D"}]
    BY <2>1
  <2>2. CASE c \in [do : {"link"}, on : Local, how : {"on"}]
    BY <2>2 DEF States
  <2>3. CASE c \in [do : {"rm"}, on : Local, how : {"absent"}]
    BY <2>3 DEF States
  <2>4. CASE c \in [do : {"rename"}, on : Local, how : {"on", "off"}]
    BY <2>4 DEF States
  <2>5. CASE c \in [do : {"mvcron"}, on : Places, how : Places]
    BY <2>5
  <2>6. CASE c \in {MvConf, MvLists, Reload}
    BY <1>1, <2>6
  <2> QED
    BY <2>1, <2>2, <2>3, <2>4, <2>5, <2>6 DEF Commands
<1> QED
  BY <1>1, <1>2

(* What is loaded is active. *)
LEMMA WindowIs ==
  ASSUME NEW lists \in [Lists -> States], NEW white, NEW off, NEW x,
         x = Window(loadBlocklists(lists), loadWhitelist(white, off))
  PROVE  /\ x \in [Entries -> EntryStates]
         /\ \A e \in Entries : ~isChanged(x[e])
         /\ \A l \in Lists : x[l].was = lists[l]
         /\ \A i \in Items : /\ x[i].was = "on" <=> i \in white
                             /\ x[i].was = "off" <=> i \notin white /\ i \in off
<1> DEFINE state(i) == IF i \in white THEN "on" ELSE IF i \in off THEN "off" ELSE "absent"
<1>1. \A s \in States : /\ Loaded(s) \in EntryStates
                        /\ Loaded(s).was = s /\ Loaded(s).now = s /\ ~Loaded(s).removed
  BY EntryTypes DEF Loaded, Absent
<1>2. \A l \in Lists : l \in Entries /\ l \notin Items /\ x[l] = Loaded(lists[l])
  BY DEF Window, loadBlocklists, Entries
<1>3. \A i \in Items : i \in Entries /\ state(i) \in States /\ x[i] = Loaded(state(i))
  BY DEF Window, loadWhitelist, Entries, States
<1>4. DOMAIN x = Entries /\ x = [e \in Entries |-> x[e]]
  BY DEF Window
<1>5. \A e \in Entries : x[e] \in EntryStates /\ ~isChanged(x[e])
  BY <1>1, <1>2, <1>3 DEF Entries, isChanged
<1>6. x \in [Entries -> EntryStates]
  BY <1>4, <1>5
<1>7. \A l \in Lists : x[l].was = lists[l]
  BY <1>1, <1>2
<1>8. \A i \in Items : /\ state(i) = "on" <=> i \in white
                       /\ state(i) = "off" <=> i \notin white /\ i \in off
  OBVIOUS
<1>9. \A i \in Items : /\ x[i].was = "on" <=> i \in white
                       /\ x[i].was = "off" <=> i \notin white /\ i \in off
  BY <1>1, <1>3, <1>8
<1> QED
  BY <1>5, <1>6, <1>7, <1>9

(* An option keeps its default or gets its value. *)
LEMMA SetValue ==
  ASSUME NEW o, NEW v
  PROVE  /\ o \in disk.hidden => setValueInData(o, v) = TRUE
         /\ o \notin disk.hidden => setValueInData(o, v) = v
         /\ UNCHANGED disk.hidden => setValueInData(o, v)' = setValueInData(o, v')
BY DEF setValueInData

LEMMA OptionsAre ==
  ASSUME NEW conf \in Confs, NEW place \in Places, NEW x, x = loadOptions(conf, place)
  PROVE  /\ x \in Options
         /\ x.boot = Active(conf.boot)
         /\ x.auto = Active(conf.auto /\ place # "none")
         /\ \A o \in DOMAIN x : x[o].was = x[o].now
<1> DEFINE frequency == IF conf.auto THEN place ELSE "none"
<1>1. /\ frequency \in Places /\ (frequency # "none") \in BOOLEAN
      /\ (frequency # "none") = (conf.auto /\ place # "none")
      /\ conf.boot \in BOOLEAN
  BY DEF Confs, Places
<1>2. x = [boot |-> Active(conf.boot), auto |-> Active(frequency # "none"),
           freq |-> Active(frequency)]
  BY DEF loadOptions
<1> HIDE DEF frequency
<1>3. x \in Options /\ x.boot = Active(conf.boot) /\ x.auto = Active(conf.auto /\ place # "none")
  BY <1>1, <1>2 DEF Options, Active, Value
<1>4. \A o \in DOMAIN x : x[o].was = x[o].now
  BY <1>2 DEF Active, Value
<1> QED
  BY <1>3, <1>4

LEMMA LoadFacts ==
  ASSUME disk \in Disks, NEW s \in Confs, NEW off, load(s, off), UNCHANGED disk
  PROVE  /\ settings' = s
         /\ entry' \in [Entries -> EntryStates] /\ option' \in Options
         /\ ~Changed'
         /\ \A e \in Entries : ~isChanged(entry'[e])
         /\ \A l \in Lists : entry'[l].was = disk.lists[l]
         /\ \A i \in Items : /\ entry'[i].was = "on" <=> i \in disk.conf.white
                             /\ entry'[i].was = "off" <=> i \notin disk.conf.white /\ i \in off
         /\ option'.boot = Active(s.boot)
         /\ option'.auto = Active(s.auto /\ disk.place # "none")
<1>1. disk.lists \in [Lists -> States] /\ disk.place \in Places
  BY DEF Disks
<1>2. /\ entry' = Window(loadBlocklists(disk.lists), loadWhitelist(disk.conf.white, off))
      /\ option' = loadOptions(s, disk.place)
      /\ settings' = s
  BY DEF load
<1>3. /\ entry' \in [Entries -> EntryStates]
      /\ \A e \in Entries : ~isChanged(entry'[e])
      /\ \A l \in Lists : entry'[l].was = disk.lists[l]
      /\ \A i \in Items : /\ entry'[i].was = "on" <=> i \in disk.conf.white
                          /\ entry'[i].was = "off" <=> i \notin disk.conf.white /\ i \in off
  BY <1>1, <1>2, WindowIs
<1>4. /\ option' \in Options
      /\ option'.boot = Active(s.boot)
      /\ option'.auto = Active(s.auto /\ disk.place # "none")
      /\ \A o \in DOMAIN option' : option'[o].was = option'[o].now
  BY <1>1, <1>2, OptionsAre
<1>5. ~Changed'
  BY <1>3, <1>4 DEF Changed, OptionChanged
<1> QED
  BY <1>2, <1>3, <1>4, <1>5

LEMMA CheckedType ==
  ASSUME radio \in Places, NEW x \in Options
  PROVE  Checked(x.freq.was) \in Places
BY DEF Checked, Options

LEMMA SucceededTypes ==
  ASSUME TypeInv, Succeeded
  PROVE  /\ TypeInv'
         /\ loadSettings \in Confs /\ disabled' = updateGuiSettings
         /\ load(loadSettings, updateGuiSettings)
<1>1. disk \in Disks /\ disk.conf \in Confs /\ settings \in Confs /\ radio \in Places
      /\ disabled \subseteq Items
  BY DEF TypeInv, WorldOK, WindowOK, Disks
<1>2. loadSettings \in Confs
  BY <1>1 DEF loadSettings, Confs
<1>3. updateGuiSettings \subseteq Items /\ disabled' = updateGuiSettings
      /\ load(loadSettings, updateGuiSettings) /\ UNCHANGED disk
  BY <1>1 DEF updateGuiSettings, WhitelistChanges, Succeeded
<1>4. settings' \in Confs /\ entry' \in [Entries -> EntryStates] /\ option' \in Options
  BY <1>1, <1>2, <1>3, LoadFacts
<1>5. radio' \in Places
  BY <1>1, <1>4, CheckedType DEF Succeeded
<1>6. QueueOK'
  BY EmptySeq DEF Succeeded, processFinished, TypeInv, QueueOK
<1>7. WindowOK' /\ WorldOK'
  BY <1>3, <1>4, <1>5 DEF Succeeded, WindowOK, WorldOK, TypeInv
<1>8. HistoryOK'
  BY DEF Succeeded, HistoryOK, TypeInv
<1> QED
  BY <1>2, <1>3, <1>6, <1>7, <1>8 DEF TypeInv

LEMMA FailedTypes ==
  ASSUME TypeInv, Failed
  PROVE  TypeInv'
<1>1. QueueOK'
  BY EmptySeq DEF Failed, processFinished, TypeInv, QueueOK
<1>2. entry' \in [Entries -> EntryStates]
  <2>0. Removed(Absent) \in EntryStates
    BY EntryTypes DEF Removed, Absent
  <2>1. \A e \in Entries : entry[e] \in EntryStates /\ Removed(entry[e]) \in EntryStates
    BY <2>0, EntryTypes DEF TypeInv, WindowOK
  <2>2. entry' = [e \in Entries |-> IF e \in logged THEN Removed(entry[e]) ELSE entry[e]]
    BY DEF Failed, cleanup, clearLogViewWhitelistItems
  <2> QED
    BY <2>1, <2>2
<1>3. WindowOK'
  BY <1>2, ButtonType DEF Failed, cleanup, clearLogViewWhitelistItems, TypeInv, WindowOK
<1>4. WorldOK' /\ HistoryOK'
  BY DEF Failed, cleanup, clearLogViewWhitelistItems, TypeInv, WorldOK, HistoryOK
<1> QED
  BY <1>1, <1>3, <1>4 DEF TypeInv

LEMMA RestartTypes ==
  ASSUME TypeInv, Restart
  PROVE  TypeInv'
<1>1. disk \in Disks /\ disk.conf \in Confs /\ disabled \subseteq Items
      /\ load(disk.conf, disabled) /\ UNCHANGED disk
  BY DEF TypeInv, WorldOK, Disks, Restart
<1>2. settings' \in Confs /\ entry' \in [Entries -> EntryStates] /\ option' \in Options
  BY <1>1, LoadFacts
<1>3. radio' \in Places
  BY <1>2 DEF Restart, Options
<1>4. QueueOK'
  BY EmptySeq DEF Restart, TypeInv, QueueOK
<1>5. WindowOK' /\ WorldOK'
  BY <1>2, <1>3 DEF Restart, WindowOK, WorldOK, TypeInv
<1>6. HistoryOK'
  BY DEF Restart, HistoryOK, TypeInv, Outdate
<1> QED
  BY <1>4, <1>5, <1>6 DEF TypeInv

LEMMA StartStopTypes ==
  ASSUME TypeInv, StartStop
  PROVE  TypeInv'
<1>1. net \in Nets /\ disk \in Disks /\ Served(disk.lists) \subseteq Lists
      /\ disk.conf.white \subseteq Items
  BY DEF TypeInv, WorldOK, Served, Disks, Confs
<1>2. net' \in Nets /\ (~net'.daemon => net'.rules = {} /\ net'.served = {})
  BY <1>1 DEF StartStop, Nets
<1>3. WorldOK' /\ HistoryOK'
  BY <1>2 DEF StartStop, memory, TypeInv, WorldOK, HistoryOK
<1>4. WindowOK' /\ QueueOK'
  BY DEF StartStop, memory, shown, queueVars, TypeInv, WindowOK, QueueOK
<1> QED
  BY <1>3, <1>4 DEF TypeInv

LEMMA updateDaemonTypes ==
  ASSUME TypeInv, updateDaemonState
  PROVE  TypeInv'
<1>1. net' \in Nets /\ (~net'.daemon => net'.rules = {} /\ net'.served = {})
  BY DEF TypeInv, WorldOK, updateDaemonState, Nets
<1>2. WorldOK' /\ HistoryOK'
  BY <1>1 DEF updateDaemonState, memory, history, TypeInv, WorldOK, HistoryOK
<1>3. WindowOK' /\ QueueOK'
  BY DEF updateDaemonState, memory, shown, queueVars, TypeInv, WindowOK, QueueOK
<1> QED
  BY <1>2, <1>3 DEF TypeInv

(* The steps of the queue that change nothing else. *)
LEMMA ThreadTypes ==
  ASSUME TypeInv, SetSudo \/ Fail \/ Cancel
                    \/ ((ReadScript \/ ScriptEnds) /\ UNCHANGED <<others, net, disk>>)
  PROVE  TypeInv'
<1>1. QueueOK'
  <2>0. QueueOK /\ <<>> \in Seq(Commands)
    BY EmptySeq DEF TypeInv
  <2>1. CASE SetSudo
    BY <2>0, <2>1 DEF QueueOK, SetSudo
  <2>2. CASE Fail
    BY <2>0, <2>2 DEF QueueOK, Fail, Abort
  <2>3. CASE Cancel
    BY <2>0, <2>3 DEF QueueOK, Cancel
  <2>4. CASE ReadScript
    BY <2>0, <2>4 DEF QueueOK, ReadScript
  <2>5. CASE ScriptEnds
    BY <2>0, <2>5 DEF QueueOK, ScriptEnds
  <2> QED
    BY <2>1, <2>2, <2>3, <2>4, <2>5
<1>2. WorldOK' /\ WindowOK'
  BY DEF TypeInv, WorldOK, WindowOK, SetSudo, Fail, Cancel, ReadScript, ScriptEnds, Abort,
         others, memory, shown
<1>3. HistoryOK'
  BY DEF TypeInv, HistoryOK, SetSudo, Fail, Cancel, ReadScript, ScriptEnds, Abort,
         others, memory, history
<1> QED
  BY <1>1, <1>2, <1>3 DEF TypeInv

-----------------------------------------------------------------------------
(* What is active and not changed *)

(* An unchanged entry is on or off as it was; a changed one was there or is. *)
LEMMA EntryFacts ==
  ASSUME NEW x \in EntryStates
  PROVE  /\ x.was \in States /\ x.now \in States /\ x.removed \in BOOLEAN
         /\ ~isChanged(x) => x.was = x.now /\ ~x.removed
         /\ x.was # x.now => isChanged(x)
         /\ x.removed => isChanged(x)
         /\ isChanged(x) => x.now # "absent"
         /\ isAdded(x) => x.was = "absent" /\ x.now # "absent" /\ isChanged(x) /\ ~x.removed
BY DEF EntryStates, isChanged, isAdded, Absent

LEMMA FreshIsKept == WindowOK /\ FreshInv => KeptInv
<1> SUFFICES ASSUME WindowOK, FreshInv PROVE KeptInv
  OBVIOUS
<1>1. \A e \in Entries : entry[e] \in EntryStates
  BY DEF WindowOK
<1>2. ASSUME NEW i \in Items, ~isChanged(entry[i]) PROVE ItemKept(i)
  <2>1. entry[i].was = entry[i].now /\ ~entry[i].removed
    BY <1>1, <1>2, EntryFacts DEF Entries
  <2> QED
    BY <2>1 DEF FreshInv, ItemKept, On, Off
<1>3. ASSUME NEW l \in Lists, ~isChanged(entry[l]) PROVE disk.lists[l] = entry[l].now
  <2>1. entry[l].was = entry[l].now
    BY <1>1, <1>3, EntryFacts DEF Entries
  <2> QED
    BY <2>1 DEF FreshInv
<1>4. \A l \in Local : disk.lists[l] \in {entry[l].was, Wanted(l)}
  BY DEF FreshInv
<1>5. /\ ~OptionChanged("boot") => option.boot.now = option.boot.was
      /\ ~OptionChanged("auto") => option.auto.now = option.auto.was
  BY DEF OptionChanged
<1> QED
  BY <1>2, <1>3, <1>4, <1>5 DEF KeptInv, FreshInv

LEMMA FreshIsKeptNet == WindowOK /\ FreshNet => KeptNet
<1> SUFFICES ASSUME WindowOK, FreshNet PROVE KeptNet
  OBVIOUS
<1>1. \A e \in Entries : entry[e] \in EntryStates
  BY DEF WindowOK
<1>2. ASSUME NEW i \in Items, ~isChanged(entry[i]) PROVE RuleFor(i, On(entry, i))
  <2>1. On(entry, i) <=> entry[i].was = "on"
    BY <1>1, <1>2, EntryFacts DEF Entries, On
  <2> QED
    BY <2>1 DEF FreshNet, RuleFor
<1> QED
  BY <1>2 DEF KeptNet, FreshNet

LEMMA FreshIsKeptNext ==
  /\ WindowOK' /\ FreshInv' => KeptInv'
  /\ WindowOK' /\ FreshNet' => KeptNet'
<1>1. (WindowOK /\ FreshInv => KeptInv)'
  BY FreshIsKept, PTL
<1>2. (WindowOK /\ FreshNet => KeptNet)'
  BY FreshIsKeptNet, PTL
<1> QED
  BY <1>1, <1>2

-----------------------------------------------------------------------------
(* At rest: edits, undo, restarts *)

(* No script runs and none has failed, or what came of it is given up. *)
AtRest ==
  /\ commands # <<>> => torn /\ result = "failed"
  /\ ButtonInv
  /\ Sane => FreshInv
  /\ "daemon" \notin may =>
       /\ net.seen = net.daemon
       /\ Sane /\ net.daemon => FreshNet
  /\ ~torn /\ result = "applied" =>
       /\ Filed
       /\ "daemon" \notin may /\ net.daemon => AppliedNet

LEMMA RestIsFine == TypeInv /\ Idle /\ AtRest => IInv
<1> SUFFICES ASSUME TypeInv, Idle, AtRest PROVE IInv
  OBVIOUS
<1>1. todo \in Seq(Commands) /\ todo = <<>> /\ commands \in Seq(Commands)
  BY DEF TypeInv, QueueOK, Idle
<1>2. Range(todo) = {} /\ (commands = <<>> => Range(commands) = {})
  BY <1>1, InRange
<1>3. CommandsInv
  BY <1>2 DEF CommandsInv, AtRest
<1>4. (Sane => KeptInv) /\ (FreshNet => KeptNet)
  BY FreshIsKept, FreshIsKeptNet DEF TypeInv, AtRest
<1>5. FileInv
  BY <1>4 DEF FileInv, AtRest, Running
<1>6. NetInv
  BY <1>4 DEF NetInv, AtRest, Running
<1> QED
  BY <1>3, <1>5, <1>6 DEF IInv, AtRest

LEMMA RestIsFineNext == TypeInv' /\ Idle' /\ AtRest' => IInv'
<1>1. (TypeInv /\ Idle /\ AtRest => IInv)'
  BY RestIsFine, PTL
<1> QED
  BY <1>1

LEMMA InitIInv == Init => IInv
<1> SUFFICES ASSUME Init PROVE IInv
  OBVIOUS
<1>1. PICK white \in SUBSET Items, boot, auto \in BOOLEAN, place \in Times \cup {"none"},
           lists \in [Lists -> States], daemon \in BOOLEAN, hidden \in SUBSET {"boot", "auto"} :
       /\ {"white", "log"} \cap may = {} => white = {}
       /\ "options" \notin may => boot /\ auto /\ place = "daily"
       /\ "lists" \notin may => \A l \in Lists : lists[l] = "absent"
       /\ "hidden" \notin may => hidden = {}
       /\ ("boot" \in hidden => boot) /\ ("auto" \in hidden => auto)
       /\ disk = [conf |-> [white |-> white, boot |-> boot, auto |-> auto],
                  lists |-> lists, place |-> place,
                  tmpconf |-> None, tmplists |-> None, links |-> {}, hidden |-> hidden]
       /\ net = [daemon |-> daemon, seen |-> daemon,
                 rules |-> IF daemon THEN white ELSE {},
                 served |-> IF daemon THEN Served(lists) ELSE {}]
       /\ disabled \in SUBSET (Items \ white)
       /\ {"white", "log"} \cap may = {} => disabled = {}
       /\ settings = disk.conf
       /\ option = loadOptions(settings, place)
       /\ entry = Window(loadBlocklists(lists), loadWhitelist(white, disabled))
       /\ radio = option.freq.was
  BY Zenon DEF Init
<1>2. disk \in Disks /\ settings \in Confs /\ place \in Places
  BY <1>1 DEF Disks, Confs, Places
<1>3. net \in Nets /\ (~net.daemon => net.rules = {} /\ net.served = {})
  BY <1>1 DEF Nets, Served
<1>4. /\ entry \in [Entries -> EntryStates]
      /\ \A e \in Entries : ~isChanged(entry[e])
      /\ \A l \in Lists : entry[l].was = lists[l]
      /\ \A i \in Items : /\ entry[i].was = "on" <=> i \in white
                          /\ entry[i].was = "off" <=> i \notin white /\ i \in disabled
  BY <1>1, WindowIs
<1>5. /\ option \in Options
      /\ option.boot = Active(settings.boot)
      /\ option.auto = Active(settings.auto /\ place # "none")
      /\ \A o \in DOMAIN option : option[o].was = option[o].now
  BY <1>1, <1>2, OptionsAre
<1>6. radio \in Places
  BY <1>1, <1>5 DEF Options
<1>7. QueueOK /\ Idle
  BY EmptySeq DEF Init, QueueInit, QueueOK, Idle
<1>8. TypeInv
  <2>1. /\ may \in Circumstances /\ button = FALSE
        /\ logged = {} /\ temp = {} /\ result = "none" /\ torn = FALSE
    BY Zenon DEF Init
  <2>2. disabled \subseteq Items
    BY <1>1
  <2> QED
    BY <1>2, <1>3, <1>4, <1>5, <1>6, <1>7, <2>1, <2>2
       DEF TypeInv, WindowOK, WorldOK, HistoryOK
<1>9. ~Changed
  BY <1>4, <1>5 DEF Changed, OptionChanged
<1>10. Sane => FreshInv
  <2>1. ASSUME Sane PROVE /\ option.boot.was = settings.boot /\ option.auto.was = settings.auto
                          /\ settings.boot \in BOOLEAN /\ settings.auto \in BOOLEAN
    BY <1>1, <1>2, <1>5, <2>1 DEF Sane, Active, Value, Confs
  <2>2. ASSUME Sane PROVE /\ disk.conf.boot = setValueInData("boot", option.boot.was)
                          /\ disk.conf.auto = setValueInData("auto", option.auto.was)
    <3>1. /\ "boot" \in disk.hidden => disk.conf.boot = TRUE
          /\ "auto" \in disk.hidden => disk.conf.auto = TRUE
          /\ option.boot.was = disk.conf.boot /\ option.auto.was = disk.conf.auto
      BY <1>1, <1>2, <2>1, <2>2
    <3>2. CASE "boot" \in disk.hidden /\ "auto" \in disk.hidden
      BY <3>1, <3>2, SetValue, Zenon
    <3>3. CASE "boot" \in disk.hidden /\ "auto" \notin disk.hidden
      BY <3>1, <3>3, SetValue, Zenon
    <3>4. CASE "boot" \notin disk.hidden /\ "auto" \in disk.hidden
      BY <3>1, <3>4, SetValue, Zenon
    <3>5. CASE "boot" \notin disk.hidden /\ "auto" \notin disk.hidden
      BY <3>1, <3>5, SetValue, Zenon
    <3> QED
      BY <3>2, <3>3, <3>4, <3>5
  <2> QED
    BY <1>1, <1>4, <2>1, <2>2 DEF Sane, FreshInv
<1>11. net.seen = net.daemon /\ (net.daemon => FreshNet)
  BY <1>1, <1>4 DEF FreshNet, RuleFor, ServedNow
<1>12. AtRest
  BY <1>9, <1>10, <1>11 DEF AtRest, ButtonInv, Init, QueueInit
<1> QED
  BY <1>7, <1>8, <1>12, RestIsFine

(* An edit changes nothing of what is active. *)
LEMMA EditedInv ==
  ASSUME IInv, TypeInv', Idle, Edited,
         \A e \in Entries : entry'[e].was = entry[e].was,
         \A o \in {"boot", "auto"} : option'[o].was = option[o].was
  PROVE  IInv'
<1>1. /\ UNCHANGED <<may, commands, thread, disk, disabled, net, settings, temp>>
      /\ torn' = (torn \/ result = "failed") /\ result' # "applied"
      /\ result = "failed" => result' = "failed"
      /\ result' = "failed" => result = "failed"
      /\ button' = Changed'
  BY DEF Edited, Outdate, queueVars, IInv, TypeInv, HistoryOK
<1>2. Sane' => Sane /\ result # "failed"
  BY <1>1 DEF Sane
<1>3. Sane' => FreshInv'
  <2>1. ASSUME FreshInv PROVE FreshInv'
    BY <1>1, <2>1 DEF FreshInv, Entries, setValueInData
  <2> QED
    BY <1>2, <2>1 DEF IInv, FileInv
<1>4. "daemon" \notin may => /\ net.seen = net.daemon
                             /\ Sane' /\ net.daemon => FreshNet'
  <2>1. ASSUME FreshNet PROVE FreshNet'
    BY <1>1, <2>1 DEF FreshNet, RuleFor, ServedNow, Served, Entries
  <2> QED
    BY <1>2, <2>1 DEF IInv, NetInv
<1>5. commands' # <<>> => torn' /\ result' = "failed"
  BY <1>1 DEF IInv, CommandsInv
<1>6. ButtonInv'
  BY <1>1 DEF ButtonInv
<1>7. AtRest'
  BY <1>1, <1>3, <1>4, <1>5, <1>6 DEF AtRest
<1>8. Idle'
  BY <1>1 DEF Idle
<1> QED
  BY <1>7, <1>8, RestIsFineNext

LEMMA EditInv ==
  ASSUME IInv, TypeInv', NEW e \in Entries, NEW x, Edit(e, x), x.was = entry[e].was
  PROVE  IInv'
<1>1. /\ entry \in [Entries -> EntryStates]
      /\ entry' = [entry EXCEPT ![e] = x] /\ UNCHANGED option /\ Idle /\ Edited
  BY DEF IInv, TypeInv, WindowOK, Edit
<1>2. \A f \in Entries : entry'[f].was = entry[f].was
  BY <1>1
<1> QED
  BY <1>1, <1>2, EditedInv

LEMMA AddInv ==
  ASSUME IInv, NEW e \in Entries, Add(e)
  PROVE  IInv'
<1>1. entry[e] \in EntryStates /\ TypeInv'
  BY AddTypes DEF IInv, TypeInv, WindowOK
<1> DEFINE x == IF entry[e] = Absent THEN Added
                ELSE [entry[e] EXCEPT !.now = "on", !.removed = FALSE]
<1>2. Edit(e, x)
  BY DEF Add
<1>3. x.was = entry[e].was
  BY <1>1 DEF Added, Absent, EntryStates
<1> HIDE DEF x
<1> QED
  BY <1>1, <1>2, <1>3, EditInv

LEMMA ToggleInv ==
  ASSUME IInv, NEW e \in Entries, Toggle(e)
  PROVE  IInv'
<1>1. entry[e] \in EntryStates /\ TypeInv'
  BY ToggleTypes DEF IInv, TypeInv, WindowOK
<1> DEFINE x == [entry[e] EXCEPT !.now = IF @ = "on" THEN "off" ELSE "on"]
<1>2. Edit(e, x)
  BY DEF Toggle
<1>3. x.was = entry[e].was
  BY <1>1 DEF EntryStates
<1> HIDE DEF x
<1> QED
  BY <1>1, <1>2, <1>3, EditInv

LEMMA TakeOutInv ==
  ASSUME IInv, NEW e \in Entries, TakeOut(e)
  PROVE  IInv'
<1>1. entry[e] \in EntryStates /\ TypeInv' /\ Edit(e, Removed(entry[e]))
  BY TakeOutTypes DEF IInv, TypeInv, WindowOK, TakeOut
<1>2. Removed(entry[e]).was = entry[e].was
  BY <1>1 DEF Removed, Absent, EntryStates
<1> QED
  BY <1>1, <1>2, EditInv

LEMMA OptionInv ==
  ASSUME IInv,
         (\E o \in {"boot", "auto"} : checkboxChanged(o))
           \/ (\E t \in Times : updateRadioButtonToggled(t))
  PROVE  IInv'
<1>1. TypeInv' /\ option \in Options
  BY checkboxTypes, radioTypes DEF IInv, TypeInv, WindowOK
<1>2. ASSUME NEW o \in {"boot", "auto"}, checkboxChanged(o) PROVE IInv'
  <2>1. Idle /\ Edited /\ UNCHANGED entry /\ option' = [option EXCEPT ![o].now = ~@]
    BY <1>2 DEF checkboxChanged
  <2>2. \A q \in {"boot", "auto"} : option'[q].was = option[q].was
    BY <1>1, <2>1 DEF Options
  <2> QED
    BY <1>1, <2>1, <2>2, EditedInv
<1>3. ASSUME NEW t \in Times, updateRadioButtonToggled(t) PROVE IInv'
  <2>1. Idle /\ Edited /\ UNCHANGED entry /\ option' = [option EXCEPT !.freq.now = t]
    BY <1>3 DEF updateRadioButtonToggled
  <2>2. \A q \in {"boot", "auto"} : option'[q].was = option[q].was
    BY <1>1, <2>1 DEF Options
  <2> QED
    BY <1>1, <2>1, <2>2, EditedInv
<1> QED
  BY <1>2, <1>3

LEMMA undoInv ==
  ASSUME IInv, undoAll
  PROVE  IInv'
<1>1. /\ TypeInv' /\ entry \in [Entries -> EntryStates] /\ option \in Options
  BY undoTypes DEF IInv, TypeInv, WindowOK
<1>2. /\ Idle /\ entry' = [e \in Entries |-> Undone(entry[e])]
      /\ option' = [o \in DOMAIN option |-> UndoneOption(option[o])]
  BY DEF undoAll
<1>3. \A x \in EntryStates : Undone(x).was = x.was /\ ~isChanged(Undone(x))
  BY DEF Undone, Loaded, Absent, isChanged
<1>4. \A e \in Entries : entry'[e].was = entry[e].was /\ ~isChanged(entry'[e])
  BY <1>1, <1>2, <1>3
<1>5. DOMAIN option = {"boot", "auto", "freq"} /\ DOMAIN option' = {"boot", "auto", "freq"}
  BY <1>1, <1>2 DEF Options
<1>6. \A o \in {"boot", "auto", "freq"} :
        option'[o].was = option[o].was /\ option'[o].now = option[o].was
  BY <1>2, <1>5 DEF UndoneOption, Active, Value
<1>7. ~Changed'
  BY <1>4, <1>5, <1>6 DEF Changed, OptionChanged
<1>8. Edited
  BY <1>7, ButtonType DEF undoAll, Edited
<1> QED
  BY <1>1, <1>2, <1>4, <1>6, <1>8, EditedInv

LEMMA RestartInv ==
  ASSUME IInv, Restart
  PROVE  IInv'
<1>1. TypeInv' /\ disk \in Disks /\ disk.conf \in Confs
  BY RestartTypes DEF IInv, TypeInv, WorldOK, Disks
<1>2. /\ Idle /\ Idle' /\ load(disk.conf, disabled) /\ commands' = <<>> /\ button' = FALSE
      /\ UNCHANGED <<may, disk, disabled, net, temp>>
      /\ torn' = (torn \/ result = "failed") /\ result' # "applied"
  BY DEF Restart, Outdate, Idle, IInv, TypeInv, HistoryOK
<1>3. /\ settings' = disk.conf /\ ~Changed'
      /\ \A l \in Lists : entry'[l].was = disk.lists[l]
      /\ \A i \in Items : /\ entry'[i].was = "on" <=> i \in disk.conf.white
                          /\ entry'[i].was = "off" <=> i \notin disk.conf.white /\ i \in disabled
      /\ option'.boot = Active(disk.conf.boot)
      /\ option'.auto = Active(disk.conf.auto /\ disk.place # "none")
  BY <1>1, <1>2, LoadFacts
<1>4. Sane' => Sane /\ result # "failed"
  BY <1>2 DEF Sane
<1>5. Sane' => FreshInv'
  <2>1. ASSUME FreshInv, disk.place # "none" PROVE FreshInv'
    <3>1. /\ option'.boot.was = disk.conf.boot /\ option'.auto.was = disk.conf.auto
      BY <1>1, <1>3, <2>1 DEF Active, Value, Confs
    <3>2. /\ disk.conf.boot = setValueInData("boot", disk.conf.boot)
          /\ disk.conf.auto = setValueInData("auto", disk.conf.auto)
      <4>1. /\ disk.conf.boot = setValueInData("boot", option.boot.was)
            /\ disk.conf.auto = setValueInData("auto", option.auto.was)
        BY <2>1 DEF FreshInv
      <4> QED
        BY <4>1, Zenon DEF setValueInData
    <3>3. /\ disk'.conf.boot = setValueInData("boot", option.boot.was)'
          /\ disk'.conf.auto = setValueInData("auto", option.auto.was)'
      BY <1>2, <3>1, <3>2 DEF setValueInData
    <3> QED
      BY <1>1, <1>2, <1>3, <2>1, <3>1, <3>3 DEF FreshInv
  <2> QED
    BY <1>2, <1>4, <2>1 DEF IInv, FileInv, Sane
<1>6. "daemon" \notin may => /\ net.seen = net.daemon
                             /\ Sane' /\ net.daemon => FreshNet'
  <2>1. ASSUME FreshInv, FreshNet PROVE FreshNet'
    BY <1>2, <1>3, <2>1 DEF FreshInv, FreshNet, RuleFor, ServedNow, Served
  <2> QED
    BY <1>2, <1>4, <2>1 DEF IInv, FileInv, NetInv
<1>7. AtRest'
  BY <1>2, <1>3, <1>5, <1>6 DEF AtRest, ButtonInv
<1> QED
  BY <1>1, <1>2, <1>7, RestIsFineNext

-----------------------------------------------------------------------------
(* The end of an application *)

(* When everything has been carried out, the files hold what is shown. *)
LEMMA Arrived ==
  ASSUME TypeInv, KeptInv, todo = <<>>, ~Changed \/ (ConfInv /\ ListsInv)
  PROVE  /\ disk.conf = FileConf /\ settings = WantedConf
         /\ \A l \in Lists : disk.lists[l] = Wanted(l)
         /\ updateGuiSettings = {i \in Items : Off(entry, i)}
<1>1. \A c : c \notin Range(todo)
  BY InRange DEF TypeInv, QueueOK
<1>2. \A e \in Entries : entry[e] \in EntryStates
  BY DEF TypeInv, WindowOK
<1>3. disk.conf \in Confs /\ settings \in Confs /\ option \in Options
  BY DEF TypeInv, WorldOK, WindowOK, Disks
<1>4. disk.conf = FileConf /\ settings = WantedConf
  <2>1. CASE hasToUpdatePglcmdConf(entry)
    <3>1. Changed
      BY <1>3, <2>1 DEF hasToUpdatePglcmdConf, Changed, WhitelistChanges, Entries, Options
    <3> QED
      BY <1>1, <2>1, <3>1 DEF ConfInv
  <2>2. CASE ~hasToUpdatePglcmdConf(entry)
    <3>1. /\ \A i \in Items : ItemKept(i)
          /\ ~OptionChanged("boot") /\ ~OptionChanged("auto")
      BY <2>2 DEF hasToUpdatePglcmdConf, WhitelistChanges, KeptInv
    <3>2. /\ disk.conf.white = {i \in Items : On(entry, i)}
          /\ settings.white = {i \in Items : On(entry, i)}
      BY <1>3, <3>1 DEF ItemKept, Confs
    <3> QED
      BY <1>3, <3>1, <3>2 DEF KeptInv, WantedConf, FileConf, generatePglcmdConf, Confs
  <2> QED
    BY <2>1, <2>2
<1>5. ASSUME NEW l \in Lists PROVE disk.lists[l] = Wanted(l)
  <2>1. CASE ~isChanged(entry[l])
    <3>1. disk.lists[l] = entry[l].now /\ ~entry[l].removed /\ ~isAdded(entry[l])
          /\ entry[l].now \in States
      BY <1>2, <2>1, EntryFacts DEF KeptInv, Entries
    <3> QED
      BY <3>1 DEF Wanted, On, Off, States
  <2>2. CASE isChanged(entry[l])
    <3>1. Changed
      BY <2>2 DEF Changed, Entries
    <3>2. CASE l \in Local
      BY <1>1, <2>2, <3>1, <3>2 DEF ListsInv
    <3>3. CASE l \notin Local
      BY <1>1, <2>2, <3>1, <3>3 DEF ListsInv, hasToUpdateBlocklistsFile
    <3> QED
      BY <3>2, <3>3
  <2> QED
    BY <2>1, <2>2
<1>6. updateGuiSettings = {i \in Items : Off(entry, i)}
  <2>1. disabled \subseteq Items
    BY DEF TypeInv, WorldOK
  <2> QED
    BY <2>1 DEF updateGuiSettings, WhitelistChanges, KeptInv, ItemKept
<1> QED
  BY <1>4, <1>5, <1>6

(* The wanted lists are those that were asked for, but for the odd ones. *)
LEMMA WantedAsShown ==
  ASSUME TypeInv, \A l \in Lists : disk.lists[l] = Wanted(l)
  PROVE  LET of(state) == {l \in Lists : disk.lists[l] = state}
             shows == Shown(entry) IN
         /\ of("on") \ shows.odd = shows.on \cap Lists
         /\ of("off") \ shows.odd = (shows.off \cap Lists) \ shows.odd
<1> DEFINE odd == {l \in Local : isAdded(entry[l]) /\ entry[l].now = "off"}
<1>1. /\ Shown(entry).on = {e \in Entries : On(entry, e)}
      /\ Shown(entry).off = {e \in Entries : Off(entry, e)}
      /\ Shown(entry).odd = odd
  BY DEF Shown
<1>2. ASSUME NEW l \in Lists
      PROVE  /\ Wanted(l) = "on" /\ l \notin odd <=> On(entry, l)
             /\ Wanted(l) = "off" /\ l \notin odd <=> Off(entry, l) /\ l \notin odd
  <2>1. entry[l] \in EntryStates
    BY DEF TypeInv, WindowOK, Entries
  <2>2. isAdded(entry[l]) => entry[l].now \in {"on", "off"} /\ ~entry[l].removed
    BY <2>1, EntryFacts DEF States
  <2>3. On(entry, l) => l \notin odd /\ ~Off(entry, l)
    BY DEF On, Off
  <2> QED
    BY <2>2, <2>3 DEF Wanted, On, Off
<1> HIDE DEF odd
<1> QED
  BY <1>1, <1>2 DEF Entries

(* The settings that are loaded are those in memory: the file has the same,  *)
(* or the default of one that is hidden.                                     *)
LEMMA LoadedIs ==
  ASSUME TypeInv, disk.conf = generatePglcmdConf(settings)
  PROVE  loadSettings = settings
<1>1. disk.conf \in Confs /\ settings \in Confs
  BY DEF TypeInv, WorldOK, Disks
<1>2. /\ disk.conf.white = settings.white
      /\ disk.conf.boot = TRUE \/ disk.conf.boot = settings.boot
      /\ disk.conf.auto = TRUE \/ disk.conf.auto = settings.auto
  <2>1. /\ disk.conf.white = settings.white
        /\ disk.conf.boot = setValueInData("boot", settings.boot)
        /\ disk.conf.auto = setValueInData("auto", settings.auto)
    BY DEF generatePglcmdConf
  <2> QED
    BY <2>1, SetValue, Zenon
<1> QED
  BY <1>1, <1>2 DEF loadSettings, Confs

LEMMA SucceededInv ==
  ASSUME IInv, Succeeded
  PROVE  IInv'
<1>1. /\ TypeInv /\ TypeInv' /\ disk \in Disks
      /\ loadSettings \in Confs /\ load(loadSettings, updateGuiSettings)
      /\ disabled' = updateGuiSettings
  BY SucceededTypes DEF IInv, TypeInv, WorldOK
<1>2. /\ thread = "done" /\ ok /\ ~Idle /\ Idle' /\ todo = <<>>
      /\ commands' = <<>> /\ button' = FALSE
      /\ UNCHANGED <<may, disk, net, asked, torn, temp>>
      /\ result' = IF asked = None THEN "none" ELSE "applied"
  BY DEF Succeeded, processFinished, Idle, IInv, TypeInv, QueueOK
<1>3. \A c : c \notin Range(todo)
  BY <1>2, InRange DEF IInv, TypeInv, QueueOK
<1>4. /\ settings' = loadSettings /\ ~Changed'
      /\ \A l \in Lists : entry'[l].was = disk.lists[l]
      /\ \A i \in Items : /\ entry'[i].was = "on" <=> i \in disk.conf.white
                          /\ entry'[i].was = "off" <=> i \notin disk.conf.white /\ i \in updateGuiSettings
      /\ option'.boot = Active(loadSettings.boot)
      /\ option'.auto = Active(loadSettings.auto /\ disk.place # "none")
  BY <1>1, <1>2, LoadFacts
<1>5. ASSUME ~torn, asked # None PROVE disk.place = radio /\ disk.place # "none"
  BY <1>2, <1>3, <1>5 DEF IInv, FileInv, Running, CronInv
<1>6. ASSUME Sane
      PROVE  /\ disk.conf = FileConf /\ settings = WantedConf
             /\ \A l \in Lists : disk.lists[l] = Wanted(l)
             /\ updateGuiSettings = {i \in Items : Off(entry, i)}
  <2>1. KeptInv
    BY <1>6 DEF IInv, FileInv
  <2>2. ~Changed \/ (ConfInv /\ ListsInv)
    BY <1>2, <1>6 DEF IInv, FileInv, Running, Sane
  <2> QED
    BY <1>1, <1>2, <2>1, <2>2, Arrived
<1>7. Sane' => FreshInv'
  <2> SUFFICES ASSUME Sane PROVE FreshInv'
    BY <1>2 DEF Sane
  <2>1. /\ loadSettings = settings /\ settings \in Confs
        /\ disk.conf = generatePglcmdConf(settings)
    BY <1>1, <1>6, LoadedIs DEF FileConf
  <2>3. /\ disk.conf.white = settings.white
        /\ disk.conf.boot = setValueInData("boot", settings.boot)
        /\ disk.conf.auto = setValueInData("auto", settings.auto)
    BY <2>1 DEF generatePglcmdConf
  <2>2. \A i \in Items : i \in updateGuiSettings => i \notin disk.conf.white
    BY <1>6 DEF WantedConf, FileConf, generatePglcmdConf, On, Off
  <2> QED
    <3>1. /\ option'.boot.was = settings.boot /\ option'.auto.was = settings.auto
          /\ settings' = settings
      BY <1>1, <1>4, <1>6, <2>1 DEF Active, Value, Confs, Sane
    <3>2. /\ disk'.conf.boot = setValueInData("boot", option.boot.was)'
          /\ disk'.conf.auto = setValueInData("auto", option.auto.was)'
      BY <1>2, <2>3, <3>1 DEF setValueInData
    <3> QED
      BY <1>1, <1>2, <1>4, <2>1, <2>2, <2>3, <3>1, <3>2 DEF FreshInv
<1>8. ASSUME Sane, "daemon" \notin may, net.daemon PROVE FreshNet' /\ AppliedNet'
  <2>1. KeptNet /\ (asked # None => WayNet)
    BY <1>2, <1>8 DEF IInv, NetInv, Running, Sane
  <2>2. ASSUME asked = None PROVE ~Changed
    BY <1>2, <1>8, <2>2 DEF IInv, FileInv, Running, Sane
  <2>3. \A i \in Items : RuleFor(i, On(entry, i))
    <3>1. CASE asked = None
      BY <2>1, <2>2, <3>1 DEF KeptNet, Changed, Entries
    <3>2. CASE asked # None
      BY <1>3, <2>1, <3>2 DEF KeptNet, WayNet
    <3> QED
      BY <3>1, <3>2
  <2>4. ServedNow
    <3>1. CASE asked = None
      BY <2>1, <2>2, <3>1 DEF KeptNet, Changed, hasToReloadBlocklists, Entries
    <3>2. CASE asked # None
      BY <1>2, <2>1, <3>2 DEF WayNet
    <3> QED
      BY <3>1, <3>2
  <2>5. \A i \in Items : On(entry, i) <=> i \in disk.conf.white
    BY <1>6, <1>8 DEF WantedConf, FileConf, generatePglcmdConf
  <2>6. \A i \in Items : RuleFor(i, i \in disk.conf.white)
    BY <2>3, <2>5 DEF RuleFor
  <2>7. (ServedNow)' /\ \A i \in Items : RuleFor(i, i \in disk.conf.white)'
    BY <1>2, <2>4, <2>6 DEF ServedNow, Served, RuleFor
  <2>8. AppliedNet'
    BY <2>7 DEF AppliedNet
  <2>9. FreshNet'
    BY <1>2, <1>4, <2>7 DEF FreshNet, RuleFor
  <2> QED
    BY <2>8, <2>9
<1>9. ASSUME ~torn, asked # None PROVE Filed'
  <2>1. Sane /\ asked = Shown(entry)
    BY <1>2, <1>5, <1>9 DEF Sane, IInv, FileInv, Running
  <2>2. /\ asked.on = {e \in Entries : On(entry, e)}
        /\ asked.off = {e \in Entries : Off(entry, e)}
        /\ asked.boot = option.boot.now /\ asked.auto = option.auto.now /\ asked.radio = radio
    BY <2>1 DEF Shown
  <2>3. /\ disk.conf.white = asked.on \cap Items
        /\ "boot" \notin disk.hidden => disk.conf.boot = asked.boot
        /\ "auto" \notin disk.hidden => disk.conf.auto = asked.auto
    <3>1. /\ WantedConf.white = asked.on \cap Items
          /\ WantedConf.boot = asked.boot /\ WantedConf.auto = asked.auto
      BY <2>2 DEF WantedConf, Entries
    <3>2. /\ disk.conf.white = WantedConf.white
          /\ disk.conf.boot = setValueInData("boot", WantedConf.boot)
          /\ disk.conf.auto = setValueInData("auto", WantedConf.auto)
      BY <1>6, <2>1 DEF FileConf, generatePglcmdConf
    <3> QED
      BY <3>1, <3>2, SetValue
  <2>4. updateGuiSettings = asked.off \cap Items
    BY <1>6, <2>1, <2>2 DEF Entries
  <2>5. LET of(state) == {l \in Lists : disk.lists[l] = state} IN
        /\ of("on") \ asked.odd = asked.on \cap Lists
        /\ of("off") \ asked.odd = (asked.off \cap Lists) \ asked.odd
    BY <1>1, <1>6, <2>1, WantedAsShown
  <2> QED
    BY <1>1, <1>2, <1>5, <1>9, <2>2, <2>3, <2>4, <2>5 DEF Filed
<1>10. ASSUME "daemon" \notin may
       PROVE  net.seen = net.daemon /\ (Sane' /\ net.daemon => FreshNet')
  BY <1>2, <1>8, <1>10 DEF IInv, NetInv, Sane
<1>11. ASSUME ~torn', result' = "applied"
       PROVE  Filed' /\ ("daemon" \notin may /\ net.daemon => AppliedNet')
  <2>1. ~torn /\ asked # None /\ Sane
    BY <1>2, <1>5, <1>11 DEF Sane
  <2> QED
    BY <1>8, <1>9, <2>1
<1>12. AtRest'
  BY <1>2, <1>4, <1>7, <1>10, <1>11 DEF AtRest, ButtonInv
<1> QED
  BY <1>1, <1>2, <1>12, RestIsFineNext

-----------------------------------------------------------------------------
(* The thread goes on, or fails *)

(* As long as the script has not lost a command, the rest does not mind.     *)
LEMMA FileFrame ==
  ASSUME FileInv, UNCHANGED <<entry, option, radio, settings, disk, disabled, torn, result, asked>>,
         Idle' <=> Idle, ~Idle /\ ok' => ok /\ todo' = todo
  PROVE  FileInv'
<1>1. (KeptInv' <=> KeptInv) /\ (FreshInv' <=> FreshInv)
  BY DEF KeptInv, FreshInv, ItemKept, On, Off, OptionChanged, Wanted, setValueInData
<1>2. (Filed' <=> Filed) /\ (Sane' <=> Sane) /\ (Running' <=> Running)
  BY DEF Filed, Sane, Running
<1>3. (Changed' <=> Changed) /\ Shown(entry)' = Shown(entry)
  BY DEF Changed, OptionChanged, Shown, On, Off
<1>4. ASSUME todo' = todo
      PROVE  (CronInv' <=> CronInv) /\ (ConfInv' <=> ConfInv) /\ (ListsInv' <=> ListsInv)
  <2>1. /\ hasToUpdatePglcmdConf(entry)' <=> hasToUpdatePglcmdConf(entry)
        /\ hasToUpdateBlocklistsFile(entry)' <=> hasToUpdateBlocklistsFile(entry)
    BY DEF hasToUpdatePglcmdConf, hasToUpdateBlocklistsFile, OptionChanged, WhitelistChanges
  <2>2. /\ WantedConf' = WantedConf /\ FileConf' = FileConf /\ WantedLists' = WantedLists
        /\ \A l \in Lists : Wanted(l)' = Wanted(l)
        /\ \A l \in Local : manageLocal(entry, l)' = manageLocal(entry, l)
    BY DEF WantedConf, FileConf, generatePglcmdConf, setValueInData, WantedLists, Wanted,
           On, Off, manageLocal
  <2> QED
    BY <1>4, <2>1, <2>2 DEF CronInv, ConfInv, ListsInv
<1>5. Running' /\ ok' => Running /\ ok /\ todo' = todo
  BY <1>2 DEF Running
<1> QED
  BY <1>1, <1>2, <1>3, <1>4, <1>5 DEF FileInv

LEMMA NetFrame ==
  ASSUME NetInv, UNCHANGED <<may, entry, option, radio, disk, net, torn, result, asked, temp>>,
         Idle' <=> Idle, ~Idle /\ ok' => ok /\ todo' = todo
  PROVE  NetInv'
<1>1. \A i \in Items, on \in BOOLEAN : RuleFor(i, on)' <=> RuleFor(i, on)
  BY DEF RuleFor
<1>2. (ServedNow' <=> ServedNow) /\ (hasToReloadBlocklists(entry)' <=> hasToReloadBlocklists(entry))
  BY DEF ServedNow, Served, hasToReloadBlocklists
<1>3. (KeptNet' <=> KeptNet) /\ (FreshNet' <=> FreshNet) /\ (AppliedNet' <=> AppliedNet)
  BY <1>2 DEF KeptNet, FreshNet, AppliedNet, RuleFor, On
<1>4. todo' = todo => (WayNet' <=> WayNet)
  BY <1>2 DEF WayNet, RuleFor, On
<1>5. /\ (Sane' <=> Sane) /\ (Running' <=> Running)
      /\ Running' /\ ok' => Running /\ ok /\ todo' = todo
  BY DEF Sane, Running
<1> QED
  BY <1>3, <1>4, <1>5 DEF NetInv

LEMMA CommandsFrame ==
  ASSUME CommandsInv, UNCHANGED <<may, commands, result, torn, entry, option, radio, temp>>,
         Idle' <=> Idle, Range(todo') \subseteq Range(todo)
  PROVE  CommandsInv'
<1>1. \A c : Caused(c)' <=> Caused(c)
  BY DEF Caused, hasToUpdatePglcmdConf, hasToUpdateBlocklistsFile, OptionChanged,
         WhitelistChanges, Wanted, On, Off
<1> QED
  BY <1>1 DEF CommandsInv

LEMMA ButtonFrame ==
  ASSUME ButtonInv, UNCHANGED <<may, entry, option, radio, button, disk>>, Idle' <=> Idle
  PROVE  ButtonInv'
<1>1. (Changed' <=> Changed) /\ (Quiet' <=> Quiet)
  BY DEF Changed, Quiet, OptionChanged, hasToUpdatePglcmdConf, hasToReloadBlocklists,
         WhitelistChanges
<1> QED
  BY <1>1 DEF ButtonInv

(* Everything that leaves the files, the window and the rules alone. *)
LEMMA ThreadInv ==
  ASSUME IInv, SetSudo \/ Fail \/ Cancel
                 \/ ((ReadScript \/ ScriptEnds) /\ UNCHANGED <<others, net, disk>>)
                 \/ (Perform /\ ~Works(Head(todo)))
  PROVE  IInv'
<1>1. TypeInv'
  BY ThreadTypes, PerformTypes DEF IInv
<1>2. /\ UNCHANGED <<may, commands, disk, disabled, net, entry, option, radio, settings, button, result, asked, temp>>
      /\ Idle' <=> Idle
      /\ todo' \in {todo, <<>>}
  BY DEF SetSudo, Fail, Cancel, ReadScript, ScriptEnds, Perform, Abort, others, memory, shown,
         history, Idle
<1>3. Range(todo') \subseteq Range(todo)
  <2>1. <<>> \in Seq(Commands)
    BY EmptySeq
  <2> QED
    BY <1>2, <2>1, InRange
<1>4. ButtonInv'
  BY <1>2, ButtonFrame DEF IInv
<1>5. CASE Cancel
  <2>1. torn' /\ ~Idle
    BY <1>5 DEF Cancel, Idle
  <2>2. CommandsInv'
    BY <1>2, <1>3, <2>1 DEF IInv, CommandsInv
  <2>3. FileInv' /\ NetInv'
    BY <1>2, <2>1 DEF IInv, FileInv, NetInv, Sane, Running
  <2> QED
    BY <1>1, <1>4, <2>2, <2>3 DEF IInv
<1>6. CASE ~Cancel
  <2>1. UNCHANGED torn /\ (~Idle /\ ok' => ok /\ todo' = todo)
    BY <1>6 DEF SetSudo, Fail, ReadScript, ScriptEnds, Perform, Abort, others, memory, shown,
                history, Idle
  <2>2. CommandsInv' /\ FileInv' /\ NetInv'
    BY <1>2, <1>3, <2>1, CommandsFrame, FileFrame, NetFrame DEF IInv
  <2> QED
    BY <1>1, <1>4, <2>2 DEF IInv
<1> QED
  BY <1>5, <1>6

(* pgl is started or stopped, and pglgui learns of it. *)
LEMMA DaemonInv ==
  ASSUME IInv, StartStop \/ updateDaemonState
  PROVE  IInv'
<1>1. TypeInv'
  BY StartStopTypes, updateDaemonTypes DEF IInv
<1>2. /\ UNCHANGED <<may, commands, thread, todo, ok, disk, disabled, entry, option, radio, settings, button, result, asked, torn>>
      /\ Idle' <=> Idle
  BY DEF StartStop, updateDaemonState, memory, shown, history, queueVars, Idle
<1>3. ButtonInv' /\ FileInv'
  BY <1>2, ButtonFrame, FileFrame DEF IInv
<1>4. "daemon" \in may
  BY DEF StartStop, updateDaemonState, IInv, NetInv
<1>5. NetInv'
  BY <1>2, <1>4 DEF NetInv
<1>6. \A c : Caused(c)' <=> Caused(c)
  BY <1>2, <1>4 DEF Caused, hasToUpdatePglcmdConf, hasToUpdateBlocklistsFile, OptionChanged,
                    WhitelistChanges, Wanted, On, Off
<1>7. CommandsInv'
  BY <1>2, <1>6 DEF IInv, CommandsInv
<1> QED
  BY <1>1, <1>3, <1>5, <1>7 DEF IInv

(* rootFinished after a failure. *)
LEMMA FailedInv ==
  ASSUME IInv, Failed
  PROVE  IInv'
<1>1. TypeInv'
  BY FailedTypes DEF IInv
<1>2. /\ ~Idle /\ Idle' /\ todo = <<>> /\ todo' = todo /\ commands' = <<>>
      /\ UNCHANGED <<may, disk, disabled, net, settings, option, radio, temp>>
      /\ button' = Changed' /\ result' = "failed" /\ asked' = None
      /\ torn' = (torn \/ logged # {})
  BY DEF Failed, processFinished, cleanup, clearLogViewWhitelistItems, Idle, IInv, TypeInv, QueueOK
<1>3. Range(todo) = {} /\ Range(commands') = {}
  BY <1>1, <1>2, InRange DEF IInv, TypeInv, QueueOK
<1>4. ButtonInv'
  BY <1>2 DEF ButtonInv
<1>5. CommandsInv'
  BY <1>2, <1>3 DEF CommandsInv
<1>6. ~torn' => entry' = entry
  <2>1. entry' = [e \in Entries |-> IF e \in logged THEN Removed(entry[e]) ELSE entry[e]]
    BY DEF Failed, cleanup, clearLogViewWhitelistItems
  <2>2. entry \in [Entries -> EntryStates]
    BY DEF IInv, TypeInv, WindowOK
  <2> QED
    BY <1>2, <2>1, <2>2
<1>7. Sane' => Sane /\ entry' = entry
  BY <1>2, <1>6 DEF Sane
<1>8. FileInv'
  <2>1. ASSUME KeptInv, entry' = entry PROVE KeptInv'
    BY <1>2, <2>1 DEF KeptInv, ItemKept, On, Off, OptionChanged, Wanted, setValueInData
  <2>2. Sane' => KeptInv'
    BY <1>7, <2>1 DEF IInv, FileInv
  <2> QED
    BY <1>2, <2>2 DEF FileInv, Running
<1>9. NetInv'
  <2>1. ASSUME KeptNet, entry' = entry PROVE KeptNet'
    BY <1>2, <2>1 DEF KeptNet, RuleFor, ServedNow, Served, hasToReloadBlocklists, On
  <2>2. ASSUME "daemon" \notin may
        PROVE  net.seen = net.daemon /\ (Sane' /\ net.daemon => KeptNet')
    BY <1>7, <2>1, <2>2 DEF IInv, NetInv
  <2> QED
    BY <1>2, <2>2 DEF NetInv, Running
<1> QED
  BY <1>1, <1>4, <1>5, <1>8, <1>9 DEF IInv

-----------------------------------------------------------------------------
(* An application begins *)

(* What becomes of commands that are submitted. *)
Started(queue) ==
  /\ ~Idle' /\ queue # <<>> /\ todo' = queue /\ ok' /\ result' = "none"

Nothing(queue, other) ==
  /\ Idle' /\ queue = <<>> /\ todo' = <<>> /\ button' = other /\ result' = "none"

NotRun ==
  /\ Idle' /\ todo' = <<>> /\ result' = "failed"
  /\ "full" \notin may => button' = Changed'

LEMMA SubmitFacts ==
  ASSUME QueueOK, NEW added \in Seq(Commands), NEW other, Idle, Submit(added, other)
  PROVE  LET queue == commands \o added IN
         /\ commands' = queue /\ queue \in Seq(Commands)
         /\ Started(queue) \/ Nothing(queue, other) \/ NotRun
<1> DEFINE queue == commands \o added
<1>1. queue \in Seq(Commands) /\ todo = <<>>
  BY Concatenated DEF QueueOK, Idle
<1>2. \/ /\ executeAll(queue)
         /\ button' = IF Refused(queue) THEN Changed' ELSE other
         /\ result' = IF Refused(queue) THEN "failed" ELSE "none"
      \/ /\ "full" \in may /\ queue # <<>>
         /\ executeNothing(queue)
         /\ button' = other
         /\ result' = "failed"
  BY DEF Submit
<1> HIDE DEF queue
<1>3. CASE "full" \in may /\ executeNothing(queue) /\ result' = "failed"
  BY <1>1, <1>3 DEF executeNothing, NotRun, Idle, queue
<1>4. CASE /\ executeAll(queue)
           /\ button' = IF Refused(queue) THEN Changed' ELSE other
           /\ result' = IF Refused(queue) THEN "failed" ELSE "none"
  <2>1. CASE queue # <<>> /\ sudo
    BY <1>1, <1>4, <2>1 DEF executeAll, Refused, Started, Idle, queue
  <2>2. CASE queue # <<>> /\ ~sudo
    BY <1>1, <1>4, <2>2 DEF executeAll, Refused, NotRun, Idle, queue
  <2>3. CASE queue = <<>>
    BY <1>1, <1>4, <2>3 DEF executeAll, Refused, Nothing, Idle, queue
  <2> QED
    BY <2>1, <2>2, <2>3
<1> QED
  BY <1>2, <1>3, <1>4

(* The entries x are those of the window, and perhaps one from the log.      *)
Grown(x) ==
  /\ x \in [Entries -> EntryStates]
  /\ \A e \in Entries : x[e] = entry[e] \/ (e \in Items /\ entry[e] = Absent /\ isChanged(x[e]))

LEMMA GrownFacts ==
  ASSUME NEW x, Grown(x), entry \in [Entries -> EntryStates]
  PROVE  /\ \A e \in Entries : ~isChanged(x[e]) \/ isChanged(entry[e]) \/ On(entry, e)
                                  => x[e] = entry[e]
         /\ \A e \in Entries : isChanged(entry[e]) => isChanged(x[e])
         /\ \A l \in Lists : x[l] = entry[l]
         /\ hasToUpdatePglcmdConf(entry) => hasToUpdatePglcmdConf(x)
         /\ hasToUpdateBlocklistsFile(entry) <=> hasToUpdateBlocklistsFile(x)
         /\ hasToReloadBlocklists(entry) <=> hasToReloadBlocklists(x)
<1>1. \A e \in Entries : entry[e] = Absent => ~isChanged(entry[e]) /\ ~On(entry, e)
  BY DEF Absent, isChanged, On
<1>2. \A l \in Lists : l \in Entries /\ l \notin Items
  BY DEF Entries
<1>3. /\ \A e \in Entries : ~isChanged(x[e]) \/ isChanged(entry[e]) \/ On(entry, e)
                               => x[e] = entry[e]
      /\ \A e \in Entries : isChanged(entry[e]) => isChanged(x[e])
      /\ \A l \in Lists : x[l] = entry[l]
  BY <1>1, <1>2 DEF Grown
<1> QED
  BY <1>3 DEF hasToUpdatePglcmdConf, WhitelistChanges, hasToUpdateBlocklistsFile,
              hasToReloadBlocklists, Entries

(* When there is nothing to do, what is kept is fresh. *)
LEMMA QuietIsFresh ==
  WindowOK /\ ~hasToUpdatePglcmdConf(entry) /\ ~hasToReloadBlocklists(entry) =>
    (KeptInv => FreshInv) /\ (KeptNet => FreshNet)
<1> SUFFICES ASSUME WindowOK, ~hasToUpdatePglcmdConf(entry), ~hasToReloadBlocklists(entry)
             PROVE  (KeptInv => FreshInv) /\ (KeptNet => FreshNet)
  OBVIOUS
<1>1. \A e \in Entries : ~isChanged(entry[e])
  BY DEF hasToUpdatePglcmdConf, hasToReloadBlocklists, WhitelistChanges, Entries
<1>2. /\ \A e \in Entries : entry[e].was = entry[e].now /\ ~entry[e].removed
      /\ \A e \in Entries : On(entry, e) <=> entry[e].was = "on"
      /\ \A e \in Entries : Off(entry, e) <=> entry[e].was = "off"
  BY <1>1 DEF isChanged, On, Off, WindowOK, EntryStates
<1>3. ~OptionChanged("boot") /\ ~OptionChanged("auto")
  BY DEF hasToUpdatePglcmdConf
<1>4. ASSUME KeptInv PROVE FreshInv
  BY <1>1, <1>2, <1>3, <1>4 DEF KeptInv, FreshInv, ItemKept, OptionChanged, Entries
<1>5. ASSUME KeptNet PROVE FreshNet
  BY <1>1, <1>2, <1>5 DEF KeptNet, FreshNet, RuleFor, Entries
<1> QED
  BY <1>4, <1>5

LEMMA QuietIsFreshNext ==
  WindowOK' /\ ~hasToUpdatePglcmdConf(entry)' /\ ~hasToReloadBlocklists(entry)' =>
    (KeptInv' => FreshInv') /\ (KeptNet' => FreshNet')
<1>1. (WindowOK /\ ~hasToUpdatePglcmdConf(entry) /\ ~hasToReloadBlocklists(entry) =>
         (KeptInv => FreshInv) /\ (KeptNet => FreshNet))'
  BY QuietIsFresh, PTL
<1> QED
  BY <1>1

(* An application without commands: at most the frequency is changed. *)
LEMMA NothingGenerated ==
  ASSUME TypeInv, NEW x \in [Entries -> EntryStates], Generated(x) = <<>>
  PROVE  /\ radio # "none" /\ disk.place = radio
         /\ ~hasToUpdatePglcmdConf(x) /\ ~hasToReloadBlocklists(x)
<1>1. \A c : ~Ordered(x, c)
  BY GeneratedIs, InRange
<1>2. ~Ordered(x, MvConf) /\ ~Ordered(x, Reload) /\ ~Ordered(x, Do("mvcron", disk.place, radio))
  BY <1>1
<1> QED
  BY <1>2 DEF Ordered

(* What an application does besides submitting its commands. *)
LEMMA ApplyFacts ==
  ASSUME IInv, TypeInv', Idle, NEW x, Grown(x), Apply(x)
  PROVE  /\ entry' = x /\ UNCHANGED <<may, option, radio, disabled, net, torn, temp>>
         /\ UNCHANGED <<disk.conf, disk.lists, disk.place, disk.hidden>>
         /\ settings' = IF hasToUpdatePglcmdConf(x) THEN storeSettings(x) ELSE settings
         /\ hasToUpdatePglcmdConf(x) => disk'.tmpconf = generatePglcmdConf(settings')
         /\ hasToUpdateBlocklistsFile(x) => disk'.tmplists = generateBlocklistsFile(x)
         /\ asked' = Shown(x) /\ asked' # None
         /\ commands' = commands \o Generated(x) /\ commands' \in Seq(Commands)
         /\ Started(commands') \/ Nothing(commands', FALSE) \/ NotRun
         /\ \A c : c \in Range(commands') <=> c \in Range(commands) \/ Ordered(x, c)
         /\ hasToReloadBlocklists(x) =>
              commands' # <<>> /\ commands'[Len(commands')] = Reload
         /\ commands' = <<>> => Generated(x) = <<>>
<1>1. /\ x \in [Entries -> EntryStates] /\ Generated(x) \in Seq(Commands)
      /\ \A c : c \in Range(Generated(x)) <=> Ordered(x, c)
      /\ hasToReloadBlocklists(x) =>
           Generated(x) # <<>> /\ Generated(x)[Len(Generated(x))] = Reload
  BY GeneratedIs DEF Grown, IInv
<1>2. /\ commands' = commands \o Generated(x) /\ commands' \in Seq(Commands)
      /\ Started(commands') \/ Nothing(commands', FALSE) \/ NotRun
  BY <1>1, SubmitFacts DEF IInv, TypeInv, Apply
<1>3. /\ \A c : c \in Range(commands') <=> c \in Range(commands) \/ c \in Range(Generated(x))
      /\ Generated(x) # <<>> =>
           /\ commands' # <<>>
           /\ commands'[Len(commands')] = Generated(x)[Len(Generated(x))]
      /\ commands' = <<>> => Generated(x) = <<>>
  BY <1>1, <1>2, Concatenated DEF IInv, TypeInv, QueueOK
<1>4. /\ entry' = x /\ UNCHANGED <<may, option, radio, disabled, net, torn, temp>>
      /\ settings' = IF hasToUpdatePglcmdConf(x) THEN storeSettings(x) ELSE settings
      /\ disk' = [disk EXCEPT
           !.tmpconf = IF hasToUpdatePglcmdConf(x) THEN generatePglcmdConf(settings') ELSE @,
           !.tmplists = IF hasToUpdateBlocklistsFile(x) THEN generateBlocklistsFile(x) ELSE @,
           !.links = @ \cup {l \in LocalChanges(x) : isAdded(x[l])}]
      /\ asked' = Shown(x)
  BY DEF Apply
<1>5. /\ UNCHANGED <<disk.conf, disk.lists, disk.place, disk.hidden>>
      /\ hasToUpdatePglcmdConf(x) => disk'.tmpconf = generatePglcmdConf(settings')
      /\ hasToUpdateBlocklistsFile(x) => disk'.tmplists = generateBlocklistsFile(x)
  <2>1. disk \in Disks
    BY DEF IInv, TypeInv, WorldOK
  <2> QED
    BY <1>4, <2>1 DEF Disks
<1>6. asked' # None
  <2>1. DOMAIN asked' # DOMAIN None
    BY <1>4 DEF Shown, None
  <2> QED
    BY <2>1
<1> QED
  BY <1>1, <1>2, <1>3, <1>4, <1>5, <1>6

(* The commands that were left and the new ones have their reasons in x. *)
LEMMA ApplyCommands ==
  ASSUME IInv, TypeInv', Idle, NEW x, Grown(x), Apply(x)
  PROVE  CommandsInv'
<1>1. /\ entry' = x /\ UNCHANGED <<may, option, radio, torn, temp>>
      /\ Started(commands') \/ Nothing(commands', FALSE) \/ NotRun
      /\ \A c : c \in Range(commands') <=> c \in Range(commands) \/ Ordered(x, c)
  BY ApplyFacts
<1>2. /\ entry \in [Entries -> EntryStates] /\ Range(commands) \subseteq Commands
      /\ x \in [Entries -> EntryStates]
  BY InRange DEF IInv, TypeInv, WindowOK, QueueOK, Grown
<1>3. /\ \A e \in Entries : ~isChanged(x[e]) \/ isChanged(entry[e]) \/ On(entry, e)
                               => x[e] = entry[e]
      /\ \A l \in Lists : x[l] = entry[l]
      /\ hasToUpdatePglcmdConf(entry) => hasToUpdatePglcmdConf(x)
      /\ hasToUpdateBlocklistsFile(entry) <=> hasToUpdateBlocklistsFile(x)
  BY <1>2, GrownFacts
<1>4. /\ hasToUpdatePglcmdConf(entry)' <=> hasToUpdatePglcmdConf(x)
      /\ hasToUpdateBlocklistsFile(entry)' <=> hasToUpdateBlocklistsFile(x)
  BY <1>1 DEF hasToUpdatePglcmdConf, hasToUpdateBlocklistsFile, OptionChanged, WhitelistChanges
<1>5. ASSUME NEW c \in Range(commands), Caused(c) PROVE Caused(c)'
  <2>1. c \in Commands
    BY <1>2
  <2>2. /\ (c = MvConf => hasToUpdatePglcmdConf(entry))'
        /\ (c = MvLists => hasToUpdateBlocklistsFile(entry))'
        /\ (c.do = "mvcron" => c.how = radio)'
    BY <1>1, <1>3, <1>4, <1>5 DEF Caused
  <2>3. (c.do \in {"link", "rm", "rename"} => isChanged(entry[c.on]) /\ c.how = Wanted(c.on))'
    <3> SUFFICES ASSUME c.do \in {"link", "rm", "rename"}
                 PROVE  (isChanged(entry[c.on]) /\ c.how = Wanted(c.on))'
      OBVIOUS
    <3>1. c.on \in Lists
      BY <2>1, CommandKinds
    <3> QED
      BY <1>1, <1>3, <1>5, <3>1 DEF Caused, Wanted, On, Off
  <2>4. ASSUME c.do = "iptables"
        PROVE  /\ (c.how = "-I" => On(entry, c.on) \/ c.on \in temp \/ "daemon" \in may)'
               /\ (c.how = "-D" => ~On(entry, c.on) /\ isChanged(entry[c.on]))'
    <3>1. c.on \in Items
      BY <2>1, <2>4, CommandKinds
    <3> QED
      BY <1>1, <1>3, <1>5, <2>4, <3>1 DEF Caused, On, Entries
  <2> QED
    BY <2>2, <2>3, <2>4 DEF Caused
<1>6. ASSUME NEW c, Ordered(x, c) PROVE Caused(c)'
  <2>1. CASE RuleOrdered(x, c)
    <3>1. PICK i \in WhitelistChanges(x) : c = Do("iptables", i, IF On(x, i) THEN "-I" ELSE "-D")
      BY <2>1 DEF RuleOrdered
    <3> QED
      BY <1>1, <3>1 DEF Caused, Do, MvConf, MvLists, WhitelistChanges, On
  <2>2. CASE hasToUpdatePglcmdConf(x) /\ c = MvConf
    BY <1>4, <2>2 DEF Caused, Do, MvConf, MvLists
  <2>3. CASE hasToUpdateBlocklistsFile(x) /\ c = MvLists
    BY <1>4, <2>3 DEF Caused, Do, MvConf, MvLists
  <2>4. CASE LocalOrdered(x, c)
    <3>1. PICK l \in LocalChanges(x) : c = manageLocal(x, l)
      BY <2>4 DEF LocalOrdered
    <3>2. l \in Local /\ isChanged(x[l])
      BY DEF LocalChanges
    <3>3. /\ c.on = l /\ c.do \in {"link", "rm", "rename"}
          /\ c.how = IF On(x, l) \/ isAdded(x[l]) THEN "on" ELSE IF Off(x, l) THEN "off" ELSE "absent"
      BY <1>2, <3>1, <3>2, LocalCommand
    <3>4. c.how = Wanted(l)'
      BY <1>1, <3>2, <3>3 DEF Wanted, On, Off
    <3> QED
      BY <1>1, <3>2, <3>3, <3>4, CommandKinds DEF Caused
  <2>5. CASE c = Do("mvcron", disk.place, radio)
    BY <1>1, <2>5 DEF Caused, Do, MvConf, MvLists
  <2>6. CASE c = Reload
    BY <1>1, <2>6 DEF Caused, Do, MvConf, MvLists, Reload
  <2> QED
    BY <1>6, <2>1, <2>2, <2>3, <2>4, <2>5, <2>6 DEF Ordered
<1>7. ~torn' => \A c \in Range(commands') : Caused(c)'
  BY <1>1, <1>5, <1>6 DEF IInv, CommandsInv
<1>8. Range(todo') \subseteq Range(commands')
  <2>1. todo' = commands' \/ todo' = <<>>
    BY <1>1 DEF Started, Nothing, NotRun
  <2>2. todo' = <<>> => Range(todo') = {}
    BY InRange DEF TypeInv, QueueOK
  <2> QED
    BY <2>1, <2>2
<1>9. /\ Idle' /\ commands' # <<>> => result' = "failed"
      /\ ~Idle' => result' = "none"
  BY <1>1 DEF Started, Nothing, NotRun
<1> QED
  BY <1>7, <1>8, <1>9 DEF CommandsInv

(* What an application keeps, and what it has put on its way. *)
LEMMA ApplyFile ==
  ASSUME IInv, TypeInv', Idle, NEW x, Grown(x), Apply(x)
  PROVE  FileInv'
<1>1. /\ entry' = x /\ UNCHANGED <<may, option, radio, disabled, net, torn, temp>>
      /\ UNCHANGED <<disk.conf, disk.lists, disk.place, disk.hidden>>
      /\ settings' = IF hasToUpdatePglcmdConf(x) THEN storeSettings(x) ELSE settings
      /\ hasToUpdatePglcmdConf(x) => disk'.tmpconf = generatePglcmdConf(settings')
      /\ hasToUpdateBlocklistsFile(x) => disk'.tmplists = generateBlocklistsFile(x)
      /\ asked' = Shown(x) /\ asked' # None
      /\ Started(commands') \/ Nothing(commands', FALSE) \/ NotRun
      /\ \A c : c \in Range(commands') <=> c \in Range(commands) \/ Ordered(x, c)
      /\ commands' = <<>> => Generated(x) = <<>>
  BY ApplyFacts
<1>2. /\ entry \in [Entries -> EntryStates] /\ x \in [Entries -> EntryStates]
      /\ disk \in Disks /\ settings \in Confs /\ WindowOK'
  BY DEF IInv, TypeInv, WindowOK, WorldOK, Grown
<1>3. /\ \A e \in Entries : ~isChanged(x[e]) \/ isChanged(entry[e]) \/ On(entry, e)
                               => x[e] = entry[e]
      /\ \A e \in Entries : isChanged(entry[e]) => isChanged(x[e])
      /\ \A l \in Lists : x[l] = entry[l]
  BY <1>2, GrownFacts
<1>4. /\ hasToUpdatePglcmdConf(entry)' <=> hasToUpdatePglcmdConf(x)
      /\ hasToUpdateBlocklistsFile(entry)' <=> hasToUpdateBlocklistsFile(x)
      /\ hasToReloadBlocklists(entry)' <=> hasToReloadBlocklists(x)
      /\ Sane' <=> Sane
  BY <1>1 DEF hasToUpdatePglcmdConf, hasToUpdateBlocklistsFile, hasToReloadBlocklists,
              OptionChanged, WhitelistChanges, Sane
<1>5. ASSUME Sane PROVE KeptInv'
  <2>1. KeptInv
    BY <1>5 DEF IInv, FileInv
  <2>2. ASSUME NEW i \in Items, ~isChanged(x[i]) PROVE ItemKept(i)'
    <3>1. i \in Entries /\ x[i] = entry[i] /\ ItemKept(i) /\ i \notin WhitelistChanges(x)
      BY <1>3, <2>1, <2>2 DEF Entries, KeptInv, WhitelistChanges
    <3>2. i \in settings'.white <=> i \in settings.white
      BY <1>1, <3>1 DEF storeSettings, updatePglSettings
    <3> QED
      BY <1>1, <3>1, <3>2 DEF ItemKept, On, Off
  <2>3. /\ \A l \in Lists : ~isChanged(x[l]) => disk'.lists[l] = x[l].now
        /\ \A l \in Local : disk'.lists[l] \in {x[l].was, Wanted(l)'}
    BY <1>1, <1>3, <2>1 DEF KeptInv, Wanted, On, Off
  <2>4. /\ (~OptionChanged("boot") => /\ option.boot.now = settings.boot
                                 /\ disk.conf.boot = setValueInData("boot", option.boot.now))'
        /\ (~OptionChanged("auto") => /\ option.auto.now = settings.auto
                                 /\ disk.conf.auto = setValueInData("auto", option.auto.now))'
    BY <1>1, <2>1 DEF KeptInv, OptionChanged, storeSettings, setValueInData
  <2> QED
    BY <1>1, <2>2, <2>3, <2>4 DEF KeptInv
<1>6. ASSUME Sane, Idle', result' # "failed" PROVE FreshInv'
  <2>1. Generated(x) = <<>>
    BY <1>1, <1>6 DEF Started, Nothing, NotRun
  <2>2. ~hasToUpdatePglcmdConf(x) /\ ~hasToReloadBlocklists(x)
    BY <1>2, <2>1, NothingGenerated DEF IInv
  <2> QED
    BY <1>2, <1>4, <1>5, <1>6, <2>2, QuietIsFreshNext
<1>7. ~Idle' => todo' = commands'
  BY <1>1 DEF Started, Nothing, NotRun
<1>8. asked' = Shown(entry)'
  BY <1>1 DEF Shown, On, Off
<1>9. ~Idle' => CronInv'
  <2>1. ASSUME radio = "none" \/ disk.place # radio
        PROVE  Do("mvcron", disk.place, radio) \in Range(commands')
    BY <1>1, <2>1 DEF Ordered
  <2>2. Do("mvcron", disk.place, radio).do = "mvcron"
    BY DEF Do
  <2> QED
    BY <1>1, <1>7, <2>1, <2>2 DEF CronInv
<1>10. ASSUME Sane, ~Idle' PROVE ConfInv'
  <2> SUFFICES ASSUME hasToUpdatePglcmdConf(x)
               PROVE  /\ settings' = WantedConf'
                      /\ MvConf \in Range(todo')
                      /\ disk'.tmpconf = FileConf'
    BY <1>4 DEF ConfInv
  <2>1. KeptInv
    BY <1>10 DEF IInv, FileInv
  <2>2. MvConf \in Range(todo')
    BY <1>1, <1>7, <1>10 DEF Ordered
  <2>3. updatePglSettings(x) = {i \in Items : On(x, i)}
    <3>1. \A i \in Items : i \notin WhitelistChanges(x) => (On(x, i) <=> i \in settings.white)
      BY <1>3, <2>1 DEF WhitelistChanges, KeptInv, ItemKept, On, Entries
    <3>2. settings.white \subseteq Items /\ WhitelistChanges(x) \subseteq Items
      BY <1>2 DEF Confs, WhitelistChanges
    <3> QED
      BY <3>1, <3>2 DEF updatePglSettings
  <2>4. WantedConf' = [white |-> {i \in Items : On(x, i)}, boot |-> option.boot.now, auto |-> option.auto.now]
    BY <1>1 DEF WantedConf, On
  <2>5. storeSettings(x) = WantedConf'
    BY <2>1, <2>3, <2>4 DEF storeSettings, KeptInv
  <2>6. generatePglcmdConf(settings') = FileConf'
    BY <1>1, <2>5 DEF FileConf, generatePglcmdConf, setValueInData
  <2> QED
    BY <1>1, <2>2, <2>5, <2>6
<1>11. ASSUME Sane, ~Idle' PROVE ListsInv'
  <2>1. KeptInv'
    BY <1>5, <1>11
  <2>2. ASSUME hasToUpdateBlocklistsFile(x)
        PROVE  MvLists \in Range(todo') /\ disk'.tmplists = WantedLists'
    <3>1. MvLists \in Range(todo')
      BY <1>1, <1>7, <1>11, <2>2 DEF Ordered
    <3>2. ASSUME NEW l \in Lists \ Local
          PROVE  Wanted(l)' = CASE On(x, l) -> "on" [] Off(x, l) -> "off" [] OTHER -> "absent"
      BY <1>1 DEF Wanted, On, Off
    <3>3. WantedLists' = generateBlocklistsFile(x)
      BY <3>2 DEF WantedLists, generateBlocklistsFile
    <3> QED
      BY <1>1, <2>2, <3>1, <3>3
  <2>3. ASSUME NEW l \in Local, isChanged(x[l]), disk'.lists[l] # Wanted(l)'
        PROVE  manageLocal(entry, l)' \in Range(todo')
    <3>1. disk.lists[l] = x[l].was
      BY <1>1, <2>1, <2>3 DEF KeptInv
    <3>2. l \in LocalChanges(x)
      BY <2>3, <3>1 DEF LocalChanges, exists
    <3>3. manageLocal(x, l) \in Range(todo')
      BY <1>1, <1>7, <1>11, <3>2 DEF Ordered, LocalOrdered
    <3> QED
      BY <1>1, <3>3 DEF manageLocal
  <2> QED
    BY <1>1, <1>4, <2>2, <2>3 DEF ListsInv
<1>12. result' # "applied"
  BY <1>1 DEF Started, Nothing, NotRun
<1> QED
  BY <1>1, <1>4, <1>5, <1>6, <1>8, <1>9, <1>10, <1>11, <1>12 DEF FileInv, Running, Sane

LEMMA ApplyNet ==
  ASSUME IInv, TypeInv', Idle, NEW x, Grown(x), Apply(x)
  PROVE  NetInv'
<1>1. /\ entry' = x /\ UNCHANGED <<may, option, radio, disabled, net, torn, temp>>
      /\ UNCHANGED <<disk.conf, disk.lists, disk.place, disk.hidden>>
      /\ Started(commands') \/ Nothing(commands', FALSE) \/ NotRun
      /\ \A c : c \in Range(commands') <=> c \in Range(commands) \/ Ordered(x, c)
      /\ hasToReloadBlocklists(x) =>
           commands' # <<>> /\ commands'[Len(commands')] = Reload
      /\ commands' = <<>> => Generated(x) = <<>>
  BY ApplyFacts
<1>2. /\ entry \in [Entries -> EntryStates] /\ x \in [Entries -> EntryStates] /\ WindowOK'
  BY DEF IInv, TypeInv, WindowOK, Grown
<1>3. /\ \A e \in Entries : ~isChanged(x[e]) => x[e] = entry[e]
      /\ \A e \in Entries : isChanged(entry[e]) => isChanged(x[e])
      /\ hasToReloadBlocklists(entry) <=> hasToReloadBlocklists(x)
  BY <1>2, GrownFacts
<1>4. /\ hasToReloadBlocklists(entry)' <=> hasToReloadBlocklists(x)
      /\ hasToUpdatePglcmdConf(entry)' <=> hasToUpdatePglcmdConf(x)
      /\ ServedNow' <=> ServedNow
      /\ Sane' <=> Sane
  BY <1>1 DEF hasToReloadBlocklists, hasToUpdatePglcmdConf, OptionChanged, WhitelistChanges,
              ServedNow, Served, Sane
<1> SUFFICES ASSUME "daemon" \notin may, net.daemon, Sane
             PROVE  /\ KeptNet'
                    /\ Idle' /\ result' # "failed" => FreshNet'
                    /\ ~Idle' => WayNet'
                    /\ result' # "applied"
  <2>1. ASSUME "daemon" \notin may PROVE net.seen = net.daemon
    BY <2>1 DEF IInv, NetInv
  <2>2. result' # "applied"
    BY <1>1 DEF Started, Nothing, NotRun
  <2> QED
    BY <1>1, <1>4, <2>1, <2>2 DEF NetInv, Running, Sane
<1>5. KeptNet /\ net.seen
  BY DEF IInv, NetInv
<1>6. \A i \in Items : RuleFor(i, On(x, i))' <=> RuleFor(i, On(x, i))
  BY <1>1 DEF RuleFor
<1>7. KeptNet'
  <2>1. \A i \in Items : ~isChanged(x[i]) => RuleFor(i, On(x, i))
    BY <1>3, <1>5 DEF KeptNet, Entries, On
  <2>2. \A i \in Items : (On(entry, i))' <=> On(x, i)
    BY <1>1 DEF On
  <2> QED
    BY <1>1, <1>3, <1>4, <1>5, <2>1, <2>2 DEF KeptNet, RuleFor
<1>8. ASSUME Idle', result' # "failed" PROVE FreshNet'
  <2>1. Generated(x) = <<>>
    BY <1>1, <1>8 DEF Started, Nothing, NotRun
  <2>2. ~hasToUpdatePglcmdConf(x) /\ ~hasToReloadBlocklists(x)
    BY <1>2, <2>1, NothingGenerated DEF IInv
  <2> QED
    BY <1>2, <1>4, <1>7, <2>2, QuietIsFreshNext
<1>9. ASSUME ~Idle' PROVE WayNet'
  <2>1. todo' = commands'
    BY <1>1, <1>9 DEF Started, Nothing, NotRun
  <2>2. ASSUME NEW i \in Items, isChanged(x[i])
        PROVE  Do("iptables", i, IF On(x, i) THEN "-I" ELSE "-D") \in Range(todo')
    BY <1>1, <1>5, <2>1, <2>2 DEF Ordered, RuleOrdered, WhitelistChanges
  <2>3. \A i \in Items : (On(entry, i))' <=> On(x, i)
    BY <1>1 DEF On
  <2>4. ServedNow' \/ (hasToReloadBlocklists(x) /\ todo' # <<>>)
    BY <1>1, <1>3, <1>4, <1>5, <2>1 DEF KeptNet
  <2> QED
    BY <1>1, <1>4, <2>1, <2>2, <2>3, <2>4 DEF WayNet
<1>10. result' # "applied"
  BY <1>1 DEF Started, Nothing, NotRun
<1> QED
  BY <1>7, <1>8, <1>9, <1>10

LEMMA ApplyInv ==
  ASSUME IInv, TypeInv', Idle, NEW x, Grown(x), Apply(x)
  PROVE  IInv'
<1>1. /\ entry' = x /\ UNCHANGED <<may, option, radio, disk.place>>
      /\ Started(commands') \/ Nothing(commands', FALSE) \/ NotRun
      /\ commands' = <<>> => Generated(x) = <<>>
  BY ApplyFacts
<1>2. ButtonInv'
  <2>1. CASE Started(commands')
    BY <2>1 DEF Started, ButtonInv
  <2>2. CASE NotRun
    BY <1>1, <2>2 DEF NotRun, ButtonInv
  <2>3. CASE Nothing(commands', FALSE)
    <3>1. Generated(x) = <<>> /\ x \in [Entries -> EntryStates]
      BY <1>1, <2>3 DEF Nothing, Grown
    <3>2. /\ radio # "none" /\ disk.place = radio
          /\ ~hasToUpdatePglcmdConf(x) /\ ~hasToReloadBlocklists(x)
      BY <3>1, NothingGenerated DEF IInv
    <3>3. Quiet'
      BY <1>1, <3>2 DEF Quiet, hasToUpdatePglcmdConf, hasToReloadBlocklists, OptionChanged,
                        WhitelistChanges
    <3> QED
      BY <2>3, <3>3 DEF Nothing, ButtonInv
  <2> QED
    BY <1>1, <2>1, <2>2, <2>3
<1> QED
  BY <1>2, ApplyCommands, ApplyFile, ApplyNet DEF IInv

LEMMA applyChangesInv ==
  ASSUME IInv, applyChanges
  PROVE  IInv'
<1>1. TypeInv' /\ Idle /\ Apply(entry)
  BY applyTypes DEF IInv, applyChanges
<1>2. Grown(entry)
  BY DEF Grown, IInv, TypeInv, WindowOK
<1> QED
  BY <1>1, <1>2, ApplyInv

LEMMA AllowPermanentlyInv ==
  ASSUME IInv, NEW i \in Items, AllowPermanently(i)
  PROVE  IInv'
<1> DEFINE x == [entry EXCEPT ![i] = addItem(i)]
<1>1. TypeInv' /\ Idle /\ Apply(x)
  BY AllowPermanentlyTypes DEF IInv, AllowPermanently
<1>2. Grown(x)
  <2>1. entry \in [Entries -> EntryStates] /\ i \in Entries
    BY DEF IInv, TypeInv, WindowOK, Entries
  <2>2. addItem(i) \in EntryStates
        /\ (addItem(i) = entry[i] \/ (entry[i] = Absent /\ isChanged(addItem(i))))
    BY <2>1, EntryTypes DEF addItem, Added, isChanged
  <2> QED
    BY <2>1, <2>2 DEF Grown
<1> HIDE DEF x
<1> QED
  BY <1>1, <1>2, ApplyInv

LEMMA AllowTemporarilyInv ==
  ASSUME IInv, NEW i \in Items, AllowTemporarily(i)
  PROVE  IInv'
<1> DEFINE added == getCommands({i}, [j \in {i} |-> TRUE])
<1>1. /\ TypeInv' /\ added \in Seq(Commands)
      /\ \A c : c \in Range(added) <=> c = Do("iptables", i, "-I")
  BY AllowTemporarilyTypes DEF IInv
<1>2. /\ Idle /\ Submit(added, button)
      /\ UNCHANGED <<entry, option, radio, may, disk, disabled, net, settings>>
      /\ temp' = temp \cup {i} /\ asked' = None /\ torn' = (torn \/ Changed)
  BY DEF AllowTemporarily
<1> HIDE DEF added
<1>3. /\ commands' = commands \o added /\ commands' \in Seq(Commands)
      /\ Started(commands') \/ Nothing(commands', button) \/ NotRun
  BY <1>1, <1>2, SubmitFacts DEF IInv, TypeInv
<1>4. /\ \A c : c \in Range(commands') <=> c \in Range(commands) \/ c = Do("iptables", i, "-I")
      /\ commands' # <<>>
  <2>1. \A c : c \in Range(commands') <=> c \in Range(commands) \/ c \in Range(added)
    BY <1>1, <1>3, Concatenated DEF IInv, TypeInv, QueueOK
  <2>2. Do("iptables", i, "-I") \in Range(commands')
    BY <1>1, <2>1
  <2> QED
    BY <1>1, <1>3, <2>1, <2>2, InRange
<1>5. Started(commands') \/ NotRun
  BY <1>3, <1>4 DEF Nothing
<1>6. Changed' <=> Changed
  BY <1>2 DEF Changed, OptionChanged
<1>7. ButtonInv'
  BY <1>2, <1>5 DEF Started, NotRun, ButtonInv
<1>8. CommandsInv'
  <2>1. ASSUME NEW c \in Range(commands), Caused(c) PROVE Caused(c)'
    BY <1>2, <2>1 DEF Caused, hasToUpdatePglcmdConf, hasToUpdateBlocklistsFile, OptionChanged,
                      WhitelistChanges, Wanted, On, Off
  <2>2. Caused(Do("iptables", i, "-I"))'
    BY <1>2 DEF Caused, Do, MvConf, MvLists
  <2>3. ~torn' => \A c \in Range(commands') : Caused(c)'
    BY <1>2, <1>4, <2>1, <2>2 DEF IInv, CommandsInv
  <2>4. todo' = commands' \/ Range(todo') = {}
    BY <1>1, <1>5, InRange DEF Started, NotRun, TypeInv, QueueOK
  <2>5. /\ Idle' /\ commands' # <<>> => result' = "failed"
        /\ ~Idle' => result' = "none"
    BY <1>5 DEF Started, NotRun
  <2> QED
    BY <2>3, <2>4, <2>5 DEF CommandsInv
<1>9. /\ Sane' => Sane
      /\ Running' => ~Changed'
      /\ Idle' => result' = "failed"
      /\ result' # "applied"
  BY <1>2, <1>5, <1>6 DEF Sane, Running, Started, NotRun
<1>10. FileInv'
  <2>1. ASSUME KeptInv PROVE KeptInv'
    BY <1>2, <2>1 DEF KeptInv, ItemKept, On, Off, OptionChanged, Wanted, setValueInData
  <2>2. Sane' => KeptInv'
    BY <1>9, <2>1 DEF IInv, FileInv
  <2> QED
    BY <1>2, <1>9, <2>2 DEF FileInv
<1>11. NetInv'
  <2>1. \A j \in Items, on \in BOOLEAN : RuleFor(j, on) => RuleFor(j, on)'
    BY <1>2 DEF RuleFor
  <2>2. ASSUME KeptNet PROVE KeptNet'
    <3>1. \A j \in Items : ~isChanged(entry[j]) => RuleFor(j, On(entry, j))'
      BY <2>1, <2>2, <1>2 DEF KeptNet, RuleFor, On
    <3>2. (hasToReloadBlocklists(entry) \/ ServedNow)'
      BY <1>2, <2>2 DEF KeptNet, hasToReloadBlocklists, ServedNow, Served
    <3> QED
      BY <1>2, <3>1, <3>2 DEF KeptNet
  <2>3. ASSUME "daemon" \notin may
        PROVE  net.seen = net.daemon /\ (Sane' /\ net.daemon => KeptNet')
    BY <1>9, <2>2, <2>3 DEF IInv, NetInv
  <2> QED
    BY <1>2, <1>9, <2>3 DEF NetInv
<1> QED
  BY <1>1, <1>7, <1>8, <1>10, <1>11 DEF IInv

-----------------------------------------------------------------------------
(* A command of the script *)

(* What a command leaves in the files. *)
LEMMA FilesAfter ==
  ASSUME TypeInv, TypeInv', NEW c \in Commands, Works(c), disk' = DiskAfter(c)
  PROVE  /\ c = MvConf => disk'.conf = disk.tmpconf /\ disk.tmpconf # None /\ disk'.tmpconf = None
         /\ c # MvConf => UNCHANGED <<disk.conf, disk.tmpconf>>
         /\ c = MvLists => /\ disk.tmplists # None /\ disk'.tmplists = None
                           /\ \A l \in Lists \ Local : disk'.lists[l] = disk.tmplists[l]
         /\ c # MvLists => /\ UNCHANGED disk.tmplists
                           /\ \A l \in Lists \ Local : disk'.lists[l] = disk.lists[l]
         /\ \A l \in Local :
              disk'.lists[l] = IF c.do \in {"link", "rm", "rename"} /\ c.on = l
                               THEN c.how ELSE disk.lists[l]
         /\ c.do = "mvcron" => disk.place # "none" /\ c.how # "none" /\ disk'.place = c.how
         /\ c.do # "mvcron" => UNCHANGED disk.place
         /\ UNCHANGED disk.hidden
<1>1. disk \in Disks /\ disk' \in Disks
  BY DEF TypeInv, WorldOK
<1>2. MvConf.do = "mv" /\ MvLists.do = "mv" /\ MvConf # MvLists /\ Reload.do = "reload"
  BY CommandKinds
<1>3. CASE c.do \in {"iptables", "reload"}
  <2>1. disk' = disk
    BY <1>3 DEF DiskAfter
  <2> QED
    BY <1>2, <1>3, <2>1
<1>4. CASE c = MvConf
  <2>1. disk' = [disk EXCEPT !.conf = disk.tmpconf, !.tmpconf = None] /\ disk.tmpconf # None
    BY <1>4 DEF DiskAfter, Works, MvConf, Do
  <2> QED
    BY <1>1, <1>2, <1>4, <2>1 DEF Disks
<1>5. CASE c = MvLists
  <2> DEFINE lists == [l \in Lists |-> IF l \in Local THEN disk.lists[l] ELSE disk.tmplists[l]]
  <2>1. disk' = [disk EXCEPT !.lists = lists, !.tmplists = None] /\ disk.tmplists # None
    BY <1>5 DEF DiskAfter, Works, MvLists, Do
  <2>2. /\ \A l \in Local : lists[l] = disk.lists[l]
        /\ \A l \in Lists \ Local : lists[l] = disk.tmplists[l]
    OBVIOUS
  <2> HIDE DEF lists
  <2>3. disk'.lists = lists /\ disk'.tmplists = None
        /\ UNCHANGED <<disk.conf, disk.tmpconf, disk.place, disk.hidden>>
    BY <1>1, <2>1 DEF Disks
  <2> QED
    BY <1>2, <1>5, <2>1, <2>2, <2>3
<1>6. CASE c.do \in {"link", "rm", "rename"}
  <2>1. /\ disk'.lists = [disk.lists EXCEPT ![c.on] = c.how]
        /\ UNCHANGED <<disk.conf, disk.tmpconf, disk.tmplists, disk.place, disk.hidden>>
    BY <1>1, <1>6 DEF DiskAfter, Disks
  <2>2. c.on \in Local
    BY <1>6, CommandKinds
  <2> QED
    BY <1>1, <1>2, <1>6, <2>1, <2>2 DEF Disks
<1>7. CASE c.do = "mvcron"
  <2>1. /\ disk' = [disk EXCEPT !.place = c.how]
        /\ c.on # "none" /\ c.how # "none" /\ disk.place = c.on
    BY <1>7 DEF DiskAfter, Works
  <2> QED
    BY <1>1, <1>2, <1>7, <2>1 DEF Disks
<1> QED
  BY <1>3, <1>4, <1>5, <1>6, <1>7, CommandKinds

(* And what it leaves in iptables and in pgld. *)
LEMMA RulesAfter ==
  ASSUME TypeInv, NEW c \in Commands, Works(c), net' = NetAfter(c)
  PROVE  /\ UNCHANGED <<net.daemon, net.seen>>
         /\ c.do = "iptables" /\ c.how = "-I" => net'.rules = net.rules \cup {c.on}
         /\ c.do = "iptables" /\ c.how = "-D" => net'.rules = net.rules \ ({c.on} \ Incoming)
         /\ c.do # "iptables" => UNCHANGED net.rules
         /\ c.do = "reload" /\ net.daemon => net'.served = Served(disk.lists)
         /\ c.do # "reload" => UNCHANGED net.served
<1>1. net \in Nets
  BY DEF TypeInv, WorldOK
<1>2. CASE c.do = "iptables" /\ c.how = "-I"
  BY <1>1, <1>2 DEF NetAfter, Nets
<1>3. CASE c.do = "iptables" /\ c.how = "-D"
  BY <1>1, <1>3 DEF NetAfter, Nets
<1>4. CASE c.do = "reload"
  BY <1>1, <1>4 DEF NetAfter, Nets
<1>5. CASE c.do \notin {"iptables", "reload"}
  <2>1. net' = net
    BY <1>5 DEF NetAfter
  <2> QED
    BY <1>5, <2>1
<1> QED
  BY <1>2, <1>3, <1>4, <1>5, CommandKinds

(* What a command that succeeds has to do with the rest. *)
Performed(c) ==
  /\ c \in Commands /\ Works(c) /\ net' = NetAfter(c) /\ disk' = DiskAfter(c)
  /\ ~Idle /\ ~Idle' /\ ok /\ ok' /\ result = "none"
  /\ UNCHANGED <<may, commands, entry, option, radio, settings, disabled, button>>
  /\ UNCHANGED <<result, asked, torn, temp>>
  /\ todo \in Seq(Commands) /\ todo # <<>> /\ todo' = Tail(todo)
  /\ ~torn => Caused(c)
  /\ \A d : d \in Range(todo) <=> d = c \/ d \in Range(todo')
  /\ todo' = <<>> => todo[Len(todo)] = c
  /\ todo' # <<>> => todo'[Len(todo')] = todo[Len(todo)]

LEMMA PerformedIs ==
  ASSUME IInv, Perform, Works(Head(todo))
  PROVE  Performed(Head(todo))
<1>1. /\ thread = "running" /\ todo \in Seq(Commands) /\ todo # <<>> /\ ok
  BY DEF IInv, TypeInv, QueueOK, Perform
<1>2. /\ Succeed /\ net' = NetAfter(Head(todo)) /\ disk' = DiskAfter(Head(todo))
      /\ UNCHANGED others
  BY DEF Perform
<1>3. /\ todo' = Tail(todo) /\ ~Idle /\ ~Idle' /\ ok' /\ UNCHANGED <<commands, sudo, thread>>
  BY <1>1, <1>2 DEF Succeed, Idle
<1>4. /\ Head(todo) \in Range(todo) /\ Head(todo) \in Commands
      /\ \A d : d \in Range(todo) <=> d = Head(todo) \/ d \in Range(Tail(todo))
      /\ Tail(todo) = <<>> => todo[Len(todo)] = Head(todo)
      /\ Tail(todo) # <<>> => Tail(todo)[Len(Tail(todo))] = todo[Len(todo)]
  BY <1>1, TailFacts
<1>5. result = "none" /\ (~torn => Caused(Head(todo)))
  BY <1>3, <1>4 DEF IInv, CommandsInv
<1>6. /\ UNCHANGED <<may, entry, option, radio, settings, disabled, button>>
      /\ UNCHANGED <<result, asked, torn, temp>>
  BY <1>2 DEF others, memory, shown, history
<1> QED
  BY <1>1, <1>2, <1>3, <1>4, <1>5, <1>6 DEF Performed

(* What a command brings to the files is what is shown. *)
LEMMA PerformedFiles ==
  ASSUME IInv, TypeInv', NEW c, Performed(c), Sane
  PROVE  /\ c = MvConf => /\ hasToUpdatePglcmdConf(entry) /\ settings = WantedConf
                          /\ disk'.conf = FileConf /\ disk'.tmpconf = None
         /\ c # MvConf => UNCHANGED <<disk.conf, disk.tmpconf>>
         /\ c = MvLists => /\ hasToUpdateBlocklistsFile(entry) /\ disk'.tmplists = None
                           /\ \A l \in Lists \ Local : disk'.lists[l] = Wanted(l)
         /\ c # MvLists => /\ UNCHANGED disk.tmplists
                           /\ \A l \in Lists \ Local : disk'.lists[l] = disk.lists[l]
         /\ \A l \in Local :
              \/ disk'.lists[l] = disk.lists[l] /\ ~(c.do \in {"link", "rm", "rename"} /\ c.on = l)
              \/ disk'.lists[l] = Wanted(l) /\ isChanged(entry[l])
         /\ c.do = "mvcron" => disk'.place = radio /\ radio # "none"
         /\ c.do # "mvcron" => UNCHANGED disk.place
         /\ UNCHANGED disk.hidden
         /\ Sane' /\ (Changed => asked # None)
<1>1. /\ c \in Commands /\ Works(c) /\ disk' = DiskAfter(c) /\ ~torn /\ Caused(c)
      /\ ~Idle /\ ok /\ UNCHANGED torn /\ c \in Range(todo)
  BY DEF Performed, Sane
<1>2. /\ c = MvConf => disk'.conf = disk.tmpconf /\ disk.tmpconf # None /\ disk'.tmpconf = None
      /\ c # MvConf => UNCHANGED <<disk.conf, disk.tmpconf>>
      /\ c = MvLists => /\ disk.tmplists # None /\ disk'.tmplists = None
                        /\ \A l \in Lists \ Local : disk'.lists[l] = disk.tmplists[l]
      /\ c # MvLists => /\ UNCHANGED disk.tmplists
                        /\ \A l \in Lists \ Local : disk'.lists[l] = disk.lists[l]
      /\ \A l \in Local :
           disk'.lists[l] = IF c.do \in {"link", "rm", "rename"} /\ c.on = l
                            THEN c.how ELSE disk.lists[l]
      /\ c.do = "mvcron" => disk.place # "none" /\ c.how # "none" /\ disk'.place = c.how
      /\ c.do # "mvcron" => UNCHANGED disk.place
      /\ UNCHANGED disk.hidden
  BY <1>1, FilesAfter DEF IInv
<1>3. Changed => asked # None /\ ConfInv /\ ListsInv
  BY <1>1 DEF IInv, FileInv, Running, Sane
<1>4. ASSUME c = MvConf
      PROVE  /\ hasToUpdatePglcmdConf(entry) /\ settings = WantedConf
             /\ disk'.conf = FileConf /\ disk'.tmpconf = None
  <2>1. hasToUpdatePglcmdConf(entry)
    BY <1>1, <1>4 DEF Caused
  <2>2. Changed
    <3>1. DOMAIN option = {"boot", "auto", "freq"}
      BY DEF IInv, TypeInv, WindowOK, Options
    <3> QED
      BY <2>1, <3>1 DEF hasToUpdatePglcmdConf, Changed, WhitelistChanges, Entries
  <2> QED
    BY <1>1, <1>2, <1>3, <1>4, <2>1, <2>2 DEF ConfInv
<1>5. ASSUME c = MvLists
      PROVE  /\ hasToUpdateBlocklistsFile(entry) /\ disk'.tmplists = None
             /\ \A l \in Lists \ Local : disk'.lists[l] = Wanted(l)
  <2>1. hasToUpdateBlocklistsFile(entry)
    BY <1>1, <1>5 DEF Caused
  <2>2. Changed
    BY <2>1 DEF hasToUpdateBlocklistsFile, Changed, Entries
  <2>3. disk.tmplists = WantedLists
    BY <1>1, <1>2, <1>3, <1>5, <2>1, <2>2 DEF ListsInv
  <2> QED
    BY <1>2, <1>5, <2>1, <2>3 DEF WantedLists
<1>6. ASSUME NEW l \in Local
      PROVE  \/ disk'.lists[l] = disk.lists[l] /\ ~(c.do \in {"link", "rm", "rename"} /\ c.on = l)
             \/ disk'.lists[l] = Wanted(l) /\ isChanged(entry[l])
  BY <1>1, <1>2 DEF Caused
<1>7. c.do = "mvcron" => c.how = radio
  BY <1>1 DEF Caused
<1>8. Sane'
  BY <1>1, <1>2, <1>7 DEF Sane
<1> QED
  BY <1>2, <1>3, <1>4, <1>5, <1>6, <1>7, <1>8

LEMMA PerformedKept ==
  ASSUME IInv, TypeInv', NEW c, Performed(c), Sane
  PROVE  KeptInv'
<1>1. KeptInv /\ UNCHANGED <<entry, option, radio, settings, disabled>>
  BY DEF IInv, FileInv, Performed
<1>2. /\ c = MvConf => settings = WantedConf /\ disk'.conf = FileConf
      /\ c # MvConf => UNCHANGED disk.conf
      /\ c = MvLists => \A l \in Lists \ Local : disk'.lists[l] = Wanted(l)
      /\ c # MvLists => \A l \in Lists \ Local : disk'.lists[l] = disk.lists[l]
      /\ \A l \in Local : \/ disk'.lists[l] = disk.lists[l]
                          \/ disk'.lists[l] = Wanted(l) /\ isChanged(entry[l])
      /\ UNCHANGED disk.hidden
  BY PerformedFiles
<1>3. ASSUME NEW i \in Items, ~isChanged(entry[i]) PROVE ItemKept(i)'
  <2>1. i \in disk'.conf.white <=> On(entry, i)
    BY <1>1, <1>2, <1>3 DEF KeptInv, ItemKept, WantedConf, FileConf, generatePglcmdConf
  <2> QED
    BY <1>1, <1>3, <2>1 DEF KeptInv, ItemKept, On, Off
<1>4. ASSUME NEW l \in Lists, ~isChanged(entry[l]) PROVE disk'.lists[l] = entry[l].now
  <2>1. disk.lists[l] = entry[l].now
    BY <1>1, <1>4 DEF KeptInv
  <2>2. ASSUME l \notin Local PROVE Wanted(l) = entry[l].now
    <3>1. entry[l] \in EntryStates /\ ~entry[l].removed
      BY <1>4, EntryFacts DEF IInv, TypeInv, WindowOK, Entries
    <3> QED
      BY <2>2, <3>1 DEF Wanted, On, Off, EntryStates, States
  <2> QED
    BY <1>2, <1>4, <2>1, <2>2
<1>5. \A l \in Local : disk'.lists[l] \in {entry[l].was, Wanted(l)}
  BY <1>1, <1>2 DEF KeptInv
<1>6. \A l \in Local : Wanted(l)' = Wanted(l)
  BY <1>1 DEF Wanted, On, Off
<1>7. /\ ~OptionChanged("boot") => /\ option.boot.now = settings.boot
                               /\ disk'.conf.boot = setValueInData("boot", option.boot.now)
      /\ ~OptionChanged("auto") => /\ option.auto.now = settings.auto
                               /\ disk'.conf.auto = setValueInData("auto", option.auto.now)
  BY <1>1, <1>2 DEF KeptInv, WantedConf, FileConf, generatePglcmdConf
<1>8. (OptionChanged("boot")' <=> OptionChanged("boot")) /\ (OptionChanged("auto")' <=> OptionChanged("auto"))
  BY <1>1 DEF OptionChanged
<1> QED
  BY <1>1, <1>2, <1>3, <1>4, <1>5, <1>6, <1>7, <1>8 DEF KeptInv, setValueInData

(* What is not yet done is still to come. *)
LEMMA PerformedWay ==
  ASSUME IInv, TypeInv', NEW c, Performed(c), Sane, asked # None
  PROVE  ConfInv' /\ ListsInv'
<1>1. /\ ConfInv /\ ListsInv /\ UNCHANGED <<entry, option, radio, settings>>
      /\ \A d : d \in Range(todo) <=> d = c \/ d \in Range(todo')
  BY DEF IInv, FileInv, Performed, Sane, Running
<1>2. /\ c = MvConf => disk'.conf = FileConf /\ disk'.tmpconf = None
      /\ c # MvConf => UNCHANGED <<disk.conf, disk.tmpconf>>
      /\ c = MvLists => /\ disk'.tmplists = None
                        /\ \A l \in Lists \ Local : disk'.lists[l] = Wanted(l)
      /\ c # MvLists => /\ UNCHANGED disk.tmplists
                        /\ \A l \in Lists \ Local : disk'.lists[l] = disk.lists[l]
      /\ \A l \in Local :
           \/ disk'.lists[l] = disk.lists[l] /\ ~(c.do \in {"link", "rm", "rename"} /\ c.on = l)
           \/ disk'.lists[l] = Wanted(l) /\ isChanged(entry[l])
      /\ UNCHANGED disk.hidden
  BY PerformedFiles
<1>3. /\ hasToUpdatePglcmdConf(entry)' <=> hasToUpdatePglcmdConf(entry)
      /\ hasToUpdateBlocklistsFile(entry)' <=> hasToUpdateBlocklistsFile(entry)
      /\ WantedConf' = WantedConf /\ FileConf' = FileConf /\ WantedLists' = WantedLists
      /\ \A l \in Lists : Wanted(l)' = Wanted(l)
      /\ \A l \in Local : manageLocal(entry, l)' = manageLocal(entry, l)
  BY <1>1, <1>2 DEF hasToUpdatePglcmdConf, hasToUpdateBlocklistsFile, OptionChanged,
              WhitelistChanges, WantedConf, FileConf, generatePglcmdConf, setValueInData, WantedLists, Wanted, On, Off, manageLocal
<1>4. ASSUME hasToUpdatePglcmdConf(entry)
      PROVE  /\ settings = WantedConf
             /\ disk'.conf = FileConf \/ MvConf \in Range(todo')
             /\ MvConf \in Range(todo') => disk'.tmpconf \in {FileConf, None}
  BY <1>1, <1>2, <1>4 DEF ConfInv
<1>5. ASSUME hasToUpdateBlocklistsFile(entry)
      PROVE  /\ (\A l \in Lists \ Local : disk'.lists[l] = Wanted(l)) \/ MvLists \in Range(todo')
             /\ MvLists \in Range(todo') => disk'.tmplists \in {WantedLists, None}
  BY <1>1, <1>2, <1>5 DEF ListsInv
<1>6. ASSUME NEW l \in Local, isChanged(entry[l])
      PROVE  disk'.lists[l] = Wanted(l) \/ manageLocal(entry, l) \in Range(todo')
  <2>1. manageLocal(entry, l).on = l /\ manageLocal(entry, l).do \in {"link", "rm", "rename"}
    BY <1>6, LocalCommand DEF IInv, TypeInv, WindowOK
  <2>2. c = manageLocal(entry, l) => disk'.lists[l] = Wanted(l)
    BY <1>2, <2>1
  <2> QED
    BY <1>1, <1>2, <1>6, <2>2 DEF ListsInv
<1>7. ConfInv'
  BY <1>1, <1>3, <1>4 DEF ConfInv
<1>8. ListsInv'
  BY <1>1, <1>3, <1>5, <1>6 DEF ListsInv
<1> QED
  BY <1>7, <1>8

LEMMA PerformedCron ==
  ASSUME IInv, TypeInv', NEW c, Performed(c)
  PROVE  /\ Sane' => Sane
         /\ ~torn /\ asked # None => CronInv'
<1>1. /\ c \in Commands /\ Works(c) /\ disk' = DiskAfter(c) /\ (~torn => Caused(c))
      /\ ~Idle /\ ok /\ UNCHANGED <<radio, torn>>
      /\ \A d : d \in Range(todo) <=> d = c \/ d \in Range(todo')
  BY DEF Performed
<1>2. /\ c.do = "mvcron" => disk.place # "none" /\ c.how # "none" /\ disk'.place = c.how
      /\ c.do # "mvcron" => UNCHANGED disk.place
  BY <1>1, FilesAfter DEF IInv
<1>3. ASSUME ~torn, asked # None PROVE CronInv'
  <2>1. CronInv /\ (c.do = "mvcron" => c.how = radio)
    BY <1>1, <1>3 DEF IInv, FileInv, Running, Caused
  <2> QED
    BY <1>1, <1>2, <2>1 DEF CronInv
<1> QED
  BY <1>1, <1>2, <1>3 DEF Sane

LEMMA PerformedFile ==
  ASSUME IInv, TypeInv', NEW c, Performed(c)
  PROVE  FileInv'
<1>1. /\ ~Idle /\ ~Idle' /\ ok /\ result' = "none"
      /\ UNCHANGED <<entry, option, radio, asked, torn>>
  BY DEF Performed
<1>2. Sane' => Sane /\ KeptInv'
  BY PerformedCron, PerformedKept
<1>3. (Changed' <=> Changed) /\ Shown(entry)' = Shown(entry)
  BY <1>1 DEF Changed, OptionChanged, Shown, On, Off
<1>4. ASSUME ~torn, asked # None, disk'.place # "none" PROVE ConfInv' /\ ListsInv'
  <2>1. Sane'
    BY <1>1, <1>4 DEF Sane
  <2> QED
    BY <1>2, <1>4, <2>1, PerformedWay
<1>5. /\ ~torn /\ asked = None => ~Changed
      /\ ~torn /\ asked # None => asked = Shown(entry) /\ CronInv'
  BY <1>1, PerformedCron DEF IInv, FileInv, Running
<1> QED
  BY <1>1, <1>2, <1>3, <1>4, <1>5 DEF FileInv, Running

(* A rule that is as shown stays so; so does what pgld has. *)
LEMMA PerformedRules ==
  ASSUME IInv, TypeInv', NEW c, Performed(c), Sane, "daemon" \notin may, net.daemon
  PROVE  /\ \A i \in Items : RuleFor(i, On(entry, i)) => RuleFor(i, On(entry, i))'
         /\ \A i \in Items : c = Do("iptables", i, IF On(entry, i) THEN "-I" ELSE "-D")
                               => RuleFor(i, On(entry, i))'
         /\ c = Reload => ServedNow'
         /\ ServedNow => ServedNow' \/ hasToReloadBlocklists(entry)
<1>1. /\ c \in Commands /\ Works(c) /\ net' = NetAfter(c) /\ Caused(c)
      /\ UNCHANGED <<entry, temp>>
  BY DEF Performed, Sane
<1>2. /\ c.do = "iptables" /\ c.how = "-I" => net'.rules = net.rules \cup {c.on}
      /\ c.do = "iptables" /\ c.how = "-D" => net'.rules = net.rules \ ({c.on} \ Incoming)
      /\ c.do # "iptables" => UNCHANGED net.rules
      /\ c.do = "reload" => net'.served = Served(disk.lists)
      /\ c.do # "reload" => UNCHANGED net.served
  BY <1>1, RulesAfter DEF IInv
<1>3. /\ c.do = "iptables" => c.how \in {"-I", "-D"}
      /\ c.do = "iptables" /\ c.how = "-I" => On(entry, c.on) \/ c.on \in temp
      /\ c.do = "iptables" /\ c.how = "-D" => ~On(entry, c.on)
  BY <1>1, CommandKinds DEF Caused
<1>4. \A i \in Items : On(entry, i)' <=> On(entry, i)
  BY <1>1 DEF On
<1>5. ASSUME NEW i \in Items, RuleFor(i, On(entry, i)) PROVE RuleFor(i, On(entry, i))'
  <2>1. CASE c.do = "iptables" /\ c.how = "-I"
    BY <1>1, <1>2, <1>3, <1>4, <1>5, <2>1 DEF RuleFor
  <2>2. CASE c.do = "iptables" /\ c.how = "-D"
    BY <1>1, <1>2, <1>3, <1>4, <1>5, <2>2 DEF RuleFor
  <2>3. CASE c.do # "iptables"
    BY <1>1, <1>2, <1>4, <1>5, <2>3 DEF RuleFor
  <2> QED
    BY <1>3, <2>1, <2>2, <2>3
<1>6. ASSUME NEW i \in Items, c = Do("iptables", i, IF On(entry, i) THEN "-I" ELSE "-D")
      PROVE  RuleFor(i, On(entry, i))'
  <2>1. c.do = "iptables" /\ c.on = i /\ c.how = IF On(entry, i) THEN "-I" ELSE "-D"
    BY <1>6 DEF Do
  <2> QED
    BY <1>1, <1>2, <1>4, <2>1 DEF RuleFor
<1>7. /\ c = MvLists => hasToUpdateBlocklistsFile(entry)
      /\ c # MvLists => \A l \in Lists \ Local : disk'.lists[l] = disk.lists[l]
      /\ \A l \in Local : disk'.lists[l] = disk.lists[l] \/ isChanged(entry[l])
  BY PerformedFiles
<1>8. (\A l \in Lists : disk'.lists[l] = disk.lists[l]) \/ hasToReloadBlocklists(entry)
  BY <1>7 DEF hasToUpdateBlocklistsFile, hasToReloadBlocklists
<1>9. ASSUME c = Reload PROVE ServedNow'
  <2>1. c.do = "reload"
    BY <1>9, CommandKinds
  <2>2. disk' = disk
    BY <2>1 DEF Performed, DiskAfter
  <2> QED
    BY <1>2, <2>1, <2>2 DEF ServedNow, Served
<1>10. ASSUME ServedNow PROVE ServedNow' \/ hasToReloadBlocklists(entry)
  <2>1. CASE c = Reload
    BY <1>9, <2>1
  <2>2. CASE c # Reload
    <3>1. UNCHANGED net.served
      BY <1>1, <1>2, <2>2, CommandKinds
    <3> QED
      BY <1>8, <1>10, <3>1 DEF ServedNow, Served
  <2> QED
    BY <2>1, <2>2
<1> QED
  BY <1>5, <1>6, <1>9, <1>10

LEMMA PerformedNet ==
  ASSUME IInv, TypeInv', NEW c, Performed(c)
  PROVE  NetInv'
<1>1. /\ ~Idle /\ ~Idle' /\ ok /\ result' = "none"
      /\ UNCHANGED <<may, entry, option, radio, asked, torn, temp>>
      /\ todo \in Seq(Commands) /\ todo # <<>>
      /\ \A d : d \in Range(todo) <=> d = c \/ d \in Range(todo')
      /\ todo' = <<>> => todo[Len(todo)] = c
      /\ todo' # <<>> => todo'[Len(todo')] = todo[Len(todo)]
  BY DEF Performed
<1>2. UNCHANGED <<net.daemon, net.seen>>
  BY RulesAfter DEF Performed, IInv
<1>3. \A i \in Items : On(entry, i)' <=> On(entry, i)
  BY <1>1 DEF On
<1>4. hasToReloadBlocklists(entry)' <=> hasToReloadBlocklists(entry)
  BY <1>1 DEF hasToReloadBlocklists
<1>5. ASSUME "daemon" \notin may, net.daemon, Sane
      PROVE  KeptNet' /\ (asked # None => WayNet')
  <2>1. /\ \A i \in Items : RuleFor(i, On(entry, i)) => RuleFor(i, On(entry, i))'
        /\ \A i \in Items : c = Do("iptables", i, IF On(entry, i) THEN "-I" ELSE "-D")
                              => RuleFor(i, On(entry, i))'
        /\ c = Reload => ServedNow'
        /\ ServedNow => ServedNow' \/ hasToReloadBlocklists(entry)
    BY <1>5, PerformedRules
  <2>2. KeptNet /\ (asked # None => WayNet)
    BY <1>1, <1>5 DEF IInv, NetInv, Running, Sane
  <2>3. KeptNet'
    BY <1>1, <1>3, <1>4, <2>1, <2>2 DEF KeptNet, RuleFor
  <2>4. ASSUME asked # None PROVE WayNet'
    <3>1. WayNet
      BY <2>2, <2>4
    <3>2. ASSUME NEW i \in Items, isChanged(entry[i])
          PROVE  \/ RuleFor(i, On(entry, i))'
                 \/ Do("iptables", i, IF On(entry, i) THEN "-I" ELSE "-D") \in Range(todo')
      BY <1>1, <2>1, <3>1, <3>2 DEF WayNet
    <3>3. hasToReloadBlocklists(entry) /\ todo' # <<>> => todo'[Len(todo')] = Reload
      BY <1>1, <3>1 DEF WayNet
    <3>4. ServedNow' \/ (hasToReloadBlocklists(entry) /\ todo' # <<>>)
      BY <1>1, <1>4, <2>1, <2>3, <3>1 DEF WayNet, KeptNet
    <3> QED
      BY <1>1, <1>3, <1>4, <3>2, <3>3, <3>4 DEF WayNet
  <2> QED
    BY <2>3, <2>4
<1>6. Sane' => Sane
  BY PerformedCron
<1>7. ~torn /\ disk'.place # "none" => Sane'
  BY <1>1 DEF Sane
<1>8. "daemon" \notin may => net.seen = net.daemon
  BY DEF IInv, NetInv
<1> QED
  BY <1>1, <1>2, <1>5, <1>6, <1>7, <1>8 DEF NetInv, Running

LEMMA PerformInv ==
  ASSUME IInv, Perform
  PROVE  IInv'
<1>1. CASE ~Works(Head(todo))
  BY <1>1, ThreadInv
<1>2. CASE Works(Head(todo))
  <2>1. Performed(Head(todo)) /\ TypeInv'
    BY <1>2, PerformedIs, PerformTypes DEF IInv
  <2> DEFINE c == Head(todo)
  <2> HIDE DEF c
  <2>2. Performed(c)
    BY <2>1 DEF c
  <2>3. FileInv' /\ NetInv'
    BY <2>1, <2>2, PerformedFile, PerformedNet
  <2>4. ButtonInv'
    BY <2>2 DEF Performed, ButtonInv
  <2>5. CommandsInv'
    <3>1. /\ UNCHANGED <<may, commands, result, torn, entry, option, radio, temp>>
          /\ Idle' <=> Idle
          /\ Range(todo') \subseteq Range(todo)
      BY <2>2 DEF Performed
    <3> QED
      BY <3>1, CommandsFrame DEF IInv
  <2> QED
    BY <2>1, <2>3, <2>4, <2>5 DEF IInv
<1> QED
  BY <1>1, <1>2

-----------------------------------------------------------------------------
(* The specification *)

LEMMA NextIInv == IInv /\ [Next]_vars => IInv'
<1> SUFFICES ASSUME IInv, [Next]_vars PROVE IInv'
  OBVIOUS
<1>1. CASE \E e \in Entries : Add(e) \/ Toggle(e) \/ TakeOut(e)
  BY <1>1, AddInv, ToggleInv, TakeOutInv
<1>2. CASE (\E o \in {"boot", "auto"} : checkboxChanged(o))
             \/ (\E t \in Times : updateRadioButtonToggled(t))
  BY <1>2, OptionInv
<1>3. CASE undoAll
  BY <1>3, undoInv
<1>4. CASE applyChanges
  BY <1>4, applyChangesInv
<1>5. CASE \E i \in Items : AllowPermanently(i) \/ AllowTemporarily(i)
  BY <1>5, AllowPermanentlyInv, AllowTemporarilyInv
<1>6. CASE Perform
  BY <1>6, PerformInv
<1>7. CASE SetSudo \/ Fail \/ Cancel
             \/ ((ReadScript \/ ScriptEnds) /\ UNCHANGED <<others, net, disk>>)
  BY <1>7, ThreadInv
<1>8. CASE Succeeded
  BY <1>8, SucceededInv
<1>9. CASE Failed
  BY <1>9, FailedInv
<1>10. CASE Restart
  BY <1>10, RestartInv
<1>11. CASE StartStop \/ updateDaemonState
  BY <1>11, DaemonInv
<1>12. CASE UNCHANGED vars
  <2>1. UNCHANGED <<may, commands, sudo, thread, todo, ok, disk, disabled, net, settings, entry, option, radio, button, logged, result, asked, torn, temp>>
    BY <1>12 DEF vars, queueVars, memory, shown, history
  <2>2. TypeInv'
    BY <2>1 DEF IInv, TypeInv, QueueOK, WindowOK, WorldOK, HistoryOK
  <2>3. (Idle' <=> Idle) /\ Range(todo') \subseteq Range(todo)
    BY <2>1 DEF Idle
  <2> QED
    BY <2>1, <2>2, <2>3, ButtonFrame, CommandsFrame, FileFrame, NetFrame DEF IInv
<1> QED
  BY <1>1, <1>2, <1>3, <1>4, <1>5, <1>6, <1>7, <1>8, <1>9, <1>10, <1>11, <1>12
     DEF Next, Script, rootFinished

LEMMA Invariance == Spec => []IInv
BY InitIInv, NextIInv, PTL DEF Spec

(* Everything stays of its kind: the window shows entries that can be, the   *)
(* files hold what can be written, and an idle thread has nothing left.      *)
THEOREM GuiTypes == Spec => []TypeOK
<1>1. ASSUME TypeInv PROVE TypeOK
  <2>1. /\ disk.conf \in Confs /\ disk.tmpconf \in Confs \cup {None}
        /\ disk.lists \in [Lists -> States] /\ disk.place \in Times \cup {"none"}
        /\ disk.links \subseteq Local /\ disk.hidden \subseteq {"boot", "auto"}
    BY <1>1 DEF TypeInv, WorldOK, Disks, Places
  <2>2. /\ may \in Circumstances /\ settings \in Confs /\ disabled \subseteq Items
        /\ net \in [daemon : BOOLEAN, seen : BOOLEAN, rules : SUBSET Items, served : SUBSET Lists]
        /\ ~net.daemon => net.rules = {} /\ net.served = {}
    BY <1>1 DEF TypeInv, WorldOK, Nets
  <2>3. /\ entry \in [Entries -> [was : States, now : States, removed : BOOLEAN]]
        /\ \A e \in Entries : entry[e].now = "absent" => entry[e] = Absent
        /\ radio \in Times \cup {"none"} /\ button \in BOOLEAN
    BY <1>1 DEF TypeInv, WindowOK, EntryStates, Places
  <2>4. /\ thread \in {"idle", "started", "running", "done"}
        /\ sudo \in BOOLEAN /\ ok \in BOOLEAN
        /\ thread \in {"idle", "done"} => todo = <<>>
    BY <1>1 DEF TypeInv, QueueOK
  <2>5. /\ logged \subseteq Items /\ temp \subseteq Items
        /\ result \in {"none", "applied", "failed"} /\ torn \in BOOLEAN
    BY <1>1 DEF TypeInv, HistoryOK
  <2> QED
    BY <2>1, <2>2, <2>3, <2>4, <2>5 DEF TypeOK
<1>2. IInv => TypeOK
  BY <1>1 DEF IInv
<1> QED
  BY <1>2, Invariance, PTL

(* Whenever no application runs, "Apply" is lit only if there is something   *)
(* to apply, and it is dark only if applying would take no command           *)
(* (PglGui::applyChanges, rootFinished and rootError set it).                *)
THEOREM ButtonTheorem == Spec => []ButtonTells
<1>1. ASSUME TypeInv, Quiet PROVE Generated(entry) = <<>>
  <2>1. /\ entry \in [Entries -> EntryStates] /\ Generated(entry) \in Seq(Commands)
        /\ \A c : c \in Range(Generated(entry)) <=> Ordered(entry, c)
    BY <1>1, GeneratedIs DEF TypeInv, WindowOK
  <2>2. /\ WhitelistChanges(entry) = {} /\ LocalChanges(entry) = {}
        /\ ~hasToUpdateBlocklistsFile(entry)
    BY <1>1 DEF Quiet, hasToUpdatePglcmdConf, hasToReloadBlocklists, hasToUpdateBlocklistsFile,
                LocalChanges
  <2>3. \A c : ~Ordered(entry, c)
    BY <1>1, <2>2 DEF Ordered, RuleOrdered, LocalOrdered, Quiet
  <2> QED
    BY <2>1, <2>3, InRange
<1>2. IInv => ButtonTells
  BY <1>1 DEF IInv, ButtonInv, ButtonTells
<1> QED
  BY <1>2, Invariance, PTL

(* After an application that succeeded, perhaps after others that failed at  *)
(* any command, the files hold what was shown when it was asked for, but for *)
(* an option whose name is a part of other lines of pglcmd.conf only, and    *)
(* pgld has the lists (applyChanges, setValueInData, rootFinished).          *)
THEOREM FiledTheorem == Spec => []AppliedIsFiled
<1>1. IInv => AppliedIsFiled
  <2> SUFFICES ASSUME IInv, result = "applied", ~torn
               PROVE  /\ Filed
                      /\ "daemon" \notin may /\ net.daemon =>
                           net.served = {l \in Lists : disk.lists[l] = "on"}
    BY DEF AppliedIsFiled, Filed
  <2>1. Filed
    BY DEF IInv, FileInv
  <2>2. "daemon" \notin may /\ net.daemon => ServedNow
    BY DEF IInv, NetInv, AppliedNet
  <2> QED
    BY <2>1, <2>2 DEF ServedNow, Served
<1> QED
  BY <1>1, Invariance, PTL

(* And the rules of a running pgl are those of pglcmd.conf, with what was    *)
(* allowed temporarily and the incoming addresses that cannot be taken out.  *)
THEOREM RulesTheorem == Spec => []RulesFollow
<1>1. IInv => RulesFollow
  <2> SUFFICES ASSUME IInv, result = "applied", ~torn, "daemon" \notin may, net.daemon
               PROVE  /\ disk.conf.white \subseteq net.rules
                      /\ net.rules \subseteq disk.conf.white \cup temp \cup Incoming
    BY DEF RulesFollow
  <2>1. \A i \in Items : RuleFor(i, i \in disk.conf.white)
    BY DEF IInv, NetInv, AppliedNet
  <2>2. disk.conf.white \subseteq Items /\ net.rules \subseteq Items
    BY DEF IInv, TypeInv, WorldOK, Disks, Confs, Nets
  <2> QED
    BY <2>1, <2>2 DEF RuleFor
<1> QED
  BY <1>1, Invariance, PTL

=============================================================================
