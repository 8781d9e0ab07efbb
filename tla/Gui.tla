--------------------------------- MODULE Gui ---------------------------------
(***************************************************************************)
(* The settings in pglgui: edit, apply, undo.  An entry of the whitelist   *)
(* or of the blocklists and each option has a value that is shown and one  *)
(* that is active (Option).  applyChanges of pglgui/src/pglgui.cpp makes   *)
(* commands of the differences, which RootQueue runs; when they are        *)
(* through, rootFinished loads everything from the files again.            *)
(*                                                                         *)
(* PglSettings keeps the variables of pglcmd.conf in memory: an            *)
(* application changes them there first.  The variables INIT, CRON and     *)
(* WHITE_* are the ones modelled; their defaults are "1", "1" and "".      *)
(* The options "boot" and "auto" stand for INIT and CRON.                  *)
(***************************************************************************)
EXTENDS RootQueue, FiniteSets, SequencesExt

CONSTANTS
  Items,     (* ports and addresses that may be whitelisted                 *)
  Incoming,  (* those that are addresses of incoming connections            *)
  Lists,     (* blocklists                                                  *)
  Local,     (* those that are files in LOCAL_BLOCKLIST_DIR, not URLs       *)
  MaxCommands, (* bound on m_Commands, which grows while there is no sudo  *)
  Circumstances  (* sets of what there is in a behaviour:                   *)
                 (* "white", "lists", "options": edits of these             *)
                 (* "undo": the undo button,  "log": whitelisting from the  *)
                 (* log,  "restart": pglgui is ended and started again      *)
                 (* "nosudo": no sudo program is known at first              *)
                 (* "fail": commands fail,  "full": so does writing scripts *)
                 (* "daemon": pgld is started and stopped meanwhile         *)
                 (* "hidden": the names of options are parts of other lines *)

ASSUME GuiAssumption ==
  /\ Incoming \subseteq Items /\ Local \subseteq Lists
  /\ Items \cap Lists = {}
  /\ IsFiniteSet(Items) /\ IsFiniteSet(Lists)
  /\ MaxCommands \in Nat
  /\ Circumstances \subseteq SUBSET {"white", "lists", "options", "undo", "log",
                                      "restart", "nosudo", "fail", "full", "daemon", "hidden"}

Entries == Items \cup Lists

(* Where /etc/cron.* may have the script; there is "monthly" besides. *)
Times == {"daily", "weekly"}

(* What a line of blocklists.list, or a file of the local directory, may be. *)
States == {"absent", "on", "off"}

VARIABLES
  may,      (* which of the circumstances this behaviour has                *)
  disk,     (* conf: pglcmd.conf;  lists: blocklists.list and the local     *)
            (* directory;  place: where in /etc/cron.* pglcmd is;  tmpconf,  *)
            (* tmplists, links: what applyChanges leaves in /tmp;            *)
            (* hidden: the options that have no line of their own in         *)
            (* pglcmd.conf, but other lines have their names in them, as     *)
            (* CRON_MAILTO has CRON                                          *)
  disabled, (* the whitelist items in pglgui.conf, those switched off        *)
  net,      (* daemon: pgld runs;  seen: PglDaemon thinks so;                *)
            (* rules: the items whitelisted in iptables;                     *)
            (* served: the lists pgld has                                    *)
  settings, (* the variables in PglSettings                                  *)
  entry,    (* the entries shown in the window, or Absent                    *)
  option,   (* the options shown                                             *)
  radio,    (* the radio button that is checked                              *)
  button,   (* the buttons "Apply" and "Undo" are enabled                    *)
  logged,   (* mLogViewWhitelistItems                                        *)
  result,   (* how the last application went                                 *)
  asked,    (* what was shown when it was asked for                          *)
  torn,     (* something was edited or taken back after a failure            *)
  temp      (* the items allowed temporarily                                 *)

shown == <<entry, option, radio>>
memory == <<settings, shown, button, logged>>
history == <<result, asked, torn, temp>>
vars == <<may, queueVars, disk, disabled, net, memory, history>>

-----------------------------------------------------------------------------
(* Values, and the active ones beside them *)

Absent == [was |-> "absent", now |-> "absent", removed |-> FALSE]
None == [none |-> TRUE]

Value(w, n) == [was |-> w, now |-> n]
Active(v) == Value(v, v)

Loaded(state) ==
  IF state = "absent" THEN Absent ELSE [was |-> state, now |-> state, removed |-> FALSE]

Added == [was |-> "absent", now |-> "on", removed |-> FALSE]

isAdded(x) == x # Absent /\ x.was = "absent"
isChanged(x) == x.was # x.now \/ x.removed

(* What undo makes of an option and of an entry.  A blocklist that was added *)
(* is left without a location, which is as if it were not there.             *)
UndoneOption(v) == Active(v.was)
Undone(x) == Loaded(x.was)

(* "isEnabled" and "isDisabled", and it stays. *)
On(x, e) == x[e].now = "on" /\ ~x[e].removed
Off(x, e) == x[e].now = "off" /\ ~x[e].removed

OptionChanged(o) == option[o].was # option[o].now

(* The entries that have a line in the window. *)
Listed(e) == entry[e] # Absent /\ ~entry[e].removed

(* PglCore::isChanged *)
Changed ==
  \/ \E o \in DOMAIN option : OptionChanged(o)
  \/ \E e \in Entries : isChanged(entry[e])

(* The choices to be seen.  A local list that is added and switched off is   *)
(* odd: applyChanges adds it switched on.                                    *)
Shown(x) ==
  [on |-> {e \in Entries : On(x, e)}, off |-> {e \in Entries : Off(x, e)},
   boot |-> option.boot.now, auto |-> option.auto.now, radio |-> radio,
   odd |-> {l \in Local : isAdded(x[l]) /\ x[l].now = "off"}]

-----------------------------------------------------------------------------
(* What an application makes of the entries x and the options *)

Do(what, on, how) == [do |-> what, on |-> on, how |-> how]

ForAll(set, command) == [n \in 1 .. Cardinality(set) |-> command[SetToSeq(set)[n]]]
If(condition, queue) == IF condition THEN queue ELSE <<>>

(* WhitelistManager::getCommands *)
getCommands(items, allows) ==
  ForAll(items, [i \in items |-> Do("iptables", i, IF allows[i] THEN "-I" ELSE "-D")])

WhitelistChanges(x) == {i \in Items : isChanged(x[i])}

(* Broken variant: an item that is switched off stays allowed. *)
generateIptablesCommandsOn(x) ==
  getCommands(WhitelistChanges(x), [i \in Items |-> ~x[i].removed])

(* An item that is switched off or removed is disallowed. *)
generateIptablesCommands(x) ==
  getCommands(WhitelistChanges(x), [i \in Items |-> On(x, i)])

(* Broken variant: PglSettings keeps what is switched off. *)
updatePglSettingsAdding(x) ==
  settings.white \cup {i \in WhitelistChanges(x) : On(x, i)}

(* WhitelistManager::updatePglSettings *)
updatePglSettings(x) ==
  (settings.white \ WhitelistChanges(x)) \cup {i \in WhitelistChanges(x) : On(x, i)}

(* PglCore::generatePglcmdConf puts what has changed into PglSettings, where *)
(* it stays whatever becomes of the file.                                    *)
storeSettings(x) ==
  [white |-> updatePglSettings(x),
   boot |-> IF OptionChanged("boot") THEN option.boot.now ELSE settings.boot,
   auto |-> IF OptionChanged("auto") THEN option.auto.now ELSE settings.auto]

(* Any line with the name of the variable in it is taken for its line, and   *)
(* only if there is none is one added: one that is hidden keeps its default. *)
setValueInData(o, value) == IF o \in disk.hidden THEN TRUE ELSE value

(* PglSettings::generatePglcmdConf, of the variables s. *)
generatePglcmdConf(s) ==
  [white |-> s.white,
   boot |-> setValueInData("boot", s.boot), auto |-> setValueInData("auto", s.auto)]

hasToUpdatePglcmdConf(x) ==
  OptionChanged("boot") \/ OptionChanged("auto") \/ WhitelistChanges(x) # {}

(* The lines of the URLs, some of which are new and some commented out.      *)
generateBlocklistsFile(x) ==
  [l \in Lists \ Local |->
     CASE On(x, l) -> "on" [] Off(x, l) -> "off" [] OTHER -> "absent"]

hasToUpdateBlocklistsFile(x) == \E l \in Lists \ Local : isChanged(x[l])
hasToReloadBlocklists(x) == \E l \in Lists : isChanged(x[l])

(* The local lists to be linked, removed or renamed; one that is not where   *)
(* it was when it was loaded is passed over.                                 *)
exists(x, l) == isAdded(x[l]) \/ disk.lists[l] = x[l].was
LocalChanges(x) == {l \in Local : isChanged(x[l]) /\ exists(x, l)}

manageLocal(x, l) ==
  CASE isAdded(x[l]) -> Do("link", l, "on")
    [] x[l].removed -> Do("rm", l, "absent")
    [] OTHER -> Do("rename", l, x[l].now)

(* The frequency is that of the radio button; with none its path is empty.   *)
updateFrequency ==
  If(radio = "none" \/ disk.place # radio, <<Do("mvcron", disk.place, radio)>>)

(* What applyChanges adds to m_Commands. *)
Generated(x) ==
  If(net.seen, generateIptablesCommands(x))
    \o If(hasToUpdatePglcmdConf(x), <<Do("mv", "pglcmd.conf", "")>>)
    \o If(hasToUpdateBlocklistsFile(x), <<Do("mv", "blocklists.list", "")>>)
    \o ForAll(LocalChanges(x), [l \in LocalChanges(x) |-> manageLocal(x, l)])
    \o updateFrequency
    \o If(hasToReloadBlocklists(x), <<Do("reload", "", "")>>)

-----------------------------------------------------------------------------
(* Loading *)

loadOptions(conf, place) ==
  LET frequency == IF conf.auto THEN place ELSE "none" IN
  [boot |-> Active(conf.boot), auto |-> Active(frequency # "none"), freq |-> Active(frequency)]

(* The items of pglcmd.conf, then those of pglgui.conf that are not there    *)
(* yet.                                                                      *)
loadWhitelist(white, off) ==
  [i \in Items |-> Loaded(IF i \in white THEN "on" ELSE IF i \in off THEN "off" ELSE "absent")]

loadBlocklists(lists) == [l \in Lists |-> Loaded(lists[l])]

Window(lists, items) == [e \in Entries |-> IF e \in Items THEN items[e] ELSE lists[e]]

(* PglCore::load after PglSettings::loadSettings has made s of the settings. *)
load(s, off) ==
  /\ settings' = s
  /\ option' = loadOptions(s, disk.place)
  /\ entry' = Window(loadBlocklists(disk.lists), loadWhitelist(disk.conf.white, off))

(* loadSettings takes over only what differs from the default: a value in    *)
(* memory stays if the file has the default.                                 *)
loadSettings ==
  [white |-> IF disk.conf.white # {} THEN disk.conf.white ELSE settings.white,
   boot |-> disk.conf.boot /\ settings.boot,
   auto |-> disk.conf.auto /\ settings.auto]

updateGuiSettings ==
  (disabled \ WhitelistChanges(entry)) \cup {i \in WhitelistChanges(entry) : Off(entry, i)}

(* loadGUI: setChecked(false) does not clear an exclusive radio button.      *)
Checked(frequency) == IF frequency = "none" THEN radio ELSE frequency

-----------------------------------------------------------------------------
(* Edits *)

Idle == thread = "idle"

(* An edit after an application that failed: what that one has left in       *)
(* PglSettings, in iptables and in files is no longer what is shown.  After  *)
(* one that succeeded, what was asked for is forgotten.                      *)
Outdate ==
  /\ torn' = (torn \/ result = "failed")
  /\ result' = IF result = "applied" THEN "none" ELSE result
  /\ asked' = None

Edited ==
  /\ Outdate
  /\ button' = Changed'
  /\ UNCHANGED <<may, queueVars, disk, disabled, net, settings, logged, temp>>

MayEdit(e) == (IF e \in Items THEN "white" ELSE "lists") \in may

Edit(e, x) ==
  /\ Idle /\ MayEdit(e)
  /\ entry' = [entry EXCEPT ![e] = x]
  /\ UNCHANGED <<option, radio>>
  /\ Edited

(* The dialog does not take an entry again that is switched on. *)
isValid(e) == ~On(entry, e)

(* g_ShowAddDialog: an entry that is there is switched on. *)
Add(e) ==
  /\ isValid(e)
  /\ Edit(e, IF entry[e] = Absent THEN Added
             ELSE [entry[e] EXCEPT !.now = "on", !.removed = FALSE])

(* whitelistItemChanged, blocklistItemChanged *)
Toggle(e) ==
  /\ Listed(e)
  /\ Edit(e, [entry[e] EXCEPT !.now = IF @ = "on" THEN "off" ELSE "on"])

(* Broken variant: what is removed is merely blanked. *)
RemovedBlanking(x) == [x EXCEPT !.now = "absent"]

(* removeItemAt, removeBlocklist *)
Removed(x) == IF x.was = "absent" THEN Absent ELSE [x EXCEPT !.removed = TRUE]

TakeOut(e) ==
  /\ Listed(e)
  /\ Edit(e, Removed(entry[e]))

checkboxChanged(o) ==
  /\ Idle /\ "options" \in may
  /\ option' = [option EXCEPT ![o].now = ~@]
  /\ UNCHANGED <<entry, radio>>
  /\ Edited

(* The radio buttons are enabled while "update automatically" is checked.    *)
updateRadioButtonToggled(t) ==
  /\ Idle /\ "options" \in may
  /\ option.auto.now
  /\ radio' = t
  /\ option' = [option EXCEPT !.freq.now = t]
  /\ UNCHANGED entry
  /\ Edited

(* PglCore::undo, and loadGUI *)
undoAll ==
  /\ Idle /\ button /\ "undo" \in may
  /\ entry' = [e \in Entries |-> Undone(entry[e])]
  /\ option' = [o \in DOMAIN option |-> UndoneOption(option[o])]
  /\ radio' = Checked(option.freq.was)
  /\ button' = FALSE
  /\ Outdate
  /\ UNCHANGED <<may, queueVars, disk, disabled, net, settings, logged, temp>>

-----------------------------------------------------------------------------
(* Applying *)

(* executeAll with the commands added; other is what the button is otherwise *)
(* (rootError looks at what has changed).                                    *)
Submit(added, other) ==
  LET queue == commands \o added IN
  /\ Len(queue) <= MaxCommands
  /\ \/ /\ executeAll(queue)
        /\ button' = IF Refused(queue) THEN Changed' ELSE other
        /\ result' = IF Refused(queue) THEN "failed" ELSE "none"
     \/ /\ "full" \in may /\ queue # <<>>
        /\ executeNothing(queue)
        /\ button' = other
        /\ result' = "failed"

(* PglGui::applyChanges, of the entries x. *)
Apply(x) ==
  /\ entry' = x
  /\ settings' = IF hasToUpdatePglcmdConf(x) THEN storeSettings(x) ELSE settings
  /\ disk' = [disk EXCEPT
       !.tmpconf = IF hasToUpdatePglcmdConf(x) THEN generatePglcmdConf(settings') ELSE @,
       !.tmplists = IF hasToUpdateBlocklistsFile(x) THEN generateBlocklistsFile(x) ELSE @,
       !.links = @ \cup {l \in LocalChanges(x) : isAdded(x[l])}]
  /\ asked' = Shown(x)
  /\ UNCHANGED <<option, radio>>
  /\ Submit(Generated(x), FALSE)
  /\ UNCHANGED <<may, disabled, net, torn, temp>>

applyChanges ==
  /\ Idle /\ button
  /\ Apply(entry)
  /\ UNCHANGED logged

(* An item that is there, perhaps switched off or removed, is not added. *)
addItem(i) == IF entry[i] = Absent THEN Added ELSE entry[i]

(* whitelistItem, "Allow permanently". *)
AllowPermanently(i) ==
  /\ Idle /\ "log" \in may /\ net.seen
  /\ Apply([entry EXCEPT ![i] = addItem(i)])
  /\ logged' = logged \cup {i}

(* whitelistItem, "Allow temporarily".  Edits that are pending will be lost, *)
(* those that switch something off half saved.                               *)
AllowTemporarily(i) ==
  /\ Idle /\ "log" \in may /\ net.seen
  /\ UNCHANGED <<entry, option, radio>>
  /\ Submit(getCommands({i}, [j \in {i} |-> TRUE]), button)
  /\ temp' = temp \cup {i}
  /\ asked' = None
  /\ torn' = (torn \/ Changed)
  /\ UNCHANGED <<may, disk, disabled, net, settings, logged>>

(* openSettingsDialog: the path of a sudo program is set. *)
SetSudo ==
  /\ Idle /\ ~sudo
  /\ sudo' = TRUE
  /\ UNCHANGED <<may, commands, thread, todo, ok, disk, disabled, net, memory, history>>

-----------------------------------------------------------------------------
(* The script *)

(* "iptables -L | grep || iptables -I" and "! (...) || iptables -D" do       *)
(* nothing twice.  For addresses of incoming connections the "!" is missing: *)
(* a rule that is there is kept, and one that is not is deleted in vain.     *)
Works(c) ==
  CASE c.do = "iptables" /\ c.how = "-I" -> net.daemon
    [] c.do = "iptables" /\ c.how = "-D" -> c.on \in Incoming => c.on \in net.rules
    [] c.do = "mv" /\ c.on = "pglcmd.conf" -> disk.tmpconf # None
    [] c.do = "mv" /\ c.on = "blocklists.list" -> disk.tmplists # None
    [] c.do = "link" -> c.on \in disk.links
    [] c.do = "rename" -> disk.lists[c.on] \notin {"absent", c.how}
    [] c.do = "mvcron" -> c.on # "none" /\ c.how # "none" /\ disk.place = c.on
    [] OTHER -> TRUE

Served(lists) == {l \in Lists : lists[l] = "on"}

NetAfter(c) ==
  CASE c.do = "iptables" /\ c.how = "-I" -> [net EXCEPT !.rules = @ \cup {c.on}]
    [] c.do = "iptables" /\ c.how = "-D" -> [net EXCEPT !.rules = @ \ ({c.on} \ Incoming)]
    [] c.do = "reload" /\ net.daemon -> [net EXCEPT !.served = Served(disk.lists)]
    [] OTHER -> net

DiskAfter(c) ==
  CASE c.do = "mv" /\ c.on = "pglcmd.conf" ->
         [disk EXCEPT !.conf = disk.tmpconf, !.tmpconf = None]
    [] c.do = "mv" /\ c.on = "blocklists.list" ->
         [disk EXCEPT !.lists = [l \in Lists |-> IF l \in Local THEN disk.lists[l] ELSE disk.tmplists[l]],
                      !.tmplists = None]
    [] c.do = "link" -> [disk EXCEPT !.lists[c.on] = c.how, !.links = @ \ {c.on}]
    [] c.do \in {"rm", "rename"} -> [disk EXCEPT !.lists[c.on] = c.how]
    [] c.do = "mvcron" -> [disk EXCEPT !.place = c.how]
    [] OTHER -> disk

others == <<may, disabled, memory, history>>

Perform ==
  /\ thread = "running" /\ todo # <<>>
  /\ IF Works(Head(todo))
       THEN Succeed /\ net' = NetAfter(Head(todo)) /\ disk' = DiskAfter(Head(todo))
       ELSE Abort /\ UNCHANGED <<net, disk>>
  /\ UNCHANGED others

(* A command fails, or the password is wrong. *)
Fail ==
  /\ "fail" \in may
  /\ \/ thread = "started"
     \/ thread = "running" /\ todo # <<>>
  /\ Abort
  /\ UNCHANGED <<others, net, disk>>

(* The button of the dialog kills the sudo program; whether this counts as   *)
(* an error depends on what that program makes of the signal.                *)
Cancel ==
  /\ "fail" \in may
  /\ thread \in {"started", "running"}
  /\ thread' = "done" /\ todo' = <<>> /\ ok' \in BOOLEAN
  /\ torn' = TRUE
  /\ UNCHANGED <<commands, sudo, may, disabled, memory, result, asked, temp, net, disk>>

Script ==
  \/ Perform
  \/ (ReadScript \/ ScriptEnds) /\ UNCHANGED <<others, net, disk>>

(* rootFinished after a success *)
Succeeded ==
  /\ ok
  /\ processFinished
  /\ disabled' = updateGuiSettings
  /\ load(loadSettings, disabled')
  /\ radio' = Checked(option'.freq.was)
  /\ button' = FALSE
  /\ result' = IF asked = None THEN "none" ELSE "applied"
  /\ UNCHANGED <<may, disk, net, logged, asked, torn, temp>>

clearLogViewWhitelistItems ==
  /\ entry' = [e \in Entries |-> IF e \in logged THEN Removed(entry[e]) ELSE entry[e]]
  /\ logged' = {}
  /\ UNCHANGED <<option, radio>>

(* Broken variant: the button is left as applyChanges left it. *)
cleanupSilently == clearLogViewWhitelistItems /\ UNCHANGED button

cleanup == clearLogViewWhitelistItems /\ button' = Changed'

(* rootFinished after a failure *)
Failed ==
  /\ ~ok
  /\ processFinished
  /\ cleanup
  /\ result' = "failed" /\ asked' = None
  /\ torn' = (torn \/ logged # {})
  /\ UNCHANGED <<may, disk, disabled, net, settings, temp>>

rootFinished == Succeeded \/ Failed

-----------------------------------------------------------------------------
(* The rest of the world *)

(* pglgui ends and is started again. *)
Restart ==
  /\ Idle /\ "restart" \in may
  /\ commands' = <<>>
  /\ load(disk.conf, disabled)
  /\ radio' = option'.freq.was
  /\ button' = FALSE
  /\ logged' = {}
  /\ Outdate
  /\ UNCHANGED <<may, sudo, thread, todo, ok, disk, disabled, net, temp>>

(* pglcmd start inserts the rules of pglcmd.conf, stop removes them all.     *)
StartStop ==
  /\ "daemon" \in may
  /\ net' = IF net.daemon
       THEN [net EXCEPT !.daemon = FALSE, !.rules = {}, !.served = {}]
       ELSE [net EXCEPT !.daemon = TRUE, !.rules = disk.conf.white,
                        !.served = Served(disk.lists)]
  /\ temp' = {}
  /\ UNCHANGED <<may, queueVars, disk, disabled, memory, result, asked, torn>>

(* PglDaemon looks for the process from time to time. *)
updateDaemonState ==
  /\ net.seen # net.daemon
  /\ net' = [net EXCEPT !.seen = net.daemon]
  /\ UNCHANGED <<may, queueVars, disk, disabled, memory, history>>

-----------------------------------------------------------------------------
(* Specification *)

Confs == [white : SUBSET Items, boot : BOOLEAN, auto : BOOLEAN]

(* What is not edited has one initial value. *)
Init ==
  /\ may \in Circumstances
  /\ QueueInit
  /\ "nosudo" \notin may => sudo
  /\ \E white \in SUBSET Items, boot, auto \in BOOLEAN, place \in Times \cup {"none"},
        lists \in [Lists -> States], daemon \in BOOLEAN, hidden \in SUBSET {"boot", "auto"} :
       /\ {"white", "log"} \cap may = {} => white = {}
       /\ "options" \notin may => boot /\ auto /\ place = "daily"
       /\ "lists" \notin may => \A l \in Lists : lists[l] = "absent"
       /\ "hidden" \notin may => hidden = {}
       /\ ("boot" \in hidden => boot) /\ ("auto" \in hidden => auto)
       /\ disk = [conf |-> [white |-> white, boot |-> boot, auto |-> auto],
                  lists |-> lists, place |-> place,
                  tmpconf |-> None, tmplists |-> None, links |-> {}, hidden |-> hidden]
       /\ net = [daemon |-> daemon, seen |-> daemon,
                 rules |-> IF daemon THEN white ELSE {},
                 served |-> IF daemon THEN Served(lists) ELSE {}]
       /\ disabled \in SUBSET (Items \ white)
       /\ {"white", "log"} \cap may = {} => disabled = {}
       /\ settings = disk.conf
       /\ option = loadOptions(settings, place)
       /\ entry = Window(loadBlocklists(lists), loadWhitelist(white, disabled))
       /\ radio = option.freq.was
  /\ button = FALSE /\ logged = {}
  /\ result = "none" /\ asked = None /\ torn = FALSE /\ temp = {}

Next ==
  \/ \E e \in Entries : Add(e) \/ Toggle(e) \/ TakeOut(e)
  \/ \E o \in {"boot", "auto"} : checkboxChanged(o)
  \/ \E t \in Times : updateRadioButtonToggled(t)
  \/ undoAll
  \/ applyChanges
  \/ \E i \in Items : AllowPermanently(i) \/ AllowTemporarily(i)
  \/ SetSudo
  \/ Script \/ Fail \/ Cancel \/ rootFinished
  \/ Restart
  \/ StartStop \/ updateDaemonState

Spec == Init /\ [][Next]_vars

-----------------------------------------------------------------------------
(* Properties *)

TypeOK ==
  /\ may \in Circumstances
  /\ thread \in {"idle", "started", "running", "done"}
  /\ sudo \in BOOLEAN /\ ok \in BOOLEAN
  /\ thread \in {"idle", "done"} => todo = <<>>
  /\ disk.conf \in Confs /\ disk.tmpconf \in Confs \cup {None}
  /\ disk.lists \in [Lists -> States] /\ disk.place \in Times \cup {"none"}
  /\ disk.links \subseteq Local /\ disk.hidden \subseteq {"boot", "auto"}
  /\ settings \in Confs
  /\ disabled \subseteq Items
  /\ net \in [daemon : BOOLEAN, seen : BOOLEAN, rules : SUBSET Items, served : SUBSET Lists]
  /\ ~net.daemon => net.rules = {} /\ net.served = {}
  /\ entry \in [Entries -> [was : States, now : States, removed : BOOLEAN]]
  /\ \A e \in Entries : entry[e].now = "absent" => entry[e] = Absent
  /\ radio \in Times \cup {"none"} /\ button \in BOOLEAN
  /\ logged \subseteq Items /\ temp \subseteq Items
  /\ result \in {"none", "applied", "failed"} /\ torn \in BOOLEAN

(* An application that succeeded, perhaps after others that failed anywhere, *)
(* has left in the files what was shown when it was asked for, and pgld has  *)
(* the lists.  Only an option that is hidden has no place in pglcmd.conf.    *)
AppliedIsFiled ==
  result = "applied" /\ ~torn =>
    LET of(state) == {l \in Lists : disk.lists[l] = state} IN
    /\ disk.conf.white = asked.on \cap Items
    /\ "boot" \notin disk.hidden => disk.conf.boot = asked.boot
    /\ "auto" \notin disk.hidden => disk.conf.auto = asked.auto
    /\ disabled = asked.off \cap Items
    /\ of("on") \ asked.odd = asked.on \cap Lists
    /\ of("off") \ asked.odd = (asked.off \cap Lists) \ asked.odd
    /\ disk.place = asked.radio
    /\ "daemon" \notin may /\ net.daemon => net.served = of("on")

(* pglgui.cpp:569: "apply new changes directly in iptables".  When the       *)
(* application has succeeded, the whitelist of a running pgl is that of      *)
(* pglcmd.conf and what was allowed temporarily; only incoming addresses     *)
(* that were taken out stay in.                                              *)
RulesFollow ==
  result = "applied" /\ ~torn /\ "daemon" \notin may /\ net.daemon =>
    /\ disk.conf.white \subseteq net.rules
    /\ net.rules \subseteq disk.conf.white \cup temp \cup Incoming

(* Whenever one can press it, the button tells if there is something to      *)
(* apply or to undo.  It is dark beside a changed setting only if applying   *)
(* that would take no command: another frequency that is that of the file.   *)
ButtonTells ==
  Idle /\ "full" \notin may =>
    /\ button => Changed
    /\ Changed => button \/ Generated(entry) = <<>>

=============================================================================
