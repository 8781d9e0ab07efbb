------------------------------- MODULE Whitelist -------------------------------
(***************************************************************************)
(* The whitelist of pglgui as a list of exceptions: a word (Ports) for one *)
(* connection and one protocol (whitelist_manager.cpp, whitelist_item.cpp, *)
(* add_exception_dialog.cpp and pglgui.cpp of pglgui/src).                 *)
(*                                                                         *)
(* Gui takes an exception for an indivisible item, and shows what becomes  *)
(* of the commands of an application.  Here every application succeeds and *)
(* the words matter: 80, http and 70:90 may be the same exception.         *)
(***************************************************************************)
EXTENDS Ports

CONSTANTS
  Worlds,     (* what a behaviour has: typed, the words that are used;       *)
              (* protocols and connections, what can be ticked; hand, the    *)
              (* files were edited by hand and may hold what is not shown    *)
  MaxEntries, (* bound on the length of the list                             *)
  MaxWords,   (* bound on the words entered at once                          *)
  MaxFiled    (* bound on the values in either file at the start             *)

Protocols == {"IP", "TCP", "UDP"}
Connections == {"Incoming", "Outgoing", "Forward"}

(* The variables WHITE_TCP_IN and so on; the values of each are a list. *)
Groups == Protocols \X Connections

ASSUME WhitelistAssumption ==
  /\ MaxEntries \in Nat /\ MaxWords \in Nat /\ MaxFiled \in Nat
  /\ \A w \in Worlds : /\ w.typed \subseteq Words
                       /\ w.protocols \subseteq Protocols \ {"IP"}
                       /\ w.connections \subseteq Connections
                       /\ w.hand \in BOOLEAN

VARIABLES
  may,   (* the world of this behaviour                                     *)
  list,  (* mWhitelistItems                                                 *)
  conf,  (* WHITE_* of pglcmd.conf, which PglSettings has as well           *)
  off,   (* whitelist/WHITE_* of pglgui.conf: what is switched off          *)
  wanted (* what was asked for and has not been taken back                  *)

vars == <<may, list, conf, off, wanted>>

-----------------------------------------------------------------------------
(* Items and entries *)

Item(value, group) == [value |-> value, protocol |-> group[1], connection |-> group[2]]

(* Broken variant: an entry is known by what was typed only. *)
EntryAlone(i, was, now) ==
  [value |-> i.value, protocol |-> i.protocol, connection |-> i.connection,
   names |-> {i.value}, was |-> was, now |-> now, removed |-> FALSE]

(* WhitelistItem, with its aliases *)
Entry(i, was, now) ==
  [value |-> i.value, protocol |-> i.protocol, connection |-> i.connection,
   names |-> {i.value} \cup Aliases(i.value),
   was |-> was, now |-> now, removed |-> FALSE]

isAdded(e) == e.was = "absent"
isChanged(e) == e.was # e.now \/ e.removed
On(e) == e.now = "on" /\ ~e.removed

(* operator== of an entry and a new item *)
Same(e, i) ==
  /\ e.protocol = i.protocol /\ e.connection = i.connection
  /\ i.value \in e.names \/ containsPort(e.value, i.value)

(* The first entry that is the same, or 0. *)
indexOfItem(l, i) ==
  LET hits == {x \in 1 .. Len(l) : Same(l[x], i)}
  IN  IF hits = {} THEN 0 ELSE Min(hits)

addItem(l, i, was, now) ==
  IF indexOfItem(l, i) # 0 THEN l ELSE Append(l, Entry(i, was, now))

-----------------------------------------------------------------------------
(* Files *)

(* An address has a variable of its own, whatever its protocol. *)
getGroup(e) == <<IF isValidIp(e.value) THEN "IP" ELSE e.protocol, e.connection>>

ItemsIn(file) ==
  LET groups == SetToSeq({g \in Groups : file[g] # <<>>})
      values(g) == [n \in 1 .. Len(file[g]) |-> Item(file[g][n], g)]
  IN  FlattenSeq([n \in 1 .. Len(groups) |-> values(groups[n])])

(* The items of pglcmd.conf, then those of pglgui.conf; an item that is the  *)
(* same as one that is there already is passed over.                         *)
load(c, o) ==
  LET active == FoldLeft(LAMBDA l, i : addItem(l, i, "on", "on"), <<>>, ItemsIn(c))
  IN  FoldLeft(LAMBDA l, i : addItem(l, i, "off", "off"), active, ItemsIn(o))

add(values, v) == IF Contains(values, v) THEN values ELSE Append(values, v)
remove(values, v) ==
  FoldLeft(LAMBDA s, u : IF u = v THEN s ELSE Append(s, u), <<>>, values)

(* One value is put into or taken out of a variable. *)
Put(file, e, b) ==
  [file EXCEPT ![getGroup(e)] = IF b THEN add(@, e.value) ELSE remove(@, e.value)]

(* Broken variant: what is removed while it is switched on stays there. *)
updatePglSettingsKeeping(l) ==
  FoldLeft(LAMBDA c, e : IF isChanged(e) THEN Put(c, e, e.now = "on") ELSE c, conf, l)

updatePglSettings(l) ==
  FoldLeft(LAMBDA c, e : IF isChanged(e) THEN Put(c, e, On(e)) ELSE c, conf, l)

updateGuiSettings(l) ==
  FoldLeft(LAMBDA o, e :
             IF isChanged(e) THEN Put(o, e, e.now = "off" /\ ~e.removed) ELSE o,
           off, l)

-----------------------------------------------------------------------------
(* What an item lets through *)

(* Ports count by their number, ranges by their ends, an address as it is    *)
(* written.                                                                  *)
Meaning(w) ==
  IF isSpan(w) THEN Span(w.from, EndOf(w))
  ELSE IF portNumber(w) # -1 THEN Port(portNumber(w)) ELSE w

RuleOf(i) ==
  <<IF isValidIp(i.value) THEN "IP" ELSE i.protocol, i.connection, Meaning(i.value)>>

LetsThrough(e, i) ==
  \/ RuleOf(e) = RuleOf(i)
  \/ /\ e.protocol = i.protocol /\ e.connection = i.connection
     /\ isSpan(e.value) /\ portNumber(i.value) # -1
     /\ InSpan(portNumber(i.value), e.value)

-----------------------------------------------------------------------------
(* The dialog *)

Recognised(w) == isPort(w) \/ isValidIp(w)

(* The radio button has to say what the word is. *)
Fits(w, radio) == radio = (IF isPort(w) THEN "port" ELSE "ip")

isValid(i) ==
  /\ LET x == indexOfItem(list, i) IN x # 0 => ~On(list[x])
  /\ hasProtocol(i.value, i.protocol)

(* The items of one word: for each protocol that is ticked, or for none if   *)
(* it is an address, and for each connection.                                *)
whitelistItems(w, protocols, connections) ==
  {Item(w, g) : g \in (IF isPort(w) THEN protocols ELSE {"IP"}) \X connections}

getItems(w, radio, protocols, connections) ==
  IF Recognised(w) /\ Fits(w, radio)
    THEN {i \in whitelistItems(w, protocols, connections) : isValid(i)}
    ELSE {}

(* The dialog closes if there was nothing to object to. *)
Accepted(words, radio, protocols, connections) ==
  \A n \in 1 .. Len(words) :
    /\ Recognised(words[n]) /\ Fits(words[n], radio)
    /\ \A i \in whitelistItems(words[n], protocols, connections) : isValid(i)

(* Broken variant: what was removed stays removed. *)
addOrEnableOnly(l, i) ==
  LET x == indexOfItem(l, i)
  IN  IF x = 0 THEN Append(l, Entry(i, "absent", "on"))
      ELSE [l EXCEPT ![x].now = "on"]

(* g_ShowAddDialog, for each item: the entry that is the same is switched    *)
(* on, and put back if it was removed.                                       *)
addOrEnable(l, i) ==
  LET x == indexOfItem(l, i)
  IN  IF x = 0 THEN Append(l, Entry(i, "absent", "on"))
      ELSE [l EXCEPT ![x].now = "on", ![x].removed = FALSE]

(* A single port or an address; a range, or a name of several ports, may be  *)
(* "the same" as an entry that lets less or something else through.          *)
Single(i) ==
  /\ ~isSpan(i.value)
  /\ \A p, q \in systemPorts :
       containsName(p, i.value) /\ containsName(q, i.value) => p = q

(* Words are entered.  If there is something to object to, the dialog stays; *)
(* when it is closed then, even with "Cancel", the items it had nothing to   *)
(* object to are added all the same.                                         *)
addEntry(words, radio, protocols, connections) ==
  LET items == [n \in 1 .. Len(words) |->
                  SetToSeq(getItems(words[n], radio, protocols, connections))]
  IN  /\ list' = FoldLeft(addOrEnable, list, FlattenSeq(items))
      /\ wanted' = wanted \cup
           (IF Accepted(words, radio, protocols, connections)
              THEN {i \in UNION {whitelistItems(words[n], protocols, connections)
                                   : n \in 1 .. Len(words)} : Single(i)}
              ELSE {})
  /\ Len(list') <= MaxEntries
  /\ UNCHANGED <<may, conf, off>>

-----------------------------------------------------------------------------
(* The list in the window *)

TakenBack(e) == {i \in wanted : ~LetsThrough(e, i)}

(* whitelistItemChanged *)
Toggle(x) ==
  /\ ~list[x].removed
  /\ list' = [list EXCEPT ![x].now = IF @ = "on" THEN "off" ELSE "on"]
  /\ wanted' = TakenBack(list[x])
  /\ UNCHANGED <<may, conf, off>>

(* Broken variant: what is in the files is dropped at once, too. *)
WithoutAny(x) == RemoveAt(list, x)

Without(x) ==
  IF isAdded(list[x]) THEN RemoveAt(list, x) ELSE [list EXCEPT ![x].removed = TRUE]

removeItemAt(x) ==
  /\ ~list[x].removed
  /\ list' = Without(x)
  /\ wanted' = TakenBack(list[x])
  /\ UNCHANGED <<may, conf, off>>

Undone(e) == [e EXCEPT !.now = e.was, !.removed = FALSE]

undo ==
  /\ list' =
       FoldLeft(LAMBDA l, e : IF isAdded(e) THEN l ELSE Append(l, Undone(e)), <<>>, list)
  /\ wanted' = {}
  /\ UNCHANGED <<may, conf, off>>

-----------------------------------------------------------------------------
(* Applying *)

(* applyChanges of the entries l, and rootFinished after its success. *)
Apply(l) ==
  /\ conf' = updatePglSettings(l)
  /\ off' = updateGuiSettings(l)
  /\ list' = load(conf', off')
  /\ UNCHANGED may

Changed == \E x \in 1 .. Len(list) : isChanged(list[x])

applyChanges == Changed /\ Apply(list) /\ UNCHANGED wanted

(* whitelistItem, "Allow permanently": what is there, perhaps switched off,  *)
(* is not added.                                                             *)
AllowPermanently(i) ==
  /\ Len(list) < MaxEntries
  /\ Apply(addItem(list, i, "absent", "on"))
  /\ wanted' = IF indexOfItem(list, i) = 0 THEN wanted \cup {i} ELSE wanted

-----------------------------------------------------------------------------
Empty == [g \in Groups |-> <<>>]

(* At the start one of the variables has some values, and some values of it  *)
(* are switched off; written by pglgui, the files show all they hold.        *)
Init ==
  /\ may \in Worlds
  /\ \E p \in may.protocols \cup {"IP"}, c \in may.connections :
       LET values == {w \in may.typed : Recognised(w) /\ (isPort(w) <=> p # "IP")}
           with(v) == [Empty EXCEPT ![<<p, c>>] = v]
       IN  /\ conf \in {with(v) : v \in BoundedSeq(values, MaxFiled)}
           /\ off \in {with(v) : v \in BoundedSeq(values, MaxFiled)}
  /\ list = load(conf, off)
  /\ may.hand \/ Len(list) = Len(ItemsIn(conf)) + Len(ItemsIn(off))
  /\ wanted = {}

Next ==
  \/ \E n \in 1 .. MaxWords : \E words \in [1 .. n -> may.typed],
        radio \in {"port", "ip"}, protocols \in SUBSET may.protocols \ {{}},
        connections \in SUBSET may.connections \ {{}} :
        addEntry(words, radio, protocols, connections)
  \/ \E x \in 1 .. Len(list) : Toggle(x) \/ removeItemAt(x)
  \/ undo
  \/ applyChanges
  \/ \E w \in may.typed, p \in may.protocols, c \in may.connections :
        /\ isValidIp(w) \/ (IsInt(w) /\ w.written = 0)
        /\ AllowPermanently(Item(w, <<p, c>>))

Spec == Init /\ [][Next]_vars

-----------------------------------------------------------------------------
(* Properties *)

States == {"absent", "on", "off"}

(* Ports and names the window can compare: 080 is no alias of http, a number *)
(* of too many digits none of anything, and of x11 and X11, when a port has  *)
(* both, only one is an alias of 6000.                                       *)
Regular(w) ==
  /\ isNumber(w) => IsInt(w) /\ w.written = 0
  /\ \A p \in systemPorts : containsName(p, w) =>
       \A v \in p.names : toLower(v) = toLower(w) => v = w

Comparable(v, w) ==
  v = w \/ (Regular(v) /\ Regular(w)) \/ (IsInt(v) /\ IsInt(w))

Alike(d, e) == RuleOf(d) = RuleOf(e) /\ Comparable(d.value, e.value)

(* No two lines of the window are about the same rule, whether it was typed, *)
(* read from a file or taken from the log, and by whatever name, if these    *)
(* can be compared: one could not tell which of them counts.                 *)
ListOK ==
  /\ \A x \in 1 .. Len(list) :
       /\ list[x].was \in States /\ list[x].now \in {"on", "off"}
       /\ list[x].removed \in BOOLEAN /\ list[x].value \in may.typed
  /\ DOMAIN conf = Groups /\ DOMAIN off = Groups
  /\ \A x, y \in 1 .. Len(list) : x # y => ~Alike(list[x], list[y])

(* When no line is marked as changed, the window is what a new start of      *)
(* pglgui would show, in that order: edits that cancel each other out and    *)
(* "undo" leave nothing behind.                                              *)
UnchangedIsFiled == ~Changed => list = load(conf, off)

(* What was accepted by the dialog or allowed from the log stays on until it *)
(* is taken back, even if an entry that was switched off, or a range, had to *)
(* stand in for it, and over every application and what it reads back.  In   *)
(* files edited by hand a port may lie between two ranges around it; when    *)
(* the first one goes, the port takes the place of the second, too.          *)
WantedIsOn ==
  ~may.hand =>
    \A i \in wanted : \E x \in 1 .. Len(list) : On(list[x]) /\ LetsThrough(list[x], i)

IsIn(items, e) == \E n \in 1 .. Len(items) : Alike(items[n], e)

(* After the application, what was switched off or removed is out of         *)
(* pglcmd.conf, by whatever comparable name it is in there (only files       *)
(* edited by hand may have it twice), and what was removed is not read back  *)
(* as it was.                                                                *)
OffStaysOff ==
  [][applyChanges =>
       \A x \in 1 .. Len(list) :
         /\ ~On(list[x]) /\ ~may.hand => ~IsIn(ItemsIn(conf'), list[x])
         /\ list[x].removed =>
              \A y \in 1 .. Len(list') :
                list'[y].value = list[x].value => getGroup(list'[y]) # getGroup(list[x])]_vars

=============================================================================
