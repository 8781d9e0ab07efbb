--------------------------------- MODULE Ports ---------------------------------
(***************************************************************************)
(* What pglgui makes of a word that is to be whitelisted: ports, their     *)
(* names in /etc/services, ranges of ports, addresses with or without a    *)
(* mask (port.cpp, whitelist_manager.cpp and utils.cpp of pglgui/src).     *)
(*                                                                         *)
(* A word is a record that tells what it looks like: [port], [from, to],   *)
(* [name], [ip, mask] or [other], with numbers as toInt reads them.  What  *)
(* is the same number or, but for case, the same name is told apart by     *)
(* [written]: 0 is a number as QString::number prints it and a name in     *)
(* lower case, so that 80 and 080, or http and HTTP, are two words.        *)
(***************************************************************************)
EXTENDS Integers, Sequences, FiniteSets, SequencesExt

CONSTANT ServiceLines  (* /etc/services: number, protocol, name, aliases     *)

(* The end of an open range ("50:"). *)
LastPort == 65535

NotInt == -1  (* digits too many for toInt, or none behind "50:" *)

Port(n) == [port |-> n, written |-> 0]
Span(a, b) == [from |-> a, to |-> b, written |-> 0]
Called(s) == [name |-> s, written |-> 0]
Address(parts, mask) == [ip |-> parts, mask |-> mask, written |-> 0]
Spelled(w, n) == [w EXCEPT !.written = n]
Rubbish == [other |-> TRUE]

Names == [name : STRING, written : Nat]

(* Whatever can be typed, with the records above for how it looks. *)
Words ==
  [port : Nat \cup {NotInt}, written : Nat]
    \cup [from : Nat, to : Nat \cup {NotInt}, written : Nat] \cup Names
    \cup [ip : Seq(Nat), mask : Seq(Nat), written : Nat] \cup {Rubbish}

(* A name may be there for several numbers, and in several spellings.  That  *)
(* it is no number itself is all that is assumed of it.                      *)
ASSUME ServiceAssumption ==
  \A x \in 1 .. Len(ServiceLines) :
    /\ ServiceLines[x].number \in Nat
    /\ ServiceLines[x].names \in Seq(Names) \ {<<>>}

isNumber(w) == "port" \in DOMAIN w
isSpan(w) == "from" \in DOMAIN w
isName(w) == "name" \in DOMAIN w

toLower(w) == IF isName(w) THEN Called(w.name) ELSE w

(* A mask of 24 bits at most or of four parts, or none, which is <<>>. *)
FourParts(p) == Len(p) = 4 /\ \A n \in 1 .. 4 : p[n] <= 255

isValidIp(w) ==
  /\ "ip" \in DOMAIN w
  /\ FourParts(w.ip)
  /\ \/ w.mask = <<>>
     \/ Len(w.mask) = 1 /\ w.mask[1] <= 24
     \/ FourParts(w.mask)

-----------------------------------------------------------------------------
(* Of a line's aliases only the first is read. *)
parsePort(l) ==
  [number |-> l.number, protocols |-> {l.protocol},
   names |-> {l.names[n] : n \in {1, 2} \cap 1 .. Len(l.names)}
               \cup (IF l.number > 0 THEN {Port(l.number)} ELSE {})]

(* Lines for the same number are one port; its number is one of its names.   *)
systemPorts ==
  LET lines == {parsePort(ServiceLines[x]) : x \in 1 .. Len(ServiceLines)}
      of(n) == {l \in lines : l.number = n}
  IN  {[number |-> n, protocols |-> UNION {l.protocols : l \in of(n)},
        names |-> UNION {l.names : l \in of(n)}]
         : n \in {l.number : l \in lines} \ {0}}

containsName(p, w) == w \in p.names

(* The first of the ports that have the name: the table has an order of its  *)
(* own.                                                                      *)
IsKnown(w) == \E p \in systemPorts : containsName(p, w)
PortOf(w) == CHOOSE p \in systemPorts : containsName(p, w)

(* toInt makes 0 of what it cannot read.                                     *)
portNumber(w) ==
  IF isNumber(w) THEN (IF w.port = NotInt THEN 0 ELSE w.port)
  ELSE IF IsKnown(w) THEN PortOf(w).number ELSE -1

isPort(w) == isSpan(w) \/ isNumber(w) \/ portNumber(toLower(w)) # -1

(* Of names that differ by case only, the word's own or the one that comes   *)
(* first is taken.                                                           *)
Spelling(p, w) == CHOOSE v \in p.names : toLower(v) = toLower(w)

(* The other names of a port, when the word is one of them. *)
Aliases(w) ==
  {v \in IF IsKnown(w) THEN PortOf(w).names ELSE {} :
     toLower(v) # toLower(w) /\ v = Spelling(PortOf(w), v)}

(* A service that is not listed for a protocol does not work over it. *)
hasProtocol(w, protocol) ==
  \A p \in systemPorts : containsName(p, w) => protocol \in p.protocols

-----------------------------------------------------------------------------
EndOf(w) == IF w.to = NotInt THEN LastPort ELSE w.to

IsInt(w) == isNumber(w) /\ w.port # NotInt
InSpan(n, w) == w.from <= n /\ n <= EndOf(w)

(* Is the port or range "other" that of the entry w, or inside it?  A port   *)
(* matches the ranges around it, too, and a range without an end counts as   *)
(* inside every range that starts before it (whitelist_item.cpp:101).        *)
containsPort(w, other) ==
  \/ IsInt(w) /\ IsInt(other) /\ w.port = other.port
  \/ IsInt(w) /\ isSpan(other) /\ InSpan(w.port, other)
  \/ isSpan(w) /\ IsInt(other) /\ InSpan(other.port, w)
  \/ /\ isSpan(w) /\ isSpan(other)
     /\ w.from <= other.from
     /\ other.to = NotInt \/ other.to <= EndOf(w)

=============================================================================
