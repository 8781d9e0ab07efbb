---------------------------- MODULE Iptables_proofs ----------------------------
(***************************************************************************)
(* Proofs about Iptables for any choice and order of the chains, and all   *)
(* circumstances at once: what sends packets to pgld is recorded for       *)
(* removal and has all its rules, the list decides, the rules are those of *)
(* the configuration file, and a stop or a failed start cleans up.         *)
(***************************************************************************)
EXTENDS Iptables, SequenceTheorems, WellFoundedInduction, TLAPS

USE IptablesAssumption

-----------------------------------------------------------------------------
(* The inductive invariants *)

Cmds == {"none", "stop", "if_up"} \cup Starters \cup Configures

Lines == {"D", "F", "X"}
Clearing == {"sh", "rm"} \cup Lines
Inserting == {"insert", "ensure"}
OnChains == {"record", "create", "remember", "activate", "delete"} \cup Inserting \cup Lines

(* Every instruction names the chain and the rule it needs; what is changed  *)
(* at a running pgl are the rules of the port, and those of the LAN.         *)
Instrs ==
  {x \in Instruction :
     /\ x.do \in OnChains => x.chain \in Set
     /\ x.do = "insert" => x.rule \in Rules
     /\ x.do = "ensure" => x.rule \in {"port", "local"}
     /\ x.do = "delete" => x.rule = "port"
     /\ x.do \notin Inserting \cup {"delete"} => x.rule = "-"}

ScriptLines == {x \in Instrs : x.do \in Lines}
HookInstrs == {x \in Instrs : x.do \in {"if_running", "ensure", "delete"}}

(* The stages a start takes a chain through: created, queue rule, the rules  *)
(* that go before it, activated.                                             *)
Stage(x) ==
  CASE x.do = "create" -> 1
    [] x.do \in Inserting /\ x.rule = "queue" -> 2
    [] x.do \in Inserting /\ x.rule \in {"list", "reject", "loop", "local"} -> 3
    [] x.do = "activate" -> 4
    [] OTHER -> 0

(* What x leaves to do may contain y: nothing is cleared once a chain is     *)
(* being set up, the lines of a script come first, and each chain goes       *)
(* through its stages in order.                                              *)
Before(x, y) ==
  /\ Stage(x) > 0 => y.do \notin Clearing
  /\ y.do \in Lines => x.do \in Lines
  /\ Stage(x) > 0 /\ Stage(y) > 0 /\ x.chain = y.chain =>
       Stage(x) < Stage(y) \/ (Stage(x) = 3 /\ Stage(y) = 3)

(* What comes right before y. *)
Follows(x, y) ==
  /\ y.do = "rm" => x.do = "sh" \/ x.do \in Lines
  /\ y.do = "mv" => x.do = "cat"
  /\ y.do = "activate" => x = On("remember", y.chain)

InOrder(t) == \A m, n \in 1 .. Len(t) : m < n => Before(t[m], t[n])
Adjacent(t) == \A n \in 1 .. Len(t) : n > 1 => Follows(t[n - 1], t[n])

(* The rules a chain has when it is activated. *)
Needed(c) ==
  {"list", "local", "reject"}
    \cup IF c \in {"INPUT", "OUTPUT"} /\ "repair" \notin may THEN {"loop"} ELSE {}

Pending(R, c, r) == Rule("insert", c, r) \in R \/ Rule("ensure", c, r) \in R

(* A set R of instructions that begins to set up a chain finishes it. *)
Closed(R) ==
  \A c \in Set :
    /\ Rule("insert", c, "queue") \in R => Pending(R, c, "reject") /\ On("activate", c) \in R
    /\ On("create", c) \in R =>
         /\ On("activate", c) \in R
         /\ \A r \in Needed(c) : Pending(R, c, r)
    /\ On("activate", c) \in R /\ (\E x \in R : x.do \in Clearing) => On("create", c) \in R

Todo == proc["pglcmd"].todo

ProcOK ==
  /\ proc \in [Procs -> [cmd : Cmds, todo : Seq(Instrs), ok : BOOLEAN]]
  /\ proc["hook"].todo \in Seq(HookInstrs)
  /\ InOrder(Todo) /\ Adjacent(Todo) /\ Closed(Range(Todo))

FilesOK == script \in Seq(ScriptLines) /\ tmp \in Seq(ScriptLines)

TypeInv == TypeOK /\ ProcOK /\ FilesOK

(* No packet gets to a queue rule before it has met a reject rule. *)
RejectFirst(s) ==
  \A n \in 1 .. Len(s) : s[n] = "queue" => \E m \in 1 .. n - 1 : s[m] = "reject"

Ready(c) == RejectFirst(chain[c]) /\ Needed(c) \subseteq Range(chain[c])

(* An active chain that filters is ready.  One that is about to be activated *)
(* is not active yet, and what it lacks is pending.                          *)
ActiveIsReady(c) ==
  /\ jump[c] \in {0, 1}
  /\ jump[c] > 0 /\ "queue" \in Range(chain[c]) => Ready(c)

Underway(T, c) == On("activate", c) \in T /\ On("create", c) \notin T

Prepared(T, c) ==
  Underway(T, c) =>
    /\ jump[c] = 0
    /\ \A r \in Needed(c) : Pending(T, c, r) \/ r \in Range(chain[c])
    /\ Pending(T, c, "reject") \/ RejectFirst(chain[c])

ChainInv == \A c \in Set : ActiveIsReady(c) /\ Prepared(Range(Todo), c)

(* The removal command of an active chain is in a file; it stays there until *)
(* a script that contains it has been executed.                              *)
LinesFiled == \A c \in Set : On("D", c) \in Range(Todo) => On("D", c) \in Range(script)

Owed(c) == jump[c] > 0 /\ On("D", c) \notin lost

JumpsFiled == \A c \in Set : Owed(c) => On("D", c) \in Range(script) \cup Range(tmp)

RemovesFirst ==
  \A c \in Set : Owed(c) => \A n \in 1 .. Len(Todo) :
    Todo[n].do = "rm" /\ (\A m \in 1 .. n - 1 : Todo[m].do \in Lines) =>
      \/ On("D", c) \in Range(tmp)
      \/ \E m \in 1 .. n - 1 : Todo[m] = On("D", c)

RemembersFirst ==
  Todo # <<>> =>
    /\ Todo[1].do = "mv" => Range(script) \subseteq Range(tmp)
    /\ \A c \in Set : Todo[1] = On("activate", c) =>
         On("D", c) \in Range(script) \cup Range(tmp)

RecordInv == LinesFiled /\ JumpsFiled /\ RemovesFirst /\ RemembersFirst

(* pgld's mark is its verdict; who waits in its queue has none. *)
Packets ==
  [at : {"none", "hook", "queued", "accepted", "dropped"}, chain : Set \cup {"-"},
   class : {"other", "port"}, listed : BOOLEAN, mark : {"none", "accept", "reject"},
   rounds : Nat, off : BOOLEAN, deaf : BOOLEAN]

PacketInv ==
  /\ pkt \in Packets
  /\ pkt.at \in {"hook", "queued"} =>
       /\ pkt.chain \in Set
       /\ pkt.rounds \in {0, 1}
       /\ pkt.mark = IF pkt.rounds = 0 THEN "none"
                     ELSE IF pkt.listed THEN "reject" ELSE "accept"
  /\ ListDecides
-----------------------------------------------------------------------------
(* Facts about the data *)

(* A sequence that is not empty is its head and its tail. *)
LEMMA TailFacts ==
  ASSUME NEW S, NEW t \in Seq(S), t # <<>>
  PROVE  /\ Head(t) = t[1] /\ t[1] \in S
         /\ Len(t) \in Nat \ {0}
         /\ Tail(t) \in Seq(S) /\ Len(Tail(t)) = Len(t) - 1
         /\ \A n \in 1 .. Len(t) - 1 : Tail(t)[n] = t[n + 1]
         /\ Range(t) = {t[1]} \cup Range(Tail(t))
<1>1. /\ Head(t) = t[1] /\ t[1] \in S
      /\ Len(t) \in Nat \ {0}
      /\ Tail(t) \in Seq(S) /\ Len(Tail(t)) = Len(t) - 1
      /\ \A n \in 1 .. Len(t) - 1 : Tail(t)[n] = t[n + 1]
  BY HeadTailProperties, EmptySeq, LenProperties
<1>2. /\ Range(t) = {t[n] : n \in 1 .. Len(t)}
      /\ Range(Tail(t)) = {Tail(t)[n] : n \in 1 .. Len(Tail(t))}
  <2>1. Range(t) = {t[n] : n \in 1 .. Len(t)}
    BY RangeEquality
  <2> DEFINE s == Tail(t)
  <2>2. s \in Seq(S)
    BY <1>1
  <2> HIDE DEF s
  <2>3. Range(s) = {s[n] : n \in 1 .. Len(s)}
    BY <2>2, RangeEquality
  <2> QED
    BY <2>1, <2>3 DEF s
<1>3. ASSUME NEW x \in Range(t) PROVE x = t[1] \/ x \in Range(Tail(t))
  <2>1. PICK n \in 1 .. Len(t) : x = t[n]
    BY <1>2
  <2>2. CASE n # 1
    <3>1. n - 1 \in 1 .. Len(t) - 1 /\ (n - 1) + 1 = n
      BY <1>1, <2>2
    <3>2. Tail(t)[n - 1] = t[n]
      BY <1>1, <3>1
    <3> QED
      BY <1>1, <1>2, <2>1, <3>1, <3>2
  <2> QED
    BY <2>1, <2>2
<1>4. ASSUME NEW x \in Range(Tail(t)) PROVE x \in Range(t)
  <2>1. PICK n \in 1 .. Len(t) - 1 : x = Tail(t)[n]
    BY <1>1, <1>2
  <2>2. n + 1 \in 1 .. Len(t) /\ x = t[n + 1]
    BY <1>1, <2>1
  <2> QED
    BY <1>2, <2>2
<1>5. t[1] \in Range(t)
  BY <1>1, <1>2
<1> QED
  BY <1>1, <1>3, <1>4, <1>5

(* What is in a sequence is at some place of it. *)
LEMMA InRange ==
  ASSUME NEW S, NEW t \in Seq(S)
  PROVE  /\ Len(t) \in Nat
         /\ Range(t) \subseteq S
         /\ \A x : x \in Range(t) <=> \E n \in 1 .. Len(t) : x = t[n]
<1>1. Range(t) = {t[n] : n \in 1 .. Len(t)} /\ Range(t) \in SUBSET S
  BY RangeEquality, RangeOfSeq
<1> QED
  BY <1>1, LenProperties

(* The stages of the instructions that have one. *)
LEMMA Stages ==
  ASSUME NEW c
  PROVE  /\ Stage(On("create", c)) = 1
         /\ Stage(Rule("insert", c, "queue")) = 2
         /\ \A r \in {"list", "reject", "loop", "local"} :
              Stage(Rule("insert", c, r)) = 3 /\ Stage(Rule("ensure", c, r)) = 3
         /\ Stage(On("activate", c)) = 4
         /\ On("create", c).chain = c /\ On("activate", c).chain = c
         /\ \A r : Rule("insert", c, r).chain = c /\ Rule("ensure", c, r).chain = c
BY DEF Stage, On, Rule, Inserting

LEMMA NeededRules == \A c : Needed(c) \subseteq {"list", "reject", "loop", "local"}
BY DEF Needed

(* What a program leaves to do is in order, too. *)
LEMMA TailShape ==
  ASSUME NEW t \in Seq(Instrs), t # <<>>,
         InOrder(t), Adjacent(t), Closed(Range(t))
  PROVE  /\ InOrder(Tail(t)) /\ Adjacent(Tail(t)) /\ Closed(Range(Tail(t)))
         /\ \A y \in Range(Tail(t)) : Before(t[1], y)
<1> DEFINE R == Range(t)
           Q == Range(Tail(t))
<1>1. /\ Len(t) \in Nat \ {0} /\ Len(Tail(t)) = Len(t) - 1
      /\ \A n \in 1 .. Len(t) - 1 : Tail(t)[n] = t[n + 1]
      /\ R = {t[1]} \cup Q
  BY TailFacts
<1>2. InOrder(Tail(t))
  <2> SUFFICES ASSUME NEW m \in 1 .. Len(Tail(t)), NEW n \in 1 .. Len(Tail(t)), m < n
               PROVE  Before(Tail(t)[m], Tail(t)[n])
    BY DEF InOrder
  <2>1. m + 1 \in 1 .. Len(t) /\ n + 1 \in 1 .. Len(t) /\ m + 1 < n + 1
    BY <1>1
  <2> QED
    BY <1>1, <2>1 DEF InOrder
<1>3. Adjacent(Tail(t))
  <2> SUFFICES ASSUME NEW n \in 1 .. Len(Tail(t)), n > 1
               PROVE  Follows(Tail(t)[n - 1], Tail(t)[n])
    BY DEF Adjacent
  <2>1. n + 1 \in 1 .. Len(t) /\ n + 1 > 1 /\ (n + 1) - 1 = n
    BY <1>1
  <2>2. Follows(t[n], t[n + 1])
    BY <2>1 DEF Adjacent
  <2>3. n - 1 \in 1 .. Len(t) - 1 /\ (n - 1) + 1 = n
    BY <1>1
  <2>4. Tail(t)[n - 1] = t[n] /\ Tail(t)[n] = t[n + 1]
    BY <1>1, <2>3
  <2> QED
    BY <2>2, <2>4
<1>4. \A y \in Q : Before(t[1], y)
  <2> SUFFICES ASSUME NEW y \in Q PROVE Before(t[1], y)
    OBVIOUS
  <2>1. Tail(t) \in Seq(Instrs)
    BY TailFacts
  <2>2. PICK n \in 1 .. Len(t) - 1 : y = Tail(t)[n]
    <3> DEFINE s == Tail(t)
    <3>1. s \in Seq(Instrs) /\ y \in Range(s)
      BY <2>1
    <3> HIDE DEF s
    <3>2. \E n \in 1 .. Len(s) : y = s[n]
      BY <3>1, InRange
    <3> QED
      BY <1>1, <3>2 DEF s
  <2>3. y = t[n + 1] /\ n + 1 \in 1 .. Len(t) /\ 1 \in 1 .. Len(t) /\ 1 < n + 1
    BY <1>1, <2>2
  <2> QED
    BY <2>3 DEF InOrder
<1>5. Closed(Q)
  <2> SUFFICES ASSUME NEW c \in Set
      PROVE  /\ Rule("insert", c, "queue") \in Q =>
                  Pending(Q, c, "reject") /\ On("activate", c) \in Q
             /\ On("create", c) \in Q =>
                  /\ On("activate", c) \in Q
                  /\ \A r \in Needed(c) : Pending(Q, c, r)
             /\ On("activate", c) \in Q /\ (\E x \in Q : x.do \in Clearing) =>
                  On("create", c) \in Q
    BY DEF Closed
  <2> DEFINE h == t[1]
  <2>1. \A y \in Q : /\ Stage(h) > 0 => y.do \notin Clearing
                     /\ Stage(h) > 0 /\ Stage(y) > 0 /\ h.chain = y.chain =>
                          Stage(h) < Stage(y) \/ (Stage(h) = 3 /\ Stage(y) = 3)
    BY <1>4 DEF Before
  <2> HIDE DEF h, R, Q
  <2>2. R = {h} \cup Q
    BY <1>1 DEF h, R, Q
  <2>3. ASSUME Rule("insert", c, "queue") \in Q
        PROVE  Pending(Q, c, "reject") /\ On("activate", c) \in Q
    <3>1. Pending(R, c, "reject") /\ On("activate", c) \in R
      BY <2>2, <2>3 DEF Closed, R
    <3>2. h # Rule("insert", c, "reject") /\ h # Rule("ensure", c, "reject")
          /\ h # On("activate", c)
      BY <2>1, <2>3, Stages
    <3> QED
      BY <2>2, <3>1, <3>2 DEF Pending
  <2>4. ASSUME On("create", c) \in Q
        PROVE  On("activate", c) \in Q /\ \A r \in Needed(c) : Pending(Q, c, r)
    <3>1. On("activate", c) \in R /\ \A r \in Needed(c) : Pending(R, c, r)
      BY <2>2, <2>4 DEF Closed, R
    <3>2. /\ h # On("activate", c)
          /\ \A r \in {"list", "reject", "loop", "local"} :
               h # Rule("insert", c, r) /\ h # Rule("ensure", c, r)
      BY <2>1, <2>4, Stages
    <3> QED
      BY <2>2, <3>1, <3>2, NeededRules DEF Pending
  <2>5. ASSUME On("activate", c) \in Q, NEW x \in Q, x.do \in Clearing
        PROVE  On("create", c) \in Q
    <3>1. On("create", c) \in R
      BY <2>2, <2>5 DEF Closed, R
    <3>2. h # On("create", c)
      BY <2>1, <2>5, Stages
    <3> QED
      BY <2>2, <3>1, <3>2
  <2> QED
    BY <2>3, <2>4, <2>5
<1> QED
  BY <1>2, <1>3, <1>4, <1>5

(* A sequence of instructions may follow another if each of its own may. *)
Good(s) ==
  /\ InOrder(s) /\ Adjacent(s)
  /\ s # <<>> => s[1].do \notin {"rm", "mv", "activate"}

LEMMA Concatenated ==
  ASSUME NEW a \in Seq(Instrs), NEW b \in Seq(Instrs),
         InOrder(a), Adjacent(a), InOrder(b), Adjacent(b),
         \A x \in Range(a), y \in Range(b) : Before(x, y),
         \A x \in Range(a) : b # <<>> => Follows(x, b[1])
  PROVE  /\ a \o b \in Seq(Instrs) /\ Range(a \o b) = Range(a) \cup Range(b)
         /\ InOrder(a \o b) /\ Adjacent(a \o b)
<1> DEFINE k == Len(a)
           t == a \o b
<1>1. /\ t \in Seq(Instrs) /\ k \in Nat /\ Len(b) \in Nat /\ Len(t) = k + Len(b)
      /\ \A n \in 1 .. k + Len(b) : t[n] = IF n <= k THEN a[n] ELSE b[n - k]
  BY ConcatProperties, LenProperties
<1>2. Range(t) = Range(a) \cup Range(b)
  BY RangeConcatenation
<1>3. /\ a # <<>> => k > 0
      /\ a = <<>> => t = b
  BY <1>1, EmptySeq, ConcatEmptySeq
<1>4. /\ \A n \in 1 .. k : a[n] \in Range(a)
      /\ \A n \in 1 .. Len(b) : b[n] \in Range(b)
  BY InRange
<1> HIDE DEF t, k
<1>5. InOrder(t)
  <2> SUFFICES ASSUME NEW m \in 1 .. Len(t), NEW n \in 1 .. Len(t), m < n
               PROVE  Before(t[m], t[n])
    BY DEF InOrder
  <2>1. CASE n <= k
    <3>1. m \in 1 .. k /\ n \in 1 .. k /\ m \in 1 .. Len(t) /\ n \in 1 .. Len(t)
      BY <1>1, <2>1
    <3>2. t[m] = a[m] /\ t[n] = a[n]
      BY <1>1, <3>1
    <3> QED
      BY <3>1, <3>2 DEF InOrder, k
  <2>2. CASE m > k
    <3>1. m - k \in 1 .. Len(b) /\ n - k \in 1 .. Len(b) /\ m - k < n - k
          /\ t[m] = b[m - k] /\ t[n] = b[n - k]
      BY <1>1, <2>2
    <3> QED
      BY <3>1 DEF InOrder
  <2>3. CASE m <= k /\ n > k
    <3>1. m \in 1 .. k /\ n - k \in 1 .. Len(b) /\ t[m] = a[m] /\ t[n] = b[n - k]
      BY <1>1, <2>3
    <3> QED
      BY <1>4, <3>1
  <2> QED
    BY <1>1, <2>1, <2>2, <2>3
<1>6. Adjacent(t)
  <2> SUFFICES ASSUME NEW n \in 1 .. Len(t), n > 1
               PROVE  Follows(t[n - 1], t[n])
    BY DEF Adjacent
  <2>1. CASE n <= k
    <3>1. n \in 1 .. k /\ n - 1 \in 1 .. k /\ n - 1 \in 1 .. k + Len(b)
      BY <1>1, <2>1
    <3>2. t[n - 1] = a[n - 1] /\ t[n] = a[n]
      BY <1>1, <3>1
    <3> QED
      BY <3>1, <3>2 DEF Adjacent, k
  <2>2. CASE n - 1 > k
    <3>1. n - k \in 1 .. Len(b) /\ n - k > 1 /\ (n - 1) - k = (n - k) - 1
          /\ t[n - 1] = b[(n - 1) - k] /\ t[n] = b[n - k]
      BY <1>1, <2>2
    <3>2. Follows(b[(n - k) - 1], b[n - k])
      BY <3>1 DEF Adjacent
    <3> QED
      BY <3>1, <3>2
  <2>3. CASE n = k + 1
    <3>1. t[n] = b[1] /\ Len(b) > 0 /\ n - 1 \in 1 .. k /\ n - 1 <= k /\ n - 1 \in 1 .. k + Len(b)
      BY <1>1, <2>3
    <3>2. b # <<>>
      BY <3>1, EmptySeq
    <3>3. t[n - 1] = a[n - 1] /\ a[n - 1] \in Range(a)
      BY <1>1, <1>4, <3>1
    <3> QED
      BY <3>1, <3>2, <3>3
  <2> QED
    BY <1>1, <2>1, <2>2, <2>3
<1> QED
  BY <1>1, <1>2, <1>5, <1>6 DEF t

LEMMA Joined ==
  ASSUME NEW a \in Seq(Instrs), NEW b \in Seq(Instrs), Good(a), Good(b),
         \A x \in Range(a), y \in Range(b) : Before(x, y)
  PROVE  a \o b \in Seq(Instrs) /\ Good(a \o b) /\ Range(a \o b) = Range(a) \cup Range(b)
<1> DEFINE k == Len(a)
           t == a \o b
<1>1. /\ t \in Seq(Instrs) /\ k \in Nat /\ Len(b) \in Nat /\ Len(t) = k + Len(b)
      /\ \A n \in 1 .. k + Len(b) : t[n] = IF n <= k THEN a[n] ELSE b[n - k]
  BY ConcatProperties, LenProperties
<1>2. /\ a # <<>> => k > 0
      /\ a = <<>> => t = b
  BY <1>1, EmptySeq, ConcatEmptySeq
<1>3. \A x : b # <<>> => Follows(x, b[1])
  BY DEF Good, Follows
<1>4. /\ t \in Seq(Instrs) /\ Range(t) = Range(a) \cup Range(b)
      /\ InOrder(t) /\ Adjacent(t)
  BY <1>3, Concatenated DEF Good
<1> HIDE DEF t, k
<1>5. t # <<>> => t[1].do \notin {"rm", "mv", "activate"}
  <2>1. CASE a = <<>>
    BY <1>2, <2>1 DEF Good
  <2>2. CASE a # <<>>
    BY <1>1, <1>2, <2>2 DEF Good
  <2> QED
    BY <2>1, <2>2
<1> QED
  BY <1>4, <1>5 DEF Good, t

-----------------------------------------------------------------------------
(* The programs *)

(* There are at most three chains. *)
LEMMA ChainsAreFew ==
  /\ Len(Chains) \in 0 .. 3
  /\ Set = {Chains[n] : n \in 1 .. Len(Chains)}
  /\ Set \subseteq {"INPUT", "OUTPUT", "FORWARD"}
<1>1. /\ Len(Chains) \in Nat /\ DOMAIN Chains = 1 .. Len(Chains)
      /\ \A n \in 1 .. Len(Chains) : Chains[n] \in {"INPUT", "OUTPUT", "FORWARD"}
  BY ElementOfSeq, LenProperties
<1>2. Len(Chains) <= 3
  <2> SUFFICES ASSUME Len(Chains) > 3 PROVE FALSE
    BY <1>1
  <2>1. 1 \in DOMAIN Chains /\ 2 \in DOMAIN Chains /\ 3 \in DOMAIN Chains /\ 4 \in DOMAIN Chains
    BY <1>1
  <2>2. /\ Chains[1] # Chains[2] /\ Chains[1] # Chains[3] /\ Chains[1] # Chains[4]
        /\ Chains[2] # Chains[3] /\ Chains[2] # Chains[4] /\ Chains[3] # Chains[4]
    BY <2>1
  <2> QED
    BY <1>1, <2>1, <2>2
<1> QED
  BY <1>1, <1>2 DEF Set, Range

(* A loop over the chains is its turns, one after the other. *)
LEMMA ForEachIs ==
  ASSUME NEW lines
  PROVE  ForEach(lines) =
           IF Len(Chains) = 0 THEN <<>>
           ELSE IF Len(Chains) = 1 THEN <<>> \o lines[Chains[1]]
           ELSE IF Len(Chains) = 2 THEN (<<>> \o lines[Chains[1]]) \o lines[Chains[2]]
           ELSE ((<<>> \o lines[Chains[1]]) \o lines[Chains[2]]) \o lines[Chains[3]]
<1> DEFINE l == Len(Chains)
           upto[n \in 0 .. l] == IF n = 0 THEN <<>> ELSE upto[n - 1] \o lines[Chains[n]]
           eqn(f) == f = [n \in 0 .. l |-> IF n = 0 THEN <<>> ELSE f[n - 1] \o lines[Chains[n]]]
           one == <<>> \o lines[Chains[1]]
           two == one \o lines[Chains[2]]
           g == [n \in 0 .. l |-> IF n = 0 THEN <<>> ELSE IF n = 1 THEN one
                                  ELSE IF n = 2 THEN two ELSE two \o lines[Chains[3]]]
<1>1. l \in 0 .. 3
  BY ChainsAreFew
<1>2. eqn(g)
  <2>1. g[0] = <<>> /\ (l >= 1 => g[1] = one) /\ (l >= 2 => g[2] = two)
    BY <1>1
  <2>2. ASSUME NEW n \in 0 .. l
        PROVE  g[n] = IF n = 0 THEN <<>> ELSE g[n - 1] \o lines[Chains[n]]
    <3>1. n \in {0, 1, 2, 3}
      BY <1>1
    <3>2. CASE n = 0
      BY <3>2
    <3>3. CASE n = 1
      <4>1. l >= 1 /\ n - 1 = 0
        BY <3>3
      <4>2. one = <<>> \o lines[Chains[1]]
        BY DEF one
      <4> HIDE DEF g, l, one, two
      <4>3. g[n] = one /\ g[n - 1] = <<>>
        BY <2>1, <3>3, <4>1
      <4> QED
        BY <3>3, <4>2, <4>3
    <3>4. CASE n = 2
      <4>1. l >= 1 /\ l >= 2 /\ n - 1 = 1
        BY <1>1, <3>4
      <4>2. two = one \o lines[Chains[2]]
        BY DEF two
      <4> HIDE DEF g, l, one, two
      <4>3. g[n] = two /\ g[n - 1] = one
        BY <2>1, <3>4, <4>1
      <4> QED
        BY <3>4, <4>2, <4>3
    <3>5. CASE n = 3
      <4>1. l >= 2 /\ n - 1 = 2
        BY <3>5
      <4> DEFINE three == two \o lines[Chains[3]]
      <4> HIDE DEF one, two, three
      <4>2. g[n] = three
        BY <3>5 DEF three
      <4> HIDE DEF g, l
      <4> USE DEF three
      <4> QED
        BY <2>1, <3>5, <4>1, <4>2
    <3> QED
      BY <3>1, <3>2, <3>3, <3>4, <3>5
  <2> QED
    BY <2>2
<1> HIDE DEF g
<1>3. eqn(upto)
  <2>1. upto = CHOOSE f : eqn(f)
    OBVIOUS
  <2> HIDE DEF eqn, upto
  <2> QED
    BY <1>2, <2>1
<1>4. ForEach(lines) = upto[l]
  BY DEF ForEach
<1> HIDE DEF upto
<1> DEFINE u0 == upto[0]
           u1 == upto[1]
           u2 == upto[2]
           u3 == upto[3]
<1>5. /\ u0 = <<>>
      /\ l >= 1 => u1 = u0 \o lines[Chains[1]]
      /\ l >= 2 => u2 = u1 \o lines[Chains[2]]
      /\ l >= 3 => u3 = u2 \o lines[Chains[3]]
  BY <1>1, <1>3
<1>6. /\ l = 0 => ForEach(lines) = u0
      /\ l = 1 => ForEach(lines) = u1
      /\ l = 2 => ForEach(lines) = u2
      /\ l = 3 => ForEach(lines) = u3
  BY <1>4
<1> HIDE DEF l, u0, u1, u2, u3, upto
<1>7. ForEach(lines) = IF l = 0 THEN <<>> ELSE IF l = 1 THEN one
                       ELSE IF l = 2 THEN two ELSE two \o lines[Chains[3]]
  <2>1. CASE l = 0
    BY <1>5, <1>6, <2>1
  <2>2. CASE l = 1
    <3>1. l >= 1 /\ l # 0
      BY <2>2
    <3> QED
      BY <1>5, <1>6, <2>2, <3>1, Zenon
  <2>3. CASE l = 2
    <3>1. l >= 1 /\ l >= 2 /\ l # 0 /\ l # 1
      BY <2>3
    <3> QED
      BY <1>5, <1>6, <2>3, <3>1, Zenon
  <2>4. CASE l = 3
    <3>1. l >= 1 /\ l >= 2 /\ l >= 3 /\ l # 0 /\ l # 1 /\ l # 2
      BY <2>4
    <3> QED
      BY <1>5, <1>6, <2>4, <3>1, Zenon
  <2>5. l = 0 \/ l = 1 \/ l = 2 \/ l = 3
    BY <1>1
  <2> QED
    BY <2>1, <2>2, <2>3, <2>4, <2>5, Zenon
<1> QED
  BY <1>7 DEF l

(* Sequences of no, one and two instructions. *)
LEMMA ShortGood ==
  /\ <<>> \in Seq(Instrs) /\ Good(<<>>) /\ Range(<<>>) = {}
  /\ \A x \in Instrs :
       /\ <<x>> \in Seq(Instrs) /\ Range(<<x>>) = {x}
       /\ x.do \notin {"rm", "mv", "activate"} => Good(<<x>>)
  /\ \A x, y \in Instrs :
       /\ <<x, y>> \in Seq(Instrs) /\ Range(<<x, y>>) = {x, y}
       /\ x.do \notin {"rm", "mv", "activate"} /\ Before(x, y) /\ Follows(x, y) =>
            Good(<<x, y>>)
<1>1. <<>> \in Seq(Instrs) /\ Good(<<>>) /\ Range(<<>>) = {}
  BY DEF Good, InOrder, Adjacent, Range
<1>2. ASSUME NEW x \in Instrs
      PROVE  /\ <<x>> \in Seq(Instrs) /\ Range(<<x>>) = {x}
             /\ x.do \notin {"rm", "mv", "activate"} => Good(<<x>>)
  <2> DEFINE t == <<x>>
  <2>1. t \in Seq(Instrs) /\ Len(t) = 1 /\ t[1] = x
    OBVIOUS
  <2> HIDE DEF t
  <2>2. Range(t) = {x}
    BY <2>1, InRange
  <2>3. x.do \notin {"rm", "mv", "activate"} => Good(t)
    BY <2>1 DEF Good, InOrder, Adjacent
  <2> QED
    BY <2>1, <2>2, <2>3 DEF t
<1>3. ASSUME NEW x \in Instrs, NEW y \in Instrs
      PROVE  /\ <<x, y>> \in Seq(Instrs) /\ Range(<<x, y>>) = {x, y}
             /\ x.do \notin {"rm", "mv", "activate"} /\ Before(x, y) /\ Follows(x, y) =>
                  Good(<<x, y>>)
  <2> DEFINE t == <<x, y>>
  <2>1. t \in Seq(Instrs) /\ Len(t) = 2 /\ t[1] = x /\ t[2] = y
    OBVIOUS
  <2> HIDE DEF t
  <2>2. Range(t) = {x, y}
    <3>1. \A n : n \in 1 .. Len(t) <=> n = 1 \/ n = 2
      BY <2>1
    <3>2. \A z : z \in Range(t) <=> \E n \in 1 .. Len(t) : z = t[n]
      BY <2>1, InRange
    <3> QED
      BY <2>1, <3>1, <3>2
  <2>3. x.do \notin {"rm", "mv", "activate"} /\ Before(x, y) /\ Follows(x, y) => Good(t)
    <3> SUFFICES ASSUME x.do \notin {"rm", "mv", "activate"}, Before(x, y), Follows(x, y)
                 PROVE  Good(t)
      OBVIOUS
    <3>1. InOrder(t)
      <4> SUFFICES ASSUME NEW m \in 1 .. Len(t), NEW n \in 1 .. Len(t), m < n
                   PROVE  Before(t[m], t[n])
        BY DEF InOrder
      <4>1. m = 1 /\ n = 2
        BY <2>1
      <4> QED
        BY <2>1, <4>1
    <3>2. Adjacent(t)
      <4> SUFFICES ASSUME NEW n \in 1 .. Len(t), n > 1
                   PROVE  Follows(t[n - 1], t[n])
        BY DEF Adjacent
      <4>1. n = 2 /\ n - 1 = 1
        BY <2>1
      <4> QED
        BY <2>1, <4>1
    <3> QED
      BY <2>1, <3>1, <3>2 DEF Good
  <2> QED
    BY <2>1, <2>2, <2>3 DEF t
<1> QED
  BY <1>1, <1>2, <1>3

(* A loop over the chains is good if its turns are and clear nothing. *)
LEMMA ForEachGood ==
  ASSUME NEW lines \in [Set -> Seq(Instrs)],
         \A c \in Set : /\ Good(lines[c])
                        /\ \A x \in Range(lines[c]) : x.chain = c /\ x.do \notin Clearing
  PROVE  /\ ForEach(lines) \in Seq(Instrs)
         /\ Good(ForEach(lines))
         /\ Range(ForEach(lines)) = UNION {Range(lines[c]) : c \in Set}
<1> DEFINE l == Len(Chains)
           one == lines[Chains[1]]
           two == one \o lines[Chains[2]]
           three == two \o lines[Chains[3]]
<1>1. /\ l \in 0 .. 3 /\ Set = {Chains[n] : n \in 1 .. l}
      /\ \A n \in 1 .. l : Chains[n] \in Set
      /\ \A m, n \in 1 .. l : m # n => Chains[m] # Chains[n]
  <2>1. l \in 0 .. 3 /\ Set = {Chains[n] : n \in 1 .. l} /\ DOMAIN Chains = 1 .. l
    BY ChainsAreFew, LenProperties
  <2> QED
    BY <2>1
<1>2. ASSUME NEW c \in Set, NEW d \in Set, c # d,
             NEW x \in Range(lines[c]), NEW y \in Range(lines[d])
      PROVE  Before(x, y)
  BY <1>2 DEF Before, Clearing
<1>3. \A c \in Set : lines[c] \in Seq(Instrs) /\ Good(lines[c])
  OBVIOUS
<1>4. \/ l = 0 /\ l # 1
      \/ l = 1 /\ l # 0
      \/ l = 2 /\ l # 0 /\ l # 1
      \/ l = 3 /\ l # 0 /\ l # 1 /\ l # 2
  BY <1>1
<1>5. ForEach(lines) =
         IF l = 0 THEN <<>> ELSE IF l = 1 THEN <<>> \o one
         ELSE IF l = 2 THEN (<<>> \o one) \o lines[Chains[2]]
         ELSE ((<<>> \o one) \o lines[Chains[2]]) \o lines[Chains[3]]
  BY ForEachIs
<1>6. CASE l = 0
  <2>1. ForEach(lines) = <<>> /\ Set = {}
    BY <1>1, <1>6, ForEachIs
  <2> QED
    BY <2>1, ShortGood
<1> HIDE DEF one, two, three, l
<1>7. ASSUME l >= 1
      PROVE  /\ one \in Seq(Instrs) /\ Good(one) /\ <<>> \o one = one
             /\ Chains[1] \in Set /\ one = lines[Chains[1]]
  <2>1. Chains[1] \in Set
    BY <1>1, <1>7
  <2>2. one \in Seq(Instrs) /\ Good(one)
    BY <1>3, <2>1 DEF one
  <2> QED
    BY <2>1, <2>2, ConcatEmptySeq DEF one
<1>8. ASSUME l >= 2
      PROVE  /\ two \in Seq(Instrs) /\ Good(two) /\ Chains[2] \in Set
             /\ Range(two) = Range(lines[Chains[1]]) \cup Range(lines[Chains[2]])
  <2> DEFINE b == lines[Chains[2]]
  <2>1. Chains[2] \in Set /\ Chains[1] \in Set /\ Chains[1] # Chains[2] /\ l >= 1
    BY <1>1, <1>8
  <2>2. b \in Seq(Instrs) /\ Good(b)
    BY <1>3, <2>1
  <2>3. \A x \in Range(one), y \in Range(b) : Before(x, y)
    BY <1>2, <2>1 DEF one
  <2>4. one \in Seq(Instrs) /\ Good(one)
    BY <1>7, <2>1
  <2> HIDE DEF b
  <2>5. one \o b \in Seq(Instrs) /\ Good(one \o b) /\ Range(one \o b) = Range(one) \cup Range(b)
    BY <2>2, <2>3, <2>4, Joined
  <2> QED
    BY <2>1, <2>5 DEF one, two, b
<1>9. ASSUME l = 3
      PROVE  /\ three \in Seq(Instrs) /\ Good(three) /\ Chains[3] \in Set
             /\ Range(three) = Range(two) \cup Range(lines[Chains[3]])
  <2> DEFINE b == lines[Chains[3]]
  <2>1. /\ Chains[3] \in Set /\ Chains[2] \in Set /\ Chains[1] \in Set
        /\ Chains[1] # Chains[3] /\ Chains[2] # Chains[3] /\ l >= 2
    BY <1>1, <1>9
  <2>2. b \in Seq(Instrs) /\ Good(b)
    BY <1>3, <2>1
  <2>3. /\ two \in Seq(Instrs) /\ Good(two)
        /\ Range(two) = Range(lines[Chains[1]]) \cup Range(lines[Chains[2]])
    BY <1>8, <2>1
  <2>4. \A x \in Range(two), y \in Range(b) : Before(x, y)
    BY <1>2, <2>1, <2>3
  <2> HIDE DEF b
  <2>5. two \o b \in Seq(Instrs) /\ Good(two \o b) /\ Range(two \o b) = Range(two) \cup Range(b)
    BY <2>2, <2>3, <2>4, Joined
  <2> QED
    BY <2>1, <2>5 DEF three, b
<1>10. CASE l = 1
  <2>1. ForEach(lines) = <<>> \o one
    BY <1>10, <1>4, <1>5
  <2>2. Set = {Chains[1]}
    BY <1>1, <1>10
  <2> QED
    BY <1>7, <1>10, <2>1, <2>2
<1>11. CASE l = 2
  <2>1. ForEach(lines) = (<<>> \o one) \o lines[Chains[2]]
    BY <1>11, <1>4, <1>5
  <2>2. ForEach(lines) = two
    BY <1>7, <1>11, <2>1 DEF two
  <2>3. Set = {Chains[1], Chains[2]}
    BY <1>1, <1>11
  <2> QED
    BY <1>8, <1>11, <2>2, <2>3
<1>12. CASE l = 3
  <2>1. ForEach(lines) = ((<<>> \o one) \o lines[Chains[2]]) \o lines[Chains[3]]
    BY <1>12, <1>4, <1>5
  <2>2. ForEach(lines) = three
    BY <1>7, <1>12, <2>1 DEF two, three
  <2>3. Set = {Chains[1], Chains[2], Chains[3]}
    <3>1. \A n : n \in 1 .. l <=> n = 1 \/ n = 2 \/ n = 3
      BY <1>12
    <3>2. \A x : x \in Set <=> \E n \in 1 .. l : x = Chains[n]
      BY <1>1
    <3>3. Chains[1] \in Set /\ Chains[2] \in Set /\ Chains[3] \in Set
      BY <3>1, <3>2
    <3>4. ASSUME NEW x \in Set
          PROVE  x = Chains[1] \/ x = Chains[2] \/ x = Chains[3]
      BY <3>1, <3>2
    <3> QED
      BY <3>3, <3>4
  <2>4. Range(three) = Range(lines[Chains[1]]) \cup Range(lines[Chains[2]])
                         \cup Range(lines[Chains[3]])
    BY <1>8, <1>9, <1>12
  <2> QED
    BY <1>9, <1>12, <2>2, <2>3, <2>4
<1> QED
  BY <1>4, <1>6, <1>10, <1>11, <1>12

(* Which instructions may come before which. *)
LEMMA Levels ==
  /\ \A x \in Instrs : Stage(x) \in 0 .. 4
  /\ \A x, y \in Instrs : Stage(y) = 0 /\ y.do \notin Clearing => Before(x, y)
  /\ \A x, y \in Instrs : Stage(x) = 0 /\ y.do \notin Lines => Before(x, y)
  /\ \A x, y \in Instrs :
       Stage(x) <= 3 /\ Stage(y) \in {0, 3, 4} /\ y.do \notin Clearing => Before(x, y)
<1>1. \A x \in Instrs : Stage(x) \in 0 .. 4
  BY DEF Stage
<1> QED
  BY <1>1 DEF Before, Clearing

(* The instructions of the programs. *)
LEMMA Words ==
  /\ \A op \in {"if_running", "unless_running", "start_daemon", "killproc", "cat", "mv",
                "sh", "rm"} :
       Do(op) \in Instrs /\ Stage(Do(op)) = 0 /\ Do(op).do = op
  /\ \A c \in Set :
       /\ \A op \in {"record", "create", "remember", "activate", "D", "F", "X"} :
            On(op, c) \in Instrs /\ On(op, c).do = op /\ On(op, c).chain = c
       /\ \A op \in {"record", "remember", "D", "F", "X"} : Stage(On(op, c)) = 0
       /\ \A r \in Rules : /\ Rule("insert", c, r) \in Instrs
                           /\ Rule("insert", c, r).do = "insert"
                           /\ Rule("insert", c, r).chain = c
       /\ Stage(Rule("insert", c, "port")) = 0 /\ Stage(Rule("ensure", c, "port")) = 0
       /\ Stage(Rule("delete", c, "port")) = 0
       /\ Rule("delete", c, "port") \in HookInstrs
       /\ Rule("delete", c, "port").chain = c
       /\ \A r \in {"port", "local"} : /\ Rule("ensure", c, r) \in HookInstrs
                                       /\ Rule("ensure", c, r).chain = c
  /\ Do("if_running") \in HookInstrs
  /\ HookInstrs \subseteq Instrs
<1> USE DEF Instrs, HookInstrs, Instruction, Ops, Rules, Stage, OnChains, Inserting, Lines
<1>1. \A op \in {"if_running", "unless_running", "start_daemon", "killproc", "cat", "mv",
                 "sh", "rm"} :
        Do(op) \in Instrs /\ Stage(Do(op)) = 0 /\ Do(op).do = op
  BY DEF Do
<1>2. ASSUME NEW c \in Set
      PROVE  /\ \A op \in {"record", "create", "remember", "activate", "D", "F", "X"} :
                  On(op, c) \in Instrs /\ On(op, c).do = op /\ On(op, c).chain = c
             /\ \A op \in {"record", "remember", "D", "F", "X"} : Stage(On(op, c)) = 0
  BY DEF On
<1>3. ASSUME NEW c \in Set
      PROVE  /\ \A r \in Rules : /\ Rule("insert", c, r) \in Instrs
                                 /\ Rule("insert", c, r).do = "insert"
                                 /\ Rule("insert", c, r).chain = c
             /\ Stage(Rule("insert", c, "port")) = 0 /\ Stage(Rule("ensure", c, "port")) = 0
             /\ Stage(Rule("delete", c, "port")) = 0
             /\ Rule("delete", c, "port") \in HookInstrs
             /\ Rule("delete", c, "port").chain = c
             /\ \A r \in {"port", "local"} : /\ Rule("ensure", c, r) \in HookInstrs
                                             /\ Rule("ensure", c, r).chain = c
  BY DEF Rule
<1>4. Do("if_running") \in HookInstrs
  BY DEF Do
<1>5. HookInstrs \subseteq Instrs
  BY DEF HookInstrs
<1> HIDE DEF Instrs, HookInstrs, Instruction, Ops, Rules, Stage, OnChains, Inserting, Lines
<1> QED
  BY <1>1, <1>2, <1>3, <1>4, <1>5

(* Setting up a chain: its creation, the queue rule, then those before it.  *)
LEMMA SetupGood ==
  ASSUME NEW c \in Set, NEW port \in BOOLEAN
  PROVE  /\ Setup(c, port) \in Seq(Instrs) /\ Good(Setup(c, port))
         /\ \A x \in Range(Setup(c, port)) :
              x.chain = c /\ x.do \notin Clearing /\ Stage(x) <= 3
         /\ {On("create", c), Rule("insert", c, "queue"), Rule("insert", c, "list"),
             Rule("insert", c, "reject")} \subseteq Range(Setup(c, port))
<1> DEFINE rec == On("record", c)
           cre == On("create", c)
           que == Rule("insert", c, "queue")
           lis == Rule("insert", c, "list")
           rej == Rule("insert", c, "reject")
           por == Rule("insert", c, "port")
           a1 == <<rec, cre>>
           a2 == a1 \o <<que>>
           a3 == a2 \o Ports(c, port)
           a4 == a3 \o <<lis>>
           a5 == a4 \o <<rej>>
<1>1. /\ rec \in Instrs /\ cre \in Instrs /\ que \in Instrs /\ lis \in Instrs
      /\ rej \in Instrs /\ por \in Instrs
      /\ rec.do = "record" /\ cre.do = "create" /\ que.do = "insert" /\ lis.do = "insert"
      /\ rej.do = "insert" /\ por.do = "insert"
      /\ rec.chain = c /\ cre.chain = c /\ que.chain = c /\ lis.chain = c
      /\ rej.chain = c /\ por.chain = c
  BY Words DEF Rules
<1>2. /\ Stage(rec) = 0 /\ Stage(cre) = 1 /\ Stage(que) = 2 /\ Stage(lis) = 3
      /\ Stage(rej) = 3 /\ Stage(por) = 0
  BY Words, Stages
<1>3. Setup(c, port) = a5
  BY DEF Setup, allow_list, Block
<1> HIDE DEF rec, cre, que, lis, rej, por
<1>4. a1 \in Seq(Instrs) /\ Good(a1) /\ Range(a1) = {rec, cre}
  <2>1. Before(rec, cre) /\ Follows(rec, cre)
    BY <1>1, <1>2 DEF Before, Follows, Lines, Clearing
  <2> QED
    BY <1>1, <2>1, ShortGood
<1> HIDE DEF a1
<1>5. a2 \in Seq(Instrs) /\ Good(a2) /\ Range(a2) = {rec, cre, que}
  <2> DEFINE b == <<que>>
  <2>1. b \in Seq(Instrs) /\ Good(b) /\ Range(b) = {que}
    BY <1>1, ShortGood
  <2> HIDE DEF b
  <2>2. \A x \in Range(a1), y \in Range(b) : Before(x, y)
    BY <1>1, <1>2, <1>4, <2>1 DEF Before, Lines, Clearing
  <2>3. a1 \o b \in Seq(Instrs) /\ Good(a1 \o b) /\ Range(a1 \o b) = Range(a1) \cup Range(b)
    BY <1>4, <2>1, <2>2, Joined
  <2> QED
    BY <1>4, <2>1, <2>3 DEF b
<1> HIDE DEF a2
<1>6. /\ Ports(c, port) \in Seq(Instrs) /\ Good(Ports(c, port))
      /\ Range(Ports(c, port)) \subseteq {por}
  BY <1>1, ShortGood DEF Ports, por
<1>7. a3 \in Seq(Instrs) /\ Good(a3) /\ Range(a3) = {rec, cre, que} \cup Range(Ports(c, port))
  <2>1. \A x \in Range(a2), y \in Range(Ports(c, port)) : Before(x, y)
    BY <1>1, <1>2, <1>5, <1>6 DEF Before, Lines, Clearing
  <2> QED
    BY <1>5, <1>6, <2>1, Joined
<1> HIDE DEF a3
<1>8. a4 \in Seq(Instrs) /\ Good(a4) /\ Range(a4) = Range(a3) \cup {lis}
  <2> DEFINE b == <<lis>>
  <2>1. b \in Seq(Instrs) /\ Good(b) /\ Range(b) = {lis}
    BY <1>1, ShortGood
  <2> HIDE DEF b
  <2>2. \A x \in Range(a3), y \in Range(b) : Before(x, y)
    BY <1>1, <1>2, <1>6, <1>7, <2>1 DEF Before, Lines, Clearing
  <2>3. a3 \o b \in Seq(Instrs) /\ Good(a3 \o b) /\ Range(a3 \o b) = Range(a3) \cup Range(b)
    BY <1>7, <2>1, <2>2, Joined
  <2> QED
    BY <1>7, <2>1, <2>3 DEF b
<1> HIDE DEF a4
<1>9. a5 \in Seq(Instrs) /\ Good(a5) /\ Range(a5) = Range(a4) \cup {rej}
  <2> DEFINE b == <<rej>>
  <2>1. b \in Seq(Instrs) /\ Good(b) /\ Range(b) = {rej}
    BY <1>1, ShortGood
  <2> HIDE DEF b
  <2>2. \A x \in Range(a4), y \in Range(b) : Before(x, y)
    BY <1>1, <1>2, <1>6, <1>7, <1>8, <2>1 DEF Before, Lines, Clearing
  <2>3. a4 \o b \in Seq(Instrs) /\ Good(a4 \o b) /\ Range(a4 \o b) = Range(a4) \cup Range(b)
    BY <1>8, <2>1, <2>2, Joined
  <2> QED
    BY <1>8, <2>1, <2>3 DEF b
<1> HIDE DEF a5
<1>10. Range(a5) = {rec, cre, que, lis, rej} \cup Range(Ports(c, port))
  BY <1>7, <1>8, <1>9
<1>11. \A x \in Range(a5) : x.chain = c /\ x.do \notin Clearing /\ Stage(x) <= 3
  BY <1>1, <1>2, <1>6, <1>10 DEF Clearing, Lines
<1>12. {cre, que, lis, rej} \subseteq Range(a5)
  BY <1>10
<1> QED
  BY <1>3, <1>9, <1>11, <1>12 DEF cre, que, lis, rej

(* The other things that are done for each chain. *)
LEMMA TurnsGood ==
  ASSUME NEW c \in Set
  PROVE  /\ Loopback(c) \in Seq(Instrs) /\ Good(Loopback(c))
         /\ \A x \in Range(Loopback(c)) : x.chain = c /\ x.do \notin Clearing /\ Stage(x) = 3
         /\ c \in {"INPUT", "OUTPUT"} => Rule("insert", c, "loop") \in Range(Loopback(c))
         /\ Local(c) \in Seq(Instrs) /\ Good(Local(c))
         /\ \A x \in Range(Local(c)) : x.chain = c /\ x.do \notin Clearing /\ Stage(x) = 3
         /\ Rule("insert", c, "local") \in Range(Local(c))
         /\ LocalUnlessThere(c) \in Seq(Instrs) /\ Good(LocalUnlessThere(c))
         /\ \A x \in Range(LocalUnlessThere(c)) :
              x \in HookInstrs /\ x.chain = c /\ x.do \notin Clearing /\ Stage(x) = 3
         /\ Rule("ensure", c, "local") \in Range(LocalUnlessThere(c))
         /\ Activate(c) \in Seq(Instrs) /\ Good(Activate(c))
         /\ \A x \in Range(Activate(c)) :
              x.chain = c /\ x.do \notin Clearing /\ Stage(x) \in {0, 4}
         /\ On("activate", c) \in Range(Activate(c))
         /\ \A cmd \in Configures :
              /\ Change(cmd, c) \in Seq(Instrs) /\ Good(Change(cmd, c))
              /\ \A x \in Range(Change(cmd, c)) :
                   x \in HookInstrs /\ x.chain = c /\ x.do \notin Clearing /\ Stage(x) = 0
<1> DEFINE lop == Rule("insert", c, "loop")
           loc == Rule("insert", c, "local")
           ens == Rule("ensure", c, "local")
           add == Rule("ensure", c, "port")
           del == Rule("delete", c, "port")
           rem == On("remember", c)
           act == On("activate", c)
<1>1. /\ lop \in Instrs /\ loc \in Instrs /\ ens \in HookInstrs /\ add \in HookInstrs
      /\ del \in HookInstrs /\ rem \in Instrs /\ act \in Instrs /\ HookInstrs \subseteq Instrs
      /\ lop.chain = c /\ loc.chain = c /\ ens.chain = c /\ add.chain = c
      /\ del.chain = c /\ rem.chain = c /\ act.chain = c
      /\ lop.do = "insert" /\ loc.do = "insert" /\ rem.do = "remember" /\ act.do = "activate"
  BY Words DEF Rules
<1>2. ens.do = "ensure" /\ add.do = "ensure" /\ del.do = "delete"
  BY DEF Rule
<1>3. /\ Stage(lop) = 3 /\ Stage(loc) = 3 /\ Stage(ens) = 3 /\ Stage(add) = 0
      /\ Stage(del) = 0 /\ Stage(rem) = 0 /\ Stage(act) = 4
  BY Words, Stages
<1>4. act.chain = c /\ rem = On("remember", act.chain)
  BY <1>1
<1> HIDE DEF lop, loc, ens, add, del, rem, act
<1>5. /\ Loopback(c) \in Seq(Instrs) /\ Good(Loopback(c))
      /\ \A x \in Range(Loopback(c)) : x = lop
      /\ c \in {"INPUT", "OUTPUT"} => lop \in Range(Loopback(c))
  BY <1>1, ShortGood DEF Loopback, lop
<1>6. Local(c) \in Seq(Instrs) /\ Good(Local(c)) /\ Range(Local(c)) = {loc}
  BY <1>1, ShortGood DEF Local, loc
<1>7. /\ LocalUnlessThere(c) \in Seq(Instrs) /\ Good(LocalUnlessThere(c))
      /\ Range(LocalUnlessThere(c)) = {ens}
  BY <1>1, <1>2, ShortGood DEF LocalUnlessThere, ens
<1>8. Activate(c) \in Seq(Instrs) /\ Good(Activate(c)) /\ Range(Activate(c)) = {rem, act}
  <2>1. Before(rem, act)
    BY <1>1, <1>3 DEF Before, Lines
  <2>2. Follows(rem, act)
    BY <1>1, <1>4 DEF Follows
  <2>3. <<rem, act>> \in Seq(Instrs) /\ Good(<<rem, act>>) /\ Range(<<rem, act>>) = {rem, act}
    BY <1>1, <2>1, <2>2, ShortGood
  <2> QED
    BY <2>3 DEF Activate, rem, act
<1>9. ASSUME NEW cmd \in Configures
      PROVE  /\ Change(cmd, c) \in Seq(Instrs) /\ Good(Change(cmd, c))
             /\ \A x \in Range(Change(cmd, c)) : x = add \/ x = del
  <2>1. Change(cmd, c) = IF cmd = "allow" THEN <<add>> ELSE <<del>>
    BY DEF Change, add, del, Rule
  <2> QED
    BY <1>1, <1>2, <2>1, ShortGood
<1>10. \A x \in {lop, loc, ens, add, del, rem, act} : x.do \notin Clearing
  BY <1>1, <1>2 DEF Clearing, Lines
<1>11. /\ \A x \in Range(Loopback(c)) : x.chain = c /\ x.do \notin Clearing /\ Stage(x) = 3
       /\ \A x \in Range(Local(c)) : x.chain = c /\ x.do \notin Clearing /\ Stage(x) = 3
       /\ \A x \in Range(LocalUnlessThere(c)) :
            x \in HookInstrs /\ x.chain = c /\ x.do \notin Clearing /\ Stage(x) = 3
       /\ \A x \in Range(Activate(c)) :
            x.chain = c /\ x.do \notin Clearing /\ Stage(x) \in {0, 4}
  BY <1>1, <1>3, <1>5, <1>6, <1>7, <1>8, <1>10
<1>12. ASSUME NEW cmd \in Configures, NEW x \in Range(Change(cmd, c))
       PROVE  x \in HookInstrs /\ x.chain = c /\ x.do \notin Clearing /\ Stage(x) = 0
  BY <1>1, <1>3, <1>9, <1>10
<1>13. /\ lop = Rule("insert", c, "loop") /\ loc = Rule("insert", c, "local")
       /\ ens = Rule("ensure", c, "local") /\ act = On("activate", c)
  BY DEF lop, loc, ens, act
<1> QED
  BY <1>5, <1>6, <1>7, <1>8, <1>9, <1>11, <1>12, <1>13

(* A loop over the chains, with what holds of all its instructions. *)
LEMMA LoopGood ==
  ASSUME NEW lines \in [Set -> Seq(Instrs)], NEW S,
         \A c \in Set : /\ Good(lines[c])
                        /\ \A x \in Range(lines[c]) :
                             x.chain = c /\ x.do \notin Clearing /\ x \in S
  PROVE  /\ ForEach(lines) \in Seq(Instrs) /\ Good(ForEach(lines))
         /\ \A x \in Range(ForEach(lines)) : x \in S /\ x.do \notin Clearing
         /\ \A c \in Set : Range(lines[c]) \subseteq Range(ForEach(lines))
<1>1. /\ ForEach(lines) \in Seq(Instrs) /\ Good(ForEach(lines))
      /\ Range(ForEach(lines)) = UNION {Range(lines[c]) : c \in Set}
  BY ForEachGood
<1> QED
  BY <1>1

Staged(n) == {x \in Instrs : Stage(x) = n}
Unstaged(n) == {x \in Instrs : Stage(x) = 0 \/ Stage(x) = n}

(* The rules for the LAN, and for the loopback device. *)
LEMMA LocalGood ==
  ASSUME NEW cmd \in Cmds
  PROVE  /\ white_local(cmd) \in Seq(Instrs) /\ Good(white_local(cmd))
         /\ \A x \in Range(white_local(cmd)) : Stage(x) = 3 /\ x.do \notin Clearing
         /\ \A c \in Set : Pending(Range(white_local(cmd)), c, "local")
         /\ cmd \in {"start", "restart"} => \A c \in Set \cap {"INPUT", "OUTPUT"} :
              Pending(Range(white_local(cmd)), c, "loop")
         /\ cmd = "if_up" => \A x \in Range(white_local(cmd)) : x \in HookInstrs
<1>1. CASE cmd \in {"start", "restart"}
  <2> DEFINE fa == [c \in Set |-> Loopback(c)]
             fb == [c \in Set |-> Local(c)]
             a == ForEach(fa)
             b == ForEach(fb)
  <2>1. /\ fa \in [Set -> Seq(Instrs)]
        /\ \A c \in Set : /\ Good(fa[c])
                          /\ \A x \in Range(fa[c]) :
                               x.chain = c /\ x.do \notin Clearing /\ x \in Staged(3)
    BY TurnsGood, InRange DEF Staged
  <2>2. /\ fb \in [Set -> Seq(Instrs)]
        /\ \A c \in Set : /\ Good(fb[c])
                          /\ \A x \in Range(fb[c]) :
                               x.chain = c /\ x.do \notin Clearing /\ x \in Staged(3)
    BY TurnsGood, InRange DEF Staged
  <2>3. /\ \A c \in Set : Rule("insert", c, "local") \in Range(fb[c])
        /\ \A c \in Set \cap {"INPUT", "OUTPUT"} : Rule("insert", c, "loop") \in Range(fa[c])
    BY TurnsGood
  <2> HIDE DEF fa, fb
  <2>4. /\ a \in Seq(Instrs) /\ Good(a)
        /\ \A x \in Range(a) : x \in Staged(3) /\ x.do \notin Clearing
        /\ \A c \in Set : Range(fa[c]) \subseteq Range(a)
    BY <2>1, LoopGood
  <2>5. /\ b \in Seq(Instrs) /\ Good(b)
        /\ \A x \in Range(b) : x \in Staged(3) /\ x.do \notin Clearing
        /\ \A c \in Set : Range(fb[c]) \subseteq Range(b)
    BY <2>2, LoopGood
  <2> HIDE DEF a, b
  <2>6. \A x \in Range(a), y \in Range(b) : Before(x, y)
    BY <2>4, <2>5, Levels DEF Staged
  <2>7. a \o b \in Seq(Instrs) /\ Good(a \o b) /\ Range(a \o b) = Range(a) \cup Range(b)
    BY <2>4, <2>5, <2>6, Joined
  <2>8. white_local(cmd) = a \o b
    BY <1>1 DEF white_local, a, b, fa, fb
  <2>9. /\ \A x \in Range(a \o b) : Stage(x) = 3 /\ x.do \notin Clearing
        /\ \A c \in Set : Rule("insert", c, "local") \in Range(a \o b)
        /\ \A c \in Set \cap {"INPUT", "OUTPUT"} : Rule("insert", c, "loop") \in Range(a \o b)
    BY <2>3, <2>4, <2>5, <2>7 DEF Staged
  <2> QED
    BY <1>1, <2>7, <2>8, <2>9 DEF Pending
<1>2. CASE cmd \notin {"start", "restart"}
  <2> DEFINE f == [c \in Set |-> LocalUnlessThere(c)]
             a == ForEach(f)
             S == Staged(3) \cap HookInstrs
  <2>1. /\ f \in [Set -> Seq(Instrs)]
        /\ \A c \in Set : /\ Good(f[c])
                          /\ \A x \in Range(f[c]) :
                               x.chain = c /\ x.do \notin Clearing /\ x \in S
    BY TurnsGood, InRange DEF Staged
  <2>2. \A c \in Set : Rule("ensure", c, "local") \in Range(f[c])
    BY TurnsGood
  <2> HIDE DEF f, S
  <2>3. /\ a \in Seq(Instrs) /\ Good(a)
        /\ \A x \in Range(a) : x \in S /\ x.do \notin Clearing
        /\ \A c \in Set : Range(f[c]) \subseteq Range(a)
    BY <2>1, LoopGood
  <2>4. white_local(cmd) = a
    BY <1>2 DEF white_local, f
  <2> QED
    BY <1>2, <2>2, <2>3, <2>4 DEF Pending, Staged, S
<1> QED
  BY <1>1, <1>2

(* A start sets up every chain completely, in stages. *)
LEMMA StartGood ==
  ASSUME NEW cmd \in Starters, NEW port \in BOOLEAN,
         cmd = "restart_not_wd" => "repair" \in may
  PROVE  /\ do_start(cmd, port) \in Seq(Instrs) /\ Good(do_start(cmd, port))
         /\ \A x \in Range(do_start(cmd, port)) : x.do \notin Lines
         /\ Closed(Range(do_start(cmd, port)))
         /\ \A c \in Set : On("create", c) \in Range(do_start(cmd, port))
<1> DEFINE fs == [c \in Set |-> Setup(c, port)]
           fa == [c \in Set |-> Activate(c)]
           s == ForEach(fs)
           w == white_local(cmd)
           a == ForEach(fa)
           un == <<Do("unless_running")>>
           sh == <<Do("sh"), Do("rm")>>
           mv == <<Do("cat"), Do("mv")>>
           st == <<Do("start_daemon")>>
           p1 == sh \o s
           p2 == p1 \o w
           p3 == p2 \o a
           p4 == p3 \o mv
           p5 == un \o p4
           p6 == p5 \o st
<1>1. /\ fs \in [Set -> Seq(Instrs)] /\ fa \in [Set -> Seq(Instrs)]
      /\ \A c \in Set : /\ Good(fs[c])
                        /\ \A x \in Range(fs[c]) :
                             /\ x.chain = c
                             /\ x.do \notin Clearing
                             /\ x \in {y \in Instrs : Stage(y) <= 3}
      /\ \A c \in Set : /\ Good(fa[c])
                        /\ \A x \in Range(fa[c]) :
                             x.chain = c /\ x.do \notin Clearing /\ x \in Unstaged(4)
  BY SetupGood, TurnsGood, InRange DEF Unstaged
<1>2. \A c \in Set : /\ {On("create", c), Rule("insert", c, "queue"), Rule("insert", c, "list"),
                         Rule("insert", c, "reject")} \subseteq Range(fs[c])
                     /\ On("activate", c) \in Range(fa[c])
  BY SetupGood, TurnsGood
<1> HIDE DEF fs, fa
<1>3. /\ s \in Seq(Instrs) /\ Good(s)
      /\ \A x \in Range(s) : x \in Instrs /\ Stage(x) <= 3 /\ x.do \notin Clearing
      /\ \A c \in Set : Range(fs[c]) \subseteq Range(s)
  <2> DEFINE S == {y \in Instrs : Stage(y) <= 3}
  <2>1. \A c \in Set : /\ Good(fs[c])
                       /\ \A x \in Range(fs[c]) : x.chain = c /\ x.do \notin Clearing /\ x \in S
    BY <1>1
  <2> HIDE DEF S
  <2>2. /\ s \in Seq(Instrs) /\ Good(s)
        /\ \A x \in Range(s) : x \in S /\ x.do \notin Clearing
        /\ \A c \in Set : Range(fs[c]) \subseteq Range(s)
    BY <1>1, <2>1, LoopGood
  <2> QED
    BY <2>2 DEF S
<1>4. /\ a \in Seq(Instrs) /\ Good(a)
      /\ \A x \in Range(a) : x \in Unstaged(4) /\ x.do \notin Clearing
      /\ \A c \in Set : Range(fa[c]) \subseteq Range(a)
  <2> DEFINE S == Unstaged(4)
  <2>1. \A c \in Set : /\ Good(fa[c])
                       /\ \A x \in Range(fa[c]) : x.chain = c /\ x.do \notin Clearing /\ x \in S
    BY <1>1
  <2>2. S \subseteq Instrs
    BY DEF Unstaged
  <2> HIDE DEF S
  <2>3. /\ a \in Seq(Instrs) /\ Good(a)
        /\ \A x \in Range(a) : x \in S /\ x.do \notin Clearing
        /\ \A c \in Set : Range(fa[c]) \subseteq Range(a)
    BY <1>1, <2>1, <2>2, LoopGood
  <2> QED
    BY <2>3 DEF S
<1>5. /\ w \in Seq(Instrs) /\ Good(w)
      /\ \A x \in Range(w) : x \in Instrs /\ Stage(x) = 3 /\ x.do \notin Clearing
      /\ \A c \in Set : Pending(Range(w), c, "local")
      /\ cmd \in {"start", "restart"} => \A c \in Set \cap {"INPUT", "OUTPUT"} :
           Pending(Range(w), c, "loop")
  <2>1. cmd \in Cmds
    BY DEF Cmds
  <2> QED
    BY <2>1, LocalGood, InRange
<1>6. do_start(cmd, port) = p6
  <2>1. do_start(cmd, port) = (un \o ((((sh \o s) \o w) \o a) \o mv)) \o st
    BY DEF do_start, insert_iptables, delete_iptables, fs, fa
  <2> QED
    BY <2>1
<1>7. /\ un \in Seq(Instrs) /\ Good(un)
      /\ \A x \in Range(un) : x \in Instrs /\ Stage(x) = 0 /\ x.do \notin Lines
      /\ sh \in Seq(Instrs) /\ Good(sh)
      /\ \A x \in Range(sh) : x \in Instrs /\ Stage(x) = 0 /\ x.do \notin Lines
      /\ mv \in Seq(Instrs) /\ Good(mv)
      /\ \A x \in Range(mv) : x \in Instrs /\ Stage(x) = 0 /\ x.do \notin Clearing
      /\ st \in Seq(Instrs) /\ Good(st)
      /\ \A x \in Range(st) : x \in Instrs /\ Stage(x) = 0 /\ x.do \notin Clearing
  <2>1. \A op \in {"unless_running", "sh", "rm", "cat", "mv", "start_daemon"} :
          Do(op) \in Instrs /\ Stage(Do(op)) = 0 /\ Do(op).do = op
    BY Words
  <2>2. /\ Before(Do("sh"), Do("rm")) /\ Follows(Do("sh"), Do("rm"))
        /\ Before(Do("cat"), Do("mv")) /\ Follows(Do("cat"), Do("mv"))
    BY <2>1 DEF Before, Follows, Lines
  <2>3. un \in Seq(Instrs) /\ Good(un) /\ Range(un) = {Do("unless_running")}
    BY <2>1, ShortGood
  <2>4. sh \in Seq(Instrs) /\ Good(sh) /\ Range(sh) = {Do("sh"), Do("rm")}
    BY <2>1, <2>2, ShortGood
  <2>5. mv \in Seq(Instrs) /\ Good(mv) /\ Range(mv) = {Do("cat"), Do("mv")}
    BY <2>1, <2>2, ShortGood
  <2>6. st \in Seq(Instrs) /\ Good(st) /\ Range(st) = {Do("start_daemon")}
    BY <2>1, ShortGood
  <2> HIDE DEF un, sh, mv, st
  <2> QED
    BY <2>1, <2>3, <2>4, <2>5, <2>6 DEF Clearing, Lines
<1> HIDE DEF s, w, a, un, sh, mv, st
<1>8. Lines \subseteq Clearing
  BY DEF Clearing
<1>9. p1 \in Seq(Instrs) /\ Good(p1) /\ Range(p1) = Range(sh) \cup Range(s)
  BY <1>3, <1>7, <1>8, Levels, Joined
<1> HIDE DEF p1
<1>10. p2 \in Seq(Instrs) /\ Good(p2) /\ Range(p2) = Range(p1) \cup Range(w)
  <2>1. \A x \in Range(p1), y \in Range(w) : Before(x, y)
    BY <1>3, <1>5, <1>7, <1>8, <1>9, Levels
  <2> QED
    BY <1>5, <1>9, <2>1, Joined
<1> HIDE DEF p2
<1>11. p3 \in Seq(Instrs) /\ Good(p3) /\ Range(p3) = Range(p2) \cup Range(a)
  <2>1. \A x \in Range(p2), y \in Range(a) : Before(x, y)
    <3>1. \A x \in Range(p2) : x \in Instrs /\ Stage(x) <= 3
      BY <1>3, <1>5, <1>7, <1>9, <1>10
    <3> QED
      BY <1>4, <3>1, Levels DEF Unstaged
  <2> QED
    BY <1>4, <1>10, <2>1, Joined
<1> HIDE DEF p3
<1>12. p4 \in Seq(Instrs) /\ Good(p4) /\ Range(p4) = Range(p3) \cup Range(mv)
  <2>1. \A x \in Range(p3), y \in Range(mv) : Before(x, y)
    BY <1>7, <1>11, Levels, InRange
  <2> QED
    BY <1>7, <1>11, <2>1, Joined
<1> HIDE DEF p4
<1>13. /\ \A x \in Range(p4) : x \in Instrs /\ x.do \notin Lines
       /\ Range(p4) = Range(sh) \cup Range(s) \cup Range(w) \cup Range(a) \cup Range(mv)
  <2>1. Range(p4) = Range(sh) \cup Range(s) \cup Range(w) \cup Range(a) \cup Range(mv)
    BY <1>9, <1>10, <1>11, <1>12
  <2> QED
    BY <1>3, <1>4, <1>5, <1>7, <1>8, <2>1 DEF Unstaged
<1>14. p5 \in Seq(Instrs) /\ Good(p5) /\ Range(p5) = Range(un) \cup Range(p4)
  <2>1. \A x \in Range(un), y \in Range(p4) : Before(x, y)
    BY <1>7, <1>13, Levels
  <2> QED
    BY <1>7, <1>12, <2>1, Joined
<1> HIDE DEF p5
<1>15. p6 \in Seq(Instrs) /\ Good(p6) /\ Range(p6) = Range(p5) \cup Range(st)
  <2>1. \A x \in Range(p5), y \in Range(st) : Before(x, y)
    BY <1>7, <1>14, Levels, InRange
  <2> QED
    BY <1>7, <1>14, <2>1, Joined
<1> HIDE DEF p6
<1>16. \A x \in Range(p6) : x.do \notin Lines
  BY <1>7, <1>8, <1>13, <1>14, <1>15
<1>17. Range(s) \cup Range(w) \cup Range(a) \subseteq Range(p6)
  BY <1>13, <1>14, <1>15
<1>18. Closed(Range(p6))
  <2> SUFFICES ASSUME NEW c \in Set
               PROVE  /\ On("activate", c) \in Range(p6) /\ On("create", c) \in Range(p6)
                      /\ Pending(Range(p6), c, "reject")
                      /\ \A r \in Needed(c) : Pending(Range(p6), c, r)
    BY DEF Closed
  <2>1. /\ On("activate", c) \in Range(p6) /\ On("create", c) \in Range(p6)
        /\ Rule("insert", c, "list") \in Range(p6)
        /\ Rule("insert", c, "reject") \in Range(p6)
    BY <1>2, <1>3, <1>4, <1>17
  <2>2. Pending(Range(p6), c, "local")
    BY <1>5, <1>17 DEF Pending
  <2>3. c \in {"INPUT", "OUTPUT"} /\ "repair" \notin may => Pending(Range(p6), c, "loop")
    BY <1>5, <1>17 DEF Pending, Starters
  <2> QED
    BY <2>1, <2>2, <2>3 DEF Pending, Needed
<1>19. \A c \in Set : On("create", c) \in Range(p6)
  BY <1>2, <1>3, <1>17
<1> QED
  BY <1>6, <1>15, <1>16, <1>18, <1>19

(* Instructions that set up nothing. *)
LEMMA ClosedUnstaged ==
  ASSUME NEW R, \A x \in R : Stage(x) \notin {1, 2, 4}
  PROVE  Closed(R)
<1>1. \A c \in Set : /\ On("create", c) \notin R /\ On("activate", c) \notin R
                     /\ Rule("insert", c, "queue") \notin R
  BY Stages
<1> QED
  BY <1>1 DEF Closed

(* What remains to be done when something failed: put the script together    *)
(* and execute it.                                                           *)
LEMMA StopGood ==
  LET failing == <<Do("cat"), Do("mv")>> \o delete_iptables
  IN  /\ delete_iptables \in Seq(Instrs) /\ Good(delete_iptables)
      /\ do_stop \in Seq(Instrs) /\ Good(do_stop)
      /\ failing \in Seq(Instrs) /\ Good(failing)
      /\ \A x \in Range(delete_iptables) \cup Range(do_stop) \cup Range(failing) :
           Stage(x) = 0 /\ x.do \notin Lines
      /\ failing # <<>> /\ failing[1] = Do("cat")
      /\ delete_iptables # <<>> /\ delete_iptables[1] = Do("sh")
<1> DEFINE sh == <<Do("sh"), Do("rm")>>
           mv == <<Do("cat"), Do("mv")>>
           ki == <<Do("killproc")>>
<1>1. \A op \in {"sh", "rm", "cat", "mv", "killproc"} :
        Do(op) \in Instrs /\ Stage(Do(op)) = 0 /\ Do(op).do = op
  BY Words
<1>2. /\ Before(Do("sh"), Do("rm")) /\ Follows(Do("sh"), Do("rm"))
      /\ Before(Do("cat"), Do("mv")) /\ Follows(Do("cat"), Do("mv"))
  BY <1>1 DEF Before, Follows, Lines
<1>3. sh \in Seq(Instrs) /\ Good(sh) /\ Range(sh) = {Do("sh"), Do("rm")}
  BY <1>1, <1>2, ShortGood
<1>4. mv \in Seq(Instrs) /\ Good(mv) /\ Range(mv) = {Do("cat"), Do("mv")}
  BY <1>1, <1>2, ShortGood
<1>5. ki \in Seq(Instrs) /\ Good(ki) /\ Range(ki) = {Do("killproc")}
  BY <1>1, ShortGood
<1>6. mv # <<>> /\ mv[1] = Do("cat") /\ Len(mv) = 2 /\ sh # <<>> /\ sh[1] = Do("sh")
  OBVIOUS
<1>7. /\ delete_iptables = sh
      /\ do_stop = sh \o ki
      /\ <<Do("cat"), Do("mv")>> \o delete_iptables = mv \o sh
  BY DEF delete_iptables, do_stop
<1> HIDE DEF sh, mv, ki
<1>8. \A x \in Range(sh) \cup Range(mv) \cup Range(ki) :
        x \in Instrs /\ Stage(x) = 0 /\ x.do \notin Lines
  BY <1>1, <1>3, <1>4, <1>5 DEF Lines
<1>9. sh \o ki \in Seq(Instrs) /\ Good(sh \o ki) /\ Range(sh \o ki) = Range(sh) \cup Range(ki)
  BY <1>3, <1>5, <1>8, Levels, Joined
<1>10. mv \o sh \in Seq(Instrs) /\ Good(mv \o sh) /\ Range(mv \o sh) = Range(mv) \cup Range(sh)
  BY <1>3, <1>4, <1>8, Levels, Joined
<1>11. mv \o sh # <<>> /\ (mv \o sh)[1] = Do("cat")
  <2>1. Len(sh) \in Nat /\ Len(mv) \in Nat
    BY <1>3, <1>4, LenProperties
  <2>2. /\ Len(mv \o sh) = Len(mv) + Len(sh)
        /\ \A n \in 1 .. Len(mv) + Len(sh) :
             (mv \o sh)[n] = IF n <= Len(mv) THEN mv[n] ELSE sh[n - Len(mv)]
    BY <1>3, <1>4, ConcatProperties
  <2>3. 1 \in 1 .. Len(mv) + Len(sh) /\ Len(mv \o sh) # 0 /\ 1 <= Len(mv)
    BY <1>6, <2>1, <2>2
  <2> QED
    BY <1>6, <1>10, <2>2, <2>3, EmptySeq
<1> QED
  BY <1>3, <1>6, <1>7, <1>8, <1>9, <1>10, <1>11

(* A change of a running pgl: the hook may do it as well. *)
LEMMA ChangeGood ==
  ASSUME NEW cmd \in Configures \cup {"if_up"}, NEW port \in BOOLEAN
  PROVE  /\ Program(cmd, port) \in Seq(Instrs) /\ Good(Program(cmd, port))
         /\ \A x \in Range(Program(cmd, port)) :
              x \in HookInstrs /\ Stage(x) \in {0, 3} /\ x.do \notin Lines
<1> DEFINE f == [c \in Set |-> Change(cmd, c)]
           a == ForEach(f)
           w == white_local("if_up")
           b == <<Do("if_running")>>
           S == HookInstrs \cap Staged(0)
<1>1. Do("if_running") \in HookInstrs /\ Stage(Do("if_running")) = 0
      /\ Do("if_running").do = "if_running" /\ HookInstrs \subseteq Instrs
  BY Words
<1>2. b \in Seq(Instrs) /\ Good(b) /\ Range(b) = {Do("if_running")}
  BY <1>1, ShortGood
<1>3. ASSUME cmd \in Configures
      PROVE  /\ a \in Seq(Instrs) /\ Good(a)
             /\ \A x \in Range(a) : x \in S /\ x.do \notin Clearing
  <2>1. /\ f \in [Set -> Seq(Instrs)]
        /\ \A c \in Set : /\ Good(f[c])
                          /\ \A x \in Range(f[c]) : x.chain = c /\ x.do \notin Clearing /\ x \in S
    BY <1>1, <1>3, TurnsGood DEF Staged
  <2> HIDE DEF f, S
  <2> QED
    BY <2>1, LoopGood
<1>4. /\ w \in Seq(Instrs) /\ Good(w)
      /\ \A x \in Range(w) : x \in HookInstrs /\ Stage(x) = 3 /\ x.do \notin Clearing
  <2>1. "if_up" \in Cmds
    BY DEF Cmds
  <2> QED
    BY <2>1, LocalGood
<1>5. Program(cmd, port) = IF cmd = "if_up" THEN b \o w ELSE b \o a
  BY DEF Program, if_up, configure, Configures, Starters
<1> HIDE DEF a, b, w, f
<1>6. CASE cmd = "if_up"
  <2>1. \A x \in Range(b), y \in Range(w) : Before(x, y)
    BY <1>1, <1>2, <1>4, Levels DEF Clearing
  <2>2. b \o w \in Seq(Instrs) /\ Good(b \o w) /\ Range(b \o w) = Range(b) \cup Range(w)
    BY <1>2, <1>4, <2>1, Joined
  <2> QED
    BY <1>1, <1>2, <1>4, <1>5, <1>6, <2>2 DEF Clearing, Lines
<1>7. CASE cmd # "if_up"
  <2>1. cmd \in Configures
    BY <1>7
  <2>2. \A x \in Range(b), y \in Range(a) : Before(x, y)
    BY <1>1, <1>2, <1>3, <2>1, Levels DEF Clearing
  <2>3. b \o a \in Seq(Instrs) /\ Good(b \o a) /\ Range(b \o a) = Range(b) \cup Range(a)
    BY <1>2, <1>3, <2>1, <2>2, Joined
  <2> QED
    BY <1>1, <1>2, <1>3, <1>5, <1>7, <2>1, <2>3 DEF Clearing, Lines, Staged
<1> QED
  BY <1>6, <1>7

(* Every program of pglcmd. *)
LEMMA ProgramGood ==
  ASSUME NEW cmd \in Starters \cup Configures \cup {"stop"}, NEW port \in BOOLEAN,
         cmd = "restart_not_wd" => "repair" \in may
  PROVE  /\ Program(cmd, port) \in Seq(Instrs) /\ Good(Program(cmd, port))
         /\ \A x \in Range(Program(cmd, port)) : x.do \notin Lines
         /\ Closed(Range(Program(cmd, port)))
         /\ \A c \in Set : On("activate", c) \in Range(Program(cmd, port)) =>
                             On("create", c) \in Range(Program(cmd, port))
<1>1. CASE cmd \in Configures
  <2>1. /\ Program(cmd, port) \in Seq(Instrs) /\ Good(Program(cmd, port))
        /\ \A x \in Range(Program(cmd, port)) : Stage(x) \in {0, 3} /\ x.do \notin Lines
    BY <1>1, ChangeGood
  <2> QED
    BY <2>1, ClosedUnstaged, Stages
<1>2. /\ do_stop \in Seq(Instrs) /\ Good(do_stop)
      /\ \A x \in Range(do_stop) : x \in Instrs /\ Stage(x) = 0 /\ x.do \notin Lines
  BY StopGood, InRange
<1>3. CASE cmd = "stop"
  <2>1. Program(cmd, port) = do_stop
    BY <1>3 DEF Program, Starters, Configures
  <2> QED
    BY <1>2, <2>1, ClosedUnstaged, Stages
<1>4. CASE cmd \in Starters
  <2> DEFINE s == do_start(cmd, port)
  <2>1. /\ s \in Seq(Instrs) /\ Good(s) /\ Closed(Range(s))
        /\ \A c \in Set : On("create", c) \in Range(s)
        /\ \A x \in Range(s) : x \in Instrs /\ x.do \notin Lines
    BY <1>4, StartGood, InRange
  <2> HIDE DEF s
  <2>2. CASE cmd = "start"
    <3>1. Program(cmd, port) = s
      BY <2>2 DEF Program, Configures, s
    <3> QED
      BY <2>1, <3>1
  <2>3. CASE cmd # "start"
    <3>1. Program(cmd, port) = do_stop \o s
      BY <1>4, <2>3 DEF Program, Starters, Configures, s
    <3>2. \A x \in Range(do_stop), y \in Range(s) : Before(x, y)
      BY <1>2, <2>1, Levels
    <3>3. /\ do_stop \o s \in Seq(Instrs) /\ Good(do_stop \o s)
          /\ Range(do_stop \o s) = Range(do_stop) \cup Range(s)
      BY <1>2, <2>1, <3>2, Joined
    <3>4. \A c \in Set : /\ On("create", c) \in Range(do_stop \o s) => On("create", c) \in Range(s)
                         /\ On("activate", c) \in Range(do_stop \o s) =>
                              On("activate", c) \in Range(s) 
                         /\ Rule("insert", c, "queue") \in Range(do_stop \o s) =>
                              Rule("insert", c, "queue") \in Range(s)
      BY <1>2, <3>3, Stages
    <3>5. \A x \in Range(s) : x \in Range(do_stop \o s)
      BY <3>3
    <3>6. \A c \in Set : On("activate", c) \in Range(s) => On("create", c) \in Range(s)
      BY <2>1
    <3>7. Closed(Range(do_stop \o s))
      BY <2>1, <3>4, <3>5, <3>6 DEF Closed, Pending
    <3> QED
      BY <1>2, <2>1, <3>1, <3>3, <3>4, <3>5, <3>7
  <2> QED
    BY <2>2, <2>3
<1> QED
  BY <1>1, <1>3, <1>4

-----------------------------------------------------------------------------
(* The types *)

(* A set of positions has a first one. *)
LEMMA FirstPosition ==
  ASSUME NEW P \in SUBSET Nat, P # {}
  PROVE  Min(P) \in P /\ \A n \in P : Min(P) <= n
<1>1. IsWellFoundedOn(OpToRel(<, Nat), Nat)
  BY NatLessThanWellFounded
<1>2. PICK m \in P : \A n \in P : ~(<<n, m>> \in OpToRel(<, Nat))
  BY <1>1, WFMin
<1>3. ASSUME NEW n \in P PROVE m <= n
  <2>1. m \in Nat /\ n \in Nat
    OBVIOUS
  <2>2. n < m => <<n, m>> \in OpToRel(<, Nat)
    BY <2>1 DEF OpToRel
  <2>3. ~(n < m)
    BY <1>2, <2>2, Zenon
  <2> QED
    BY <2>1, <2>3
<1> QED
  BY <1>3 DEF Min

(* A chain has the rule of the port once, if it has it. *)
Once(s) == \A m, n \in 1 .. Len(s) : s[m] = "port" /\ s[n] = "port" => m = n

(* iptables -D takes a rule away and leaves the others as they are.          *)
LEMMA Removed ==
  ASSUME NEW s \in Seq(Rules)
  PROVE  /\ RemoveFirst(s, "port") \in Seq(Rules)
         /\ s = <<>> => RemoveFirst(s, "port") = <<>>
         /\ Range(s) \ {"port"} \subseteq Range(RemoveFirst(s, "port"))
         /\ Range(RemoveFirst(s, "port")) \subseteq Range(s)
         /\ RejectFirst(s) => RejectFirst(RemoveFirst(s, "port"))
         /\ Once(s) => "port" \notin Range(RemoveFirst(s, "port"))
<1> DEFINE r == RemoveFirst(s, "port")
           P == {i \in 1 .. Len(s) : s[i] = "port"}
           k == Min(P)
           u == SubSeq(s, 1, k - 1)
           v == SubSeq(s, k + 1, Len(s))
<1>1. CASE P = {}
  <2>1. r = s
    BY <1>1 DEF RemoveFirst
  <2>2. "port" \notin Range(s)
    BY <1>1, InRange
  <2> QED
    BY <2>1, <2>2
<1>2. CASE P # {}
  <2>1. r = u \o v
    BY <1>2 DEF RemoveFirst, RemoveAt, SelectInSeq
  <2>2. Len(s) \in Nat /\ \A i \in 1 .. Len(s) : s[i] \in Rules
    BY LenProperties, ElementOfSeq
  <2>3. P \in SUBSET Nat
    BY <2>2
  <2> HIDE DEF k
  <2>4. k \in P
    BY <1>2, <2>3, FirstPosition DEF k
  <2>5. k \in 1 .. Len(s) /\ s[k] = "port" /\ k \in Nat
    BY <2>2, <2>4
  <2>6. /\ u \in Seq(Rules) /\ Len(u) = k - 1
        /\ \A i \in 1 .. k - 1 : u[i] = s[i]
    <3>1. \A i \in 1 .. k - 1 : s[i] \in Rules
      BY <2>2, <2>5
    <3>2. /\ SubSeq(s, 1, k - 1) \in Seq(Rules)
          /\ Len(SubSeq(s, 1, k - 1)) = IF 1 <= k - 1 THEN (k - 1) - 1 + 1 ELSE 0
          /\ \A i \in 1 .. (k - 1) - 1 + 1 : SubSeq(s, 1, k - 1)[i] = s[1 + i - 1]
      BY <2>5, <3>1, SubSeqProperties
    <3>3. \A i \in 1 .. k - 1 : i \in 1 .. (k - 1) - 1 + 1 /\ 1 + i - 1 = i
      BY <2>5
    <3> QED
      BY <2>5, <3>2, <3>3
  <2>7. /\ v \in Seq(Rules) /\ Len(v) = Len(s) - k
        /\ \A i \in 1 .. Len(s) - k : v[i] = s[k + i]
    <3>1. \A i \in k + 1 .. Len(s) : s[i] \in Rules
      BY <2>2, <2>5
    <3>2. /\ SubSeq(s, k + 1, Len(s)) \in Seq(Rules)
          /\ Len(SubSeq(s, k + 1, Len(s))) =
               IF k + 1 <= Len(s) THEN Len(s) - (k + 1) + 1 ELSE 0
          /\ \A i \in 1 .. Len(s) - (k + 1) + 1 : SubSeq(s, k + 1, Len(s))[i] = s[k + 1 + i - 1]
      BY <2>2, <2>5, <3>1, SubSeqProperties
    <3>3. \A i \in 1 .. Len(s) - k : i \in 1 .. Len(s) - (k + 1) + 1 /\ k + 1 + i - 1 = k + i
      BY <2>2, <2>5
    <3> QED
      BY <2>2, <2>5, <3>2, <3>3
  <2> HIDE DEF P, u, v, r
  <2>8. /\ r \in Seq(Rules) /\ Len(r) = Len(s) - 1
        /\ \A i \in 1 .. Len(r) : r[i] = IF i < k THEN s[i] ELSE s[i + 1]
    <3>1. /\ r \in Seq(Rules) /\ Len(r) = (k - 1) + (Len(s) - k)
          /\ \A i \in 1 .. (k - 1) + (Len(s) - k) :
               r[i] = IF i <= k - 1 THEN u[i] ELSE v[i - (k - 1)]
      <4>1. /\ u \o v \in Seq(Rules) /\ Len(u \o v) = Len(u) + Len(v)
            /\ \A i \in 1 .. Len(u) + Len(v) :
                 (u \o v)[i] = IF i <= Len(u) THEN u[i] ELSE v[i - Len(u)]
        <5>1. u \in Seq(Rules) /\ v \in Seq(Rules)
          BY <2>6, <2>7
        <5> QED
          BY <5>1, ConcatProperties
      <4> QED
        BY <2>1, <2>6, <2>7, <4>1
    <3>2. Len(r) = Len(s) - 1
      BY <2>2, <2>5, <3>1
    <3>3. ASSUME NEW i \in 1 .. Len(r)
          PROVE  r[i] = IF i < k THEN s[i] ELSE s[i + 1]
      <4>1. i \in 1 .. (k - 1) + (Len(s) - k)
        BY <3>1
      <4>2. CASE i < k
        <5>1. i <= k - 1 /\ i \in 1 .. k - 1
          BY <2>5, <4>2
        <5> QED
          BY <2>6, <3>1, <4>1, <4>2, <5>1
      <4>3. CASE ~(i < k)
        <5>1. ~(i <= k - 1) /\ i - (k - 1) \in 1 .. Len(s) - k /\ k + (i - (k - 1)) = i + 1
          BY <2>2, <2>5, <3>2, <4>3
        <5> QED
          BY <2>7, <3>1, <4>1, <4>3, <5>1
      <4> QED
        BY <4>2, <4>3
    <3> QED
      BY <3>1, <3>2, <3>3
  <2>9. ASSUME NEW x \in Range(s), x # "port" PROVE x \in Range(r)
    <3>1. PICK n \in 1 .. Len(s) : x = s[n]
      BY InRange
    <3>2. n # k
      BY <2>5, <2>9, <3>1
    <3>3. CASE n < k
      <4>1. n \in 1 .. Len(r) /\ r[n] = s[n]
        BY <2>2, <2>5, <2>8, <3>3
      <4> QED
        BY <2>8, <3>1, <4>1, InRange
    <3>4. CASE n > k
      <4>1. n - 1 \in 1 .. Len(r) /\ ~(n - 1 < k) /\ (n - 1) + 1 = n
        BY <2>2, <2>5, <2>8, <3>4
      <4>2. r[n - 1] = s[n]
        BY <2>8, <4>1
      <4> QED
        BY <2>8, <3>1, <4>1, <4>2, InRange
    <3> QED
      BY <2>5, <3>2, <3>3, <3>4
  <2>10. ASSUME NEW x \in Range(r) PROVE x \in Range(s)
    <3>1. PICK n \in 1 .. Len(r) : x = r[n]
      BY <2>8, InRange
    <3>2. n \in 1 .. Len(s) /\ n + 1 \in 1 .. Len(s)
      BY <2>2, <2>8
    <3> QED
      BY <2>8, <3>1, <3>2, InRange
  <2>11. ASSUME RejectFirst(s) PROVE RejectFirst(r)
    <3> SUFFICES ASSUME NEW n \in 1 .. Len(r), r[n] = "queue"
                 PROVE  \E m \in 1 .. n - 1 : r[m] = "reject"
      BY DEF RejectFirst
    <3> DEFINE j == IF n < k THEN n ELSE n + 1
    <3>1. j \in 1 .. Len(s) /\ s[j] = "queue"
      BY <2>2, <2>5, <2>8
    <3>2. PICK i \in 1 .. j - 1 : s[i] = "reject"
      BY <2>11, <3>1 DEF RejectFirst
    <3>3. i # k
      BY <2>5, <3>2
    <3>4. CASE i < k
      <4>1. i \in 1 .. n - 1 /\ i \in 1 .. Len(r)
        BY <2>2, <2>5, <2>8, <3>4
      <4> QED
        BY <2>8, <3>2, <3>4, <4>1
    <3>5. CASE i > k
      <4>1. /\ i - 1 \in 1 .. n - 1 /\ i - 1 \in 1 .. Len(r)
            /\ ~(i - 1 < k) /\ (i - 1) + 1 = i
        BY <2>2, <2>5, <2>8, <3>5
      <4>2. r[i - 1] = s[i]
        BY <2>8, <4>1
      <4> QED
        BY <3>2, <4>1, <4>2
    <3> QED
      BY <2>5, <3>2, <3>3, <3>4, <3>5
  <2>12. s # <<>>
    BY <2>2, <2>5
  <2>13. ASSUME Once(s), "port" \in Range(r) PROVE FALSE
    <3>1. PICK i \in 1 .. Len(r) : r[i] = "port"
      BY <2>8, <2>13, InRange
    <3> DEFINE j == IF i < k THEN i ELSE i + 1
    <3>2. j \in 1 .. Len(s) /\ j # k /\ s[j] = "port"
      BY <2>2, <2>5, <2>8, <3>1
    <3> QED
      BY <2>5, <2>13, <3>2 DEF Once
  <2> QED
    BY <2>8, <2>9, <2>10, <2>11, <2>12, <2>13 DEF r
<1> QED
  BY <1>1, <1>2

(* The commands, the kernel, and the rest of the types.                      *)
CmdsOK == \A p \in Procs : proc[p].cmd \in {"none"} \cup Commands(p)

KernelOK ==
  /\ made \subseteq Set
  /\ chain \in [Set -> Seq(Rules)]
  /\ jump \in [Set -> Nat]
  /\ \A c \in Set \ made : chain[c] = <<>> /\ jump[c] = 0

OthersOK ==
  /\ may \in Circumstances
  /\ conf \in BOOLEAN /\ daemon \in BOOLEAN
  /\ result \in {"none", "up", "down", "failed", "exited", "dead"}
  /\ refused \in Nat /\ deaths \in 0 .. MaxDeaths
  /\ lost \subseteq Instruction

LEMMA Parts ==
  /\ TypeInv => CmdsOK /\ ProcOK /\ FilesOK /\ KernelOK /\ OthersOK
  /\ CmdsOK' /\ ProcOK' /\ FilesOK' /\ KernelOK' /\ OthersOK' => TypeInv'
<1>1. TypeInv => CmdsOK /\ ProcOK /\ FilesOK /\ KernelOK /\ OthersOK
  BY DEF TypeInv, TypeOK, CmdsOK, KernelOK, OthersOK
<1>2. ASSUME CmdsOK', ProcOK', FilesOK', KernelOK', OthersOK'
      PROVE  TypeInv'
  <2>1. script' \in Seq(Instruction) /\ tmp' \in Seq(Instruction)
    <3>1. ScriptLines \subseteq Instruction
      BY DEF ScriptLines, Instrs
    <3>2. script' \in Seq(ScriptLines) /\ tmp' \in Seq(ScriptLines)
      BY <1>2 DEF FilesOK
    <3> QED
      BY <3>1, <3>2, SeqMonotonic
  <2>2. \A p \in Procs : proc'[p].todo \in Seq(Instruction) /\ proc'[p].ok \in BOOLEAN
    <3>1. \A p \in Procs : proc'[p].todo \in Seq(Instrs) /\ proc'[p].ok \in BOOLEAN
      BY <1>2 DEF ProcOK
    <3>2. Instrs \subseteq Instruction
      BY DEF Instrs
    <3> QED
      BY <3>1, <3>2, SeqMonotonic
  <2>3. \A p \in Procs : proc'[p].cmd \in {"none"} \cup Commands(p)
    BY <1>2 DEF CmdsOK
  <2> QED
    BY <1>2, <2>1, <2>2, <2>3 DEF TypeInv, TypeOK, KernelOK, OthersOK
<1> QED
  BY <1>1, <1>2

(* What the shells still have to do stays well-formed when one of them gets  *)
(* a program that is.                                                        *)
LEMMA ProcStep ==
  ASSUME ProcOK, may' = may, NEW p \in Procs, NEW t \in Seq(Instrs),
         proc' \in [Procs -> [cmd : Cmds, todo : Seq(Instrs), ok : BOOLEAN]],
         proc'[p].todo = t, \A q \in Procs \ {p} : proc'[q] = proc[q],
         p = "hook" => t \in Seq(HookInstrs),
         p = "pglcmd" => InOrder(t) /\ Adjacent(t) /\ Closed(Range(t))
  PROVE  ProcOK'
<1>1. proc'["hook"].todo \in Seq(HookInstrs)
  BY DEF ProcOK, Procs
<1> DEFINE s == proc'["pglcmd"].todo
<1>2. InOrder(s) /\ Adjacent(s) /\ Closed(Range(s))
  BY DEF ProcOK, Procs, Todo
<1>3. (Closed(Range(Todo)))'
  <2> DEFINE R == Range(s)
  <2>1. Closed(R)
    BY <1>2
  <2>2. (Range(Todo))' = R
    BY DEF Todo
  <2> HIDE DEF R
  <2> QED
    BY <2>1, <2>2 DEF Closed, Needed, Pending
<1> QED
  BY <1>1, <1>2, <1>3 DEF ProcOK, Todo

(* An empty program is well-formed. *)
LEMMA NothingToDo ==
  /\ <<>> \in Seq(Instrs) /\ <<>> \in Seq(HookInstrs)
  /\ InOrder(<<>>) /\ Adjacent(<<>>) /\ Closed(Range(<<>>))
<1>1. <<>> \in Seq(HookInstrs)
  BY EmptySeq
<1> QED
  BY <1>1, ShortGood, ClosedUnstaged DEF Good

(* The program that a failure leaves to pglcmd. *)
LEMMA FailureGood ==
  ASSUME NEW t \in {delete_iptables, <<Do("cat"), Do("mv")>> \o delete_iptables}
  PROVE  t \in Seq(Instrs) /\ InOrder(t) /\ Adjacent(t) /\ Closed(Range(t))
<1>1. /\ t \in Seq(Instrs) /\ Good(t)
      /\ \A x \in Range(t) : Stage(x) = 0
  BY StopGood
<1> QED
  BY <1>1, ClosedUnstaged DEF Good

(* The lines of the script come before what is left to do. *)
LEMMA ScriptGood ==
  ASSUME NEW t \in Seq(Instrs), t # <<>>, InOrder(t), Adjacent(t), Closed(Range(t)),
         t[1].do = "sh", NEW s \in Seq(ScriptLines)
  PROVE  LET u == s \o Tail(t)
         IN  /\ u \in Seq(Instrs) /\ InOrder(u) /\ Adjacent(u) /\ Closed(Range(u))
             /\ Range(u) = Range(s) \cup Range(Tail(t))
<1>1. /\ Tail(t) \in Seq(Instrs) /\ InOrder(Tail(t)) /\ Adjacent(Tail(t))
      /\ Closed(Range(Tail(t)))
      /\ Range(t) = {t[1]} \cup Range(Tail(t))
      /\ Len(t) \in Nat /\ Len(Tail(t)) = Len(t) - 1
      /\ \A n \in 1 .. Len(t) - 1 : Tail(t)[n] = t[n + 1]
  BY TailFacts, TailShape
<1>2. s \in Seq(Instrs)
  <2>1. ScriptLines \subseteq Instrs
    BY DEF ScriptLines
  <2> QED
    BY <2>1, SeqMonotonic
<1>3. \A x \in Range(s) : x \in Instrs /\ x.do \in Lines /\ Stage(x) = 0
  BY InRange DEF ScriptLines, Stage, Lines, Inserting
<1>4. \A x \in Range(s) : \A y : Before(x, y)
  BY <1>3 DEF Before
<1>5. InOrder(s) /\ Adjacent(s)
  <2>1. Len(s) \in Nat /\ \A n \in 1 .. Len(s) : s[n] \in Range(s)
    BY InRange
  <2>2. InOrder(s)
    BY <1>4, <2>1 DEF InOrder
  <2>3. \A x, y \in Range(s) : Follows(x, y)
    BY <1>3 DEF Follows, Lines
  <2>4. Adjacent(s)
    <3> SUFFICES ASSUME NEW n \in 1 .. Len(s), n > 1 PROVE Follows(s[n - 1], s[n])
      BY DEF Adjacent
    <3>1. n - 1 \in 1 .. Len(s)
      BY <2>1
    <3> QED
      BY <2>1, <2>3, <3>1
  <2> QED
    BY <2>2, <2>4
<1> DEFINE v == Tail(t)
<1>6. ASSUME NEW x \in Range(s), v # <<>> PROVE Follows(x, v[1])
  <2>1. v \in Seq(Instrs)
    BY <1>1
  <2>2. Len(v) \in Nat \ {0}
    BY <1>6, <2>1, EmptySeq
  <2>3. v[1] = t[2] /\ 2 \in 1 .. Len(t) /\ 2 > 1 /\ 2 - 1 = 1
    BY <1>1, <2>2
  <2>4. Follows(t[1], t[2])
    BY <2>3 DEF Adjacent
  <2> QED
    BY <1>3, <1>6, <2>3, <2>4 DEF Follows, On
<1> HIDE DEF v
<1>7. /\ s \o v \in Seq(Instrs) /\ Range(s \o v) = Range(s) \cup Range(v)
      /\ InOrder(s \o v) /\ Adjacent(s \o v)
  <2>1. v \in Seq(Instrs) /\ InOrder(v) /\ Adjacent(v)
    BY <1>1 DEF v
  <2> QED
    BY <1>2, <1>4, <1>5, <1>6, <2>1, Concatenated
<1>8. Closed(Range(s) \cup Range(v))
  <2> DEFINE Q == Range(v)
             R == Range(s) \cup Range(v)
  <2>1. /\ \A c \in Set : On("create", c) \in R => On("create", c) \in Q
        /\ \A c \in Set : On("activate", c) \in R => On("activate", c) \in Q
        /\ \A c \in Set : Rule("insert", c, "queue") \in R => Rule("insert", c, "queue") \in Q
        /\ Q \subseteq R
    BY <1>3, Stages
  <2>2. \A c \in Set : On("activate", c) \in Q => On("create", c) \in Q
    <3>1. Range(t) = {t[1]} \cup Q /\ t[1] \in Range(t)
      BY <1>1 DEF v
    <3>2. \A c \in Set : On("activate", c) \in Range(t) => On("create", c) \in Range(t)
      BY <3>1 DEF Closed, Clearing
    <3>3. \A c \in Set : t[1] # On("create", c)
      BY DEF On
    <3> QED
      BY <3>1, <3>2, <3>3
  <2>3. Closed(Q)
    BY <1>1 DEF v
  <2> HIDE DEF Q, R
  <2>4. Closed(R)
    BY <2>1, <2>2, <2>3 DEF Closed, Pending
  <2> QED
    BY <2>4 DEF R
<1> QED
  BY <1>7, <1>8 DEF v

(* What a step of a shell leaves to do. *)
LEMMA ShellSteps ==
  ASSUME TypeInv, NEW p \in Procs, Shell(p)
  PROVE  \/ proc' = [proc EXCEPT ![p] = Idle]
         \/ Busy(p) /\ GoOn(p)
         \/ Busy(p) /\ Instead(p, <<>>, TRUE)
         \/ Busy(p) /\ Instead(p, <<>>, FALSE)
         \/ /\ Busy(p) /\ p = "pglcmd"
            /\ \E t \in {delete_iptables, <<Do("cat"), Do("mv")>> \o delete_iptables} :
                 Instead(p, t, FALSE)
         \/ /\ Busy(p) /\ p = "pglcmd" /\ Instr(p).do = "sh"
            /\ proc' = [proc EXCEPT ![p].todo = script \o Tail(@)]
<1>1. /\ proc["hook"].todo \in Seq(HookInstrs)
      /\ proc["hook"].cmd \notin Starters
  BY Parts DEF ProcOK, CmdsOK, Procs, Commands, Starters, Configures
<1>2. ASSUME p = "hook", Busy(p) PROVE Instr(p).do \notin {"sh", "start_daemon"}
  <2>1. Head(proc["hook"].todo) \in HookInstrs
    BY <1>1, <1>2, TailFacts DEF Busy
  <2> QED
    BY <1>2, <2>1 DEF Instr, HookInstrs
<1>3. p \in {"pglcmd", "hook"}
  BY DEF Procs
<1>4. ASSUME Busy(p), Give(p)
      PROVE  \/ Instead(p, <<>>, FALSE)
             \/ /\ p = "pglcmd"
                /\ Instead(p, <<Do("cat"), Do("mv")>> \o delete_iptables, FALSE)
  <2>1. \/ fail_insert_iptables(proc[p].cmd, Instr(p).rule) = <<>>
        \/ /\ proc[p].cmd \in Starters
           /\ fail_insert_iptables(proc[p].cmd, Instr(p).rule) =
                <<Do("cat"), Do("mv")>> \o delete_iptables
    BY DEF fail_insert_iptables
  <2> QED
    BY <1>1, <1>3, <1>4, <2>1 DEF Give
<1>5. CASE Exit(p)
  BY <1>5 DEF Exit
<1>6. CASE CheckStatus(p)
  BY <1>6 DEF CheckStatus, At
<1>11. CASE bad_nice_level(p)
  BY <1>11 DEF bad_nice_level
<1>7. CASE start_daemon(p)
  BY <1>2, <1>3, <1>7 DEF start_daemon, At
<1>8. CASE Sh(p)
  BY <1>2, <1>3, <1>8 DEF Sh, At
<1>9. CASE killproc(p) \/ Record(p) \/ Remember(p) \/ Cat(p) \/ Mv(p) \/ Rm(p)
           \/ Deactivate(p) \/ Flush(p) \/ DeleteChain(p) \/ FailUnnoticed(p)
  BY <1>9 DEF killproc, Record, Remember, Cat, Mv, Rm, Deactivate, Flush, DeleteChain, Executed,
     FailUnnoticed, At
<1>10. CASE Create(p) \/ Insert(p) \/ Delete(p) \/ ActivateChain(p)
  <2>1. Busy(p) /\ (GoOn(p) \/ Give(p))
    BY <1>10 DEF Create, Insert, Delete, ActivateChain, Fails, At
  <2> QED
    BY <1>4, <2>1
<1> QED
  BY <1>5, <1>6, <1>7, <1>8, <1>9, <1>10, <1>11 DEF Shell

(* Every step leaves the shells well-formed. *)
LEMMA NextProc ==
  ASSUME TypeInv, [Next]_vars
  PROVE  CmdsOK' /\ ProcOK'
<1>1. CmdsOK /\ ProcOK /\ FilesOK /\ KernelOK /\ OthersOK
  BY Parts
<1>2. /\ proc \in [Procs -> [cmd : Cmds, todo : Seq(Instrs), ok : BOOLEAN]]
      /\ \A p \in Procs : proc[p].cmd \in {"none"} \cup Commands(p)
      /\ Idle \in [cmd : Cmds, todo : Seq(Instrs), ok : BOOLEAN]
  BY <1>1, NothingToDo DEF ProcOK, CmdsOK, Idle, Cmds
<1>3. may' = may
  BY DEF Next, vars, Call, Shell, Exit, CheckStatus, start_daemon, killproc, Record, Remember,
         Cat, Mv, Sh, Rm, Create, Insert, Delete, ActivateChain, Deactivate, Flush,
         DeleteChain, FailUnnoticed, bad_nice_level, Fails, Kill, Reboot, End, Arrive, Traverse,
         nfqueue_cb
<1>4. /\ proc["hook"].todo \in Seq(HookInstrs)
      /\ proc["pglcmd"].todo \in Seq(Instrs)
      /\ InOrder(proc["pglcmd"].todo) /\ Adjacent(proc["pglcmd"].todo)
      /\ Closed(Range(proc["pglcmd"].todo))
      /\ "pglcmd" \in Procs /\ "hook" \in Procs /\ Procs = {"pglcmd", "hook"}
  BY <1>1 DEF ProcOK, Todo, Procs
<1>5. ASSUME NEW p \in Procs, NEW t \in Seq(Instrs), NEW ok \in BOOLEAN,
             \/ proc' = [proc EXCEPT ![p].todo = t, ![p].ok = ok]
             \/ proc' = [proc EXCEPT ![p].todo = t],
             p = "hook" => t \in Seq(HookInstrs),
             p = "pglcmd" => InOrder(t) /\ Adjacent(t) /\ Closed(Range(t))
      PROVE  CmdsOK' /\ ProcOK'
  <2>1. /\ proc' \in [Procs -> [cmd : Cmds, todo : Seq(Instrs), ok : BOOLEAN]]
        /\ proc'[p].todo = t /\ \A q \in Procs \ {p} : proc'[q] = proc[q]
        /\ proc'[p].cmd = proc[p].cmd
    <3>1. DOMAIN proc = Procs /\ proc[p] \in [cmd : Cmds, todo : Seq(Instrs), ok : BOOLEAN]
      BY <1>2
    <3>2. /\ DOMAIN proc' = Procs /\ \A q \in Procs \ {p} : proc'[q] = proc[q]
          /\ \/ proc'[p] = [proc[p] EXCEPT !.todo = t, !.ok = ok]
             \/ proc'[p] = [proc[p] EXCEPT !.todo = t]
          /\ proc' = [q \in Procs |-> proc'[q]]
      <4>1. CASE proc' = [proc EXCEPT ![p].todo = t, ![p].ok = ok]
        BY <3>1, <4>1
      <4>2. CASE proc' = [proc EXCEPT ![p].todo = t]
        BY <3>1, <4>2
      <4> QED
        BY <1>5, <4>1, <4>2
    <3>3. /\ proc'[p] \in [cmd : Cmds, todo : Seq(Instrs), ok : BOOLEAN]
          /\ proc'[p].todo = t /\ proc'[p].cmd = proc[p].cmd
      <4> DEFINE r == proc[p]
                 x == proc'[p]
      <4>1. /\ r \in [cmd : Cmds, todo : Seq(Instrs), ok : BOOLEAN]
            /\ x = [r EXCEPT !.todo = t, !.ok = ok] \/ x = [r EXCEPT !.todo = t]
        BY <3>1, <3>2
      <4> HIDE DEF r, x
      <4>2. CASE x = [r EXCEPT !.todo = t]
        <5>1. x \in [cmd : Cmds, todo : Seq(Instrs), ok : BOOLEAN] /\ x.todo = t /\ x.cmd = r.cmd
          BY <4>1, <4>2
        <5> QED
          BY <5>1 DEF r, x
      <4>3. CASE x = [r EXCEPT !.todo = t, !.ok = ok]
        <5>1. x \in [cmd : Cmds, todo : Seq(Instrs), ok : BOOLEAN] /\ x.todo = t /\ x.cmd = r.cmd
          BY <4>1, <4>3
        <5> QED
          BY <5>1 DEF r, x
      <4> QED
        BY <4>1, <4>2, <4>3
    <3>4. \A q \in Procs : proc'[q] \in [cmd : Cmds, todo : Seq(Instrs), ok : BOOLEAN]
      BY <1>2, <3>2, <3>3
    <3> QED
      BY <3>2, <3>3, <3>4
  <2>2. \A q \in Procs : proc'[q].cmd = proc[q].cmd
    BY <2>1
  <2>3. CmdsOK'
    BY <1>1, <2>2 DEF CmdsOK
  <2>4. ProcOK'
    BY <1>1, <1>3, <1>5, <2>1, ProcStep
  <2> QED
    BY <2>3, <2>4
<1>6. CASE UNCHANGED proc
  <2>1. Closed(Range(Todo))'
    <3> DEFINE R == Range(Todo)
    <3>1. Closed(R) /\ (Range(Todo))' = R
      BY <1>1, <1>6 DEF ProcOK, Todo
    <3> HIDE DEF R
    <3> QED
      BY <1>3, <3>1 DEF Closed, Needed, Pending
  <2> QED
    BY <1>1, <1>6, <2>1 DEF CmdsOK, ProcOK, Todo
<1>7. ASSUME NEW p \in Procs, NEW cmd \in Commands(p), Call(p, cmd)
      PROVE  CmdsOK' /\ ProcOK'
  <2> DEFINE t == Program(cmd, conf)
  <2>1. conf \in BOOLEAN
    BY <1>1 DEF OthersOK
  <2>2. /\ t \in Seq(Instrs)
        /\ p = "pglcmd" => InOrder(t) /\ Adjacent(t) /\ Closed(Range(t))
        /\ p = "hook" => t \in Seq(HookInstrs)
    <3>1. CASE p = "pglcmd"
      <4>1. cmd \in Starters \cup Configures \cup {"stop"}
        BY <1>7, <3>1 DEF Commands
      <4>2. cmd = "restart_not_wd" => "repair" \in may
        BY <1>7 DEF Call
      <4> QED
        BY <2>1, <3>1, <4>1, <4>2, ProgramGood DEF Good
    <3>2. CASE p = "hook"
      <4>1. cmd \in Configures \cup {"if_up"}
        BY <1>7, <3>2 DEF Commands
      <4>2. t \in Seq(Instrs) /\ \A x \in Range(t) : x \in HookInstrs
        BY <2>1, <4>1, ChangeGood
      <4> HIDE DEF t
      <4>3. t \in Seq(Range(t)) /\ Range(t) \subseteq HookInstrs
        BY <4>2, SeqOfRange
      <4> QED
        BY <3>2, <4>2, <4>3, SeqMonotonic
    <3> QED
      BY <1>4, <3>1, <3>2
  <2>3. cmd \in Cmds /\ cmd \in {"none"} \cup Commands(p)
    BY <1>7 DEF Commands, Cmds
  <2>4. proc' = [proc EXCEPT ![p] = [cmd |-> cmd, todo |-> t, ok |-> TRUE]]
    BY <1>7 DEF Call
  <2> HIDE DEF t
  <2>5. /\ proc' \in [Procs -> [cmd : Cmds, todo : Seq(Instrs), ok : BOOLEAN]]
        /\ proc'[p].todo = t /\ \A q \in Procs \ {p} : proc'[q] = proc[q]
        /\ proc'[p].cmd = cmd
    BY <1>2, <2>2, <2>3, <2>4
  <2>6. CmdsOK'
    BY <1>2, <2>3, <2>5 DEF CmdsOK
  <2>7. ProcOK'
    BY <1>1, <1>3, <2>2, <2>5, ProcStep
  <2> QED
    BY <2>6, <2>7
<1>8. ASSUME NEW p \in Procs, proc' = [proc EXCEPT ![p] = Idle]
      PROVE  CmdsOK' /\ ProcOK'
  <2>1. /\ proc' \in [Procs -> [cmd : Cmds, todo : Seq(Instrs), ok : BOOLEAN]]
        /\ proc'[p].todo = <<>> /\ \A q \in Procs \ {p} : proc'[q] = proc[q]
        /\ proc'[p].cmd = "none"
    BY <1>2, <1>8 DEF Idle
  <2>2. CmdsOK'
    BY <1>2, <2>1 DEF CmdsOK
  <2>3. ProcOK'
    BY <1>1, <1>3, <2>1, NothingToDo, ProcStep
  <2> QED
    BY <2>2, <2>3
<1>9. ASSUME NEW p \in Procs, Shell(p) PROVE CmdsOK' /\ ProcOK'
  <2> DEFINE s == proc[p].todo
  <2>1. proc[p].ok \in BOOLEAN
    BY <1>2
  <2>2. CASE proc' = [proc EXCEPT ![p] = Idle]
    BY <1>8, <2>2
  <2>3. CASE Busy(p) /\ GoOn(p)
    <3>1. proc' = [proc EXCEPT ![p].todo = Tail(s)]
      BY <1>2, <2>3 DEF GoOn
    <3>2. s \in Seq(Instrs) /\ s # <<>>
      BY <1>2, <2>3 DEF Busy
    <3>3. p = "hook" => Tail(s) \in Seq(HookInstrs)
      BY <1>4, <3>2, TailFacts
    <3>4. p = "pglcmd" => InOrder(Tail(s)) /\ Adjacent(Tail(s)) /\ Closed(Range(Tail(s)))
      BY <1>4, <3>2, TailShape
    <3>5. Tail(s) \in Seq(Instrs)
      BY <3>2, TailFacts
    <3> QED
      BY <1>5, <2>1, <3>1, <3>3, <3>4, <3>5
  <2>4. ASSUME NEW ok \in BOOLEAN, Instead(p, <<>>, ok) PROVE CmdsOK' /\ ProcOK'
    <3>1. proc' = [proc EXCEPT ![p].todo = <<>>, ![p].ok = ok]
      BY <2>4 DEF Instead
    <3> QED
      BY <1>5, <3>1, NothingToDo
  <2>5. ASSUME p = "pglcmd",
               NEW t \in {delete_iptables, <<Do("cat"), Do("mv")>> \o delete_iptables},
               Instead(p, t, FALSE)
        PROVE  CmdsOK' /\ ProcOK'
    <3>1. proc' = [proc EXCEPT ![p].todo = t, ![p].ok = FALSE]
      BY <2>5 DEF Instead
    <3> QED
      BY <1>5, <2>5, <3>1, FailureGood
  <2>6. ASSUME Busy(p), p = "pglcmd", Instr(p).do = "sh",
               proc' = [proc EXCEPT ![p].todo = script \o Tail(@)]
        PROVE  CmdsOK' /\ ProcOK'
    <3> DEFINE t == script \o Tail(s)
    <3>1. proc' = [proc EXCEPT ![p].todo = t]
      BY <1>2, <2>6
    <3>2. s \in Seq(Instrs) /\ s # <<>> /\ s[1].do = "sh"
      BY <1>4, <2>6, TailFacts DEF Busy, Instr
    <3>3. t \in Seq(Instrs) /\ InOrder(t) /\ Adjacent(t) /\ Closed(Range(t))
      BY <1>1, <1>4, <2>6, <3>2, ScriptGood DEF FilesOK
    <3> QED
      BY <1>5, <2>1, <2>6, <3>1, <3>3
  <2> QED
    BY <1>9, <2>2, <2>3, <2>4, <2>5, <2>6, ShellSteps
<1>10. CASE Reboot
  <2>1. proc' = [q \in Procs |-> Idle]
    BY <1>10 DEF Reboot
  <2>2. /\ proc' \in [Procs -> [cmd : Cmds, todo : Seq(Instrs), ok : BOOLEAN]]
        /\ \A q \in Procs : proc'[q].todo = <<>> /\ proc'[q].cmd = "none"
    BY <1>2, <2>1 DEF Idle
  <2>3. CmdsOK'
    BY <2>2 DEF CmdsOK
  <2>4. (Closed(Range(Todo)))'
    <3>1. Closed(Range(<<>>)) /\ (Range(Todo))' = Range(<<>>)
      BY <1>4, <2>2, NothingToDo DEF Todo
    <3> DEFINE R == Range(<<>>)
    <3> HIDE DEF R
    <3>2. Closed(R) /\ (Range(Todo))' = R
      BY <3>1 DEF R
    <3> QED
      BY <1>3, <3>2 DEF Closed, Needed, Pending
  <2>5. proc'["pglcmd"].todo = <<>> /\ proc'["hook"].todo = <<>>
    BY <1>4, <2>2
  <2> QED
    BY <2>2, <2>3, <2>4, <2>5, NothingToDo DEF ProcOK, Todo
<1>11. CASE Kill
  BY <1>4, <1>8, <1>11 DEF Kill
<1>12. CASE End \/ Arrive \/ Traverse \/ nfqueue_cb \/ UNCHANGED vars
  BY <1>6, <1>12 DEF End, Arrive, Traverse, nfqueue_cb, vars
<1> QED
  BY <1>7, <1>9, <1>10, <1>11, <1>12 DEF Next

(* The instruction that a shell executes. *)
LEMMA Instruct ==
  ASSUME TypeInv, NEW p \in Procs, Busy(p)
  PROVE  /\ Instr(p) = proc[p].todo[1] /\ Instr(p) \in Instrs
         /\ p = "hook" => Instr(p) \in HookInstrs
<1>1. proc[p].todo \in Seq(Instrs) /\ proc["hook"].todo \in Seq(HookInstrs)
  BY DEF TypeInv, ProcOK
<1> QED
  BY <1>1, TailFacts DEF Busy, Instr

(* The files have only lines that take something away. *)
LEMMA NextFiles ==
  ASSUME TypeInv, [Next]_vars
  PROVE  FilesOK'
<1>1. script \in Seq(ScriptLines) /\ tmp \in Seq(ScriptLines)
  BY DEF TypeInv, FilesOK
<1>2. \A c \in Set : On("D", c) \in ScriptLines /\ On("F", c) \in ScriptLines
                     /\ On("X", c) \in ScriptLines
  BY Words DEF ScriptLines, Lines
<1>3. ASSUME NEW p \in Procs, Record(p) PROVE FilesOK'
  <2> DEFINE c == Instr(p).chain
             two == <<On("F", c), On("X", c)>>
  <2>1. c \in Set
    BY <1>3, Instruct DEF Record, At, Instrs, OnChains
  <2>2. two \in Seq(ScriptLines)
    BY <1>2, <2>1
  <2>3. script' = script \o two /\ tmp' = tmp
    BY <1>3 DEF Record
  <2> HIDE DEF two
  <2> QED
    BY <1>1, <2>2, <2>3, ConcatProperties DEF FilesOK
<1>4. ASSUME NEW p \in Procs, Remember(p) PROVE FilesOK'
  <2> DEFINE c == Instr(p).chain
  <2>1. c \in Set
    BY <1>4, Instruct DEF Remember, At, Instrs, OnChains
  <2>2. script' = script /\ tmp' = Append(tmp, On("D", c))
    BY <1>4 DEF Remember
  <2> HIDE DEF c
  <2> QED
    BY <1>1, <1>2, <2>1, <2>2, AppendProperties DEF FilesOK
<1>5. ASSUME NEW p \in Procs, Cat(p) PROVE FilesOK'
  BY <1>1, <1>5, ConcatProperties DEF Cat, FilesOK
<1>6. ASSUME NEW p \in Procs, Mv(p) \/ Rm(p) PROVE FilesOK'
  BY <1>1, <1>6, EmptySeq DEF Mv, Rm, FilesOK
<1>7. CASE UNCHANGED files
  BY <1>1, <1>7 DEF FilesOK, files
<1>8. ASSUME NEW p \in Procs, Shell(p) PROVE FilesOK'
  <2>1. Record(p) \/ Remember(p) \/ Cat(p) \/ Mv(p) \/ Rm(p) \/ UNCHANGED files
    BY <1>8 DEF Shell, Exit, CheckStatus, bad_nice_level, start_daemon, killproc, Sh, Create,
       Insert, Delete, ActivateChain, Deactivate, Flush, DeleteChain, FailUnnoticed, Fails
  <2> QED
    BY <1>3, <1>4, <1>5, <1>6, <1>7, <2>1
<1> QED
  BY <1>7, <1>8 DEF Next, vars, Call, Kill, Reboot, End, Arrive, Traverse, nfqueue_cb

(* Rules are in chains that exist. *)
LEMMA NextKernel ==
  ASSUME TypeInv, [Next]_vars
  PROVE  KernelOK'
<1>1. /\ made \subseteq Set
      /\ chain \in [Set -> Seq(Rules)]
      /\ jump \in [Set -> Nat]
      /\ \A c \in Set \ made : chain[c] = <<>> /\ jump[c] = 0
  BY Parts DEF KernelOK
<1>2. CASE UNCHANGED kernel
  BY <1>1, <1>2 DEF KernelOK, kernel
<1>3. CASE Reboot
  BY <1>3, EmptySeq DEF Reboot, KernelOK
<1>4. ASSUME NEW p \in Procs, Shell(p) PROVE KernelOK'
  <2> DEFINE c == Instr(p).chain
             r == Instr(p).rule
  <2>1. CASE Create(p)
    <3>1. c \in Set
      BY <2>1, Instruct DEF Create, At, Instrs, OnChains
    <3>2. UNCHANGED kernel \/ (made' = made \cup {c} /\ UNCHANGED <<chain, jump>>)
      BY <2>1 DEF Create, Fails
    <3> HIDE DEF c
    <3> QED
      BY <1>1, <1>2, <3>1, <3>2 DEF KernelOK
  <2>2. CASE Insert(p)
    <3>1. c \in Set /\ r \in Rules
      BY <2>2, Instruct DEF Insert, At, Instrs, OnChains, Inserting, Rules
    <3>2. \/ UNCHANGED kernel
          \/ c \in made /\ chain' = [chain EXCEPT ![c] = <<r>> \o @] /\ UNCHANGED <<made, jump>>
      BY <2>2 DEF Insert, Fails, kernel
    <3> HIDE DEF c, r
    <3> DEFINE one == <<r>>
    <3>3. one \in Seq(Rules) /\ chain[c] \in Seq(Rules)
      BY <1>1, <3>1
    <3>4. chain' = [chain EXCEPT ![c] = <<r>> \o @] => chain' = [chain EXCEPT ![c] = one \o @]
      OBVIOUS
    <3> HIDE DEF one
    <3>5. one \o chain[c] \in Seq(Rules)
      BY <3>3, ConcatProperties
    <3>6. CASE c \in made /\ chain' = [chain EXCEPT ![c] = one \o @] /\ UNCHANGED <<made, jump>>
      BY <1>1, <3>1, <3>5, <3>6 DEF KernelOK
    <3> QED
      BY <1>2, <3>2, <3>4, <3>6
  <2>3. CASE Delete(p)
    <3>1. c \in Set /\ r = "port"
      BY <2>3, Instruct DEF Delete, At, Instrs, OnChains
    <3>2. \/ UNCHANGED kernel
          \/ chain' = [chain EXCEPT ![c] = RemoveFirst(@, "port")] /\ UNCHANGED <<made, jump>>
      BY <2>3, <3>1 DEF Delete, Fails, kernel
    <3> HIDE DEF c, r
    <3>3. /\ RemoveFirst(chain[c], "port") \in Seq(Rules)
          /\ chain[c] = <<>> => RemoveFirst(chain[c], "port") = <<>>
      BY <1>1, <3>1, Removed
    <3>4. CASE chain' = [chain EXCEPT ![c] = RemoveFirst(@, "port")] /\ UNCHANGED <<made, jump>>
      BY <1>1, <3>1, <3>3, <3>4 DEF KernelOK
    <3> QED
      BY <1>2, <3>2, <3>4
  <2>4. CASE ActivateChain(p)
    <3>1. c \in Set
      BY <2>4, Instruct DEF ActivateChain, At, Instrs, OnChains
    <3>2. UNCHANGED kernel
          \/ (c \in made /\ jump' = [jump EXCEPT ![c] = @ + 1] /\ UNCHANGED <<made, chain>>)
      BY <2>4 DEF ActivateChain, Fails, kernel
    <3> HIDE DEF c
    <3>3. ASSUME c \in made, jump' = [jump EXCEPT ![c] = @ + 1], UNCHANGED <<made, chain>>
          PROVE  KernelOK'
      <4>1. jump' \in [Set -> Nat] /\ \A d \in Set \ {c} : jump'[d] = jump[d]
        BY <1>1, <3>1, <3>3
      <4> QED
        BY <1>1, <3>3, <4>1 DEF KernelOK
    <3> QED
      BY <1>2, <3>2, <3>3
  <2>5. CASE Deactivate(p)
    <3>1. c \in Set
      BY <2>5, Instruct DEF Deactivate, At, Instrs, OnChains, Lines
    <3>2. jump' = [jump EXCEPT ![c] = IF @ > 0 THEN @ - 1 ELSE 0] /\ UNCHANGED <<made, chain>>
      BY <2>5 DEF Deactivate
    <3> HIDE DEF c
    <3>3. jump' \in [Set -> Nat]
      BY <1>1, <3>1, <3>2
    <3>4. \A d \in Set : jump[d] = 0 => jump'[d] = 0
      BY <1>1, <3>1, <3>2
    <3> QED
      BY <1>1, <3>2, <3>3, <3>4 DEF KernelOK
  <2>6. CASE Flush(p)
    <3>1. c \in Set
      BY <2>6, Instruct DEF Flush, At, Instrs, OnChains, Lines
    <3>2. chain' = [chain EXCEPT ![c] = <<>>] /\ UNCHANGED <<made, jump>>
      BY <2>6 DEF Flush
    <3>3. <<>> \in Seq(Rules)
      BY EmptySeq
    <3> HIDE DEF c
    <3> QED
      BY <1>1, <3>1, <3>2, <3>3 DEF KernelOK
  <2>7. CASE DeleteChain(p)
    <3>1. c \in Set
      BY <2>7, Instruct DEF DeleteChain, At, Instrs, OnChains, Lines
    <3>2. /\ made' = made \/ (made' = made \ {c} /\ chain[c] = <<>> /\ jump[c] = 0)
          /\ UNCHANGED <<chain, jump>>
      BY <2>7 DEF DeleteChain
    <3> HIDE DEF c
    <3> QED
      BY <1>1, <3>1, <3>2 DEF KernelOK
  <2>8. CASE UNCHANGED kernel
    BY <1>2, <2>8
  <2>9. Create(p) \/ Insert(p) \/ Delete(p) \/ ActivateChain(p) \/ Deactivate(p)
        \/ Flush(p) \/ DeleteChain(p) \/ UNCHANGED kernel
    BY <1>4 DEF Shell, Exit, CheckStatus, bad_nice_level, start_daemon, killproc, Record,
       Remember, Cat, Mv, Sh, Rm, FailUnnoticed
  <2> QED
    BY <2>1, <2>2, <2>3, <2>4, <2>5, <2>6, <2>7, <2>8, <2>9
<1> QED
  BY <1>2, <1>3, <1>4 DEF Next, vars, Call, Kill, End, Arrive, Traverse, nfqueue_cb

LEMMA NextOthers ==
  ASSUME TypeInv, [Next]_vars
  PROVE  OthersOK'
<1>1. /\ may \in Circumstances
      /\ conf \in BOOLEAN /\ daemon \in BOOLEAN
      /\ result \in {"none", "up", "down", "failed", "exited", "dead"}
      /\ refused \in Nat /\ deaths \in Nat /\ deaths <= MaxDeaths
      /\ lost \subseteq Instruction
  BY Parts DEF OthersOK
<1>2. ASSUME may' = may, conf' \in BOOLEAN, daemon' \in BOOLEAN, UNCHANGED history
      PROVE  OthersOK'
  BY <1>1, <1>2 DEF OthersOK, history
<1>3. ASSUME NEW p \in Procs, Exit(p) PROVE OthersOK'
  <2> DEFINE P == {refused + 1, Len(Chains) + 1}
  <2>1. P \in SUBSET Nat /\ P # {}
    BY <1>1, ChainsAreFew
  <2>2. Min(P) \in Nat
    BY <2>1, FirstPosition
  <2> HIDE DEF P
  <2>3. refused' = refused \/ refused' = 0 \/ refused' = Min(P)
    BY <1>3 DEF Exit, P
  <2>4. result' \in {"down", "up", "failed", result}
    BY <1>3 DEF Exit
  <2>5. UNCHANGED <<may, conf, daemon, deaths, lost>>
    BY <1>3 DEF Exit
  <2> QED
    BY <1>1, <2>2, <2>3, <2>4, <2>5 DEF OthersOK
<1>4. ASSUME may' = may, conf' = conf, daemon' \in BOOLEAN, Dead, lost' \subseteq lost
      PROVE  OthersOK'
  BY <1>1, <1>4 DEF Dead, OthersOK
<1>5. ASSUME NEW p \in Procs, Shell(p) PROVE OthersOK'
  <2>1. \/ Exit(p) \/ bad_nice_level(p)
        \/ Deactivate(p) \/ Flush(p) \/ DeleteChain(p) \/ FailUnnoticed(p)
        \/ /\ may' = may /\ conf' = conf /\ UNCHANGED history
           /\ daemon' = daemon \/ daemon' = TRUE \/ daemon' = FALSE
    BY <1>5 DEF Shell, CheckStatus, start_daemon, killproc, Record, Remember, Cat, Mv,
       Sh, Rm, Create, Insert, Delete, ActivateChain, Fails
  <2>2. CASE bad_nice_level(p)
    BY <1>1, <2>2 DEF bad_nice_level, OthersOK
  <2>3. CASE Deactivate(p) \/ Flush(p) \/ DeleteChain(p) \/ FailUnnoticed(p)
    <3>1. Instr(p) \in Instruction
      <4>1. Busy(p)
        BY <2>3 DEF Deactivate, Flush, DeleteChain, FailUnnoticed, At
      <4> QED
        BY <4>1, Instruct DEF Instrs
    <3>2. /\ UNCHANGED <<may, conf, daemon, result, refused, deaths>>
          /\ lost' = lost \ {Instr(p)} \/ lost' = lost \cup {Instr(p)}
      BY <2>3 DEF Deactivate, Flush, DeleteChain, FailUnnoticed, Executed
    <3> QED
      BY <1>1, <3>1, <3>2 DEF OthersOK
  <2> QED
    BY <1>1, <1>2, <1>3, <2>1, <2>2, <2>3
<1>6. ASSUME NEW p \in Procs, NEW cmd \in Commands(p), Call(p, cmd) PROVE OthersOK'
  <2>1. conf' \in BOOLEAN
    BY <1>1, <1>6 DEF Call, configure_permanent
  <2> QED
    BY <1>1, <1>2, <1>6, <2>1 DEF Call
<1>7. CASE Kill \/ Reboot
  BY <1>1, <1>4, <1>7 DEF Kill, Reboot
<1>8. CASE End \/ Arrive \/ Traverse \/ nfqueue_cb \/ UNCHANGED vars
  BY <1>1, <1>2, <1>8 DEF End, Arrive, Traverse, nfqueue_cb, vars
<1> QED
  BY <1>5, <1>6, <1>7, <1>8 DEF Next

LEMMA InitTypes == Init => TypeInv
<1> SUFFICES ASSUME Init PROVE TypeInv
  OBVIOUS
<1>1. /\ proc \in [Procs -> [cmd : Cmds, todo : Seq(Instrs), ok : BOOLEAN]]
      /\ \A p \in Procs : proc[p] = Idle
      /\ proc["pglcmd"].todo = <<>> /\ proc["hook"].todo = <<>>
  BY NothingToDo DEF Init, Idle, Cmds, Procs
<1>2. ProcOK
  <2>1. Todo = <<>>
    BY <1>1 DEF Todo
  <2> QED
    BY <1>1, <2>1, NothingToDo DEF ProcOK
<1>3. FilesOK
  BY EmptySeq DEF Init, FilesOK
<1>4. TypeOK
  <2>1. \A p \in Procs : /\ proc[p].cmd \in {"none"} \cup Commands(p)
                         /\ proc[p].todo \in Seq(Instruction)
                         /\ proc[p].ok \in BOOLEAN
    BY <1>1, EmptySeq DEF Idle
  <2>2. <<>> \in Seq(Instruction) /\ <<>> \in Seq(Rules)
    BY EmptySeq
  <2>3. /\ chain \in [Set -> Seq(Rules)] /\ jump \in [Set -> Nat]
        /\ made \subseteq Set
        /\ \A c \in Set \ made : chain[c] = <<>> /\ jump[c] = 0
    BY <2>2 DEF Init
  <2>4. script \in Seq(Instruction) /\ tmp \in Seq(Instruction)
    BY <2>2 DEF Init
  <2>5. /\ may \in Circumstances /\ conf \in BOOLEAN /\ daemon \in BOOLEAN
        /\ result \in {"none", "up", "down", "failed", "exited", "dead"}
        /\ refused \in Nat /\ deaths \in 0 .. MaxDeaths
        /\ lost \subseteq Instruction
    <3>1. 0 \in Nat /\ 0 \in 0 .. MaxDeaths
      OBVIOUS
    <3> QED
      BY <3>1, Zenon DEF Init
  <2> QED
    BY <2>1, <2>3, <2>4, <2>5 DEF TypeOK
<1> QED
  BY <1>2, <1>3, <1>4 DEF TypeInv

LEMMA NextTypes == TypeInv /\ [Next]_vars => TypeInv'
BY NextProc, NextFiles, NextKernel, NextOthers, Parts

(* The types of the variables, for any chains and circumstances: a chain     *)
(* that does not exist has no rules, and nothing jumps to it.                *)
THEOREM IptablesTypes == Spec => []TypeOK
<1>1. Spec => []TypeInv
  BY InitTypes, NextTypes, PTL DEF Spec
<1>2. TypeInv => TypeOK
  BY DEF TypeInv
<1> QED
  BY <1>1, <1>2, PTL

-----------------------------------------------------------------------------
(* Active chains are ready *)

(* What pglcmd has to do after a step of p that leaves t to p.               *)
LEMMA TodoAfter ==
  ASSUME TypeInv, NEW p \in Procs, NEW t,
         \/ proc' = [proc EXCEPT ![p].todo = t]
         \/ \E ok : Instead(p, t, ok)
         \/ t = <<>> /\ proc' = [proc EXCEPT ![p] = Idle]
  PROVE  Todo' = IF p = "pglcmd" THEN t ELSE Todo
<1>1. proc \in [Procs -> [cmd : Cmds, todo : Seq(Instrs), ok : BOOLEAN]] /\ "pglcmd" \in Procs
  BY DEF TypeInv, ProcOK, Procs
<1>2. CASE proc' = [proc EXCEPT ![p].todo = t]
  BY <1>1, <1>2 DEF Todo
<1>3. ASSUME NEW ok, Instead(p, t, ok) PROVE Todo' = IF p = "pglcmd" THEN t ELSE Todo
  <2>1. proc' = [proc EXCEPT ![p].todo = t, ![p].ok = ok]
    BY <1>3 DEF Instead
  <2> QED
    BY <1>1, <2>1 DEF Todo
<1>4. CASE t = <<>> /\ proc' = [proc EXCEPT ![p] = Idle]
  BY <1>1, <1>4 DEF Todo, Idle
<1> QED
  BY <1>2, <1>3, <1>4

(* A step that leaves U to do, of T, goes on with the preparation of c.      *)
Kept(T, U, c) ==
  Underway(U, c) => Underway(T, c) /\ \A r : Pending(T, c, r) => Pending(U, c, r)

LEMMA KeptByGoingOn ==
  ASSUME TypeInv, NEW p \in Procs, Busy(p), GoOn(p), NEW c \in Set,
         Instr(p).chain # c \/ Instr(p).do \notin {"create"} \cup Inserting
  PROVE  Kept(Range(Todo), Range(Todo'), c)
<1>1. Todo' = IF p = "pglcmd" THEN Tail(Todo) ELSE Todo
  <2> DEFINE t == Tail(proc[p].todo)
  <2>1. proc' = [proc EXCEPT ![p].todo = t]
    BY DEF GoOn, TypeInv, ProcOK
  <2> HIDE DEF t
  <2>2. Todo' = IF p = "pglcmd" THEN t ELSE Todo
    BY <2>1, TodoAfter
  <2> QED
    BY <2>2 DEF t, Todo
<1>2. CASE p = "pglcmd"
  <2> DEFINE x == Instr(p)
             T == Range(Todo)
             U == Range(Todo')
  <2>1. T = {x} \cup U
    BY <1>1, <1>2, TailFacts DEF TypeInv, ProcOK, Todo, Busy, Instr
  <2>2. x # On("create", c) /\ \A r : x # Rule("insert", c, r) /\ x # Rule("ensure", c, r)
    BY DEF On, Rule, Inserting
  <2> HIDE DEF x, T, U
  <2>3. Kept(T, U, c)
    BY <2>1, <2>2 DEF Kept, Underway, Pending
  <2> QED
    BY <2>3 DEF T, U
<1>3. CASE p # "pglcmd"
  BY <1>1, <1>3 DEF Kept
<1> QED
  BY <1>2, <1>3

(* A failure or an end leaves nothing underway. *)
LEMMA KeptByGivingUp ==
  ASSUME TypeInv, NEW p \in Procs, NEW c \in Set,
         NEW t \in {<<>>, delete_iptables, <<Do("cat"), Do("mv")>> \o delete_iptables},
         \/ \E ok : Instead(p, t, ok)
         \/ t = <<>> /\ proc' = [proc EXCEPT ![p] = Idle]
  PROVE  Kept(Range(Todo), Range(Todo'), c)
<1>1. Todo' = IF p = "pglcmd" THEN t ELSE Todo
  BY TodoAfter
<1>2. \A x \in Range(t) : Stage(x) = 0
  BY StopGood, ShortGood
<1>3. On("activate", c) \notin Range(t)
  BY <1>2, Stages
<1> QED
  BY <1>1, <1>3 DEF Kept, Underway

LEMMA KeptByGive ==
  ASSUME TypeInv, NEW p \in Procs, NEW c \in Set, Give(p)
  PROVE  Kept(Range(Todo), Range(Todo'), c)
<1> DEFINE t == fail_insert_iptables(proc[p].cmd, Instr(p).rule)
<1>1. t \in {<<>>, <<Do("cat"), Do("mv")>> \o delete_iptables}
  BY DEF fail_insert_iptables
<1>2. Instead(p, t, FALSE)
  BY DEF Give
<1> HIDE DEF t
<1> QED
  BY <1>1, <1>2, KeptByGivingUp

(* A script is executed before anything is prepared. *)
LEMMA KeptBySh ==
  ASSUME TypeInv, NEW p \in Procs, NEW c \in Set, Sh(p)
  PROVE  Kept(Range(Todo), Range(Todo'), c)
<1>1. p = "pglcmd"
  BY Instruct DEF Sh, At, HookInstrs, Procs
<1>2. /\ Todo \in Seq(Instrs) /\ Todo # <<>> /\ Todo[1].do = "sh"
      /\ InOrder(Todo) /\ Adjacent(Todo) /\ Closed(Range(Todo))
      /\ script \in Seq(ScriptLines)
  BY <1>1, TailFacts DEF Sh, At, Busy, Instr, TypeInv, ProcOK, FilesOK, Todo
<1>3. Todo' = script \o Tail(Todo)
  <2> DEFINE t == script \o Tail(proc[p].todo)
  <2>1. proc' = [proc EXCEPT ![p].todo = t]
    BY DEF Sh, TypeInv, ProcOK
  <2> HIDE DEF t
  <2>2. Todo' = t
    BY <1>1, <2>1, TodoAfter
  <2> QED
    BY <1>1, <2>2 DEF t, Todo
<1>4. /\ Range(script \o Tail(Todo)) = Range(script) \cup Range(Tail(Todo))
      /\ Range(Todo) = {Todo[1]} \cup Range(Tail(Todo))
  BY <1>2, ScriptGood, TailFacts
<1>5. \A x \in Range(script) : x.do \in Lines
  BY <1>2, InRange DEF ScriptLines
<1>6. ASSUME On("activate", c) \in Range(Todo') PROVE On("create", c) \in Range(Todo')
  <2>1. On("activate", c) \in Range(Tail(Todo))
    BY <1>3, <1>4, <1>5, <1>6 DEF On, Lines
  <2>2. On("create", c) \in Range(Todo)
    BY <1>2, <1>4, <2>1 DEF Closed, Clearing
  <2> QED
    BY <1>2, <1>3, <1>4, <2>2 DEF On
<1> QED
  BY <1>6 DEF Kept, Underway

(* A chain whose preparation goes on, and that does not change, stays right. *)
LEMMA ChainFrame ==
  ASSUME NEW c \in Set, ActiveIsReady(c), Prepared(Range(Todo), c),
         may' = may, chain'[c] = chain[c], jump'[c] = jump[c],
         Kept(Range(Todo), Range(Todo'), c)
  PROVE  ActiveIsReady(c)' /\ Prepared(Range(Todo), c)'
<1>1. Needed(c)' = Needed(c)
  BY DEF Needed
<1>2. ActiveIsReady(c)'
  BY <1>1 DEF ActiveIsReady, Ready, RejectFirst
<1>3. Prepared(Range(Todo), c)'
  <2> DEFINE T == Range(Todo)
             U == Range(Todo')
  <2>1. (Range(Todo))' = U
    OBVIOUS
  <2>2. Kept(T, U, c) /\ Prepared(T, c)
    OBVIOUS
  <2> HIDE DEF T, U
  <2> QED
    BY <1>1, <2>1, <2>2 DEF Kept, Prepared, Underway, RejectFirst
<1> QED
  BY <1>2, <1>3

(* What pglcmd has to do is the instruction it executes and what comes after *)
(* it.                                                                       *)
LEMMA Ahead ==
  ASSUME TypeInv, Busy("pglcmd"), GoOn("pglcmd")
  PROVE  /\ Todo' = Tail(Todo)
         /\ Range(Todo) = {Instr("pglcmd")} \cup Range(Todo')
         /\ \A y \in Range(Todo') : Before(Instr("pglcmd"), y)
         /\ Closed(Range(Todo))
<1>1. /\ Todo \in Seq(Instrs) /\ Todo # <<>>
      /\ InOrder(Todo) /\ Adjacent(Todo) /\ Closed(Range(Todo))
  BY DEF TypeInv, ProcOK, Busy, Todo, Procs
<1>2. Todo' = Tail(Todo)
  <2> DEFINE t == Tail(proc["pglcmd"].todo)
  <2>1. proc' = [proc EXCEPT !["pglcmd"].todo = t] /\ "pglcmd" \in Procs
    BY DEF GoOn, TypeInv, ProcOK, Procs
  <2> HIDE DEF t
  <2>2. Todo' = t
    BY <2>1, TodoAfter
  <2> QED
    BY <2>2 DEF t, Todo
<1>3. Instr("pglcmd") = Todo[1]
  BY <1>1, TailFacts DEF Instr, Todo
<1> QED
  BY <1>1, <1>2, <1>3, TailFacts, TailShape

LEMMA HookLeaves ==
  ASSUME TypeInv, GoOn("hook")
  PROVE  Todo' = Todo
<1> DEFINE t == Tail(proc["hook"].todo)
<1>1. proc' = [proc EXCEPT !["hook"].todo = t] /\ "hook" \in Procs
  BY DEF GoOn, TypeInv, ProcOK, Procs
<1> HIDE DEF t
<1> QED
  BY <1>1, TodoAfter

(* A new chain is not active.  *)
LEMMA ChainCreated ==
  ASSUME TypeInv, NEW c \in Set, ActiveIsReady(c), Prepared(Range(Todo), c),
         may' = may, NEW p \in Procs, At(p, "create"), GoOn(p), Instr(p).chain = c,
         c \notin made, chain' = chain, jump' = jump
  PROVE  ActiveIsReady(c)' /\ Prepared(Range(Todo), c)'
<1> DEFINE T == Range(Todo)
           U == Range(Todo')
           x == Instr("pglcmd")
<1>1. p = "pglcmd" /\ x = On("create", c)
  <2>1. p = "pglcmd"
    BY Instruct DEF At, HookInstrs, Procs
  <2>2. x \in Instrs /\ x.do = "create" /\ x.chain = c
    BY <2>1, Instruct DEF At
  <2>3. x = On("create", c)
    BY <2>2 DEF Instrs, Instruction, Inserting, On
  <2> QED
    BY <2>1, <2>3
<1>2. /\ T = {x} \cup U /\ Closed(T)
      /\ jump[c] = 0
      /\ (Range(Todo))' = U
  BY <1>1, Ahead, Parts DEF At, KernelOK
<1>3. Needed(c)' = Needed(c) /\ "reject" \in Needed(c)
  BY DEF Needed
<1> HIDE DEF T, U, x
<1>4. ActiveIsReady(c)'
  BY <1>2 DEF ActiveIsReady
<1>5. \A r \in Needed(c) : Pending(U, c, r)
  <2>1. \A r \in Needed(c) : Pending(T, c, r)
    BY <1>1, <1>2 DEF Closed
  <2> QED
    BY <1>1, <1>2, <2>1 DEF Pending, On, Rule
<1> QED
  BY <1>2, <1>3, <1>4, <1>5 DEF Prepared

(* What goes to the head of a chain. *)
LEMMA Prepended ==
  ASSUME NEW s \in Seq(Rules), NEW r \in Rules
  PROVE  /\ Range(<<r>> \o s) = {r} \cup Range(s)
         /\ RejectFirst(s) /\ r # "queue" => RejectFirst(<<r>> \o s)
         /\ r = "reject" => RejectFirst(<<r>> \o s)
<1> DEFINE one == <<r>>
           t == one \o s
<1>1. one \in Seq(Rules) /\ Len(one) = 1 /\ one[1] = r /\ Range(one) = {r}
  BY DEF Range
<1> HIDE DEF one
<1>2. /\ Len(t) = 1 + Len(s) /\ Len(s) \in Nat
      /\ \A n \in 1 .. 1 + Len(s) : t[n] = IF n <= 1 THEN one[n] ELSE s[n - 1]
      /\ Range(t) = {r} \cup Range(s)
  <2>1. /\ Len(one \o s) = Len(one) + Len(s)
        /\ \A n \in 1 .. Len(one) + Len(s) :
             (one \o s)[n] = IF n <= Len(one) THEN one[n] ELSE s[n - Len(one)]
        /\ Range(one \o s) = Range(one) \cup Range(s)
    <3>1. one \in Seq(Rules) /\ s \in Seq(Rules)
      BY <1>1
    <3>2. Range(one \o s) = Range(one) \cup Range(s)
      BY <3>1, RangeConcatenation
    <3> QED
      BY <3>1, <3>2, ConcatProperties
  <2>2. Len(s) \in Nat
    BY LenProperties
  <2> QED
    BY <1>1, <2>1, <2>2
<1>3. t[1] = r
  BY <1>1, <1>2
<1> HIDE DEF t
<1>4. ASSUME r # "queue", RejectFirst(s) \/ r = "reject"
      PROVE  RejectFirst(t)
  <2> SUFFICES ASSUME NEW n \in 1 .. Len(t), t[n] = "queue"
               PROVE  \E m \in 1 .. n - 1 : t[m] = "reject"
    BY DEF RejectFirst
  <2>1. n # 1 /\ n \in 1 .. 1 + Len(s) /\ n - 1 \in 1 .. Len(s) /\ s[n - 1] = "queue"
    BY <1>2, <1>3, <1>4
  <2>2. CASE r = "reject"
    BY <1>2, <1>3, <2>1, <2>2
  <2>3. CASE RejectFirst(s)
    <3>1. PICK m \in 1 .. (n - 1) - 1 : s[m] = "reject"
      BY <2>1, <2>3 DEF RejectFirst
    <3>2. m + 1 \in 1 .. n - 1 /\ m + 1 \in 1 .. 1 + Len(s) /\ ~(m + 1 <= 1) /\ (m + 1) - 1 = m
      BY <1>2, <2>1, <3>1
    <3>3. t[m + 1] = s[m]
      BY <1>2, <3>2
    <3> QED
      BY <3>1, <3>2, <3>3
  <2> QED
    BY <1>4, <2>2, <2>3
<1> QED
  BY <1>2, <1>4 DEF t, one

(* Rules go to the head of a chain: the queue rule before the chain is       *)
(* active, the reject rule after the queue rule.                             *)
LEMMA ChainInserted ==
  ASSUME TypeInv, NEW c \in Set, ActiveIsReady(c), Prepared(Range(Todo), c),
         may' = may, NEW p \in Procs, At(p, "insert") \/ At(p, "ensure"), GoOn(p),
         Instr(p).chain = c, jump' = jump,
         \/ chain'[c] = <<Instr(p).rule>> \o chain[c]
         \/ chain'[c] = chain[c] /\ Instr(p).rule \in Range(chain[c]) /\ At(p, "ensure")
  PROVE  ActiveIsReady(c)' /\ Prepared(Range(Todo), c)'
<1> DEFINE T == Range(Todo)
           U == Range(Todo')
           x == Instr(p)
           r == Instr(p).rule
           old == chain[c]
           new == chain'[c]
<1>1. /\ Busy(p) /\ x \in Instrs /\ r \in Rules /\ x.chain = c /\ x.do \in Inserting
      /\ x = Rule(x.do, c, r)
      /\ x.do = "ensure" => r \notin {"queue", "reject"}
      /\ old \in Seq(Rules)
  <2>1. Busy(p) /\ x \in Instrs /\ x.do \in Inserting
    BY Instruct DEF At, Inserting
  <2>2. x \in Instruction /\ r \in Rules /\ (x.do = "ensure" => r \notin {"queue", "reject"})
    BY <2>1 DEF Instrs, Inserting, Rules
  <2>3. x = Rule(x.do, c, r)
    BY <2>2 DEF Instruction, Rule
  <2>4. old \in Seq(Rules)
    BY Parts DEF KernelOK
  <2> QED
    BY <2>1, <2>2, <2>3, <2>4
<1>2. /\ Range(new) = {r} \cup Range(old)
      /\ RejectFirst(old) /\ r # "queue" => RejectFirst(new)
      /\ r = "reject" => RejectFirst(new)
      /\ new # old => new = <<r>> \o old
  <2>1. CASE new = <<r>> \o old
    BY <1>1, <2>1, Prepended
  <2>2. CASE new = old /\ r \in Range(old) /\ At(p, "ensure")
    BY <1>1, <2>2 DEF At
  <2> QED
    BY <2>1, <2>2
<1>3. /\ p = "pglcmd" => /\ T = {x} \cup U /\ Closed(T)
                         /\ \A y \in U : Before(x, y)
      /\ p = "hook" => T = U
      /\ p \in {"pglcmd", "hook"}
  BY <1>1, Ahead, HookLeaves DEF Procs
<1>4. Needed(c)' = Needed(c)
  BY DEF Needed
<1>5. ASSUME r = "queue"
      PROVE  /\ p = "pglcmd" /\ On("activate", c) \in T /\ Pending(T, c, "reject")
             /\ On("create", c) \notin T
  <2>1. p = "pglcmd" /\ x = Rule("insert", c, "queue")
    <3>1. p = "hook" => x.do = "ensure"
      BY <1>1, Instruct DEF HookInstrs, Inserting
    <3> QED
      BY <1>1, <1>3, <1>5, <3>1 DEF Inserting
  <2>2. On("create", c) \notin U
    BY <1>3, <2>1, Stages DEF Before
  <2>3. x # On("create", c)
    BY <2>1, Stages
  <2> QED
    BY <1>3, <2>1, <2>2, <2>3 DEF Closed
<1> HIDE DEF T, U, x, r, old, new
<1>6. ASSUME jump[c] > 0 PROVE r # "queue"
  BY <1>5, <1>6 DEF Prepared, Underway, T
<1>7. ActiveIsReady(c)'
  <2>1. jump'[c] = jump[c]
    OBVIOUS
  <2>2. ASSUME jump[c] > 0, "queue" \in Range(new)
        PROVE  RejectFirst(new) /\ Needed(c) \subseteq Range(new)
    <3>1. r # "queue" /\ "queue" \in Range(old)
      BY <1>2, <1>6, <2>2
    <3>2. RejectFirst(old) /\ Needed(c) \subseteq Range(old)
      BY <2>2, <3>1 DEF ActiveIsReady, Ready, old
    <3> QED
      BY <1>2, <3>1, <3>2
  <2> QED
    BY <1>4, <2>1, <2>2 DEF ActiveIsReady, Ready, RejectFirst, new
<1>8. Prepared(Range(Todo), c)'
  <2>1. (Range(Todo))' = U /\ jump'[c] = jump[c]
    BY DEF U
  <2>2. ASSUME Underway(U, c)
        PROVE  /\ jump[c] = 0
               /\ \A a \in Needed(c) : Pending(U, c, a) \/ a \in Range(new)
               /\ Pending(U, c, "reject") \/ RejectFirst(new)
    <3>1. Underway(T, c)
      <4>1. x # On("create", c)
        BY <1>1 DEF On, Rule, Inserting
      <4> QED
        BY <1>3, <2>2, <4>1 DEF Underway
    <3>2. /\ jump[c] = 0
          /\ \A a \in Needed(c) : Pending(T, c, a) \/ a \in Range(old)
          /\ Pending(T, c, "reject") \/ RejectFirst(old)
      BY <3>1 DEF Prepared, T, old
    <3>3. \A a : Pending(T, c, a) => Pending(U, c, a) \/ a = r
      BY <1>1, <1>3 DEF Pending, Rule
    <3>4. Pending(U, c, "reject") \/ RejectFirst(new)
      <4>1. CASE r = "queue"
        BY <1>5, <3>3, <4>1
      <4>2. CASE r # "queue" /\ RejectFirst(old)
        BY <1>2, <4>2
      <4>3. CASE r # "queue" /\ Pending(T, c, "reject")
        BY <1>2, <3>3, <4>3
      <4> QED
        BY <3>2, <4>1, <4>2, <4>3
    <3> QED
      BY <1>2, <3>2, <3>3, <3>4
  <2> QED
    BY <1>4, <2>1, <2>2 DEF Prepared, RejectFirst, new
<1> QED
  BY <1>7, <1>8

(* A rule for the port is nothing that an active chain needs. *)
LEMMA ChainDeletedFrom ==
  ASSUME TypeInv, NEW c \in Set, ActiveIsReady(c), Prepared(Range(Todo), c),
         may' = may, NEW p \in Procs, At(p, "delete"), GoOn(p), jump' = jump,
         chain'[c] = RemoveFirst(chain[c], "port")
  PROVE  ActiveIsReady(c)' /\ Prepared(Range(Todo), c)'
<1> DEFINE T == Range(Todo)
           U == Range(Todo')
           old == chain[c]
           new == chain'[c]
<1>1. Kept(T, U, c)
  BY KeptByGoingOn DEF At, Inserting
<1>2. /\ RejectFirst(old) => RejectFirst(new)
      /\ Range(new) \subseteq Range(old)
      /\ \A r \in Range(old) : r # "port" => r \in Range(new)
  <2>1. old \in Seq(Rules)
    BY Parts DEF KernelOK
  <2> QED
    BY <2>1, Removed
<1>3. Needed(c)' = Needed(c) /\ "port" \notin Needed(c)
  BY DEF Needed
<1> HIDE DEF T, U, old, new
<1>4. ActiveIsReady(c)'
  <2>1. jump'[c] = jump[c]
    OBVIOUS
  <2>2. ASSUME jump[c] > 0, "queue" \in Range(new)
        PROVE  RejectFirst(new) /\ Needed(c) \subseteq Range(new)
    <3>1. RejectFirst(old) /\ Needed(c) \subseteq Range(old)
      BY <1>2, <2>2 DEF ActiveIsReady, Ready, old
    <3> QED
      BY <1>2, <1>3, <3>1
  <2> QED
    BY <1>3, <2>1, <2>2 DEF ActiveIsReady, Ready, RejectFirst, new
<1>5. Prepared(Range(Todo), c)'
  <2>1. (Range(Todo))' = U /\ jump'[c] = jump[c]
    BY DEF U
  <2>2. ASSUME Underway(U, c)
        PROVE  /\ jump[c] = 0
               /\ \A a \in Needed(c) : Pending(U, c, a) \/ a \in Range(new)
               /\ Pending(U, c, "reject") \/ RejectFirst(new)
    <3>1. Underway(T, c) /\ \A r : Pending(T, c, r) => Pending(U, c, r)
      BY <1>1, <2>2 DEF Kept
    <3>2. /\ jump[c] = 0
          /\ \A a \in Needed(c) : Pending(T, c, a) \/ a \in Range(old)
          /\ Pending(T, c, "reject") \/ RejectFirst(old)
      BY <3>1 DEF Prepared, T, old
    <3> QED
      BY <1>2, <1>3, <3>1, <3>2
  <2> QED
    BY <1>3, <2>1, <2>2 DEF Prepared, RejectFirst, new
<1> QED
  BY <1>4, <1>5

(* A chain that is activated was not active, and has the rules it needs.     *)
LEMMA ChainActivated ==
  ASSUME TypeInv, NEW c \in Set, ActiveIsReady(c), Prepared(Range(Todo), c),
         may' = may, NEW p \in Procs, At(p, "activate"), GoOn(p), Instr(p).chain = c,
         chain' = chain, jump'[c] = jump[c] + 1
  PROVE  ActiveIsReady(c)' /\ Prepared(Range(Todo), c)'
<1> DEFINE T == Range(Todo)
           U == Range(Todo')
           x == Instr("pglcmd")
<1>1. p = "pglcmd" /\ x = On("activate", c)
  <2>1. p = "pglcmd"
    BY Instruct DEF At, HookInstrs, Procs
  <2>2. x \in Instrs /\ x.do = "activate" /\ x.chain = c
    BY <2>1, Instruct DEF At
  <2>3. x = On("activate", c)
    BY <2>2 DEF Instrs, Instruction, Inserting, On
  <2> QED
    BY <2>1, <2>3
<1>2. /\ T = {x} \cup U /\ (Range(Todo))' = U
      /\ \A y \in U : Before(x, y)
  BY <1>1, Ahead DEF At
<1>3. Needed(c)' = Needed(c) /\ "reject" \in Needed(c)
  BY DEF Needed
<1>4. \A y \in U : Stage(y) > 0 /\ y.chain = c => FALSE
  <2> SUFFICES ASSUME NEW y \in U, Stage(y) > 0, y.chain = c PROVE FALSE
    OBVIOUS
  <2>1. Stage(x) = 4 /\ x.chain = c
    BY <1>1, Stages
  <2>2. 4 < Stage(y)
    BY <1>2, <2>1 DEF Before
  <2>3. Stage(y) \in {0, 1, 2, 3, 4}
    BY DEF Stage
  <2> QED
    BY <2>2, <2>3
<1> HIDE DEF T, U, x
<1>5. /\ On("create", c) \notin U /\ On("activate", c) \notin U
      /\ \A r \in Needed(c) : ~Pending(T, c, r)
  <2>1. On("create", c) \notin U /\ On("activate", c) \notin U
    BY <1>4, Stages
  <2>2. ASSUME NEW r \in Needed(c) PROVE ~Pending(T, c, r)
    <3>1. Rule("insert", c, r) \notin U /\ Rule("ensure", c, r) \notin U
      BY <1>4, Stages, NeededRules
    <3>2. x # Rule("insert", c, r) /\ x # Rule("ensure", c, r)
      BY <1>1 DEF On, Rule
    <3> QED
      BY <1>2, <3>1, <3>2 DEF Pending
  <2> QED
    BY <2>1, <2>2
<1>6. Underway(T, c)
  BY <1>1, <1>2, <1>5 DEF Underway, On
<1>7. jump[c] = 0 /\ Needed(c) \subseteq Range(chain[c]) /\ RejectFirst(chain[c])
  BY <1>3, <1>5, <1>6 DEF Prepared, T
<1>8. ActiveIsReady(c)'
  BY <1>3, <1>7 DEF ActiveIsReady, Ready, RejectFirst
<1>9. Prepared(Range(Todo), c)'
  BY <1>2, <1>5 DEF Prepared, Underway
<1> QED
  BY <1>8, <1>9

(* A removal command makes a chain inactive. *)
LEMMA ChainDeactivated ==
  ASSUME TypeInv, NEW c \in Set, ActiveIsReady(c), Prepared(Range(Todo), c),
         may' = may, NEW p \in Procs, At(p, "D"), GoOn(p),
         chain' = chain, jump'[c] = 0
  PROVE  ActiveIsReady(c)' /\ Prepared(Range(Todo), c)'
<1> DEFINE T == Range(Todo)
           U == Range(Todo')
<1>1. Kept(T, U, c)
  BY KeptByGoingOn DEF At, Inserting
<1>2. Needed(c)' = Needed(c) /\ (Range(Todo))' = U
  BY DEF Needed
<1> HIDE DEF T, U
<1>3. ActiveIsReady(c)'
  BY DEF ActiveIsReady
<1>4. Prepared(Range(Todo), c)'
  BY <1>1, <1>2 DEF Prepared, Kept, Underway, RejectFirst, T
<1> QED
  BY <1>3, <1>4

(* A chain is emptied before anything is prepared. *)
LEMMA ChainFlushed ==
  ASSUME TypeInv, NEW c \in Set, ActiveIsReady(c), Prepared(Range(Todo), c),
         may' = may, NEW p \in Procs, At(p, "F"), GoOn(p),
         chain'[c] = <<>>, jump' = jump
  PROVE  ActiveIsReady(c)' /\ Prepared(Range(Todo), c)'
<1> DEFINE T == Range(Todo)
           U == Range(Todo')
           x == Instr("pglcmd")
<1>1. p = "pglcmd" /\ x.do = "F"
  BY Instruct DEF At, HookInstrs, Procs
<1>2. /\ T = {x} \cup U /\ (Range(Todo))' = U /\ Closed(T)
  BY <1>1, Ahead DEF At
<1> HIDE DEF T, U, x
<1>3. ~Underway(U, c)
  <2> SUFFICES ASSUME On("activate", c) \in U PROVE On("create", c) \in U
    BY DEF Underway
  <2>1. On("create", c) \in T
    BY <1>1, <1>2 DEF Closed, Clearing, Lines
  <2> QED
    BY <1>1, <1>2, <2>1 DEF On
<1>4. ActiveIsReady(c)'
  <2>1. "queue" \notin Range(<<>>)
    BY DEF Range
  <2> QED
    BY <2>1 DEF ActiveIsReady
<1>5. Prepared(Range(Todo), c)'
  BY <1>2, <1>3 DEF Prepared, Underway
<1> QED
  BY <1>4, <1>5

(* The steps of a shell that change neither rules nor jumps. *)
LEMMA KeptQuietly ==
  ASSUME TypeInv, NEW p \in Procs, NEW c \in Set,
         \/ Exit(p) \/ CheckStatus(p) \/ bad_nice_level(p) \/ start_daemon(p)
         \/ killproc(p) \/ Record(p) \/ Remember(p) \/ Cat(p) \/ Mv(p) \/ Sh(p)
         \/ Rm(p) \/ DeleteChain(p) \/ FailUnnoticed(p)
  PROVE  Kept(Range(Todo), Range(Todo'), c) /\ may' = may /\ chain' = chain /\ jump' = jump
<1>1. may' = may /\ chain' = chain /\ jump' = jump
  BY DEF Exit, CheckStatus, bad_nice_level, start_daemon, killproc, Record, Remember, Cat, Mv,
     Sh, Rm, DeleteChain, FailUnnoticed, kernel
<1>2. CASE Exit(p) \/ bad_nice_level(p)
  BY <1>1, <1>2, KeptByGivingUp DEF Exit, bad_nice_level
<1>3. CASE Sh(p)
  BY <1>1, <1>3, KeptBySh
<1>4. CASE CheckStatus(p)
  <2>1. Busy(p) /\ Instr(p).do \notin {"create"} \cup Inserting
    BY <1>4 DEF CheckStatus, At, Inserting
  <2>2. GoOn(p) \/ Instead(p, <<>>, TRUE)
    BY <1>4 DEF CheckStatus
  <2> QED
    BY <1>1, <2>1, <2>2, KeptByGoingOn, KeptByGivingUp
<1>5. CASE start_daemon(p)
  <2>1. Busy(p) /\ Instr(p).do \notin {"create"} \cup Inserting
    BY <1>5 DEF start_daemon, At, Inserting
  <2>2. GoOn(p) \/ Instead(p, delete_iptables, FALSE)
    BY <1>5 DEF start_daemon
  <2> QED
    BY <1>1, <2>1, <2>2, KeptByGoingOn, KeptByGivingUp
<1>6. CASE killproc(p) \/ Record(p) \/ Remember(p) \/ Cat(p) \/ Mv(p) \/ Rm(p)
           \/ DeleteChain(p) \/ FailUnnoticed(p)
  <2>1. Busy(p) /\ GoOn(p) /\ Instr(p).do \notin {"create"} \cup Inserting
    BY <1>6 DEF killproc, Record, Remember, Cat, Mv, Rm, DeleteChain, Executed, FailUnnoticed,
       At, Inserting
  <2> QED
    BY <1>1, <2>1, KeptByGoingOn
<1> QED
  BY <1>2, <1>3, <1>4, <1>5, <1>6

LEMMA ShellChain ==
  ASSUME TypeInv, NEW c \in Set, ActiveIsReady(c), Prepared(Range(Todo), c),
         NEW p \in Procs, Shell(p)
  PROVE  ActiveIsReady(c)' /\ Prepared(Range(Todo), c)'
<1> DEFINE d == Instr(p).chain
           r == Instr(p).rule
           Right == ActiveIsReady(c)' /\ Prepared(Range(Todo), c)'
<1>1. ASSUME may' = may, chain'[c] = chain[c], jump'[c] = jump[c], Busy(p), GoOn(p),
             d # c \/ Instr(p).do \notin {"create"} \cup Inserting
      PROVE  Right
  BY <1>1, KeptByGoingOn, ChainFrame
<1>2. ASSUME NEW sound, Fails(p, sound) PROVE Right
  <2>1. may' = may /\ chain' = chain /\ jump' = jump /\ Give(p)
    BY <1>2 DEF Fails, kernel
  <2> QED
    BY <2>1, KeptByGive, ChainFrame
<1>3. chain \in [Set -> Seq(Rules)] /\ jump \in [Set -> Nat]
  BY Parts DEF KernelOK
<1>4. CASE \/ Exit(p) \/ CheckStatus(p) \/ bad_nice_level(p) \/ start_daemon(p)
           \/ killproc(p) \/ Record(p) \/ Remember(p) \/ Cat(p) \/ Mv(p) \/ Sh(p)
           \/ Rm(p) \/ DeleteChain(p) \/ FailUnnoticed(p)
  BY <1>4, KeptQuietly, ChainFrame
<1>5. CASE Create(p)
  <2>1. At(p, "create") /\ Busy(p)
    BY <1>5 DEF Create, At
  <2>2. \/ /\ d \notin made /\ GoOn(p) /\ may' = may /\ chain' = chain /\ jump' = jump
        \/ Fails(p, d \notin made)
    BY <1>5 DEF Create
  <2>3. CASE d \notin made /\ GoOn(p) /\ may' = may /\ chain' = chain /\ jump' = jump
    BY <1>1, <2>1, <2>3, ChainCreated
  <2> QED
    BY <1>2, <2>2, <2>3
<1>6. CASE Insert(p)
  <2>1. (At(p, "insert") \/ At(p, "ensure")) /\ Busy(p)
    BY <1>6 DEF Insert, At
  <2>2. \/ /\ \/ chain' = [chain EXCEPT ![d] = <<r>> \o @]
              \/ chain' = chain /\ r \in Range(chain[d]) /\ At(p, "ensure")
           /\ GoOn(p) /\ may' = may /\ jump' = jump
        \/ Fails(p, d \in made)
    BY <1>6 DEF Insert
  <2>3. ASSUME \/ chain' = [chain EXCEPT ![d] = <<r>> \o @]
               \/ chain' = chain /\ r \in Range(chain[d]) /\ At(p, "ensure"),
               GoOn(p), may' = may, jump' = jump
        PROVE  Right
    <3>1. CASE d = c
      <4>1. \/ chain'[c] = <<r>> \o chain[c]
            \/ chain'[c] = chain[c] /\ r \in Range(chain[c]) /\ At(p, "ensure")
        BY <1>3, <2>3, <3>1
      <4> QED
        BY <2>1, <2>3, <3>1, <4>1, ChainInserted
    <3>2. CASE d # c
      <4>1. chain'[c] = chain[c]
        BY <1>3, <2>3, <3>2
      <4> QED
        BY <1>1, <2>1, <2>3, <3>2, <4>1
    <3> QED
      BY <3>1, <3>2
  <2> QED
    BY <1>2, <2>2, <2>3
<1>7. CASE Delete(p)
  <2>1. At(p, "delete") /\ Busy(p) /\ Instr(p).do = "delete"
    BY <1>7 DEF Delete, At
  <2>2. r = "port"
    BY <2>1, Instruct DEF Instrs
  <2>3. \/ /\ chain' = [chain EXCEPT ![d] = RemoveFirst(@, "port")]
           /\ GoOn(p) /\ may' = may /\ jump' = jump
        \/ Fails(p, TRUE)
    BY <1>7, <2>2 DEF Delete
  <2>4. ASSUME chain' = [chain EXCEPT ![d] = RemoveFirst(@, "port")],
               GoOn(p), may' = may, jump' = jump
        PROVE  Right
    <3>1. CASE d = c
      <4>1. chain'[c] = RemoveFirst(chain[c], "port")
        BY <1>3, <2>4, <3>1
      <4> QED
        BY <2>1, <2>4, <4>1, ChainDeletedFrom
    <3>2. CASE d # c
      <4>1. chain'[c] = chain[c]
        BY <1>3, <2>4, <3>2
      <4> QED
        BY <1>1, <2>1, <2>4, <3>2, <4>1
    <3> QED
      BY <3>1, <3>2
  <2> QED
    BY <1>2, <2>3, <2>4
<1>8. CASE ActivateChain(p)
  <2>1. At(p, "activate") /\ Busy(p) /\ Instr(p).do = "activate"
    BY <1>8 DEF ActivateChain, At
  <2>2. \/ /\ jump' = [jump EXCEPT ![d] = @ + 1]
           /\ GoOn(p) /\ may' = may /\ chain' = chain
        \/ Fails(p, d \in made)
    BY <1>8 DEF ActivateChain
  <2>3. ASSUME jump' = [jump EXCEPT ![d] = @ + 1], GoOn(p), may' = may, chain' = chain
        PROVE  Right
    <3>1. CASE d = c
      <4>1. jump'[c] = jump[c] + 1
        BY <1>3, <2>3, <3>1
      <4> QED
        BY <2>1, <2>3, <3>1, <4>1, ChainActivated
    <3>2. CASE d # c
      <4>1. jump'[c] = jump[c]
        BY <1>3, <2>3, <3>2
      <4> QED
        BY <1>1, <2>1, <2>3, <3>2, <4>1
    <3> QED
      BY <3>1, <3>2
  <2> QED
    BY <1>2, <2>2, <2>3
<1>9. CASE Deactivate(p)
  <2>1. At(p, "D") /\ Busy(p) /\ Instr(p).do = "D"
    BY <1>9 DEF Deactivate, At
  <2>2. /\ jump' = [jump EXCEPT ![d] = IF @ > 0 THEN @ - 1 ELSE 0]
        /\ GoOn(p) /\ may' = may /\ chain' = chain
    BY <1>9 DEF Deactivate, Executed
  <2>3. CASE d = c
    <3>1. jump'[c] = 0
      BY <1>3, <2>2, <2>3 DEF ActiveIsReady
    <3> QED
      BY <2>1, <2>2, <3>1, ChainDeactivated
  <2>4. CASE d # c
    <3>1. jump'[c] = jump[c]
      BY <1>3, <2>2, <2>4
    <3> QED
      BY <1>1, <2>1, <2>2, <2>4, <3>1
  <2> QED
    BY <2>3, <2>4
<1>10. CASE Flush(p)
  <2>1. At(p, "F") /\ Busy(p) /\ Instr(p).do = "F"
    BY <1>10 DEF Flush, At
  <2>2. /\ chain' = [chain EXCEPT ![d] = <<>>]
        /\ GoOn(p) /\ may' = may /\ jump' = jump
    BY <1>10 DEF Flush, Executed
  <2>3. CASE d = c
    <3>1. chain'[c] = <<>>
      BY <1>3, <2>2, <2>3
    <3> QED
      BY <2>1, <2>2, <3>1, ChainFlushed
  <2>4. CASE d # c
    <3>1. chain'[c] = chain[c]
      BY <1>3, <2>2, <2>4
    <3> QED
      BY <1>1, <2>1, <2>2, <2>4, <3>1
  <2> QED
    BY <2>3, <2>4
<1> QED
  BY <1>4, <1>5, <1>6, <1>7, <1>8, <1>9, <1>10 DEF Shell

(* Every step leaves active chains ready. *)
LEMMA NextChain == TypeInv /\ ChainInv /\ [Next]_vars => ChainInv'
<1> SUFFICES ASSUME TypeInv, ChainInv, [Next]_vars, NEW c \in Set
             PROVE  ActiveIsReady(c)' /\ Prepared(Range(Todo), c)'
  BY DEF ChainInv
<1>1. ActiveIsReady(c) /\ Prepared(Range(Todo), c)
  BY DEF ChainInv
<1>2. CASE UNCHANGED <<may, proc, chain, jump>>
  <2>1. Kept(Range(Todo), Range(Todo'), c)
    BY <1>2 DEF Kept, Todo
  <2> QED
    BY <1>1, <1>2, <2>1, ChainFrame
<1>3. ASSUME NEW p \in Procs, Shell(p)
      PROVE  ActiveIsReady(c)' /\ Prepared(Range(Todo), c)'
  BY <1>1, <1>3, ShellChain
<1>4. ASSUME NEW p \in Procs, NEW cmd \in Commands(p), Call(p, cmd)
      PROVE  ActiveIsReady(c)' /\ Prepared(Range(Todo), c)'
  <2> DEFINE t == Program(cmd, conf)
  <2>1. UNCHANGED <<may, chain, jump>>
    BY <1>4 DEF Call, kernel
  <2>2. Todo' = IF p = "pglcmd" THEN t ELSE Todo
    <3>1. proc \in [Procs -> [cmd : Cmds, todo : Seq(Instrs), ok : BOOLEAN]] /\ "pglcmd" \in Procs
      BY DEF TypeInv, ProcOK, Procs
    <3>2. proc' = [proc EXCEPT ![p] = [cmd |-> cmd, todo |-> t, ok |-> TRUE]]
      BY <1>4 DEF Call
    <3> HIDE DEF t
    <3> QED
      BY <3>1, <3>2 DEF Todo
  <2>3. p = "pglcmd" => ~Underway(Range(t), c)
    <3>1. ASSUME p = "pglcmd" PROVE ~Underway(Range(t), c)
      <4>1. cmd \in Starters \cup Configures \cup {"stop"}
        BY <1>4, <3>1 DEF Commands
      <4>2. conf \in BOOLEAN /\ (cmd = "restart_not_wd" => "repair" \in may)
        BY <1>4, Parts DEF Call, OthersOK
      <4> QED
        BY <4>1, <4>2, ProgramGood DEF Underway
    <3> QED
      BY <3>1
  <2>4. Kept(Range(Todo), Range(Todo'), c)
    BY <2>2, <2>3 DEF Kept
  <2> QED
    BY <1>1, <2>1, <2>4, ChainFrame
<1>5. CASE Kill
  <2>1. UNCHANGED <<may, chain, jump>> /\ proc' = [proc EXCEPT !["pglcmd"] = Idle]
        /\ "pglcmd" \in Procs
    BY <1>5 DEF Kill, kernel, Procs
  <2>2. Kept(Range(Todo), Range(Todo'), c)
    BY <2>1, KeptByGivingUp
  <2> QED
    BY <1>1, <2>1, <2>2, ChainFrame
<1>6. CASE Reboot
  <2>1. jump'[c] = 0 /\ Todo' = <<>>
    BY <1>6 DEF Reboot, Todo, Procs, Idle
  <2>2. ActiveIsReady(c)'
    BY <2>1 DEF ActiveIsReady
  <2>3. On("activate", c) \notin Range(<<>>)
    BY DEF Range
  <2>4. Prepared(Range(Todo), c)'
    BY <2>1, <2>3 DEF Prepared, Underway
  <2> QED
    BY <2>2, <2>4
<1> QED
  BY <1>2, <1>3, <1>4, <1>5, <1>6 DEF Next, vars, kernel, End, Arrive, Traverse, nfqueue_cb

LEMMA InitChain == Init => ChainInv
<1> SUFFICES ASSUME Init, NEW c \in Set
             PROVE  ActiveIsReady(c) /\ Prepared(Range(Todo), c)
  BY DEF ChainInv
<1>1. jump[c] = 0 /\ Todo = <<>>
  BY DEF Init, Todo, Procs, Idle
<1>2. On("activate", c) \notin Range(<<>>)
  BY DEF Range
<1> QED
  BY <1>1, <1>2 DEF ActiveIsReady, Prepared, Underway

(* Whatever dies, fails, or runs beside a start: a chain that sends packets  *)
(* to pgld has the rules for the allowlists and the LAN, the one for         *)
(* rejected packets and, unless the watchdog did the restart, the one for    *)
(* the loopback device.                                                      *)
THEOREM ActiveTheorem == Spec => []ActiveComplete
<1>1. Spec => [](TypeInv /\ ChainInv)
  BY InitTypes, NextTypes, InitChain, NextChain, PTL DEF Spec
<1>2. TypeInv /\ ChainInv => ActiveComplete
  <2> SUFFICES ASSUME ChainInv, NEW c \in Set, Filtering(c)
      PROVE  /\ {"list", "local", "reject"} \subseteq Range(chain[c])
             /\ c \in {"INPUT", "OUTPUT"} /\ "repair" \notin may => "loop" \in Range(chain[c])
    BY DEF ActiveComplete
  <2>1. Needed(c) \subseteq Range(chain[c])
    BY DEF ChainInv, ActiveIsReady, Ready, Filtering
  <2> QED
    BY <2>1 DEF Needed
<1> QED
  BY <1>1, <1>2, PTL

-----------------------------------------------------------------------------
(* The list decides *)

(* What decides on a packet: a rule of its chain that matches it, and none   *)
(* before it does.  If the chain filters, something decides on a packet that *)
(* pgld has not accepted.                                                    *)
LEMMA Decided ==
  ASSUME TypeInv, pkt.chain \in Set
  PROVE  LET s == chain[pkt.chain] IN
         /\ Deciding # "none" =>
              \E k \in 1 .. Len(s) : /\ s[k] = Deciding /\ Matches(s[k]) /\ s[k] \in Rules
                                     /\ \A m \in 1 .. k - 1 : ~Matches(s[m])
                                     /\ jump[pkt.chain] > 0 /\ pkt.mark # "accept"
         /\ Deciding = "none" /\ Filtering(pkt.chain) => pkt.mark = "accept"
<1> DEFINE s == chain[pkt.chain]
           hits == {i \in DOMAIN s : Matches(s[i])}
           k == Min(hits)
<1>1. s \in Seq(Rules) /\ jump[pkt.chain] \in Nat
  BY Parts DEF KernelOK
<1>2. DOMAIN s = 1 .. Len(s) /\ Len(s) \in Nat /\ \A i \in 1 .. Len(s) : s[i] \in Rules
  BY <1>1, LenProperties, ElementOfSeq
<1>3. Deciding = IF jump[pkt.chain] = 0 \/ pkt.mark = "accept" \/ hits = {}
                   THEN "none" ELSE s[k]
  BY DEF Deciding
<1>4. hits \in SUBSET Nat
  BY <1>2
<1>5. hits # {} => k \in hits /\ \A n \in hits : k <= n
  <2> HIDE DEF hits
  <2> QED
    BY <1>4, FirstPosition DEF hits
<1> HIDE DEF k
<1>6. ASSUME Deciding # "none"
      PROVE  \E j \in 1 .. Len(s) : /\ s[j] = Deciding /\ Matches(s[j]) /\ s[j] \in Rules
                                    /\ \A m \in 1 .. j - 1 : ~Matches(s[m])
                                    /\ jump[pkt.chain] > 0 /\ pkt.mark # "accept"
  <2>1. jump[pkt.chain] > 0 /\ pkt.mark # "accept" /\ hits # {} /\ Deciding = s[k]
    BY <1>1, <1>3, <1>6
  <2>2. k \in 1 .. Len(s) /\ Matches(s[k]) /\ s[k] \in Rules
    BY <1>2, <1>5, <2>1
  <2>3. ASSUME NEW m \in 1 .. k - 1 PROVE ~Matches(s[m])
    <3>1. m \in 1 .. Len(s) /\ ~(k <= m)
      BY <1>2, <2>2
    <3> QED
      BY <1>2, <1>5, <2>1, <3>1
  <2> QED
    BY <2>1, <2>2, <2>3
<1>7. ASSUME Deciding = "none", Filtering(pkt.chain)
      PROVE  pkt.mark = "accept"
  <2>1. jump[pkt.chain] # 0 /\ "queue" \in Range(s)
    BY <1>1, <1>7 DEF Filtering
  <2>2. PICK i \in 1 .. Len(s) : s[i] = "queue"
    BY <1>1, <2>1, InRange
  <2>3. Matches(s[i])
    BY <2>2 DEF Matches
  <2>4. hits # {}
    BY <1>2, <2>3
  <2>5. s[k] \in Rules
    BY <1>2, <1>5, <2>4
  <2> QED
    BY <1>3, <1>7, <2>1, <2>4, <2>5 DEF Rules
<1> QED
  BY <1>6, <1>7

LEMMA Traversed ==
  ASSUME TypeInv, ChainInv, PacketInv, Traverse
  PROVE  PacketInv'
<1>1. /\ pkt \in Packets /\ pkt.at = "hook" /\ pkt.chain \in Set /\ pkt.rounds \in {0, 1}
      /\ pkt.mark = IF pkt.rounds = 0 THEN "none"
                    ELSE IF pkt.listed THEN "reject" ELSE "accept"
  BY DEF Traverse, PacketInv
<1>2. daemon \in BOOLEAN /\ Filtering(pkt.chain) \in BOOLEAN
  BY Parts DEF OthersOK, Filtering
<1> DEFINE at == CASE Deciding = "reject" -> "dropped"
                   [] Deciding = "queue" -> IF daemon THEN "queued" ELSE "dropped"
                   [] OTHER -> "accepted"
           off == pkt.off \/ ~Filtering(pkt.chain)
           deaf == pkt.deaf \/ ~daemon
<1>3. pkt' = [pkt EXCEPT !.at = at, !.off = off, !.deaf = deaf]
  BY DEF Traverse
<1>4. \/ at = "dropped" /\ Deciding = "reject"
      \/ at = "dropped" /\ Deciding = "queue" /\ ~daemon
      \/ at = "queued" /\ Deciding = "queue" /\ daemon
      \/ at = "accepted" /\ Deciding \notin {"queue", "reject"}
  BY <1>2
<1>5. off \in BOOLEAN /\ deaf \in BOOLEAN
  BY <1>1, <1>2 DEF Packets
<1> HIDE DEF at, off, deaf
<1>6. at \in {"queued", "accepted", "dropped"}
  BY <1>4
<1>7. /\ pkt' \in Packets
      /\ pkt'.at = at /\ pkt'.off = off /\ pkt'.deaf = deaf
      /\ pkt'.chain = pkt.chain /\ pkt'.rounds = pkt.rounds /\ pkt'.mark = pkt.mark
      /\ pkt'.listed = pkt.listed /\ pkt'.class = pkt.class
  BY <1>1, <1>3, <1>5, <1>6 DEF Packets
<1> DEFINE s == chain[pkt.chain]
<1>8. /\ Deciding # "none" =>
           \E k \in 1 .. Len(s) : /\ s[k] = Deciding /\ Matches(s[k]) /\ s[k] \in Rules
                                  /\ \A m \in 1 .. k - 1 : ~Matches(s[m])
                                  /\ jump[pkt.chain] > 0 /\ pkt.mark # "accept"
      /\ Deciding = "none" /\ Filtering(pkt.chain) => pkt.mark = "accept"
  BY <1>1, Decided
<1>9. ASSUME at = "queued" PROVE pkt.rounds = 0
  <2> SUFFICES ASSUME pkt.rounds # 0 PROVE FALSE
    OBVIOUS
  <2>1. Deciding = "queue"
    BY <1>4, <1>9
  <2>2. PICK k \in 1 .. Len(s) : /\ s[k] = "queue"
                                 /\ \A m \in 1 .. k - 1 : ~Matches(s[m])
                                 /\ jump[pkt.chain] > 0 /\ pkt.mark # "accept"
    BY <1>8, <2>1
  <2>3. pkt.mark = "reject"
    BY <1>1, <2>2
  <2>4. "queue" \in Range(s)
    <3>1. s \in Seq(Rules)
      BY <1>1, Parts DEF KernelOK
    <3> QED
      BY <2>2, <3>1, InRange
  <2>5. RejectFirst(s)
    BY <1>1, <2>2, <2>4 DEF ChainInv, ActiveIsReady, Ready
  <2>6. PICK m \in 1 .. k - 1 : s[m] = "reject"
    BY <2>2, <2>5 DEF RejectFirst
  <2>7. Matches(s[m])
    BY <2>3, <2>6 DEF Matches
  <2> QED
    BY <2>2, <2>7
<1>10. ASSUME at = "accepted", pkt.listed, pkt.class = "other" PROVE off
  <2> SUFFICES ASSUME Filtering(pkt.chain) PROVE FALSE
    BY <1>2 DEF off
  <2>1. pkt.mark # "accept"
    BY <1>1, <1>10
  <2>2. Deciding # "none" /\ Deciding \notin {"queue", "reject"}
    BY <1>4, <1>8, <1>10, <2>1
  <2>3. PICK k \in 1 .. Len(s) : s[k] = Deciding /\ Matches(s[k]) /\ s[k] \in Rules
    BY <1>8, <2>2
  <2>4. s[k] = "other"
    BY <1>10, <2>2, <2>3 DEF Matches
  <2> QED
    BY <2>3, <2>4 DEF Rules
<1>11. ASSUME at = "dropped", ~pkt.listed PROVE deaf
  <2>1. CASE Deciding = "reject"
    <3>1. pkt.mark = "reject"
      BY <1>8, <2>1 DEF Matches
    <3> QED
      BY <1>1, <1>11, <3>1
  <2>2. CASE ~daemon
    BY <2>2 DEF deaf
  <2> QED
    BY <1>4, <1>11, <2>1, <2>2
<1>12. ListDecides'
  BY <1>7, <1>9, <1>10, <1>11 DEF ListDecides
<1> QED
  BY <1>1, <1>7, <1>9, <1>12 DEF PacketInv

LEMMA NextPacket == TypeInv /\ ChainInv /\ PacketInv /\ [Next]_vars => PacketInv'
<1> SUFFICES ASSUME TypeInv, ChainInv, PacketInv, [Next]_vars
             PROVE  PacketInv'
  OBVIOUS
<1>1. CASE pkt' = pkt
  BY <1>1 DEF PacketInv, ListDecides
<1>2. pkt \in Packets
  BY DEF PacketInv
<1>3. CASE pkt' = Deafened
  <2>1. CASE pkt.at = "queued"
    <3>1. pkt' = [pkt EXCEPT !.at = "dropped", !.deaf = TRUE]
      BY <1>3, <2>1 DEF Deafened
    <3>2. pkt' \in Packets /\ pkt'.at = "dropped" /\ pkt'.deaf = TRUE
      BY <1>2, <3>1 DEF Packets
    <3> QED
      BY <3>2 DEF PacketInv, ListDecides
  <2>2. CASE pkt.at # "queued"
    BY <1>1, <1>3, <2>2 DEF Deafened
  <2> QED
    BY <2>1, <2>2
<1>4. CASE Arrive
  <2>1. PICK c \in Set, class \in {"other", "port"}, listed \in BOOLEAN :
          pkt' = [NoPacket EXCEPT !.at = "hook", !.chain = c, !.class = class,
                                  !.listed = listed]
    BY <1>4 DEF Arrive
  <2>2. /\ pkt' \in Packets /\ pkt'.at = "hook" /\ pkt'.chain = c /\ pkt'.rounds = 0
        /\ pkt'.mark = "none"
    BY <2>1 DEF NoPacket, Packets
  <2> QED
    BY <2>2 DEF PacketInv, ListDecides
<1>5. CASE Traverse
  BY <1>5, Traversed
<1>6. CASE nfqueue_cb
  <2> DEFINE n == pkt.rounds + 1
             m == IF pkt.listed THEN "reject" ELSE "accept"
  <2>1. pkt' = [pkt EXCEPT !.at = "hook", !.rounds = n, !.mark = m]
    BY <1>6 DEF nfqueue_cb
  <2>2. pkt.at = "queued" /\ n = 1 /\ pkt.chain \in Set /\ pkt.listed \in BOOLEAN
        /\ m \in {"accept", "reject"}
    BY <1>2, <1>6 DEF nfqueue_cb, PacketInv, ListDecides, Packets
  <2> HIDE DEF n, m
  <2>3. /\ pkt' \in Packets /\ pkt'.at = "hook" /\ pkt'.chain = pkt.chain
        /\ pkt'.rounds = 1 /\ pkt'.mark = m /\ pkt'.listed = pkt.listed
    BY <1>2, <2>1, <2>2 DEF Packets
  <2> QED
    BY <2>2, <2>3 DEF PacketInv, ListDecides, m
<1>7. CASE Reboot
  <2>1. pkt' = NoPacket
    BY <1>7 DEF Reboot
  <2>2. NoPacket \in Packets /\ NoPacket.at = "none"
    BY DEF NoPacket, Packets
  <2> QED
    BY <2>1, <2>2 DEF PacketInv, ListDecides
<1>8. ASSUME NEW p \in Procs, Shell(p) PROVE PacketInv'
  <2>1. pkt' = pkt \/ pkt' = Deafened
    BY <1>8 DEF Shell, Exit, CheckStatus, bad_nice_level, start_daemon, killproc, Record,
       Remember, Cat, Mv, Sh, Rm, Create, Insert, Delete, ActivateChain, Deactivate, Flush,
       DeleteChain, FailUnnoticed, Fails
  <2> QED
    BY <1>1, <1>3, <2>1
<1>9. CASE Kill \/ End \/ UNCHANGED vars \/ \E p \in Procs : \E cmd \in Commands(p) : Call(p, cmd)
  BY <1>1, <1>3, <1>9 DEF Kill, End, Call, vars
<1> QED
  BY <1>4, <1>5, <1>6, <1>7, <1>8, <1>9 DEF Next

(* The list decides, whatever happens to the rules and to pgld while a       *)
(* packet is under way: a listed one gets through only if the rules were not *)
(* all there, another one is dropped only if pgld was not listening, and     *)
(* none comes to pgld a second time.                                         *)
THEOREM ListTheorem == Spec => []ListDecides
<1>1. Init => PacketInv
  <2>1. NoPacket \in Packets /\ NoPacket.at = "none"
    BY DEF NoPacket, Packets
  <2> QED
    BY <2>1 DEF Init, PacketInv, ListDecides
<1>2. Spec => [](TypeInv /\ ChainInv /\ PacketInv)
  BY <1>1, InitTypes, NextTypes, InitChain, NextChain, NextPacket, PTL DEF Spec
<1>3. PacketInv => ListDecides
  BY DEF PacketInv
<1> QED
  BY <1>2, <1>3, PTL

-----------------------------------------------------------------------------
(* Active chains are recorded *)

(* A program that neither ends a script nor activates a chain right away.    *)
Quiet(t) == t # <<>> => t[1].do \notin {"rm", "mv", "activate"} \cup Lines

LEMMA QuietSuffices ==
  ASSUME Todo' \in Seq(Instrs), Quiet(Todo'), LinesFiled', JumpsFiled'
  PROVE  RecordInv'
<1> DEFINE t == Todo'
<1>1. t \in Seq(Instrs) /\ Quiet(t) /\ Len(t) \in Nat
  BY LenProperties
<1> HIDE DEF t
<1>2. ASSUME NEW n \in 1 .. Len(t), t[n].do = "rm", \A m \in 1 .. n - 1 : t[m].do \in Lines
      PROVE  FALSE
  <2>1. t # <<>>
    BY <1>1, <1>2
  <2>2. t[1].do # "rm" /\ t[1].do \notin Lines
    BY <1>1, <2>1 DEF Quiet
  <2>3. n # 1
    BY <1>2, <2>2
  <2>4. 1 \in 1 .. n - 1
    BY <1>1, <2>3
  <2> QED
    BY <1>2, <2>2, <2>4
<1>3. RemovesFirst'
  BY <1>2 DEF RemovesFirst, t
<1>4. RemembersFirst'
  <2>1. t # <<>> => t[1].do # "mv" /\ \A c : t[1] # On("activate", c)
    BY <1>1 DEF Quiet, On
  <2> QED
    BY <2>1 DEF RemembersFirst, t
<1> QED
  BY <1>3, <1>4 DEF RecordInv

(* What comes after an instruction that neither executes a script nor puts   *)
(* one together.                                                             *)
LEMMA QuietAfter ==
  ASSUME NEW t \in Seq(Instrs), t # <<>>, InOrder(t), Adjacent(t)
  PROVE  /\ t[1].do \notin Lines \cup {"sh", "cat", "remember"} => Quiet(Tail(t))
         /\ Tail(t) # <<>> => /\ Len(t) > 1 /\ Tail(t)[1] = t[2]
                              /\ Before(t[1], t[2]) /\ Follows(t[1], t[2])
<1> DEFINE s == Tail(t)
<1>1. /\ Len(t) \in Nat /\ Len(s) = Len(t) - 1 /\ s \in Seq(Instrs)
      /\ \A n \in 1 .. Len(t) - 1 : s[n] = t[n + 1]
  BY TailFacts
<1> HIDE DEF s
<1>2. ASSUME s # <<>>
      PROVE  Len(t) > 1 /\ s[1] = t[2] /\ Before(t[1], t[2]) /\ Follows(t[1], t[2])
  <2>1. Len(s) \in Nat \ {0}
    BY <1>1, <1>2, EmptySeq
  <2>2. Len(t) > 1 /\ 1 \in 1 .. Len(t) /\ 2 \in 1 .. Len(t) /\ 1 \in 1 .. Len(t) - 1
        /\ 2 - 1 = 1 /\ 1 + 1 = 2
    BY <1>1, <2>1
  <2>3. Before(t[1], t[2])
    BY <2>2 DEF InOrder
  <2>4. Follows(t[1], t[2])
    BY <2>2 DEF Adjacent
  <2> QED
    BY <1>1, <2>2, <2>3, <2>4
<1>3. ASSUME t[1].do \notin Lines \cup {"sh", "cat", "remember"}, s # <<>>
      PROVE  s[1].do \notin {"rm", "mv", "activate"} \cup Lines
  BY <1>2, <1>3 DEF Before, Follows, On
<1> QED
  BY <1>2, <1>3 DEF Quiet, s

(* A new program is quiet, and has no line of a script. *)
LEMMA RecordAnew ==
  ASSUME RecordInv, Todo' \in Seq(Instrs), Quiet(Todo'),
         \A x \in Range(Todo') : x.do \notin Lines,
         script' = script, tmp' = tmp, \A c \in Set : Owed(c)' => Owed(c)
  PROVE  RecordInv'
<1>1. LinesFiled'
  BY DEF LinesFiled, On, Lines
<1>2. JumpsFiled'
  BY DEF RecordInv, JumpsFiled
<1> QED
  BY <1>1, <1>2, QuietSuffices

(* The steps of pglcmd after which the program is quiet. *)
LEMMA RecordGoesOn ==
  ASSUME TypeInv, RecordInv, Busy("pglcmd"), GoOn("pglcmd"),
         Instr("pglcmd").do \notin Lines \cup {"sh", "cat", "remember"},
         JumpsFiled',
         \A c \in Set : On("D", c) \in Range(Tail(Todo)) => On("D", c) \in Range(script')
  PROVE  RecordInv'
<1>1. /\ Todo \in Seq(Instrs) /\ Todo # <<>> /\ InOrder(Todo) /\ Adjacent(Todo)
      /\ Instr("pglcmd") = Todo[1]
  BY Instruct DEF TypeInv, ProcOK, Busy, Todo, Procs
<1>2. Todo' = Tail(Todo)
  BY Ahead
<1>3. Todo' \in Seq(Instrs) /\ Quiet(Todo')
  BY <1>1, <1>2, QuietAfter, TailFacts
<1>4. LinesFiled'
  BY <1>2 DEF LinesFiled
<1> QED
  BY <1>3, <1>4, QuietSuffices

(* pglcmd at work. *)
LEMMA AtWork ==
  ASSUME TypeInv, NEW p \in Procs, NEW op, At(p, op), op \notin {"if_running", "ensure", "delete"}
  PROVE  /\ p = "pglcmd" /\ Busy("pglcmd") /\ Instr("pglcmd") = Todo[1] /\ Todo[1].do = op
         /\ Todo \in Seq(Instrs) /\ Todo # <<>> /\ InOrder(Todo) /\ Adjacent(Todo)
         /\ Todo[1] \in Instrs /\ Range(Todo) = {Todo[1]} \cup Range(Tail(Todo))
         /\ \A y \in Range(Tail(Todo)) : Before(Todo[1], y)
         /\ Len(Todo) \in Nat \ {0} /\ Len(Tail(Todo)) = Len(Todo) - 1
         /\ \A n \in 1 .. Len(Todo) - 1 : Tail(Todo)[n] = Todo[n + 1]
<1>1. p = "pglcmd"
  BY Instruct DEF At, HookInstrs, Procs
<1>2. /\ Busy("pglcmd") /\ Instr("pglcmd") = Todo[1] /\ Todo[1].do = op
      /\ Todo \in Seq(Instrs) /\ Todo # <<>> /\ InOrder(Todo) /\ Adjacent(Todo)
      /\ Closed(Range(Todo))
  BY <1>1, Instruct DEF At, TypeInv, ProcOK, Busy, Todo
<1> QED
  BY <1>1, <1>2, TailFacts, TailShape

(* cat $REMOVE_SCRIPT >> ${REMOVE_SCRIPT}.tmp: the new file has all lines.   *)
LEMMA RecordCat ==
  ASSUME TypeInv, RecordInv, NEW p \in Procs, Cat(p)
  PROVE  RecordInv'
<1> DEFINE t == Todo
           s == Tail(Todo)
<1>1. /\ At(p, "cat") /\ GoOn(p) /\ tmp' = tmp \o script /\ script' = script
      /\ jump' = jump /\ lost' = lost
  BY DEF Cat, kernel, history
<1>2. /\ p = "pglcmd" /\ Busy(p) /\ t[1].do = "cat" /\ t \in Seq(Instrs) /\ t # <<>>
      /\ InOrder(t) /\ Adjacent(t) /\ Len(t) \in Nat
      /\ Range(t) = {t[1]} \cup Range(s) /\ s \in Seq(Instrs) /\ Len(s) \in Nat
  BY <1>1, AtWork, TailFacts
<1>3. Todo' = s
  BY <1>1, <1>2, Ahead
<1>4. Range(tmp') = Range(tmp) \cup Range(script)
  BY <1>1, RangeConcatenation DEF TypeInv, FilesOK
<1>5. s # <<>> => s[1].do \notin {"rm", "activate"} \cup Lines
  <2>1. s # <<>> => s[1] = t[2] /\ Before(t[1], t[2]) /\ Follows(t[1], t[2])
    BY <1>2, QuietAfter
  <2> QED
    BY <1>2, <2>1 DEF Before, Follows, Lines, On
<1> HIDE DEF s, t
<1>6. LinesFiled'
  BY <1>1, <1>2, <1>3 DEF LinesFiled, RecordInv, t
<1>7. JumpsFiled'
  BY <1>1, <1>4 DEF JumpsFiled, Owed, RecordInv
<1>8. RemovesFirst'
  <2>1. ASSUME NEW n \in 1 .. Len(s), s[n].do = "rm", \A m \in 1 .. n - 1 : s[m].do \in Lines
        PROVE  FALSE
    <3>1. s # <<>>
      BY <1>2, <2>1
    <3>2. n # 1
      BY <1>5, <2>1, <3>1
    <3>3. 1 \in 1 .. n - 1
      BY <1>2, <3>2
    <3> QED
      BY <1>5, <2>1, <3>1, <3>3
  <2> QED
    BY <1>3, <2>1 DEF RemovesFirst
<1>9. RemembersFirst'
  <2>1. s # <<>> => \A c : s[1] # On("activate", c)
    BY <1>5 DEF On
  <2> QED
    BY <1>1, <1>3, <1>4, <2>1 DEF RemembersFirst
<1> QED
  BY <1>6, <1>7, <1>8, <1>9 DEF RecordInv

(* A removal command is remembered right before its rule is inserted. *)
LEMMA RecordRemember ==
  ASSUME TypeInv, RecordInv, NEW p \in Procs, Remember(p)
  PROVE  RecordInv'
<1> DEFINE t == Todo
           s == Tail(Todo)
           d == Instr(p).chain
<1>1. /\ At(p, "remember") /\ GoOn(p) /\ tmp' = Append(tmp, On("D", d))
      /\ script' = script /\ jump' = jump /\ lost' = lost
  BY DEF Remember, kernel, history
<1>2. /\ p = "pglcmd" /\ Busy(p) /\ t[1].do = "remember" /\ t \in Seq(Instrs) /\ t # <<>>
      /\ InOrder(t) /\ Adjacent(t) /\ Len(t) \in Nat /\ t[1] = Instr(p) /\ t[1] \in Instrs
      /\ Range(t) = {t[1]} \cup Range(s) /\ s \in Seq(Instrs) /\ Len(s) \in Nat
  BY <1>1, AtWork, TailFacts
<1>3. Todo' = s
  BY <1>1, <1>2, Ahead
<1>4. d \in Set
  BY <1>2 DEF Instrs, OnChains
<1>5. Range(tmp') = Range(tmp) \cup {On("D", d)}
  <2> DEFINE one == <<On("D", d)>>
  <2>1. On("D", d) \in ScriptLines
    BY <1>4, Words DEF ScriptLines, Lines
  <2>2. tmp \in Seq(ScriptLines)
    BY DEF TypeInv, FilesOK
  <2>3. one \in Seq(ScriptLines) /\ Range(one) = {On("D", d)}
    BY <2>1 DEF Range
  <2>4. tmp' = tmp \o one
    BY <1>1, <2>1, <2>2, AppendIsConcat
  <2> HIDE DEF one
  <2> QED
    BY <2>2, <2>3, <2>4, RangeConcatenation
<1>6. s # <<>> => /\ s[1].do \notin {"rm", "mv"} \cup Lines
                  /\ \A c : s[1] = On("activate", c) => c = d
  <2>1. s # <<>> => s[1] = t[2] /\ Before(t[1], t[2]) /\ Follows(t[1], t[2])
    BY <1>2, QuietAfter
  <2> QED
    BY <1>2, <2>1 DEF Before, Follows, Lines, On
<1> HIDE DEF s, t, d
<1>7. LinesFiled'
  BY <1>1, <1>2, <1>3 DEF LinesFiled, RecordInv, t
<1>8. JumpsFiled'
  BY <1>1, <1>5 DEF JumpsFiled, Owed, RecordInv
<1>9. RemovesFirst'
  <2>1. ASSUME NEW n \in 1 .. Len(s), s[n].do = "rm", \A m \in 1 .. n - 1 : s[m].do \in Lines
        PROVE  FALSE
    <3>1. s # <<>>
      BY <1>2, <2>1
    <3>2. n # 1
      BY <1>6, <2>1, <3>1
    <3>3. 1 \in 1 .. n - 1
      BY <1>2, <3>2
    <3> QED
      BY <1>6, <2>1, <3>1, <3>3
  <2> QED
    BY <1>3, <2>1 DEF RemovesFirst
<1>10. RemembersFirst'
  BY <1>3, <1>5, <1>6 DEF RemembersFirst
<1> QED
  BY <1>7, <1>8, <1>9, <1>10 DEF RecordInv

(* The lines of a script are executed one by one: the one that is next       *)
(* leaves the others in front of "rm".                                       *)
LEMMA RecordLine ==
  ASSUME TypeInv, RecordInv, NEW p \in Procs, NEW op \in Lines, At(p, op), GoOn(p),
         script' = script, tmp' = tmp,
         \A c \in Set : Owed(c)' => Owed(c) /\ Instr(p) # On("D", c)
  PROVE  RecordInv'
<1> DEFINE t == Todo
           s == Tail(Todo)
<1>1. /\ p = "pglcmd" /\ Busy(p) /\ t[1].do \in Lines /\ t \in Seq(Instrs) /\ t # <<>>
      /\ InOrder(t) /\ Adjacent(t) /\ Len(t) \in Nat \ {0} /\ t[1] = Instr(p)
      /\ Range(t) = {t[1]} \cup Range(s) /\ s \in Seq(Instrs)
      /\ Len(s) = Len(t) - 1
      /\ \A n \in 1 .. Len(t) - 1 : s[n] = t[n + 1]
  BY AtWork, TailFacts DEF Lines
<1>2. Todo' = s
  BY <1>1, Ahead
<1>3. s # <<>> => s[1].do # "mv" /\ \A c : s[1] # On("activate", c)
  <2>1. s # <<>> => s[1] = t[2] /\ Follows(t[1], t[2])
    BY <1>1, QuietAfter
  <2> QED
    BY <1>1, <2>1 DEF Follows, Lines, On
<1> HIDE DEF s, t
<1>4. LinesFiled'
  BY <1>1, <1>2 DEF LinesFiled, RecordInv, t
<1>5. JumpsFiled'
  BY DEF JumpsFiled, RecordInv
<1>6. RemembersFirst'
  BY <1>2, <1>3 DEF RemembersFirst
<1>7. ASSUME NEW c \in Set, Owed(c)', NEW n \in 1 .. Len(s), s[n].do = "rm",
             \A m \in 1 .. n - 1 : s[m].do \in Lines
      PROVE  On("D", c) \in Range(tmp) \/ \E m \in 1 .. n - 1 : s[m] = On("D", c)
  <2>1. n + 1 \in 1 .. Len(t) /\ t[n + 1].do = "rm" /\ (n + 1) - 1 = n /\ n \in Nat
    BY <1>1, <1>7
  <2>2. ASSUME NEW m \in 1 .. n PROVE t[m].do \in Lines
    <3>1. CASE m = 1
      BY <1>1, <3>1
    <3>2. CASE m # 1
      <4>1. m - 1 \in 1 .. n - 1 /\ m - 1 \in 1 .. Len(t) - 1 /\ (m - 1) + 1 = m
        BY <1>1, <2>1, <3>2
      <4>2. s[m - 1].do \in Lines
        BY <1>7, <4>1
      <4>3. s[m - 1] = t[m]
        BY <1>1, <4>1
      <4> QED
        BY <4>2, <4>3
    <3> QED
      BY <3>1, <3>2
  <2>3. \/ On("D", c) \in Range(tmp)
        \/ \E m \in 1 .. n : t[m] = On("D", c)
    BY <1>7, <2>1, <2>2 DEF RecordInv, RemovesFirst, t
  <2>4. ASSUME NEW m \in 1 .. n, t[m] = On("D", c)
        PROVE  \E k \in 1 .. n - 1 : s[k] = On("D", c)
    <3>1. m # 1
      BY <1>1, <1>7, <2>4
    <3>2. m - 1 \in 1 .. n - 1 /\ m - 1 \in 1 .. Len(t) - 1 /\ (m - 1) + 1 = m
      BY <1>1, <2>1, <3>1
    <3> QED
      BY <1>1, <2>4, <3>2
  <2> QED
    BY <2>3, <2>4
<1>8. RemovesFirst'
  BY <1>2, <1>7 DEF RemovesFirst
<1> QED
  BY <1>4, <1>5, <1>6, <1>8 DEF RecordInv

(* A script that begins has all its lines before "rm". *)
LEMMA RecordSh ==
  ASSUME TypeInv, RecordInv, NEW p \in Procs, Sh(p)
  PROVE  RecordInv'
<1> DEFINE t == Todo
           s == Tail(Todo)
           u == script \o s
           k == Len(script)
<1>1. At(p, "sh") /\ UNCHANGED <<script, tmp, jump, lost>>
  BY DEF Sh, files, kernel, history
<1>2. /\ p = "pglcmd" /\ Busy(p) /\ t[1].do = "sh" /\ t \in Seq(Instrs) /\ t # <<>>
      /\ InOrder(t) /\ Adjacent(t)
      /\ \A y \in Range(s) : Before(t[1], y)
      /\ s \in Seq(Instrs) /\ Len(s) \in Nat
  BY <1>1, AtWork, TailFacts
<1>3. Todo' = u
  <2> DEFINE v == script \o Tail(proc[p].todo)
  <2>1. proc' = [proc EXCEPT ![p].todo = v]
    BY DEF Sh, TypeInv, ProcOK
  <2> HIDE DEF v
  <2>2. Todo' = v
    BY <1>2, <2>1, TodoAfter
  <2> QED
    BY <1>2, <2>2 DEF v, Todo
<1>4. /\ script \in Seq(ScriptLines) /\ script \in Seq(Instrs) /\ k \in Nat
      /\ \A n \in 1 .. k : script[n].do \in Lines /\ script[n] \in Range(script)
      /\ \A x \in Range(script) : \E n \in 1 .. k : x = script[n]
  <2>1. script \in Seq(ScriptLines) /\ ScriptLines \subseteq Instrs
    BY DEF TypeInv, FilesOK, ScriptLines
  <2>2. script \in Seq(Instrs)
    BY <2>1, SeqMonotonic
  <2>3. \A n \in 1 .. k : script[n] \in ScriptLines
    BY <2>1, ElementOfSeq
  <2> QED
    BY <2>1, <2>2, <2>3, InRange DEF ScriptLines
<1>5. \A y \in Range(s) : y.do \notin Lines
  BY <1>2 DEF Before, Lines
<1>6. s # <<>> => s[1].do # "mv" /\ \A c : s[1] # On("activate", c)
  <2>1. s # <<>> => s[1] = t[2] /\ Follows(t[1], t[2])
    BY <1>2, QuietAfter
  <2> QED
    BY <1>2, <2>1 DEF Follows, On
<1> HIDE DEF s, t
<1>7. /\ u \in Seq(Instrs) /\ Len(u) = k + Len(s)
      /\ \A n \in 1 .. k + Len(s) : u[n] = IF n <= k THEN script[n] ELSE s[n - k]
      /\ Range(u) = Range(script) \cup Range(s)
  <2>1. Range(script \o s) = Range(script) \cup Range(s)
    BY <1>2, <1>4, RangeConcatenation
  <2>2. /\ script \o s \in Seq(Instrs) /\ Len(script \o s) = Len(script) + Len(s)
        /\ \A n \in 1 .. Len(script) + Len(s) :
             (script \o s)[n] = IF n <= Len(script) THEN script[n] ELSE s[n - Len(script)]
    BY <1>2, <1>4, ConcatProperties
  <2> QED
    BY <2>1, <2>2
<1> HIDE DEF u, k
<1>8. LinesFiled'
  <2>1. \A c : On("D", c).do \in Lines
    BY DEF On, Lines
  <2> QED
    BY <1>1, <1>3, <1>5, <1>7, <2>1 DEF LinesFiled
<1>9. JumpsFiled'
  BY <1>1 DEF JumpsFiled, Owed, RecordInv
<1>10. ASSUME NEW c \in Set, Owed(c), NEW n \in 1 .. Len(u), u[n].do = "rm"
       PROVE  On("D", c) \in Range(tmp) \/ \E m \in 1 .. n - 1 : u[m] = On("D", c)
  <2>1. ~(n <= k)
    <3> SUFFICES ASSUME n <= k PROVE FALSE
      OBVIOUS
    <3>1. n \in 1 .. k /\ u[n] = script[n]
      BY <1>2, <1>4, <1>7
    <3>2. script[n].do \in Lines
      BY <1>4, <3>1
    <3> QED
      BY <1>10, <3>1, <3>2 DEF Lines
  <2>2. CASE On("D", c) \in Range(script)
    <3>1. PICK m \in 1 .. k : script[m] = On("D", c)
      BY <1>4, <2>2
    <3>2. m \in 1 .. n - 1 /\ m \in 1 .. k + Len(s) /\ m <= k
      BY <1>2, <1>4, <1>7, <2>1
    <3> QED
      BY <1>7, <3>1, <3>2
  <2>3. CASE On("D", c) \in Range(tmp)
    BY <2>3
  <2> QED
    BY <1>10, <2>2, <2>3 DEF RecordInv, JumpsFiled
<1>11. RemovesFirst'
  BY <1>1, <1>3, <1>10 DEF RemovesFirst, Owed
<1>12. u # <<>> => u[1].do # "mv" /\ \A c : u[1] # On("activate", c)
  <2>1. CASE k > 0
    <3>1. 1 \in 1 .. k /\ 1 \in 1 .. k + Len(s) /\ 1 <= k
      BY <1>2, <1>4, <2>1
    <3>2. u[1].do \in Lines
      BY <1>4, <1>7, <3>1
    <3> QED
      BY <3>2 DEF Lines, On
  <2>2. CASE k = 0
    <3>1. script = <<>>
      BY <1>4, <2>2, EmptySeq DEF k
    <3>2. u = s
      BY <1>2, <3>1, ConcatEmptySeq DEF u
    <3> QED
      BY <1>6, <3>2
  <2> QED
    BY <1>4, <2>1, <2>2
<1>13. RemembersFirst'
  BY <1>3, <1>12 DEF RemembersFirst
<1> QED
  BY <1>8, <1>9, <1>11, <1>13 DEF RecordInv

(* The other steps of the shells. *)
LEMMA ShellRecord ==
  ASSUME TypeInv, ChainInv, RecordInv, NEW p \in Procs, Shell(p)
  PROVE  RecordInv'
<1>1. ProcOK' /\ Todo' \in Seq(Instrs)
  <2>1. [Next]_vars
    BY DEF Next
  <2> QED
    BY <2>1, NextProc DEF ProcOK, Todo, Procs
<1>2. jump \in [Set -> Nat] /\ chain \in [Set -> Seq(Rules)]
  BY Parts DEF KernelOK
<1>3. LinesFiled /\ JumpsFiled /\ RemovesFirst /\ RemembersFirst
  BY DEF RecordInv
<1>4. CASE UNCHANGED <<script, tmp, jump, lost>> /\ Todo' = Todo
  BY <1>4 DEF RecordInv, LinesFiled, JumpsFiled, Owed, RemovesFirst, RemembersFirst
<1>5. ASSUME UNCHANGED <<script, tmp, jump, lost>>,
             NEW t \in {<<>>, delete_iptables, <<Do("cat"), Do("mv")>> \o delete_iptables},
             \/ \E ok : Instead(p, t, ok)
             \/ t = <<>> /\ proc' = [proc EXCEPT ![p] = Idle]
      PROVE  RecordInv'
  <2>1. Todo' = IF p = "pglcmd" THEN t ELSE Todo
    BY <1>5, TodoAfter
  <2>2. Good(t) /\ \A x \in Range(t) : x.do \notin Lines
    BY StopGood, ShortGood
  <2>3. t # <<>> => t[1].do \notin Lines
    BY StopGood DEF Do, Lines
  <2>4. Quiet(t)
    BY <2>2, <2>3 DEF Quiet, Good
  <2>5. CASE p = "pglcmd"
    BY <1>1, <1>5, <2>1, <2>2, <2>4, <2>5, RecordAnew DEF Owed
  <2>6. CASE p # "pglcmd"
    BY <1>4, <1>5, <2>1, <2>6
  <2> QED
    BY <2>5, <2>6
<1>6. ASSUME NEW op, At(p, op), GoOn(p), op \notin Lines \cup {"sh", "cat", "remember"},
             UNCHANGED <<script, tmp, jump, lost>>
      PROVE  RecordInv'
  <2>1. CASE p = "hook"
    BY <1>4, <1>6, <2>1, HookLeaves
  <2>2. CASE p = "pglcmd"
    <3>1. Busy("pglcmd") /\ GoOn("pglcmd") /\ Instr("pglcmd").do = op
      BY <1>6, <2>2 DEF At
    <3>2. JumpsFiled'
      BY <1>3, <1>6 DEF JumpsFiled, Owed
    <3>3. Todo' = Tail(Todo) /\ Range(Todo) = {Instr("pglcmd")} \cup Range(Todo')
      BY <3>1, Ahead
    <3>4. \A c \in Set : On("D", c) \in Range(Tail(Todo)) => On("D", c) \in Range(script')
      BY <1>3, <1>6, <3>3 DEF LinesFiled
    <3> QED
      BY <1>6, <3>1, <3>2, <3>4, RecordGoesOn
  <2> QED
    BY <2>1, <2>2 DEF Procs
<1>7. ASSUME NEW sound, Fails(p, sound) PROVE RecordInv'
  <2> DEFINE t == fail_insert_iptables(proc[p].cmd, Instr(p).rule)
  <2>1. t \in {<<>>, <<Do("cat"), Do("mv")>> \o delete_iptables}
    BY DEF fail_insert_iptables
  <2>2. Instead(p, t, FALSE) /\ UNCHANGED <<script, tmp, jump, lost>>
    BY <1>7 DEF Fails, Give, files, kernel, history
  <2> HIDE DEF t
  <2> QED
    BY <1>5, <2>1, <2>2
<1>8. CASE Exit(p) \/ bad_nice_level(p)
  <2>1. UNCHANGED <<script, tmp, jump, lost>> /\ proc' = [proc EXCEPT ![p] = Idle]
    BY <1>8 DEF Exit, bad_nice_level, files, kernel
  <2> QED
    BY <1>5, <2>1
<1>9. CASE CheckStatus(p)
  <2>1. UNCHANGED <<script, tmp, jump, lost>> /\ (GoOn(p) \/ Instead(p, <<>>, TRUE))
        /\ (At(p, "if_running") \/ At(p, "unless_running"))
    BY <1>9 DEF CheckStatus, files, kernel, history
  <2> QED
    BY <1>5, <1>6, <2>1 DEF Lines
<1>10. CASE start_daemon(p)
  <2>1. UNCHANGED <<script, tmp, jump, lost>> /\ (GoOn(p) \/ Instead(p, delete_iptables, FALSE))
        /\ At(p, "start_daemon")
    BY <1>10 DEF start_daemon, files, kernel, history
  <2> QED
    BY <1>5, <1>6, <2>1 DEF Lines
<1>11. CASE killproc(p)
  BY <1>6, <1>11 DEF killproc, files, kernel, history, Lines
<1>12. CASE Record(p)
  <2> DEFINE d == Instr(p).chain
             two == <<On("F", d), On("X", d)>>
  <2>1. /\ At(p, "record") /\ GoOn(p) /\ script' = script \o two
        /\ UNCHANGED <<tmp, jump, lost>>
    BY <1>12 DEF Record, kernel, history
  <2>2. p = "pglcmd" /\ Busy("pglcmd") /\ GoOn("pglcmd") /\ Instr("pglcmd").do = "record"
    BY <2>1, AtWork DEF At
  <2>3. two \in Seq(ScriptLines)
    <3>1. d \in Set
      BY <2>2, Instruct DEF Instrs, OnChains, Procs
    <3>2. On("F", d) \in ScriptLines /\ On("X", d) \in ScriptLines
      BY <3>1, Words DEF ScriptLines, Lines
    <3> QED
      BY <3>2
  <2> HIDE DEF two
  <2>4. Range(script') = Range(script) \cup Range(two)
    BY <2>1, <2>3, RangeConcatenation DEF TypeInv, FilesOK
  <2>5. JumpsFiled'
    BY <1>3, <2>1, <2>4 DEF JumpsFiled, Owed
  <2>6. Todo' = Tail(Todo) /\ Range(Todo) = {Instr("pglcmd")} \cup Range(Todo')
    BY <2>2, Ahead
  <2>7. \A c \in Set : On("D", c) \in Range(Tail(Todo)) => On("D", c) \in Range(script')
    BY <1>3, <2>4, <2>6 DEF LinesFiled
  <2> QED
    BY <2>2, <2>5, <2>7, RecordGoesOn DEF Lines
<1>13. CASE Mv(p)
  <2>1. /\ At(p, "mv") /\ GoOn(p) /\ script' = (IF tmp = <<>> THEN script ELSE tmp)
        /\ tmp' = <<>> /\ UNCHANGED <<jump, lost>>
    BY <1>13 DEF Mv, kernel, history
  <2>2. /\ p = "pglcmd" /\ Busy("pglcmd") /\ GoOn("pglcmd") /\ Instr("pglcmd").do = "mv"
        /\ Todo # <<>> /\ Todo[1].do = "mv"
    BY <2>1, AtWork DEF At
  <2>3. Range(script) \subseteq Range(tmp)
    BY <1>3, <2>2 DEF RemembersFirst
  <2>4. Range(<<>>) = {}
    BY ShortGood
  <2>5. Range(script) \cup Range(tmp) \subseteq Range(script')
    BY <2>1, <2>3, <2>4
  <2>6. JumpsFiled'
    BY <1>3, <2>1, <2>5 DEF JumpsFiled, Owed
  <2>7. Todo' = Tail(Todo) /\ Range(Todo) = {Instr("pglcmd")} \cup Range(Todo')
    BY <2>2, Ahead
  <2>8. \A c \in Set : On("D", c) \in Range(Tail(Todo)) => On("D", c) \in Range(script')
    BY <1>3, <2>5, <2>7 DEF LinesFiled
  <2> QED
    BY <2>2, <2>6, <2>8, RecordGoesOn DEF Lines
<1>14. CASE Rm(p)
  <2>1. At(p, "rm") /\ GoOn(p) /\ script' = <<>> /\ UNCHANGED <<tmp, jump, lost>>
    BY <1>14 DEF Rm, kernel, history
  <2>2. /\ p = "pglcmd" /\ Busy("pglcmd") /\ GoOn("pglcmd") /\ Instr("pglcmd").do = "rm"
        /\ Todo[1].do = "rm" /\ 1 \in 1 .. Len(Todo)
        /\ \A y \in Range(Tail(Todo)) : Before(Todo[1], y)
    BY <2>1, AtWork DEF At
  <2>3. ASSUME NEW c \in Set, Owed(c) PROVE On("D", c) \in Range(tmp)
    BY <1>3, <2>2, <2>3 DEF RemovesFirst
  <2>4. JumpsFiled'
    BY <2>1, <2>3 DEF JumpsFiled, Owed
  <2>5. \A c \in Set : On("D", c) \notin Range(Tail(Todo))
    BY <2>2 DEF Before, Lines, On
  <2> QED
    BY <2>2, <2>4, <2>5, RecordGoesOn DEF Lines
<1>15. CASE Create(p)
  <2>1. /\ At(p, "create")
        /\ \/ GoOn(p) /\ UNCHANGED <<script, tmp, jump, lost>>
           \/ Fails(p, Instr(p).chain \notin made)
    BY <1>15 DEF Create, files, history
  <2> QED
    BY <1>6, <1>7, <2>1 DEF Lines
<1>16. CASE Insert(p)
  <2>1. /\ At(p, "insert") \/ At(p, "ensure")
        /\ \/ GoOn(p) /\ UNCHANGED <<script, tmp, jump, lost>>
           \/ Fails(p, Instr(p).chain \in made)
    BY <1>16 DEF Insert, files, history
  <2> QED
    BY <1>6, <1>7, <2>1 DEF Lines
<1>17. CASE Delete(p)
  <2>1. /\ At(p, "delete")
        /\ \/ GoOn(p) /\ UNCHANGED <<script, tmp, jump, lost>>
           \/ Fails(p, TRUE)
    BY <1>17 DEF Delete, files, history
  <2> QED
    BY <1>6, <1>7, <2>1 DEF Lines
<1>18. CASE ActivateChain(p)
  <2> DEFINE d == Instr(p).chain
  <2>1. /\ At(p, "activate")
        /\ \/ /\ GoOn(p) /\ UNCHANGED <<script, tmp, lost>>
              /\ jump' = [jump EXCEPT ![d] = @ + 1]
           \/ Fails(p, d \in made)
    BY <1>18 DEF ActivateChain, files, history
  <2>2. /\ p = "pglcmd" /\ Busy("pglcmd") /\ Instr("pglcmd").do = "activate"
        /\ Todo # <<>> /\ Todo[1] = Instr(p) /\ Todo[1] \in Instrs
    BY <2>1, AtWork DEF At
  <2>3. ASSUME GoOn(p), UNCHANGED <<script, tmp, lost>>, jump' = [jump EXCEPT ![d] = @ + 1]
        PROVE  RecordInv'
    <3>1. Todo[1] = On("activate", d) /\ d \in Set
      BY <2>2 DEF Instrs, Instruction, Inserting, OnChains, On
    <3>2. On("D", d) \in Range(script) \cup Range(tmp)
      BY <1>3, <2>2, <3>1 DEF RemembersFirst
    <3>3. \A c \in Set : c # d => jump'[c] = jump[c]
      BY <1>2, <2>3
    <3> HIDE DEF d
    <3>4. JumpsFiled'
      BY <1>3, <2>3, <3>2, <3>3 DEF JumpsFiled, Owed
    <3>5. Todo' = Tail(Todo) /\ Range(Todo) = {Instr("pglcmd")} \cup Range(Todo')
      BY <2>2, <2>3, Ahead
    <3>6. \A c \in Set : On("D", c) \in Range(Tail(Todo)) => On("D", c) \in Range(script')
      BY <1>3, <2>3, <3>5 DEF LinesFiled
    <3> QED
      BY <2>2, <2>3, <3>4, <3>6, RecordGoesOn DEF Lines
  <2> QED
    BY <1>7, <2>1, <2>3
<1>19. CASE Deactivate(p)
  <2> DEFINE d == Instr(p).chain
  <2>1. /\ At(p, "D") /\ GoOn(p) /\ UNCHANGED <<script, tmp>>
        /\ jump' = [jump EXCEPT ![d] = IF @ > 0 THEN @ - 1 ELSE 0]
        /\ lost' = lost \ {Instr(p)}
    BY <1>19 DEF Deactivate, Executed, files
  <2>2. ASSUME NEW c \in Set, Owed(c)'
        PROVE  Owed(c) /\ Instr(p) # On("D", c)
    <3>1. jump[c] \in {0, 1}
      BY DEF ChainInv, ActiveIsReady
    <3>2. c # d
      BY <1>2, <2>1, <2>2, <3>1 DEF Owed
    <3>3. jump'[c] = jump[c]
      BY <1>2, <2>1, <3>2
    <3>4. Instr(p) # On("D", c)
      BY <3>2 DEF On
    <3> QED
      BY <2>1, <2>2, <3>3, <3>4 DEF Owed
  <2> QED
    BY <2>1, <2>2, RecordLine DEF Lines
<1>21. CASE FailUnnoticed(p)
  <2>1. PICK op \in Lines : At(p, op)
    BY <1>21 DEF FailUnnoticed, Lines
  <2>2. GoOn(p) /\ UNCHANGED <<script, tmp, jump>> /\ lost' = lost \cup {Instr(p)}
    BY <1>21 DEF FailUnnoticed, files, kernel
  <2>3. ASSUME NEW c \in Set, Owed(c)' PROVE Owed(c) /\ Instr(p) # On("D", c)
    BY <2>2, <2>3 DEF Owed
  <2> QED
    BY <2>1, <2>2, <2>3, RecordLine
<1>20. CASE Flush(p) \/ DeleteChain(p)
  <2>1. PICK op \in {"F", "X"} : At(p, op)
    BY <1>20 DEF Flush, DeleteChain
  <2>2. GoOn(p) /\ UNCHANGED <<script, tmp, jump>> /\ lost' = lost \ {Instr(p)}
    BY <1>20 DEF Flush, DeleteChain, Executed, files
  <2>3. \A c : Instr(p) # On("D", c)
    BY <2>1 DEF At, On
  <2>4. \A c \in Set : Owed(c)' => Owed(c)
    BY <2>2, <2>3 DEF Owed
  <2> QED
    BY <2>1, <2>2, <2>3, <2>4, RecordLine DEF Lines
<1> QED
  BY <1>8, <1>9, <1>10, <1>11, <1>12, <1>13, <1>14, <1>15, <1>16, <1>17, <1>18, <1>19, <1>20,
     <1>21, RecordCat, RecordRemember, RecordSh DEF Shell

LEMMA NextRecord == TypeInv /\ ChainInv /\ RecordInv /\ [Next]_vars => RecordInv'
<1> SUFFICES ASSUME TypeInv, ChainInv, RecordInv, [Next]_vars
             PROVE  RecordInv'
  OBVIOUS
<1>1. ProcOK' /\ Todo' \in Seq(Instrs)
  BY NextProc DEF ProcOK, Todo, Procs
<1>2. LinesFiled /\ JumpsFiled /\ RemovesFirst /\ RemembersFirst
  BY DEF RecordInv
<1>3. CASE UNCHANGED <<script, tmp, jump, lost>> /\ Todo' = Todo
  BY <1>3 DEF RecordInv, LinesFiled, JumpsFiled, Owed, RemovesFirst, RemembersFirst
<1>4. ASSUME NEW p \in Procs, Shell(p) PROVE RecordInv'
  BY <1>4, ShellRecord
<1>5. ASSUME NEW p \in Procs, NEW cmd \in Commands(p), Call(p, cmd) PROVE RecordInv'
  <2> DEFINE t == Program(cmd, conf)
  <2>1. UNCHANGED <<script, tmp, jump, lost>>
    BY <1>5 DEF Call, files, kernel, history
  <2>2. Todo' = IF p = "pglcmd" THEN t ELSE Todo
    <3>1. proc \in [Procs -> [cmd : Cmds, todo : Seq(Instrs), ok : BOOLEAN]] /\ "pglcmd" \in Procs
      BY DEF TypeInv, ProcOK, Procs
    <3>2. proc' = [proc EXCEPT ![p] = [cmd |-> cmd, todo |-> t, ok |-> TRUE]]
      BY <1>5 DEF Call
    <3> HIDE DEF t
    <3> QED
      BY <3>1, <3>2 DEF Todo
  <2>3. CASE p = "pglcmd"
    <3>1. cmd \in Starters \cup Configures \cup {"stop"}
      BY <1>5, <2>3 DEF Commands
    <3>2. conf \in BOOLEAN /\ (cmd = "restart_not_wd" => "repair" \in may)
      BY <1>5, Parts DEF Call, OthersOK
    <3>3. t \in Seq(Instrs) /\ Good(t) /\ \A x \in Range(t) : x.do \notin Lines
      BY <3>1, <3>2, ProgramGood
    <3> HIDE DEF t
    <3>4. t # <<>> => t[1] \in Range(t)
      BY <3>3, TailFacts
    <3>5. Quiet(t)
      BY <3>3, <3>4 DEF Quiet, Good
    <3> QED
      BY <1>1, <2>1, <2>2, <2>3, <3>3, <3>5, RecordAnew DEF Owed
  <2>4. CASE p # "pglcmd"
    BY <1>3, <2>1, <2>2, <2>4
  <2> QED
    BY <2>3, <2>4
<1>6. CASE Kill \/ Reboot
  <2>1. Todo' = <<>> /\ UNCHANGED <<script, tmp>>
    <3>1. CASE Kill
      <4>1. UNCHANGED <<script, tmp>> /\ proc' = [proc EXCEPT !["pglcmd"] = Idle]
        BY <3>1 DEF Kill, files
      <4>2. "pglcmd" \in Procs
        BY DEF Procs
      <4> QED
        BY <4>1, <4>2, TodoAfter
    <3>2. CASE Reboot
      BY <3>2 DEF Reboot, files, Todo, Procs, Idle
    <3> QED
      BY <1>6, <3>1, <3>2
  <2>2. \A c \in Set : Owed(c)' => Owed(c)
    BY <1>6 DEF Kill, Reboot, kernel, Owed
  <2>3. Range(<<>>) = {} /\ Quiet(<<>>)
    BY ShortGood DEF Quiet
  <2> QED
    BY <1>1, <2>1, <2>2, <2>3, RecordAnew
<1> QED
  BY <1>3, <1>4, <1>5, <1>6
     DEF Next, vars, kernel, files, history, End, Arrive, Traverse, nfqueue_cb, Todo

LEMMA InitRecord == Init => RecordInv
<1>1. Init => Todo = <<>> /\ script = <<>> /\ \A c \in Set : jump[c] = 0
  BY DEF Init, Todo, Procs, Idle
<1>2. Range(<<>>) = {} /\ Len(<<>>) = 0
  BY ShortGood
<1> QED
  BY <1>1, <1>2 DEF RecordInv, LinesFiled, JumpsFiled, Owed, RemovesFirst, RemembersFirst

(* Whatever fails or dies when: a rule that sends packets to pgld is removed *)
(* by a line of one of the two files, or of a script under way, unless just  *)
(* that line was executed and failed.                                        *)
THEOREM JumpsTheorem == Spec => []JumpsRecorded
<1>1. Spec => [](TypeInv /\ ChainInv /\ RecordInv)
  BY InitTypes, NextTypes, InitChain, NextChain, InitRecord, NextRecord, PTL DEF Spec
<1>2. TypeInv /\ RecordInv => JumpsRecorded
  <2> SUFFICES ASSUME TypeInv, RecordInv, NEW c \in Set, jump[c] > 0, On("D", c) \notin lost
               PROVE  Recorded(c)
    BY DEF JumpsRecorded
  <2>1. On("D", c) \in Range(script) \cup Range(tmp)
    BY DEF RecordInv, JumpsFiled, Owed
  <2>2. script \in Seq(Instruction) /\ tmp \in Seq(Instruction) /\ Todo \in Seq(Instruction)
    BY DEF TypeInv, TypeOK, Todo, Procs
  <2>3. /\ script \o tmp \in Seq(Instruction)
        /\ Range(script \o tmp) = Range(script) \cup Range(tmp)
    BY <2>2, ConcatProperties, RangeConcatenation
  <2> DEFINE u == script \o tmp
  <2>4. u \in Seq(Instruction) /\ Range(u) = Range(script) \cup Range(tmp)
    BY <2>3
  <2> HIDE DEF u
  <2>5. Range(u \o Todo) = Range(u) \cup Range(Todo)
    BY <2>2, <2>4, RangeConcatenation
  <2> QED
    BY <2>1, <2>4, <2>5 DEF Recorded, Todo, u
<1> QED
  BY <1>1, <1>2, PTL
-----------------------------------------------------------------------------
(* The order of a program, more closely *)

Ending == {"remember", "activate", "cat"}
Going == Ending \cup {"sh"} \cup Lines

(* c comes before d in CHAINS. *)
Sooner(c, d) == \E m, n \in 1 .. Len(Chains) : m < n /\ Chains[m] = c /\ Chains[n] = d

PortRule(c) == Rule("insert", c, "port")

(* What x leaves to do may contain y, too: pgld is started last and ended    *)
(* first, a chain is created when its lines are in the script and before its *)
(* rules are inserted, chain by chain, and each of these happens once.       *)
Later(x, y) ==
  /\ x.do # "start_daemon"
  /\ y.do = "killproc" => x.do \in Clearing
  /\ x.do = "insert" /\ x.rule = "port" => y # x /\ y # On("create", x.chain)
  /\ x.do = "record" => y.do \notin Clearing /\ y # x
  /\ y.do = "record" /\ x.chain = y.chain => x.do \notin {"create", "insert"}
  /\ y.do = "create" => x.rule # "local"
  /\ x.do = "activate" => y.rule # "local"
  /\ x.do = "create" /\ y.do \in {"record", "create"} => Sooner(x.chain, y.chain)

(* What comes right after x: .tmp is moved once it is begun, and removed is  *)
(* the script that was executed.                                             *)
Leads(x, y) ==
  /\ x.do \in Ending => y.do \in Ending \cup {"mv"}
  /\ x.do \in {"sh"} \cup Lines => y.do \in Lines \cup {"rm"}

Late(t) == \A m, n \in 1 .. Len(t) : m < n => Later(t[m], t[n])
Led(t) == \A n \in 1 .. Len(t) : n > 1 => Leads(t[n - 1], t[n])
Ends(t) == t # <<>> => t[Len(t)].do \notin Going
Shape(t) == Late(t) /\ Led(t) /\ Ends(t)

(* Sequences in which any instruction may come after any other. *)
LEMMA AnyOrder ==
  ASSUME NEW t \in Seq(Instrs)
  PROVE  /\ (\A x, y \in Range(t) : Later(x, y)) => Late(t)
         /\ (\A x, y \in Range(t) : Leads(x, y)) => Led(t)
         /\ (\A x \in Range(t) : x.do \notin Going) => Led(t) /\ Ends(t)
<1>1. Len(t) \in Nat /\ \A n \in 1 .. Len(t) : t[n] \in Range(t)
  BY InRange
<1>2. ASSUME NEW n \in 1 .. Len(t), n > 1 PROVE n - 1 \in 1 .. Len(t)
  BY <1>1, <1>2
<1>3. t # <<>> => Len(t) \in 1 .. Len(t)
  BY <1>1, EmptySeq
<1>4. (\A x, y \in Range(t) : Later(x, y)) => Late(t)
  BY <1>1 DEF Late
<1>5. (\A x, y \in Range(t) : Leads(x, y)) => Led(t)
  BY <1>1, <1>2 DEF Led
<1>6. (\A x \in Range(t) : x.do \notin Going) => Ends(t)
  BY <1>1, <1>3 DEF Ends
<1>7. (\A x \in Range(t) : x.do \notin Going) => \A x, y \in Range(t) : Leads(x, y)
  BY DEF Leads, Going
<1> QED
  BY <1>4, <1>5, <1>6, <1>7

LEMMA LateJoined ==
  ASSUME NEW a \in Seq(Instrs), NEW b \in Seq(Instrs), Late(a), Late(b),
         \A x \in Range(a), y \in Range(b) : Later(x, y)
  PROVE  a \o b \in Seq(Instrs) /\ Late(a \o b) /\ Range(a \o b) = Range(a) \cup Range(b)
<1> DEFINE k == Len(a)
           t == a \o b
<1>1. /\ k \in Nat /\ Len(b) \in Nat /\ Len(t) = k + Len(b)
      /\ \A n \in 1 .. k + Len(b) : t[n] = IF n <= k THEN a[n] ELSE b[n - k]
  BY ConcatProperties, LenProperties
<1>2. /\ \A n \in 1 .. k : a[n] \in Range(a)
      /\ \A n \in 1 .. Len(b) : b[n] \in Range(b)
  BY InRange
<1> HIDE DEF t, k
<1>6. t \in Seq(Instrs) /\ Range(t) = Range(a) \cup Range(b)
  BY ConcatProperties, RangeConcatenation DEF t
<1> SUFFICES ASSUME NEW m \in 1 .. Len(t), NEW n \in 1 .. Len(t), m < n
             PROVE  Later(t[m], t[n])
  BY <1>6 DEF Late, t
<1>3. CASE n <= k
  <2>1. m \in 1 .. k /\ n \in 1 .. k /\ t[m] = a[m] /\ t[n] = a[n]
    BY <1>1, <1>3
  <2> QED
    BY <2>1 DEF Late, k
<1>4. CASE m > k
  <2>1. m - k \in 1 .. Len(b) /\ n - k \in 1 .. Len(b) /\ m - k < n - k
    BY <1>1, <1>4
  <2>2. t[m] = b[m - k] /\ t[n] = b[n - k]
    BY <1>1, <1>4
  <2> QED
    BY <2>1, <2>2 DEF Late
<1>5. CASE m <= k /\ n > k
  <2>1. m \in 1 .. k /\ n - k \in 1 .. Len(b) /\ t[m] = a[m] /\ t[n] = b[n - k]
    BY <1>1, <1>5
  <2> QED
    BY <1>2, <2>1
<1> QED
  BY <1>1, <1>3, <1>4, <1>5

LEMMA LedJoined ==
  ASSUME NEW a \in Seq(Instrs), NEW b \in Seq(Instrs), Led(a), Led(b),
         Ends(a) \/ (b # <<>> => \A x \in Range(a) : Leads(x, b[1]))
  PROVE  /\ Led(a \o b)
         /\ Ends(b) /\ (b # <<>> \/ Ends(a)) => Ends(a \o b)
<1> DEFINE k == Len(a)
           t == a \o b
<1>1. /\ k \in Nat /\ Len(b) \in Nat /\ Len(t) = k + Len(b)
      /\ \A n \in 1 .. k + Len(b) : t[n] = IF n <= k THEN a[n] ELSE b[n - k]
  BY ConcatProperties, LenProperties
<1>2. /\ \A n \in 1 .. k : a[n] \in Range(a)
      /\ \A n \in 1 .. Len(b) : b[n] \in Range(b)
  BY InRange
<1>3. /\ b = <<>> => t = a
      /\ a # <<>> => k > 0
      /\ b # <<>> => Len(b) > 0
  BY <1>1, EmptySeq, ConcatEmptySeq
<1> HIDE DEF t, k
<1>4. Led(t)
  <2> SUFFICES ASSUME NEW n \in 1 .. Len(t), n > 1 PROVE Leads(t[n - 1], t[n])
    BY DEF Led
  <2>1. CASE n <= k
    <3>1. n \in 1 .. k /\ n - 1 \in 1 .. k /\ n - 1 \in 1 .. k + Len(b)
      BY <1>1, <2>1
    <3>2. t[n - 1] = a[n - 1] /\ t[n] = a[n]
      BY <1>1, <3>1
    <3> QED
      BY <3>1, <3>2 DEF Led, k
  <2>2. CASE n - 1 > k
    <3>1. n - k \in 1 .. Len(b) /\ n - k > 1 /\ (n - 1) - k = (n - k) - 1
          /\ t[n - 1] = b[(n - 1) - k] /\ t[n] = b[n - k]
      BY <1>1, <2>2
    <3>2. Leads(b[(n - k) - 1], b[n - k])
      BY <3>1 DEF Led
    <3> QED
      BY <3>1, <3>2
  <2>3. CASE n = k + 1
    <3>1. k \in 1 .. k /\ 1 \in 1 .. Len(b) /\ n - 1 = k /\ t[n] = b[1] /\ t[n - 1] = a[k]
      BY <1>1, <2>3
    <3>2. a # <<>>
      BY <3>1, EmptySeq DEF k
    <3>3. CASE Ends(a)
      BY <3>1, <3>2, <3>3 DEF Ends, Leads, Going, k
    <3>4. b # <<>>
      BY <3>1, EmptySeq
    <3> QED
      BY <1>2, <3>1, <3>3, <3>4
  <2> QED
    BY <1>1, <2>1, <2>2, <2>3
<1>5. ASSUME Ends(b), b # <<>> \/ Ends(a) PROVE Ends(t)
  <2>1. CASE b = <<>>
    BY <1>3, <1>5, <2>1
  <2>2. CASE b # <<>>
    <3>1. t[Len(t)] = b[Len(b)]
      BY <1>1, <1>3, <2>2
    <3> QED
      BY <1>5, <2>2, <3>1 DEF Ends
  <2> QED
    BY <2>1, <2>2
<1> QED
  BY <1>4, <1>5 DEF t

LEMMA ShapeJoined ==
  ASSUME NEW a \in Seq(Instrs), NEW b \in Seq(Instrs), Shape(a), Shape(b),
         \A x \in Range(a), y \in Range(b) : Later(x, y)
  PROVE  a \o b \in Seq(Instrs) /\ Shape(a \o b) /\ Range(a \o b) = Range(a) \cup Range(b)
<1>1. Late(a \o b)
  BY LateJoined DEF Shape
<1>2. Led(a \o b) /\ Ends(a \o b)
  BY LedJoined DEF Shape
<1> QED
  BY <1>1, <1>2, LateJoined DEF Shape

(* A loop over the chains takes them in their order. *)
LEMMA ForEachLate ==
  ASSUME NEW lines \in [Set -> Seq(Instrs)], \A c \in Set : Late(lines[c]),
         \A c, d \in Set : Sooner(c, d) =>
            \A x \in Range(lines[c]), y \in Range(lines[d]) : Later(x, y)
  PROVE  Late(ForEach(lines))
<1> DEFINE l == Len(Chains)
           one == lines[Chains[1]]
           second == lines[Chains[2]]
           two == one \o second
           third == lines[Chains[3]]
<1>1. /\ l \in 0 .. 3
      /\ \A n \in 1 .. l : Chains[n] \in Set
      /\ \A m, n \in 1 .. l : m < n => Sooner(Chains[m], Chains[n])
  BY ChainsAreFew DEF Sooner
<1>2. ForEach(lines) =
         IF l = 0 THEN <<>> ELSE IF l = 1 THEN <<>> \o one
         ELSE IF l = 2 THEN (<<>> \o one) \o second
         ELSE ((<<>> \o one) \o second) \o third
  BY ForEachIs
<1>3. CASE l = 0
  <2>1. ForEach(lines) = <<>>
    BY <1>2, <1>3
  <2> QED
    BY <2>1 DEF Late
<1>4. ASSUME l >= 1 PROVE one \in Seq(Instrs) /\ Late(one) /\ <<>> \o one = one
  <2>1. Chains[1] \in Set
    BY <1>1, <1>4
  <2>2. one \in Seq(Instrs) /\ Late(one)
    BY <2>1
  <2> HIDE DEF one
  <2> QED
    BY <2>2, ConcatEmptySeq
<1>5. ASSUME l >= 2
      PROVE  two \in Seq(Instrs) /\ Late(two) /\ Range(two) = Range(one) \cup Range(second)
  <2>1. Chains[1] \in Set /\ Chains[2] \in Set /\ Sooner(Chains[1], Chains[2])
    BY <1>1, <1>5
  <2>2. /\ one \in Seq(Instrs) /\ Late(one) /\ second \in Seq(Instrs) /\ Late(second)
        /\ \A x \in Range(one), y \in Range(second) : Later(x, y)
    BY <2>1
  <2> HIDE DEF one, second
  <2> QED
    BY <2>2, LateJoined
<1>6. ASSUME l = 3 PROVE Late(two \o third)
  <2>1. /\ Chains[1] \in Set /\ Chains[2] \in Set /\ Chains[3] \in Set
        /\ Sooner(Chains[1], Chains[3]) /\ Sooner(Chains[2], Chains[3])
    BY <1>1, <1>6
  <2>2. /\ third \in Seq(Instrs) /\ Late(third)
        /\ \A x \in Range(one), y \in Range(third) : Later(x, y)
        /\ \A x \in Range(second), y \in Range(third) : Later(x, y)
    BY <2>1
  <2>3. two \in Seq(Instrs) /\ Late(two) /\ Range(two) = Range(one) \cup Range(second)
    BY <1>1, <1>5, <1>6
  <2> HIDE DEF one, second, third, two
  <2> QED
    BY <2>2, <2>3, LateJoined
<1> HIDE DEF one, second, third, two
<1>7. CASE l = 1
  BY <1>2, <1>4, <1>7
<1>8. CASE l = 2
  BY <1>2, <1>4, <1>5, <1>8 DEF two
<1>9. CASE l = 3
  BY <1>2, <1>4, <1>6, <1>9 DEF two
<1> QED
  BY <1>1, <1>3, <1>7, <1>8, <1>9

(* What the instructions consist of. *)
LEMMA Fields ==
  /\ \A op : Do(op).do = op /\ Do(op).chain = "-" /\ Do(op).rule = "-"
  /\ \A op, c : On(op, c).do = op /\ On(op, c).chain = c /\ On(op, c).rule = "-"
  /\ \A op, c, r : /\ Rule(op, c, r).do = op /\ Rule(op, c, r).chain = c
                   /\ Rule(op, c, r).rule = r
BY DEF Do, On, Rule

(* One instruction. *)
LEMMA OneShape ==
  ASSUME NEW x \in Instrs
  PROVE  /\ <<x>> \in Seq(Instrs) /\ Range(<<x>>) = {x} /\ Late(<<x>>)
         /\ x.do \notin Going => Shape(<<x>>)
<1> DEFINE t == <<x>>
<1>1. t \in Seq(Instrs) /\ Len(t) = 1 /\ t[1] = x /\ Range(t) = {x}
  BY ShortGood
<1> HIDE DEF t
<1>2. Late(t)
  BY <1>1 DEF Late
<1>3. x.do \notin Going => Led(t) /\ Ends(t)
  BY <1>1, AnyOrder
<1> QED
  BY <1>1, <1>2, <1>3 DEF Shape, t

(* Two instructions, the second of which ends the sequence. *)
LEMMA TwoShape ==
  ASSUME NEW x \in Instrs, NEW y \in Instrs, Later(x, y), Leads(x, y), y.do \notin Going
  PROVE  /\ <<x, y>> \in Seq(Instrs) /\ Range(<<x, y>>) = {x, y} /\ Shape(<<x, y>>)
<1> DEFINE t == <<x, y>>
<1>1. t \in Seq(Instrs) /\ Len(t) = 2 /\ t[1] = x /\ t[2] = y /\ Range(t) = {x, y}
  BY ShortGood
<1> HIDE DEF t
<1>2. Late(t)
  <2> SUFFICES ASSUME NEW m \in 1 .. Len(t), NEW n \in 1 .. Len(t), m < n
               PROVE  Later(t[m], t[n])
    BY DEF Late
  <2>1. m = 1 /\ n = 2
    BY <1>1
  <2> QED
    BY <1>1, <2>1
<1>3. Led(t)
  <2> SUFFICES ASSUME NEW n \in 1 .. Len(t), n > 1 PROVE Leads(t[n - 1], t[n])
    BY DEF Led
  <2>1. n = 2 /\ n - 1 = 1
    BY <1>1
  <2> QED
    BY <1>1, <2>1
<1>4. Ends(t)
  BY <1>1 DEF Ends
<1> QED
  BY <1>1, <1>2, <1>3, <1>4 DEF Shape, t

(* A chain is set up in this order, and the port depends on the settings. *)
LEMMA SetupLate ==
  ASSUME NEW c \in Set, NEW port \in BOOLEAN
  PROVE  /\ Setup(c, port) \in Seq(Instrs) /\ Late(Setup(c, port))
         /\ \A x \in Range(Setup(c, port)) :
              /\ x.chain = c /\ x.do \in {"record", "create", "insert"}
              /\ x.rule \notin {"loop", "local"} /\ (x.rule = "port" => port)
         /\ On("record", c) \in Range(Setup(c, port))
         /\ port => PortRule(c) \in Range(Setup(c, port))
<1> DEFINE rec == On("record", c)
           cre == On("create", c)
           que == Rule("insert", c, "queue")
           lis == Rule("insert", c, "list")
           rej == Rule("insert", c, "reject")
           por == PortRule(c)
           b1 == <<rec>>
           b2 == <<cre>>
           b3 == <<que>>
           b5 == <<lis>>
           b6 == <<rej>>
           ports == Ports(c, port)
           a1 == <<rec, cre>>
           a2 == a1 \o b3
           a3 == a2 \o ports
           a4 == a3 \o b5
           a5 == a4 \o b6
<1>1. /\ rec \in Instrs /\ cre \in Instrs /\ que \in Instrs /\ lis \in Instrs
      /\ rej \in Instrs /\ por \in Instrs
  BY Words DEF Rules, PortRule
<1>2. /\ rec.do = "record" /\ cre.do = "create"
      /\ \A x \in {que, lis, rej, por} : x.do = "insert"
      /\ \A x \in {rec, cre, que, lis, rej, por} : x.chain = c
      /\ rec.rule = "-" /\ cre.rule = "-" /\ que.rule = "queue" /\ lis.rule = "list"
      /\ rej.rule = "reject" /\ por.rule = "port"
  BY Fields DEF PortRule
<1>3. cre = On("create", c)
  OBVIOUS
<1>4. Setup(c, port) = a5
  BY DEF Setup, allow_list, Block
<1>5. ports = IF port THEN <<por>> ELSE <<>>
  BY DEF Ports, PortRule
<1> HIDE DEF rec, cre, que, lis, rej, por
<1>6. a1 \in Seq(Instrs) /\ Late(a1) /\ Range(a1) = {rec, cre}
  <2>1. Later(rec, cre) /\ Leads(rec, cre) /\ cre.do \notin Going
    BY <1>2 DEF Later, Leads, Clearing, Lines, Going, Ending
  <2> QED
    BY <1>1, <2>1, TwoShape DEF Shape
<1>7. /\ b3 \in Seq(Instrs) /\ Late(b3) /\ Range(b3) = {que}
      /\ b5 \in Seq(Instrs) /\ Late(b5) /\ Range(b5) = {lis}
      /\ b6 \in Seq(Instrs) /\ Late(b6) /\ Range(b6) = {rej}
  BY <1>1, OneShape
<1>8. /\ ports \in Seq(Instrs) /\ Late(ports)
      /\ Range(ports) = IF port THEN {por} ELSE {}
  <2>1. <<>> \in Seq(Instrs) /\ Range(<<>>) = {} /\ Late(<<>>)
    BY ShortGood DEF Late
  <2>2. <<por>> \in Seq(Instrs) /\ Range(<<por>>) = {por} /\ Late(<<por>>)
    BY <1>1, OneShape
  <2> QED
    BY <1>5, <2>1, <2>2
<1> HIDE DEF a1, b3, b5, b6, ports
<1>9. \A x \in {rec, cre, que, lis, rej, por}, y \in {que, lis, rej, por} :
         x # y => Later(x, y)
  <2> SUFFICES ASSUME NEW x \in {rec, cre, que, lis, rej, por}, NEW y \in {que, lis, rej, por},
                      x # y
               PROVE  Later(x, y)
    OBVIOUS
  <2>1. y.do = "insert" /\ y.rule # "local" /\ x.rule # "local" /\ x.do # "start_daemon"
        /\ x.do # "activate"
    BY <1>2
  <2>2. y # On("create", x.chain)
    BY <2>1, Fields
  <2> QED
    BY <2>1, <2>2 DEF Later, Clearing, Lines
<1>10. a2 \in Seq(Instrs) /\ Late(a2) /\ Range(a2) = {rec, cre, que}
  <2>1. \A x \in Range(a1), y \in Range(b3) : Later(x, y)
    BY <1>2, <1>6, <1>7, <1>9
  <2> QED
    BY <1>6, <1>7, <2>1, LateJoined
<1> HIDE DEF a2
<1>11. a3 \in Seq(Instrs) /\ Late(a3) /\ Range(a3) = {rec, cre, que} \cup Range(ports)
  <2>1. \A x \in Range(a2), y \in Range(ports) : Later(x, y)
    BY <1>2, <1>8, <1>9, <1>10
  <2> QED
    BY <1>8, <1>10, <2>1, LateJoined
<1> HIDE DEF a3
<1>12. a4 \in Seq(Instrs) /\ Late(a4) /\ Range(a4) = Range(a3) \cup {lis}
  <2>1. \A x \in Range(a3), y \in Range(b5) : Later(x, y)
    BY <1>2, <1>7, <1>8, <1>9, <1>11
  <2> QED
    BY <1>7, <1>11, <2>1, LateJoined
<1> HIDE DEF a4
<1>13. a5 \in Seq(Instrs) /\ Late(a5) /\ Range(a5) = Range(a4) \cup {rej}
  <2>1. \A x \in Range(a4), y \in Range(b6) : Later(x, y)
    BY <1>2, <1>7, <1>8, <1>9, <1>11, <1>12
  <2> QED
    BY <1>7, <1>12, <2>1, LateJoined
<1> HIDE DEF a5
<1>14. Range(a5) = {rec, cre, que, lis, rej} \cup IF port THEN {por} ELSE {}
  BY <1>8, <1>11, <1>12, <1>13
<1>15. \A x \in Range(a5) : /\ x.chain = c /\ x.do \in {"record", "create", "insert"}
                            /\ x.rule \notin {"loop", "local"} /\ (x.rule = "port" => port)
  BY <1>2, <1>14
<1> QED
  BY <1>4, <1>13, <1>14, <1>15 DEF rec, por

(* A start is in order: the old script first, pgld last. *)
LEMMA StartShape ==
  ASSUME NEW cmd \in Starters, NEW port \in BOOLEAN,
         cmd = "restart_not_wd" => "repair" \in may
  PROVE  LET t == do_start(cmd, port)
             R == Range(t)
         IN  /\ t \in Seq(Instrs) /\ Shape(t)
             /\ t # <<>> /\ t[1] = Do("unless_running")
             /\ {Do("start_daemon"), Do("sh"), Do("rm")} \subseteq R
             /\ \A c \in Set :
                  /\ {On("record", c), On("create", c), On("activate", c)} \subseteq R
                  /\ PortRule(c) \in R <=> port
             /\ \A x \in R :
                  /\ x.do \notin {"if_running", "delete", "killproc"} \cup Lines
                  /\ x.do = "ensure" => x.rule # "port"
<1> DEFINE fs == [c \in Set |-> Setup(c, port)]
           fa == [c \in Set |-> Activate(c)]
           s == ForEach(fs)
           w == white_local(cmd)
           a == ForEach(fa)
           un == <<Do("unless_running")>>
           sh == <<Do("sh"), Do("rm")>>
           mv == <<Do("cat"), Do("mv")>>
           st == <<Do("start_daemon")>>
           p1 == sh \o s
           p2 == p1 \o w
           q == a \o mv
           p4 == p2 \o q
           p5 == un \o p4
           p6 == p5 \o st
           T == {x \in Instrs : /\ x.do \in {"record", "create", "insert"}
                                /\ x.rule \notin {"loop", "local"} /\ (x.rule = "port" => port)}
           A == {x \in Instrs : x.do \in {"remember", "activate"}}
<1>1. /\ fs \in [Set -> Seq(Instrs)] /\ fa \in [Set -> Seq(Instrs)]
      /\ \A c \in Set : /\ Good(fs[c])
                        /\ \A x \in Range(fs[c]) : x.chain = c /\ x.do \notin Clearing /\ x \in T
      /\ \A c \in Set : Late(fs[c])
  <2>1. ASSUME NEW c \in Set
        PROVE  /\ Setup(c, port) \in Seq(Instrs) /\ Good(Setup(c, port)) /\ Late(Setup(c, port))
               /\ \A x \in Range(Setup(c, port)) : x.chain = c /\ x.do \notin Clearing /\ x \in T
               /\ Activate(c) \in Seq(Instrs)
    <3>1. Setup(c, port) \in Seq(Instrs) /\ Range(Setup(c, port)) \subseteq Instrs
      BY SetupGood, InRange
    <3>2. \A x \in Range(Setup(c, port)) : x \in T
      BY <3>1, SetupLate
    <3> HIDE DEF T
    <3> QED
      BY <3>1, <3>2, SetupGood, SetupLate, TurnsGood
  <2> HIDE DEF T
  <2> QED
    BY <2>1
<1>2. \A c \in Set : /\ Good(fa[c]) /\ On("activate", c) \in Range(fa[c])
                     /\ \A x \in Range(fa[c]) : x.chain = c /\ x.do \notin Clearing /\ x \in A
  <2> SUFFICES ASSUME NEW c \in Set
      PROVE  /\ Good(fa[c]) /\ On("activate", c) \in Range(fa[c])
             /\ \A x \in Range(fa[c]) : x.chain = c /\ x.do \notin Clearing /\ x \in A
    OBVIOUS
  <2>1. On("remember", c) \in Instrs /\ On("activate", c) \in Instrs
    BY Words
  <2>2. Range(Activate(c)) = {On("remember", c), On("activate", c)}
    BY <2>1, ShortGood DEF Activate
  <2>3. \A x \in Range(Activate(c)) : x \in A
    BY <2>1, <2>2, Fields
  <2> QED
    BY <2>3, TurnsGood
<1>3. \A c \in Set : /\ {On("record", c), On("create", c)} \subseteq Range(fs[c])
                     /\ port => PortRule(c) \in Range(fs[c])
  BY SetupGood, SetupLate
<1>4. \A c \in Set : \A x \in Range(fs[c]) : x.chain = c
  BY <1>1
<1> HIDE DEF fs, fa, T, A
<1>5. /\ s \in Seq(Instrs)
      /\ \A x \in Range(s) : x \in T
      /\ \A c \in Set : Range(fs[c]) \subseteq Range(s)
  BY <1>1, LoopGood
<1>6. /\ a \in Seq(Instrs)
      /\ \A x \in Range(a) : x \in A
      /\ \A c \in Set : Range(fa[c]) \subseteq Range(a)
  BY <1>1, <1>2, LoopGood
<1>7. /\ w \in Seq(Instrs)
      /\ \A x \in Range(w) : x \in Instrs /\ x.do \in Inserting /\ x.rule # "port"
  <2>1. cmd \in Cmds
    BY DEF Cmds
  <2>2. w \in Seq(Instrs) /\ \A x \in Range(w) : x \in Instrs /\ Stage(x) = 3
    BY <2>1, LocalGood, InRange
  <2> QED
    BY <2>2 DEF Stage
<1>8. Late(s)
  <2>1. ASSUME NEW c \in Set, NEW d \in Set, Sooner(c, d),
               NEW x \in Range(fs[c]), NEW y \in Range(fs[d])
        PROVE  Later(x, y)
    <3>1. c # d
      <4>1. DOMAIN Chains = 1 .. Len(Chains)
        BY LenProperties
      <4>2. PICK m, n \in 1 .. Len(Chains) : m < n /\ Chains[m] = c /\ Chains[n] = d
        BY <2>1 DEF Sooner
      <4> QED
        BY <4>1, <4>2
    <3>2. x.chain = c /\ y.chain = d /\ x \in T /\ y \in T
      BY <1>1
    <3>3. y # x /\ y # On("create", x.chain)
      BY <3>1, <3>2, Fields
    <3> QED
      BY <2>1, <3>1, <3>2, <3>3 DEF Later, T, Clearing, Lines
  <2> QED
    BY <1>1, <2>1, ForEachLate
<1>9. do_start(cmd, port) = p6
  <2> HIDE DEF s, w, a
  <2>1. do_start(cmd, port) = (un \o (((sh \o s) \o w) \o a) \o mv) \o st
    BY DEF do_start, insert_iptables, delete_iptables, fs, fa, s, w, a
  <2>2. sh \o s \in Seq(Instrs) /\ mv \in Seq(Instrs)
    <3>1. sh \in Seq(Instrs) /\ mv \in Seq(Instrs)
      BY Words
    <3> QED
      BY <1>5, <3>1, ConcatProperties
  <2>3. p2 \in Seq(Instrs)
    BY <1>7, <2>2, ConcatProperties
  <2>4. (p2 \o a) \o mv = p2 \o (a \o mv)
    BY <1>6, <2>2, <2>3, ConcatAssociative
  <2> QED
    BY <2>1, <2>4
<1>10. /\ un \in Seq(Instrs) /\ Shape(un) /\ Range(un) = {Do("unless_running")}
       /\ sh \in Seq(Instrs) /\ Shape(sh) /\ Range(sh) = {Do("sh"), Do("rm")}
       /\ mv \in Seq(Instrs) /\ Shape(mv) /\ Range(mv) = {Do("cat"), Do("mv")} /\ mv # <<>>
       /\ mv[1] = Do("cat")
       /\ st \in Seq(Instrs) /\ Shape(st) /\ Range(st) = {Do("start_daemon")}
       /\ un # <<>> /\ un[1] = Do("unless_running")
  <2>1. \A op \in {"unless_running", "sh", "rm", "cat", "mv", "start_daemon"} :
          Do(op) \in Instrs /\ Do(op).do = op /\ Do(op).rule = "-"
    BY Words, Fields
  <2>2. /\ Later(Do("sh"), Do("rm")) /\ Leads(Do("sh"), Do("rm"))
        /\ Later(Do("cat"), Do("mv")) /\ Leads(Do("cat"), Do("mv"))
    BY <2>1 DEF Later, Leads, Lines, Clearing, Ending
  <2>3. \A op \in {"unless_running", "rm", "mv", "start_daemon"} : Do(op).do \notin Going
    BY <2>1 DEF Going, Ending, Lines
  <2>4. un # <<>> /\ un[1] = Do("unless_running") /\ mv # <<>> /\ mv[1] = Do("cat")
    OBVIOUS
  <2>5. /\ un \in Seq(Instrs) /\ Shape(un) /\ Range(un) = {Do("unless_running")}
        /\ st \in Seq(Instrs) /\ Shape(st) /\ Range(st) = {Do("start_daemon")}
    BY <2>1, <2>3, OneShape
  <2>6. /\ sh \in Seq(Instrs) /\ Shape(sh) /\ Range(sh) = {Do("sh"), Do("rm")}
        /\ mv \in Seq(Instrs) /\ Shape(mv) /\ Range(mv) = {Do("cat"), Do("mv")}
    BY <2>1, <2>2, <2>3, TwoShape
  <2> QED
    BY <2>4, <2>5, <2>6
<1> HIDE DEF s, w, a, un, sh, mv, st
<1>10a. /\ \A x \in Range(un) : x.do = "unless_running" /\ x.rule = "-"
        /\ \A x \in Range(sh) : x.do \in {"sh", "rm"} /\ x.rule = "-"
        /\ \A x \in Range(mv) : x.do \in {"cat", "mv"} /\ x.rule = "-"
        /\ \A x \in Range(st) : x.do = "start_daemon" /\ x.rule = "-"
  BY <1>10, Fields
<1>11. Shape(s)
  <2>1. \A x \in Range(s) : x.do \notin Going
    BY <1>5 DEF T, Going, Ending, Lines
  <2> QED
    BY <1>5, <1>8, <2>1, AnyOrder DEF Shape
<1>12. Shape(w)
  <2>1. \A x \in Range(w) : x.do \notin Going
    BY <1>7 DEF Inserting, Going, Ending, Lines
  <2>2. \A x, y \in Range(w) : Later(x, y)
    BY <1>7 DEF Later, Inserting
  <2> QED
    BY <1>7, <2>1, <2>2, AnyOrder DEF Shape
<1>13. q \in Seq(Instrs) /\ Shape(q) /\ Range(q) = Range(a) \cup Range(mv)
  <2>1. \A x \in A : x.rule = "-" /\ x.do \in {"remember", "activate"}
    BY DEF A, Instrs, Inserting
  <2>2. \A x \in Range(a), y \in Range(a) \cup Range(mv) : Later(x, y) /\ Leads(x, y)
    BY <1>6, <1>10, <2>1, Fields DEF Later, Leads, Clearing, Lines, Ending
  <2>3. Late(a) /\ Led(a)
    BY <1>6, <2>2, AnyOrder
  <2>4. Led(q) /\ Ends(q)
    <3>1. mv[1] \in Range(mv)
      BY <1>10
    <3> QED
      BY <1>6, <1>10, <2>2, <2>3, <3>1, LedJoined DEF Shape
  <2> QED
    BY <1>6, <1>10, <2>2, <2>3, <2>4, LateJoined DEF Shape
<1> HIDE DEF q
<1>14. p1 \in Seq(Instrs) /\ Shape(p1) /\ Range(p1) = Range(sh) \cup Range(s)
  <2>1. \A x \in Range(sh), y \in Range(s) : Later(x, y)
    BY <1>5, <1>10a DEF Later, T
  <2> QED
    BY <1>5, <1>10, <1>11, <2>1, ShapeJoined
<1> HIDE DEF p1
<1>15. p2 \in Seq(Instrs) /\ Shape(p2) /\ Range(p2) = Range(sh) \cup Range(s) \cup Range(w)
  <2>1. ASSUME NEW x \in Range(s), NEW y \in Range(w) PROVE Later(x, y)
    <3>1. x \in T /\ y.do \in Inserting /\ y.rule # "port"
      BY <1>5, <1>7
    <3>2. y # On("create", x.chain)
      BY <3>1, Fields DEF Inserting
    <3> QED
      BY <3>1, <3>2 DEF Later, T, Inserting, Clearing, Lines
  <2>2. \A x \in Range(sh), y \in Range(w) : Later(x, y)
    BY <1>7, <1>10a DEF Later, Inserting
  <2> QED
    BY <1>7, <1>12, <1>14, <2>1, <2>2, ShapeJoined
<1> HIDE DEF p2
<1>16. /\ p4 \in Seq(Instrs) /\ Shape(p4)
       /\ Range(p4) = Range(sh) \cup Range(s) \cup Range(w) \cup Range(a) \cup Range(mv)
  <2>1. ASSUME NEW y \in Range(q)
        PROVE  y.do \in {"remember", "activate", "cat", "mv"} /\ y.rule = "-"
    <3>1. CASE y \in Range(a)
      <4>1. y \in A
        BY <1>6, <3>1
      <4> QED
        BY <4>1 DEF A, Instrs, Inserting
    <3>2. CASE y \in Range(mv)
      BY <1>10a, <3>2
    <3> QED
      BY <1>13, <3>1, <3>2
  <2>2. \A x \in Range(p2) : /\ x.do \in {"sh", "rm", "record", "create"} \cup Inserting
    BY <1>5, <1>7, <1>10, <1>15, Fields DEF T, Inserting
  <2>3. \A x \in Range(p2), y \in Range(q) : Later(x, y)
    BY <2>1, <2>2, Fields DEF Later, Inserting, Clearing, Lines
  <2>4. p4 \in Seq(Instrs) /\ Shape(p4) /\ Range(p4) = Range(p2) \cup Range(q)
    BY <1>13, <1>15, <2>3, ShapeJoined
  <2> QED
    BY <1>13, <1>15, <2>4
<1> HIDE DEF p4
<1>17. \A x \in Range(p4) :
         /\ x.do \in {"sh", "rm", "record", "create", "remember", "activate", "cat", "mv"}
                       \cup Inserting
         /\ x.do = "ensure" => x.rule # "port"
         /\ x.do = "insert" /\ x.rule = "port" => port
  BY <1>5, <1>6, <1>7, <1>10, <1>16, Fields DEF A, T, Inserting
<1>18. p5 \in Seq(Instrs) /\ Shape(p5) /\ Range(p5) = {Do("unless_running")} \cup Range(p4)
  <2>1. \A x \in Range(un), y \in Range(p4) : Later(x, y)
    BY <1>17, <1>10a DEF Later, Inserting
  <2> QED
    BY <1>10, <1>16, <2>1, ShapeJoined
<1>19. p5 # <<>> /\ p5[1] = Do("unless_running")
  <2>1. Len(un) \in Nat \ {0} /\ Len(p4) \in Nat
    BY <1>10, <1>16, EmptySeq, LenProperties
  <2>2. /\ Len(p5) = Len(un) + Len(p4)
        /\ \A n \in 1 .. Len(un) + Len(p4) : p5[n] = IF n <= Len(un) THEN un[n] ELSE p4[n - Len(un)]
    BY <1>10, <1>16, ConcatProperties
  <2>3. 1 \in 1 .. Len(un) + Len(p4) /\ 1 <= Len(un) /\ Len(p5) # 0
    BY <2>1, <2>2
  <2> QED
    BY <1>10, <1>18, <2>2, <2>3, EmptySeq
<1> HIDE DEF p5
<1>20. p6 \in Seq(Instrs) /\ Shape(p6) /\ Range(p6) = Range(p5) \cup {Do("start_daemon")}
  <2>1. \A x \in Range(p5) :
          x.do \in {"unless_running", "sh", "rm", "record", "create", "remember", "activate",
                    "cat", "mv"} \cup Inserting
    BY <1>17, <1>18, Fields
  <2>2. \A x \in Range(p5) : Later(x, Do("start_daemon"))
    <3>1. \A x : /\ Do("start_daemon") # On("create", x.chain)
                /\ Do("start_daemon").do = "start_daemon"
                /\ Do("start_daemon").rule = "-"
      BY Fields
    <3> QED
      BY <2>1, <3>1 DEF Later, Inserting, Clearing, Lines
  <2>3. \A x \in Range(p5), y \in Range(st) : Later(x, y)
    BY <1>10, <2>2
  <2> HIDE DEF st
  <2> QED
    BY <1>10, <1>18, <2>3, ShapeJoined
<1>21. p6 # <<>> /\ p6[1] = Do("unless_running")
  <2>1. Len(p5) \in Nat \ {0} /\ Len(st) \in Nat
    BY <1>10, <1>18, <1>19, EmptySeq, LenProperties
  <2>2. /\ Len(p6) = Len(p5) + Len(st)
        /\ \A n \in 1 .. Len(p5) + Len(st) : p6[n] = IF n <= Len(p5) THEN p5[n] ELSE st[n - Len(p5)]
    BY <1>10, <1>18, ConcatProperties
  <2>3. 1 \in 1 .. Len(p5) + Len(st) /\ 1 <= Len(p5) /\ Len(p6) # 0
    BY <2>1, <2>2
  <2> QED
    BY <1>19, <1>20, <2>2, <2>3, EmptySeq
<1> HIDE DEF p6
<1>22. {Do("start_daemon"), Do("sh"), Do("rm")} \subseteq Range(p6)
  BY <1>10, <1>16, <1>18, <1>20
<1>23. ASSUME NEW c \in Set
       PROVE  /\ {On("record", c), On("create", c), On("activate", c)} \subseteq Range(p6)
              /\ PortRule(c) \in Range(p6) <=> port
  <2>1. /\ {On("record", c), On("create", c)} \subseteq Range(s)
        /\ On("activate", c) \in Range(a)
        /\ port => PortRule(c) \in Range(s)
    BY <1>2, <1>3, <1>5, <1>6
  <2>2. Range(s) \cup Range(a) \subseteq Range(p6)
    BY <1>16, <1>18, <1>20
  <2>3. PortRule(c) \in Range(p6) => PortRule(c) \in Range(p4)
    BY <1>18, <1>20, Fields DEF PortRule
  <2>4. PortRule(c) \in Range(p4) => port
    BY <1>17, Fields DEF PortRule
  <2> QED
    BY <2>1, <2>2, <2>3, <2>4
<1>24. \A x \in Range(p6) : /\ x.do \notin {"if_running", "delete", "killproc"} \cup Lines
                            /\ x.do = "ensure" => x.rule # "port"
  BY <1>17, <1>18, <1>20, Fields DEF Inserting, Lines
<1> QED
  BY <1>9, <1>20, <1>21, <1>22, <1>23, <1>24


Building(R) == Do("start_daemon") \in R
Changing(R) == \A x \in R : x.do \in {"if_running", "ensure", "delete"}
Steady(R) ==
  \A x \in R : x.do \notin {"if_running", "delete"} /\ (x.do = "ensure" => x.rule # "port")

(* While something is still to be cleared, the whole start is ahead; so is   *)
(* pgld's own start as long as a chain is set up.                            *)
Whole(R) ==
  /\ Building(R) /\ (\E x \in R : x.do \in Clearing) =>
       \A c \in Set : {On("record", c), On("create", c)} \subseteq R
  /\ (\E x \in R : Stage(x) > 0 \/ x.do \in {"record", "remember"}) => Building(R)
  /\ (\E x \in R : x.rule = "local") => \A c \in Set : On("activate", c) \in R

(* What a stop and a failure do. *)
LEMMA StopShape ==
  LET failing == <<Do("cat"), Do("mv")>> \o delete_iptables
  IN  /\ Shape(delete_iptables) /\ Range(delete_iptables) = {Do("sh"), Do("rm")}
      /\ Shape(do_stop) /\ Range(do_stop) = {Do("sh"), Do("rm"), Do("killproc")}
      /\ Shape(failing) /\ Range(failing) = {Do("cat"), Do("mv"), Do("sh"), Do("rm")}
<1> DEFINE sh == <<Do("sh"), Do("rm")>>
           mv == <<Do("cat"), Do("mv")>>
           ki == <<Do("killproc")>>
<1>1. \A op \in {"sh", "rm", "cat", "mv", "killproc"} :
        Do(op) \in Instrs /\ Do(op).do = op /\ Do(op).rule = "-"
  BY Words, Fields
<1>2. /\ Later(Do("sh"), Do("rm")) /\ Leads(Do("sh"), Do("rm"))
      /\ Later(Do("cat"), Do("mv")) /\ Leads(Do("cat"), Do("mv"))
  BY <1>1 DEF Later, Leads, Lines, Clearing, Ending
<1>3. \A op \in {"rm", "mv", "killproc"} : Do(op).do \notin Going
  BY <1>1 DEF Going, Ending, Lines
<1>4. /\ sh \in Seq(Instrs) /\ Shape(sh) /\ Range(sh) = {Do("sh"), Do("rm")}
      /\ mv \in Seq(Instrs) /\ Shape(mv) /\ Range(mv) = {Do("cat"), Do("mv")}
  BY <1>1, <1>2, <1>3, TwoShape
<1>5. ki \in Seq(Instrs) /\ Shape(ki) /\ Range(ki) = {Do("killproc")}
  BY <1>1, <1>3, OneShape
<1>6. /\ delete_iptables = sh
      /\ do_stop = sh \o ki
      /\ <<Do("cat"), Do("mv")>> \o delete_iptables = mv \o sh
  BY DEF delete_iptables, do_stop
<1> HIDE DEF sh, mv, ki
<1>7. \A x \in Range(sh), y \in Range(ki) : Later(x, y)
  BY <1>1, <1>4, <1>5 DEF Later, Clearing
<1>8. \A x \in Range(mv), y \in Range(sh) : Later(x, y)
  BY <1>1, <1>4 DEF Later, Clearing
<1>9. Shape(sh \o ki) /\ Range(sh \o ki) = Range(sh) \cup Range(ki)
  BY <1>4, <1>5, <1>7, ShapeJoined
<1>10. Shape(mv \o sh) /\ Range(mv \o sh) = Range(mv) \cup Range(sh)
  BY <1>4, <1>8, ShapeJoined
<1> QED
  BY <1>4, <1>5, <1>6, <1>9, <1>10

(* A configure run puts the port in every chain, or takes it out of each. *)
LEMMA ChangeShape ==
  ASSUME NEW cmd \in Configures, NEW port \in BOOLEAN
  PROVE  LET t == Program(cmd, port)
             op == IF cmd = "allow" THEN "ensure" ELSE "delete"
         IN  /\ t \in Seq(Instrs) /\ t # <<>> /\ t[1] = Do("if_running") /\ Shape(t)
             /\ \A x \in Range(t) : x = Do("if_running") \/ (x.do = op /\ x.rule = "port")
             /\ \A c \in Set : Rule(op, c, "port") \in Range(t)
<1> DEFINE op == IF cmd = "allow" THEN "ensure" ELSE "delete"
           f == [c \in Set |-> Change(cmd, c)]
           a == ForEach(f)
           b == <<Do("if_running")>>
           S == {x \in HookInstrs : x.do = op /\ x.rule = "port"}
<1>1. Do("if_running") \in Instrs /\ Do("if_running").do = "if_running"
      /\ HookInstrs \subseteq Instrs
  BY Words
<1>2. \A c \in Set : Rule(op, c, "port") \in S
  BY Words, Fields
<1>3. /\ f \in [Set -> Seq(Instrs)]
      /\ \A c \in Set : /\ Good(f[c])
                        /\ \A x \in Range(f[c]) : x.chain = c /\ x.do \notin Clearing /\ x \in S
                        /\ Rule(op, c, "port") \in Range(f[c])
  <2>1. ASSUME NEW c \in Set
        PROVE  /\ Change(cmd, c) \in Seq(Instrs) /\ Good(Change(cmd, c))
               /\ \A x \in Range(Change(cmd, c)) : x.chain = c /\ x.do \notin Clearing /\ x \in S
               /\ Rule(op, c, "port") \in Range(Change(cmd, c))
    <3> HIDE DEF S
    <3>1. Change(cmd, c) = <<Rule(op, c, "port")>>
      BY DEF Change
    <3>2. Rule(op, c, "port") \in Instrs
      BY <1>1, <1>2 DEF S
    <3>3. Range(Change(cmd, c)) = {Rule(op, c, "port")}
      BY <3>1, <3>2, ShortGood
    <3> QED
      BY <1>2, <3>3, TurnsGood
  <2> HIDE DEF S, op
  <2> QED
    BY <2>1
<1> HIDE DEF f, S, op
<1>4. /\ a \in Seq(Instrs)
      /\ \A x \in Range(a) : x \in S
      /\ \A c \in Set : Range(f[c]) \subseteq Range(a)
  BY <1>3, LoopGood
<1> HIDE DEF a
<1>5. \A x \in Range(a) : x.do = op /\ x.rule = "port" /\ op \in {"ensure", "delete"}
  BY <1>4 DEF S, op
<1>6. Shape(a)
  <2>1. \A x \in Range(a) : x.do \notin Going
    BY <1>5 DEF Going, Ending, Lines
  <2>2. \A x, y \in Range(a) : Later(x, y)
    BY <1>5 DEF Later
  <2> QED
    BY <1>4, <2>1, <2>2, AnyOrder DEF Shape
<1>7. b \in Seq(Instrs) /\ Shape(b) /\ Range(b) = {Do("if_running")}
  <2>1. Do("if_running").do \notin Going
    BY <1>1 DEF Going, Ending, Lines
  <2> QED
    BY <1>1, <2>1, OneShape
<1>8. b \o a \in Seq(Instrs) /\ Shape(b \o a) /\ Range(b \o a) = {Do("if_running")} \cup Range(a)
  <2>1. \A x \in Range(b), y \in Range(a) : Later(x, y)
    <3>1. Do("if_running").rule = "-"
      BY Fields
    <3> QED
      BY <1>1, <1>5, <1>7, <3>1 DEF Later
  <2> QED
    BY <1>4, <1>6, <1>7, <2>1, ShapeJoined
<1>9. b \o a # <<>> /\ (b \o a)[1] = Do("if_running")
  <2>1. Len(b) = 1 /\ b[1] = Do("if_running") /\ Len(a) \in Nat
    BY <1>4, LenProperties
  <2>2. /\ Len(b \o a) = Len(b) + Len(a)
        /\ \A n \in 1 .. Len(b) + Len(a) : (b \o a)[n] = IF n <= Len(b) THEN b[n] ELSE a[n - Len(b)]
    BY <1>4, <1>7, ConcatProperties
  <2> HIDE DEF b
  <2>3. 1 \in 1 .. Len(b) + Len(a) /\ 1 <= Len(b) /\ Len(b \o a) # 0
    BY <2>1, <2>2
  <2> QED
    BY <1>8, <2>1, <2>2, <2>3, EmptySeq
<1>10. Program(cmd, port) = b \o a
  BY DEF Program, configure, Configures, Starters, a, f
<1>11. \A c \in Set : Rule(op, c, "port") \in Range(b \o a)
  BY <1>3, <1>4, <1>8
<1> HIDE DEF b
<1> QED
  BY <1>5, <1>8, <1>9, <1>10, <1>11 DEF op


(* Every program of pglcmd. *)
LEMMA ProgramShape ==
  ASSUME NEW cmd \in Starters \cup Configures \cup {"stop"}, NEW port \in BOOLEAN,
         cmd = "restart_not_wd" => "repair" \in may
  PROVE  LET t == Program(cmd, port)
             R == Range(t)
         IN  /\ Shape(t) /\ Whole(R) /\ t # <<>>
             /\ t[1].do \notin Lines \cup {"rm", "mv", "activate"}
             /\ cmd \in Starters =>
                  /\ Steady(R) /\ {Do("sh"), Do("rm"), Do("start_daemon")} \subseteq R
                  /\ \A c \in Set :
                       /\ {On("record", c), On("create", c), On("activate", c)} \subseteq R
                       /\ PortRule(c) \in R <=> port
                  /\ Do("killproc") \in R \/ t[1] = Do("unless_running")
             /\ cmd = "stop" => R = {Do("sh"), Do("rm"), Do("killproc")}
             /\ cmd \in Configures =>
                  LET op == IF cmd = "allow" THEN "ensure" ELSE "delete"
                  IN  /\ \A x \in R : x = Do("if_running") \/ (x.do = op /\ x.rule = "port")
                      /\ \A c \in Set : Rule(op, c, "port") \in R
<1>1. /\ Program(cmd, port) \in Seq(Instrs) /\ Good(Program(cmd, port))
      /\ \A x \in Range(Program(cmd, port)) : x.do \notin Lines
      /\ Program(cmd, port) # <<>> => /\ Program(cmd, port)[1] \in Range(Program(cmd, port))
                                      /\ Program(cmd, port)[1].do \notin {"rm", "mv", "activate"}
  <2> DEFINE t == Program(cmd, port)
  <2>1. t \in Seq(Instrs) /\ Good(t) /\ \A x \in Range(t) : x.do \notin Lines
    BY ProgramGood
  <2> HIDE DEF t
  <2>2. t # <<>> => t[1] \in Range(t)
    BY <2>1, TailFacts
  <2> QED
    BY <2>1, <2>2 DEF Good, t
<1>2. CASE cmd \in Configures
  <2> DEFINE t == Program(cmd, port)
             op == IF cmd = "allow" THEN "ensure" ELSE "delete"
             R == Range(t)
  <2>1. /\ t # <<>> /\ Shape(t)
        /\ \A x \in R : x = Do("if_running") \/ (x.do = op /\ x.rule = "port")
        /\ \A c \in Set : Rule(op, c, "port") \in R
    BY <1>2, ChangeShape
  <2>2. op \in {"ensure", "delete"}
    OBVIOUS
  <2> HIDE DEF t, op, R
  <2>3. \A x \in R : x.do \in {"if_running", "ensure", "delete"} /\ x.rule \in {"-", "port"}
    BY <2>1, <2>2, Fields
  <2>4. \A x \in R : Stage(x) = 0
    BY <2>3 DEF Stage, Inserting
  <2>5. Whole(R)
    <3>1. Do("start_daemon") \notin R
      BY <2>3, Fields
    <3> QED
      BY <2>3, <2>4, <3>1 DEF Whole, Building
  <2>6. cmd \notin Starters /\ cmd # "stop"
    BY <1>2 DEF Configures, Starters
  <2> QED
    BY <1>1, <2>1, <2>5, <2>6 DEF t, op, R
<1>3. /\ Shape(do_stop) /\ Range(do_stop) = {Do("sh"), Do("rm"), Do("killproc")}
      /\ do_stop \in Seq(Instrs)
      /\ \A x \in Range(do_stop) : /\ x.do \in {"sh", "rm", "killproc"} /\ x.rule = "-"
                                   /\ Stage(x) = 0
  <2>1. /\ Shape(do_stop) /\ Range(do_stop) = {Do("sh"), Do("rm"), Do("killproc")}
        /\ do_stop \in Seq(Instrs)
    BY StopShape, StopGood
  <2>2. \A op \in {"sh", "rm", "killproc"} :
          Do(op).do = op /\ Do(op).rule = "-" /\ Stage(Do(op)) = 0
    BY Words, Fields
  <2> QED
    BY <2>1, <2>2
<1>4. CASE cmd = "stop"
  <2>1. Program(cmd, port) = do_stop
    BY <1>4 DEF Program, Starters, Configures
  <2>2. do_stop # <<>>
    BY <1>3, ShortGood
  <2>3. Whole(Range(do_stop))
    <3>1. Do("start_daemon") \notin Range(do_stop)
      BY <1>3, Fields
    <3> QED
      BY <1>3, <3>1 DEF Whole, Building
  <2> QED
    BY <1>1, <1>3, <1>4, <2>1, <2>2, <2>3 DEF Starters, Configures
<1>5. CASE cmd \in Starters
  <2> DEFINE s == do_start(cmd, port)
             R == Range(s)
  <2>1. /\ s \in Seq(Instrs) /\ Shape(s)
        /\ s # <<>> /\ s[1] = Do("unless_running")
        /\ {Do("start_daemon"), Do("sh"), Do("rm")} \subseteq R
        /\ \A c \in Set :
             /\ {On("record", c), On("create", c), On("activate", c)} \subseteq R
             /\ PortRule(c) \in R <=> port
        /\ \A x \in R : /\ x.do \notin {"if_running", "delete", "killproc"} \cup Lines
                        /\ x.do = "ensure" => x.rule # "port"
    BY <1>5, StartShape
  <2> HIDE DEF s, R
  <2>2. Whole(R) /\ Steady(R)
    BY <2>1 DEF Whole, Steady, Building
  <2>3. CASE cmd = "start"
    <3>1. Program(cmd, port) = s
      BY <2>3 DEF Program, Configures, s
    <3> QED
      BY <1>1, <1>5, <2>1, <2>2, <3>1 DEF R, Starters, Configures
  <2>4. CASE cmd # "start"
    <3> DEFINE t == do_stop \o s
               Q == Range(t)
    <3>1. Program(cmd, port) = t
      BY <1>5, <2>4 DEF Program, Starters, Configures, s
    <3>2. \A x \in Range(do_stop), y \in R : Later(x, y)
      BY <1>3, <2>1 DEF Later
    <3>3. t \in Seq(Instrs) /\ Shape(t) /\ Q = Range(do_stop) \cup R
      BY <1>3, <2>1, <3>2, ShapeJoined DEF R
    <3> HIDE DEF t, Q
    <3>4. R \subseteq Q /\ Do("killproc") \in Q
      BY <1>3, <3>3
    <3>5. \A c \in Set : PortRule(c) \in Q <=> port
      <4>1. \A c \in Set : PortRule(c).do = "insert"
        BY Fields DEF PortRule
      <4> QED
        BY <1>3, <2>1, <3>3, <4>1
    <3>6. Whole(Q)
      BY <2>1, <3>4 DEF Whole, Building
    <3>7. Steady(Q)
      BY <1>3, <2>2, <3>3 DEF Steady
    <3>8. t # <<>>
      <4>1. Range(<<>>) = {}
        BY ShortGood
      <4> QED
        BY <3>4, <4>1 DEF Q
    <3>9. cmd \notin Configures \cup {"stop"}
      BY <1>5 DEF Starters, Configures
    <3>10. Shape(t) /\ Whole(Q) /\ t # <<>> /\ t[1].do \notin Lines \cup {"rm", "mv", "activate"}
      BY <1>1, <3>1, <3>3, <3>6, <3>8
    <3>11. /\ Steady(Q) /\ {Do("sh"), Do("rm"), Do("start_daemon")} \subseteq Q
           /\ \A c \in Set :
                /\ {On("record", c), On("create", c), On("activate", c)} \subseteq Q
                /\ PortRule(c) \in Q <=> port
           /\ Do("killproc") \in Q
      BY <2>1, <3>4, <3>5, <3>7
    <3> QED
      BY <3>1, <3>9, <3>10, <3>11 DEF Q
  <2> QED
    BY <2>3, <2>4
<1> QED
  BY <1>2, <1>4, <1>5


-----------------------------------------------------------------------------
(* The steps, as pglcmd sees them *)

Cmd == proc["pglcmd"].cmd
Fine == proc["pglcmd"].ok

Queued(c) == "queue" \in Range(chain[c])

(* Only behaviours that have the hook have it do something. *)
HookIdle == "hook" \notin may => proc["hook"] = Idle

Begins(cmd) ==
  /\ Cmd = "none" /\ Todo = <<>> /\ Fine
  /\ cmd \in Starters \cup Configures \cup {"stop"}
  /\ cmd = "restart_not_wd" => "repair" \in may
  /\ Cmd' = cmd /\ Todo' = Program(cmd, conf) /\ Fine'
  /\ conf' = configure_permanent(cmd)
  /\ UNCHANGED <<may, files, kernel, daemon, history>>

Leaves ==
  /\ Cmd # "none" /\ Todo = <<>>
  /\ Cmd' = "none" /\ Todo' = <<>> /\ Fine'
  /\ result' = CASE Cmd = "stop" -> "down"
                 [] Cmd \in Starters -> IF Fine THEN "up" ELSE "failed"
                 [] OTHER -> result
  /\ refused' = IF Cmd \notin Starters THEN refused
                ELSE IF Fine THEN 0 ELSE Min({refused + 1, Len(Chains) + 1})
  /\ UNCHANGED <<may, conf, files, kernel, daemon, lost>>

(* NICE_LEVEL is no nice level. *)
Exits ==
  /\ "nice" \in may
  /\ Todo # <<>> /\ Todo[1].do = "start_daemon"
  /\ Cmd' = "none" /\ Todo' = <<>> /\ Fine'
  /\ result' = "exited" /\ refused' = 0
  /\ UNCHANGED <<may, conf, files, kernel, daemon, lost>>

(* Nothing to do at a pgl that runs already, or does not run. *)
Declines ==
  /\ Todo # <<>> /\ Todo[1].do \in {"if_running", "unless_running"}
  /\ daemon # (Todo[1].do = "if_running")
  /\ Cmd' = Cmd /\ Todo' = <<>> /\ Fine'
  /\ UNCHANGED <<may, conf, files, kernel, daemon, history>>

GivesUp ==
  LET x == Todo[1] IN
  /\ Todo # <<>>
  /\ x.do \in {"start_daemon", "create", "insert", "ensure", "activate", "delete"}
  /\ \/ "fail" \in may
     \/ x.do = "create" /\ x.chain \in made
     \/ x.do \in {"insert", "ensure", "activate"} /\ x.chain \notin made
  /\ Cmd' = Cmd /\ ~Fine'
  /\ Todo' = IF x.do = "start_daemon" THEN delete_iptables ELSE fail_insert_iptables(Cmd, x.rule)
  /\ UNCHANGED <<may, conf, files, kernel, daemon, history>>

RunsScript ==
  /\ Todo # <<>> /\ Todo[1].do = "sh"
  /\ Cmd' = Cmd /\ Fine' = Fine /\ Todo' = script \o Tail(Todo)
  /\ UNCHANGED <<may, conf, files, kernel, daemon, history>>

Possible(x) ==
  /\ x.do = "create" => x.chain \notin made
  /\ x.do \in {"insert", "ensure", "activate"} => x.chain \in made
  /\ x.do = "if_running" => daemon
  /\ x.do = "unless_running" => ~daemon

Writes(x) ==
  /\ script' = CASE x.do = "record" -> script \o <<On("F", x.chain), On("X", x.chain)>>
                 [] x.do = "mv" -> IF tmp = <<>> THEN script ELSE tmp
                 [] x.do = "rm" -> <<>>
                 [] OTHER -> script
  /\ tmp' = CASE x.do = "remember" -> Append(tmp, On("D", x.chain))
              [] x.do = "cat" -> tmp \o script
              [] x.do = "mv" -> <<>>
              [] OTHER -> tmp

Ordered(x) ==
  LET c == x.chain IN
  /\ made' = CASE x.do = "create" -> made \cup {c}
               [] x.do = "X" -> IF jump[c] = 0 /\ chain[c] = <<>> THEN made \ {c} ELSE made
               [] OTHER -> made
  /\ chain' = CASE x.do = "insert" -> [chain EXCEPT ![c] = <<x.rule>> \o @]
                [] x.do = "ensure" -> IF x.rule \in Range(chain[c]) THEN chain
                                      ELSE [chain EXCEPT ![c] = <<x.rule>> \o @]
                [] x.do = "delete" -> [chain EXCEPT ![c] = RemoveFirst(@, x.rule)]
                [] x.do = "F" -> [chain EXCEPT ![c] = <<>>]
                [] OTHER -> chain
  /\ jump' = CASE x.do = "activate" -> [jump EXCEPT ![c] = @ + 1]
               [] x.do = "D" -> [jump EXCEPT ![c] = IF @ > 0 THEN @ - 1 ELSE 0]
               [] OTHER -> jump
  /\ lost' = IF x.do \in Lines THEN lost \ {x} ELSE lost

(* A line of the remove script fails, and pglcmd goes on. *)
Misses(x) ==
  /\ "stuck" \in may /\ x.do \in Lines
  /\ UNCHANGED kernel
  /\ lost' = lost \cup {x}

Advances ==
  LET x == Todo[1] IN
  /\ Todo # <<>> /\ x.do # "sh" /\ Possible(x)
  /\ Cmd' = Cmd /\ Fine' = Fine /\ Todo' = Tail(Todo)
  /\ Writes(x) /\ (Ordered(x) \/ Misses(x))
  /\ daemon' <=> x.do = "start_daemon" \/ (daemon /\ x.do # "killproc")
  /\ UNCHANGED <<may, conf, result, refused, deaths>>

Killed ==
  /\ "kill" \in may
  /\ Cmd' = "none" /\ Todo' = <<>> /\ Fine'
  /\ result' = "dead" /\ refused' = 0
  /\ UNCHANGED <<may, conf, files, kernel, daemon, lost>>

Rebooted ==
  /\ "reboot" \in may
  /\ Cmd' = "none" /\ Todo' = <<>> /\ Fine'
  /\ result' = "dead" /\ refused' = 0
  /\ made' = {} /\ chain' = [c \in Set |-> <<>>] /\ jump' = [c \in Set |-> 0] /\ ~daemon'
  /\ lost' = {}
  /\ UNCHANGED <<may, conf, files>>

(* Beside pglcmd the hook changes rules for the port and the LAN. *)
HookMoves ==
  /\ "hook" \in may
  /\ Cmd' = Cmd /\ Todo' = Todo /\ Fine' = Fine
  /\ UNCHANGED <<may, files, made, jump, daemon, history>>
  /\ \A c \in Set : Queued(c)' <=> Queued(c)

(* pgld ends, and packets are under way. *)
Elsewhere ==
  /\ Cmd' = Cmd /\ Todo' = Todo /\ Fine' = Fine
  /\ daemon' => daemon
  /\ UNCHANGED <<may, conf, files, kernel, history>>

LEMMA Whose ==
  ASSUME TypeInv
  PROVE  /\ proc \in [Procs -> [cmd : Cmds, todo : Seq(Instrs), ok : BOOLEAN]]
         /\ "pglcmd" \in Procs /\ "hook" \in Procs
         /\ Cmd \in {"none", "stop"} \cup Starters \cup Configures
         /\ proc["hook"].cmd \in {"none", "if_up"} \cup Configures
         /\ Todo \in Seq(Instrs) /\ Fine \in BOOLEAN
         /\ InOrder(Todo) /\ Adjacent(Todo) /\ Closed(Range(Todo))
BY Parts DEF ProcOK, CmdsOK, Procs, Commands, Cmd, Todo, Fine

(* What an update of pglcmd's record means for it. *)
LEMMA Updates ==
  ASSUME TypeInv, NEW t, NEW b
  PROVE  /\ proc' = [proc EXCEPT !["pglcmd"].todo = t] =>
              Cmd' = Cmd /\ Todo' = t /\ Fine' = Fine
         /\ proc' = [proc EXCEPT !["pglcmd"].todo = t, !["pglcmd"].ok = b] =>
              Cmd' = Cmd /\ Todo' = t /\ Fine' = b
<1>1. proc \in [Procs -> [cmd : Cmds, todo : Seq(Instrs), ok : BOOLEAN]] /\ "pglcmd" \in Procs
  BY Whose
<1> DEFINE r == proc["pglcmd"]
           x == proc'["pglcmd"]
<1>2. r \in [cmd : Cmds, todo : Seq(Instrs), ok : BOOLEAN]
  BY <1>1
<1>3. ASSUME proc' = [proc EXCEPT !["pglcmd"].todo = t]
      PROVE  Cmd' = Cmd /\ Todo' = t /\ Fine' = Fine
  <2>1. x = [r EXCEPT !.todo = t]
    BY <1>1, <1>3
  <2> HIDE DEF x, r
  <2>2. x.cmd = r.cmd /\ x.todo = t /\ x.ok = r.ok
    BY <1>2, <2>1
  <2> QED
    BY <2>2 DEF x, r, Cmd, Todo, Fine
<1>4. ASSUME proc' = [proc EXCEPT !["pglcmd"].todo = t, !["pglcmd"].ok = b]
      PROVE  Cmd' = Cmd /\ Todo' = t /\ Fine' = b
  <2>1. x = [r EXCEPT !.todo = t, !.ok = b]
    BY <1>1, <1>4
  <2> HIDE DEF x, r
  <2>2. x.cmd = r.cmd /\ x.todo = t /\ x.ok = b
    BY <1>2, <2>1
  <2> QED
    BY <2>2 DEF x, r, Cmd, Todo, Fine
<1> QED
  BY <1>3, <1>4

LEMMA NextHook == TypeInv /\ HookIdle /\ [Next]_vars => HookIdle'
<1> SUFFICES ASSUME TypeInv, HookIdle, [Next]_vars, "hook" \notin may'
             PROVE  proc'["hook"] = Idle
  BY DEF HookIdle
<1>1. may' = may
  BY DEF Next, vars, Call, Shell, Exit, CheckStatus, bad_nice_level, start_daemon, killproc,
         Record, Remember, Cat, Mv, Sh, Rm, Create, Insert, Delete, ActivateChain, Deactivate,
         Flush, DeleteChain, FailUnnoticed, Fails, Kill, Reboot, End, Arrive, Traverse,
         nfqueue_cb
<1>2. proc["hook"] = Idle /\ "hook" \notin may
  BY <1>1 DEF HookIdle
<1>3. /\ proc \in [Procs -> [cmd : Cmds, todo : Seq(Instrs), ok : BOOLEAN]]
      /\ "pglcmd" \in Procs /\ "hook" \in Procs
  BY Whose
<1>4. ASSUME NEW p \in Procs, NEW cmd \in Commands(p), Call(p, cmd) PROVE proc'["hook"] = Idle
  BY <1>2, <1>3, <1>4 DEF Call
<1>5. ASSUME NEW p \in Procs, Shell(p) PROVE proc'["hook"] = Idle
  <2>1. Exit(p) \/ Busy(p)
    BY <1>5 DEF Shell, CheckStatus, bad_nice_level, start_daemon, killproc, Record, Remember,
                Cat, Mv, Sh, Rm, Create, Insert, Delete, ActivateChain, Deactivate, Flush,
                DeleteChain, FailUnnoticed, At
  <2>2. proc[p].cmd # "none" \/ proc[p].todo # <<>>
    BY <2>1 DEF Exit, Busy
  <2>3. p = "pglcmd"
    BY <1>2, <2>2 DEF Procs, Idle
  <2>4. \/ proc' = [proc EXCEPT !["pglcmd"] = Idle]
        \/ \E t : proc' = [proc EXCEPT !["pglcmd"].todo = t]
        \/ \E t, ok : proc' = [proc EXCEPT !["pglcmd"].todo = t, !["pglcmd"].ok = ok]
    BY <1>3, <1>5, <2>3, ShellSteps DEF GoOn, Instead
  <2>5. ASSUME NEW t, proc' = [proc EXCEPT !["pglcmd"].todo = t] PROVE proc'["hook"] = Idle
    BY <1>2, <1>3, <2>5
  <2>6. ASSUME NEW t, NEW ok, proc' = [proc EXCEPT !["pglcmd"].todo = t, !["pglcmd"].ok = ok]
        PROVE  proc'["hook"] = Idle
    BY <1>2, <1>3, <2>6
  <2> QED
    BY <1>2, <1>3, <2>4, <2>5, <2>6
<1> QED
  BY <1>2, <1>3, <1>4, <1>5 DEF Next, vars, Kill, Reboot, End, Arrive, Traverse, nfqueue_cb


(* pglcmd executes an instruction. *)
LEMMA PglcmdMoves ==
  ASSUME TypeInv, Shell("pglcmd")
  PROVE  Leaves \/ Exits \/ Declines \/ GivesUp \/ RunsScript \/ Advances
<1> DEFINE p == "pglcmd"
           x == Todo[1]
<1>1. /\ proc \in [Procs -> [cmd : Cmds, todo : Seq(Instrs), ok : BOOLEAN]]
      /\ p \in Procs /\ Todo \in Seq(Instrs) /\ proc[p].todo = Todo
      /\ proc[p].cmd = Cmd /\ proc[p].ok = Fine /\ Fine \in BOOLEAN
  BY Whose DEF Todo, Cmd, Fine
<1>2. Busy(p) <=> Todo # <<>>
  BY <1>1 DEF Busy
<1>3. Busy(p) => Instr(p) = x /\ x \in Instrs
  BY <1>1, Instruct
<1>4. GoOn(p) => Cmd' = Cmd /\ Todo' = Tail(Todo) /\ Fine' = Fine
  <2> DEFINE t == Tail(Todo)
  <2>1. GoOn(p) => proc' = [proc EXCEPT ![p].todo = t]
    BY <1>1 DEF GoOn
  <2> HIDE DEF t
  <2> QED
    BY <2>1, Updates DEF t
<1>5. ASSUME NEW t, NEW b, Instead(p, t, b) PROVE Cmd' = Cmd /\ Todo' = t /\ Fine' = b
  BY <1>5, Updates DEF Instead
<1>6. \A op : At(p, op) <=> Todo # <<>> /\ x.do = op
  BY <1>2, <1>3 DEF At
<1> DEFINE same == UNCHANGED <<may, conf, files, kernel, daemon, history>>
<1>7. CASE Exit(p)
  <2>1. /\ proc' = [proc EXCEPT ![p] = Idle] /\ Cmd # "none" /\ Todo = <<>>
        /\ UNCHANGED <<may, conf, files, kernel, daemon, lost>>
        /\ result' = CASE Cmd = "stop" -> "down"
                       [] Cmd \in Starters -> IF Fine THEN "up" ELSE "failed"
                       [] OTHER -> result
        /\ refused' = IF Cmd \notin Starters THEN refused
                      ELSE IF Fine THEN 0 ELSE Min({refused + 1, Len(Chains) + 1})
    BY <1>1, <1>2, <1>7 DEF Exit
  <2>2. Cmd' = "none" /\ Todo' = <<>> /\ Fine'
    BY <1>1, <2>1 DEF Idle, Cmd, Todo, Fine
  <2> QED
    BY <2>1, <2>2 DEF Leaves
<1>8. CASE CheckStatus(p)
  <2>1. /\ Todo # <<>> /\ x.do \in {"if_running", "unless_running"} /\ same
        /\ IF daemon = (x.do = "if_running") THEN GoOn(p) ELSE Instead(p, <<>>, TRUE)
    BY <1>2, <1>3, <1>6, <1>8 DEF CheckStatus
  <2>2. daemon \in BOOLEAN
    BY DEF TypeInv, TypeOK
  <2>3. CASE daemon = (x.do = "if_running")
    <3>1. Cmd' = Cmd /\ Todo' = Tail(Todo) /\ Fine' = Fine
      BY <1>4, <2>1, <2>3
    <3>2. Possible(x) /\ Writes(x) /\ Ordered(x)
      BY <2>1, <2>2, <2>3 DEF Possible, Writes, Ordered, files, kernel, history, Lines
    <3>3. daemon' <=> x.do = "start_daemon" \/ (daemon /\ x.do # "killproc")
      BY <2>1
    <3> QED
      BY <2>1, <3>1, <3>2, <3>3 DEF Advances, history, files, kernel
  <2>4. CASE daemon # (x.do = "if_running")
    <3>1. Cmd' = Cmd /\ Todo' = <<>> /\ Fine' = TRUE
      BY <1>5, <2>1, <2>4
    <3> QED
      BY <2>1, <2>4, <3>1 DEF Declines
  <2> QED
    BY <2>3, <2>4
<1> DEFINE fails == /\ Give(p) /\ same
                    /\ x.do \in {"create", "insert", "ensure", "activate", "delete"}
                    /\ \/ "fail" \in may
                       \/ x.do = "create" /\ x.chain \in made
                       \/ x.do \in {"insert", "ensure", "activate"} /\ x.chain \notin made
<1>9. ASSUME Todo # <<>>, fails PROVE GivesUp
  <2>1. Instead(p, fail_insert_iptables(Cmd, x.rule), FALSE)
    BY <1>1, <1>2, <1>3, <1>9 DEF Give
  <2>2. Cmd' = Cmd /\ Todo' = fail_insert_iptables(Cmd, x.rule) /\ Fine' = FALSE
    BY <1>5, <2>1
  <2>3. x.do # "start_daemon"
    BY <1>9
  <2> QED
    BY <1>9, <2>2, <2>3 DEF GivesUp
<1>10. CASE start_daemon(p)
  <2>1. Todo # <<>> /\ x.do = "start_daemon" /\ UNCHANGED <<may, conf, files, kernel, history>>
        /\ \/ daemon' = TRUE /\ GoOn(p)
           \/ "fail" \in may /\ Instead(p, delete_iptables, FALSE) /\ UNCHANGED daemon
    BY <1>6, <1>10 DEF start_daemon
  <2>2. CASE daemon' = TRUE /\ GoOn(p)
    <3>1. Possible(x) /\ Writes(x) /\ Ordered(x)
      BY <2>1 DEF Possible, Writes, Ordered, files, kernel, history, Lines
    <3>2. Cmd' = Cmd /\ Todo' = Tail(Todo) /\ Fine' = Fine
      BY <1>4, <2>2
    <3> QED
      BY <2>1, <2>2, <3>1, <3>2 DEF Advances, history
  <2>3. CASE "fail" \in may /\ Instead(p, delete_iptables, FALSE) /\ UNCHANGED daemon
    <3>1. Cmd' = Cmd /\ Todo' = delete_iptables /\ Fine' = FALSE
      BY <1>5, <2>3
    <3> QED
      BY <2>1, <2>3, <3>1 DEF GivesUp
  <2> QED
    BY <2>1, <2>2, <2>3
<1>11. CASE Sh(p)
  <2> DEFINE t == script \o Tail(Todo)
  <2>1. Todo # <<>> /\ x.do = "sh" /\ same /\ proc' = [proc EXCEPT ![p].todo = t]
    BY <1>1, <1>6, <1>11 DEF Sh
  <2> HIDE DEF t
  <2>2. Cmd' = Cmd /\ Todo' = t /\ Fine' = Fine
    BY <2>1, Updates
  <2> QED
    BY <2>1, <2>2 DEF RunsScript, t
<1> DEFINE goes == /\ GoOn(p) /\ Possible(x) /\ Writes(x) /\ (Ordered(x) \/ Misses(x))
                   /\ daemon' <=> x.do = "start_daemon" \/ (daemon /\ x.do # "killproc")
                   /\ UNCHANGED <<may, conf, result, refused, deaths>>
<1>12. ASSUME Todo # <<>>, x.do # "sh", goes PROVE Advances
  BY <1>4, <1>12 DEF Advances
<1>13. CASE killproc(p)
  <2>1. Todo # <<>> /\ x.do # "sh" /\ goes
    BY <1>6, <1>13 DEF killproc, Possible, Writes, Ordered, files, kernel, history, Lines
  <2> QED
    BY <1>12, <2>1
<1>14. CASE Record(p) \/ Remember(p) \/ Cat(p) \/ Mv(p) \/ Rm(p)
  <2>1. Todo # <<>> /\ x.do \in {"record", "remember", "cat", "mv", "rm"} /\ GoOn(p)
        /\ UNCHANGED <<may, conf, kernel, daemon, history>>
    BY <1>6, <1>14 DEF Record, Remember, Cat, Mv, Rm
  <2>2. Writes(x)
    BY <1>3, <1>6, <1>14 DEF Record, Remember, Cat, Mv, Rm, Writes, At
  <2>3. Possible(x) /\ Ordered(x) /\ UNCHANGED <<result, refused, deaths>>
    BY <2>1 DEF Possible, Ordered, kernel, history, Lines
  <2>4. daemon' <=> x.do = "start_daemon" \/ (daemon /\ x.do # "killproc")
    BY <2>1
  <2> QED
    BY <1>12, <2>1, <2>2, <2>3, <2>4
<1> DEFINE quiet == UNCHANGED <<may, conf, files, daemon, result, refused, deaths>>
<1>15. ASSUME Todo # <<>>, quiet, GoOn(p),
              x.do \in {"create", "insert", "ensure", "delete", "activate"} \cup Lines,
              Possible(x), Ordered(x) \/ Misses(x)
       PROVE  Advances
  <2>1. Writes(x)
    BY <1>15 DEF Writes, files, Lines
  <2>2. daemon' <=> x.do = "start_daemon" \/ (daemon /\ x.do # "killproc")
    BY <1>15 DEF Lines
  <2>3. x.do # "sh"
    BY <1>15 DEF Lines
  <2> QED
    BY <1>12, <1>15, <2>1, <2>2, <2>3
<1>16. CASE Create(p)
  <2>1. Todo # <<>> /\ x.do = "create" /\ Instr(p) = x
    BY <1>2, <1>3, <1>6, <1>16 DEF Create
  <2>2. CASE x.chain \notin made /\ made' = made \cup {x.chain} /\ GoOn(p)
             /\ UNCHANGED <<may, conf, files, chain, jump, daemon, history, pkt>>
    <3>1. Possible(x) /\ Ordered(x) /\ quiet
      BY <2>1, <2>2 DEF Possible, Ordered, history, Lines
    <3> QED
      BY <1>15, <2>1, <2>2, <3>1
  <2>3. CASE Fails(p, x.chain \notin made)
    <3>1. fails
      BY <2>1, <2>3 DEF Fails
    <3> QED
      BY <1>9, <2>1, <3>1
  <2> QED
    BY <1>16, <2>1, <2>2, <2>3 DEF Create
<1>17. CASE Insert(p)
  <2>1. Todo # <<>> /\ x.do \in {"insert", "ensure"} /\ Instr(p) = x
        /\ (At(p, "ensure") <=> x.do = "ensure")
    BY <1>2, <1>3, <1>6, <1>17 DEF Insert
  <2>2. CASE /\ x.chain \in made
             /\ chain' = IF x.do = "ensure" /\ x.rule \in Range(chain[x.chain])
                           THEN chain ELSE [chain EXCEPT ![x.chain] = <<x.rule>> \o @]
             /\ GoOn(p)
             /\ UNCHANGED <<may, conf, files, made, jump, daemon, history, pkt>>
    <3>1. Possible(x) /\ quiet
      BY <2>1, <2>2 DEF Possible, history
    <3>2. Ordered(x)
      BY <2>1, <2>2 DEF Ordered, history, Lines
    <3> QED
      BY <1>15, <2>1, <2>2, <3>1, <3>2
  <2>3. CASE Fails(p, x.chain \in made)
    <3>1. fails
      BY <2>1, <2>3 DEF Fails
    <3> QED
      BY <1>9, <2>1, <3>1
  <2> QED
    BY <1>17, <2>1, <2>2, <2>3 DEF Insert
<1>18. CASE Delete(p)
  <2>1. Todo # <<>> /\ x.do = "delete" /\ Instr(p) = x
    BY <1>2, <1>3, <1>6, <1>18 DEF Delete
  <2>2. CASE /\ chain' = [chain EXCEPT ![x.chain] = RemoveFirst(@, x.rule)]
             /\ GoOn(p)
             /\ UNCHANGED <<may, conf, files, made, jump, daemon, history, pkt>>
    <3>1. Possible(x) /\ Ordered(x) /\ quiet
      BY <2>1, <2>2 DEF Possible, Ordered, history, Lines
    <3> QED
      BY <1>15, <2>1, <2>2, <3>1
  <2>3. CASE Fails(p, TRUE)
    <3>1. fails
      BY <2>1, <2>3 DEF Fails
    <3> QED
      BY <1>9, <2>1, <3>1
  <2> QED
    BY <1>18, <2>1, <2>2, <2>3 DEF Delete
<1>19. CASE ActivateChain(p)
  <2>1. Todo # <<>> /\ x.do = "activate" /\ Instr(p) = x
    BY <1>2, <1>3, <1>6, <1>19 DEF ActivateChain
  <2>2. CASE /\ x.chain \in made
             /\ jump' = [jump EXCEPT ![x.chain] = @ + 1]
             /\ GoOn(p)
             /\ UNCHANGED <<may, conf, files, made, chain, daemon, history, pkt>>
    <3>1. Possible(x) /\ Ordered(x) /\ quiet
      BY <2>1, <2>2 DEF Possible, Ordered, history, Lines
    <3> QED
      BY <1>15, <2>1, <2>2, <3>1
  <2>3. CASE Fails(p, x.chain \in made)
    <3>1. fails
      BY <2>1, <2>3 DEF Fails
    <3> QED
      BY <1>9, <2>1, <3>1
  <2> QED
    BY <1>19, <2>1, <2>2, <2>3 DEF ActivateChain
<1>20. CASE Deactivate(p) \/ Flush(p) \/ DeleteChain(p)
  <2>1. Todo # <<>> /\ x.do \in Lines /\ GoOn(p) /\ quiet /\ Instr(p) = x
    BY <1>2, <1>3, <1>6, <1>20 DEF Deactivate, Flush, DeleteChain, Executed, Lines
  <2>2. Possible(x)
    BY <2>1 DEF Possible, Lines
  <2>3. Ordered(x)
    BY <1>6, <1>20, <2>1 DEF Deactivate, Flush, DeleteChain, Executed, Ordered, Lines
  <2> QED
    BY <1>15, <2>1, <2>2, <2>3
<1>21. CASE FailUnnoticed(p)
  <2>1. Todo # <<>> /\ x.do \in Lines /\ GoOn(p) /\ quiet /\ Instr(p) = x
    BY <1>2, <1>3, <1>6, <1>21 DEF FailUnnoticed, Lines
  <2>2. Possible(x) /\ Misses(x)
    BY <1>21, <2>1 DEF Possible, Misses, FailUnnoticed, Lines
  <2> QED
    BY <1>15, <2>1, <2>2
<1>22. CASE bad_nice_level(p)
  <2>1. Todo # <<>> /\ x.do = "start_daemon"
    BY <1>6, <1>22 DEF bad_nice_level
  <2>2. Cmd' = "none" /\ Todo' = <<>> /\ Fine'
    BY <1>1, <1>22 DEF bad_nice_level, Idle, Cmd, Todo, Fine
  <2> QED
    BY <1>22, <2>1, <2>2 DEF bad_nice_level, Exits
<1> QED
  BY <1>7, <1>8, <1>10, <1>11, <1>13, <1>14, <1>16, <1>17, <1>18, <1>19, <1>20, <1>21, <1>22
     DEF Shell


(* So does the hook, beside it. *)
LEMMA HookDoes ==
  ASSUME TypeInv, HookIdle, Shell("hook")
  PROVE  HookMoves
<1> DEFINE p == "hook"
<1>1. /\ proc \in [Procs -> [cmd : Cmds, todo : Seq(Instrs), ok : BOOLEAN]]
      /\ p \in Procs /\ proc[p].cmd \in {"none", "if_up"} \cup Configures
      /\ proc[p].cmd \notin Starters \cup {"stop"}
  BY Whose DEF Starters, Configures
<1>2. Busy(p) => Instr(p) \in Instrs /\ Instr(p).do \in {"if_running", "ensure", "delete"}
  BY <1>1, Instruct DEF HookInstrs
<1>3. Exit(p) \/ CheckStatus(p) \/ Insert(p) \/ Delete(p)
  <2>1. ~Busy(p) \/ Instr(p).do \in {"if_running", "ensure", "delete"}
    BY <1>2
  <2> QED
    BY <2>1 DEF Shell, At, bad_nice_level, start_daemon, killproc, Record, Remember, Cat, Mv,
                Sh, Rm, Create, ActivateChain, Deactivate, Flush, DeleteChain, FailUnnoticed
<1>4. "hook" \in may
  <2>1. Exit(p) \/ Busy(p)
    BY <1>3 DEF CheckStatus, Insert, Delete, At
  <2>2. proc[p].cmd # "none" \/ proc[p].todo # <<>>
    BY <2>1 DEF Exit, Busy
  <2> QED
    BY <2>2 DEF HookIdle, Idle
<1>5. Cmd' = Cmd /\ Todo' = Todo /\ Fine' = Fine
  <2>1. \/ proc' = [proc EXCEPT !["hook"] = Idle]
        \/ \E t : proc' = [proc EXCEPT !["hook"].todo = t]
        \/ \E t, ok : proc' = [proc EXCEPT !["hook"].todo = t, !["hook"].ok = ok]
    BY <1>1, ShellSteps DEF GoOn, Instead
  <2> HIDE DEF p
  <2>2. ASSUME NEW t, proc' = [proc EXCEPT !["hook"].todo = t]
        PROVE  proc'["pglcmd"] = proc["pglcmd"]
    BY <1>1, <2>2, Whose
  <2>3. ASSUME NEW t, NEW ok, proc' = [proc EXCEPT !["hook"].todo = t, !["hook"].ok = ok]
        PROVE  proc'["pglcmd"] = proc["pglcmd"]
    BY <1>1, <2>3, Whose
  <2>4. proc'["pglcmd"] = proc["pglcmd"]
    BY <1>1, <2>1, <2>2, <2>3, Whose
  <2> QED
    BY <2>4 DEF Cmd, Todo, Fine
<1>6. \/ UNCHANGED kernel
      \/ /\ UNCHANGED <<made, jump>>
         /\ \E c \in Set : \/ chain' = [chain EXCEPT ![c] = RemoveFirst(@, "port")]
                           \/ \E r \in {"port", "local"} :
                                chain' = [chain EXCEPT ![c] = <<r>> \o @]
  <2>1. CASE Exit(p) \/ CheckStatus(p)
    BY <2>1 DEF Exit, CheckStatus, kernel
  <2>2. CASE Insert(p)
    <3>1. ~At(p, "insert") /\ Busy(p)
      BY <1>2, <2>2 DEF At, Insert
    <3>2. Instr(p).chain \in Set /\ Instr(p).rule \in {"port", "local"}
      BY <1>2, <2>2, <3>1 DEF At, Insert, Instrs, OnChains, Inserting
    <3> QED
      BY <2>2, <3>2 DEF Insert, Fails, kernel
  <2>3. CASE Delete(p)
    <3>1. Instr(p).chain \in Set /\ Instr(p).rule = "port"
      BY <1>2, <2>3 DEF At, Delete, Instrs, OnChains
    <3> QED
      BY <2>3, <3>1 DEF Delete, Fails, kernel
  <2> QED
    BY <1>3, <2>1, <2>2, <2>3
<1>7. \A c \in Set : Queued(c)' <=> Queued(c)
  <2>1. chain \in [Set -> Seq(Rules)]
    BY DEF TypeInv, TypeOK
  <2>2. CASE UNCHANGED kernel
    BY <2>2 DEF Queued, kernel
  <2>3. ASSUME NEW c \in Set, NEW d \in Set, NEW r \in {"port", "local"},
               chain' = [chain EXCEPT ![c] = <<r>> \o @]
        PROVE  Queued(d)' <=> Queued(d)
    <3> DEFINE s == chain[c]
    <3>1. s \in Seq(Rules) /\ r \in Rules
      BY <2>1 DEF Rules
    <3>2. chain'[d] = IF d = c THEN <<r>> \o s ELSE chain[d]
      BY <2>1, <2>3
    <3> HIDE DEF s
    <3>3. "queue" \in Range(<<r>> \o s) <=> "queue" \in Range(s)
      BY <3>1, Prepended
    <3> QED
      BY <3>2, <3>3 DEF Queued, s
  <2>4. ASSUME NEW c \in Set, NEW d \in Set, chain' = [chain EXCEPT ![c] = RemoveFirst(@, "port")]
        PROVE  Queued(d)' <=> Queued(d)
    <3> DEFINE s == chain[c]
    <3>1. s \in Seq(Rules)
      BY <2>1
    <3>2. chain'[d] = IF d = c THEN RemoveFirst(s, "port") ELSE chain[d]
      BY <2>1, <2>4
    <3> HIDE DEF s
    <3>3. "queue" \in Range(RemoveFirst(s, "port")) <=> "queue" \in Range(s)
      BY <3>1, Removed
    <3> QED
      BY <3>2, <3>3 DEF Queued, s
  <2> QED
    BY <1>6, <2>2, <2>3, <2>4
<1>8. UNCHANGED <<may, files, daemon, history>>
  BY <1>1, <1>3 DEF Exit, CheckStatus, Insert, Delete, Fails, history
<1> QED
  BY <1>4, <1>5, <1>6, <1>7, <1>8 DEF HookMoves, kernel

LEMMA Moves ==
  ASSUME TypeInv, HookIdle, [Next]_vars
  PROVE  \/ \E cmd \in Starters \cup Configures \cup {"stop"} : Begins(cmd)
         \/ Leaves \/ Exits \/ Declines \/ GivesUp \/ RunsScript \/ Advances
         \/ Killed \/ Rebooted \/ HookMoves \/ Elsewhere
<1>1. /\ proc \in [Procs -> [cmd : Cmds, todo : Seq(Instrs), ok : BOOLEAN]]
      /\ "pglcmd" \in Procs /\ "hook" \in Procs
      /\ Procs = {"pglcmd", "hook"}
  BY Whose DEF Procs
<1>2. ASSUME NEW cmd \in Commands("pglcmd"), Call("pglcmd", cmd) PROVE Begins(cmd)
  <2>1. proc["pglcmd"] = Idle
        /\ proc' = [proc EXCEPT !["pglcmd"] = [cmd |-> cmd, todo |-> Program(cmd, conf),
                                               ok |-> TRUE]]
    BY <1>2 DEF Call
  <2>2. Cmd = "none" /\ Todo = <<>> /\ Fine
    BY <2>1 DEF Cmd, Todo, Fine, Idle
  <2>3. Cmd' = cmd /\ Todo' = Program(cmd, conf) /\ Fine'
    BY <1>1, <2>1 DEF Cmd, Todo, Fine
  <2>4. cmd \in Starters \cup Configures \cup {"stop"}
    BY DEF Commands
  <2> QED
    BY <1>2, <2>2, <2>3, <2>4 DEF Begins, Call
<1>3. ASSUME NEW cmd \in Commands("hook"), Call("hook", cmd) PROVE HookMoves
  <2>1. proc'["pglcmd"] = proc["pglcmd"]
    BY <1>1, <1>3 DEF Call
  <2> QED
    BY <1>3, <2>1 DEF Call, HookMoves, Cmd, Todo, Fine, Queued, kernel
<1>4. CASE Kill
  <2>1. Cmd' = "none" /\ Todo' = <<>> /\ Fine'
    BY <1>1, <1>4 DEF Kill, Cmd, Todo, Fine, Idle
  <2> QED
    BY <1>4, <2>1 DEF Kill, Dead, Killed
<1>5. CASE Reboot
  <2>1. Cmd' = "none" /\ Todo' = <<>> /\ Fine'
    BY <1>1, <1>5 DEF Reboot, Cmd, Todo, Fine, Idle
  <2> QED
    BY <1>5, <2>1 DEF Reboot, Dead, Rebooted
<1>6. CASE End \/ Arrive \/ Traverse \/ nfqueue_cb \/ UNCHANGED vars
  BY <1>6 DEF End, Arrive, Traverse, nfqueue_cb, vars, Elsewhere, Cmd, Todo, Fine
<1> QED
  BY <1>1, <1>2, <1>3, <1>4, <1>5, <1>6, PglcmdMoves, HookDoes
     DEF Next, Commands


-----------------------------------------------------------------------------
(* The shape of what is left to do *)

CmdInv ==
  LET R == Range(Todo) IN
  /\ Cmd = "none" => Todo = <<>>
  /\ Cmd \in Configures => Changing(R)
  /\ Cmd = "stop" => \A x \in R : x.do \in Clearing \cup {"killproc"}
  /\ ~Fine => \A x \in R : x.do \in Clearing \cup {"cat", "mv"}
  /\ Cmd \in Starters => Steady(R) /\ (Fine => Todo = <<>> \/ Building(R))

(* pgld is started when all chains exist. *)
BuiltInv ==
  LET R == Range(Todo) IN Building(R) => \A c \in Set : On("create", c) \in R \/ c \in made

ShapeInv == Shape(Todo) /\ Whole(Range(Todo)) /\ CmdInv /\ BuiltInv

LEMMA ShapeTail ==
  ASSUME NEW t \in Seq(Instrs), t # <<>>, Shape(t)
  PROVE  /\ Shape(Tail(t))
         /\ \A y \in Range(Tail(t)) : Later(t[1], y)
         /\ Tail(t) # <<>> => Leads(t[1], Tail(t)[1])
         /\ Tail(t) = <<>> => t[1].do \notin Going
<1> DEFINE s == Tail(t)
<1>1. /\ Len(t) \in Nat \ {0} /\ Len(s) = Len(t) - 1 /\ s \in Seq(Instrs)
      /\ \A n \in 1 .. Len(t) - 1 : s[n] = t[n + 1]
  BY TailFacts
<1> HIDE DEF s
<1>2. Late(s)
  <2> SUFFICES ASSUME NEW m \in 1 .. Len(s), NEW n \in 1 .. Len(s), m < n
               PROVE  Later(s[m], s[n])
    BY DEF Late
  <2>1. m + 1 \in 1 .. Len(t) /\ n + 1 \in 1 .. Len(t) /\ m + 1 < n + 1
    BY <1>1
  <2>2. s[m] = t[m + 1] /\ s[n] = t[n + 1]
    BY <1>1
  <2> QED
    BY <2>1, <2>2 DEF Shape, Late
<1>3. Led(s)
  <2> SUFFICES ASSUME NEW n \in 1 .. Len(s), n > 1 PROVE Leads(s[n - 1], s[n])
    BY DEF Led
  <2>1. n + 1 \in 1 .. Len(t) /\ n + 1 > 1 /\ (n + 1) - 1 = n
        /\ n - 1 \in 1 .. Len(t) - 1 /\ (n - 1) + 1 = n
    BY <1>1
  <2>2. s[n - 1] = t[n] /\ s[n] = t[n + 1]
    BY <1>1, <2>1
  <2>3. Leads(t[n], t[n + 1])
    BY <2>1 DEF Shape, Led
  <2> QED
    BY <2>2, <2>3
<1>4. s # <<>> => Len(s) \in Nat \ {0} /\ Len(t) \in 1 .. Len(t) /\ Len(s) \in 1 .. Len(t) - 1
                  /\ Len(s) + 1 = Len(t) /\ 2 \in 1 .. Len(t) /\ 1 \in 1 .. Len(t) - 1
  <2>1. s # <<>> => Len(s) # 0
    BY <1>1, EmptySeq
  <2> QED
    BY <1>1, <2>1
<1>5. Ends(s)
  BY <1>1, <1>4 DEF Shape, Ends
<1>6. \A y \in Range(s) : Later(t[1], y)
  <2> SUFFICES ASSUME NEW y \in Range(s) PROVE Later(t[1], y)
    OBVIOUS
  <2>1. PICK n \in 1 .. Len(s) : y = s[n]
    BY <1>1, InRange
  <2>2. n + 1 \in 1 .. Len(t) /\ 1 \in 1 .. Len(t) /\ 1 < n + 1 /\ y = t[n + 1]
    BY <1>1, <2>1
  <2> QED
    BY <2>2 DEF Shape, Late
<1>7. s # <<>> => Leads(t[1], s[1])
  <2> SUFFICES ASSUME s # <<>> PROVE Leads(t[1], s[1])
    OBVIOUS
  <2>1. s[1] = t[1 + 1] /\ 1 + 1 = 2 /\ 2 \in 1 .. Len(t) /\ 2 > 1 /\ 2 - 1 = 1
    BY <1>1, <1>4
  <2> QED
    BY <2>1 DEF Shape, Led
<1>8. s = <<>> => t[1].do \notin Going
  <2> SUFFICES ASSUME s = <<>> PROVE t[1].do \notin Going
    OBVIOUS
  <2>1. Len(s) = 0
    BY EmptySeq
  <2>2. Len(t) = 1
    BY <1>1, <2>1
  <2> QED
    BY <2>2 DEF Shape, Ends
<1> QED
  BY <1>2, <1>3, <1>5, <1>6, <1>7, <1>8 DEF Shape, s

LEMMA WholeTail ==
  ASSUME NEW h, NEW Q, Whole({h} \cup Q), \A y \in Q : Before(h, y) /\ Later(h, y)
  PROVE  /\ Whole(Q)
         /\ Building({h} \cup Q) => Q = {} \/ Building(Q)
<1> DEFINE R == {h} \cup Q
<1>1. Whole(R) /\ Q \subseteq R /\ \A x \in R : x = h \/ x \in Q
  OBVIOUS
<1> HIDE DEF R
<1>2. \A c : /\ On("record", c).do = "record" /\ Stage(On("create", c)) = 1
             /\ On("activate", c).do = "activate" /\ Do("start_daemon").do = "start_daemon"
  BY Stages, Fields
<1>3. Building(R) => Q = {} \/ Building(Q)
  BY <1>1, <1>2 DEF Building, Later
<1>4. ASSUME Building(Q), NEW x \in Q, x.do \in Clearing, NEW c \in Set
      PROVE  {On("record", c), On("create", c)} \subseteq Q
  <2>1. {On("record", c), On("create", c)} \subseteq R
    BY <1>1, <1>4 DEF Whole, Building
  <2>2. h.do # "record"
    BY <1>4 DEF Later
  <2>3. ~(Stage(h) > 0)
    BY <1>4 DEF Before
  <2>4. h # On("record", c) /\ h # On("create", c)
    BY <1>2, <2>2, <2>3
  <2> QED
    BY <1>1, <2>1, <2>4
<1>5. ASSUME NEW x \in Q, Stage(x) > 0 \/ x.do \in {"record", "remember"} PROVE Building(Q)
  BY <1>1, <1>3, <1>5 DEF Whole
<1>6. ASSUME NEW x \in Q, x.rule = "local", NEW c \in Set PROVE On("activate", c) \in Q
  <2>1. On("activate", c) \in R
    BY <1>1, <1>6 DEF Whole
  <2>2. h.do # "activate"
    BY <1>6 DEF Later
  <2> QED
    BY <1>1, <1>2, <2>1, <2>2
<1>7. Whole(Q)
  BY <1>4, <1>5, <1>6 DEF Whole
<1> QED
  BY <1>3, <1>7 DEF R

(* The lines of a script, as a part of a program. *)
LEMMA Scripted ==
  ASSUME NEW s \in Seq(ScriptLines)
  PROVE  /\ s \in Seq(Instrs) /\ Late(s) /\ Led(s)
         /\ \A x \in Range(s) : /\ x \in Instrs /\ x.do \in Lines /\ x.rule = "-" /\ x.chain \in Set
                                /\ Stage(x) = 0
                                /\ \A y : Later(x, y)
<1>1. s \in Seq(Instrs)
  <2>1. ScriptLines \subseteq Instrs
    BY DEF ScriptLines
  <2> QED
    BY <2>1, SeqMonotonic
<1>2. \A x \in Range(s) : x \in Instrs /\ x.do \in Lines /\ x.rule = "-" /\ x.chain \in Set
  BY InRange DEF ScriptLines, Instrs, OnChains, Lines, Inserting
<1>3. \A x \in Range(s) : Stage(x) = 0 /\ \A y : Later(x, y)
  BY <1>2 DEF Stage, Later, Lines, Inserting, Clearing
<1>4. \A x, y \in Range(s) : Leads(x, y)
  BY <1>2 DEF Leads, Lines, Ending
<1> QED
  BY <1>1, <1>2, <1>3, <1>4, AnyOrder


(* A program begins, in the shape it has. *)
LEMMA ShapeBegins ==
  ASSUME TypeInv, NEW cmd, Begins(cmd)
  PROVE  ShapeInv'
<1> DEFINE t == Program(cmd, conf)
           R == Range(t)
<1>1. /\ cmd \in Starters \cup Configures \cup {"stop"} /\ conf \in BOOLEAN
      /\ cmd = "restart_not_wd" => "repair" \in may
  BY DEF Begins, TypeInv, TypeOK
<1>2. /\ Shape(t) /\ Whole(R)
      /\ cmd \in Starters =>
           /\ Steady(R) /\ Do("start_daemon") \in R
           /\ \A c \in Set : On("create", c) \in R
      /\ cmd = "stop" => R = {Do("sh"), Do("rm"), Do("killproc")}
      /\ cmd \in Configures =>
           LET op == IF cmd = "allow" THEN "ensure" ELSE "delete"
           IN  \A x \in R : x = Do("if_running") \/ (x.do = op /\ x.rule = "port")
  BY <1>1, ProgramShape
<1>3. Todo' = t /\ Cmd' = cmd /\ Fine' /\ made' = made
  BY DEF Begins, kernel
<1> HIDE DEF t, R
<1>4. /\ cmd = "stop" => \A x \in R : x.do \in Clearing \cup {"killproc"}
      /\ cmd \in Configures => Changing(R)
  BY <1>2, Fields DEF Clearing, Changing
<1>5. /\ cmd # "none"
      /\ (cmd \in Starters => cmd \notin Configures \cup {"stop"})
  BY <1>1 DEF Starters, Configures
<1>6. cmd \notin Starters => ~Building(R)
  BY <1>1, <1>4, Fields DEF Changing, Building, Clearing, Lines
<1>7. CmdInv'
  BY <1>2, <1>3, <1>4, <1>5 DEF CmdInv, Building, R
<1>8. BuiltInv'
  BY <1>2, <1>3, <1>6 DEF BuiltInv, R
<1>9. Shape(Todo)' /\ Whole(Range(Todo))'
  BY <1>2, <1>3 DEF R, Shape, Late, Led, Ends, Whole, Building
<1> QED
  BY <1>7, <1>8, <1>9 DEF ShapeInv

(* Nothing is left to do, or only what takes back what was done. *)
LEMMA ShapeOf ==
  ASSUME NEW t, Todo' = t
  PROVE  /\ Shape(t) /\ Whole(Range(t)) => Shape(Todo)' /\ Whole(Range(Todo))'
         /\ t = <<>> => Shape(Todo)' /\ Whole(Range(Todo))' /\ BuiltInv'
<1>1. Range(<<>>) = {} /\ <<>> \in Seq(Instrs)
  BY ShortGood
<1>2. Shape(<<>>) /\ Whole({}) /\ ~Building({})
  BY <1>1, AnyOrder DEF Shape, Whole, Building
<1>3. Shape(t) /\ Whole(Range(t)) => Shape(Todo)' /\ Whole(Range(Todo))'
  BY DEF Shape, Late, Led, Ends, Whole, Building
<1>4. t = <<>> => BuiltInv'
  BY <1>1, <1>2 DEF BuiltInv
<1> QED
  BY <1>1, <1>2, <1>3, <1>4

LEMMA ShapeGivesUp ==
  ASSUME TypeInv, ShapeInv, GivesUp
  PROVE  /\ ShapeInv'
         /\ Todo' # <<>> =>
              /\ Cmd \in Starters
              /\ Todo' \in {delete_iptables, <<Do("cat"), Do("mv")>> \o delete_iptables}
<1> DEFINE x == Todo[1]
           t == Todo'
<1>1. /\ Todo # <<>> /\ Cmd' = Cmd /\ ~Fine'
      /\ x.do \in {"start_daemon", "create", "insert", "ensure", "activate", "delete"}
      /\ t = IF x.do = "start_daemon" THEN delete_iptables ELSE fail_insert_iptables(Cmd, x.rule)
  BY DEF GivesUp
<1>2. /\ Todo \in Seq(Instrs) /\ x \in Range(Todo) /\ x \in Instrs
      /\ Cmd \in {"none", "stop"} \cup Starters \cup Configures
  BY <1>1, Whose, TailFacts
<1>3. Cmd \in Starters \/ Cmd \in Configures
  <2>1. CmdInv
    BY DEF ShapeInv
  <2>2. Cmd # "none"
    BY <1>1, <2>1 DEF CmdInv
  <2>3. Cmd # "stop"
    BY <1>1, <1>2, <2>1 DEF CmdInv, Clearing, Lines
  <2> QED
    BY <1>2, <2>2, <2>3
<1>4. x.do = "start_daemon" => Cmd \in Starters
  BY <1>2, <1>3 DEF ShapeInv, CmdInv, Changing
<1>5. t # <<>> => /\ Cmd \in Starters
                  /\ t \in {delete_iptables, <<Do("cat"), Do("mv")>> \o delete_iptables}
  BY <1>1, <1>4 DEF fail_insert_iptables
<1>6. CASE t = <<>>
  <2>1. Range(<<>>) = {}
    BY ShortGood
  <2>2. CmdInv'
    BY <1>1, <1>6, <2>1 DEF CmdInv, Changing, Steady
  <2> QED
    BY <1>5, <1>6, <2>2, ShapeOf DEF ShapeInv
<1>7. CASE t # <<>>
  <2>1. Shape(t) /\ \A y \in Range(t) : y \in {Do("cat"), Do("mv"), Do("sh"), Do("rm")}
    BY <1>5, <1>7, StopShape
  <2>2. \A y \in Range(t) : /\ y.do \in {"cat", "mv", "sh", "rm"} /\ y.rule = "-"
                            /\ Stage(y) = 0
    BY <2>1, Words, Fields
  <2>3. ~Building(Range(t))
    BY <2>2, Fields DEF Building
  <2>4. Whole(Range(t))
    BY <2>2, <2>3 DEF Whole
  <2>5. CmdInv'
    BY <1>1, <1>5, <1>7, <2>2 DEF CmdInv, Steady, Clearing, Starters, Configures
  <2>6. BuiltInv'
    BY <2>3 DEF BuiltInv
  <2> QED
    BY <1>5, <2>1, <2>4, <2>5, <2>6, ShapeOf DEF ShapeInv
<1> QED
  BY <1>5, <1>6, <1>7

LEMMA ShapeRunsScript ==
  ASSUME TypeInv, ShapeInv, RunsScript
  PROVE  /\ ShapeInv'
         /\ Todo' = script \o Tail(Todo) /\ Range(Todo') = Range(script) \cup Range(Tail(Todo))
         /\ Tail(Todo) # <<>> /\ Tail(Todo)[1].do \in {"rm"} \cup Lines
<1> DEFINE h == Todo[1]
           s == Tail(Todo)
           t == script \o s
           Q == Range(s)
           R == Range(Todo)
<1>1. /\ Todo # <<>> /\ h.do = "sh" /\ Cmd' = Cmd /\ Fine' = Fine /\ Todo' = t
      /\ Todo \in Seq(Instrs) /\ made' = made
  BY Whose DEF RunsScript, kernel
<1>2. /\ s \in Seq(Instrs) /\ R = {h} \cup Q
      /\ \A y \in Q : Before(h, y) /\ Later(h, y)
      /\ Shape(s) /\ s # <<>> /\ s[1].do \in {"rm"} \cup Lines
  <2>1. InOrder(Todo) /\ Adjacent(Todo) /\ Closed(R) /\ Shape(Todo)
    BY Whose DEF ShapeInv
  <2>2. /\ s \in Seq(Instrs) /\ R = {h} \cup Q
        /\ \A y \in Q : Before(h, y) /\ Later(h, y)
        /\ Shape(s)
        /\ s # <<>> => Leads(h, s[1])
        /\ s = <<>> => h.do \notin Going
    BY <1>1, <2>1, TailFacts, TailShape, ShapeTail
  <2> QED
    BY <1>1, <2>2 DEF Leads, Going
<1>3. Whole(Q) /\ (Building(R) => Building(Q))
  <2>1. Q # {}
    BY <1>2, InRange, TailFacts
  <2> QED
    BY <1>2, <2>1, WholeTail DEF ShapeInv
<1> DEFINE S == Range(script)
<1>4. /\ script \in Seq(Instrs) /\ Late(script) /\ Led(script)
      /\ \A x \in S : /\ x \in Instrs /\ x.do \in Lines /\ x.rule = "-" /\ Stage(x) = 0
                      /\ \A y : Later(x, y)
  BY Scripted DEF TypeInv, FilesOK
<1>5. /\ t \in Seq(Instrs) /\ Shape(t) /\ Range(t) = S \cup Q
  <2>1. Late(t) /\ Range(t) = S \cup Q /\ t \in Seq(Instrs)
    BY <1>2, <1>4, LateJoined DEF Shape
  <2>2. \A x \in S : Leads(x, s[1])
    BY <1>2, <1>4 DEF Leads, Lines, Ending
  <2>3. Led(t) /\ Ends(t)
    BY <1>2, <1>4, <2>2, LedJoined DEF Shape
  <2> QED
    BY <2>1, <2>3 DEF Shape
<1> HIDE DEF s, t, S, Q, R
<1>6. ~Building(S)
  BY <1>4, Fields DEF Building, Lines
<1>7. Whole(S \cup Q)
  <2>1. \A c : /\ On("record", c).do = "record" /\ On("create", c).do = "create"
               /\ Stage(On("create", c)) = 1
    BY Fields, Stages
  <2>2. Building(S \cup Q) => Building(R)
    BY <1>2, <1>6 DEF Building
  <2>3. \A c \in Set : On("record", c) # h /\ On("create", c) # h
    BY <1>1, <2>1
  <2>4. h \in R /\ h.do \in Clearing
    BY <1>1, <1>2 DEF Clearing
  <2>5. Building(R) => \A c \in Set : {On("record", c), On("create", c)} \subseteq Q
    BY <1>2, <2>3, <2>4 DEF ShapeInv, Whole, R
  <2>6. \A x \in S : ~(Stage(x) > 0) /\ x.do \notin {"record", "remember"} /\ x.rule # "local"
    BY <1>4 DEF Lines
  <2> QED
    BY <1>3, <2>2, <2>5, <2>6 DEF Whole, Building
<1>8. CmdInv'
  <2>1. CmdInv /\ Range(Todo)' = S \cup Q
    BY <1>1, <1>5 DEF ShapeInv
  <2>2. Cmd # "none"
    BY <1>1, <2>1 DEF CmdInv
  <2>3. Cmd \notin Configures
    BY <1>1, <1>2, <2>1 DEF CmdInv, Changing, R
  <2>4. \A x \in S : x.do \in Clearing /\ x.rule = "-"
    BY <1>4 DEF Clearing
  <2>5. Cmd = "stop" => \A x \in S \cup Q : x.do \in Clearing \cup {"killproc"}
    BY <1>2, <2>1, <2>4 DEF CmdInv, R
  <2>6. ~Fine => \A x \in S \cup Q : x.do \in Clearing \cup {"cat", "mv"}
    BY <1>2, <2>1, <2>4 DEF CmdInv, R
  <2>7. Cmd \in Starters => Steady(S \cup Q)
    <3>1. Cmd \in Starters => Steady(R)
      BY <2>1 DEF CmdInv, R
    <3> QED
      BY <1>2, <1>4, <3>1 DEF Steady, Lines
  <2>8. Cmd \in Starters /\ Fine => Building(S \cup Q)
    <3>1. Cmd \in Starters /\ Fine => Building(R)
      BY <1>1, <2>1 DEF CmdInv, R
    <3> QED
      BY <1>3, <3>1 DEF Building
  <2> QED
    BY <1>1, <2>1, <2>2, <2>3, <2>5, <2>6, <2>7, <2>8 DEF CmdInv
<1>9. BuiltInv'
  <2>1. Building(S \cup Q) => Building(R)
    BY <1>2, <1>6 DEF Building
  <2>2. \A c : h # On("create", c)
    BY <1>1, Fields
  <2>3. Building(R) => \A c \in Set : On("create", c) \in Q \/ c \in made
    BY <1>2, <2>2 DEF ShapeInv, BuiltInv, R
  <2> QED
    BY <1>1, <1>5, <2>1, <2>3 DEF BuiltInv
<1>10. Shape(Todo)' /\ Whole(Range(Todo))'
  BY <1>1, <1>5, <1>7, ShapeOf
<1> QED
  BY <1>1, <1>2, <1>5, <1>8, <1>9, <1>10 DEF ShapeInv, s, t, S, Q


(* The instruction that is executed, and what comes after it. *)
LEMMA Advancing ==
  ASSUME TypeInv, ShapeInv, Advances
  PROVE  LET x == Todo[1]
             Q == Range(Todo')
         IN  /\ Todo # <<>> /\ x \in Instrs /\ x.do # "sh" /\ Range(Todo) = {x} \cup Q
             /\ x.do \in OnChains => x.chain \in Set
             /\ Todo' = Tail(Todo) /\ Todo' \in Seq(Instrs)
             /\ \A y \in Q : Before(x, y) /\ Later(x, y)
             /\ Todo' # <<>> => /\ Leads(x, Todo'[1]) /\ Follows(x, Todo'[1])
                                /\ Todo'[1] \in Q
             /\ Todo' = <<>> => x.do \notin Going
             /\ Q = {} <=> Todo' = <<>>
             /\ Building(Range(Todo)) => Q = {} \/ Building(Q)
             /\ Len(Todo) \in Nat \ {0} /\ Len(Todo') = Len(Todo) - 1
             /\ \A n \in 1 .. Len(Todo) - 1 : Todo'[n] = Todo[n + 1]
             /\ Shape(Tail(Todo)) /\ Whole(Q)
<1> DEFINE x == Todo[1]
           s == Tail(Todo)
           Q == Range(s)
           R == Range(Todo)
<1>1. /\ Todo # <<>> /\ x.do # "sh" /\ Todo' = s
      /\ Todo \in Seq(Instrs) /\ InOrder(Todo) /\ Adjacent(Todo) /\ Closed(R) /\ Shape(Todo)
  BY Whose DEF Advances, ShapeInv
<1>2. /\ x \in Instrs /\ s \in Seq(Instrs) /\ R = {x} \cup Q
      /\ \A y \in Q : Before(x, y) /\ Later(x, y)
      /\ Shape(s)
      /\ s # <<>> => Leads(x, s[1])
      /\ s = <<>> => x.do \notin Going
      /\ Len(Todo) \in Nat \ {0} /\ Len(s) = Len(Todo) - 1
      /\ \A n \in 1 .. Len(Todo) - 1 : s[n] = Todo[n + 1]
  BY <1>1, TailFacts, TailShape, ShapeTail
<1>3. s # <<>> => Follows(x, s[1])
  BY <1>1, QuietAfter
<1>4. /\ s # <<>> => s[1] \in Q
      /\ s = <<>> => Q = {}
  <2>1. s \in Seq(Instrs)
    BY <1>2
  <2> HIDE DEF s
  <2> QED
    BY <2>1, TailFacts, ShortGood
<1>5. Whole(Q) /\ (Building(R) => Q = {} \/ Building(Q))
  BY <1>2, WholeTail DEF ShapeInv
<1>6. x.do \in OnChains => x.chain \in Set
  BY <1>2 DEF Instrs
<1> HIDE DEF x, s, Q, R
<1> QED
  BY <1>1, <1>2, <1>3, <1>4, <1>5, <1>6 DEF x, s, Q, R

LEMMA ShapeAdvances ==
  ASSUME TypeInv, ShapeInv, Advances
  PROVE  ShapeInv'
<1> DEFINE x == Todo[1]
           Q == Range(Todo')
           R == Range(Todo)
<1>1. /\ Todo # <<>> /\ R = {x} \cup Q /\ Shape(Tail(Todo)) /\ Whole(Q)
      /\ Todo' = Tail(Todo)
      /\ \A y \in Q : Before(x, y)
      /\ x.do \in OnChains => x.chain \in Set
      /\ x \in Instrs
      /\ Q = {} <=> Todo' = <<>>
      /\ Building(R) => Q = {} \/ Building(Q)
  BY Advancing
<1>2. Cmd' = Cmd /\ Fine' = Fine /\ (Ordered(x) \/ (x.do \in Lines /\ made' = made))
  BY DEF Advances, Misses, kernel
<1> HIDE DEF x, Q, R
<1>3. Shape(Todo)' /\ Whole(Range(Todo))'
  BY <1>1, ShapeOf DEF Q
<1>4. CmdInv'
  <2>1. Cmd # "none"
    BY <1>1 DEF ShapeInv, CmdInv
  <2>2. Cmd \in Configures => Changing(Q)
    BY <1>1 DEF ShapeInv, CmdInv, Changing, R
  <2>3. /\ Cmd = "stop" => \A y \in Q : y.do \in Clearing \cup {"killproc"}
        /\ ~Fine => \A y \in Q : y.do \in Clearing \cup {"cat", "mv"}
    BY <1>1 DEF ShapeInv, CmdInv, R
  <2>4. Cmd \in Starters => Steady(Q) /\ (Fine => Todo' = <<>> \/ Building(Q))
    BY <1>1 DEF ShapeInv, CmdInv, Steady, R
  <2> QED
    BY <1>2, <2>1, <2>2, <2>3, <2>4 DEF CmdInv, Q
<1>5. BuiltInv'
  <2> SUFFICES ASSUME Building(Q), NEW c \in Set PROVE On("create", c) \in Q \/ c \in made'
    BY DEF BuiltInv, Q
  <2>1. On("create", c) \in R \/ c \in made
    BY <1>1 DEF ShapeInv, BuiltInv, R, Building
  <2>2. CASE x = On("create", c)
    <3>1. x.do = "create" /\ x.chain = c
      BY <2>2, Fields
    <3> QED
      BY <1>2, <3>1 DEF Ordered, Lines
  <2>3. CASE x.do = "X"
    <3>1. Building(R) /\ x \in R /\ x.do \in Clearing
      BY <1>1, <2>3 DEF Building, Clearing, Lines
    <3>2. On("create", c) \in R
      BY <3>1 DEF ShapeInv, Whole, R
    <3>3. x # On("create", c)
      BY <2>3, Fields
    <3> QED
      BY <1>1, <3>2, <3>3
  <2>4. CASE x # On("create", c) /\ x.do # "X"
    <3>1. made \subseteq made'
      BY <1>2, <2>4 DEF Ordered
    <3> QED
      BY <1>1, <2>1, <2>4, <3>1
  <2> QED
    BY <2>2, <2>3, <2>4
<1> QED
  BY <1>3, <1>4, <1>5 DEF ShapeInv

LEMMA NextShape == TypeInv /\ HookIdle /\ ShapeInv /\ [Next]_vars => ShapeInv'
<1> SUFFICES ASSUME TypeInv, HookIdle, ShapeInv, [Next]_vars
             PROVE  ShapeInv'
  OBVIOUS
<1>1. Range(<<>>) = {}
  BY ShortGood
<1>2. CASE Leaves \/ Exits \/ Killed \/ Rebooted
  <2>1. Cmd' = "none" /\ Todo' = <<>> /\ Fine'
    BY <1>2 DEF Leaves, Exits, Killed, Rebooted
  <2>2. CmdInv'
    BY <1>1, <2>1 DEF CmdInv, Configures, Starters
  <2> QED
    BY <2>1, <2>2, ShapeOf DEF ShapeInv
<1>3. CASE Declines
  <2>1. Cmd' = Cmd /\ Todo' = <<>> /\ Fine'
    BY <1>3 DEF Declines
  <2>2. CmdInv'
    BY <1>1, <2>1 DEF CmdInv, Changing, Steady
  <2> QED
    BY <2>1, <2>2, ShapeOf DEF ShapeInv
<1>4. CASE HookMoves \/ Elsewhere
  <2>1. Cmd' = Cmd /\ Todo' = Todo /\ Fine' = Fine /\ made' = made
    BY <1>4 DEF HookMoves, Elsewhere, kernel
  <2>2. Shape(Todo)' /\ Whole(Range(Todo))'
    BY <2>1, ShapeOf DEF ShapeInv
  <2>3. CmdInv' /\ BuiltInv'
    BY <2>1 DEF ShapeInv, CmdInv, BuiltInv
  <2> QED
    BY <2>2, <2>3 DEF ShapeInv
<1> QED
  BY <1>2, <1>3, <1>4, Moves, ShapeBegins, ShapeGivesUp, ShapeRunsScript, ShapeAdvances

LEMMA InitShape == Init => HookIdle /\ ShapeInv
<1> SUFFICES ASSUME Init PROVE HookIdle /\ ShapeInv
  OBVIOUS
<1>1. Cmd = "none" /\ Todo = <<>> /\ Fine /\ proc["hook"] = Idle
  BY DEF Init, Procs, Cmd, Todo, Fine, Idle
<1>2. Range(<<>>) = {} /\ <<>> \in Seq(Instrs)
  BY ShortGood
<1>3. Shape(Todo) /\ Whole(Range(Todo)) /\ BuiltInv
  BY <1>1, <1>2, AnyOrder DEF Shape, Whole, Building, BuiltInv
<1>4. CmdInv
  BY <1>1, <1>2 DEF CmdInv, Configures, Starters
<1> QED
  BY <1>1, <1>3, <1>4 DEF HookIdle, ShapeInv


-----------------------------------------------------------------------------
(* Traffic is released *)

Now(S) == Todo # <<>> /\ Todo[1].do \in S

(* What has a queue, and no failure to flush it is the reason.               *)
Held(c) == Queued(c) /\ On("F", c) \notin lost
Sent(c) == jump[c] > 0 /\ Held(c)

(* What sends packets to pgld is flushed by a line of the script, until it   *)
(* has been, or that line has failed.                                        *)
QueueInv ==
  \A c \in Set :
    /\ Held(c) => On("F", c) \in Range(script)
    /\ Held(c) /\ Now(Lines \cup {"rm"}) => On("F", c) \in Range(Todo)
    /\ Rule("insert", c, "queue") \in Range(Todo) =>
         On("record", c) \in Range(Todo) \/ On("F", c) \in Range(script)

NoRemoval == Do("rm") \notin Range(Todo)

FreeInv ==
  /\ (Cmd = "stop" /\ NoRemoval) \/ (result = "down" /\ Cmd \notin Starters) =>
       \A c \in Set : ~Held(c)
  /\ (Cmd \in Starters /\ ~Fine /\ NoRemoval) \/ (result = "failed" /\ Cmd \notin Starters) =>
       \A c \in Set : ~Sent(c)

(* How an instruction changes what is sent to pgld. *)
LEMMA QueuedAfter ==
  ASSUME TypeInv, ShapeInv, Advances, NEW c \in Set
  PROVE  LET x == Todo[1]
         IN  /\ Held(c)' => /\ Held(c) \/ x = Rule("insert", c, "queue")
                            /\ x # On("F", c)
             /\ jump'[c] > 0 => jump[c] > 0 \/ x.do = "activate"
<1> DEFINE x == Todo[1]
           s == chain[c]
           u == chain'[c]
<1>1. /\ x \in Instrs /\ (x.do \in OnChains => x.chain \in Set)
      /\ chain \in [Set -> Seq(Rules)] /\ jump \in [Set -> Nat]
      /\ s \in Seq(Rules)
  BY Advancing DEF Advances, TypeInv, TypeOK
<1>2. /\ x.do \in Inserting => x.rule \in Rules
      /\ x.do = "ensure" => x.rule \in {"port", "local"}
      /\ x.do = "delete" => x.rule = "port"
      /\ x.do = "insert" => x = Rule("insert", x.chain, x.rule)
  BY <1>1 DEF Instrs, Inserting, Rules, Instruction, Rule
<1>20. CASE Misses(x)
  <2>1. /\ chain' = chain /\ jump' = jump /\ x.do \in Lines
        /\ On("F", c) \in lost' <=> On("F", c) \in lost \/ x = On("F", c)
    BY <1>20 DEF Misses, kernel
  <2> HIDE DEF x
  <2> QED
    BY <2>1 DEF Held, Queued, x
<1> SUFFICES ASSUME Ordered(x)
             PROVE  /\ Held(c)' => /\ Held(c) \/ x = Rule("insert", c, "queue")
                                   /\ x # On("F", c)
                    /\ jump'[c] > 0 => jump[c] > 0 \/ x.do = "activate"
  BY <1>20 DEF Advances
<1>3. \/ u = s /\ ~(x.do = "F" /\ x.chain = c)
      \/ u = <<x.rule>> \o s /\ x.do \in Inserting /\ x.chain = c
      \/ u = RemoveFirst(s, "port") /\ x.do = "delete"
      \/ u = <<>> /\ x.do = "F" /\ x.chain = c
  <2> USE DEF Ordered
  <2>1. CASE x.do = "insert"
    BY <1>1, <2>1 DEF OnChains, Inserting
  <2>2. CASE x.do = "ensure"
    BY <1>1, <2>2 DEF OnChains, Inserting
  <2>3. CASE x.do = "delete"
    BY <1>1, <1>2, <2>3 DEF OnChains
  <2>4. CASE x.do = "F"
    BY <1>1, <2>4 DEF OnChains, Lines
  <2>5. CASE x.do \notin {"insert", "ensure", "delete", "F"}
    BY <1>1, <2>5
  <2> QED
    BY <2>1, <2>2, <2>3, <2>4, <2>5
<1>4. jump'[c] > 0 => jump[c] > 0 \/ x.do = "activate"
  <2>1. CASE x.do = "activate"
    BY <2>1
  <2>2. CASE x.do = "D"
    <3>1. x.chain \in Set /\ jump' = [jump EXCEPT ![x.chain] = IF @ > 0 THEN @ - 1 ELSE 0]
      BY <1>1, <2>2 DEF Ordered, OnChains, Lines
    <3> QED
      BY <1>1, <3>1
  <2>3. CASE x.do \notin {"activate", "D"}
    BY <1>1, <2>3 DEF Ordered
  <2> QED
    BY <2>1, <2>2, <2>3
<1>21. x # On("F", c) /\ On("F", c) \in lost => On("F", c) \in lost'
  BY DEF Ordered
<1> HIDE DEF x, s, u
<1>5. ASSUME "queue" \in Range(u)
      PROVE  ("queue" \in Range(s) \/ x = Rule("insert", c, "queue")) /\ x # On("F", c)
  <2>1. On("F", c).do = "F" /\ On("F", c).chain = c
    BY Fields
  <2>2. CASE u = <<x.rule>> \o s /\ x.do \in Inserting /\ x.chain = c
    <3>1. Range(u) = {x.rule} \cup Range(s)
      BY <1>1, <1>2, <2>2, Prepended
    <3>2. x.rule = "queue" => x = Rule("insert", c, "queue")
      BY <1>2, <2>2 DEF Inserting
    <3> QED
      BY <1>5, <2>1, <2>2, <3>1, <3>2 DEF Inserting
  <2>3. CASE u = RemoveFirst(s, "port") /\ x.do = "delete"
    BY <1>1, <1>5, <2>1, <2>3, Removed
  <2>4. CASE u = <<>>
    BY <1>5, <2>4, ShortGood
  <2> QED
    BY <1>3, <1>5, <2>1, <2>2, <2>3, <2>4
<1> QED
  BY <1>4, <1>5, <1>21 DEF Held, Queued, x, s, u

(* The script loses a line only when it is removed. *)
LEMMA LinesStay ==
  ASSUME TypeInv, RecordInv, ShapeInv, Advances
  PROVE  /\ Todo[1].do # "rm" => Range(script) \subseteq Range(script')
         /\ \A c \in Set : Todo[1] = On("record", c) => On("F", c) \in Range(script')
<1> DEFINE x == Todo[1]
           c == x.chain
           new == <<On("F", c), On("X", c)>>
<1>1. /\ x \in Instrs /\ (x.do \in OnChains => c \in Set) /\ Writes(x) /\ Todo # <<>>
      /\ script \in Seq(Instrs)
  BY Advancing, Scripted DEF Advances, TypeInv, FilesOK
<1>2. ASSUME x.do = "record"
      PROVE  /\ script' = script \o new /\ new \in Seq(Instrs)
             /\ Range(new) = {On("F", c), On("X", c)}
  <2>1. c \in Set
    BY <1>1, <1>2 DEF OnChains
  <2>2. On("F", c) \in Instrs /\ On("X", c) \in Instrs
    BY <2>1, Words
  <2> QED
    BY <1>1, <1>2, <2>2, ShortGood DEF Writes
<1>3. x.do = "mv" => Range(script) \subseteq Range(tmp)
  BY <1>1 DEF RecordInv, RemembersFirst
<1> HIDE DEF x, c, new
<1>4. ASSUME x.do = "record"
      PROVE  Range(script') = Range(script) \cup {On("F", c), On("X", c)}
  <2>1. Range(script \o new) = Range(script) \cup Range(new)
    BY <1>1, <1>2, <1>4, RangeConcatenation
  <2> QED
    BY <1>2, <1>4, <2>1
<1>5. x.do # "rm" => Range(script) \subseteq Range(script')
  <2>1. CASE x.do = "record"
    BY <1>4, <2>1
  <2>2. CASE x.do = "mv"
    BY <1>1, <1>3, <2>2 DEF Writes
  <2>3. CASE x.do \notin {"record", "mv", "rm"}
    BY <1>1, <2>3 DEF Writes
  <2> QED
    BY <2>1, <2>2, <2>3
<1>6. \A d \in Set : x = On("record", d) => x.do = "record" /\ c = d
  BY Fields DEF c, x
<1> QED
  BY <1>4, <1>5, <1>6 DEF x


LEMMA TrafficAdvances ==
  ASSUME TypeInv, RecordInv, ShapeInv, QueueInv, FreeInv, Advances
  PROVE  QueueInv' /\ FreeInv'
<1> DEFINE x == Todo[1]
           Q == Range(Todo')
           R == Range(Todo)
<1>1. /\ Todo # <<>> /\ x \in Instrs /\ x.do # "sh" /\ R = {x} \cup Q
      /\ \A y \in Q : Before(x, y) /\ Later(x, y)
      /\ Todo' # <<>> => Follows(x, Todo'[1]) /\ Todo'[1] \in Q
  BY Advancing
<1>2. Cmd' = Cmd /\ Fine' = Fine /\ result' = result
  BY DEF Advances
<1>3. Whole(R) /\ CmdInv
  BY DEF ShapeInv, R
<1> HIDE DEF Q, R
<1>4. \A c : /\ On("F", c).do = "F" /\ On("record", c).do = "record"
             /\ On("record", c).chain = c
             /\ Rule("insert", c, "queue").do = "insert"
             /\ Rule("insert", c, "queue").chain = c
             /\ Stage(Rule("insert", c, "queue")) = 2
             /\ Do("rm").do = "rm"
  BY Fields DEF Stage, Inserting
<1>5. /\ x.do # "rm" => Range(script) \subseteq Range(script')
      /\ \A c \in Set : x = On("record", c) => On("F", c) \in Range(script')
  BY LinesStay
<1>6. ASSUME NEW c \in Set, Held(c)'
      PROVE  /\ Held(c) \/ x = Rule("insert", c, "queue")
             /\ x # On("F", c)
  BY <1>6, QueuedAfter
<1>7. ASSUME NEW c \in Set, Held(c) PROVE x.do # "rm"
  <2> SUFFICES ASSUME x.do = "rm" PROVE FALSE
    OBVIOUS
  <2>1. On("F", c) \in R
    BY <1>1, <1>7 DEF QueueInv, Now, R
  <2>2. On("F", c) \in Q
    BY <1>1, <1>4, <2>1
  <2> QED
    BY <1>1, <1>4, <2>2 DEF Before, Lines
<1>8. ASSUME NEW c \in Set, Rule("insert", c, "queue") \in R, x.do = "rm"
      PROVE  On("record", c) \in Q
  <2>1. On("record", c) \in R
    BY <1>1, <1>3, <1>4, <1>8 DEF Whole, Clearing
  <2> QED
    BY <1>1, <1>4, <1>8, <2>1
<1>9. ASSUME NEW c \in Set, Held(c)' PROVE On("F", c) \in Range(script')
  <2>1. CASE Held(c)
    BY <1>5, <1>7, <2>1 DEF QueueInv
  <2>2. CASE x = Rule("insert", c, "queue")
    <3>1. On("record", c) \notin Q
      BY <1>1, <1>4, <2>2 DEF Later
    <3>2. On("F", c) \in Range(script)
      BY <1>1, <1>4, <2>2, <3>1 DEF QueueInv, R
    <3> QED
      BY <1>4, <1>5, <2>2, <3>2
  <2> QED
    BY <1>6, <1>9, <2>1, <2>2
<1>10. ASSUME NEW c \in Set, Held(c)', Todo' # <<>>, Todo'[1].do \in Lines \cup {"rm"}
       PROVE  On("F", c) \in Q
  <2>1. x.do \in Lines
    BY <1>1, <1>10 DEF Before, Follows, Lines
  <2>2. Held(c) /\ x # On("F", c)
    BY <1>4, <1>6, <1>10, <2>1 DEF Lines
  <2>3. On("F", c) \in R
    BY <1>1, <2>1, <2>2 DEF QueueInv, Now, R
  <2> QED
    BY <1>1, <2>2, <2>3
<1>11. ASSUME NEW c \in Set, Rule("insert", c, "queue") \in Q
       PROVE  On("record", c) \in Q \/ On("F", c) \in Range(script')
  <2>1. On("record", c) \in R \/ On("F", c) \in Range(script)
    BY <1>1, <1>11 DEF QueueInv, R
  <2> QED
    BY <1>1, <1>5, <1>8, <1>11, <2>1
<1>12. QueueInv'
  BY <1>9, <1>10, <1>11 DEF QueueInv, Now, Q
<1>13. ASSUME Do("rm") \notin Q, Do("rm") \in R, NEW c \in Set PROVE ~Held(c)
  BY <1>1, <1>4, <1>7, <1>13
<1>14. Cmd \in {"none", "stop"} \cup Starters \cup Configures
  BY Whose
<1>15. Cmd \notin Starters \/ ~Fine => x.do \notin {"insert", "activate"}
  <2>1. x \in R
    BY <1>1
  <2>2. Cmd # "none"
    BY <1>1, <1>3 DEF CmdInv
  <2>3. Cmd = "stop" => x.do \notin {"insert", "activate"}
    BY <1>3, <2>1 DEF CmdInv, Clearing, Lines, R
  <2>4. Cmd \in Configures => x.do \notin {"insert", "activate"}
    BY <1>3, <2>1 DEF CmdInv, Changing, R
  <2>5. ~Fine => x.do \notin {"insert", "activate"}
    BY <1>3, <2>1 DEF CmdInv, Clearing, Lines, R
  <2> QED
    BY <1>14, <2>2, <2>3, <2>4, <2>5
<1>16. ASSUME NEW c \in Set, (Cmd = "stop" /\ Do("rm") \notin Q)
                               \/ (result = "down" /\ Cmd \notin Starters)
       PROVE  ~Held(c)'
  <2>1. Cmd \notin Starters
    BY <1>16 DEF Starters
  <2>2. ~Held(c)
    BY <1>13, <1>16 DEF FreeInv, NoRemoval, R
  <2> QED
    BY <1>4, <1>6, <1>15, <2>1, <2>2
<1>17. ASSUME NEW c \in Set, (Cmd \in Starters /\ ~Fine /\ Do("rm") \notin Q)
                               \/ (result = "failed" /\ Cmd \notin Starters)
       PROVE  ~Sent(c)'
  <2>1. Cmd \notin Starters \/ ~Fine
    BY <1>17
  <2>2. ~Sent(c) \/ ~Held(c)
    BY <1>13, <1>17 DEF FreeInv, NoRemoval, R
  <2>3. Sent(c) <=> jump[c] > 0 /\ Held(c)
    BY DEF Sent
  <2>4. Sent(c)' <=> jump'[c] > 0 /\ Held(c)'
    BY DEF Sent
  <2>5. jump'[c] > 0 => jump[c] > 0 \/ x.do = "activate"
    BY QueuedAfter
  <2> QED
    BY <1>4, <1>6, <1>15, <2>1, <2>2, <2>3, <2>4, <2>5
<1>18. FreeInv'
  BY <1>2, <1>16, <1>17 DEF FreeInv, NoRemoval, Q
<1> QED
  BY <1>12, <1>18

LEMMA TrafficRunsScript ==
  ASSUME TypeInv, ShapeInv, QueueInv, FreeInv, RunsScript
  PROVE  QueueInv' /\ FreeInv'
<1> DEFINE Q == Range(Todo')
           R == Range(Todo)
           T == Range(Tail(Todo))
           S == Range(script)
<1>1. Q = S \cup T
  BY ShapeRunsScript
<1>2. /\ R = {Todo[1]} \cup T /\ Todo[1].do = "sh"
      /\ Cmd' = Cmd /\ Fine' = Fine /\ result' = result /\ script' = script
      /\ jump' = jump /\ chain' = chain /\ lost' = lost
  BY Whose, TailFacts DEF RunsScript, history, files, kernel
<1>3. \A x \in S : x.do \in Lines
  BY Scripted DEF TypeInv, FilesOK
<1> HIDE DEF Q, R, T, S
<1>4. \A c : /\ Rule("insert", c, "queue") # Todo[1] /\ On("record", c) # Todo[1]
             /\ Rule("insert", c, "queue") \notin S
             /\ Do("rm") # Todo[1]
  BY <1>2, <1>3, Fields DEF Lines
<1>5. QueueInv'
  BY <1>1, <1>2, <1>4 DEF QueueInv, Held, Queued, Now, Q, R, S
<1>6. Do("rm") \notin Q => Do("rm") \notin R
  BY <1>1, <1>2, <1>4
<1>7. FreeInv'
  BY <1>2, <1>6 DEF FreeInv, NoRemoval, Held, Queued, Sent, Q, R
<1> QED
  BY <1>5, <1>7

(* What is left to do after a failure. *)
LEMMA GaveUp ==
  ASSUME TypeInv, ShapeInv, GivesUp
  PROVE  /\ Todo' # <<>> => Do("rm") \in Range(Todo') /\ Todo'[1].do \in {"sh", "cat"}
         /\ \A y \in Range(Todo') : y.do \in {"cat", "mv", "sh", "rm"}
<1> DEFINE t == Todo'
<1>1. t # <<>> => t \in {delete_iptables, <<Do("cat"), Do("mv")>> \o delete_iptables}
  BY ShapeGivesUp
<1>2. t # <<>> => /\ Do("rm") \in Range(t)
                  /\ \A y \in Range(t) : y \in {Do("cat"), Do("mv"), Do("sh"), Do("rm")}
  BY <1>1, StopShape
<1>3. t # <<>> => t[1] \in {Do("cat"), Do("sh")}
  BY <1>1, StopGood
<1>4. t = <<>> => Range(t) = {}
  BY ShortGood
<1> HIDE DEF t
<1>5. /\ t # <<>> => t[1].do \in {"sh", "cat"}
      /\ \A y \in Range(t) : y.do \in {"cat", "mv", "sh", "rm"}
  BY <1>2, <1>3, <1>4, Fields
<1> QED
  BY <1>2, <1>5 DEF t

LEMMA TrafficGivesUp ==
  ASSUME TypeInv, ChainInv, ShapeInv, QueueInv, FreeInv, GivesUp
  PROVE  QueueInv' /\ FreeInv'
<1> DEFINE x == Todo[1]
           t == Todo'
           R == Range(Todo)
<1>1. /\ Todo # <<>> /\ Cmd' = Cmd /\ ~Fine' /\ result' = result /\ script' = script
      /\ jump' = jump /\ chain' = chain /\ lost' = lost
      /\ x.do \in {"start_daemon", "create", "insert", "ensure", "activate", "delete"}
      /\ t = IF x.do = "start_daemon" THEN delete_iptables ELSE fail_insert_iptables(Cmd, x.rule)
  BY DEF GivesUp, history, files, kernel
<1>2. /\ Todo \in Seq(Instrs) /\ x \in R /\ x \in Instrs
      /\ R = {x} \cup Range(Tail(Todo))
      /\ \A y \in Range(Tail(Todo)) : Later(x, y)
  BY <1>1, Whose, TailFacts, ShapeTail DEF ShapeInv
<1>3. /\ t # <<>> => Do("rm") \in Range(t) /\ t[1].do \in {"sh", "cat"}
      /\ \A y \in Range(t) : y.do \in {"cat", "mv", "sh", "rm"}
  BY GaveUp
<1>4. CmdInv /\ Whole(R)
  BY DEF ShapeInv, R
<1> HIDE DEF R, t
<1>5. Cmd # "stop"
  BY <1>1, <1>2, <1>4 DEF CmdInv, Clearing, Lines, R
<1>6. ASSUME t = <<>>, Cmd \in Starters, NEW c \in Set PROVE ~Sent(c)
  <2>1. x.rule = "local"
    BY <1>1, <1>6 DEF fail_insert_iptables, delete_iptables
  <2>2. On("activate", c) \in R
    BY <1>2, <1>4, <2>1 DEF Whole
  <2>3. On("create", c) \notin R
    <3>1. On("create", c).do = "create" /\ On("create", c).rule = "-"
      BY Fields
    <3> QED
      BY <1>2, <2>1, <3>1 DEF Later
  <2>4. jump[c] = 0
    BY <2>2, <2>3 DEF ChainInv, Prepared, Underway, R
  <2> QED
    BY <2>4 DEF Sent
<1>7. QueueInv'
  <2>1. \A c : Rule("insert", c, "queue").do = "insert"
    BY Fields
  <2>2. \A c : Rule("insert", c, "queue") \notin Range(t)
    BY <1>3, <2>1
  <2>3. ~Now(Lines \cup {"rm"})'
    BY <1>3 DEF Now, Lines, t
  <2> QED
    BY <1>1, <2>2, <2>3 DEF QueueInv, Held, Queued, t
<1>8. FreeInv'
  BY <1>1, <1>3, <1>5, <1>6 DEF FreeInv, NoRemoval, Held, Queued, Sent, t
<1> QED
  BY <1>7, <1>8

LEMMA NextTraffic ==
  ASSUME TypeInv, ChainInv, RecordInv, HookIdle, ShapeInv, QueueInv, FreeInv, [Next]_vars
  PROVE  QueueInv' /\ FreeInv'
<1>1. Range(<<>>) = {}
  BY ShortGood
<1>2. ASSUME NEW cmd \in Starters \cup Configures \cup {"stop"}, Begins(cmd)
      PROVE  QueueInv' /\ FreeInv'
  <2> DEFINE t == Program(cmd, conf)
             R == Range(t)
  <2>1. conf \in BOOLEAN /\ (cmd = "restart_not_wd" => "repair" \in may)
    BY <1>2 DEF Begins, TypeInv, TypeOK
  <2>2. /\ t[1].do \notin Lines \cup {"rm"} /\ Whole(R)
        /\ cmd = "stop" => Do("rm") \in R
        /\ cmd \in Starters => \A c \in Set : On("record", c) \in R
    BY <2>1, ProgramShape
  <2>3. \A y \in R : Stage(y) > 0 => cmd \in Starters \cup Configures
    <3>1. cmd = "stop" => R = {Do("sh"), Do("rm"), Do("killproc")}
      BY <2>1, ProgramShape
    <3>2. \A y \in {Do("sh"), Do("rm"), Do("killproc")} : Stage(y) = 0
      BY Words
    <3> QED
      BY <3>1, <3>2
  <2>4. cmd \in Configures => \A y \in R : y.do # "insert"
    <3>1. cmd \in Configures => \A y \in R : y = Do("if_running") \/ y.do \in {"ensure", "delete"}
      BY <2>1, ProgramShape
    <3> QED
      BY <3>1, Fields
  <2>5. \A c \in Set : Rule("insert", c, "queue") \in R => On("record", c) \in R
    BY <2>2, <2>3, <2>4, Fields, Stages DEF Stage, Inserting
  <2>6. /\ Todo' = t /\ Cmd' = cmd /\ Fine' /\ Cmd = "none" /\ result' = result
        /\ script' = script /\ chain' = chain /\ jump' = jump /\ lost' = lost
    BY <1>2 DEF Begins, files, kernel, history
  <2> HIDE DEF t, R
  <2>7. QueueInv'
    BY <2>2, <2>5, <2>6 DEF QueueInv, Held, Queued, Now, R
  <2>8. FreeInv'
    BY <2>2, <2>6 DEF FreeInv, NoRemoval, Held, Queued, Sent, R, Starters
  <2> QED
    BY <2>7, <2>8
<1>3. CASE Leaves
  <2>1. /\ Todo = <<>> /\ Todo' = <<>> /\ Cmd' = "none" /\ Cmd # "none"
        /\ result' = CASE Cmd = "stop" -> "down"
                       [] Cmd \in Starters -> IF Fine THEN "up" ELSE "failed"
                       [] OTHER -> result
        /\ script' = script /\ chain' = chain /\ jump' = jump /\ lost' = lost
    BY <1>3 DEF Leaves, files, kernel
  <2>2. QueueInv'
    BY <1>1, <2>1 DEF QueueInv, Held, Queued, Now
  <2>3. NoRemoval
    BY <1>1, <2>1 DEF NoRemoval
  <2>4. /\ result' = "down" => Cmd = "stop" \/ (result = "down" /\ Cmd \notin Starters)
        /\ result' = "failed" => (Cmd \in Starters /\ ~Fine)
                                   \/ (result = "failed" /\ Cmd \notin Starters)
    BY <2>1 DEF Starters
  <2>5. FreeInv'
    BY <2>1, <2>3, <2>4 DEF FreeInv, Held, Queued, Sent, Starters
  <2> QED
    BY <2>2, <2>5
<1>4. CASE Declines
  <2>1. /\ Todo # <<>> /\ Todo[1].do \in {"if_running", "unless_running"}
        /\ Todo' = <<>> /\ Cmd' = Cmd /\ Fine' /\ result' = result
        /\ script' = script /\ chain' = chain /\ jump' = jump /\ lost' = lost
    BY <1>4 DEF Declines, files, kernel, history
  <2>2. QueueInv'
    BY <1>1, <2>1 DEF QueueInv, Held, Queued, Now
  <2>3. Cmd # "stop"
    <3>1. Todo[1] \in Range(Todo)
      BY <2>1, Whose, TailFacts
    <3> QED
      BY <2>1, <3>1 DEF ShapeInv, CmdInv, Clearing, Lines
  <2>4. FreeInv'
    BY <2>1, <2>3 DEF FreeInv, Held, Queued, Sent
  <2> QED
    BY <2>2, <2>4
<1>5. CASE Exits \/ Killed \/ Rebooted
  <2>1. Todo' = <<>> /\ Cmd' = "none" /\ result' \in {"dead", "exited"} /\ script' = script
    BY <1>5 DEF Exits, Killed, Rebooted, files
  <2>2. \A c \in Set : Held(c)' => Held(c)
    <3>1. CASE Exits \/ Killed
      BY <3>1 DEF Exits, Killed, kernel, Held, Queued
    <3>2. CASE Rebooted
      <4>1. \A c \in Set : chain'[c] = <<>>
        BY <3>2 DEF Rebooted
      <4> QED
        BY <1>1, <4>1 DEF Held, Queued
    <3> QED
      BY <1>5, <3>1, <3>2
  <2>3. QueueInv'
    BY <1>1, <2>1, <2>2 DEF QueueInv, Now
  <2>4. FreeInv'
    BY <2>1 DEF FreeInv, Starters
  <2> QED
    BY <2>3, <2>4
<1>6. CASE HookMoves \/ Elsewhere
  <2>1. /\ Todo' = Todo /\ Cmd' = Cmd /\ Fine' = Fine /\ result' = result
        /\ script' = script /\ jump' = jump /\ lost' = lost
    BY <1>6 DEF HookMoves, Elsewhere, files, kernel, history
  <2>2. \A c \in Set : Held(c)' <=> Held(c)
    BY <1>6, <2>1 DEF HookMoves, Elsewhere, kernel, Held, Queued
  <2>3. QueueInv'
    BY <2>1, <2>2 DEF QueueInv, Now
  <2>4. \A c \in Set : Sent(c)' <=> Sent(c)
    BY <2>1, <2>2 DEF Sent, Held, Queued
  <2>5. FreeInv'
    BY <2>1, <2>2, <2>4 DEF FreeInv, NoRemoval
  <2> QED
    BY <2>3, <2>5
<1> QED
  BY <1>2, <1>3, <1>4, <1>5, <1>6, Moves, TrafficAdvances, TrafficRunsScript, TrafficGivesUp

(* After a start that an iptables command or pgld made fail and after a      *)
(* stop, no packet goes to a queue where nobody listens, whatever failed or  *)
(* died before; unless the remove script could not flush that very chain.    *)
THEOREM ReleasesTheorem == Spec => []ReleasesTraffic
<1>1. Init => QueueInv /\ FreeInv
  <2> SUFFICES ASSUME Init PROVE QueueInv /\ FreeInv
    OBVIOUS
  <2>1. Cmd = "none" /\ Todo = <<>> /\ result = "none" /\ \A c \in Set : chain[c] = <<>>
    BY DEF Init, Procs, Cmd, Todo, Idle
  <2>2. Range(<<>>) = {}
    BY ShortGood
  <2> QED
    BY <2>1, <2>2 DEF QueueInv, FreeInv, Held, Queued, Now, Starters
<1>2. TypeInv /\ FreeInv => ReleasesTraffic
  <2>1. \A c : Filtering(c) /\ On("F", c) \notin lost <=> Sent(c)
    BY DEF Filtering, Sent, Held, Queued
  <2> QED
    BY <2>1 DEF ReleasesTraffic, FreeInv, Resting, Idle, Cmd, Sent, Starters
<1> QED
  BY <1>1, <1>2, InitTypes, NextTypes, InitChain, NextChain, InitRecord, NextRecord, NextHook,
     InitShape, NextShape, NextTraffic, PTL DEF Spec


-----------------------------------------------------------------------------
(* The configuration is honoured *)

PortIn(c) == "port" \in Range(chain[c])

(* Where nothing fails, is killed or comes beside pglcmd: a chain has the    *)
(* port when it is set up if the configuration says so, and so does a        *)
(* running pgl unless a configure run is about to see to it.                 *)
ConfChain(c) ==
  LET R == Range(Todo) IN
  /\ Once(chain[c])
  /\ PortRule(c) \in R => On("create", c) \in R \/ ~PortIn(c)
  /\ Building(R) => conf <=> \/ PortRule(c) \in R
                             \/ On("create", c) \notin R /\ PortIn(c)
  /\ daemon /\ Do("killproc") \notin R =>
       /\ c \in made
       /\ Changing(R) \/ Now({"unless_running"})
       /\ Rule("ensure", c, "port") \in R => conf
       /\ Rule("delete", c, "port") \in R => ~conf
       /\ \/ Rule("ensure", c, "port") \in R \/ Rule("delete", c, "port") \in R
          \/ conf <=> PortIn(c)

Calm == may \cap {"fail", "kill", "hook"} = {}

ConfInv == Calm => \A c \in Set : ConfChain(c)

LEMMA PrependedOnce ==
  ASSUME NEW s \in Seq(Rules), NEW r \in Rules, Once(s), r # "port" \/ "port" \notin Range(s)
  PROVE  Once(<<r>> \o s)
<1> DEFINE one == <<r>>
           t == one \o s
<1>1. one \in Seq(Rules) /\ Len(one) = 1 /\ one[1] = r
  OBVIOUS
<1> HIDE DEF one
<1>2. /\ Len(t) = 1 + Len(s) /\ Len(s) \in Nat
      /\ \A n \in 1 .. 1 + Len(s) : t[n] = IF n <= 1 THEN one[n] ELSE s[n - 1]
  <2>1. one \in Seq(Rules) /\ s \in Seq(Rules)
    BY <1>1
  <2>2. /\ Len(one \o s) = Len(one) + Len(s)
        /\ \A n \in 1 .. Len(one) + Len(s) :
             (one \o s)[n] = IF n <= Len(one) THEN one[n] ELSE s[n - Len(one)]
    BY <2>1, ConcatProperties
  <2> QED
    BY <1>1, <2>2, LenProperties
<1>3. t[1] = r
  BY <1>1, <1>2
<1>4. \A n \in 1 .. Len(s) : s[n] \in Range(s)
  BY InRange
<1> HIDE DEF t
<1>5. ASSUME NEW m \in 1 .. Len(t), NEW n \in 1 .. Len(t), t[m] = "port", t[n] = "port"
      PROVE  m = n
  <2>1. CASE m = 1 /\ n = 1
    BY <2>1
  <2>2. CASE m # 1 /\ n # 1
    <3>1. m - 1 \in 1 .. Len(s) /\ n - 1 \in 1 .. Len(s) /\ ~(m <= 1) /\ ~(n <= 1)
      BY <1>2, <2>2
    <3>2. s[m - 1] = "port" /\ s[n - 1] = "port"
      BY <1>2, <1>5, <3>1
    <3>3. m - 1 = n - 1
      BY <3>1, <3>2 DEF Once
    <3> QED
      BY <1>2, <3>3
  <2>3. ASSUME NEW i \in {m, n}, i # 1, r = "port" PROVE FALSE
    <3>1. i - 1 \in 1 .. Len(s) /\ ~(i <= 1) /\ i \in 1 .. 1 + Len(s)
      BY <1>2, <2>3
    <3>2. s[i - 1] = "port"
      BY <1>2, <1>5, <3>1
    <3> QED
      BY <1>4, <2>3, <3>1, <3>2
  <2> QED
    BY <1>3, <1>5, <2>1, <2>2, <2>3
<1> QED
  BY <1>5 DEF Once, t, one

(* How an instruction changes the port of a chain. *)
LEMMA PortAfter ==
  ASSUME TypeInv, ShapeInv, Advances, NEW c \in Set, Once(chain[c]),
         Todo[1] = PortRule(c) => ~PortIn(c)
  PROVE  LET x == Todo[1]
         IN  /\ Once(chain[c])'
             /\ x \in {PortRule(c), Rule("ensure", c, "port")} => PortIn(c)'
             /\ x = Rule("delete", c, "port") => ~PortIn(c)'
             /\ PortIn(c)' => PortIn(c) \/ x \in {PortRule(c), Rule("ensure", c, "port")}
             /\ PortIn(c) => PortIn(c)' \/ x = Rule("delete", c, "port") \/ x.do = "F"
<1> DEFINE x == Todo[1]
           s == chain[c]
           u == chain'[c]
<1>1. /\ x \in Instrs /\ (x.do \in OnChains => x.chain \in Set)
      /\ chain \in [Set -> Seq(Rules)]
      /\ s \in Seq(Rules)
  BY Advancing DEF Advances, TypeInv, TypeOK
<1>2. /\ x.do \in Inserting => x.rule \in Rules
      /\ x.do = "delete" => x.rule = "port"
      /\ x = Rule(x.do, x.chain, x.rule)
  BY <1>1 DEF Instrs, Inserting, Rules, Instruction, Rule
<1>3. \/ /\ u = s
         /\ x \notin {PortRule(c), Rule("delete", c, "port")}
         /\ x = Rule("ensure", c, "port") => "port" \in Range(s)
      \/ u = <<x.rule>> \o s /\ x.do = "insert" /\ x.chain = c
      \/ u = <<x.rule>> \o s /\ x.do = "ensure" /\ x.chain = c /\ x.rule \notin Range(s)
      \/ u = RemoveFirst(s, "port") /\ x = Rule("delete", c, "port")
      \/ u = <<>> /\ x.do = "F"
  <2>6. Ordered(x) \/ (x.do \in Lines /\ chain' = chain)
    BY DEF Advances, Misses, kernel
  <2>7. CASE x.do \in Lines /\ chain' = chain
    BY <1>1, <2>7, Fields DEF PortRule, Lines
  <2> SUFFICES ASSUME Ordered(x)
               PROVE  \/ /\ u = s
                         /\ x \notin {PortRule(c), Rule("delete", c, "port")}
                         /\ x = Rule("ensure", c, "port") => "port" \in Range(s)
                      \/ u = <<x.rule>> \o s /\ x.do = "insert" /\ x.chain = c
                      \/ /\ u = <<x.rule>> \o s /\ x.do = "ensure" /\ x.chain = c
                         /\ x.rule \notin Range(s)
                      \/ u = RemoveFirst(s, "port") /\ x = Rule("delete", c, "port")
                      \/ u = <<>> /\ x.do = "F"
    BY <2>6, <2>7
  <2> USE Fields DEF Ordered
  <2>1. CASE x.do = "insert"
    BY <1>1, <2>1 DEF OnChains, Inserting, PortRule
  <2>2. CASE x.do = "ensure"
    BY <1>1, <2>2 DEF OnChains, Inserting, PortRule
  <2>3. CASE x.do = "delete"
    <3>1. chain' = [chain EXCEPT ![x.chain] = RemoveFirst(@, "port")] /\ x.chain \in Set
      BY <1>1, <1>2, <2>3 DEF OnChains
    <3>2. CASE x.chain = c
      BY <1>1, <1>2, <2>3, <3>1, <3>2
    <3>3. CASE x.chain # c
      BY <1>1, <2>3, <3>1, <3>3 DEF PortRule
    <3> QED
      BY <3>2, <3>3
  <2>4. CASE x.do = "F"
    <3>1. chain' = [chain EXCEPT ![x.chain] = <<>>] /\ x.chain \in Set
      BY <1>1, <2>4 DEF OnChains, Lines
    <3> QED
      BY <1>1, <2>4, <3>1 DEF PortRule
  <2>5. CASE x.do \notin {"insert", "ensure", "delete", "F"}
    BY <1>1, <2>5 DEF PortRule
  <2> QED
    BY <2>1, <2>2, <2>3, <2>4, <2>5
<1> HIDE DEF x, s, u
<1>4. Once(s) /\ (x = PortRule(c) => "port" \notin Range(s))
  BY DEF PortIn, s, x
<1>5. CASE u = <<x.rule>> \o s /\ x.do \in Inserting /\ x.chain = c
             /\ (x.do = "ensure" => x.rule \notin Range(s))
  <2>1. Range(u) = {x.rule} \cup Range(s)
    BY <1>1, <1>2, <1>5, Prepended
  <2>2. x.do = "insert" /\ x.rule = "port" => x = PortRule(c)
    BY <1>2, <1>5 DEF PortRule
  <2>3. Once(u)
    BY <1>1, <1>2, <1>4, <1>5, <2>2, PrependedOnce DEF Inserting
  <2>4. x \in {PortRule(c), Rule("ensure", c, "port")} => x.rule = "port"
    BY Fields DEF PortRule
  <2>5. x.rule = "port" => x \in {PortRule(c), Rule("ensure", c, "port")}
    BY <1>2, <1>5 DEF PortRule, Inserting
  <2>6. x # Rule("delete", c, "port")
    BY <1>5, Fields DEF Inserting
  <2> QED
    BY <2>1, <2>3, <2>4, <2>5, <2>6 DEF PortIn, s, u, x
<1>6. CASE u = RemoveFirst(s, "port") /\ x = Rule("delete", c, "port")
  <2>1. "port" \notin Range(u) /\ u \in Seq(Rules)
    BY <1>1, <1>4, <1>6, Removed
  <2>2. Once(u)
    BY <2>1, InRange DEF Once
  <2>3. x \notin {PortRule(c), Rule("ensure", c, "port")}
    BY <1>6, Fields DEF PortRule
  <2> QED
    BY <1>6, <2>1, <2>2, <2>3 DEF PortIn, s, u, x
<1>7. CASE u = <<>> /\ x.do = "F"
  <2>1. Once(u) /\ "port" \notin Range(u)
    BY <1>7, ShortGood DEF Once
  <2>2. x \notin {PortRule(c), Rule("ensure", c, "port")}
    BY <1>7, Fields DEF PortRule
  <2> QED
    BY <1>7, <2>1, <2>2 DEF PortIn, s, u, x
<1>8. CASE /\ u = s
           /\ x \notin {PortRule(c), Rule("delete", c, "port")}
           /\ x = Rule("ensure", c, "port") => "port" \in Range(s)
  BY <1>4, <1>8 DEF PortIn, s, u, x
<1> QED
  BY <1>3, <1>5, <1>6, <1>7, <1>8 DEF Inserting


LEMMA ConfAdvances ==
  ASSUME TypeInv, ShapeInv, Advances, NEW c \in Set, ConfChain(c)
  PROVE  ConfChain(c)'
<1> DEFINE x == Todo[1]
           Q == Range(Todo')
           R == Range(Todo)
           port == PortRule(c)
           create == On("create", c)
           ensure == Rule("ensure", c, "port")
           delete == Rule("delete", c, "port")
<1>1. /\ Todo # <<>> /\ x \in Instrs /\ R = {x} \cup Q
      /\ \A y \in Q : Later(x, y)
      /\ Q = {} <=> Todo' = <<>>
  BY Advancing
<1>2. /\ Cmd' = Cmd /\ Fine' = Fine /\ conf' = conf /\ Possible(x)
      /\ Ordered(x) \/ made' = made
      /\ daemon' <=> x.do = "start_daemon" \/ (daemon /\ x.do # "killproc")
  BY DEF Advances, Misses, kernel
<1>3. CmdInv /\ Whole(R) /\ BuiltInv
  BY DEF ShapeInv, R
<1>4. /\ Once(chain[c])
      /\ port \in R => create \in R \/ ~PortIn(c)
      /\ Building(R) => (conf <=> \/ port \in R
                                  \/ create \notin R /\ PortIn(c))
      /\ daemon /\ Do("killproc") \notin R =>
           /\ c \in made
           /\ Changing(R) \/ x.do = "unless_running"
           /\ ensure \in R => conf
           /\ delete \in R => ~conf
           /\ ensure \in R \/ delete \in R \/ (conf <=> PortIn(c))
  BY DEF ConfChain, Now
<1> HIDE DEF x, Q, R
<1>5. /\ port.do = "insert" /\ port.rule = "port" /\ port.chain = c
      /\ create.do = "create" /\ create.chain = c
      /\ ensure.do = "ensure" /\ ensure.rule = "port"
      /\ delete.do = "delete"
      /\ Do("start_daemon").do = "start_daemon" /\ Do("killproc").do = "killproc"
  BY Fields DEF PortRule
<1>6. x = port => ~PortIn(c)
  <2> SUFFICES ASSUME x = port PROVE ~PortIn(c)
    OBVIOUS
  <2>1. create \notin Q
    BY <1>1, <1>5 DEF Later
  <2> QED
    BY <1>1, <1>4, <1>5, <2>1
<1>7. /\ Once(chain[c])'
      /\ x \in {port, ensure} => PortIn(c)'
      /\ x = delete => ~PortIn(c)'
      /\ PortIn(c)' => PortIn(c) \/ x \in {port, ensure}
      /\ PortIn(c) => PortIn(c)' \/ x = delete \/ x.do = "F"
  BY <1>4, <1>6, PortAfter DEF x
<1>8. x = create => ~PortIn(c) /\ ~PortIn(c)'
  <2> SUFFICES ASSUME x = create PROVE ~PortIn(c) /\ ~PortIn(c)'
    OBVIOUS
  <2>1. c \notin made
    BY <1>2, <1>5 DEF Possible
  <2>2. chain[c] = <<>>
    BY <2>1 DEF TypeInv, TypeOK
  <2>3. ~PortIn(c)
    BY <2>2, ShortGood DEF PortIn
  <2> QED
    BY <1>5, <1>7, <2>3
<1>9. Cmd \in {"stop"} \cup Starters \cup Configures
  <2>1. Cmd # "none"
    BY <1>1, <1>3 DEF CmdInv
  <2> QED
    BY <2>1, Whose
<1>10. ASSUME NEW y \in R, y.do \in {"insert", "start_daemon"}
       PROVE  Cmd \in Starters /\ ensure \notin R /\ delete \notin R
  <2>1. Cmd # "stop" /\ Cmd \notin Configures
    BY <1>3, <1>10 DEF CmdInv, Changing, Clearing, Lines, R
  <2>2. Steady(R)
    BY <1>3, <1>9, <2>1 DEF CmdInv, R
  <2> QED
    BY <1>5, <1>9, <2>1, <2>2 DEF Steady
<1>11. ASSUME port \in Q PROVE create \in Q \/ ~PortIn(c)'
  <2>1. ensure \notin R /\ delete \notin R
    BY <1>1, <1>5, <1>10, <1>11
  <2>2. x # port /\ x # ensure
    BY <1>1, <1>5, <1>11, <2>1 DEF Later
  <2> QED
    BY <1>1, <1>4, <1>7, <1>8, <1>11, <2>2
<1>12. ASSUME Building(Q)
       PROVE  conf <=> port \in Q \/ (create \notin Q /\ PortIn(c)')
  <2>1. Building(R)
    BY <1>1, <1>12 DEF Building
  <2>2. ensure \notin R /\ delete \notin R
    BY <1>5, <1>10, <2>1 DEF Building
  <2>3. CASE x = port
    <3>1. create \notin Q
      BY <1>1, <1>5, <2>3 DEF Later
    <3> QED
      BY <1>1, <1>4, <1>7, <2>1, <2>3, <3>1
  <2>4. CASE x = create
    BY <1>1, <1>4, <1>5, <1>8, <2>1, <2>4
  <2>5. CASE x.do = "F"
    <3>1. create \in R
      BY <1>1, <1>3, <2>1, <2>5 DEF Whole, Clearing, Lines
    <3> QED
      BY <1>1, <1>4, <1>5, <2>1, <2>5, <3>1
  <2>6. CASE x # port /\ x # create /\ x.do # "F"
    <3>1. PortIn(c)' <=> PortIn(c)
      BY <1>1, <1>7, <2>2, <2>6
    <3> QED
      BY <1>1, <1>4, <2>1, <2>6, <3>1
  <2> QED
    BY <2>3, <2>4, <2>5, <2>6
<1>13. ASSUME daemon', Do("killproc") \notin Q
       PROVE  /\ c \in made'
              /\ Changing(Q)
              /\ ensure \in Q => conf
              /\ delete \in Q => ~conf
              /\ ensure \in Q \/ delete \in Q \/ (conf <=> PortIn(c)')
  <2>1. CASE x.do = "start_daemon"
    <3>1. Q = {} /\ R = {x}
      BY <1>1, <2>1 DEF Later
    <3>2. Fine /\ Cmd \in Starters
      BY <1>1, <1>3, <1>10, <2>1, <3>1, Whose DEF CmdInv, Clearing, Lines, R
    <3>3. Building(R)
      BY <1>1, <1>3, <3>2 DEF CmdInv, R
    <3>4. x # port /\ x # create /\ x # ensure /\ x # delete /\ x.do # "F"
      BY <1>5, <2>1
    <3>5. conf <=> PortIn(c)'
      BY <1>4, <1>7, <3>1, <3>3, <3>4
    <3>6. c \in made
      BY <1>3, <3>1, <3>3, <3>4 DEF BuiltInv, R
    <3>7. made' = made
      BY <1>2, <2>1 DEF Ordered
    <3> QED
      BY <3>1, <3>5, <3>6, <3>7 DEF Changing
  <2>2. CASE x.do # "start_daemon"
    <3>1. daemon /\ x.do # "killproc"
      BY <1>2, <1>13, <2>2
    <3>2. Do("killproc") \notin R
      BY <1>1, <1>5, <1>13, <3>1
    <3>3. Changing(R)
      BY <1>2, <1>4, <3>1, <3>2 DEF Possible
    <3>4. x.do \in {"if_running", "ensure", "delete"} /\ Changing(Q)
      BY <1>1, <3>3 DEF Changing
    <3>5. made' = made
      BY <1>2, <3>4 DEF Ordered
    <3>6. x # port /\ x.do # "F"
      BY <1>5, <3>4
    <3>7. (ensure \in R => conf) /\ (delete \in R => ~conf) /\ c \in made
          /\ (ensure \in R \/ delete \in R \/ (conf <=> PortIn(c)))
      BY <1>4, <3>1, <3>2
    <3>8. ensure \in Q \/ delete \in Q \/ (conf <=> PortIn(c)')
      BY <1>1, <1>7, <3>6, <3>7
    <3> QED
      BY <1>1, <3>4, <3>5, <3>7, <3>8
  <2> QED
    BY <2>1, <2>2
<1> HIDE DEF port, create, ensure, delete
<1> QED
  BY <1>2, <1>7, <1>11, <1>12, <1>13 DEF ConfChain, Q, port, create, ensure, delete

LEMMA ConfRunsScript ==
  ASSUME TypeInv, ShapeInv, RunsScript, NEW c \in Set, ConfChain(c)
  PROVE  ConfChain(c)'
<1> DEFINE h == Todo[1]
           Q == Range(Todo')
           R == Range(Todo)
<1>1. Q = Range(script) \cup Range(Tail(Todo))
  BY ShapeRunsScript
<1>2. /\ R = {h} \cup Range(Tail(Todo)) /\ h.do = "sh"
      /\ made' = made /\ chain' = chain /\ daemon' = daemon /\ conf' = conf
  BY Whose, TailFacts DEF RunsScript, kernel
<1>3. \A x \in Range(script) : x.do \in Lines
  BY Scripted DEF TypeInv, FilesOK
<1>4. \A x : x.do \notin Lines \cup {"sh"} => (x \in Q <=> x \in R)
  BY <1>1, <1>2, <1>3
<1> HIDE DEF h, Q, R
<1>5. /\ PortRule(c) \in Q <=> PortRule(c) \in R
      /\ On("create", c) \in Q <=> On("create", c) \in R
      /\ Building(Q) <=> Building(R)
      /\ Do("killproc") \in Q <=> Do("killproc") \in R
  BY <1>4, Fields DEF Lines, PortRule, Building
<1>6. daemon => Do("killproc") \in R
  <2> SUFFICES ASSUME daemon, Do("killproc") \notin R PROVE FALSE
    OBVIOUS
  <2>1. Changing(R) \/ h.do = "unless_running"
    BY DEF ConfChain, Now, R, h
  <2> QED
    BY <1>2, <2>1 DEF Changing
<1> QED
  BY <1>2, <1>5, <1>6 DEF ConfChain, PortIn, Once, Q, R

LEMMA ConfGivesUp ==
  ASSUME TypeInv, ShapeInv, GivesUp, "fail" \notin may, \A c \in Set : ConfChain(c),
         NEW c \in Set
  PROVE  ConfChain(c)'
<1> DEFINE x == Todo[1]
           t == Todo'
           R == Range(Todo)
<1>1. /\ Todo # <<>>
      /\ made' = made /\ chain' = chain /\ daemon' = daemon /\ conf' = conf
      /\ x.do \in {"start_daemon", "create", "insert", "ensure", "activate", "delete"}
      /\ \/ x.do = "create" /\ x.chain \in made
         \/ x.do \in {"insert", "ensure", "activate"} /\ x.chain \notin made
  BY DEF GivesUp, kernel
<1>2. /\ Todo \in Seq(Instrs) /\ x \in Instrs
      /\ R = {x} \cup Range(Tail(Todo))
      /\ \A y \in Range(Tail(Todo)) : Later(x, y)
  BY <1>1, Whose, TailFacts, ShapeTail DEF ShapeInv
<1>3. \A y \in Range(t) : y.do \in {"cat", "mv", "sh", "rm"}
  BY GaveUp
<1> HIDE DEF x, t, R
<1>4. ~daemon
  <2> SUFFICES ASSUME daemon PROVE FALSE
    OBVIOUS
  <2>1. Do("killproc") \notin R
    BY <1>1, <1>2, Fields DEF Later, Clearing, Lines
  <2>2. \A d \in Set : d \in made /\ (Changing(R) \/ x.do = "unless_running")
    BY <2>1 DEF ConfChain, Now, R, x
  <2>3. x.do = "ensure" /\ x.chain \notin made
    BY <1>1, <1>2, <2>2 DEF Changing
  <2>4. x.chain \in Set
    BY <1>2, <2>3 DEF Instrs, OnChains, Inserting
  <2> QED
    BY <2>2, <2>3, <2>4
<1>5. PortRule(c) \notin Range(t) /\ ~Building(Range(t))
  BY <1>3, Fields DEF PortRule, Building
<1> QED
  BY <1>1, <1>4, <1>5 DEF ConfChain, Once, PortIn, t


LEMMA ConfBegins ==
  ASSUME TypeInv, ShapeInv, NEW cmd, Begins(cmd), NEW c \in Set, ConfChain(c)
  PROVE  ConfChain(c)'
<1> DEFINE t == Program(cmd, conf)
           R == Range(t)
           op == IF cmd = "allow" THEN "ensure" ELSE "delete"
<1>1. /\ cmd \in Starters \cup Configures \cup {"stop"} /\ conf \in BOOLEAN
      /\ cmd = "restart_not_wd" => "repair" \in may
  BY DEF Begins, TypeInv, TypeOK
<1>2. /\ t # <<>>
      /\ cmd \in Starters =>
           /\ Steady(R)
           /\ On("create", c) \in R
           /\ PortRule(c) \in R <=> conf
           /\ Do("killproc") \in R \/ t[1] = Do("unless_running")
      /\ cmd = "stop" => R = {Do("sh"), Do("rm"), Do("killproc")}
      /\ cmd \in Configures => /\ \A x \in R : \/ x = Do("if_running")
                                               \/ x.do = op /\ x.rule = "port"
                               /\ Rule(op, c, "port") \in R
  BY <1>1, ProgramShape
<1>3. /\ Todo' = t /\ conf' = configure_permanent(cmd)
      /\ made' = made /\ chain' = chain /\ daemon' = daemon /\ Todo = <<>>
  BY DEF Begins, kernel
<1>4. /\ Once(chain[c])
      /\ daemon => c \in made /\ (conf <=> PortIn(c))
  <2>1. Range(<<>>) = {}
    BY ShortGood
  <2> QED
    BY <1>3, <2>1 DEF ConfChain
<1> HIDE DEF t, R
<1>5. Now({"unless_running"})' <=> t # <<>> /\ t[1].do = "unless_running"
  BY <1>3 DEF Now
<1>6. CASE cmd \in Starters
  <2>1. conf' = conf
    BY <1>3, <1>6 DEF configure_permanent, Configures, Starters
  <2>2. Rule("ensure", c, "port") \notin R /\ Rule("delete", c, "port") \notin R
    BY <1>2, <1>6, Fields DEF Steady
  <2>3. Do("killproc") \in R \/ Now({"unless_running"})'
    BY <1>2, <1>5, <1>6, Fields
  <2> QED
    BY <1>2, <1>3, <1>4, <1>6, <2>1, <2>2, <2>3 DEF ConfChain, PortIn, Once, R
<1>7. CASE cmd = "stop"
  <2>1. PortRule(c) \notin R /\ ~Building(R) /\ Do("killproc") \in R
    BY <1>2, <1>7, Fields DEF PortRule, Building
  <2> QED
    BY <1>3, <1>4, <2>1 DEF ConfChain, PortIn, Once, R
<1>8. CASE cmd \in Configures
  <2>1. \A x \in R : x.do \in {"if_running", op}
    BY <1>2, <1>8, Fields
  <2>2. PortRule(c) \notin R /\ ~Building(R) /\ Changing(R)
    BY <2>1, Fields DEF PortRule, Building, Changing
  <2>3. /\ conf' <=> cmd = "allow"
        /\ cmd = "allow" => op = "ensure" /\ Rule("delete", c, "port") \notin R
        /\ cmd # "allow" => op = "delete" /\ Rule("ensure", c, "port") \notin R
    <3>1. conf' = (cmd = "allow")
      BY <1>3, <1>8 DEF configure_permanent
    <3>2. /\ Rule("ensure", c, "port") \in R => op = "ensure"
          /\ Rule("delete", c, "port") \in R => op = "delete"
      BY <2>1, Fields
    <3> QED
      BY <3>1, <3>2
  <2>4. /\ Rule("ensure", c, "port") \in R => conf'
        /\ Rule("delete", c, "port") \in R => ~conf'
        /\ Rule("ensure", c, "port") \in R \/ Rule("delete", c, "port") \in R
    BY <1>2, <1>8, <2>3
  <2> QED
    BY <1>3, <1>4, <2>2, <2>4 DEF ConfChain, PortIn, Once, R
<1> QED
  BY <1>1, <1>6, <1>7, <1>8

LEMMA ConfDeclines ==
  ASSUME TypeInv, ShapeInv, Declines, NEW c \in Set, ConfChain(c)
  PROVE  ConfChain(c)'
<1> DEFINE x == Todo[1]
           R == Range(Todo)
<1>1. /\ Todo # <<>> /\ x.do \in {"if_running", "unless_running"}
      /\ daemon => x.do = "unless_running"
      /\ Todo' = <<>>
      /\ made' = made /\ chain' = chain /\ daemon' = daemon /\ conf' = conf
  BY DEF Declines, kernel, TypeInv, TypeOK
<1>2. /\ Todo \in Seq(Instrs)
      /\ R = {x} \cup Range(Tail(Todo))
      /\ \A y \in Range(Tail(Todo)) : Later(x, y)
  BY <1>1, Whose, TailFacts, ShapeTail DEF ShapeInv
<1>3. CmdInv /\ Range(<<>>) = {}
  BY ShortGood DEF ShapeInv
<1> HIDE DEF x, R
<1>4. daemon => c \in made /\ (conf <=> PortIn(c))
  <2> SUFFICES ASSUME daemon PROVE c \in made /\ (conf <=> PortIn(c))
    OBVIOUS
  <2>1. Do("killproc") \notin R
    BY <1>1, <1>2, Fields DEF Later, Clearing, Lines
  <2>2. Cmd \in Starters
    <3>1. x \in R /\ Cmd # "none"
      BY <1>1, <1>2, <1>3 DEF CmdInv
    <3>2. Cmd # "stop" /\ Cmd \notin Configures
      BY <1>1, <1>3, <3>1 DEF CmdInv, Changing, Clearing, Lines, R
    <3> QED
      BY <3>1, <3>2, Whose
  <2>3. Rule("ensure", c, "port") \notin R /\ Rule("delete", c, "port") \notin R
    BY <1>3, <2>2, Fields DEF CmdInv, Steady, R
  <2> QED
    BY <2>1, <2>3 DEF ConfChain, R
<1> QED
  BY <1>1, <1>3, <1>4 DEF ConfChain, Once, PortIn, Building, Changing

LEMMA ConfExits ==
  ASSUME TypeInv, ShapeInv, Exits, NEW c \in Set, ConfChain(c)
  PROVE  ConfChain(c)'
<1> DEFINE x == Todo[1]
           R == Range(Todo)
<1>1. /\ Todo # <<>> /\ x.do = "start_daemon" /\ Todo' = <<>>
      /\ made' = made /\ chain' = chain /\ daemon' = daemon /\ conf' = conf
  BY DEF Exits, kernel
<1>2. R = {x}
  <2>1. /\ R = {x} \cup Range(Tail(Todo))
        /\ \A y \in Range(Tail(Todo)) : Later(x, y)
    BY <1>1, Whose, TailFacts, ShapeTail DEF ShapeInv
  <2> QED
    BY <1>1, <2>1 DEF Later
<1> HIDE DEF x, R
<1>3. ~daemon
  <2> SUFFICES ASSUME daemon PROVE FALSE
    OBVIOUS
  <2>1. Do("killproc") \notin R
    BY <1>1, <1>2, Fields
  <2>2. Changing(R) \/ x.do = "unless_running"
    BY <2>1 DEF ConfChain, Now, R, x
  <2> QED
    BY <1>1, <1>2, <2>2 DEF Changing
<1>4. Range(<<>>) = {}
  BY ShortGood
<1> QED
  BY <1>1, <1>3, <1>4 DEF ConfChain, Once, PortIn, Building

LEMMA NextConf ==
  ASSUME TypeInv, HookIdle, ShapeInv, ConfInv, [Next]_vars
  PROVE  ConfInv'
<1> SUFFICES ASSUME Calm', NEW c \in Set PROVE ConfChain(c)'
  BY DEF ConfInv
<1>1. may' = may
  BY Moves DEF Begins, Leaves, Exits, Declines, GivesUp, RunsScript, Advances, Killed,
               Rebooted, HookMoves, Elsewhere
<1>2. Calm /\ \A d \in Set : ConfChain(d)
  BY <1>1 DEF Calm, ConfInv
<1>3. Range(<<>>) = {}
  BY ShortGood
<1>4. CASE Leaves \/ Elsewhere
  <2>1. /\ Todo' = Todo /\ (daemon' => daemon)
        /\ made' = made /\ chain' = chain /\ conf' = conf
    BY <1>4 DEF Leaves, Elsewhere, kernel
  <2> QED
    BY <1>2, <2>1 DEF ConfChain, Once, PortIn, Now
<1>5. CASE Rebooted
  <2>1. Todo' = <<>> /\ ~daemon' /\ chain'[c] = <<>>
    BY <1>5 DEF Rebooted
  <2> QED
    BY <1>3, <2>1 DEF ConfChain, Once, PortIn, Building
<1>6. ~Killed /\ ~HookMoves /\ "fail" \notin may
  BY <1>2 DEF Calm, Killed, HookMoves
<1> QED
  BY <1>2, <1>4, <1>5, <1>6, Moves, ConfBegins, ConfDeclines, ConfGivesUp, ConfRunsScript,
     ConfAdvances, ConfExits

(* Whatever is started, stopped and configured, one after the other, the     *)
(* rules of a running pgl are what the configuration file says.              *)
THEOREM ConfTheorem == Spec => []ConfHonoured
<1>1. Init => ConfInv
  <2> SUFFICES ASSUME Init, NEW c \in Set PROVE ConfChain(c)
    BY DEF ConfInv
  <2>1. Todo = <<>> /\ ~daemon /\ chain[c] = <<>> /\ Range(<<>>) = {}
    BY ShortGood DEF Init, Procs, Todo, Idle
  <2> QED
    BY <2>1 DEF ConfChain, Once, PortIn, Building
<1>2. TypeInv /\ ConfInv => ConfHonoured
  <2> SUFFICES ASSUME ConfInv, Calm, proc["pglcmd"] = Idle, daemon, NEW c \in Set
               PROVE  conf <=> PortIn(c)
    BY DEF ConfHonoured, Calm, PortIn
  <2>1. Todo = <<>> /\ Range(<<>>) = {}
    BY ShortGood DEF Todo, Idle
  <2> QED
    BY <2>1 DEF ConfInv, ConfChain
<1> QED
  BY <1>1, <1>2, InitTypes, NextTypes, NextHook, InitShape, NextShape, NextConf, PTL DEF Spec


-----------------------------------------------------------------------------
(* Nothing is left over *)

Early(s, n, x) == \E m \in 1 .. n - 1 : s[m] = x

(* Executing s deletes the chain c, flushed before if it is full and         *)
(* deactivated before if it is active.                                       *)
Tidies(s, c, full, active) ==
  \E n \in 1 .. Len(s) : /\ s[n] = On("X", c)
                         /\ full => Early(s, n, On("F", c))
                         /\ active => Early(s, n, On("D", c))

LEMMA TidiesMore ==
  ASSUME NEW S, NEW s \in Seq(S), NEW u \in Seq(S), NEW c, NEW f, NEW d, Tidies(s, c, f, d)
  PROVE  Tidies(s \o u, c, f, d)
<1> DEFINE t == s \o u
<1>1. /\ Len(s) \in Nat /\ Len(u) \in Nat /\ Len(t) = Len(s) + Len(u)
      /\ \A n \in 1 .. Len(s) + Len(u) : t[n] = IF n <= Len(s) THEN s[n] ELSE u[n - Len(s)]
  BY ConcatProperties, LenProperties
<1> HIDE DEF t
<1>2. PICK n \in 1 .. Len(s) : /\ s[n] = On("X", c)
                               /\ f => Early(s, n, On("F", c))
                               /\ d => Early(s, n, On("D", c))
  BY DEF Tidies
<1>3. n \in 1 .. Len(t) /\ \A m \in 1 .. n : t[m] = s[m]
  BY <1>1
<1>4. t[n] = s[n] /\ \A x : Early(s, n, x) => Early(t, n, x)
  BY <1>3 DEF Early
<1> QED
  BY <1>2, <1>3, <1>4 DEF Tidies, t

LEMMA TidiesAfter ==
  ASSUME NEW S, NEW s \in Seq(S), NEW u \in Seq(S), NEW c, NEW f, NEW d, NEW e,
         Tidies(u, c, f, e), d => e \/ On("D", c) \in Range(s)
  PROVE  Tidies(s \o u, c, f, d)
<1> DEFINE t == s \o u
<1>1. /\ Len(s) \in Nat /\ Len(u) \in Nat /\ Len(t) = Len(s) + Len(u)
      /\ \A n \in 1 .. Len(s) + Len(u) : t[n] = IF n <= Len(s) THEN s[n] ELSE u[n - Len(s)]
  BY ConcatProperties, LenProperties
<1> HIDE DEF t
<1>2. PICK n \in 1 .. Len(u) : /\ u[n] = On("X", c)
                               /\ f => Early(u, n, On("F", c))
                               /\ e => Early(u, n, On("D", c))
  BY DEF Tidies
<1> DEFINE k == Len(s) + n
<1>3. \A m \in 1 .. Len(u) : /\ Len(s) + m \in 1 .. Len(t) /\ ~(Len(s) + m <= Len(s))
                             /\ (Len(s) + m) - Len(s) = m
  BY <1>1
<1>4. \A m \in 1 .. Len(u) : t[Len(s) + m] = u[m]
  BY <1>1, <1>3
<1>5. k \in 1 .. Len(t) /\ t[k] = u[n]
  BY <1>3, <1>4
<1>6. ASSUME NEW x, Early(u, n, x) PROVE Early(t, k, x)
  <2>1. PICK m \in 1 .. n - 1 : u[m] = x
    BY <1>6 DEF Early
  <2>2. m \in 1 .. Len(u) /\ Len(s) + m \in 1 .. k - 1
    BY <1>1
  <2> QED
    BY <1>4, <2>1, <2>2 DEF Early
<1>7. ASSUME NEW x \in Range(s) PROVE Early(t, k, x)
  <2>1. PICK m \in 1 .. Len(s) : s[m] = x
    BY InRange
  <2>2. m \in 1 .. k - 1 /\ t[m] = s[m]
    BY <1>1
  <2> QED
    BY <2>1, <2>2 DEF Early
<1> HIDE DEF k
<1>8. d => Early(t, k, On("D", c))
  BY <1>2, <1>6, <1>7
<1> QED
  BY <1>2, <1>5, <1>6, <1>8 DEF Tidies, t

(* One instruction less: either it has deleted the chain just now, or the    *)
(* rest does.                                                                *)
LEMMA TidiesTail ==
  ASSUME NEW S, NEW t \in Seq(S), t # <<>>, NEW c, NEW f, NEW d, Tidies(t, c, f, d)
  PROVE  \/ t[1] = On("X", c) /\ ~f /\ ~d
         \/ Tidies(Tail(t), c, f /\ t[1] # On("F", c), d /\ t[1] # On("D", c))
<1> DEFINE s == Tail(t)
<1>1. /\ Len(t) \in Nat \ {0} /\ Len(s) = Len(t) - 1
      /\ \A n \in 1 .. Len(t) - 1 : s[n] = t[n + 1]
  BY TailFacts
<1> HIDE DEF s
<1>2. PICK n \in 1 .. Len(t) : /\ t[n] = On("X", c)
                               /\ f => Early(t, n, On("F", c))
                               /\ d => Early(t, n, On("D", c))
  BY DEF Tidies
<1>3. CASE n = 1
  <2>1. \A x : ~Early(t, n, x)
    BY <1>3 DEF Early
  <2> QED
    BY <1>2, <1>3, <2>1
<1>4. CASE n # 1
  <2>1. n - 1 \in 1 .. Len(s) /\ s[n - 1] = t[n]
    <3>1. n - 1 \in 1 .. Len(t) - 1 /\ (n - 1) + 1 = n
      BY <1>1, <1>4
    <3> QED
      BY <1>1, <3>1
  <2>2. ASSUME NEW x, Early(t, n, x), t[1] # x PROVE Early(s, n - 1, x)
    <3>1. PICK m \in 1 .. n - 1 : t[m] = x
      BY <2>2 DEF Early
    <3>2. m # 1
      BY <2>2, <3>1
    <3>3. /\ m - 1 \in 1 .. (n - 1) - 1 /\ m - 1 \in 1 .. Len(t) - 1
          /\ (m - 1) + 1 = m
      BY <1>1, <3>2
    <3>4. s[m - 1] = t[m]
      BY <1>1, <3>3
    <3> QED
      BY <3>1, <3>3, <3>4 DEF Early
  <2>3. /\ (f /\ t[1] # On("F", c)) => Early(s, n - 1, On("F", c))
        /\ (d /\ t[1] # On("D", c)) => Early(s, n - 1, On("D", c))
    BY <1>2, <2>2
  <2> QED
    BY <1>2, <2>1, <2>3 DEF Tidies, s
<1> QED
  BY <1>3, <1>4

LEMMA TidiesInfo ==
  ASSUME NEW S, NEW s \in Seq(S), NEW c, NEW f, NEW d
  PROVE  /\ Tidies(s, c, f, d) => On("X", c) \in Range(s) /\ s # <<>>
         /\ \A g, e : Tidies(s, c, f, d) /\ (g => f) /\ (e => d) => Tidies(s, c, g, e)
<1>1. Tidies(s, c, f, d) => On("X", c) \in Range(s) /\ s # <<>>
  <2>1. Range(<<>>) = {}
    BY ShortGood
  <2> QED
    BY <2>1, InRange DEF Tidies
<1>2. \A g, e : Tidies(s, c, f, d) /\ (g => f) /\ (e => d) => Tidies(s, c, g, e)
  BY DEF Tidies
<1> QED
  BY <1>1, <1>2

LEMMA TidiesTwo ==
  ASSUME NEW c
  PROVE  Tidies(<<On("F", c), On("X", c)>>, c, TRUE, FALSE)
<1> DEFINE t == <<On("F", c), On("X", c)>>
<1>1. t[1] = On("F", c) /\ t[2] = On("X", c) /\ Len(t) = 2
  OBVIOUS
<1> HIDE DEF t
<1>2. 2 \in 1 .. Len(t) /\ 1 \in 1 .. 2 - 1
  BY <1>1
<1>3. Early(t, 2, On("F", c))
  BY <1>1, <1>2 DEF Early
<1> QED
  BY <1>1, <1>2, <1>3 DEF Tidies, t


(* What removes a chain: the remove script, after the commands of .tmp that  *)
(* will go before it; or .tmp when it is about to be the script.             *)
Removes(c) ==
  IF Now({"mv"})
    THEN Tidies(tmp, c, TRUE, jump[c] > 0)
    ELSE Tidies(script, c, TRUE, jump[c] > 0 /\ (Now({"sh"}) \/ On("D", c) \notin Range(tmp)))

(* It is removed by the script under way, or would be by the next one.       *)
Goes(c) ==
  IF Now(Lines \cup {"rm"}) THEN Tidies(Todo, c, chain[c] # <<>>, jump[c] > 0)
                            ELSE Removes(c)

RememberedInv ==
  \A c \in Set : Todo # <<>> /\ Todo[1] = On("activate", c) => On("D", c) \in Range(tmp)

(* Where the lines of the remove script do not fail: while pgld's start is   *)
(* ahead, the script removes what has been recorded.                         *)
FiledInv ==
  "stuck" \notin may =>
    /\ lost = {}
    /\ LET R == Range(Todo)
       IN  Building(R) => \A c \in Set : On("record", c) \notin R => Removes(c)

(* What comes next. *)
LEMMA NextHead ==
  ASSUME TypeInv, ShapeInv, Advances
  PROVE  LET x == Todo[1]
         IN  /\ x.do \notin Lines => ~Now(Lines \cup {"rm"})'
             /\ x.do \in Lines => Now(Lines \cup {"rm"})'
             /\ Now({"mv"})' => x.do = "cat"
             /\ x.do \in Ending => Now(Ending \cup {"mv"})'
<1> DEFINE x == Todo[1]
<1>1. /\ x.do # "sh"
      /\ \A y \in Range(Todo') : Before(x, y) /\ Later(x, y)
      /\ Todo' # <<>> => /\ Leads(x, Todo'[1]) /\ Follows(x, Todo'[1])
                         /\ Todo'[1] \in Range(Todo')
      /\ Todo' = <<>> => x.do \notin Going
  BY Advancing
<1> HIDE DEF x
<1>2. Todo' # <<>> => Before(x, Todo'[1])
  BY <1>1
<1>3. x.do \notin Lines => ~Now(Lines \cup {"rm"})'
  BY <1>1, <1>2 DEF Now, Before, Follows, Lines
<1>4. x.do \in Lines => Now(Lines \cup {"rm"})'
  BY <1>1 DEF Now, Leads, Going
<1>5. Now({"mv"})' => x.do = "cat"
  BY <1>1 DEF Now, Follows
<1>6. x.do \in Ending => Now(Ending \cup {"mv"})'
  BY <1>1 DEF Now, Leads, Going
<1> QED
  BY <1>3, <1>4, <1>5, <1>6 DEF x

LEMMA Remembered ==
  ASSUME TypeInv, ShapeInv, Advances, Todo[1].do = "remember"
  PROVE  Range(tmp') = Range(tmp) \cup {On("D", Todo[1].chain)}
<1> DEFINE line == On("D", Todo[1].chain)
           one == <<line>>
<1>1. tmp' = Append(tmp, line) /\ Todo[1].chain \in Set
  BY Advancing DEF Advances, Writes, OnChains
<1>2. tmp \in Seq(Instrs) /\ line \in Instrs
  BY <1>1, Words, Scripted DEF TypeInv, FilesOK
<1> HIDE DEF line
<1>3. one \in Seq(Instrs) /\ Range(one) = {line}
  BY <1>2, ShortGood
<1>4. tmp' = tmp \o one
  BY <1>1, <1>2, AppendIsConcat
<1> HIDE DEF one
<1>5. Range(tmp \o one) = Range(tmp) \cup Range(one)
  BY <1>2, <1>3, RangeConcatenation
<1> QED
  BY <1>3, <1>4, <1>5 DEF line

LEMMA RemovesAdvances ==
  ASSUME TypeInv, RememberedInv, ShapeInv, Advances, NEW c \in Set, Removes(c),
         Todo[1].do \notin Clearing, Now({"sh"})' => tmp' = <<>>
  PROVE  Removes(c)'
<1> DEFINE x == Todo[1]
           d == x.chain
           new == <<On("F", d), On("X", d)>>
           D == On("D", c)
<1>1. /\ Todo # <<>> /\ x \in Instrs /\ x.do \notin Clearing
      /\ x.do \in OnChains => d \in Set
      /\ Writes(x) /\ Ordered(x)
  BY Advancing DEF Advances, Misses, Clearing
<1>2. script \in Seq(Instrs) /\ tmp \in Seq(Instrs)
      /\ jump \in [Set -> Nat] /\ Range(<<>>) = {}
  BY Scripted, ShortGood DEF TypeInv, FilesOK, TypeOK
<1>3. Now({"mv"})' => x.do = "cat"
  BY NextHead
<1>4. IF x.do = "mv" THEN Tidies(tmp, c, TRUE, jump[c] > 0)
                     ELSE Tidies(script, c, TRUE, jump[c] > 0 /\ D \notin Range(tmp))
  BY <1>1 DEF Removes, Now, Clearing
<1> HIDE DEF x, d, new, D
<1>5. /\ Now({"mv"})' => Tidies(tmp', c, TRUE, jump'[c] > 0)
      /\ ~Now({"mv"})' => Tidies(script', c, TRUE, jump'[c] > 0 /\ D \notin Range(tmp'))
  <2>1. CASE x.do = "cat"
    <3>1. script' = script /\ tmp' = tmp \o script /\ jump' = jump
      BY <1>1, <2>1 DEF Writes, Ordered
    <3>2. Tidies(script, c, TRUE, jump[c] > 0 /\ D \notin Range(tmp))
      BY <1>4, <2>1
    <3>3. Tidies(tmp \o script, c, TRUE, jump[c] > 0)
      BY <1>2, <3>2, TidiesAfter DEF D
    <3>4. Range(tmp \o script) = Range(tmp) \cup Range(script)
      BY <1>2, RangeConcatenation
    <3>5. Tidies(script, c, TRUE, jump[c] > 0 /\ D \notin Range(tmp \o script))
      BY <1>2, <3>2, <3>4, TidiesInfo
    <3> QED
      BY <3>1, <3>3, <3>5
  <2>2. CASE x.do = "mv"
    <3>1. Tidies(tmp, c, TRUE, jump[c] > 0)
      BY <1>4, <2>2
    <3>2. tmp # <<>>
      BY <1>2, <3>1, TidiesInfo
    <3>3. script' = tmp /\ tmp' = <<>> /\ jump' = jump
      BY <1>1, <2>2, <3>2 DEF Writes, Ordered
    <3>4. Tidies(tmp, c, TRUE, jump[c] > 0 /\ D \notin {})
      BY <1>2, <3>1, TidiesInfo
    <3> QED
      BY <1>2, <1>3, <2>2, <3>3, <3>4
  <2>3. CASE x.do = "remember"
    <3>1. script' = script /\ jump' = jump
      BY <1>1, <2>3 DEF Writes, Ordered
    <3>2. Tidies(script, c, TRUE, jump[c] > 0 /\ D \notin Range(tmp))
      BY <1>4, <2>3
    <3>3. Range(tmp) \subseteq Range(tmp')
      BY <2>3, Remembered DEF x
    <3>4. Tidies(script, c, TRUE, jump[c] > 0 /\ D \notin Range(tmp'))
      BY <1>2, <3>2, <3>3, TidiesInfo
    <3> QED
      BY <1>3, <2>3, <3>1, <3>4
  <2>4. CASE x.do = "activate"
    <3>1. /\ script' = script /\ tmp' = tmp
          /\ jump' = [jump EXCEPT ![d] = @ + 1] /\ d \in Set
      BY <1>1, <2>4 DEF Writes, Ordered, OnChains, d
    <3>2. Tidies(script, c, TRUE, jump[c] > 0 /\ D \notin Range(tmp))
      BY <1>4, <2>4
    <3>3. d = c => D \in Range(tmp)
      <4>1. x = On("activate", d)
        BY <1>1, <2>4 DEF Instrs, Instruction, On, Inserting, d
      <4> QED
        BY <1>1, <4>1 DEF RememberedInv, x, D
    <3>4. d # c => jump'[c] = jump[c]
      BY <1>2, <3>1
    <3>5. Tidies(script, c, TRUE, jump'[c] > 0 /\ D \notin Range(tmp))
      BY <1>2, <3>2, <3>3, <3>4, TidiesInfo
    <3> QED
      BY <1>3, <2>4, <3>1, <3>5
  <2>5. CASE x.do = "record"
    <3>1. script' = script \o new /\ tmp' = tmp /\ jump' = jump
      BY <1>1, <2>5 DEF Writes, Ordered, d, new
    <3>2. new \in Seq(Instrs)
      <4>1. On("F", d) \in Instrs /\ On("X", d) \in Instrs
        BY <1>1, <2>5, Words DEF OnChains
      <4> QED
        BY <4>1 DEF new
    <3>3. Tidies(script, c, TRUE, jump[c] > 0 /\ D \notin Range(tmp))
      BY <1>4, <2>5
    <3>4. Tidies(script \o new, c, TRUE, jump[c] > 0 /\ D \notin Range(tmp))
      BY <1>2, <3>2, <3>3, TidiesMore
    <3> QED
      BY <1>3, <2>5, <3>1, <3>4
  <2>6. CASE x.do \notin {"cat", "mv", "remember", "activate", "record"}
    <3>1. script' = script /\ tmp' = tmp /\ jump' = jump
      BY <1>1, <2>6 DEF Writes, Ordered, Clearing, Lines
    <3> QED
      BY <1>3, <1>4, <2>6, <3>1
  <2> QED
    BY <2>1, <2>2, <2>3, <2>4, <2>5, <2>6
<1>6. Now({"sh"})' \/ D \notin Range(tmp') => D \notin Range(tmp')
  BY <1>2
<1>7. CASE Now({"mv"})'
  BY <1>5, <1>7 DEF Removes, Tidies, Early
<1>8. CASE ~Now({"mv"})'
  <2>1. (Now({"sh"})' \/ D \notin Range(tmp')) <=> D \notin Range(tmp')
    BY <1>6
  <2>2. \A e :
          /\ Tidies(script', c, TRUE, e)
          /\ jump'[c] > 0 /\ (Now({"sh"})' \/ D \notin Range(tmp')) => e
         => Tidies(script', c, TRUE, jump'[c] > 0 /\ (Now({"sh"})' \/ D \notin Range(tmp')))
    BY DEF Tidies
  <2>3. Tidies(script', c, TRUE, jump'[c] > 0 /\ (Now({"sh"})' \/ D \notin Range(tmp')))
    BY <1>5, <1>8, <2>1, <2>2
  <2> QED
    BY <1>8, <2>3 DEF Removes, D
<1> QED
  BY <1>7, <1>8


(* To record a chain makes the script remove it. *)
LEMMA RecordAdds ==
  ASSUME TypeInv, RecordInv, ShapeInv, Advances, NEW c \in Set, Todo[1] = On("record", c),
         lost = {}
  PROVE  Removes(c)'
<1> DEFINE x == Todo[1]
           new == <<On("F", c), On("X", c)>>
           D == On("D", c)
<1>1. /\ x.do = "record" /\ x.chain = c /\ Writes(x) /\ Ordered(x)
      /\ \A y \in Range(Todo') : Later(x, y)
      /\ Todo' # <<>> => Todo'[1] \in Range(Todo')
  BY Advancing, Fields DEF Advances, Misses, Lines
<1>2. script \in Seq(Instrs) /\ tmp \in Seq(Instrs)
  BY Scripted DEF TypeInv, FilesOK
<1>3. ~Now({"mv"})' /\ ~Now({"sh"})'
  BY <1>1, NextHead DEF Now, Later, Clearing
<1>4. script' = script \o new /\ tmp' = tmp /\ jump' = jump
  BY <1>1 DEF Writes, Ordered
<1>5. new \in Seq(Instrs) /\ Tidies(new, c, TRUE, FALSE)
  <2>1. On("F", c) \in Instrs /\ On("X", c) \in Instrs
    BY Words
  <2>2. new \in Seq(Instrs)
    BY <2>1 DEF new
  <2>3. Tidies(new, c, TRUE, FALSE)
    BY TidiesTwo DEF new
  <2> QED
    BY <2>2, <2>3
<1> HIDE DEF x, new, D
<1>6. jump[c] > 0 /\ D \notin Range(tmp) => D \in Range(script)
  BY DEF RecordInv, JumpsFiled, Owed, D
<1>7. Tidies(script \o new, c, TRUE, jump[c] > 0 /\ D \notin Range(tmp))
  BY <1>2, <1>5, <1>6, TidiesAfter DEF D
<1> QED
  BY <1>3, <1>4, <1>7 DEF Removes, D

(* A line of the script is executed, and the chain still exists. *)
LEMMA GoesTidying ==
  ASSUME TypeInv, ChainInv, ShapeInv, Advances, "stuck" \notin may, Todo[1].do \in Lines,
         NEW c \in made', Goes(c)
  PROVE  Goes(c)'
<1> DEFINE x == Todo[1]
           s == Todo'
           f == chain[c] # <<>>
           d == jump[c] > 0
<1>1. /\ Todo # <<>> /\ x \in Instrs /\ x.chain \in Set /\ Ordered(x) /\ s = Tail(Todo)
      /\ Todo \in Seq(Instrs)
  BY Advancing, Whose DEF Advances, Misses, OnChains
<1>2. /\ made \subseteq Set /\ chain \in [Set -> Seq(Rules)] /\ jump \in [Set -> Nat]
  BY DEF TypeInv, TypeOK
<1>3. made' \subseteq made /\ c \in Set
  <2>1. made' \subseteq made
    BY <1>1 DEF Ordered, Lines
  <2> QED
    BY <1>2, <2>1
<1>4. jump[c] \in {0, 1}
  BY <1>3 DEF ChainInv, ActiveIsReady
<1>5. Tidies(Todo, c, f, d)
  BY <1>1 DEF Goes, Now
<1>6. \/ x = On("X", c) /\ ~f /\ ~d
      \/ Tidies(s, c, f /\ x # On("F", c), d /\ x # On("D", c))
  BY <1>1, <1>5, TidiesTail
<1>7. Now(Lines \cup {"rm"})'
  BY NextHead
<1>8. x = On(x.do, x.chain)
  BY <1>1 DEF Instrs, Instruction, On, Inserting, Lines
<1> HIDE DEF x, s
<1>9. chain'[c] # <<>> => f /\ x # On("F", c)
  <2>1. CASE x.do = "F"
    <3>1. chain' = [chain EXCEPT ![x.chain] = <<>>]
      BY <1>1, <2>1 DEF Ordered
    <3>2. CASE x.chain = c
      BY <1>2, <1>3, <3>1, <3>2
    <3>3. CASE x.chain # c
      BY <1>2, <1>3, <3>1, <3>3, Fields
    <3> QED
      BY <3>2, <3>3
  <2>2. CASE x.do \in {"D", "X"}
    BY <1>1, <2>2, Fields DEF Ordered
  <2> QED
    BY <2>1, <2>2 DEF Lines, x
<1>10. jump'[c] > 0 => d /\ x # On("D", c)
  <2>1. CASE x.do = "D"
    <3>1. jump' = [jump EXCEPT ![x.chain] = IF @ > 0 THEN @ - 1 ELSE 0]
      BY <1>1, <2>1 DEF Ordered
    <3>2. CASE x.chain = c
      BY <1>2, <1>3, <1>4, <3>1, <3>2
    <3>3. CASE x.chain # c
      BY <1>2, <1>3, <3>1, <3>3, Fields
    <3> QED
      BY <3>2, <3>3
  <2>2. CASE x.do \in {"F", "X"}
    BY <1>1, <2>2, Fields DEF Ordered
  <2> QED
    BY <2>1, <2>2 DEF Lines, x
<1>11. ~(x = On("X", c) /\ ~f /\ ~d)
  <2> SUFFICES ASSUME x = On("X", c), ~f, ~d PROVE FALSE
    OBVIOUS
  <2>1. x.do = "X" /\ x.chain = c /\ jump[c] = 0
    BY <1>4, Fields
  <2>2. made' = made \ {c}
    BY <1>1, <2>1 DEF Ordered
  <2> QED
    BY <2>2
<1>12. Tidies(s, c, chain'[c] # <<>>, jump'[c] > 0)
  <2>1. \A g, e, h, i : Tidies(s, c, h, i) /\ (g => h) /\ (e => i) => Tidies(s, c, g, e)
    BY DEF Tidies
  <2> QED
    BY <1>6, <1>9, <1>10, <1>11, <2>1
<1> QED
  BY <1>7, <1>12 DEF Goes, s

(* Where the script is removed, it has removed the chain. *)
LEMMA RemovedBefore ==
  ASSUME TypeInv, ShapeInv, Advances, Todo[1].do = "rm", NEW c, Goes(c)
  PROVE  FALSE
<1>1. /\ Todo # <<>> /\ Todo \in Seq(Instrs) /\ Range(Todo) = {Todo[1]} \cup Range(Todo')
      /\ \A y \in Range(Todo') : Before(Todo[1], y)
  BY Advancing, Whose
<1>2. On("X", c) \in Range(Todo)
  BY <1>1, TidiesInfo DEF Goes, Now
<1>3. On("X", c).do = "X"
  BY Fields
<1> QED
  BY <1>1, <1>2, <1>3 DEF Before, Lines

(* The script is executed. *)
LEMMA ScriptHead ==
  ASSUME TypeInv, ShapeInv, RunsScript
  PROVE  Now(Lines \cup {"rm"})'
<1> DEFINE s == Tail(Todo)
           t == Todo'
<1>1. t = script \o s /\ s # <<>> /\ s[1].do \in {"rm"} \cup Lines
  BY ShapeRunsScript
<1>2. script \in Seq(ScriptLines) /\ script \in Seq(Instrs) /\ s \in Seq(Instrs)
  BY Scripted, Whose, TailFacts DEF TypeInv, FilesOK, RunsScript
<1> HIDE DEF s, t
<1>3. CASE script = <<>>
  <2>1. t = s
    BY <1>1, <1>2, <1>3, ConcatEmptySeq
  <2> QED
    BY <1>1, <2>1 DEF Now, t
<1>4. CASE script # <<>>
  <2>1. Len(script) \in Nat \ {0} /\ script[1] \in ScriptLines
    BY <1>2, <1>4, TailFacts
  <2>2. /\ Len(t) = Len(script) + Len(s) /\ Len(s) \in Nat
        /\ \A n \in 1 .. Len(script) + Len(s) :
             t[n] = IF n <= Len(script) THEN script[n] ELSE s[n - Len(script)]
    BY <1>1, <1>2, ConcatProperties, LenProperties
  <2>3. 1 \in 1 .. Len(script) + Len(s) /\ 1 <= Len(script) /\ Len(t) # 0
    BY <2>1, <2>2
  <2>4. t[1] = script[1]
    BY <2>2, <2>3
  <2>5. t # <<>>
    <3>1. t \in Seq(Instrs)
      BY <1>1, <1>2, ConcatProperties
    <3> QED
      BY <2>3, <3>1, EmptySeq
  <2> QED
    BY <2>1, <2>4, <2>5 DEF ScriptLines, Now, t
<1> QED
  BY <1>3, <1>4

LEMMA GoesRunsScript ==
  ASSUME TypeInv, ShapeInv, RunsScript, NEW c \in Set, Goes(c)
  PROVE  Goes(c)'
<1> DEFINE s == Tail(Todo)
           t == Todo'
<1>1. /\ t = script \o s /\ Todo # <<>> /\ Todo[1].do = "sh"
      /\ chain' = chain /\ jump' = jump
  BY DEF RunsScript, kernel
<1>2. /\ script \in Seq(ScriptLines) /\ script \in Seq(Instrs)
      /\ Todo \in Seq(Instrs) /\ s \in Seq(Instrs)
  BY <1>1, Scripted, Whose, TailFacts DEF TypeInv, FilesOK
<1>3. Tidies(script, c, TRUE, jump[c] > 0)
  <2>1. Removes(c) /\ ~Now({"mv"}) /\ Now({"sh"})
    BY <1>1 DEF Goes, Now, Lines
  <2>2. Tidies(script, c, TRUE, jump[c] > 0 /\ (Now({"sh"}) \/ On("D", c) \notin Range(tmp)))
    BY <2>1 DEF Removes
  <2> QED
    BY <1>2, <2>1, <2>2, TidiesInfo
<1> HIDE DEF s, t
<1>4. Tidies(t, c, chain[c] # <<>>, jump[c] > 0)
  <2>1. Tidies(t, c, TRUE, jump[c] > 0)
    BY <1>1, <1>2, <1>3, TidiesMore
  <2> QED
    BY <2>1 DEF Tidies
<1> QED
  BY <1>1, <1>4, ScriptHead DEF Goes, t


LEMMA FiledAdvances ==
  ASSUME TypeInv, RecordInv, ShapeInv, RememberedInv, FiledInv, Advances
  PROVE  RememberedInv' /\ FiledInv'
<1> DEFINE x == Todo[1]
           Q == Range(Todo')
           R == Range(Todo)
<1>1. /\ Todo # <<>> /\ R = {x} \cup Q /\ Whole(Q)
      /\ Todo' # <<>> => Follows(x, Todo'[1]) /\ Todo'[1] \in Q
  BY Advancing
<1> HIDE DEF Q, R
<1>2. RememberedInv'
  <2> SUFFICES ASSUME NEW c \in Set, Todo' # <<>>, Todo'[1] = On("activate", c)
               PROVE  On("D", c) \in Range(tmp')
    BY DEF RememberedInv
  <2>1. x = On("remember", c)
    BY <1>1, Fields DEF Follows
  <2> QED
    BY <2>1, Remembered, Fields
<1>3. FiledInv'
  <2> SUFFICES ASSUME "stuck" \notin may
               PROVE  /\ lost' = {}
                      /\ \A c \in Set : Building(Q) /\ On("record", c) \notin Q => Removes(c)'
    BY DEF FiledInv, Advances, Q
  <2>1. lost = {} /\ Ordered(x)
    BY DEF FiledInv, Advances, Misses
  <2>2. lost' = {}
    BY <2>1 DEF Ordered
  <2>3. ASSUME Building(Q), NEW c \in Set, On("record", c) \notin Q PROVE Removes(c)'
    <3>1. CASE x = On("record", c)
      BY <2>1, <3>1, RecordAdds
    <3>2. CASE x # On("record", c)
      <4>1. Building(R) /\ On("record", c) \notin R
        BY <1>1, <2>3, <3>2 DEF Building
      <4>2. Removes(c)
        BY <4>1 DEF FiledInv, R
      <4>3. x.do \notin Clearing
        BY <1>1, <4>1 DEF ShapeInv, Whole, R
      <4>4. ~Now({"sh"})'
        BY <1>1, <2>3 DEF Whole, Now, Clearing
      <4> QED
        BY <4>2, <4>3, <4>4, RemovesAdvances
    <3> QED
      BY <3>1, <3>2
  <2> QED
    BY <2>2, <2>3
<1> QED
  BY <1>2, <1>3

LEMMA NextFiled ==
  ASSUME TypeInv, RecordInv, HookIdle, ShapeInv, RememberedInv, FiledInv, [Next]_vars
  PROVE  RememberedInv' /\ FiledInv'
<1>1. Range(<<>>) = {}
  BY ShortGood
<1>7. ASSUME NEW cmd, \/ Begins(cmd) \/ Leaves \/ Exits \/ Declines \/ GivesUp \/ RunsScript
                      \/ Killed \/ Rebooted \/ HookMoves \/ Elsewhere,
             "stuck" \notin may'
      PROVE  "stuck" \notin may /\ lost' = {}
  BY <1>7 DEF Begins, Leaves, Exits, Declines, GivesUp, RunsScript, Killed, Rebooted,
              HookMoves, Elsewhere, FiledInv, history
<1>2. ASSUME NEW cmd, Begins(cmd) PROVE RememberedInv' /\ FiledInv'
  <2> DEFINE t == Program(cmd, conf)
             R == Range(t)
  <2>1. /\ cmd \in Starters \cup Configures \cup {"stop"} /\ conf \in BOOLEAN
        /\ cmd = "restart_not_wd" => "repair" \in may
        /\ Todo' = t /\ Cmd' = cmd
    BY <1>2 DEF Begins, TypeInv, TypeOK
  <2>2. /\ t[1].do # "activate"
        /\ cmd \in Starters => \A c \in Set : On("record", c) \in R
    BY <2>1, ProgramShape
  <2>3. CmdInv'
    BY <1>2, ShapeBegins DEF ShapeInv
  <2> HIDE DEF t, R
  <2>4. cmd \notin Starters => ~Building(R)
    <3>1. cmd \in Configures => Changing(R)
      BY <2>1, <2>3 DEF CmdInv, R
    <3>2. cmd = "stop" => \A y \in R : y.do \in Clearing \cup {"killproc"}
      BY <2>1, <2>3 DEF CmdInv, R
    <3> QED
      BY <2>1, <3>1, <3>2, Fields DEF Building, Changing, Clearing, Lines
  <2>5. RememberedInv'
    BY <2>1, <2>2, Fields DEF RememberedInv
  <2>6. FiledInv'
    BY <1>2, <1>7, <2>1, <2>2, <2>4 DEF FiledInv, R
  <2> QED
    BY <2>5, <2>6
<1>3. CASE Leaves \/ Exits \/ Declines \/ Killed \/ Rebooted
  <2>1. Todo' = <<>>
    BY <1>3 DEF Leaves, Exits, Declines, Killed, Rebooted
  <2> QED
    BY <1>1, <1>3, <1>7, <2>1 DEF RememberedInv, FiledInv, Building
<1>4. CASE GivesUp
  <2>1. /\ Todo' # <<>> => Todo'[1].do # "activate"
        /\ ~Building(Range(Todo'))
    BY <1>4, GaveUp, Fields DEF Building
  <2> QED
    BY <1>4, <1>7, <2>1, Fields DEF RememberedInv, FiledInv
<1>5. CASE RunsScript
  <2> DEFINE Q == Range(Todo')
             R == Range(Todo)
  <2>1. Q = Range(script) \cup Range(Tail(Todo)) /\ Now(Lines \cup {"rm"})'
    BY <1>5, ShapeRunsScript, ScriptHead
  <2>2. R = {Todo[1]} \cup Range(Tail(Todo)) /\ Todo[1].do = "sh"
    BY <1>5, Whose, TailFacts DEF RunsScript
  <2>3. \A y \in Range(script) : y.do \in Lines
    BY Scripted DEF TypeInv, FilesOK
  <2> HIDE DEF Q, R
  <2>4. RememberedInv'
    BY <2>1, Fields DEF RememberedInv, Now, Lines
  <2>5. FiledInv'
    <3> SUFFICES ASSUME Building(Q), NEW c \in Set PROVE On("record", c) \in Q
      BY <1>5, <1>7 DEF FiledInv, Q
    <3>1. Building(R) /\ Todo[1] \in R /\ Todo[1].do \in Clearing
      BY <2>1, <2>2, <2>3, Fields DEF Building, Lines, Clearing
    <3>2. On("record", c) \in R
      BY <3>1 DEF ShapeInv, Whole, R
    <3> QED
      BY <2>1, <2>2, <3>2, Fields
  <2> QED
    BY <2>4, <2>5
<1>6. CASE HookMoves \/ Elsewhere
  <2>1. Todo' = Todo /\ script' = script /\ tmp' = tmp /\ jump' = jump
    BY <1>6 DEF HookMoves, Elsewhere, files, kernel
  <2>2. RememberedInv'
    BY <2>1 DEF RememberedInv
  <2>3. \A c : Removes(c) => Removes(c)'
    BY <2>1 DEF Removes, Now
  <2>4. FiledInv'
    BY <1>6, <1>7, <2>1, <2>3 DEF FiledInv
  <2> QED
    BY <2>2, <2>4
<1> QED
  BY <1>2, <1>3, <1>4, <1>5, <1>6, Moves, FiledAdvances

LEMMA InitFiled == Init => RememberedInv /\ FiledInv
<1> SUFFICES ASSUME Init PROVE RememberedInv /\ FiledInv
  OBVIOUS
<1>1. Todo = <<>> /\ Range(<<>>) = {} /\ lost = {}
  BY ShortGood DEF Init, Procs, Todo, Idle
<1> QED
  BY <1>1 DEF RememberedInv, FiledInv, Building


(* An instruction leaves no chain behind that nothing removes. *)
LEMMA StillGoes ==
  ASSUME TypeInv, ChainInv, ShapeInv, RememberedInv, Advances, "stuck" \notin may,
         NEW c \in Set, Goes(c), c \in made', Now({"sh"})' => tmp' = <<>>
  PROVE  Goes(c)'
<1> DEFINE x == Todo[1]
<1>1. Todo # <<>> /\ x.do # "sh"
  BY DEF Advances
<1>2. CASE x.do \in Lines
  BY <1>2, GoesTidying
<1>3. CASE x.do = "rm"
  BY <1>3, RemovedBefore
<1>4. CASE x.do \notin Clearing
  <2>1. Removes(c) /\ ~Now(Lines \cup {"rm"})'
    BY <1>4, NextHead DEF Goes, Now, Clearing
  <2>2. Removes(c)'
    BY <1>4, <2>1, RemovesAdvances
  <2> QED
    BY <2>1, <2>2 DEF Goes
<1> QED
  BY <1>1, <1>2, <1>3, <1>4 DEF Clearing

(* Nor does what begins or ends without an instruction. *)
LEMMA GoesAnyway ==
  ASSUME NEW c, Goes(c),
         ~Now(Lines \cup {"rm", "mv"}), ~Now(Lines \cup {"rm", "mv"})',
         script' = script, tmp' = tmp, jump' = jump, Now({"sh"})' => tmp = <<>>
  PROVE  Goes(c)'
<1>1. /\ ~Now(Lines \cup {"rm"}) /\ ~Now({"mv"})
      /\ ~Now(Lines \cup {"rm"})' /\ ~Now({"mv"})'
  BY DEF Now
<1>2. Tidies(script, c, TRUE, jump[c] > 0 /\ (Now({"sh"}) \/ On("D", c) \notin Range(tmp)))
  BY <1>1 DEF Goes, Removes
<1>3. Range(<<>>) = {}
  BY ShortGood
<1>4. Now({"sh"})' \/ On("D", c) \notin Range(tmp) => On("D", c) \notin Range(tmp)
  BY <1>3
<1>5. Tidies(script, c, TRUE, jump[c] > 0 /\ (Now({"sh"})' \/ On("D", c) \notin Range(tmp)))
  BY <1>2, <1>4 DEF Tidies
<1> QED
  BY <1>1, <1>5 DEF Goes, Removes

Alone == may \cap {"stuck", "kill", "reboot", "hook"} = {}

(* Where the remove script succeeds, nothing dies and nothing comes beside   *)
(* pglcmd: each chain will be removed, .tmp is being written, and after a    *)
(* stop there is nothing.                                                    *)
StopInv ==
  Alone =>
    /\ \A c \in made : Goes(c)
    /\ tmp # <<>> => Now(Ending \cup {"mv"})
    /\ (Cmd = "stop" /\ NoRemoval) \/ (result = "down" /\ Cmd \notin Starters) =>
         made = {} /\ script = <<>> /\ tmp = <<>>

LEMMA StopAdvances ==
  ASSUME TypeInv, ChainInv, ShapeInv, RememberedInv, FiledInv, Alone, StopInv, Advances
  PROVE  StopInv'
<1> DEFINE x == Todo[1]
           Q == Range(Todo')
           R == Range(Todo)
<1>1. /\ Todo # <<>> /\ x \in Instrs /\ x.do # "sh" /\ R = {x} \cup Q
      /\ \A y \in Q : Later(x, y)
      /\ x.do \in OnChains => x.chain \in Set
      /\ Cmd' = Cmd /\ result' = result /\ Writes(x) /\ Ordered(x)
  BY Advancing DEF Advances, Misses, Alone
<1>2. CmdInv /\ Whole(R) /\ made \subseteq Set
  BY DEF ShapeInv, R, TypeInv, TypeOK
<1>3. /\ \A c \in made : Goes(c)
      /\ tmp # <<>> => x.do \in Ending \cup {"mv"}
      /\ (Cmd = "stop" /\ Do("rm") \notin R) \/ (result = "down" /\ Cmd \notin Starters) =>
           made = {} /\ script = <<>> /\ tmp = <<>>
  BY DEF StopInv, Now, NoRemoval
<1>4. x.do \in Ending => Now(Ending \cup {"mv"})'
  BY NextHead
<1> HIDE DEF x, Q, R
<1>5. tmp' # <<>> => Now(Ending \cup {"mv"})'
  <2>1. CASE x.do \in Ending
    BY <1>4, <2>1
  <2>2. CASE x.do = "mv"
    BY <1>1, <2>2 DEF Writes
  <2>3. CASE x.do \notin Ending \cup {"mv"}
    BY <1>1, <1>3, <2>3 DEF Writes, Ending
  <2> QED
    BY <2>1, <2>2, <2>3
<1>6. Now({"sh"})' => tmp' = <<>>
  BY <1>5 DEF Now, Ending
<1>7. ASSUME NEW c \in made', c \notin made PROVE c \in Set /\ Goes(c)
  <2>1. x.do = "create" /\ x.chain = c /\ c \in Set
    BY <1>1, <1>7 DEF Ordered, OnChains
  <2>2. x \in R /\ Stage(x) > 0
    BY <1>1, <2>1 DEF Stage
  <2>3. Building(R)
    BY <1>2, <2>2 DEF Whole
  <2>4. On("record", c) \notin R
    BY <1>1, <2>1, Fields DEF Later
  <2>5. Removes(c)
    BY <2>1, <2>3, <2>4 DEF FiledInv, Alone, R
  <2> QED
    BY <2>1, <2>5 DEF Goes, Now, Lines, x
<1>8. ASSUME NEW c \in made' PROVE Goes(c)'
  <2>1. c \in Set /\ Goes(c)
    BY <1>2, <1>3, <1>7
  <2> QED
    BY <1>6, <2>1, StillGoes DEF Alone
<1>9. x.do = "rm" => made' = {} /\ script' = <<>> /\ tmp' = <<>>
  <2> SUFFICES ASSUME x.do = "rm" PROVE made' = {} /\ script' = <<>> /\ tmp' = <<>>
    OBVIOUS
  <2>1. made = {}
    BY <1>3, RemovedBefore DEF x
  <2> QED
    BY <1>1, <1>3, <2>1 DEF Writes, Ordered, Ending
<1>10. Cmd \notin Starters => x.do \in Clearing \cup {"killproc", "if_running", "ensure", "delete"}
  <2>1. x \in R /\ Cmd # "none"
    BY <1>1, <1>2 DEF CmdInv
  <2>2. Cmd = "stop" => x.do \in Clearing \cup {"killproc"}
    BY <1>2, <2>1 DEF CmdInv, R
  <2>3. Cmd \in Configures => x.do \in {"if_running", "ensure", "delete"}
    BY <1>2, <2>1 DEF CmdInv, Changing, R
  <2> QED
    BY <2>1, <2>2, <2>3, Whose
<1>11. ASSUME (Cmd = "stop" /\ Do("rm") \notin Q) \/ (result = "down" /\ Cmd \notin Starters)
       PROVE  made' = {} /\ script' = <<>> /\ tmp' = <<>>
  <2>1. CASE x.do = "rm"
    BY <1>9, <2>1
  <2>2. CASE x.do # "rm"
    <3>1. made = {} /\ script = <<>> /\ tmp = <<>>
      BY <1>1, <1>3, <1>11, <2>2, Fields
    <3>2. x.do \in Lines \cup {"killproc", "if_running", "ensure", "delete"}
      BY <1>1, <1>10, <1>11, <2>2 DEF Clearing, Starters
    <3> QED
      BY <1>1, <3>1, <3>2 DEF Writes, Ordered, Lines
  <2> QED
    BY <2>1, <2>2
<1> QED
  BY <1>1, <1>5, <1>8, <1>11 DEF StopInv, NoRemoval, Q

LEMMA NextStop ==
  ASSUME TypeInv, ChainInv, HookIdle, ShapeInv, RememberedInv, FiledInv, StopInv, [Next]_vars
  PROVE  StopInv'
<1> SUFFICES ASSUME Alone' PROVE StopInv'
  BY DEF StopInv
<1>1. may' = may
  BY Moves DEF Begins, Leaves, Exits, Declines, GivesUp, RunsScript, Advances, Killed,
               Rebooted, HookMoves, Elsewhere
<1>2. Alone
  BY <1>1 DEF Alone
<1>3. /\ \A c \in made : Goes(c)
      /\ tmp # <<>> => Now(Ending \cup {"mv"})
      /\ (Cmd = "stop" /\ NoRemoval) \/ (result = "down" /\ Cmd \notin Starters) =>
           made = {} /\ script = <<>> /\ tmp = <<>>
  BY <1>2 DEF StopInv
<1>4. made \subseteq Set /\ Range(<<>>) = {}
  BY ShortGood DEF TypeInv, TypeOK
<1>5. ASSUME NEW cmd, Begins(cmd) PROVE StopInv'
  <2> DEFINE t == Program(cmd, conf)
  <2>1. /\ cmd \in Starters \cup Configures \cup {"stop"} /\ conf \in BOOLEAN
        /\ cmd = "restart_not_wd" => "repair" \in may
        /\ Todo' = t /\ Cmd' = cmd /\ Cmd = "none" /\ Todo = <<>>
        /\ script' = script /\ tmp' = tmp /\ made' = made /\ jump' = jump /\ result' = result
    BY <1>5 DEF Begins, TypeInv, TypeOK, files, kernel, history
  <2>2. /\ t[1].do \notin Lines \cup {"rm", "mv"}
        /\ cmd = "stop" => Do("rm") \in Range(t)
    BY <2>1, ProgramShape
  <2> HIDE DEF t
  <2>3. tmp = <<>>
    BY <1>3, <2>1 DEF Now
  <2>4. \A c \in made' : Goes(c)'
    BY <1>3, <2>1, <2>2, <2>3, GoesAnyway DEF Now
  <2>5. (Cmd = "stop" /\ NoRemoval)' => FALSE
    BY <2>1, <2>2 DEF NoRemoval
  <2> QED
    BY <1>3, <2>1, <2>3, <2>4, <2>5 DEF StopInv, Starters
<1>6. CASE Leaves
  <2>1. /\ Todo = <<>> /\ Todo' = <<>> /\ Cmd' = "none" /\ Cmd # "none"
        /\ result' = "down" => Cmd = "stop" \/ (result = "down" /\ Cmd \notin Starters)
        /\ script' = script /\ tmp' = tmp /\ made' = made /\ jump' = jump
    BY <1>6 DEF Leaves, files, kernel, Starters
  <2>2. tmp = <<>>
    BY <1>3, <2>1 DEF Now
  <2>3. \A c \in made' : Goes(c)'
    BY <1>3, <2>1, GoesAnyway DEF Now
  <2>4. NoRemoval
    BY <1>4, <2>1 DEF NoRemoval
  <2> QED
    BY <1>3, <2>1, <2>2, <2>3, <2>4 DEF StopInv, Starters
<1>12. CASE Exits
  <2>1. /\ Todo # <<>> /\ Todo[1].do = "start_daemon" /\ Todo' = <<>> /\ Cmd' = "none"
        /\ result' = "exited"
        /\ script' = script /\ tmp' = tmp /\ made' = made /\ jump' = jump
    BY <1>12 DEF Exits, files, kernel
  <2>2. tmp = <<>>
    BY <1>3, <2>1 DEF Now, Ending
  <2>3. \A c \in made' : Goes(c)'
    BY <1>3, <2>1, GoesAnyway DEF Now, Lines
  <2> QED
    BY <2>1, <2>2, <2>3 DEF StopInv
<1>7. CASE Declines
  <2>1. /\ Todo # <<>> /\ Todo[1].do \in {"if_running", "unless_running"}
        /\ Todo' = <<>> /\ Cmd' = Cmd /\ result' = result
        /\ script' = script /\ tmp' = tmp /\ made' = made /\ jump' = jump
    BY <1>7 DEF Declines, files, kernel, history
  <2>2. tmp = <<>>
    BY <1>3, <2>1 DEF Now, Ending
  <2>3. \A c \in made' : Goes(c)'
    BY <1>3, <2>1, GoesAnyway DEF Now, Lines
  <2>4. Cmd # "stop"
    <3>1. Todo[1] \in Range(Todo)
      BY <2>1, Whose, TailFacts
    <3> QED
      BY <2>1, <3>1 DEF ShapeInv, CmdInv, Clearing, Lines
  <2> QED
    BY <1>3, <2>1, <2>2, <2>3, <2>4 DEF StopInv
<1>8. CASE GivesUp
  <2>1. /\ Todo # <<>> /\ Cmd' = Cmd /\ result' = result
        /\ script' = script /\ tmp' = tmp /\ made' = made /\ jump' = jump
        /\ Todo[1].do \in {"start_daemon", "create", "insert", "ensure", "activate", "delete"}
        /\ Todo' = IF Todo[1].do = "start_daemon" THEN delete_iptables
                   ELSE fail_insert_iptables(Cmd, Todo[1].rule)
    BY <1>8 DEF GivesUp, files, kernel, history
  <2>2. /\ Todo' # <<>> => Todo'[1].do \in {"sh", "cat"}
        /\ Todo[1] \in Range(Todo) /\ Todo[1] \in Instrs
    BY <1>8, <2>1, GaveUp, Whose, TailFacts
  <2>3. tmp # <<>> => Now({"cat"})'
    <3> SUFFICES ASSUME tmp # <<>> PROVE Now({"cat"})'
      OBVIOUS
    <3>1. Todo[1].do = "activate"
      BY <1>3, <2>1 DEF Now, Ending
    <3>2. Cmd \in Starters
      <4>1. Cmd # "none" /\ Cmd # "stop" /\ Cmd \notin Configures
        BY <2>1, <2>2, <3>1 DEF ShapeInv, CmdInv, Changing, Clearing, Lines
      <4> QED
        BY <4>1, Whose
    <3>3. Todo[1].rule # "local"
      BY <2>2, <3>1 DEF Instrs, Inserting
    <3>4. Todo' = <<Do("cat"), Do("mv")>> \o delete_iptables
      BY <2>1, <3>1, <3>2, <3>3 DEF fail_insert_iptables
    <3>5. Todo' # <<>> /\ Todo'[1] = Do("cat")
      BY <3>4 DEF delete_iptables
    <3> QED
      BY <3>5, Fields DEF Now
  <2>4. \A c \in made' : Goes(c)'
    BY <1>3, <2>1, <2>2, <2>3, GoesAnyway DEF Now, Lines
  <2>5. Cmd # "stop"
    BY <2>1, <2>2 DEF ShapeInv, CmdInv, Clearing, Lines
  <2> QED
    BY <1>3, <2>1, <2>3, <2>4, <2>5 DEF StopInv, Now, Ending
<1>9. CASE RunsScript
  <2>1. /\ Todo # <<>> /\ Todo[1].do = "sh" /\ Cmd' = Cmd /\ result' = result
        /\ script' = script /\ tmp' = tmp /\ made' = made
    BY <1>9 DEF RunsScript, files, kernel, history
  <2>2. \A c \in made' : Goes(c)'
    BY <1>3, <1>4, <1>9, <2>1, GoesRunsScript
  <2>3. tmp = <<>>
    BY <1>3, <2>1 DEF Now, Ending
  <2>4. NoRemoval' => NoRemoval
    <3>1. Range(Todo') = Range(script) \cup Range(Tail(Todo))
      BY <1>9, ShapeRunsScript
    <3>2. Range(Todo) = {Todo[1]} \cup Range(Tail(Todo))
      BY <2>1, Whose, TailFacts
    <3> QED
      BY <2>1, <3>1, <3>2, Fields DEF NoRemoval
  <2> QED
    BY <1>3, <2>1, <2>2, <2>3, <2>4 DEF StopInv
<1>10. CASE Elsewhere
  <2>1. /\ Todo' = Todo /\ Cmd' = Cmd /\ result' = result
        /\ script' = script /\ tmp' = tmp /\ made' = made /\ chain' = chain /\ jump' = jump
    BY <1>10 DEF Elsewhere, files, kernel, history
  <2>2. \A c \in made' : Goes(c)'
    BY <1>3, <2>1 DEF Goes, Removes, Now
  <2> QED
    BY <1>3, <2>1, <2>2 DEF StopInv, Now, NoRemoval
<1>11. ~Killed /\ ~Rebooted /\ ~HookMoves
  BY <1>2 DEF Alone, Killed, Rebooted, HookMoves
<1> QED
  BY <1>2, <1>5, <1>6, <1>7, <1>8, <1>9, <1>10, <1>11, <1>12, Moves, StopAdvances


Unfailing == may \cap {"fail", "stuck", "hook"} = {}

(* Where nothing fails by itself: as many chains as starts have failed are   *)
(* gone, the first ones first.  A start fails at the first chain that still  *)
(* exists, and takes it back together with those before.                     *)
HealInv ==
  Unfailing =>
    /\ refused \in 0 .. Len(Chains)
    /\ Cmd \notin Starters => \A i \in 1 .. refused : Chains[i] \notin made
    /\ Cmd \in Starters /\ Fine =>
         \A i \in 1 .. refused :
           On("create", Chains[i]) \in Range(Todo) => Chains[i] \notin made
    /\ Cmd \in Starters /\ ~Fine =>
         \E j \in refused + 1 .. Len(Chains) : \A i \in 1 .. j :
           Chains[i] \in made => Do("rm") \in Range(Todo) /\ Goes(Chains[i])

LEMMA HealLeaves ==
  ASSUME TypeInv, Unfailing, HealInv, Leaves
  PROVE  HealInv'
<1>1. /\ Cmd # "none" /\ Todo = <<>> /\ Cmd' = "none" /\ Fine' /\ made' = made
      /\ refused' = IF Cmd \notin Starters THEN refused
                    ELSE IF Fine THEN 0 ELSE Min({refused + 1, Len(Chains) + 1})
  BY DEF Leaves, kernel
<1>2. Len(Chains) \in Nat /\ Range(<<>>) = {} /\ refused \in 0 .. Len(Chains)
  BY ChainsAreFew, ShortGood DEF HealInv
<1>3. refused' \in 0 .. Len(Chains) /\ \A i \in 1 .. refused' : Chains[i] \notin made'
  <2>1. CASE Cmd \notin Starters
    BY <1>1, <1>2, <2>1 DEF HealInv
  <2>2. CASE Cmd \in Starters /\ Fine
    BY <1>1, <1>2, <2>2
  <2>3. CASE Cmd \in Starters /\ ~Fine
    <3>1. PICK j \in refused + 1 .. Len(Chains) : \A i \in 1 .. j : Chains[i] \notin made
      BY <1>1, <1>2, <2>3 DEF HealInv
    <3> DEFINE P == {refused + 1, Len(Chains) + 1}
    <3>2. Min(P) \in P /\ \A n \in P : Min(P) <= n
      <4>1. P \in SUBSET Nat /\ P # {}
        BY <1>2
      <4> HIDE DEF P
      <4> QED
        BY <4>1, FirstPosition
    <3>3. Min(P) = refused + 1
      BY <1>2, <3>1, <3>2
    <3>4. refused' = refused + 1
      BY <1>1, <2>3, <3>3
    <3>5. refused + 1 \in 0 .. Len(Chains) /\ \A i \in 1 .. refused + 1 : i \in 1 .. j
      BY <1>2, <3>1
    <3> QED
      BY <1>1, <3>1, <3>4, <3>5
  <2> QED
    BY <2>1, <2>2, <2>3
<1> QED
  BY <1>1, <1>3 DEF HealInv, Starters

(* A start that fails. *)
LEMMA HealGivesUp ==
  ASSUME TypeInv, ShapeInv, FiledInv, Unfailing, HealInv, GivesUp
  PROVE  HealInv'
<1> DEFINE x == Todo[1]
           t == Todo'
           R == Range(Todo)
           Q == Range(Tail(Todo))
<1>1. /\ Todo # <<>> /\ Cmd' = Cmd /\ ~Fine' /\ refused' = refused
      /\ script' = script /\ tmp' = tmp /\ made' = made /\ jump' = jump
      /\ x.do \in {"start_daemon", "create", "insert", "ensure", "activate", "delete"}
      /\ \/ x.do = "create" /\ x.chain \in made
         \/ x.do \in {"insert", "ensure", "activate"} /\ x.chain \notin made
      /\ t = IF x.do = "start_daemon" THEN delete_iptables ELSE fail_insert_iptables(Cmd, x.rule)
  BY DEF GivesUp, files, kernel, history, Unfailing
<1>2. /\ x \in R /\ x \in Instrs /\ R = {x} \cup Q
      /\ x.do \in OnChains => x.chain \in Set
      /\ \A y \in Q : Before(x, y) /\ Later(x, y)
  <2>1. Todo \in Seq(Instrs) /\ InOrder(Todo) /\ Adjacent(Todo) /\ Closed(R) /\ Shape(Todo)
    BY Whose DEF ShapeInv
  <2>2. /\ x \in Instrs /\ R = {x} \cup Q
        /\ \A y \in Q : Before(x, y) /\ Later(x, y)
    BY <1>1, <2>1, TailFacts, TailShape, ShapeTail
  <2> HIDE DEF x, Q, R
  <2> QED
    BY <2>2 DEF Instrs
<1>3. /\ refused \in 0 .. Len(Chains) /\ Len(Chains) \in Nat
      /\ Cmd \notin Starters => \A i \in 1 .. refused : Chains[i] \notin made
      /\ Cmd \in Starters /\ Fine =>
           \A i \in 1 .. refused : On("create", Chains[i]) \in R => Chains[i] \notin made
  BY ChainsAreFew DEF HealInv
<1>4. CmdInv /\ BuiltInv
  BY DEF ShapeInv
<1>5. CASE Cmd \notin Starters
  BY <1>1, <1>3, <1>5 DEF HealInv
<1>6. CASE Cmd \in Starters
  <2>1. Fine /\ Building(R) /\ Steady(R)
    <3>1. Fine
      BY <1>1, <1>2, <1>4 DEF CmdInv, Clearing, Lines, R
    <3> QED
      BY <1>1, <1>4, <1>6, <3>1 DEF CmdInv, R
  <2>2. x.do = "create" /\ x.chain \in made
    <3> SUFFICES ASSUME x.do \in {"insert", "ensure", "activate"}, x.chain \notin made
                 PROVE  FALSE
      BY <1>1
    <3> DEFINE y == On("create", x.chain)
    <3>1. x.chain \in Set
      BY <1>2 DEF OnChains, Inserting
    <3>2. y \in R
      BY <1>4, <2>1, <3>1 DEF BuiltInv, R
    <3>3. y.do = "create" /\ y.chain = x.chain /\ Stage(y) = 1
      BY Fields, Stages
    <3> HIDE DEF y
    <3>4. y \in Q
      BY <1>2, <3>2, <3>3
    <3>5. ~(Stage(x) > 0)
      <4>1. Stage(x) \in 0 .. 4
        BY DEF Stage
      <4>2. Stage(x) < 1 \/ Stage(x) = 0 \/ ~(Stage(x) > 0)
        BY <1>2, <3>3, <3>4, <4>1 DEF Before
      <4> QED
        BY <4>1, <4>2
    <3>6. x.do \in Inserting /\ x.rule = "port"
      BY <1>2, <3>5 DEF Stage, Instrs, Rules, Inserting
    <3>7. x.do = "insert"
      BY <1>2, <2>1, <3>6 DEF Steady, Inserting
    <3>8. y # On("create", x.chain)
      BY <1>2, <3>4, <3>6, <3>7 DEF Later
    <3> QED
      BY <3>8 DEF y
  <2>3. x.chain \in Set /\ x = On("create", x.chain)
    BY <1>2, <2>2 DEF OnChains, Instrs, Instruction, On, Inserting
  <2>4. PICK j \in 1 .. Len(Chains) : x.chain = Chains[j]
    BY <2>3, ChainsAreFew
  <2>5. j \in refused + 1 .. Len(Chains)
    <3>1. ~(j \in 1 .. refused)
      BY <1>2, <1>3, <1>6, <2>1, <2>2, <2>3, <2>4
    <3> QED
      BY <1>3, <3>1
  <2>6. t = <<Do("cat"), Do("mv")>> \o delete_iptables
    <3>1. x.rule # "local"
      BY <1>2, <2>2 DEF Instrs, Inserting
    <3> QED
      BY <1>1, <1>6, <2>2, <3>1 DEF fail_insert_iptables
  <2>7. t # <<>> /\ t[1] = Do("cat")
    BY <2>6 DEF delete_iptables
  <2>8. Do("rm") \in Range(t)
    BY <2>7, GaveUp
  <2> HIDE DEF x, t, Q, R
  <2>9. ASSUME NEW i \in 1 .. j PROVE Goes(Chains[i])'
    <3> DEFINE c == Chains[i]
    <3>1. i \in 1 .. Len(Chains) /\ c \in Set /\ i <= j
      BY <1>3, ChainsAreFew
    <3>2. ~Sooner(x.chain, c)
      <4> SUFFICES ASSUME NEW m \in 1 .. Len(Chains), NEW n \in 1 .. Len(Chains), m < n,
                          Chains[m] = Chains[j], Chains[n] = Chains[i]
                   PROVE  FALSE
        BY <2>4 DEF Sooner
      <4>1. DOMAIN Chains = 1 .. Len(Chains)
        BY LenProperties
      <4>2. m = j /\ n = i
        BY <3>1, <4>1
      <4> QED
        BY <3>1, <4>2
    <3>3. On("record", c) \notin R
      BY <1>2, <2>2, <3>2, Fields DEF Later
    <3>4. Removes(c)
      BY <2>1, <3>1, <3>3 DEF FiledInv, Unfailing, R
    <3>5. Goes(c) /\ ~Now(Lines \cup {"rm", "mv"})
      BY <2>2, <3>4 DEF Goes, Now, Lines, x
    <3>6. ~Now(Lines \cup {"rm", "mv"})' /\ ~Now({"sh"})'
      BY <2>7, Fields DEF Now, Lines, t
    <3>7. Goes(c)'
      BY <1>1, <3>5, <3>6, GoesAnyway
    <3> QED
      BY <3>7
  <2> QED
    BY <1>1, <1>3, <1>6, <2>5, <2>8, <2>9 DEF HealInv, t
<1> QED
  BY <1>5, <1>6


LEMMA HealAdvances ==
  ASSUME TypeInv, ChainInv, ShapeInv, RememberedInv, Unfailing, HealInv, Advances
  PROVE  HealInv'
<1> DEFINE x == Todo[1]
           Q == Range(Todo')
           R == Range(Todo)
<1>1. /\ Todo # <<>> /\ x \in Instrs /\ x.do # "sh" /\ R = {x} \cup Q
      /\ \A y \in Q : Later(x, y)
      /\ Todo' # <<>> => Todo'[1] \in Q
      /\ Cmd' = Cmd /\ Fine' = Fine /\ refused' = refused /\ Writes(x) /\ Ordered(x)
  BY Advancing DEF Advances, Misses, Unfailing
<1>2. CmdInv
  BY DEF ShapeInv
<1>3. /\ refused \in 0 .. Len(Chains) /\ Len(Chains) \in Nat
      /\ \A i \in 1 .. Len(Chains) : Chains[i] \in Set
  BY ChainsAreFew DEF HealInv
<1>4. x.do \in Ending => Now(Ending \cup {"mv"})'
  BY NextHead
<1> HIDE DEF x, Q, R
<1>5. \A c : c \in made' => c \in made \/ (x.do = "create" /\ x.chain = c)
  BY <1>1 DEF Ordered
<1>6. CASE Cmd \notin Starters
  <2>1. x.do # "create"
    <3>1. x \in R /\ Cmd # "none"
      BY <1>1, <1>2 DEF CmdInv
    <3>2. Cmd = "stop" => x.do # "create"
      BY <1>2, <3>1 DEF CmdInv, Clearing, Lines, R
    <3>3. Cmd \in Configures => x.do # "create"
      BY <1>2, <3>1 DEF CmdInv, Changing, R
    <3> QED
      BY <1>6, <3>1, <3>2, <3>3, Whose
  <2>2. \A i \in 1 .. refused : Chains[i] \notin made'
    BY <1>5, <1>6, <2>1 DEF HealInv
  <2> QED
    BY <1>1, <1>3, <1>6, <2>2 DEF HealInv
<1>7. CASE Cmd \in Starters /\ Fine
  <2>1. ASSUME NEW i \in 1 .. refused, On("create", Chains[i]) \in Q
        PROVE  Chains[i] \notin made'
    <3> DEFINE c == Chains[i]
    <3>1. c \notin made
      BY <1>1, <1>7, <2>1 DEF HealInv, R
    <3>2. ~Sooner(c, c)
      <4>1. DOMAIN Chains = 1 .. Len(Chains)
        BY LenProperties
      <4> QED
        BY <1>3, <4>1 DEF Sooner
    <3>3. ~(x.do = "create" /\ x.chain = c)
      BY <1>1, <2>1, <3>2, Fields DEF Later
    <3> QED
      BY <1>5, <3>1, <3>3
  <2> QED
    BY <1>1, <1>3, <1>7, <2>1 DEF HealInv, Q
<1>8. CASE Cmd \in Starters /\ ~Fine
  <2>1. x.do \in Clearing \cup {"cat", "mv"}
    BY <1>1, <1>2, <1>8 DEF CmdInv, R
  <2>2. x.do # "rm" /\ Now({"sh"})' => tmp' = <<>>
    <3> SUFFICES ASSUME x.do # "rm", Now({"sh"})' PROVE tmp' = <<>>
      OBVIOUS
    <3>1. x.do \notin Ending /\ x.do \notin Lines
      BY <1>4, NextHead DEF Now, Ending, Lines, x
    <3>2. x.do = "mv"
      BY <1>1, <2>1, <3>1 DEF Clearing, Ending
    <3> QED
      BY <1>1, <3>2 DEF Writes
  <2>3. PICK j \in refused + 1 .. Len(Chains) : \A i \in 1 .. j :
          Chains[i] \in made => Do("rm") \in R /\ Goes(Chains[i])
    BY <1>8 DEF HealInv, R
  <2>4. ASSUME NEW i \in 1 .. j, Chains[i] \in made'
        PROVE  Do("rm") \in Q /\ Goes(Chains[i])'
    <3> DEFINE c == Chains[i]
    <3>1. c \in Set
      <4>1. i \in 1 .. Len(Chains)
        BY <1>3, <2>3
      <4> QED
        BY <1>3, <4>1
    <3>2. c \in made
      BY <1>5, <2>1, <2>4 DEF Clearing, Lines
    <3>3. Do("rm") \in R /\ Goes(c)
      BY <2>3, <3>2
    <3> HIDE DEF c
    <3>4. x.do # "rm"
      BY <3>3, RemovedBefore DEF x
    <3>5. Do("rm") \in Q
      BY <1>1, <3>3, <3>4, Fields
    <3>6. Goes(c)'
      BY <2>2, <2>4, <3>1, <3>3, <3>4, StillGoes DEF Unfailing, c
    <3> QED
      BY <3>5, <3>6 DEF c
  <2> QED
    BY <1>1, <1>3, <1>8, <2>3, <2>4 DEF HealInv, Q
<1> QED
  BY <1>6, <1>7, <1>8


LEMMA NextHeal ==
  ASSUME TypeInv, ChainInv, HookIdle, ShapeInv, RememberedInv, FiledInv, HealInv, [Next]_vars
  PROVE  HealInv'
<1> SUFFICES ASSUME Unfailing' PROVE HealInv'
  BY DEF HealInv
<1>1. may' = may
  BY Moves DEF Begins, Leaves, Exits, Declines, GivesUp, RunsScript, Advances, Killed,
               Rebooted, HookMoves, Elsewhere
<1>2. Unfailing
  BY <1>1 DEF Unfailing
<1>3. /\ refused \in 0 .. Len(Chains) /\ Len(Chains) \in Nat /\ Range(<<>>) = {}
      /\ Cmd \notin Starters => \A i \in 1 .. refused : Chains[i] \notin made
  BY <1>2, ChainsAreFew, ShortGood DEF HealInv
<1>4. ASSUME NEW cmd, Begins(cmd) PROVE HealInv'
  <2>1. Cmd = "none" /\ Fine' /\ made' = made /\ refused' = refused
    BY <1>4 DEF Begins, kernel, history
  <2>2. \A i \in 1 .. refused : Chains[i] \notin made
    BY <1>3, <2>1 DEF Starters
  <2> QED
    BY <1>3, <2>1, <2>2 DEF HealInv
<1>5. CASE Declines
  <2>1. Cmd' = Cmd /\ Fine' /\ Todo' = <<>> /\ made' = made /\ refused' = refused
    BY <1>5 DEF Declines, kernel, history
  <2> QED
    BY <1>3, <2>1 DEF HealInv
<1>6. CASE RunsScript
  <2> DEFINE Q == Range(Todo')
             R == Range(Todo)
  <2>1. /\ Cmd' = Cmd /\ Fine' = Fine /\ made' = made /\ refused' = refused
        /\ Todo # <<>> /\ Todo[1].do = "sh"
    BY <1>6 DEF RunsScript, kernel, history
  <2>2. /\ Q = Range(script) \cup Range(Tail(Todo))
        /\ R = {Todo[1]} \cup Range(Tail(Todo))
    BY <1>6, <2>1, ShapeRunsScript, Whose, TailFacts
  <2>3. \A y \in Range(script) : y.do \in Lines
    BY Scripted DEF TypeInv, FilesOK
  <2> HIDE DEF Q, R
  <2>4. /\ \A c : On("create", c) \in Q => On("create", c) \in R
        /\ Do("rm") \in R => Do("rm") \in Q
    BY <2>1, <2>2, <2>3, Fields DEF Lines
  <2>5. \A c \in Set : Goes(c) => Goes(c)'
    BY <1>6, GoesRunsScript
  <2>6. CASE Cmd \in Starters /\ ~Fine
    <3>1. PICK j \in refused + 1 .. Len(Chains) : \A i \in 1 .. j :
            Chains[i] \in made => Do("rm") \in R /\ Goes(Chains[i])
      BY <1>2, <2>6 DEF HealInv, R
    <3>2. \A i \in 1 .. j : i \in 1 .. Len(Chains) /\ Chains[i] \in Set
      <4>1. \A i \in 1 .. j : i \in 1 .. Len(Chains)
        BY <1>3, <3>1
      <4> QED
        BY <4>1, ChainsAreFew
    <3>3. \A i \in 1 .. j : Chains[i] \in made' => Do("rm") \in Q /\ Goes(Chains[i])'
      BY <2>1, <2>4, <2>5, <3>1, <3>2
    <3> QED
      BY <1>3, <2>1, <2>6, <3>1, <3>3 DEF HealInv, Q
  <2>7. CASE Cmd \notin Starters \/ Fine
    <3>1. Cmd \in Starters => \A i \in 1 .. refused :
            On("create", Chains[i]) \in R => Chains[i] \notin made
      BY <1>2, <2>7 DEF HealInv, R
    <3> QED
      BY <1>3, <2>1, <2>4, <2>7, <3>1 DEF HealInv, Q
  <2> QED
    BY <2>6, <2>7
<1>7. CASE Exits \/ Killed \/ Rebooted
  <2>1. Cmd' = "none" /\ refused' = 0
    BY <1>7 DEF Exits, Killed, Rebooted
  <2> QED
    BY <1>3, <2>1 DEF HealInv, Starters
<1>8. CASE Elsewhere
  <2>1. /\ Todo' = Todo /\ Cmd' = Cmd /\ Fine' = Fine /\ refused' = refused
        /\ script' = script /\ tmp' = tmp /\ made' = made /\ chain' = chain /\ jump' = jump
    BY <1>8 DEF Elsewhere, files, kernel, history
  <2>2. \A c : Goes(c)' <=> Goes(c)
    BY <2>1 DEF Goes, Removes, Now
  <2> QED
    BY <1>2, <2>1, <2>2 DEF HealInv
<1>9. ~HookMoves
  BY <1>2 DEF Unfailing, HookMoves
<1> QED
  BY <1>2, <1>4, <1>5, <1>6, <1>7, <1>8, <1>9, Moves, HealLeaves, HealGivesUp, HealAdvances

(* As long as the remove scripts succeed, no failure, death, bad NICE_LEVEL  *)
(* or stop leaves behind what a user could not get rid of by starting or     *)
(* stopping pgl: traffic is released after a start that was taken back and   *)
(* after a stop, a stop cleans up after failures, and after a death no more  *)
(* starts fail in a row than there are chains.  A line that failed excuses   *)
(* only the chain it was to flush.                                           *)
THEOREM CleansTheorem == Spec => []CleansUp
<1>1. Init => StopInv /\ HealInv
  <2> SUFFICES ASSUME Init PROVE StopInv /\ HealInv
    OBVIOUS
  <2>1. /\ Cmd = "none" /\ made = {} /\ tmp = <<>> /\ result = "none" /\ refused = 0
        /\ Len(Chains) \in Nat
    BY ChainsAreFew DEF Init, Procs, Cmd, Idle
  <2> QED
    BY <2>1 DEF StopInv, HealInv, Starters
<1>2. StopInv => StopCleans
  BY DEF StopInv, StopCleans, Alone, Resting, Idle, Cmd, Starters
<1>3. HealInv => HealsWithin
  BY ChainsAreFew DEF HealInv, HealsWithin, Unfailing
<1>4. Spec => []StopCleans /\ []HealsWithin
  BY <1>1, <1>2, <1>3, InitTypes, NextTypes, InitChain, NextChain, InitRecord, NextRecord,
     NextHook, InitShape, NextShape, InitFiled, NextFiled, NextStop, NextHeal, PTL DEF Spec
<1> QED
  BY <1>4, ReleasesTheorem, PTL DEF CleansUp

=============================================================================
