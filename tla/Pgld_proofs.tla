------------------------------ MODULE Pgld_proofs ------------------------------
(***************************************************************************)
(* Proofs about Pgld: the types, and that a packet is looked up only in a  *)
(* list that is completely loaded, for any number of files, rewrites and   *)
(* signals, delivered anywhere.                                            *)
(***************************************************************************)
EXTENDS Pgld, SequenceTheorems, TLAPS

-----------------------------------------------------------------------------
(* The inductive invariants *)

(* Where main and the handlers can be. *)
Loading == {"open", "read", "merge"}
Serving == {"bind", "recv", "search", "accept", "reject", "hit", "log", "logging"}

LabelsOf(sig) ==
  CASE sig = "main"            -> {"pidfile", "handlers", "init", "clear", "loaded"}
                                    \cup Loading \cup Serving
    [] sig = "SEGV"            -> {"unbind"}
    [] sig = "HUP"             -> {"reopen", "clear", "loaded", "reloaded"} \cup Loading
    [] sig \in {"USR1", "USR2"} -> {"stats", "log", "logging"}
    [] OTHER                   -> {"unbind", "stats", "log", "logging", "free", "unlink"}

(* main serves only if its load went well. *)
Frames ==
  {r \in [sig : {"main", "SEGV"} \cup Signals, at : Labels, file : 0 .. NFiles + 1,
          ref : {"none", "live", "stale"}, bad : BOOLEAN] :
     /\ r.at \in LabelsOf(r.sig)
     /\ r.at = "open" => r.file # 0
     /\ r.at = "read" => r.file \in Files
     /\ r.sig = "main" /\ r.at \in Serving => ~r.bad}

(* No handler runs twice at a time, and only who logs is inside do_log. *)
StackOK ==
  /\ stack \in Seq(Frames) /\ stack # <<>>
  /\ stack[1].sig = "main"
  /\ \A x, y \in 1 .. Len(stack) : stack[x].sig = stack[y].sig => x = y
  /\ logger # 0 => logger \in 1 .. Len(stack) /\ stack[logger].at = "logging"

DataOK ==
  /\ pending \subseteq Signals /\ sent \in 0 .. MaxSignals
  /\ exited \in {"no", "clean", "error", "died"}
  /\ version \in 0 .. MaxVersion
  /\ list \in [held : SUBSET Files, since : 0 .. MaxVersion,
               merged : BOOLEAN, slack : BOOLEAN, torn : BOOLEAN]
  /\ failed \subseteq Files
  /\ queue \in {"unbound", "bound", "closed"}
  /\ packet \in {"none", "queued", "held"}
  /\ pidfile \in {"none", "ours", "stale"}

TypeInv == StackOK /\ DataOK

(* What a computation believes of the list when it goes on: the files before *)
(* its own are done; after its merge, all of them are, and merged.  A load   *)
(* of main that went wrong ends in an exit, whatever it believes, and a torn  *)
(* list is one that main believes too much of.  No reload has a part in that: *)
(* only another one could take its array away.                               *)
Known == list.held \cup failed

Covered(r) ==
  /\ r.at \in {"open", "read"} => 1 .. r.file - 1 \subseteq Known
  /\ r.at = "merge" => Files \subseteq Known
  /\ r.at \in Serving \cup {"loaded", "reloaded"} => Files \subseteq Known /\ list.merged

Fits(r) ==
  /\ r.sig = "main" /\ ~r.bad => list.torn \/ Covered(r)
  /\ r.sig = "HUP" => Covered(r)
  /\ r.sig = "HUP" /\ r.at \in Loading \cup {"loaded", "reloaded"} => ~list.torn
  /\ r.sig = "HUP" /\ r.at \in {"read", "merge"} => r.ref = "live"

(* Those who stand above and let nobody below them see the list: a reload    *)
(* that is halfway, and a TERM or INT that has freed the list and never      *)
(* returns.                                                                  *)
Hides(r) == r.at = "unlink" \/ (r.sig = "HUP" /\ r.at \in Loading)

LoadInv ==
  \A x \in 1 .. Len(stack) :
    Fits(stack[x]) \/ \E y \in x + 1 .. Len(stack) : Hides(stack[y])

-----------------------------------------------------------------------------
(* The stack *)

(* The computation on top is main's if it is the only one. *)
LEMMA TopFacts ==
  ASSUME StackOK
  PROVE  /\ Len(stack) \in Nat \ {0}
         /\ DOMAIN stack = 1 .. Len(stack)
         /\ Top = stack[Len(stack)] /\ Top \in Frames
         /\ \A x \in 1 .. Len(stack) : stack[x] \in Frames
         /\ Top.sig = "main" <=> Len(stack) = 1
         /\ Main = stack[1]
<1>1. Len(stack) \in Nat \ {0} /\ DOMAIN stack = 1 .. Len(stack)
      /\ \A x \in 1 .. Len(stack) : stack[x] \in Frames
  BY DEF StackOK
<1>2. Top = stack[Len(stack)]
  BY DEF Top, Last
<1>3. stack[1].sig = "main" /\ (Top.sig = stack[1].sig => Len(stack) = 1)
  BY <1>1, <1>2 DEF StackOK
<1> QED
  BY <1>1, <1>2, <1>3 DEF Main

(* A frame is replaced, or one is put on top, or the top one is gone. *)
LEMMA Replaced ==
  ASSUME StackOK, NEW f \in Frames, Replace(f)
  PROVE  /\ stack' \in Seq(Frames) /\ Len(stack') = Len(stack)
         /\ stack'[Len(stack)] = f
         /\ \A x \in 1 .. Len(stack) - 1 : stack'[x] = stack[x]
<1>0. Len(stack) \in Nat \ {0}
  BY TopFacts
<1>1. stack' = [stack EXCEPT ![Len(stack)] = f]
  BY DEF Replace
<1>2. stack \in Seq(Frames) /\ Len(stack) \in 1 .. Len(stack)
  BY <1>0 DEF StackOK
<1>3. stack' \in Seq(Frames) /\ Len(stack') = Len(stack)
  BY <1>1, <1>2, ExceptSeq
<1>4. \A x \in 1 .. Len(stack) : stack'[x] = IF x = Len(stack) THEN f ELSE stack[x]
  BY <1>1, <1>2, ExceptSeq
<1>5. \A x \in 1 .. Len(stack) - 1 : x \in 1 .. Len(stack) /\ x # Len(stack)
  BY <1>0
<1> QED
  BY <1>2, <1>3, <1>4, <1>5

LEMMA Pushed ==
  ASSUME StackOK, NEW f \in Frames, stack' = Append(stack, f)
  PROVE  /\ stack' \in Seq(Frames) /\ Len(stack') = Len(stack) + 1
         /\ stack'[Len(stack) + 1] = f
         /\ \A x \in 1 .. Len(stack) : stack'[x] = stack[x]
BY TopFacts DEF StackOK

LEMMA Popped ==
  ASSUME StackOK, Return
  PROVE  /\ stack' \in Seq(Frames) /\ Len(stack') = Len(stack) - 1
         /\ \A x \in 1 .. Len(stack) - 1 : stack'[x] = stack[x]
BY TopFacts DEF StackOK, Return, Front

(* Freeing the array leaves the frames what they are. *)
LEMMA FreedFacts ==
  ASSUME StackOK
  PROVE  /\ Freed(stack) \in Seq(Frames) /\ Len(Freed(stack)) = Len(stack)
         /\ \A x \in 1 .. Len(stack) :
              /\ Freed(stack)[x] \in Frames
              /\ Freed(stack)[x].sig = stack[x].sig /\ Freed(stack)[x].at = stack[x].at
              /\ Freed(stack)[x].file = stack[x].file /\ Freed(stack)[x].bad = stack[x].bad
<1> DEFINE F(x) == [stack[x] EXCEPT !.ref = IF @ = "live" THEN "stale" ELSE @]
<1>1. Freed(stack) = [x \in 1 .. Len(stack) |-> F(x)]
  BY TopFacts DEF Freed
<1>2. ASSUME NEW x \in 1 .. Len(stack)
      PROVE  /\ F(x) \in Frames
             /\ F(x).sig = stack[x].sig /\ F(x).at = stack[x].at
             /\ F(x).file = stack[x].file /\ F(x).bad = stack[x].bad
  <2>1. stack[x] \in Frames
    BY TopFacts
  <2> QED
    BY <2>1 DEF Frames
<1>3. Len(stack) \in Nat
  BY TopFacts
<1> HIDE DEF F
<1>4. Freed(stack) \in Seq(Frames) /\ Len(Freed(stack)) = Len(stack)
  BY <1>1, <1>2, <1>3
<1> QED
  BY <1>1, <1>2, <1>4

-----------------------------------------------------------------------------
(* What keeps the invariants *)

(* The frames keep their handlers and, but for the top one, their labels. *)
LEMMA ShapeStack ==
  ASSUME StackOK, NEW f \in Frames, f.sig = Top.sig,
         stack' \in Seq(Frames), Len(stack') = Len(stack), stack'[Len(stack)] = f,
         \A x \in 1 .. Len(stack) - 1 : stack'[x].sig = stack[x].sig /\ stack'[x].at = stack[x].at,
         \/ logger' = 0
         \/ logger' = logger /\ Top.at # "logging"
         \/ logger' = Len(stack) /\ f.at = "logging"
  PROVE  StackOK'
<1>1. Len(stack) \in Nat \ {0} /\ Top = stack[Len(stack)]
  BY TopFacts
<1>2. \A x \in 1 .. Len(stack) : stack'[x].sig = stack[x].sig
                                 /\ (x # Len(stack) => stack'[x].at = stack[x].at)
  BY <1>1
<1>3. stack[1].sig = "main"
      /\ \A x, y \in 1 .. Len(stack) : stack[x].sig = stack[y].sig => x = y
      /\ (logger # 0 => logger \in 1 .. Len(stack) /\ stack[logger].at = "logging")
  BY DEF StackOK
<1>4. logger' # 0 => logger' \in 1 .. Len(stack) /\ stack'[logger'].at = "logging"
  BY <1>1, <1>2, <1>3
<1>5. stack' # <<>> /\ stack'[1].sig = "main"
  BY <1>1, <1>2, <1>3
<1>6. \A x, y \in 1 .. Len(stack') : stack'[x].sig = stack'[y].sig => x = y
  BY <1>2, <1>3
<1> QED
  BY <1>4, <1>5, <1>6 DEF StackOK

LEMMA ReplaceStack ==
  ASSUME StackOK, NEW f \in Frames, f.sig = Top.sig, Replace(f),
         \/ logger' = 0
         \/ logger' = logger /\ Top.at # "logging"
         \/ logger' = Len(stack) /\ f.at = "logging"
  PROVE  StackOK'
BY Replaced, ShapeStack

(* Whoever is on top may change the list if he hides it, if nobody is below  *)
(* him, or if he leaves it whole.                                            *)
LEMMA ReplaceLoad ==
  ASSUME StackOK, LoadInv, NEW f \in Frames, f.sig = Top.sig, Fits(f)',
         Len(stack') = Len(stack), stack'[Len(stack)] = f,
         \/ /\ UNCHANGED listVars
            /\ \A x \in 1 .. Len(stack) - 1 : stack'[x] = stack[x]
            /\ Hides(Top) => Hides(f)
         \/ Hides(f)
         \/ Len(stack) = 1
         \/ /\ Top.sig = "HUP"
            /\ \A x \in 1 .. Len(stack) - 1 : stack'[x] = stack[x]
            /\ (Files \subseteq Known /\ list.merged)'
  PROVE  LoadInv'
<1>1. Len(stack) \in Nat \ {0} /\ Top = stack[Len(stack)]
      /\ \A x \in 1 .. Len(stack) : stack[x] \in Frames
  BY TopFacts
<1> SUFFICES ASSUME NEW x \in 1 .. Len(stack), x # Len(stack)
             PROVE  Fits(stack[x])' \/ \E y \in x + 1 .. Len(stack) : Hides(stack'[y])
  BY <1>1 DEF LoadInv, Hides
<1>2. x \in 1 .. Len(stack) - 1 /\ Len(stack) \in x + 1 .. Len(stack)
  BY <1>1
<1>3. CASE Hides(f)
  BY <1>2, <1>3 DEF Hides
<1>4. CASE Len(stack) = 1
  BY <1>2, <1>4
<1>5. CASE UNCHANGED listVars /\ (\A z \in 1 .. Len(stack) - 1 : stack'[z] = stack[z])
           /\ (Hides(Top) => Hides(f)) /\ ~Hides(f)
  <2>1. Fits(stack[x]) \/ \E y \in x + 1 .. Len(stack) : Hides(stack[y])
    BY DEF LoadInv
  <2>2. CASE Fits(stack[x])
    BY <1>2, <1>5, <2>2 DEF Fits, Covered, Known, listVars
  <2>3. ASSUME NEW y \in x + 1 .. Len(stack), Hides(stack[y])
        PROVE  \E z \in x + 1 .. Len(stack) : Hides(stack'[z])
    <3>1. y \in 1 .. Len(stack) - 1
      BY <1>1, <1>5, <2>3
    <3> QED
      BY <1>5, <2>3, <3>1
  <2> QED
    BY <2>1, <2>2, <2>3
<1>6. CASE /\ Top.sig = "HUP"
           /\ \A z \in 1 .. Len(stack) - 1 : stack'[z] = stack[z]
           /\ (Files \subseteq Known /\ list.merged)'
  <2>1. stack'[x] = stack[x]
    BY <1>2, <1>6
  <2>2. stack[x].sig # "HUP"
    BY <1>1, <1>6 DEF StackOK
  <2>3. stack[x].at \in {"open", "read"} => 1 .. stack[x].file - 1 \subseteq Files
    <3>1. stack[x].file \in 0 .. NFiles + 1
      BY <1>1 DEF Frames
    <3> QED
      BY <3>1, PgldAssumption DEF Files
  <2> QED
    BY <1>6, <2>1, <2>2, <2>3 DEF Fits, Covered
<1> QED
  BY <1>3, <1>4, <1>5, <1>6

(* A step that leaves the list alone. *)
LEMMA MoveOn ==
  ASSUME StackOK, LoadInv, NEW f \in Frames, f.sig = Top.sig, Replace(f), Fits(f),
         Hides(Top) => Hides(f), UNCHANGED <<list, failed>>,
         \/ logger' = 0
         \/ logger' = logger /\ Top.at # "logging"
         \/ logger' = Len(stack) /\ f.at = "logging"
  PROVE  StackOK' /\ LoadInv'
<1>1. StackOK'
  BY ReplaceStack
<1>2. Fits(f)'
  BY DEF Fits, Covered, Known
<1>3. LoadInv'
  BY <1>2, Replaced, ReplaceLoad DEF listVars
<1> QED
  BY <1>1, <1>3

(* A signal comes in. *)
LEMMA Push ==
  ASSUME StackOK, LoadInv, NEW f \in Frames, Fits(f), stack' = Append(stack, f),
         \A x \in 1 .. Len(stack) : stack[x].sig # f.sig,
         UNCHANGED <<list, failed, logger>>
  PROVE  StackOK' /\ LoadInv'
<1>1. Len(stack) \in Nat \ {0}
  BY TopFacts
<1>2. stack' \in Seq(Frames) /\ Len(stack') = Len(stack) + 1 /\ stack'[Len(stack) + 1] = f
      /\ \A x \in 1 .. Len(stack) : stack'[x] = stack[x]
  BY Pushed
<1>3. StackOK'
  <2>1. stack[1].sig = "main"
        /\ \A x, y \in 1 .. Len(stack) : stack[x].sig = stack[y].sig => x = y
        /\ (logger # 0 => logger \in 1 .. Len(stack) /\ stack[logger].at = "logging")
    BY DEF StackOK
  <2>2. stack'[1].sig = "main" /\ stack' # <<>>
    BY <1>1, <1>2, <2>1
  <2>3. logger' # 0 => logger' \in 1 .. Len(stack') /\ stack'[logger'].at = "logging"
    BY <1>1, <1>2, <2>1
  <2>4. \A x, y \in 1 .. Len(stack') : stack'[x].sig = stack'[y].sig => x = y
    BY <1>1, <1>2, <2>1
  <2> QED
    BY <1>2, <2>2, <2>3, <2>4 DEF StackOK
<1>4. LoadInv'
  <2> SUFFICES ASSUME NEW x \in 1 .. Len(stack) + 1
               PROVE  Fits(stack[x])' \/ \E y \in x + 1 .. Len(stack) + 1 : Hides(stack'[y])
    BY <1>2 DEF LoadInv, Hides
  <2>1. CASE x = Len(stack) + 1
    BY <1>2, <2>1 DEF Fits, Covered, Known
  <2>2. CASE x \in 1 .. Len(stack) /\ Fits(stack[x])
    BY <1>2, <2>2 DEF Fits, Covered, Known
  <2>3. ASSUME x \in 1 .. Len(stack), NEW y \in x + 1 .. Len(stack), Hides(stack[y])
        PROVE  \E z \in x + 1 .. Len(stack) + 1 : Hides(stack'[z])
    <3>1. y \in 1 .. Len(stack) /\ y \in x + 1 .. Len(stack) + 1
      BY <1>1, <2>3
    <3> QED
      BY <1>2, <2>3, <3>1
  <2> QED
    BY <1>1, <2>1, <2>2, <2>3 DEF LoadInv
<1> QED
  BY <1>3, <1>4

(* A handler returns. *)
LEMMA Pop ==
  ASSUME StackOK, LoadInv, Return, Top.sig # "main", ~Hides(Top), UNCHANGED <<list, failed>>,
         logger' = 0 \/ (logger' = logger /\ Top.at # "logging")
  PROVE  StackOK' /\ LoadInv'
<1>1. Len(stack) \in Nat \ {0} /\ Len(stack) # 1 /\ Top = stack[Len(stack)]
  BY TopFacts
<1>2. stack' \in Seq(Frames) /\ Len(stack') = Len(stack) - 1
      /\ \A x \in 1 .. Len(stack) - 1 : stack'[x] = stack[x]
  BY Popped
<1>3. StackOK'
  <2>1. stack[1].sig = "main"
        /\ \A x, y \in 1 .. Len(stack) : stack[x].sig = stack[y].sig => x = y
        /\ (logger # 0 => logger \in 1 .. Len(stack) /\ stack[logger].at = "logging")
    BY DEF StackOK
  <2>2. stack'[1].sig = "main" /\ stack' # <<>>
    BY <1>1, <1>2, <2>1
  <2>3. logger' # 0 => logger' \in 1 .. Len(stack') /\ stack'[logger'].at = "logging"
    BY <1>1, <1>2, <2>1
  <2>4. \A x, y \in 1 .. Len(stack') : stack'[x].sig = stack'[y].sig => x = y
    BY <1>1, <1>2, <2>1
  <2> QED
    BY <1>2, <2>2, <2>3, <2>4 DEF StackOK
<1>4. LoadInv'
  <2> SUFFICES ASSUME NEW x \in 1 .. Len(stack) - 1
               PROVE  Fits(stack[x])' \/ \E y \in x + 1 .. Len(stack) - 1 : Hides(stack'[y])
    BY <1>2 DEF LoadInv, Hides
  <2>1. CASE Fits(stack[x])
    BY <1>2, <2>1 DEF Fits, Covered, Known
  <2>2. ASSUME NEW y \in x + 1 .. Len(stack), Hides(stack[y])
        PROVE  \E z \in x + 1 .. Len(stack) - 1 : Hides(stack'[z])
    <3>1. y \in x + 1 .. Len(stack) - 1 /\ y \in 1 .. Len(stack) - 1
      BY <1>1, <2>2
    <3> QED
      BY <1>2, <2>2, <3>1
  <2> QED
    BY <1>1, <2>1, <2>2 DEF LoadInv
<1> QED
  BY <1>3, <1>4

(* Nothing moves. *)
LEMMA Stay ==
  ASSUME StackOK, LoadInv, UNCHANGED <<stack, list, failed, logger>>
  PROVE  StackOK' /\ LoadInv'
BY DEF StackOK, LoadInv, Fits, Covered, Known, Hides

LEMMA TopFits ==
  ASSUME StackOK, LoadInv
  PROVE  Fits(Top)
<1>1. Len(stack) \in Nat \ {0} /\ Top = stack[Len(stack)]
  BY TopFacts
<1> QED
  BY <1>1 DEF LoadInv

(* Whose labels they are. *)
LEMMA SigOf ==
  ASSUME NEW r \in Frames
  PROVE  /\ r.sig \in {"main", "SEGV"} \cup Handled /\ r.sig \in {"main", "SEGV"} \cup Signals
         /\ r.at \in {"pidfile", "handlers", "init"} \cup (Serving \ {"log", "logging"})
              => r.sig = "main"
         /\ r.at \in {"clear", "loaded"} \cup Loading => r.sig \in {"main", "HUP"}
         /\ r.at \in {"reopen", "reloaded"} => r.sig = "HUP"
         /\ r.at = "stats" => r.sig \in {"USR1", "USR2", "TERM", "INT"}
         /\ r.at \in {"log", "logging"} => r.sig \in {"main", "USR1", "USR2", "TERM", "INT"}
         /\ r.at = "unbind" => r.sig \in {"SEGV", "TERM", "INT"}
         /\ r.at \in {"free", "unlink"} => r.sig \in {"TERM", "INT"}
<1>1. r.sig \in {"main", "SEGV"} \cup Handled /\ r.sig \in {"main", "SEGV"} \cup Signals
      /\ r.at \in LabelsOf(r.sig)
  BY PgldAssumption DEF Frames
<1> QED
  BY <1>1 DEF LabelsOf, Handled, Serving, Loading

(* The top frame gets another label, outside of a load. *)
LEMMA Go ==
  ASSUME StackOK, LoadInv, NEW at \in Labels \ Loading, at \in LabelsOf(Top.sig),
         Goto(at) \/ GotoWithRef(at) \/ Replace([Top EXCEPT !.at = at, !.ref = "none"]),
         ~Hides(Top), UNCHANGED <<list, failed>>,
         at \in Serving \cup {"loaded", "reloaded"}
           => Top.at \in Serving \cup {"loaded", "reloaded"} \/ Top.sig \notin {"main", "HUP"},
         at \in Serving /\ Top.sig = "main" => ~Top.bad,
         \/ logger' = 0
         \/ logger' = logger /\ Top.at # "logging"
         \/ logger' = Len(stack) /\ at = "logging"
  PROVE  StackOK' /\ LoadInv'
<1>1. Top \in Frames /\ Fits(Top)
  BY TopFacts, TopFits
<1>2. PICK ref \in {"none", "live", "stale"} : Replace([Top EXCEPT !.at = at, !.ref = ref])
  <2>1. Top.ref \in {"none", "live", "stale"}
        /\ [Top EXCEPT !.at = at] = [Top EXCEPT !.at = at, !.ref = Top.ref]
    BY <1>1 DEF Frames
  <2> QED
    BY <2>1 DEF Goto, GotoWithRef
<1>3. PICK f : f = [Top EXCEPT !.at = at, !.ref = ref]
  OBVIOUS
<1>4. f \in Frames /\ f.sig = Top.sig /\ f.at = at /\ f.bad = Top.bad
  BY <1>1, <1>3 DEF Frames, Loading
<1>5. Top.sig = "HUP" => Top.at \notin Serving
  BY <1>1, SigOf DEF Serving
<1>6. Fits(f)
  BY <1>1, <1>4, <1>5 DEF Fits, Covered, Loading
<1> QED
  BY <1>2, <1>3, <1>4, <1>6, MoveOn

-----------------------------------------------------------------------------
(* The actions *)

LEMMA ExitStep ==
  ASSUME TypeInv, LoadInv, NEW how \in {"clean", "error", "died"}, Exit(how),
         queue' \in {"unbound", "bound", "closed"}, pidfile' \in {"none", "ours", "stale"}
  PROVE  TypeInv' /\ LoadInv'
<1>1. StackOK' /\ LoadInv'
  BY Stay DEF Exit, listVars, TypeInv
<1>2. DataOK'
  BY DEF Exit, TypeInv, DataOK, listVars
<1> QED
  BY <1>1, <1>2 DEF TypeInv

LEMMA CrashStep ==
  ASSUME TypeInv, LoadInv, Crash
  PROVE  TypeInv' /\ LoadInv'
<1>1. CASE /\ \A x \in 1 .. Len(stack) : stack[x].sig # "SEGV"
           /\ stack' = Append(stack, Frame("SEGV", "unbind"))
           /\ UNCHANGED <<pending, sent, exited, version, listVars, kernelVars, logger, pidfile>>
  <2>1. PICK f : f = Frame("SEGV", "unbind")
    OBVIOUS
  <2>2. f \in Frames /\ f.sig = "SEGV" /\ f.at = "unbind"
    BY <2>1, PgldAssumption DEF Frame, Frames, Labels, LabelsOf, Files
  <2>3. Fits(f)
    BY <2>2 DEF Fits
  <2>4. StackOK' /\ LoadInv'
    BY <1>1, <2>1, <2>2, <2>3, Push DEF TypeInv, listVars
  <2>5. DataOK'
    BY <1>1 DEF TypeInv, DataOK, listVars, kernelVars
  <2> QED
    BY <2>4, <2>5 DEF TypeInv
<1>2. CASE Exit("died") /\ UNCHANGED <<queue, pidfile>>
  BY <1>2, ExitStep DEF TypeInv, DataOK
<1> QED
  BY <1>1, <1>2 DEF Crash

LEMMA BootStep ==
  ASSUME TypeInv, LoadInv, Boot
  PROVE  TypeInv' /\ LoadInv'
<1> USE DEF TypeInv, listVars, kernelVars, Running
<1>0. Top \in Frames
  BY TopFacts
<1>1. CASE create_pidfile
  <2>1. CASE /\ pidfile' = "ours" /\ Goto("handlers")
             /\ UNCHANGED <<pending, sent, exited, version, listVars, kernelVars, logger>>
    <3>1. Top.at = "pidfile" /\ Top.sig = "main" /\ ~Hides(Top)
      BY <1>0, <1>1, SigOf DEF create_pidfile, Hides
    <3>2. StackOK' /\ LoadInv'
      BY <2>1, <3>1, Go DEF Labels, LabelsOf, Loading, Serving
    <3> QED
      BY <2>1, <3>2 DEF DataOK
  <2>2. CASE Exit("error") /\ UNCHANGED <<queue, pidfile>>
    BY <2>2, ExitStep DEF DataOK
  <2> QED
    BY <1>1, <2>1, <2>2 DEF create_pidfile
<1>2. CASE install_sighandler
  <2>1. Top.at = "handlers" /\ Top.sig = "main" /\ ~Hides(Top)
    BY <1>0, <1>2, SigOf DEF install_sighandler, Hides
  <2>2. StackOK' /\ LoadInv'
    BY <1>2, <2>1, Go DEF install_sighandler, Labels, LabelsOf, Loading, Serving
  <2> QED
    BY <1>2, <2>2 DEF install_sighandler, DataOK
<1>3. CASE blocklist_init
  <2>1. Top.at = "init" /\ Top.sig = "main" /\ ~Hides(Top) /\ Len(stack) = 1
    BY <1>0, <1>3, SigOf, TopFacts DEF blocklist_init, Hides
  <2>2. PICK f : f = [Top EXCEPT !.at = "clear"]
    OBVIOUS
  <2>3. f \in Frames /\ f.sig = "main" /\ f.at = "clear"
    BY <1>0, <2>1, <2>2 DEF Frames, Labels, LabelsOf, Serving
  <2>4. Fits(f)'
    BY <2>3 DEF Fits, Covered, Serving
  <2>5. Replace(f) /\ logger' = logger
    BY <1>3, <2>2 DEF blocklist_init, Goto
  <2>6. StackOK'
    BY <2>1, <2>3, <2>5, ReplaceStack
  <2>7. LoadInv'
    BY <2>1, <2>3, <2>4, <2>5, Replaced, ReplaceLoad
  <2>8. DataOK'
    BY <1>3 DEF blocklist_init, DataOK, NoList
  <2> QED
    BY <2>6, <2>7, <2>8
<1>4. CASE nfqueue_bind
  <2>1. CASE /\ queue' = "bound" /\ Goto("recv")
             /\ UNCHANGED <<pending, sent, exited, version, listVars, packet, logger, pidfile>>
    <3>1. Top.at = "bind" /\ Top.sig = "main" /\ ~Hides(Top) /\ ~Top.bad
      BY <1>0, <1>4, SigOf DEF nfqueue_bind, Hides, Frames, Serving
    <3>2. StackOK' /\ LoadInv'
      BY <2>1, <3>1, Go DEF Labels, LabelsOf, Loading, Serving
    <3> QED
      BY <2>1, <3>2 DEF DataOK
  <2>2. CASE Exit("error") /\ UNCHANGED <<queue, pidfile>>
    BY <2>2, ExitStep DEF DataOK
  <2> QED
    BY <1>4, <2>1, <2>2 DEF nfqueue_bind
<1> QED
  BY <1>1, <1>2, <1>3, <1>4 DEF Boot

LEMMA LoadStep ==
  ASSUME TypeInv, LoadInv, Load
  PROVE  TypeInv' /\ LoadInv'
<1> USE DEF TypeInv, listVars, kernelVars, Running
<1>0. Top \in Frames /\ Fits(Top) /\ Len(stack) \in Nat \ {0} /\ (Top.sig = "main" <=> Len(stack) = 1)
  BY TopFacts, TopFits
<1>1. CASE LoadClear
  <2>1. Top.at = "clear" /\ Top.sig \in {"main", "HUP"}
    BY <1>0, <1>1, SigOf DEF LoadClear
  <2>2. PICK f : f = [Top EXCEPT !.at = "open", !.file = 1, !.bad = FALSE]
    OBVIOUS
  <2>3. /\ f \in Frames /\ f.sig = Top.sig /\ f.at = "open" /\ f.file = 1
    <3>1. 1 \in 0 .. NFiles + 1
      BY PgldAssumption
    <3>2. "open" \in LabelsOf(Top.sig)
      BY <2>1 DEF LabelsOf, Loading
    <3>3. f.sig = Top.sig /\ f.at = "open" /\ f.file = 1 /\ f.bad = FALSE
      BY <1>0, <2>2 DEF Frames
    <3>4. f \in [sig : {"main", "SEGV"} \cup Signals, at : Labels, file : 0 .. NFiles + 1,
                ref : {"none", "live", "stale"}, bad : BOOLEAN]
      BY <1>0, <2>2, <3>1 DEF Frames, Labels
    <3> QED
      BY <3>2, <3>3, <3>4 DEF Frames
  <2>4. /\ Freed(stack) \in Seq(Frames) /\ Len(Freed(stack)) = Len(stack)
        /\ \A x \in 1 .. Len(stack) :
              Freed(stack)[x].sig = stack[x].sig /\ Freed(stack)[x].at = stack[x].at
    BY FreedFacts
  <2>5. stack' = Append(Front(Freed(stack)), f) /\ logger' = logger
    BY <1>1, <2>2 DEF LoadClear
  <2>6. /\ stack' \in Seq(Frames) /\ Len(stack') = Len(stack) /\ stack'[Len(stack)] = f
        /\ \A x \in 1 .. Len(stack) - 1 : stack'[x] = Freed(stack)[x]
    BY <1>0, <2>3, <2>4, <2>5 DEF Front
  <2>7. StackOK'
    BY <1>0, <2>1, <2>3, <2>4, <2>5, <2>6, ShapeStack, SMTT(20)
  <2>8. Fits(f)'
    BY <1>1, <2>3 DEF Fits, Covered, Serving, LoadClear, NoList
  <2>9. LoadInv'
    BY <1>0, <2>1, <2>3, <2>6, <2>8, ReplaceLoad DEF Hides, Loading
  <2>10. DataOK'
    BY <1>1 DEF LoadClear, DataOK, NoList
  <2> QED
    BY <2>7, <2>9, <2>10
<1>2. CASE LoadOpen
  <2>1. Top.at = "open" /\ Top.sig \in {"main", "HUP"} /\ Top.file \in Files
    BY <1>0, <1>2, SigOf DEF LoadOpen, Loading, MoreFiles
  <2>2. PICK f : f = [Top EXCEPT !.at = "read", !.ref = "live"]
    OBVIOUS
  <2>3. /\ f \in Frames /\ f.sig = Top.sig /\ f.at = "read" /\ f.file = Top.file
        /\ f.ref = "live" /\ f.bad = Top.bad
    BY <1>0, <2>1, <2>2 DEF Frames, Labels, LabelsOf, Loading, Serving
  <2>4. Fits(f) /\ (Hides(Top) => Hides(f))
    BY <1>0, <2>1, <2>3 DEF Fits, Covered, Hides, Loading, Serving
  <2>5. StackOK' /\ LoadInv'
    BY <1>2, <2>1, <2>2, <2>3, <2>4, MoveOn DEF LoadOpen, GotoWithRef
  <2> QED
    BY <1>2, <2>5 DEF LoadOpen, DataOK
<1>3. CASE LoadRead
  <2>1. Top.at = "read" /\ Top.sig \in {"main", "HUP"} /\ Top.file \in Files
    BY <1>0, <1>3, SigOf DEF LoadRead, Loading, Frames
  <2>2. ASSUME NEW left \in Left(list.held \cup {Top.file}),
               list' = [list EXCEPT !.held = left, !.merged = FALSE, !.torn = @ \/ Stale],
               NextFile(FALSE),
               UNCHANGED <<pending, sent, exited, version, failed, kernelVars, logger, pidfile>>
        PROVE  TypeInv' /\ LoadInv'
    <3>1. PICK f : f = [Top EXCEPT !.at = "open", !.file = @ + 1, !.ref = "none",
                                   !.bad = @ \/ FALSE]
      OBVIOUS
    <3>2. Top.bad \in BOOLEAN /\ Top.file + 1 \in 0 .. NFiles + 1 /\ Top.file + 1 # 0
      BY <1>0, <2>1, PgldAssumption DEF Frames, Files
    <3>3. /\ f \in Frames /\ f.sig = Top.sig /\ f.at = "open" /\ f.file = Top.file + 1
          /\ f.bad = Top.bad
      BY <1>0, <2>1, <3>1, <3>2, ZenonT(30) DEF Frames, Labels, LabelsOf, Loading, Serving
    <3>4. /\ Top.ref # "stale" => Known' = Known \cup {Top.file}
          /\ Top.ref # "stale" => list'.torn = list.torn
          /\ Top.ref = "stale" => list'.torn
      BY <2>2 DEF DataOK, Known, Left, Stale
    <3>5. Fits(f)'
      BY <1>0, <2>1, <3>3, <3>4 DEF Fits, Covered, Serving, Files, Loading
    <3>6. Replace(f) /\ logger' = logger
      BY <2>2, <3>1 DEF NextFile
    <3>7. StackOK'
      BY <2>1, <3>3, <3>6, ReplaceStack
    <3>8. LoadInv'
      BY <1>0, <2>1, <3>3, <3>5, <3>6, Replaced, ReplaceLoad DEF Hides, Loading
    <3>9. left \subseteq Files /\ Stale \in BOOLEAN
      BY <2>1, <2>2 DEF DataOK, Left, Stale
    <3>10. DataOK'
      BY <2>2, <3>9 DEF DataOK
    <3> QED
      BY <3>7, <3>8, <3>10
  <2>3. CASE Crash
    BY <2>3, CrashStep
  <2> QED
    BY <1>3, <2>2, <2>3 DEF LoadRead
<1>4. CASE LoadFail
  <2>1. Top.at = "read" /\ Top.sig \in {"main", "HUP"} /\ Top.file \in Files
    BY <1>0, <1>4, SigOf DEF LoadFail, Loading, Frames
  <2>2. ASSUME NEW left \in Left(list.held), NEW slack \in {FALSE, list.slack},
               list' = [list EXCEPT !.held = left, !.slack = slack, !.torn = @ \/ Stale],
               failed' = failed \cup {Top.file}, NextFile(TRUE),
               UNCHANGED <<pending, sent, exited, version, kernelVars, logger, pidfile>>
        PROVE  TypeInv' /\ LoadInv'
    <3>1. PICK f : f = [Top EXCEPT !.at = "open", !.file = @ + 1, !.ref = "none",
                                   !.bad = @ \/ TRUE]
      OBVIOUS
    <3>2. Top.bad \in BOOLEAN /\ Top.file + 1 \in 0 .. NFiles + 1 /\ Top.file + 1 # 0
      BY <1>0, <2>1, PgldAssumption DEF Frames, Files
    <3>3. /\ f \in Frames /\ f.sig = Top.sig /\ f.at = "open" /\ f.file = Top.file + 1
          /\ f.bad = TRUE
      BY <1>0, <2>1, <3>1, <3>2, ZenonT(30) DEF Frames, Labels, LabelsOf, Loading, Serving
    <3>4. /\ Top.ref # "stale" => Known' = Known \cup {Top.file}
          /\ Top.ref # "stale" => list'.torn = list.torn
          /\ Top.ref = "stale" => list'.torn
      BY <2>2 DEF DataOK, Known, Left, Stale
    <3>5. Fits(f)'
      BY <1>0, <2>1, <3>3, <3>4 DEF Fits, Covered, Serving, Files, Loading
    <3>6. Replace(f) /\ logger' = logger
      BY <2>2, <3>1 DEF NextFile
    <3>7. StackOK'
      BY <2>1, <3>3, <3>6, ReplaceStack
    <3>8. LoadInv'
      BY <1>0, <2>1, <3>3, <3>5, <3>6, Replaced, ReplaceLoad DEF Hides, Loading
    <3>9. left \subseteq list.held /\ Stale \in BOOLEAN
      BY <2>2 DEF Left, Stale
    <3>10. DataOK'
      BY <2>1, <2>2, <3>9 DEF DataOK
    <3> QED
      BY <3>7, <3>8, <3>10
  <2>3. CASE Crash
    BY <2>3, CrashStep
  <2> QED
    BY <1>4, <2>2, <2>3 DEF LoadFail
<1>5. CASE LoadSort
  <2>1. /\ Top.at = "open" /\ Top.sig \in {"main", "HUP"} /\ Top.file \notin Files
    BY <1>0, <1>5, SigOf DEF LoadSort, Loading, MoreFiles
  <2>2. PICK f : f = [Top EXCEPT !.at = "merge", !.ref = "live"]
    OBVIOUS
  <2>3. /\ f \in Frames /\ f.sig = Top.sig /\ f.at = "merge" /\ f.ref = "live" /\ f.bad = Top.bad
    BY <1>0, <2>1, <2>2 DEF Frames, Labels, LabelsOf, Loading, Serving
  <2>4. 1 .. Top.file - 1 = Files
    BY <1>0, <2>1, PgldAssumption DEF Frames, Files
  <2>5. Fits(f) /\ (Hides(Top) => Hides(f))
    BY <1>0, <2>1, <2>3, <2>4 DEF Fits, Covered, Hides, Loading, Serving
  <2>6. StackOK' /\ LoadInv'
    BY <1>5, <2>1, <2>2, <2>3, <2>5, MoveOn DEF LoadSort, GotoWithRef
  <2> QED
    BY <1>5, <2>6 DEF LoadSort, DataOK
<1>6. CASE LoadMerge
  <2>1. Top.at = "merge" /\ Top.sig \in {"main", "HUP"}
    BY <1>0, <1>6, SigOf DEF LoadMerge, Loading
  <2>2. ASSUME NEW left \in Left(list.held), NEW merged \in {TRUE, ~Stale},
               NEW slack \in BOOLEAN,
               list' = [list EXCEPT !.held = left, !.merged = merged, !.slack = slack,
                                    !.torn = @ \/ Stale],
               Replace([Top EXCEPT !.at = "loaded", !.ref = "none"]),
               UNCHANGED <<pending, sent, exited, version, failed, kernelVars, logger, pidfile>>
        PROVE  TypeInv' /\ LoadInv'
    <3>1. PICK f : f = [Top EXCEPT !.at = "loaded", !.ref = "none"]
      OBVIOUS
    <3>2. /\ f \in Frames /\ f.sig = Top.sig /\ f.at = "loaded" /\ f.bad = Top.bad
      BY <1>0, <2>1, <3>1 DEF Frames, Labels, LabelsOf, Loading, Serving
    <3>3. /\ Top.ref # "stale" => Known' = Known /\ list'.merged
          /\ Top.ref # "stale" => list'.torn = list.torn
          /\ Top.ref = "stale" => list'.torn
      BY <2>2 DEF DataOK, Known, Left, Stale
    <3>4. Fits(f)'
      BY <1>0, <2>1, <3>2, <3>3 DEF Fits, Covered, Loading
    <3>5. Top.sig = "HUP" => (Files \subseteq Known /\ list.merged)'
      BY <1>0, <2>1, <3>3 DEF Fits, Covered
    <3>6. Replace(f) /\ logger' = logger
      BY <2>2, <3>1
    <3>7. StackOK'
      BY <2>1, <3>2, <3>6, ReplaceStack
    <3>8. LoadInv'
      BY <1>0, <2>1, <3>2, <3>4, <3>5, <3>6, Replaced, ReplaceLoad
    <3>9. left \subseteq list.held /\ Stale \in BOOLEAN /\ merged \in BOOLEAN
      BY <2>2 DEF Left, Stale
    <3>10. DataOK'
      BY <2>2, <3>9 DEF DataOK
    <3> QED
      BY <3>7, <3>8, <3>10
  <2>3. CASE Crash
    BY <2>3, CrashStep
  <2> QED
    BY <1>6, <2>2, <2>3 DEF LoadMerge
<1>7. CASE MainLoaded
  <2>1. /\ Top.at = "loaded" /\ Top.sig = "main" /\ ~Hides(Top)
    BY <1>7 DEF MainLoaded, Hides
  <2>2. CASE Exit("error") /\ UNCHANGED <<queue, pidfile>>
    BY <2>2, ExitStep DEF DataOK
  <2>3. CASE /\ ~Top.bad /\ Goto("bind")
             /\ UNCHANGED <<pending, sent, exited, version, listVars, kernelVars, logger, pidfile>>
    <3>1. StackOK' /\ LoadInv'
      BY <2>1, <2>3, Go DEF Labels, LabelsOf, Loading, Serving
    <3> QED
      BY <2>3, <3>1 DEF DataOK
  <2> QED
    BY <1>7, <2>2, <2>3 DEF MainLoaded
<1> QED
  BY <1>1, <1>2, <1>3, <1>4, <1>5, <1>6, <1>7 DEF Load

LEMMA AfterLogStep ==
  ASSUME StackOK, LoadInv, Top.at \in {"logging", "stats"}, AfterLog, UNCHANGED <<list, failed>>,
         logger' = 0 \/ (logger' = logger /\ Top.at = "stats")
  PROVE  StackOK' /\ LoadInv'
<1>1. Top \in Frames /\ Top.sig \in {"main", "USR1", "USR2", "TERM", "INT"} /\ ~Hides(Top)
      /\ (Top.sig = "main" => Top.at = "logging" /\ ~Top.bad)
  BY TopFacts, SigOf DEF Hides, Frames, Serving
<1>2. CASE Top.sig = "main" /\ Replace([Top EXCEPT !.at = "recv", !.ref = "none"])
  BY <1>1, <1>2, Go DEF Labels, LabelsOf, Loading, Serving
<1>3. CASE Top.sig \in {"TERM", "INT"} /\ Replace([Top EXCEPT !.at = "free", !.ref = "none"])
  BY <1>1, <1>3, Go DEF Labels, LabelsOf, Loading, Serving
<1>4. CASE Top.sig \in {"USR1", "USR2"} /\ Return
  BY <1>1, <1>4, Pop
<1> QED
  BY <1>1, <1>2, <1>3, <1>4 DEF AfterLog

LEMMA AnswerStep ==
  ASSUME TypeInv, LoadInv, Answer
  PROVE  TypeInv' /\ LoadInv'
<1> USE DEF TypeInv, listVars, kernelVars, Running
<1>0. Top \in Frames
  BY TopFacts
<1>1. ASSUME Top.at \in Serving, NEW at \in Serving \ {"bind", "logging"}, Top.sig = "main",
             Top.at # "logging",
             Goto(at) \/ GotoWithRef(at) \/ Replace([Top EXCEPT !.at = at, !.ref = "none"]),
             UNCHANGED <<list, failed, logger>>
      PROVE  StackOK' /\ LoadInv'
  <2>1. ~Top.bad /\ ~Hides(Top)
    BY <1>0, <1>1 DEF Frames, Hides, Serving
  <2>2. at \in LabelsOf(Top.sig) /\ at \in Labels \ Loading
    BY <1>1 DEF LabelsOf, Labels, Loading, Serving
  <2> QED
    BY <1>1, <2>1, <2>2, Go
<1>2. CASE Recv
  <2>1. Top.at = "recv" /\ Top.sig = "main"
    BY <1>0, <1>2, SigOf DEF Recv, Serving
  <2>2. GotoWithRef("search") \/ Goto("log") \/ UNCHANGED stack
    BY <1>2 DEF Recv
  <2>3. UNCHANGED <<list, failed, logger>>
    BY <1>2 DEF Recv
  <2>4. StackOK' /\ LoadInv'
    BY <1>1, <2>1, <2>2, <2>3, Stay DEF Serving
  <2>5. DataOK'
    BY <1>2 DEF Recv, DataOK
  <2> QED
    BY <2>4, <2>5
<1>3. CASE Search
  <2>1. Top.at = "search" /\ Top.sig = "main"
    BY <1>0, <1>3, SigOf DEF Search, Serving
  <2>2. CASE Crash
    BY <2>2, CrashStep
  <2>3. CASE /\ Replace([Top EXCEPT !.at = "accept", !.ref = "none"]) \/ Goto("reject")
             /\ UNCHANGED <<pending, sent, exited, version, listVars, kernelVars, logger, pidfile>>
    <3>1. StackOK' /\ LoadInv'
      BY <1>1, <2>1, <2>3 DEF Serving
    <3> QED
      BY <2>3, <3>1 DEF DataOK
  <2> QED
    BY <1>3, <2>2, <2>3 DEF Search
<1>4. CASE Accept
  <2>1. Top.at = "accept" /\ Top.sig = "main"
    BY <1>0, <1>4, SigOf DEF Accept, Serving
  <2>2. StackOK' /\ LoadInv'
    BY <1>1, <1>4, <2>1 DEF Accept, Serving
  <2> QED
    BY <1>4, <2>2 DEF Accept, DataOK
<1>5. CASE Reject
  <2>1. Top.at = "reject" /\ Top.sig = "main"
    BY <1>0, <1>5, SigOf DEF Reject, Serving
  <2>2. StackOK' /\ LoadInv'
    BY <1>1, <1>5, <2>1 DEF Reject, Serving
  <2> QED
    BY <1>5, <2>2 DEF Reject, DataOK
<1>6. CASE Hit
  <2>1. Top.at = "hit" /\ Top.sig = "main"
    BY <1>0, <1>6, SigOf DEF Hit, Serving
  <2>2. CASE Crash
    BY <2>2, CrashStep
  <2>3. CASE /\ Goto("log")
             /\ UNCHANGED <<pending, sent, exited, version, listVars, kernelVars, logger, pidfile>>
    <3>1. StackOK' /\ LoadInv'
      BY <1>1, <2>1, <2>3 DEF Serving
    <3> QED
      BY <2>3, <3>1 DEF DataOK
  <2> QED
    BY <1>6, <2>2, <2>3 DEF Hit
<1>7. CASE LogBegin
  <2>1. /\ Top.at = "log" /\ Top.sig \in {"main", "USR1", "USR2", "TERM", "INT"}
        /\ Goto("logging") /\ UNCHANGED <<list, failed>>
        /\ logger' = Len(stack) \/ logger' = 0
    BY <1>0, <1>7, SigOf DEF LogBegin
  <2>2. ~Hides(Top) /\ (Top.sig = "main" => ~Top.bad)
    BY <1>0, <2>1 DEF Hides, Frames, Serving
  <2>3. "logging" \in LabelsOf(Top.sig) /\ "logging" \in Labels \ Loading
    BY <2>1 DEF LabelsOf, Labels, Loading, Serving
  <2>4. StackOK' /\ LoadInv'
    BY <2>1, <2>2, <2>3, Go DEF Serving
  <2> QED
    BY <1>7, <2>4 DEF LogBegin, DataOK
<1>8. CASE LogEnd
  <2>1. CASE Crash
    BY <2>1, CrashStep
  <2>2. CASE /\ logger' = 0 /\ AfterLog
             /\ packet' = IF Top.sig = "main" /\ packet = "held" THEN "none" ELSE packet
             /\ UNCHANGED <<pending, sent, exited, version, listVars, queue, pidfile>>
    <3>1. StackOK' /\ LoadInv'
      BY <1>8, <2>2, AfterLogStep DEF LogEnd
    <3> QED
      BY <2>2, <3>1 DEF DataOK
  <2> QED
    BY <1>8, <2>1, <2>2 DEF LogEnd
<1> QED
  BY <1>2, <1>3, <1>4, <1>5, <1>6, <1>7, <1>8 DEF Answer

LEMMA HandleStep ==
  ASSUME TypeInv, LoadInv, Handle
  PROVE  TypeInv' /\ LoadInv'
<1> USE DEF TypeInv, listVars, kernelVars, Running
<1>0. Top \in Frames /\ Len(stack) \in Nat \ {0} /\ Top = stack[Len(stack)]
  BY TopFacts
<1>1. CASE Stats
  <2>1. /\ Top.at = "stats" /\ Top.sig \in {"USR1", "USR2", "TERM", "INT"} /\ ~Hides(Top)
        /\ AfterLog \/ GotoWithRef("log")
        /\ UNCHANGED <<list, failed, logger>>
    BY <1>0, <1>1, SigOf DEF Stats, Hides
  <2>2. CASE AfterLog
    <3>1. StackOK' /\ LoadInv'
      BY <2>1, <2>2, AfterLogStep
    <3> QED
      BY <1>1, <3>1 DEF Stats, DataOK
  <2>3. CASE GotoWithRef("log")
    <3>1. "log" \in LabelsOf(Top.sig) /\ "log" \in Labels \ Loading
      BY <2>1 DEF LabelsOf, Labels, Loading
    <3>2. StackOK' /\ LoadInv'
      BY <2>1, <2>3, <3>1, Go
    <3> QED
      BY <1>1, <3>2 DEF Stats, DataOK
  <2> QED
    BY <2>1, <2>2, <2>3
<1>2. CASE Reopen
  <2>1. CASE Exit("error") /\ UNCHANGED <<queue, pidfile>>
    BY <2>1, ExitStep DEF DataOK
  <2>2. CASE /\ Goto("clear")
             /\ UNCHANGED <<pending, sent, exited, version, listVars, kernelVars, logger, pidfile>>
    <3>1. Top.at = "reopen" /\ Top.sig = "HUP" /\ ~Hides(Top)
      BY <1>0, <1>2, SigOf DEF Reopen, Hides, Loading
    <3>2. StackOK' /\ LoadInv'
      BY <2>2, <3>1, Go DEF Labels, LabelsOf, Loading, Serving
    <3> QED
      BY <2>2, <3>2 DEF DataOK
  <2> QED
    BY <1>2, <2>1, <2>2 DEF Reopen
<1>3. CASE HupLoaded
  <2>1. Top.at = "loaded" /\ Top.sig = "HUP" /\ ~Hides(Top)
    BY <1>3 DEF HupLoaded, Hides, Loading
  <2>2. StackOK' /\ LoadInv'
    BY <1>3, <2>1, Go DEF HupLoaded, Labels, LabelsOf, Loading, Serving
  <2> QED
    BY <1>3, <2>2 DEF HupLoaded, DataOK
<1>4. CASE Reloaded
  <2>1. Top.at = "reloaded" /\ Top.sig = "HUP" /\ ~Hides(Top)
    BY <1>0, <1>4, SigOf DEF Reloaded, Hides, Loading
  <2>2. StackOK' /\ LoadInv'
    BY <1>4, <2>1, Pop DEF Reloaded
  <2> QED
    BY <1>4, <2>2 DEF Reloaded, DataOK
<1>5. CASE Unbind
  <2>1. /\ Top.at = "unbind" /\ Top.sig \in {"SEGV", "TERM", "INT"} /\ ~Hides(Top)
    BY <1>0, <1>5, SigOf DEF Unbind, Hides
  <2>2. CASE Crash
    BY <2>2, CrashStep
  <2>3. CASE /\ queue' = IF queue = "bound" THEN "closed" ELSE queue
             /\ Exit("died") /\ UNCHANGED pidfile
    BY <2>3, ExitStep DEF DataOK
  <2>4. CASE /\ queue' = IF queue = "bound" THEN "closed" ELSE queue
             /\ Top.sig # "SEGV" /\ Goto("stats")
             /\ UNCHANGED <<pending, sent, exited, version, listVars, packet, logger, pidfile>>
    <3>1. "stats" \in LabelsOf(Top.sig) /\ "stats" \in Labels \ Loading
      BY <2>1, <2>4 DEF LabelsOf, Labels, Loading
    <3>2. StackOK' /\ LoadInv'
      BY <2>1, <2>4, <3>1, Go DEF Serving
    <3> QED
      BY <2>4, <3>2 DEF DataOK
  <2> QED
    BY <1>5, <2>2, <2>3, <2>4 DEF Unbind
<1>6. CASE FreeAll
  <2>1. Top.at = "free" /\ Top.sig \in {"TERM", "INT"}
    BY <1>0, <1>6, SigOf DEF FreeAll
  <2>2. /\ Freed(stack) \in Seq(Frames) /\ Len(Freed(stack)) = Len(stack)
        /\ \A x \in 1 .. Len(stack) :
              /\ Freed(stack)[x].sig = stack[x].sig /\ Freed(stack)[x].at = stack[x].at
              /\ Freed(stack)[x] \in Frames
    BY FreedFacts
  <2>3. PICK f : f = [Freed(stack)[Len(stack)] EXCEPT !.at = "unlink"]
    OBVIOUS
  <2>4. f \in Frames /\ f.sig = Top.sig /\ f.at = "unlink"
    <3>1. PICK r \in Frames : r = Freed(stack)[Len(stack)]
      BY <1>0, <2>2
    <3>2. r.sig = Top.sig
      BY <1>0, <2>2, <3>1
    <3>3. "unlink" \in LabelsOf(r.sig) /\ "unlink" \in Labels
      BY <2>1, <3>2 DEF LabelsOf, Labels
    <3> QED
      BY <2>3, <3>1, <3>2, <3>3 DEF Frames, Serving
  <2>5. stack' = [Freed(stack) EXCEPT ![Len(stack)] = f] /\ logger' = logger
    BY <1>6, <2>3 DEF FreeAll
  <2>6. stack' \in Seq(Frames) /\ Len(stack') = Len(stack)
    BY <1>0, <2>2, <2>4, <2>5, ExceptSeq
  <2>7. \A x \in 1 .. Len(stack) : stack'[x] = IF x = Len(stack) THEN f ELSE Freed(stack)[x]
    BY <1>0, <2>2, <2>4, <2>5, ExceptSeq
  <2>8. StackOK'
    BY <1>0, <2>1, <2>2, <2>4, <2>5, <2>6, <2>7, ShapeStack
  <2>9. Fits(f)' /\ Hides(f)
    BY <2>1, <2>4 DEF Fits, Hides
  <2>10. LoadInv'
    BY <1>0, <2>4, <2>6, <2>7, <2>9, ReplaceLoad
  <2>11. DataOK'
    BY <1>6 DEF FreeAll, DataOK, NoList
  <2> QED
    BY <2>8, <2>10, <2>11
<1>7. CASE Unlink
  BY <1>7, ExitStep DEF Unlink, DataOK
<1> QED
  BY <1>1, <1>2, <1>3, <1>4, <1>5, <1>6, <1>7 DEF Handle

LEMMA DeliverStep ==
  ASSUME TypeInv, LoadInv, NEW s \in Signals, Deliver(s)
  PROVE  TypeInv' /\ LoadInv'
<1> USE DEF TypeInv, listVars, kernelVars
<1>1. DataOK'
  BY DEF Deliver, DataOK
<1>2. CASE UNCHANGED stack
  BY <1>1, <1>2, Stay DEF Deliver
<1>3. CASE stack' = Append(stack, Frame(s, Start(s)))
  <2>1. PICK f : f = Frame(s, Start(s))
    OBVIOUS
  <2>2. s \in Handled /\ s \in {"USR1", "USR2", "HUP", "TERM", "INT"}
    BY PgldAssumption DEF Handled
  <2>3. Start(s) \in LabelsOf(s) /\ Start(s) \in {"stats", "reopen", "unbind"}
    BY <2>2 DEF Start, LabelsOf
  <2>4. f \in Frames /\ f.sig = s /\ f.at = Start(s)
    BY <2>1, <2>2, <2>3, PgldAssumption DEF Frame, Frames, Labels, Serving
  <2>5. Fits(f)
    BY <2>2, <2>3, <2>4 DEF Fits, Covered, Serving, Loading
  <2>6. StackOK' /\ LoadInv'
    BY <1>3, <2>1, <2>4, <2>5, Push DEF Deliver
  <2> QED
    BY <1>1, <2>6
<1> QED
  BY <1>2, <1>3 DEF Deliver

LEMMA WorldStep ==
  ASSUME TypeInv, LoadInv, World \/ RecvError \/ UNCHANGED vars
  PROVE  TypeInv' /\ LoadInv'
<1> USE DEF TypeInv, listVars, kernelVars
<1>1. CASE (\E s \in Signals : Kill(s)) \/ Arrive \/ Rewrite \/ UNCHANGED vars
  <2>1. StackOK' /\ LoadInv'
    BY <1>1, Stay DEF Kill, Arrive, Rewrite, vars
  <2>2. DataOK'
    BY <1>1, PgldAssumption DEF Kill, Arrive, Rewrite, vars, DataOK
  <2> QED
    BY <2>1, <2>2
<1>2. CASE Restart
  <2>1. PICK f : f = Frame("main", "pidfile")
    OBVIOUS
  <2>2. f \in Frames /\ f.sig = "main" /\ f.at = "pidfile"
    BY <2>1, PgldAssumption DEF Frame, Frames, Labels, LabelsOf, Serving
  <2>3. stack' = <<f>> /\ logger' = 0
    BY <1>2, <2>1 DEF Restart
  <2>4. StackOK'
    BY <2>2, <2>3 DEF StackOK
  <2>5. LoadInv'
    BY <2>2, <2>3 DEF LoadInv, Fits, Covered, Serving
  <2>6. DataOK'
    BY <1>2, PgldAssumption DEF Restart, DataOK, NoList
  <2> QED
    BY <2>4, <2>5, <2>6
<1>3. CASE RecvError
  BY <1>3, ExitStep DEF RecvError, DataOK
<1> QED
  BY <1>1, <1>2, <1>3 DEF World

-----------------------------------------------------------------------------
(* The theorems *)

LEMMA Invariance == Spec => [](TypeInv /\ LoadInv)
<1>1. Init => TypeInv /\ LoadInv
  <2> SUFFICES ASSUME Init PROVE TypeInv /\ LoadInv
    OBVIOUS
  <2>1. PICK f : f = Frame("main", "pidfile")
    OBVIOUS
  <2>2. f \in Frames /\ f.sig = "main" /\ f.at = "pidfile"
    BY <2>1, PgldAssumption DEF Frame, Frames, Labels, LabelsOf, Serving
  <2>3. stack = <<f>> /\ logger = 0
    BY <2>1 DEF Init
  <2>4. StackOK /\ LoadInv
    BY <2>2, <2>3 DEF StackOK, LoadInv, Fits, Covered, Serving
  <2>5. DataOK
    BY PgldAssumption DEF Init, DataOK, NoList
  <2> QED
    BY <2>4, <2>5 DEF TypeInv
<1>2. TypeInv /\ LoadInv /\ [Next]_vars => TypeInv' /\ LoadInv'
  BY BootStep, LoadStep, AnswerStep, HandleStep, DeliverStep, WorldStep DEF Next, Step
<1> QED
  BY <1>1, <1>2, PTL DEF Spec

(* The types of the variables, whatever signals come in and whenever: main   *)
(* stays at the bottom of the stack, and no file is read that is not there.  *)
THEOREM PgldTypes == Spec => []TypeOK
<1>1. TypeInv => TypeOK
  <2> SUFFICES ASSUME TypeInv PROVE TypeOK
    OBVIOUS
  <2>1. /\ Len(stack) \in Nat \ {0}
        /\ \A x \in 1 .. Len(stack) : stack[x] \in Frames
    BY TopFacts DEF TypeInv
  <2>2. stack # <<>> /\ stack[1].sig = "main" /\ logger \in 0 .. Len(stack)
    BY <2>1 DEF TypeInv, StackOK
  <2>3. \A x \in 1 .. Len(stack) :
          stack[x] \in [sig : {"main", "SEGV"} \cup Signals, at : Labels, file : 0 .. NFiles + 1,
                        ref : {"none", "live", "stale"}, bad : BOOLEAN]
    BY <2>1 DEF Frames
  <2> QED
    BY <2>2, <2>3 DEF TypeInv, DataOK, TypeOK
<1> QED
  BY <1>1, Invariance, PTL

(* For any number of files, of rewrites and of signals, wherever they come    *)
(* in: a reload ends with a list that is loaded, sorted and merged as a      *)
(* whole, and nfqueue_cb looks a packet up in no other, but for the list of   *)
(* a first load that a reload got into, until the next reload.                *)
THEOREM SearchTheorem == Spec => []SearchesWholeList
<1>1. TypeInv /\ LoadInv => SearchesWholeList
  <2> SUFFICES ASSUME TypeInv, LoadInv PROVE SearchesWholeList
    OBVIOUS
  <2>1. Top \in Frames /\ Fits(Top)
    BY TopFacts, TopFits DEF TypeInv
  <2>2. list.held \subseteq Files /\ failed \subseteq Files
    BY DEF TypeInv, DataOK
  <2>3. ASSUME Top.at = "reloaded" PROVE WholeList /\ ~list.torn
    <3>1. Top.sig = "HUP"
      BY <2>1, <2>3, SigOf
    <3> QED
      BY <2>1, <2>2, <2>3, <3>1 DEF Fits, Covered, Known, WholeList
  <2>4. ASSUME Top.at = "search" PROVE WholeList \/ list.torn
    <3>1. Top.sig = "main" /\ ~Top.bad
      BY <2>1, <2>4, SigOf DEF Frames, Serving
    <3> QED
      BY <2>1, <2>2, <2>4, <3>1 DEF Fits, Covered, Known, Serving, WholeList
  <2> QED
    BY <2>3, <2>4 DEF SearchesWholeList, Running
<1> QED
  BY <1>1, Invariance, PTL

=============================================================================
