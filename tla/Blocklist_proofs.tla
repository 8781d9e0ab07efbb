-------------------------- MODULE Blocklist_proofs --------------------------
(***************************************************************************)
(* Proofs about Blocklist for every address width, every set of ranges and *)
(* every list length.  IInv is inductive; each safety property of the      *)
(* component follows from it.                                              *)
(***************************************************************************)
EXTENDS Blocklist, FiniteSetTheorems, FunctionTheorems,
        SequenceTheorems, TLAPS

USE BlocklistAssumption

-----------------------------------------------------------------------------
(* Facts about the data *)

(* Replacing one element of a sequence. *)
LEMMA SeqElements ==
  ASSUME NEW S, NEW s \in Seq(S)
  PROVE  /\ Len(s) \in Nat
         /\ DOMAIN s = 1 .. Len(s)
         /\ \A x \in 1 .. Len(s) : s[x] \in S
BY LenProperties, ElementOfSeq

(* A sum taken modulo 2^32 is an address-sized number. *)
LEMMA ModRange ==
  ASSUME NEW a \in Int
  PROVE  a % (MaxIp + 1) \in Ip
BY DEF Ip

(* The sorted array holds the elements of the array, moved by p. *)
LEMMA SortingIsReordering ==
  ASSUME NEW s \in Seq(Entry), NEW t \in Sortings(s)
  PROVE  /\ t \in Seq(Entry)
         /\ Len(t) = Len(s)
         /\ Ascending(t)
         /\ \E p \in Reorderings(Len(s)) : \A x \in 1 .. Len(s) : t[x] = s[p[x]]
<1>1. PICK p \in Reorderings(Len(s)) : t = Reorder(s, p) /\ Ascending(Reorder(s, p))
  BY DEF Sortings
<1>2. Len(s) \in Nat /\ \A x \in 1 .. Len(s) : s[x] \in Entry
  BY SeqElements
<1>3. p \in [1 .. Len(s) -> 1 .. Len(s)]
  BY DEF Reorderings
<1>4. t = [x \in 1 .. Len(s) |-> s[p[x]]]
  BY <1>1 DEF Reorder
<1>5. t \in Seq(Entry) /\ Len(t) = Len(s)
  <2>1. \A x \in 1 .. Len(s) : s[p[x]] \in Entry
    BY <1>2, <1>3
  <2>2. t \in [1 .. Len(s) -> Entry]
    BY <2>1, <1>4, Zenon
  <2> QED
    BY <2>2, <1>2, SMTT(30)
<1>6. \A x \in 1 .. Len(s) : t[x] = s[p[x]]
  BY <1>4
<1> QED
  BY <1>1, <1>5, <1>6

(* Reordering a sequence does not change how many entries are blank. *)
LEMMA ReorderingKeepsCount ==
  ASSUME NEW n \in Nat, NEW p \in Reorderings(n), NEW B \in SUBSET (1 .. n)
  PROVE  LET C == {x \in 1 .. n : p[x] \in B}
         IN  Cardinality(C) = Cardinality(B)
<1> DEFINE C == {x \in 1 .. n : p[x] \in B}
           f == [x \in C |-> p[x]]
<1>1. p \in [1 .. n -> 1 .. n]
  BY DEF Reorderings
<1>2. IsFiniteSet(C)
  <2>1. IsFiniteSet(1 .. n)
    BY FS_Interval
  <2> QED
    BY <2>1, FS_Subset
<1>3. f \in Bijection(C, B)
  <2>1. f \in [C -> B]
    BY <1>1
  <2>2. \A x, y \in C : f[x] = f[y] => x = y
    BY DEF Reorderings
  <2>3. \A y \in B : \E x \in C : f[x] = y
    <3> SUFFICES ASSUME NEW y \in B PROVE \E x \in C : f[x] = y
      OBVIOUS
    <3>1. PICK x \in 1 .. n : p[x] = y
      BY DEF Reorderings
    <3> QED
      BY <3>1
  <2> QED
    BY <2>1, <2>2, <2>3, Fun_IsBij
<1>4. ExistsBijection(C, B)
  BY <1>3 DEF ExistsBijection
<1> QED
  BY <1>2, <1>4, FS_Bijection

(* Cutting the last m places off a list with m blank ones: either the blank  *)
(* ones went, or one stayed and something else went instead.                 *)
LEMMA CutOff ==
  ASSUME NEW n \in Nat, NEW B \in SUBSET (1 .. n)
  PROVE  LET m == Cardinality(B)
         IN  /\ m \in 0 .. n
             /\ (\A x \in 1 .. n - m : x \notin B) => B = n - m + 1 .. n
             /\ \A y \in 1 .. n - m : y \in B =>
                  \E x \in n - m + 1 .. n : x \notin B
<1> DEFINE m == Cardinality(B)
           D == n - m + 1 .. n
<1>1. IsFiniteSet(1 .. n) /\ Cardinality(1 .. n) = n
  BY FS_Interval
<1>2. IsFiniteSet(B) /\ m \in 0 .. n
  <2>1. IsFiniteSet(B) /\ m <= n
    BY <1>1, FS_Subset
  <2>2. m \in Nat
    BY <2>1, FS_CardinalityType
  <2> QED
    BY <2>1, <2>2
<1> HIDE DEF m
<1>3. IsFiniteSet(D) /\ Cardinality(D) = m
  BY <1>2, FS_Interval
<1>4. B \subseteq D => B = D
  BY <1>3, FS_Subset DEF m
<1>5. D \subseteq B => D = B
  BY <1>2, <1>3, FS_Subset DEF m
<1>6. (\A x \in 1 .. n - m : x \notin B) => B = D
  BY <1>2, <1>4
<1>7. ASSUME NEW y \in 1 .. n - m, y \in B
      PROVE  \E x \in D : x \notin B
  BY <1>2, <1>5, <1>7
<1> QED
  BY <1>2, <1>6, <1>7 DEF m

-----------------------------------------------------------------------------
(* The invariant holds initially and is preserved by every action *)

(* The state of a fresh process satisfies the invariant. *)
LEMMA InitInv == Init => IInv
<1> SUFFICES ASSUME Init PROVE IInv
  OBVIOUS
<1> USE DEF Init, blocklist_init
<1>1. TypeOK
  BY DEF TypeOK, Ip
<1>2. HeapInv /\ IndexInv
  BY DEF HeapInv, IndexInv, Passing, InUse
<1>3. BlankInv /\ OrderInv
  BY DEF BlankInv, OrderInv, Passing, InUse
<1>4. GroupInv /\ CoverInv /\ SearchInv
  BY DEF GroupInv, CoverInv, SearchInv, Passing, InUse
<1> QED
  BY <1>1, <1>2, <1>3, <1>4 DEF IInv

(* What the type invariant says about one entry. *)
LEMMA EntryFacts ==
  ASSUME TypeOK
  PROVE  /\ Len(entries) \in Nat /\ Len(entries) <= MaxEntries
         /\ DOMAIN entries = 1 .. Len(entries)
         /\ \A x \in 1 .. Len(entries) :
              /\ entries[x] \in Entry
              /\ entries[x].ip_min \in Nat /\ entries[x].ip_min <= MaxIp
              /\ entries[x].ip_max \in Nat /\ entries[x].ip_max <= MaxIp
              /\ entries[x].name \in Name \cup {NULL}
<1>1. \A e \in Entry : /\ e.ip_min \in Nat /\ e.ip_min <= MaxIp
                       /\ e.ip_max \in Nat /\ e.ip_max <= MaxIp
                       /\ e.name \in Name \cup {NULL}
  BY DEF Entry, Ip
<1> QED
  BY <1>1, SeqElements DEF TypeOK

(* A label is never the name of a blanked entry. *)
LEMMA NameNotNull == \A name \in Name : name # NULL
BY DEF Name, NULL

(* Restarting the process re-establishes the invariant. *)
LEMMA RespawnInv == Respawn => IInv'
<1> SUFFICES ASSUME Respawn PROVE IInv'
  OBVIOUS
<1> USE DEF Respawn
<1>1. TypeOK'
  BY DEF TypeOK, Ip
<1>2. HeapInv' /\ IndexInv'
  BY DEF HeapInv, IndexInv, Passing, InUse
<1>3. BlankInv' /\ OrderInv'
  BY DEF BlankInv, OrderInv, Passing, InUse
<1>4. GroupInv' /\ CoverInv' /\ SearchInv'
  BY DEF GroupInv, CoverInv, SearchInv, Passing, InUse
<1> QED
  BY <1>1, <1>2, <1>3, <1>4 DEF IInv

(* Appending keeps the believed capacity equal to the real one. *)
LEMMA AppendInv ==
  ASSUME IInv, NEW r \in Ranges, blocklist_append(r)
  PROVE  IInv'
<1> DEFINE e == [ip_min |-> r[1], ip_max |-> r[2], name |-> {Len(entries) + 1}]
<1>1. /\ TypeOK /\ HeapInv /\ IndexInv /\ BlankInv
      /\ pc = "load" /\ Len(entries) < MaxEntries
      /\ entries' = Append(entries, e)
      /\ UNCHANGED <<numips, loaded, i, j, k, ip_max, merged, key, lo, hi, found, pc>>
  BY DEF IInv, blocklist_append, loopVars, searchVars
<1>2. e \in Entry /\ e.name # NULL
  <2>1. r[1] \in Ip /\ r[2] \in Ip
    BY DEF Ip
  <2>2. Len(entries) + 1 \in 1 .. MaxEntries
    BY <1>1, EntryFacts
  <2>3. {Len(entries) + 1} \in Name /\ {Len(entries) + 1} # NULL
    BY <2>2 DEF Name, NULL
  <2> QED
    BY <2>1, <2>3 DEF Entry
<1> HIDE DEF e
<1>3. /\ entries' \in Seq(Entry)
      /\ Len(entries') = Len(entries) + 1
      /\ \A x \in 1 .. Len(entries') :
           entries'[x] = IF x <= Len(entries) THEN entries[x] ELSE e
  <2>1. entries \in Seq(Entry) /\ Len(entries) \in Nat
    BY <1>1, EntryFacts DEF TypeOK
  <2> QED
    BY <1>1, <1>2, <2>1, AppendProperties
<1>4. size' \in Nat /\ alloc' = size' /\ Len(entries') <= size'
  <2>1. size \in Nat /\ alloc = size /\ Len(entries) <= size /\ Len(entries) \in Nat
    BY <1>1, EntryFacts DEF HeapInv, TypeOK
  <2>2. CASE size = Len(entries)
    BY <1>3, <2>1, <2>2 DEF blocklist_append, Full
  <2>3. CASE size # Len(entries)
    BY <1>3, <2>1, <2>3 DEF blocklist_append, Full, heapVars
  <2> QED
    BY <2>2, <2>3
<1>5. TypeOK'
  <2>1. Len(entries') <= MaxEntries
    BY <1>1, <1>3, EntryFacts
  <2> QED
    BY <1>1, <1>3, <1>4, <2>1 DEF TypeOK
<1>6. HeapInv' /\ IndexInv'
  BY <1>1, <1>4 DEF HeapInv, IndexInv, Passing
<1>7. BlankInv'
  BY <1>1, <1>2, <1>3, EntryFacts DEF BlankInv, Passing, InUse, Live
<1>8. OrderInv' /\ GroupInv' /\ CoverInv' /\ SearchInv'
  BY <1>1 DEF OrderInv, GroupInv, CoverInv, SearchInv, Passing, InUse
<1> QED
  BY <1>5, <1>6, <1>7, <1>8 DEF IInv

(* Clearing leaves a prefix of live entries and an allocation of its length. *)
LEMMA ClearInv ==
  ASSUME IInv, NEW start \in 0 .. Len(entries), blocklist_clear(start)
  PROVE  IInv'
<1> USE DEF IInv, blocklist_clear, heapVars, loopVars, searchVars
<1>1. /\ entries' \in Seq(Entry)
      /\ Len(entries') = start
      /\ \A x \in 1 .. start : entries'[x] = entries[x]
  <2>1. \A x \in 1 .. start : entries[x] \in Entry
    BY EntryFacts
  <2> QED
    BY <2>1, EntryFacts, SubSeqProperties
<1>2. \A x \in 1 .. Len(entries) : Live(x)
  BY DEF BlankInv, InUse
<1>3. TypeOK'
  BY <1>1, EntryFacts DEF TypeOK, Ip
<1>4. HeapInv' /\ IndexInv'
  BY <1>1, EntryFacts DEF HeapInv, IndexInv, Passing, InUse
<1>5. BlankInv'
  BY <1>1, <1>2, EntryFacts DEF BlankInv, Passing, InUse, Live
<1>6. OrderInv' /\ GroupInv' /\ CoverInv' /\ SearchInv'
  BY DEF OrderInv, GroupInv, CoverInv, SearchInv, Passing, InUse
<1> QED
  BY <1>3, <1>4, <1>5, <1>6

(* The first sort: every entry is live and comes from a loaded range. *)
LEMMA SortInv ==
  ASSUME IInv, blocklist_sort
  PROVE  IInv'
<1> USE DEF IInv, blocklist_sort, heapVars, loopVars, searchVars
<1> DEFINE n == Len(entries)
<1>1. PICK p \in Reorderings(n) : \A x \in 1 .. n : entries'[x] = entries[p[x]]
  BY SortingIsReordering DEF TypeOK
<1>2. entries' \in Seq(Entry) /\ Len(entries') = n /\ Ascending(entries')
  BY SortingIsReordering DEF TypeOK
<1>3. /\ \A x \in 1 .. n : p[x] \in 1 .. n
      /\ \A y \in 1 .. n : \E x \in 1 .. n : p[x] = y
  BY DEF Reorderings
<1>4. \A x \in 1 .. n : Live(x)
  BY DEF BlankInv
<1>5. \A x \in 1 .. n : Live(x)'
  BY <1>1, <1>3, <1>4, ZenonT(30) DEF Live
<1>6. Frontier' = -1
  BY DEF IndexInv, Passing, Frontier
<1>7. TypeOK'
  BY <1>2 DEF TypeOK
<1>8. HeapInv' /\ IndexInv'
  BY <1>2 DEF HeapInv, IndexInv, Passing, InUse
<1>9. BlankInv'
  <2>1. BlankedTo(-1)' = {}
    BY <1>2, EntryFacts DEF BlankedTo
  <2>2. Cardinality(BlankedTo(Frontier)') = merged'
    BY <1>6, <2>1, FS_EmptySet DEF IndexInv, Passing
  <2>3. \A x \in 1 .. n : \E y \in 1 .. n : entries'[x].ip_min = entries[y].ip_min
    BY <1>1, <1>3
  <2> QED
    BY <1>2, <1>5, <2>2, <2>3 DEF BlankInv, InUse, Passing
<1>10. OrderInv'
  BY <1>2, <1>6, EntryFacts DEF OrderInv, Ascending, GapsTo, InUse, Passing
<1>11. CoverInv'
  <2>1. ASSUME NEW ip \in Ip
        PROVE  LiveBlocks(ip)' <=> Blocks(loaded', ip)
    <3>1. LiveBlocks(ip)' <=> \E x \in 1 .. n : Covers(entries'[x], ip)
      BY <1>2, <1>5 DEF LiveBlocks
    <3>2. Blocks(loaded', ip) <=> \E y \in 1 .. n : Covers(entries[y], ip)
      BY DEF Blocks
    <3>3. ASSUME NEW x \in 1 .. n, Covers(entries'[x], ip)
          PROVE  \E y \in 1 .. n : Covers(entries[y], ip)
      BY <1>1, <1>3, <3>3 DEF Covers
    <3>4. ASSUME NEW y \in 1 .. n, Covers(entries[y], ip)
          PROVE  \E x \in 1 .. n : Covers(entries'[x], ip)
      <4>1. PICK x \in 1 .. n : p[x] = y
        BY <1>3
      <4> QED
        BY <1>1, <3>4, <4>1 DEF Covers
    <3> QED
      BY <3>1, <3>2, <3>3, <3>4
  <2> QED
    BY <2>1 DEF CoverInv, InUse
<1>12. GroupInv' /\ SearchInv'
  BY DEF GroupInv, SearchInv
<1> QED
  BY <1>7, <1>8, <1>9, <1>10, <1>11, <1>12

-----------------------------------------------------------------------------
(* A pass begins: nothing is behind the frontier yet. *)
LEMMA BeginInv ==
  ASSUME IInv, MergeBegin
  PROVE  IInv'
<1> USE DEF heapVars, loopVars, searchVars
<1>1. /\ TypeOK /\ pc = "merge" /\ i = 0 /\ merged = 0 /\ Frontier = -1
      /\ UNCHANGED <<entries, size, alloc, loaded, j, k, ip_max, merged,
                     key, lo, hi, found>>
      /\ numips' = 0
  BY DEF IInv, MergeBegin, IndexInv, Frontier
<1>2. \/ entries = <<>> /\ pc' = "ready" /\ i' = i
      \/ entries # <<>> /\ pc' = "visit" /\ i' = 1
  BY DEF MergeBegin
<1>3. entries = <<>> <=> Len(entries) = 0
  BY <1>1, EmptySeq DEF TypeOK
<1>4. Frontier' \in {-1, 0} /\ \A x \in 1 .. Len(entries) : x > Frontier' /\ x > -1
  BY <1>1, <1>2, EntryFacts DEF Frontier
<1>5. TypeOK'
  BY <1>1, <1>2, EntryFacts DEF TypeOK, Ip
<1>6. HeapInv' /\ IndexInv'
  BY <1>1, <1>2, <1>4, EntryFacts
  DEF IInv, HeapInv, IndexInv, InUse, Passing, Frontier
<1>7. BlankInv'
  <2>1. BlankedTo(Frontier)' = {}
    BY <1>1, <1>4, EntryFacts DEF BlankedTo
  <2>2. Cardinality(BlankedTo(Frontier)') = merged'
    BY <1>1, <2>1, FS_EmptySet
  <2> QED
    BY <1>1, <1>2, <1>3, <1>4, <2>2, EntryFacts
    DEF IInv, BlankInv, InUse, Passing, Live, LastAddressLoaded
<1>8. OrderInv'
  BY <1>1, <1>2, <1>3, <1>4, EntryFacts
  DEF IInv, OrderInv, InUse, Passing, Ascending, GapsTo
<1>9. CoverInv'
  BY <1>1, <1>2, <1>3, <1>4, EntryFacts
  DEF IInv, CoverInv, InUse, Passing, Live, LiveBlocks
<1>10. GroupInv' /\ SearchInv'
  BY <1>1, <1>2 DEF GroupInv, SearchInv
<1> QED
  BY <1>5, <1>6, <1>7, <1>8, <1>9, <1>10 DEF IInv

(* A group opens with the entry at the frontier alone. *)
LEMMA VisitInv ==
  ASSUME IInv, MergeVisit
  PROVE  IInv'
<1> USE DEF heapVars, loopVars, searchVars
<1>1. /\ TypeOK /\ pc = "visit" /\ i \in 1 .. Len(entries)
      /\ UNCHANGED <<entries, size, alloc, numips, loaded, i, k, merged,
                     key, lo, hi, found>>
      /\ IndexInv
  BY DEF IInv, MergeVisit, IndexInv
<1>2. \/ ~Live(i) /\ pc' = "crashed" /\ j' = j /\ ip_max' = ip_max
      \/ /\ Live(i) /\ pc' = "scan" /\ j' = i + 1
         /\ ip_max' = entries[i].ip_max
  BY DEF MergeVisit, Live
<1>3. Frontier = i - 1 /\ Frontier' = i - 1
  BY <1>1, <1>2 DEF Frontier
<1>4. TypeOK'
  BY <1>1, <1>2, EntryFacts DEF TypeOK, Ip
<1>5. HeapInv' /\ IndexInv'
  BY <1>1, <1>2, <1>3, EntryFacts
  DEF IInv, HeapInv, IndexInv, InUse, Passing, Live
<1>6. BlankInv'
  <2>1. Cardinality(BlankedTo(Frontier)') = merged'
    BY <1>1, <1>3 DEF IInv, BlankInv, Passing, BlankedTo, Live
  <2> QED
    BY <1>1, <1>2, <1>3, <2>1, EntryFacts
    DEF IInv, BlankInv, InUse, Passing, Live, LastAddressLoaded
<1>7. OrderInv'
  BY <1>1, <1>2, <1>3, EntryFacts
  DEF IInv, OrderInv, InUse, Passing, Ascending, GapsTo
<1>8. CoverInv'
  BY <1>1, <1>2, <1>3, EntryFacts
  DEF IInv, CoverInv, InUse, Passing, Live, LiveBlocks
<1>9. GroupInv'
  <2>1. CASE pc' = "scan"
    BY <1>1, <1>2, <2>1, EntryFacts DEF GroupInv, Covers
  <2> QED
    BY <1>2, <2>1 DEF GroupInv
<1>10. SearchInv'
  BY <1>2 DEF SearchInv
<1> QED
  BY <1>4, <1>5, <1>6, <1>7, <1>8, <1>9, <1>10 DEF IInv

(* Once the group reaches the last address it takes in everything. *)
LEMMA SaturateInv ==
  ASSUME IInv, MergeSaturate
  PROVE  IInv'
<1> USE DEF heapVars, loopVars, searchVars
<1>1. /\ TypeOK /\ pc = "scan" /\ IndexInv /\ ip_max = MaxIp
      /\ j' = Len(entries) + 1 /\ j <= Len(entries)
      /\ UNCHANGED <<entries, size, alloc, numips, loaded, i, k, ip_max, merged,
                     key, lo, hi, found, pc>>
  BY DEF IInv, MergeSaturate
<1>2. i \in 1 .. Len(entries) /\ j \in i + 1 .. Len(entries) + 1 /\ Live(i)
  BY <1>1 DEF IndexInv
<1>3. Frontier' = Frontier
  BY <1>1 DEF Frontier
<1>4. TypeOK'
  BY <1>1, EntryFacts DEF TypeOK
<1>5. HeapInv' /\ IndexInv'
  BY <1>1, <1>2, <1>3, EntryFacts
  DEF IInv, HeapInv, IndexInv, InUse, Passing, Live
<1>6. BlankInv'
  <2>1. Cardinality(BlankedTo(Frontier)') = merged'
    BY <1>1, <1>3 DEF IInv, BlankInv, Passing, BlankedTo, Live
  <2> QED
    BY <1>1, <1>3, <2>1
    DEF IInv, BlankInv, InUse, Passing, Live, LastAddressLoaded
<1>7. OrderInv' /\ CoverInv'
  BY <1>1, <1>3
  DEF IInv, OrderInv, CoverInv, InUse, Passing, Ascending, GapsTo, Live, LiveBlocks
<1>8. GroupInv'
  <2>1. \A x \in i .. j' - 1 : entries[x].ip_max <= MaxIp
    BY <1>1, <1>2, EntryFacts
  <2> QED
    BY <1>1, <1>2, <2>1, EntryFacts DEF IInv, GroupInv
<1>9. SearchInv'
  BY <1>1 DEF SearchInv
<1> QED
  BY <1>4, <1>5, <1>6, <1>7, <1>8, <1>9 DEF IInv

(* The next entry joins the group without leaving a hole. *)
LEMMA ExtendInv ==
  ASSUME IInv, MergeExtend
  PROVE  IInv'
<1> USE DEF heapVars, loopVars, searchVars
<1>1. /\ TypeOK /\ pc = "scan" /\ IndexInv /\ ip_max # MaxIp
      /\ j <= Len(entries) /\ j' = j + 1
      /\ entries[j].ip_min <= ip_max + 1
      /\ ip_max' = IF entries[j].ip_max > ip_max THEN entries[j].ip_max ELSE ip_max
      /\ UNCHANGED <<entries, size, alloc, numips, loaded, i, k, merged,
                     key, lo, hi, found, pc>>
  BY DEF IInv, MergeExtend, Adjoins, Widened
<1>2. i \in 1 .. Len(entries) /\ j \in i + 1 .. Len(entries) + 1 /\ Live(i)
  BY <1>1 DEF IndexInv
<1>3. Frontier' = Frontier
  BY <1>1 DEF Frontier
<1>4. TypeOK'
  BY <1>1, <1>2, EntryFacts DEF TypeOK, Ip
<1>5. HeapInv' /\ IndexInv'
  BY <1>1, <1>2, <1>3, EntryFacts
  DEF IInv, HeapInv, IndexInv, InUse, Passing, Live
<1>6. BlankInv'
  <2>1. Cardinality(BlankedTo(Frontier)') = merged'
    BY <1>1, <1>3 DEF IInv, BlankInv, Passing, BlankedTo, Live
  <2> QED
    BY <1>1, <1>3, <2>1
    DEF IInv, BlankInv, InUse, Passing, Live, LastAddressLoaded
<1>7. OrderInv' /\ CoverInv'
  BY <1>1, <1>3
  DEF IInv, OrderInv, CoverInv, InUse, Passing, Ascending, GapsTo, Live, LiveBlocks
<1>8. GroupInv'
  <2>1. /\ ip_max \in Nat /\ ip_max' \in Nat /\ ip_max <= ip_max'
        /\ entries[j].ip_max <= ip_max'
        /\ entries[i].ip_max <= ip_max'
        /\ \A x \in i .. j - 1 : entries[x].ip_max <= ip_max
    BY <1>1, <1>2, EntryFacts DEF IInv, GroupInv, TypeOK, Ip
  <2>2. ASSUME NEW x \in i .. j PROVE entries[x].ip_max <= ip_max'
    <3>1. CASE x = j
      BY <2>1, <3>1
    <3>2. CASE x # j
      <4>1. x \in i .. j - 1 /\ x \in 1 .. Len(entries)
        BY <1>1, <1>2, <3>2, EntryFacts
      <4>2. entries[x].ip_max \in Nat /\ entries[x].ip_max <= ip_max
        BY <1>1, <2>1, <4>1, EntryFacts
      <4> QED
        BY <2>1, <4>2
    <3> QED
      BY <3>1, <3>2
  <2>3. ASSUME NEW ip \in Ip, entries[i].ip_min <= ip, ip <= ip_max'
        PROVE  \E x \in i .. j : Covers(entries[x], ip)
    <3>1. CASE ip <= ip_max
      <4>1. PICK x \in i .. j - 1 : Covers(entries[x], ip)
        BY <1>1, <2>3, <3>1 DEF IInv, GroupInv
      <4>2. x \in i .. j
        BY <1>2, EntryFacts
      <4> QED
        BY <4>1, <4>2
    <3>2. CASE ip > ip_max
      <4>1. Covers(entries[j], ip)
        BY <1>1, <1>2, <2>1, <2>3, <3>2, EntryFacts, SMTT(20) DEF Covers, Ip
      <4> QED
        BY <1>2, <4>1, EntryFacts
    <3> QED
      BY <2>1, <3>1, <3>2 DEF Ip
  <2>4. j' - 1 = j /\ j' # i + 1
    BY <1>1, <1>2, EntryFacts
  <2> QED
    BY <1>1, <2>1, <2>2, <2>3, <2>4 DEF GroupInv
<1>9. SearchInv'
  BY <1>1 DEF SearchInv
<1> QED
  BY <1>4, <1>5, <1>6, <1>7, <1>8, <1>9 DEF IInv

(* The group is closed: either it is a single entry with a gap behind it, or *)
(* its first entry is widened to cover all of it.                            *)
LEMMA ScannedInv ==
  ASSUME IInv, MergeScanned
  PROVE  IInv'
<1> USE DEF heapVars, loopVars, searchVars
<1>1. /\ TypeOK /\ pc = "scan" /\ IndexInv
      /\ j <= Len(entries) => entries[j].ip_min > ip_max + 1
      /\ UNCHANGED <<size, alloc, numips, loaded, i, j, ip_max, merged,
                     key, lo, hi, found>>
  <2>1. j <= Len(entries) => ip_max # MaxIp /\ ~(entries[j].ip_min <= ip_max + 1)
    BY DEF MergeScanned, Adjoins
  <2>2. j \in Nat \ {0} /\ ip_max \in Nat
    <3>1. TypeOK /\ IndexInv /\ pc = "scan"
      BY Zenon DEF IInv, MergeScanned
    <3>2. j \in Nat /\ ip_max \in Nat
      BY <3>1 DEF TypeOK, Ip
    <3>3. i \in Nat \ {0} /\ j >= i + 1
      BY <3>1, <3>2 DEF IndexInv, TypeOK
    <3> QED
      BY <3>2, <3>3
  <2>3. j <= Len(entries) => entries[j].ip_min \in Nat
    BY <2>2, EntryFacts DEF IInv
  <2> QED
    BY <2>1, <2>2, <2>3 DEF IInv, MergeScanned
<1>2. \/ /\ j > i + 1 /\ pc' = "blank" /\ k' = i + 1
         /\ entries' = [entries EXCEPT ![i].ip_max = ip_max]
      \/ j <= i + 1 /\ pc' = "tally" /\ UNCHANGED <<entries, k>>
  <2>1. j \in Nat /\ i \in Nat
    BY <1>1 DEF TypeOK
  <2> QED
    BY <2>1 DEF MergeScanned
<1>3. i \in 1 .. Len(entries) /\ j \in i + 1 .. Len(entries) + 1 /\ Live(i)
  BY <1>1 DEF IndexInv
<1>4. Frontier = i - 1 /\ Frontier' = i /\ i \in Nat
  <2>1. \/ pc' = "blank" /\ k' = i + 1
        \/ pc' = "tally"
    BY <1>2
  <2> QED
    BY <1>1, <2>1 DEF Frontier, TypeOK
<1>5. /\ entries' \in Seq(Entry) /\ Len(entries') = Len(entries)
      /\ \A x \in 1 .. Len(entries) :
           /\ entries'[x].ip_min = entries[x].ip_min
           /\ entries'[x].name = entries[x].name
           /\ x # i => entries'[x].ip_max = entries[x].ip_max
      /\ pc' = "tally" => UNCHANGED entries
      /\ pc' = "blank" => entries'[i].ip_max = ip_max
  <2>1. CASE pc' = "tally" /\ UNCHANGED entries
    BY <1>1, <2>1 DEF TypeOK
  <2>2. CASE pc' = "blank" /\ entries' = [entries EXCEPT ![i].ip_max = ip_max]
    <3> DEFINE e == [entries[i] EXCEPT !.ip_max = ip_max]
    <3>1. /\ e \in Entry /\ e.ip_min = entries[i].ip_min
          /\ e.name = entries[i].name /\ e.ip_max = ip_max
      BY <1>1, <1>3, EntryFacts DEF Entry, TypeOK
    <3>2. entries' = [entries EXCEPT ![i] = e]
      BY <2>2
    <3> HIDE DEF e
    <3>3. /\ entries' \in Seq(Entry) /\ Len(entries') = Len(entries)
          /\ \A x \in 1 .. Len(entries) :
               entries'[x] = IF x = i THEN e ELSE entries[x]
      <4>1. entries \in Seq(Entry)
        BY <1>1 DEF TypeOK
      <4> QED
        BY <1>3, <3>1, <3>2, <4>1, ExceptSeq
    <3> QED
      BY <1>3, <2>2, <3>1, <3>3
  <2> QED
    BY <1>2, <2>1, <2>2
<1>6. \A x \in 1 .. Len(entries) : Live(x)' <=> Live(x)
  BY <1>5 DEF Live
<1>7. TypeOK'
  BY <1>1, <1>2, <1>3, <1>5, EntryFacts, SMTT(20) DEF TypeOK
<1>8. HeapInv' /\ IndexInv'
  <2>1. HeapInv'
    BY <1>1, <1>2, <1>5 DEF IInv, HeapInv
  <2>2. merged <= i /\ merged \in Nat
    BY <1>1, <1>4 DEF IndexInv, Passing, TypeOK
  <2>3. CASE pc' = "blank"
    <3>1. i \in 1 .. Len(entries') /\ Live(i)'
      BY <1>1, <1>3, <1>5 DEF Live
    <3>2. j' \in i' + 1 .. Len(entries') + 1 /\ j' > i' + 1 /\ k' \in i' + 1 .. j'
      BY <1>1, <1>2, <1>3, <1>4, <1>5, <2>3, EntryFacts
    <3>3. merged' >= k' - (i' + 1)
      BY <1>1, <1>2, <1>4, <2>2, <2>3
    <3> QED
      BY <1>1, <1>4, <2>1, <2>2, <2>3, <3>1, <3>2, <3>3 DEF IndexInv, Passing
  <2>4. CASE pc' = "tally"
    BY <1>1, <1>3, <1>4, <1>5, <2>1, <2>2, <2>4 DEF IndexInv, Passing
  <2> QED
    BY <1>2, <2>1, <2>3, <2>4
<1>9. BlankInv'
  <2>1. BlankedTo(Frontier)' = BlankedTo(Frontier)
    BY <1>1, <1>3, <1>4, <1>5, <1>6, EntryFacts DEF BlankedTo
  <2>2. Cardinality(BlankedTo(Frontier)') = merged'
    BY <1>1, <2>1 DEF IInv, BlankInv, Passing
  <2>3. pc' \in {"blank", "tally"}
    BY <1>2
  <2>4. \A x \in 1 .. Len(entries) : x > i => x > i - 1
    BY <1>4
  <2> QED
    BY <1>1, <1>4, <1>5, <1>6, <2>2, <2>3, <2>4
    DEF IInv, BlankInv, InUse, Passing, LastAddressLoaded
<1>10. OrderInv'
  <2>1. \A x, y \in 1 .. Len(entries) :
          Frontier' < x /\ x < y => entries'[x].ip_min <= entries'[y].ip_min
    <3>1. \A x, y \in 1 .. Len(entries) :
            i - 1 < x /\ x < y => entries[x].ip_min <= entries[y].ip_min
      BY <1>1, <1>4 DEF IInv, OrderInv, Passing
    <3>2. \A x \in 1 .. Len(entries) : i < x => i - 1 < x
      BY <1>4
    <3> QED
      BY <1>4, <1>5, <3>1, <3>2
  <2>2. CASE pc' = "blank"
    BY <1>5, <2>1, <2>2 DEF OrderInv, InUse
  <2>3. CASE pc' = "tally"
    <3>1. UNCHANGED entries /\ j = i + 1 /\ ip_max = entries[i].ip_max
      BY <1>1, <1>2, <1>3, <2>3, EntryFacts DEF IInv, GroupInv
    <3>2. merged = 0 => Ascending(entries) /\ GapsTo(i - 1)
      BY <1>1, <1>4 DEF IInv, OrderInv, Passing
    <3>3. i + 1 <= Len(entries) => entries[i].ip_max + 1 < entries[i + 1].ip_min
      BY <1>1, <1>3, <3>1, EntryFacts
    <3>4. merged = 0 => GapsTo(i)
      BY <1>3, <3>2, <3>3, EntryFacts DEF GapsTo
    <3>5. merged' = 0 => Ascending(entries') /\ GapsTo(Frontier)'
      BY <1>1, <1>4, <3>1, <3>2, <3>4 DEF GapsTo, Ascending
    <3> QED
      BY <1>5, <2>1, <2>3, <3>5 DEF OrderInv, InUse
  <2> QED
    BY <1>2, <2>2, <2>3
<1>11. CoverInv'
  <2> SUFFICES ASSUME \A x \in 1 .. Len(entries) : x > i => Live(x),
                      NEW ip \in Ip
               PROVE  LiveBlocks(ip)' <=> Blocks(loaded, ip)
    BY <1>1, <1>2, <1>4, <1>5, <1>6 DEF CoverInv, Passing, InUse, Blocks
  <2>1. \A x \in 1 .. Len(entries) : x > i - 1 => Live(x)
    BY <1>3, EntryFacts, <1>1
  <2>2. LiveBlocks(ip) <=> Blocks(loaded, ip)
    BY <1>1, <1>4, <2>1 DEF IInv, CoverInv, Passing
  <2>3. LiveBlocks(ip) => LiveBlocks(ip)'
    <3>1. entries[i].ip_max <= ip_max /\ entries[i].ip_max \in Nat /\ ip_max \in Nat
      BY <1>1, <1>3, EntryFacts DEF IInv, GroupInv, TypeOK, Ip
    <3>2. entries'[i].ip_max \in {ip_max, entries[i].ip_max}
      BY <1>2, <1>5
    <3>3. ASSUME NEW x \in 1 .. Len(entries), Covers(entries[x], ip)
          PROVE  Covers(entries'[x], ip)
      <4>1. CASE x # i
        BY <1>5, <3>3, <4>1 DEF Covers
      <4>2. CASE x = i
        BY <1>3, <1>5, <3>1, <3>2, <3>3, <4>2 DEF Covers, Ip
      <4> QED
        BY <4>1, <4>2
    <3> QED
      BY <1>5, <1>6, <3>3 DEF LiveBlocks
  <2>4. LiveBlocks(ip)' => LiveBlocks(ip)
    <3> SUFFICES ASSUME NEW x \in 1 .. Len(entries), Live(x)', Covers(entries'[x], ip)
                 PROVE  LiveBlocks(ip)
      BY <1>5 DEF LiveBlocks
    <3>1. CASE x # i \/ UNCHANGED entries
      BY <1>5, <1>6, <3>1 DEF LiveBlocks, Covers
    <3>2. CASE x = i /\ entries' # entries
      <4>1. entries'[i].ip_max = ip_max
        BY <1>2, <1>5, <3>2
      <4>2. entries[i].ip_min <= ip /\ ip <= ip_max
        BY <1>5, <3>2, <4>1 DEF Covers
      <4>3. PICK z \in i .. j - 1 : Covers(entries[z], ip)
        BY <1>1, <4>2 DEF IInv, GroupInv
      <4>4. z \in 1 .. Len(entries) /\ Live(z)
        BY <1>1, <1>3, <2>1, EntryFacts
      <4> QED
        BY <4>3, <4>4 DEF LiveBlocks
    <3> QED
      BY <3>1, <3>2
  <2> QED
    BY <2>2, <2>3, <2>4
<1>12. GroupInv'
  <2>1. CASE pc' = "blank"
    <3>1. entries'[i].ip_max = ip_max
      BY <1>5, <2>1
    <3>2. ASSUME NEW x \in i + 1 .. j - 1
          PROVE  /\ entries'[i].ip_min <= entries'[x].ip_min
                 /\ entries'[x].ip_max <= ip_max
      <4>1. x \in 1 .. Len(entries) /\ x \in i .. j - 1 /\ i < x
        BY <1>1, <1>3, EntryFacts
      <4>2. entries[x].ip_max <= ip_max
        BY <1>1, <4>1 DEF IInv, GroupInv
      <4>3. entries[i].ip_min <= entries[x].ip_min
        BY <1>1, <1>3, <1>4, <4>1, EntryFacts DEF IInv, OrderInv, Passing
      <4> QED
        BY <1>3, <1>5, <4>1, <4>2, <4>3
    <3> QED
      BY <1>1, <1>2, <2>1, <3>1, <3>2 DEF GroupInv
  <2> QED
    BY <1>2, <2>1 DEF GroupInv
<1>13. SearchInv'
  BY <1>2 DEF SearchInv
<1> QED
  BY <1>7, <1>8, <1>9, <1>10, <1>11, <1>12, <1>13 DEF IInv

(* One absorbed entry is blanked; the group's first entry already covers it. *)
LEMMA BlankStepInv ==
  ASSUME IInv, MergeBlank
  PROVE  IInv'
<1> USE DEF heapVars, searchVars
<1>1. /\ TypeOK /\ pc = "blank" /\ IndexInv /\ k < j
      /\ UNCHANGED <<size, alloc, numips, loaded, i, j, ip_max, key, lo, hi, found>>
  BY DEF IInv, MergeBlank
<1>2. /\ i \in 1 .. Len(entries) /\ k \in 1 .. Len(entries) /\ i < k
      /\ j \in i + 1 .. Len(entries) + 1 /\ j > i + 1 /\ Live(i)
      /\ merged >= k - (i + 1) /\ merged <= k - 1 /\ merged \in Nat
      /\ Frontier = k - 1
  BY <1>1, EntryFacts DEF IndexInv, Passing, Frontier, TypeOK
<1>3. CASE ~Live(k)
  <2>1. pc' = "crashed" /\ UNCHANGED <<entries, k, merged>>
    BY <1>3 DEF MergeBlank, Live
  <2>2. TypeOK'
    BY <1>1, <2>1 DEF TypeOK
  <2>3. HeapInv' /\ IndexInv'
    BY <1>1, <2>1 DEF IInv, HeapInv, IndexInv, Passing
  <2>4. BlankInv'
    BY <1>1, <1>2, <1>3, <2>1 DEF IInv, BlankInv, InUse, Passing, Live, LastAddressLoaded
  <2>5. OrderInv' /\ GroupInv' /\ CoverInv' /\ SearchInv'
    BY <2>1 DEF OrderInv, GroupInv, CoverInv, SearchInv, InUse, Passing
  <2> QED
    BY <2>2, <2>3, <2>4, <2>5 DEF IInv
<1>4. CASE Live(k)
  <2> DEFINE b == Blanked
  <2>1. PICK label \in {{}, entries[k].name} :
          entries' = [entries EXCEPT ![i].name = @ \cup label, ![k] = b]
    BY <1>4 DEF MergeBlank, Live
  <2>2. pc' = pc /\ k' = k + 1 /\ merged' = merged + 1
    BY <1>4 DEF MergeBlank, Live
  <2> DEFINE e == [entries[i] EXCEPT !.name = @ \cup label]
  <2>3. /\ e \in Entry /\ e.name # NULL
        /\ e.ip_min = entries[i].ip_min /\ e.ip_max = entries[i].ip_max
    <3>1. entries[i] \in Entry /\ entries[i].name \in Name /\ entries[k].name \in Name
      BY <1>1, <1>2, <1>4, EntryFacts DEF Live
    <3>2. entries[i].name \cup label \in Name
      BY <3>1 DEF Name
    <3> QED
      BY <3>1, <3>2, NameNotNull DEF Entry
  <2>4. b \in Entry /\ b.ip_min = MaxIp /\ b.ip_max = MaxIp /\ b.name = NULL
    BY DEF Entry, Ip, Blanked
  <2>5. entries' = [[entries EXCEPT ![i] = e] EXCEPT ![k] = b]
    BY <1>1, <1>2, <2>1, EntryFacts
  <2> HIDE DEF e, b
  <2>6. /\ entries' \in Seq(Entry) /\ Len(entries') = Len(entries)
        /\ \A x \in 1 .. Len(entries) :
             entries'[x] = IF x = k THEN b ELSE IF x = i THEN e ELSE entries[x]
    <3> DEFINE s == [entries EXCEPT ![i] = e]
    <3>1. /\ s \in Seq(Entry) /\ Len(s) = Len(entries)
          /\ \A x \in 1 .. Len(entries) : s[x] = IF x = i THEN e ELSE entries[x]
      <4>1. entries \in Seq(Entry)
        BY <1>1 DEF TypeOK
      <4> QED
        BY <1>2, <2>3, <4>1, ExceptSeq
    <3> HIDE DEF s
    <3>2. entries' = [s EXCEPT ![k] = b]
      BY <2>5 DEF s
    <3>3. k \in 1 .. Len(s)
      BY <1>2, <3>1
    <3>4. /\ entries' \in Seq(Entry) /\ Len(entries') = Len(s)
          /\ \A x \in 1 .. Len(s) : entries'[x] = IF x = k THEN b ELSE s[x]
      BY <2>4, <3>1, <3>2, <3>3, ExceptSeq
    <3> QED
      BY <3>1, <3>4
  <2>7. /\ entries'[k] = b /\ entries'[i] = e
        /\ \A x \in 1 .. Len(entries) : x # k /\ x # i => entries'[x] = entries[x]
    BY <1>2, <2>6
  <2>8. /\ entries'[k].name = NULL /\ entries'[i].name # NULL
        /\ \A x \in 1 .. Len(entries) :
             x # k => (entries'[x].name # NULL <=> entries[x].name # NULL)
    <3>1. entries'[k].name = NULL /\ entries'[i].name # NULL
      BY <2>3, <2>4, <2>7
    <3>2. ASSUME NEW x \in 1 .. Len(entries), x # k
          PROVE  entries'[x].name # NULL <=> entries[x].name # NULL
      BY <1>2, <2>7, <3>1, <3>2 DEF Live
    <3> QED
      BY <3>1, <3>2
  <2>9. /\ Frontier = k - 1 /\ Frontier' = k /\ k \in Nat
        /\ \A x \in 1 .. Len(entries) : x > k <=> x > k - 1 /\ x # k
    <3>1. k \in Nat
      BY <1>2
    <3>2. k' - 1 = k
      BY <2>2, <3>1
    <3> QED
      BY <1>1, <1>2, <2>2, <3>1, <3>2 DEF Frontier
  <2>10. TypeOK'
    <3>1. k' \in 0 .. MaxEntries + 1 /\ merged' \in 0 .. MaxEntries
      BY <1>1, <1>2, <2>2, <2>9, EntryFacts, SMTT(20)
    <3> QED
      BY <1>1, <2>2, <2>6, <3>1 DEF TypeOK
  <2>11. HeapInv' /\ IndexInv'
    <3>1. HeapInv'
      BY <1>1, <2>2, <2>6 DEF IInv, HeapInv
    <3>2. i' \in 1 .. Len(entries') /\ j' \in i' + 1 .. Len(entries') + 1 /\ Live(i)'
      BY <1>1, <1>2, <2>6, <2>8 DEF Live
    <3>3. j' > i' + 1 /\ k' \in i' + 1 .. j' /\ merged' >= k' - (i' + 1)
      BY <1>1, <1>2, <2>2, EntryFacts
    <3>4. merged' <= Frontier'
      BY <1>2, <2>2, <2>9
    <3> QED
      BY <1>1, <2>2, <3>1, <3>2, <3>3, <3>4 DEF IndexInv, Passing
  <2>12. BlankInv'
    <3>1. BlankedTo(Frontier)' = BlankedTo(Frontier) \cup {k}
      BY <1>2, <2>6, <2>8, <2>9, EntryFacts, <1>1 DEF BlankedTo, Live
    <3>2. k \notin BlankedTo(Frontier) /\ IsFiniteSet(BlankedTo(Frontier))
      <4>1. IsFiniteSet(1 .. Len(entries))
        BY <1>1, EntryFacts, FS_Interval
      <4> QED
        BY <1>4, <4>1, FS_Subset DEF BlankedTo
    <3>3. Cardinality(BlankedTo(Frontier)') = merged'
      <4>1. Cardinality(BlankedTo(Frontier)) = merged
        BY <1>1 DEF IInv, BlankInv, Passing
      <4>2. Cardinality(BlankedTo(Frontier) \cup {k}) = merged + 1
        BY <3>2, <4>1, FS_AddElement
      <4> QED
        BY <2>2, <3>1, <4>2
    <3>4. \A x \in 1 .. Len(entries') : ~Live(x)' => entries'[x].ip_min = MaxIp
      BY <2>3, <2>4, <2>6, <2>7, <2>8 DEF IInv, BlankInv, Live
    <3>5. \A x \in 1 .. Len(entries') : x > Frontier' /\ ~Live(x)' => LastAddressLoaded'
      <4>1. \A x \in 1 .. Len(entries) : x > k - 1 /\ ~Live(x) => LastAddressLoaded
        BY <1>1, <2>9 DEF IInv, BlankInv, Passing
      <4>2. LastAddressLoaded' <=> LastAddressLoaded
        BY <1>1 DEF LastAddressLoaded
      <4> QED
        BY <2>6, <2>8, <2>9, <4>1, <4>2 DEF Live
    <3>6. \A x \in 1 .. Len(entries') : Live(x)' =>
            \E y \in 1 .. Len(loaded') : loaded'[y].ip_min = entries'[x].ip_min
      <4>1. \A x \in 1 .. Len(entries) : Live(x) =>
              \E y \in 1 .. Len(loaded) : loaded[y].ip_min = entries[x].ip_min
        BY <1>1 DEF IInv, BlankInv
      <4>2. \A x \in 1 .. Len(entries) :
              x # k => entries'[x].ip_min = entries[x].ip_min
        BY <2>3, <2>7
      <4> QED
        BY <1>1, <2>6, <2>8, <4>1, <4>2 DEF Live
    <3> QED
      BY <1>1, <2>2, <3>3, <3>4, <3>5, <3>6 DEF BlankInv, InUse
  <2>13. OrderInv'
    <3>1. \A x, y \in 1 .. Len(entries) :
            k - 1 < x /\ x < y => entries[x].ip_min <= entries[y].ip_min
      BY <1>1, <2>9 DEF IInv, OrderInv, Passing
    <3>2. \A x \in 1 .. Len(entries) : k < x => k - 1 < x /\ entries'[x] = entries[x]
      BY <1>2, <2>7, <2>9, EntryFacts, <1>1
    <3>3. \A x, y \in 1 .. Len(entries') :
            Frontier' < x /\ x < y => entries'[x].ip_min <= entries'[y].ip_min
      <4> SUFFICES ASSUME NEW x \in 1 .. Len(entries), NEW y \in 1 .. Len(entries),
                          k < x, x < y
                   PROVE  entries'[x].ip_min <= entries'[y].ip_min
        BY <2>6, <2>9
      <4>1. k < y
        BY <2>9
      <4> QED
        BY <3>1, <3>2, <4>1
    <3> QED
      BY <1>1, <2>2, <3>3 DEF OrderInv, InUse
  <2>14. GroupInv'
    <3>1. \A x \in k .. j - 1 : /\ entries[i].ip_min <= entries[x].ip_min
                                /\ entries[x].ip_max <= ip_max
      BY <1>1 DEF IInv, GroupInv
    <3>2. ASSUME NEW x \in k + 1 .. j - 1
          PROVE  x \in k .. j - 1 /\ entries'[x] = entries[x]
      <4>1. x \in 1 .. Len(entries) /\ x > k
        BY <1>1, <1>2, <2>9, EntryFacts
      <4> QED
        BY <1>1, <1>2, <2>7, <2>9, <4>1, SMTT(20)
    <3>3. entries'[i].ip_max = ip_max /\ entries'[i].ip_min = entries[i].ip_min
      BY <1>1, <2>3, <2>7 DEF IInv, GroupInv
    <3> QED
      BY <1>1, <2>2, <3>1, <3>2, <3>3 DEF GroupInv
  <2>15. CoverInv'
    <3> SUFFICES ASSUME \A x \in 1 .. Len(entries) : x > k => entries[x].name # NULL,
                        NEW ip \in Ip
                 PROVE  LiveBlocks(ip)' <=> Blocks(loaded', ip)
      BY <1>1, <2>2, <2>6, <2>8, <2>9 DEF CoverInv, Passing, InUse, Live
    <3>1. \A x \in 1 .. Len(entries) : x > k - 1 => Live(x)
      BY <1>4, <2>9 DEF Live
    <3>2. LiveBlocks(ip) <=> Blocks(loaded', ip)
      BY <1>1, <2>9, <3>1 DEF IInv, CoverInv, Passing
    <3>3. \A x \in 1 .. Len(entries) :
            x # k => (Covers(entries'[x], ip) <=> Covers(entries[x], ip))
      BY <2>3, <2>7 DEF Covers
    <3>4. Covers(entries[k], ip) => Covers(entries[i], ip)
      <4>1. /\ entries[i].ip_min <= entries[k].ip_min
            /\ entries[k].ip_max <= entries[i].ip_max
        BY <1>1, <1>2 DEF IInv, GroupInv
      <4> QED
        BY <1>1, <1>2, <4>1, EntryFacts DEF Covers, Ip
    <3>5. LiveBlocks(ip)' <=> LiveBlocks(ip)
      BY <1>2, <2>6, <2>8, <3>3, <3>4 DEF LiveBlocks, Live
    <3> QED
      BY <3>2, <3>5
  <2>16. SearchInv'
    BY <1>1, <2>2 DEF SearchInv
  <2> QED
    BY <2>10, <2>11, <2>12, <2>13, <2>14, <2>15, <2>16 DEF IInv
<1> QED
  BY <1>3, <1>4

(* The group is done, and its blanked entries are behind the frontier. *)
LEMMA BlankedInv ==
  ASSUME IInv, MergeBlanked
  PROVE  IInv'
<1> USE DEF heapVars, searchVars
<1>1. /\ TypeOK /\ pc = "blank" /\ IndexInv /\ k = j /\ i' = j - 1 /\ pc' = "tally"
      /\ UNCHANGED <<entries, size, alloc, numips, loaded, j, k, ip_max, merged,
                     key, lo, hi, found>>
  BY DEF IInv, MergeBlanked
<1>2. /\ i \in 1 .. Len(entries) /\ j \in i + 1 .. Len(entries) + 1
      /\ j > i + 1 /\ merged >= j - (i + 1) /\ merged \in Nat
      /\ Frontier = j - 1 /\ Frontier' = j - 1 /\ merged <= j - 1
  BY <1>1 DEF IndexInv, Passing, Frontier, TypeOK
<1>3. merged > 0 /\ j - 1 \in 1 .. Len(entries)
  BY <1>1, <1>2, EntryFacts
<1>4. TypeOK'
  BY <1>1, <1>2, <1>3, EntryFacts, SMTT(20) DEF TypeOK
<1>5. HeapInv' /\ IndexInv'
  BY <1>1, <1>2, <1>3 DEF IInv, HeapInv, IndexInv, Passing
<1>6. BlankInv'
  <2>1. Cardinality(BlankedTo(Frontier)') = merged'
    BY <1>1, <1>2 DEF IInv, BlankInv, Passing, BlankedTo, Live
  <2> QED
    BY <1>1, <1>2, <2>1 DEF IInv, BlankInv, InUse, Passing, Live, LastAddressLoaded
<1>7. OrderInv'
  BY <1>1, <1>2, <1>3 DEF IInv, OrderInv, InUse, Passing
<1>8. CoverInv'
  BY <1>1, <1>2 DEF IInv, CoverInv, InUse, Passing, Live, LiveBlocks
<1>9. GroupInv' /\ SearchInv'
  BY <1>1 DEF GroupInv, SearchInv
<1> QED
  BY <1>4, <1>5, <1>6, <1>7, <1>8, <1>9 DEF IInv

(* Counting a group moves the frontier behind it and changes no entry. *)
LEMMA TallyInv ==
  ASSUME IInv, MergeTally
  PROVE  IInv'
<1> USE DEF heapVars, searchVars
<1> DEFINE n == (numips + entries[i].ip_max - entries[i].ip_min) % (MaxIp + 1)
<1>1. /\ TypeOK /\ pc = "tally" /\ IndexInv /\ i' = i + 1 /\ pc' = "visit"
      /\ numips' = IF n < MaxIp THEN n + 1 ELSE n
      /\ UNCHANGED <<entries, size, alloc, loaded, j, k, ip_max, merged,
                     key, lo, hi, found>>
  BY DEF IInv, MergeTally, Tallied
<1>2. i \in 1 .. Len(entries) /\ Frontier = i /\ Frontier' = i /\ merged <= i
  <2>1. i \in 1 .. Len(entries) /\ Frontier = i
    BY <1>1 DEF IndexInv, Frontier
  <2> QED
    BY <1>1, <2>1 DEF IndexInv, Passing, Frontier
<1>3. numips' \in Ip
  <2>1. numips + entries[i].ip_max - entries[i].ip_min \in Int
    BY <1>1, <1>2, EntryFacts DEF TypeOK, Ip
  <2>2. n \in Ip
    BY <2>1, ModRange
  <2> HIDE DEF n
  <2> QED
    BY <1>1, <2>2 DEF Ip
<1> HIDE DEF n
<1>4. TypeOK'
  BY <1>1, <1>2, <1>3, EntryFacts DEF TypeOK
<1>5. HeapInv' /\ IndexInv'
  BY <1>1, <1>2, EntryFacts DEF IInv, HeapInv, IndexInv, Passing
<1>6. BlankInv'
  <2>1. Cardinality(BlankedTo(Frontier)') = merged'
    BY <1>1, <1>2 DEF IInv, BlankInv, Passing, BlankedTo, Live
  <2> QED
    BY <1>1, <1>2, <2>1 DEF IInv, BlankInv, InUse, Passing, Live, LastAddressLoaded
<1>7. OrderInv'
  BY <1>1, <1>2 DEF IInv, OrderInv, InUse, Passing, Ascending, GapsTo
<1>8. CoverInv'
  BY <1>1, <1>2 DEF IInv, CoverInv, InUse, Passing, Live, LiveBlocks
<1>9. GroupInv' /\ SearchInv'
  BY <1>1 DEF GroupInv, SearchInv
<1> QED
  BY <1>4, <1>5, <1>6, <1>7, <1>8, <1>9 DEF IInv

(* The pass ends.  If it blanked anything, the sort pushes that many entries *)
(* off the end; should it push off another one, that one begins at the last  *)
(* address.                                                                  *)
LEMMA EndInv ==
  ASSUME IInv, MergeEnd
  PROVE  IInv'
<1> USE DEF heapVars, searchVars
<1> DEFINE n == Len(entries)
<1>1. /\ TypeOK /\ IndexInv /\ pc = "visit" /\ i > n
      /\ i' = 0 /\ j' = 0 /\ k' = 0 /\ ip_max' = 0 /\ merged' = 0
      /\ UNCHANGED <<size, numips, loaded, key, lo, hi, found>>
  BY DEF IInv, MergeEnd
<1>2. n \in Nat /\ i = n + 1 /\ Frontier = n /\ merged \in Nat /\ n <= MaxEntries
  <2>1. n \in Nat /\ i \in 1 .. n + 1 /\ n <= MaxEntries
    BY <1>1, EntryFacts DEF IndexInv
  <2>2. i = n + 1
    BY <1>1, <2>1
  <2> QED
    BY <1>1, <2>1, <2>2 DEF Frontier, TypeOK
<1>3. \A ip \in Ip : LiveBlocks(ip) <=> Blocks(loaded, ip)
  <2>1. \A x \in 1 .. n : x <= Frontier
    BY <1>2
  <2>2. \A x \in 1 .. n : x > Frontier => Live(x)
    BY <1>2
  <2> QED
    BY <1>1, <2>2 DEF IInv, CoverInv, Passing
<1>4. Cardinality(BlankedTo(n)) = merged
  BY <1>1, <1>2 DEF IInv, BlankInv, Passing
<1>5. /\ \A x \in 1 .. n : ~Live(x) => entries[x].ip_min = MaxIp
      /\ \A x \in 1 .. n : Live(x) =>
           \E y \in 1 .. Len(loaded) : loaded[y].ip_min = entries[x].ip_min
  BY <1>1 DEF IInv, BlankInv
<1>6. CASE merged = 0
  <2>1. pc' = "ready" /\ UNCHANGED <<entries, alloc>>
    BY <1>6 DEF MergeEnd, SomethingMerged
  <2>2. \A x \in 1 .. n : Live(x)
    <3>1. IsFiniteSet(1 .. n)
      BY <1>2, FS_Interval
    <3>2. IsFiniteSet(BlankedTo(n))
      BY <3>1, FS_Subset DEF BlankedTo
    <3>3. BlankedTo(n) = {}
      BY <1>4, <1>6, <3>2, FS_EmptySet
    <3> QED
      BY <1>2, <3>3 DEF BlankedTo
  <2>3. TypeOK'
    BY <1>1, <2>1 DEF TypeOK, Ip
  <2>4. HeapInv' /\ IndexInv'
    BY <1>1, <2>1 DEF IInv, HeapInv, IndexInv, Passing
  <2>5. BlankInv'
    BY <1>1, <1>5, <2>1, <2>2 DEF BlankInv, Passing, Live
  <2>6. OrderInv'
    <3>1. Ascending(entries) /\ GapsTo(n)
      BY <1>1, <1>2, <1>6 DEF IInv, OrderInv, Passing
    <3> QED
      BY <2>1, <3>1 DEF OrderInv, Passing, Ascending, GapsTo
  <2>7. CoverInv'
    BY <1>1, <1>3, <2>1 DEF CoverInv, Passing, LiveBlocks, Live
  <2>8. GroupInv' /\ SearchInv'
    BY <2>1 DEF GroupInv, SearchInv
  <2> QED
    BY <2>3, <2>4, <2>5, <2>6, <2>7, <2>8 DEF IInv
<1>7. CASE merged # 0
  <2>1. PICK s \in Sortings(entries) : entries' = SubSeq(s, 1, Len(s) - merged)
    BY <1>7 DEF MergeEnd, SomethingMerged
  <2>2. alloc' = n - merged /\ pc' = "merge"
    BY <1>7 DEF MergeEnd, SomethingMerged
  <2>3. s \in Seq(Entry) /\ Len(s) = n /\ Ascending(s)
    BY <1>1, SortingIsReordering DEF TypeOK
  <2>4. PICK p \in Reorderings(n) : \A x \in 1 .. n : s[x] = entries[p[x]]
    BY <1>1, SortingIsReordering DEF TypeOK
  <2>5. /\ \A x \in 1 .. n : p[x] \in 1 .. n
        /\ \A y \in 1 .. n : \E x \in 1 .. n : p[x] = y
    BY DEF Reorderings
  <2>0. \A x \in 1 .. n :
          /\ s[x] = entries[p[x]] /\ p[x] \in 1 .. n
          /\ s[x].name = NULL <=> ~Live(p[x])
    <3> TAKE x \in 1 .. n
    <3>1. s[x] = entries[p[x]] /\ p[x] \in 1 .. n
      BY <2>4, <2>5
    <3> QED
      BY <3>1 DEF Live
  <2> DEFINE B == {x \in 1 .. n : s[x].name = NULL}
             c == n - merged
  <2>6. B \subseteq 1 .. n /\ Cardinality(B) = merged
    <3>1. BlankedTo(n) \in SUBSET (1 .. n)
      BY DEF BlankedTo
    <3>2. ASSUME NEW x \in 1 .. n
          PROVE  x \in B <=> p[x] \in BlankedTo(n)
      <4>1. p[x] \in 1 .. n /\ p[x] <= n
        BY <1>2, <2>0
      <4> QED
        BY <2>0, <4>1 DEF BlankedTo
    <3>3. B = {x \in 1 .. n : p[x] \in BlankedTo(n)}
      BY <3>2
    <3> QED
      BY <1>2, <1>4, <3>1, <3>3, ReorderingKeepsCount
  <2>7. /\ merged \in 0 .. n
        /\ (\A x \in 1 .. c : x \notin B) => B = c + 1 .. n
        /\ \A y \in 1 .. c : y \in B => \E x \in c + 1 .. n : x \notin B
    <3>1. B \in SUBSET (1 .. n)
      BY <2>6
    <3> HIDE DEF B
    <3> QED
      BY <1>2, <2>6, <3>1, CutOff
  <2>8. c \in 0 .. n
    BY <1>2, <2>7
  <2>9. /\ entries' \in Seq(Entry) /\ Len(entries') = c
        /\ \A x \in 1 .. c : x \in 1 .. n /\ entries'[x] = s[x]
    <3>1. \A x \in 1 .. c : x \in 1 .. n /\ s[x] \in Entry
      BY <1>2, <2>3, <2>8, SeqElements
    <3> QED
      BY <1>2, <2>1, <2>3, <2>8, <3>1, SubSeqProperties
  <2>10. \A x \in 1 .. n : s[x].name = NULL => s[x].ip_min = MaxIp
    <3> TAKE x \in 1 .. n
    <3> QED
      BY <1>5, <2>0
  <2>11. \A x \in 1 .. n : s[x].name # NULL =>
           \E y \in 1 .. Len(loaded) : loaded[y].ip_min = s[x].ip_min
    <3> TAKE x \in 1 .. n
    <3> QED
      BY <1>5, <2>0
  <2>12. Frontier' = -1
    BY <1>1, <2>2 DEF Frontier
  <2>13. TypeOK'
    BY <1>1, <1>2, <2>2, <2>8, <2>9 DEF TypeOK, Ip
  <2>14. HeapInv' /\ IndexInv'
    BY <1>1, <2>2, <2>8, <2>9 DEF HeapInv, IndexInv, Passing
  <2>15. BlankInv'
    <3>1. ASSUME NEW y \in 1 .. c, s[y].name = NULL
          PROVE  LastAddressLoaded
      <4>1. PICK x \in c + 1 .. n : x \notin B
        BY <2>7, <2>9, <3>1
      <4>2. x \in 1 .. n /\ y \in 1 .. n /\ y < x /\ s[x].name # NULL
        BY <1>2, <2>8, <2>9, <4>1
      <4>3. s[y].ip_min <= s[x].ip_min /\ s[y].ip_min = MaxIp
        BY <2>3, <2>10, <3>1, <4>2 DEF Ascending
      <4>4. s[x].ip_min \in Ip
        <5>1. s[x] \in Entry
          BY <2>3, <4>2, SeqElements
        <5> QED
          BY <5>1 DEF Entry
      <4>5. s[x].ip_min = MaxIp
        BY <4>3, <4>4 DEF Ip
      <4> QED
        BY <2>11, <4>2, <4>5 DEF LastAddressLoaded
    <3>2. BlankedTo(-1)' = {}
      BY <2>9, <2>8 DEF BlankedTo
    <3>3. Cardinality(BlankedTo(Frontier)') = merged'
      BY <1>1, <2>12, <3>2, FS_EmptySet
    <3>4. LastAddressLoaded' <=> LastAddressLoaded
      BY <1>1 DEF LastAddressLoaded
    <3> QED
      BY <1>1, <2>2, <2>9, <2>10, <2>11, <3>1, <3>3, <3>4
      DEF BlankInv, InUse, Live
  <2>16. OrderInv'
    <3>1. Ascending(entries') /\ GapsTo(-1)'
      BY <2>3, <2>8, <2>9 DEF Ascending, GapsTo
    <3> QED
      BY <2>2, <2>12, <3>1 DEF OrderInv, InUse, Ascending
  <2>17. CoverInv'
    <3> SUFFICES ASSUME \A x \in 1 .. c : x > -1 => entries'[x].name # NULL,
                        NEW ip \in Ip
                 PROVE  LiveBlocks(ip)' <=> Blocks(loaded, ip)
      BY <1>1, <2>2, <2>9, <2>12 DEF CoverInv, InUse, Live
    <3>1. B = c + 1 .. n
      <4>1. ASSUME NEW x \in 1 .. c PROVE x \notin B
        <5>1. x > -1 /\ entries'[x] = s[x]
          BY <2>8, <2>9
        <5> QED
          BY <5>1
      <4> QED
        BY <2>7, <4>1
    <3>2. LiveBlocks(ip)' => LiveBlocks(ip)
      <4> SUFFICES ASSUME NEW x \in 1 .. c, entries'[x].name # NULL,
                          Covers(entries'[x], ip)
                   PROVE  LiveBlocks(ip)
        BY <2>9 DEF LiveBlocks, Live
      <4>1. x \in 1 .. n /\ entries'[x] = s[x]
        BY <2>9
      <4>2. p[x] \in 1 .. n /\ Live(p[x]) /\ Covers(entries[p[x]], ip)
        BY <2>0, <4>1
      <4> QED
        BY <4>2 DEF LiveBlocks
    <3>3. ASSUME NEW y \in 1 .. n, Live(y), Covers(entries[y], ip)
          PROVE  LiveBlocks(ip)'
      <4>1. PICK x \in 1 .. n : p[x] = y
        BY <2>5
      <4>2. s[x].name # NULL /\ Covers(s[x], ip)
        BY <2>0, <3>3, <4>1
      <4>3. x \in 1 .. c
        BY <1>2, <2>8, <3>1, <4>2
      <4> QED
        BY <2>9, <4>2, <4>3 DEF LiveBlocks, Live
    <3> QED
      BY <1>3, <3>2, <3>3 DEF LiveBlocks
  <2>18. GroupInv' /\ SearchInv'
    BY <2>2 DEF GroupInv, SearchInv
  <2> QED
    BY <2>13, <2>14, <2>15, <2>16, <2>17, <2>18 DEF IInv
<1> QED
  BY <1>6, <1>7

-----------------------------------------------------------------------------
(* The search *)

(* In an ordered list with gaps between neighbours, any two ranges are apart. *)
LEMMA GapsAreSeparation ==
  ASSUME TypeOK, Ascending(entries), GapsTo(Len(entries)),
         NEW x \in 1 .. Len(entries), NEW y \in 1 .. Len(entries), x < y
  PROVE  entries[x].ip_max + 1 < entries[y].ip_min
<1>1. x + 1 \in 1 .. Len(entries) /\ x <= Len(entries)
  BY EntryFacts
<1>2. entries[x].ip_max + 1 < entries[x + 1].ip_min
  BY <1>1 DEF GapsTo
<1>3. entries[x + 1].ip_min <= entries[y].ip_min
  <2>1. CASE x + 1 = y
    BY <1>1, <2>1, EntryFacts
  <2>2. CASE x + 1 # y
    BY <1>1, <2>2, EntryFacts DEF Ascending
  <2> QED
    BY <2>1, <2>2
<1>4. /\ entries[x].ip_max \in Nat /\ entries[x + 1].ip_min \in Nat
      /\ entries[y].ip_min \in Nat
  BY <1>1, EntryFacts
<1> QED
  BY <1>2, <1>3, <1>4

(* While the list is only searched, the parts of the invariant that are not  *)
(* about the search stay as they are.                                        *)
LEMMA SearchFrame ==
  ASSUME IInv, InUse, InUse',
         UNCHANGED <<entries, size, alloc, numips, loaded, i, j, k, ip_max, merged>>
  PROVE  HeapInv' /\ IndexInv' /\ BlankInv' /\ OrderInv' /\ GroupInv' /\ CoverInv'
<1> USE DEF IInv
<1>1. HeapInv' /\ IndexInv'
  BY DEF HeapInv, IndexInv, InUse, Passing
<1>2. BlankInv' /\ OrderInv'
  BY DEF BlankInv, OrderInv, InUse, Passing, Ascending, GapsTo, Live
<1>3. GroupInv' /\ CoverInv'
  BY DEF GroupInv, CoverInv, InUse, Passing, LiveBlocks, Live
<1> QED
  BY <1>1, <1>2, <1>3

(* The search begins with the whole list between its bounds. *)
LEMMA FindBeginInv ==
  ASSUME IInv, NEW ip \in Ip, FindBegin(ip)
  PROVE  IInv'
<1>1. /\ TypeOK /\ pc = "ready" /\ pc' = "find"
      /\ key' = ip /\ lo' = 1 /\ hi' = Len(entries) + 1 /\ found' = 0
      /\ UNCHANGED <<entries, size, alloc, numips, loaded, i, j, k, ip_max, merged>>
  BY DEF IInv, FindBegin, BeyondLast, heapVars, loopVars
<1>2. HeapInv' /\ IndexInv' /\ BlankInv' /\ OrderInv' /\ GroupInv' /\ CoverInv'
  BY <1>1, SearchFrame DEF InUse
<1>3. TypeOK'
  BY <1>1, EntryFacts DEF TypeOK
<1>4. SearchInv'
  BY <1>1, EntryFacts DEF SearchInv
<1> QED
  BY <1>2, <1>3, <1>4 DEF IInv

(* A comparison with the middle entry excludes the half it says it excludes. *)
LEMMA FindStepInv ==
  ASSUME IInv, FindStep
  PROVE  IInv'
<1> DEFINE mid == lo + (hi - lo) \div 2
           n == Len(entries)
<1>1. /\ TypeOK /\ pc = "find" /\ lo < hi /\ key' = key
      /\ UNCHANGED <<entries, size, alloc, numips, loaded, i, j, k, ip_max, merged>>
  BY DEF IInv, FindStep, heapVars, loopVars
<1>2. /\ lo \in 1 .. n + 1 /\ hi \in 1 .. n + 1 /\ n \in Nat
      /\ \A x \in 1 .. n : x < lo \/ x >= hi => ~Covers(entries[x], key)
  BY <1>1, EntryFacts DEF IInv, SearchInv
<1>3. mid \in 1 .. n /\ lo <= mid /\ mid < hi
  BY <1>1, <1>2
<1>4. Ascending(entries) /\ GapsTo(n)
  BY <1>1 DEF IInv, OrderInv, InUse
<1>5. key \in Nat
  BY <1>1 DEF TypeOK, Ip
<1>6. \/ /\ key < entries[mid].ip_min /\ hi' = mid
         /\ UNCHANGED <<lo, found, pc>>
      \/ /\ key >= entries[mid].ip_min /\ key > entries[mid].ip_max
         /\ lo' = mid + 1 /\ UNCHANGED <<hi, found, pc>>
      \/ /\ Covers(entries[mid], key)
         /\ found' = mid /\ pc' = "answered" /\ UNCHANGED <<lo, hi>>
  BY DEF FindStep
<1> HIDE DEF mid
<1>7. HeapInv' /\ IndexInv' /\ BlankInv' /\ OrderInv' /\ GroupInv' /\ CoverInv'
  BY <1>1, <1>6, SearchFrame DEF InUse
<1>8. TypeOK'
  BY <1>1, <1>2, <1>3, <1>6, EntryFacts, SMTT(20) DEF TypeOK
<1>9. SearchInv'
  <2>1. CASE key < entries[mid].ip_min /\ hi' = mid /\ UNCHANGED <<lo, found, pc>>
    <3>1. ASSUME NEW x \in 1 .. n, x >= mid PROVE ~Covers(entries[x], key)
      <4>1. entries[mid].ip_min <= entries[x].ip_min
        BY <1>1, <1>3, <1>4, <3>1, EntryFacts, SMTT(20) DEF Ascending
      <4> QED
        BY <1>1, <1>3, <1>5, <2>1, <4>1, EntryFacts DEF Covers
    <3> QED
      BY <1>1, <1>2, <1>3, <2>1, <3>1 DEF SearchInv
  <2>2. CASE /\ key >= entries[mid].ip_min /\ key > entries[mid].ip_max
             /\ lo' = mid + 1 /\ UNCHANGED <<hi, found, pc>>
    <3>1. ASSUME NEW x \in 1 .. n, x < mid + 1 PROVE ~Covers(entries[x], key)
      <4>1. CASE x = mid
        BY <1>1, <1>3, <1>5, <2>2, <4>1, EntryFacts DEF Covers
      <4>2. CASE x # mid
        <5>1. x < mid
          BY <1>2, <1>3, <3>1, <4>2
        <5>2. entries[x].ip_max + 1 < entries[mid].ip_min
          BY <1>1, <1>3, <1>4, <5>1, GapsAreSeparation
        <5> QED
          BY <1>1, <1>3, <1>5, <2>2, <5>2, EntryFacts DEF Covers
      <4> QED
        BY <4>1, <4>2
    <3> QED
      BY <1>1, <1>2, <1>3, <2>2, <3>1 DEF SearchInv
  <2>3. CASE /\ Covers(entries[mid], key)
             /\ found' = mid /\ pc' = "answered" /\ UNCHANGED <<lo, hi>>
    BY <1>1, <1>2, <1>3, <2>3 DEF SearchInv
  <2> QED
    BY <1>6, <2>1, <2>2, <2>3
<1> QED
  BY <1>7, <1>8, <1>9 DEF IInv

(* When the bounds meet, every entry has been excluded. *)
LEMMA FindMissInv ==
  ASSUME IInv, FindMiss
  PROVE  IInv'
<1>1. /\ TypeOK /\ pc = "find" /\ lo >= hi /\ pc' = "answered" /\ found' = 0
      /\ UNCHANGED <<entries, size, alloc, numips, loaded, i, j, k, ip_max, merged,
                     key, lo, hi>>
  BY DEF IInv, FindMiss, heapVars, loopVars
<1>2. HeapInv' /\ IndexInv' /\ BlankInv' /\ OrderInv' /\ GroupInv' /\ CoverInv'
  BY <1>1, SearchFrame DEF InUse
<1>3. TypeOK'
  BY <1>1 DEF TypeOK
<1>4. SearchInv'
  <2>1. lo \in 1 .. Len(entries) + 1 /\ hi \in 1 .. Len(entries) + 1
    BY <1>1 DEF IInv, SearchInv
  <2>2. \A x \in 1 .. Len(entries) : x < lo \/ x >= hi
    BY <1>1, <2>1
  <2> QED
    BY <1>1, <2>2 DEF IInv, SearchInv
<1> QED
  BY <1>2, <1>3, <1>4 DEF IInv

(* The answer is handed over and forgotten. *)
LEMMA FindReturnInv ==
  ASSUME IInv, FindReturn
  PROVE  IInv'
<1>1. /\ TypeOK /\ pc = "answered" /\ pc' = "ready"
      /\ key' = 0 /\ lo' = 0 /\ hi' = 0 /\ found' = 0
      /\ UNCHANGED <<entries, size, alloc, numips, loaded, i, j, k, ip_max, merged>>
  BY DEF IInv, FindReturn, heapVars, loopVars
<1>2. HeapInv' /\ IndexInv' /\ BlankInv' /\ OrderInv' /\ GroupInv' /\ CoverInv'
  BY <1>1, SearchFrame DEF InUse
<1>3. TypeOK'
  BY <1>1 DEF TypeOK, Ip
<1>4. SearchInv'
  BY <1>1 DEF SearchInv
<1> QED
  BY <1>2, <1>3, <1>4 DEF IInv

-----------------------------------------------------------------------------
(* The theorems *)

(* Every step of the program preserves the invariant. *)
LEMMA NextInv == IInv /\ [Next]_vars => IInv'
<1> SUFFICES ASSUME IInv, [Next]_vars PROVE IInv'
  OBVIOUS
<1>1. ASSUME NEW r \in Ranges, blocklist_append(r) PROVE IInv'
  BY <1>1, AppendInv
<1>2. ASSUME NEW start \in 0 .. Len(entries), blocklist_clear(start) PROVE IInv'
  BY <1>2, ClearInv
<1>3. CASE blocklist_sort
  BY <1>3, SortInv
<1>4. CASE Merge
  BY <1>4, BeginInv, VisitInv, SaturateInv, ExtendInv, ScannedInv, BlankStepInv,
     BlankedInv, TallyInv, EndInv DEF Merge
<1>5. ASSUME NEW ip \in Ip, FindBegin(ip) PROVE IInv'
  BY <1>5, FindBeginInv
<1>6. CASE Find
  BY <1>6, FindStepInv, FindMissInv, FindReturnInv DEF Find
<1>7. CASE Respawn
  BY <1>7, RespawnInv
<1>8. CASE UNCHANGED vars
  <2> USE <1>8 DEF vars, heapVars, loopVars, searchVars, IInv
  <2>1. TypeOK' /\ HeapInv' /\ IndexInv'
    BY DEF TypeOK, HeapInv, IndexInv, Passing, Live, Frontier
  <2>2. BlankInv' /\ OrderInv'
    BY DEF BlankInv, OrderInv, InUse, Passing, Live, Frontier, BlankedTo,
           LastAddressLoaded, Ascending, GapsTo
  <2>3. GroupInv' /\ CoverInv' /\ SearchInv'
    BY DEF GroupInv, CoverInv, SearchInv, InUse, Passing, Live, LiveBlocks, Frontier
  <2> QED
    BY <2>1, <2>2, <2>3
<1> QED
  BY <1>1, <1>2, <1>3, <1>4, <1>5, <1>6, <1>7, <1>8 DEF Next

(* IInv holds in every reachable state, whatever the lists contain: inverted *)
(* and overlapping ranges, unstable sorts and shortened names included.      *)
THEOREM Invariance == Spec => []IInv
<1>1. Init => IInv
  BY InitInv
<1>2. IInv /\ [Next]_vars => IInv'
  BY NextInv
<1> QED
  BY <1>1, <1>2, PTL DEF Spec

(* The variables keep their types: no index of the merge or of the binary    *)
(* search leaves the array.                                                  *)
THEOREM TypeCorrect == Spec => []TypeOK
<1>1. IInv => TypeOK
  BY DEF IInv
<1> QED
  BY <1>1, Invariance, PTL

(* Sorting and merging block exactly the addresses the loaded ranges block. *)
THEOREM CoverageTheorem == Spec => []CoverageExact
<1>1. IInv => CoverageExact
  <2> SUFFICES ASSUME IInv, InUse, NEW ip \in Ip
               PROVE  Blocks(entries, ip) <=> Blocks(loaded, ip)
    BY DEF CoverageExact
  <2>1. LiveBlocks(ip) <=> Blocks(loaded, ip)
    BY DEF IInv, CoverInv
  <2>2. \A x \in 1 .. Len(entries) : Live(x)
    BY DEF IInv, BlankInv
  <2> QED
    BY <2>1, <2>2 DEF LiveBlocks, Blocks
<1> QED
  BY <1>1, Invariance, PTL

(* A merged list is in order and has a gap between any two of its ranges. *)
THEOREM SeparatedTheorem == Spec => []Separated
<1>1. IInv => Separated
  <2> SUFFICES ASSUME IInv, InUse,
                      NEW x \in 1 .. Len(entries), NEW y \in 1 .. Len(entries), x < y
               PROVE  entries[x].ip_max + 1 < entries[y].ip_min
    BY DEF Separated
  <2>1. TypeOK /\ Ascending(entries) /\ GapsTo(Len(entries))
    BY DEF IInv, OrderInv
  <2> QED
    BY <2>1, GapsAreSeparation
<1> QED
  BY <1>1, Invariance, PTL

(* blocklist_find answers with an entry exactly when a loaded range holds    *)
(* the address, and that entry holds it.                                     *)
THEOREM FindTheorem == Spec => []FindExact
<1>1. IInv /\ CoverageExact => FindExact
  <2> SUFFICES ASSUME IInv, CoverageExact, pc = "answered"
               PROVE  /\ found # 0 <=> Blocks(loaded, key)
                      /\ found # 0 => Covers(entries[found], key)
    BY DEF FindExact
  <2>1. /\ found # 0 => found \in 1 .. Len(entries) /\ Covers(entries[found], key)
        /\ found = 0 => \A x \in 1 .. Len(entries) : ~Covers(entries[x], key)
    BY DEF IInv, SearchInv
  <2>2. Blocks(entries, key) <=> Blocks(loaded, key)
    BY DEF CoverageExact, InUse, IInv, TypeOK
  <2> QED
    BY <2>1, <2>2 DEF Blocks
<1> QED
  BY <1>1, Invariance, CoverageTheorem, PTL

(* blocklist_append stays within the allocated array although the merge      *)
(* shrinks the allocation behind blocklist.size.                             *)
THEOREM AllocationTheorem == Spec => []WithinAllocation
<1>1. IInv => WithinAllocation
  BY DEF IInv, HeapInv, WithinAllocation
<1> QED
  BY <1>1, Invariance, PTL

(* The merge dereferences a NULL name only if a loaded range begins at       *)
(* 255.255.255.255.                                                          *)
THEOREM CrashTheorem == Spec => []CrashNeedsLastAddress
<1>1. IInv => CrashNeedsLastAddress
  BY DEF IInv, BlankInv, CrashNeedsLastAddress, LastAddressLoaded
<1> QED
  BY <1>1, Invariance, PTL

-----------------------------------------------------------------------------
(* The labels *)

(* A name that says nothing of an address outside lo .. hi: it has a label,  *)
(* and each of its labels is that of a loaded range inside lo .. hi.         *)
Honest(name, first, last) ==
  /\ name # {}
  /\ \A n \in name :
       /\ n \in 1 .. Len(loaded)
       /\ first <= loaded[n].ip_min
       /\ loaded[n].ip_max <= last

(* Until the first sort an entry has its own label; from then on the name of *)
(* a live entry is honest about the range it has grown to.                   *)
LabelInv ==
  /\ pc = "load" => \A x \in 1 .. Len(entries) : entries[x].name = {x}
  /\ pc # "load" => \A x \in 1 .. Len(entries) :
       Live(x) => Honest(entries[x].name, entries[x].ip_min, entries[x].ip_max)

(* The ends of a loaded range are numbers. *)
LEMMA LoadedFacts ==
  ASSUME TypeOK
  PROVE  \A n \in 1 .. Len(loaded) :
           loaded[n].ip_min \in Nat /\ loaded[n].ip_max \in Nat
<1>1. \A n \in 1 .. Len(loaded) : loaded[n] \in Entry
  BY SeqElements DEF TypeOK
<1> QED
  BY <1>1 DEF Entry, Ip

(* What a name may say stays true when the range it names gets longer. *)
LEMMA HonestWiden ==
  ASSUME TypeOK, NEW name, NEW first \in Nat, NEW last \in Nat,
         NEW first2 \in Nat, NEW last2 \in Nat,
         Honest(name, first, last), first2 <= first, last <= last2
  PROVE  Honest(name, first2, last2)
BY LoadedFacts DEF Honest

(* The labels of two honest names make an honest name. *)
LEMMA HonestUnion ==
  ASSUME NEW name, NEW other, NEW first, NEW last,
         Honest(name, first, last), Honest(other, first, last)
  PROVE  Honest(name \cup other, first, last)
BY DEF Honest

(* Steps that touch neither the entries nor the loaded ranges. *)
LEMMA LabelFrame ==
  ASSUME LabelInv, UNCHANGED <<entries, loaded>>,
         pc = "load" <=> pc' = "load"
  PROVE  LabelInv'
BY DEF LabelInv, Honest, Live

(* An appended entry is labelled with its own place. *)
LEMMA AppendLabels ==
  ASSUME IInv, LabelInv, NEW r \in Ranges, blocklist_append(r)
  PROVE  LabelInv'
<1> DEFINE e == [ip_min |-> r[1], ip_max |-> r[2], name |-> {Len(entries) + 1}]
<1>1. /\ entries \in Seq(Entry) /\ pc = "load" /\ pc' = "load"
      /\ entries' = Append(entries, e) /\ Len(entries) < MaxEntries
  BY DEF IInv, TypeOK, blocklist_append
<1>2. Len(entries) \in Nat
  BY EntryFacts DEF IInv
<1>3. /\ Len(entries') = Len(entries) + 1
      /\ \A x \in 1 .. Len(entries) : entries'[x] = entries[x]
      /\ entries'[Len(entries) + 1] = e
  BY <1>1, <1>2
<1>4. e.name = {Len(entries) + 1}
  OBVIOUS
<1> HIDE DEF e
<1>5. ASSUME NEW x \in 1 .. Len(entries') PROVE entries'[x].name = {x}
  <2>1. x \in 1 .. Len(entries) \/ x = Len(entries) + 1
    BY <1>2, <1>3
  <2> QED
    BY <1>1, <1>3, <1>4, <2>1 DEF LabelInv
<1> QED
  BY <1>1, <1>5 DEF LabelInv

(* Clearing keeps a prefix, so every entry stays at its place. *)
LEMMA ClearLabels ==
  ASSUME IInv, LabelInv, NEW start \in 0 .. Len(entries), blocklist_clear(start)
  PROVE  LabelInv'
<1>1. /\ entries \in Seq(Entry) /\ Len(entries) \in Nat
      /\ \A x \in 1 .. start : entries[x] \in Entry
      /\ entries' = SubSeq(entries, 1, start) /\ pc' = "load"
      /\ pc = "load" \/ start = 0
  BY EntryFacts DEF IInv, TypeOK, blocklist_clear
<1>2. Len(entries') = start /\ \A x \in 1 .. start : entries'[x] = entries[x]
  BY <1>1, SubSeqProperties
<1>3. \A x \in 1 .. start : pc = "load" /\ x \in 1 .. Len(entries)
  BY <1>1
<1> QED
  BY <1>1, <1>2, <1>3 DEF LabelInv

(* The first sort moves entry y with its label, and y is what it is the      *)
(* label of from then on.                                                    *)
LEMMA SortLabels ==
  ASSUME IInv, LabelInv, blocklist_sort
  PROVE  LabelInv'
<1> DEFINE n == Len(entries)
<1>1. /\ TypeOK /\ entries \in Seq(Entry) /\ pc = "load" /\ pc' = "merge"
      /\ loaded' = entries /\ entries' \in Sortings(entries)
  BY DEF IInv, TypeOK, blocklist_sort
<1>2. PICK p \in Reorderings(n) : \A x \in 1 .. n : entries'[x] = entries[p[x]]
  BY <1>1, SortingIsReordering
<1>3. Len(entries') = n
  BY <1>1, SortingIsReordering
<1>4. ASSUME NEW x \in 1 .. n
      PROVE  Honest(entries[x].name, entries[x].ip_min, entries[x].ip_max)'
  <2>1. p[x] \in 1 .. n
    BY DEF Reorderings
  <2>2. /\ entries'[x] = entries[p[x]] /\ entries[p[x]].name = {p[x]}
        /\ entries[p[x]].ip_min \in Nat /\ entries[p[x]].ip_max \in Nat
    BY <1>1, <1>2, <2>1, EntryFacts DEF LabelInv
  <2> QED
    BY <1>1, <2>1, <2>2 DEF Honest
<1> QED
  BY <1>1, <1>2, <1>3, <1>4 DEF LabelInv

(* The group's first entry is extended to ip_max, which it does not exceed.  *)
LEMMA ScannedLabels ==
  ASSUME IInv, LabelInv, MergeScanned
  PROVE  LabelInv'
<1>1. /\ TypeOK /\ entries \in Seq(Entry) /\ pc = "scan" /\ pc' # "load"
      /\ loaded' = loaded /\ i \in 1 .. Len(entries)
      /\ \/ entries' = entries
         \/ entries' = [entries EXCEPT ![i].ip_max = ip_max]
  BY DEF IInv, TypeOK, IndexInv, MergeScanned
<1>2. entries[i].ip_max <= ip_max /\ ip_max \in Nat
  BY <1>1 DEF IInv, GroupInv, TypeOK, Ip
<1>3. /\ Len(entries') = Len(entries)
      /\ \A x \in 1 .. Len(entries) :
           /\ entries'[x].name = entries[x].name
           /\ entries'[x].ip_min = entries[x].ip_min
           /\ \/ entries'[x].ip_max = entries[x].ip_max
              \/ x = i /\ entries'[x].ip_max = ip_max
  <2>1. CASE entries' = entries
    BY <2>1
  <2>2. CASE entries' = [entries EXCEPT ![i].ip_max = ip_max]
    <3> DEFINE e == [entries[i] EXCEPT !.ip_max = ip_max]
    <3>1. /\ e \in Entry /\ e.ip_min = entries[i].ip_min
          /\ e.name = entries[i].name /\ e.ip_max = ip_max
      BY <1>1, EntryFacts DEF Entry, TypeOK
    <3>2. entries' = [entries EXCEPT ![i] = e]
      BY <2>2
    <3> HIDE DEF e
    <3>3. /\ Len(entries') = Len(entries)
          /\ \A x \in 1 .. Len(entries) :
               entries'[x] = IF x = i THEN e ELSE entries[x]
      BY <1>1, <3>1, <3>2, ExceptSeq
    <3> QED
      BY <3>1, <3>3
  <2> QED
    BY <1>1, <2>1, <2>2
<1>4. ASSUME NEW x \in 1 .. Len(entries), entries[x].name # NULL
      PROVE  Honest(entries'[x].name, entries'[x].ip_min, entries'[x].ip_max)
  <2>1. Honest(entries[x].name, entries[x].ip_min, entries[x].ip_max)
    BY <1>1, <1>4 DEF LabelInv, Live
  <2>2. entries[x].ip_min \in Nat /\ entries[x].ip_max \in Nat
    BY <1>1, EntryFacts
  <2>3. CASE entries'[x].ip_max = entries[x].ip_max
    BY <1>3, <2>1, <2>3
  <2>4. CASE x = i /\ entries'[x].ip_max = ip_max
    <3>1. Honest(entries[i].name, entries[i].ip_min, ip_max)
      BY <1>1, <1>2, <2>1, <2>2, <2>4, HonestWiden
    <3> QED
      BY <1>1, <1>3, <2>4, <3>1
  <2> QED
    BY <1>3, <2>3, <2>4
<1> QED
  BY <1>1, <1>3, <1>4 DEF LabelInv, Live, Honest

(* The label taken over is that of an entry inside the group. *)
LEMMA BlankLabels ==
  ASSUME IInv, LabelInv, MergeBlank
  PROVE  LabelInv'
<1>1. /\ TypeOK /\ entries \in Seq(Entry) /\ pc = "blank" /\ pc' # "load"
      /\ loaded' = loaded /\ k < j
      /\ i \in 1 .. Len(entries) /\ k \in i + 1 .. j /\ j \in i + 1 .. Len(entries) + 1
      /\ Live(i)
  BY DEF IInv, TypeOK, IndexInv, MergeBlank
<1>2. k \in 1 .. Len(entries) /\ k # i /\ k \in k .. j - 1
  BY <1>1, EntryFacts
<1>3. CASE entries' = entries
  BY <1>1, <1>3 DEF LabelInv, Live, Honest
<1>4. CASE Live(k)
  <2> DEFINE own == entries[i].name
             lo1 == entries[i].ip_min
             hi1 == entries[i].ip_max
  <2>1. PICK label \in {{}, entries[k].name} :
          entries' = [entries EXCEPT ![i].name = @ \cup label, ![k] = Blanked]
    BY <1>4 DEF MergeBlank, Live
  <2>2. /\ lo1 \in Nat /\ hi1 \in Nat
        /\ entries[k].ip_min \in Nat /\ entries[k].ip_max \in Nat
    BY <1>1, <1>2, EntryFacts
  <2>3. lo1 <= entries[k].ip_min /\ entries[k].ip_max <= hi1
    BY <1>1, <1>2 DEF IInv, GroupInv
  <2>4. Honest(own, lo1, hi1)
    BY <1>1 DEF LabelInv
  <2>5. Honest(entries[k].name, lo1, hi1)
    <3>1. Honest(entries[k].name, entries[k].ip_min, entries[k].ip_max)
      BY <1>1, <1>2, <1>4 DEF LabelInv
    <3> QED
      BY <1>1, <2>2, <2>3, <3>1, HonestWiden
  <2>6. Honest(own \cup label, lo1, hi1)
    <3>1. CASE label = {}
      BY <2>4, <3>1 DEF Honest
    <3>2. CASE label = entries[k].name
      BY <2>4, <2>5, <3>2, HonestUnion
    <3> QED
      BY <3>1, <3>2
  <2>7. /\ Len(entries') = Len(entries)
        /\ entries'[k].name = NULL
        /\ entries'[i].name = own \cup label
        /\ entries'[i].ip_min = lo1 /\ entries'[i].ip_max = hi1
        /\ \A x \in 1 .. Len(entries) : x # k /\ x # i => entries'[x] = entries[x]
    <3>1. entries[i] \in Entry /\ DOMAIN entries = 1 .. Len(entries)
      BY <1>1, EntryFacts
    <3> QED
      BY <1>1, <1>2, <2>1, <3>1 DEF Entry, Blanked
  <2>8. ASSUME NEW x \in 1 .. Len(entries), entries'[x].name # NULL
        PROVE  Honest(entries'[x].name, entries'[x].ip_min, entries'[x].ip_max)
    <3>1. CASE x = i
      BY <2>6, <2>7, <3>1
    <3>2. CASE x # i
      <4>1. x # k /\ entries'[x] = entries[x] /\ Live(x)
        BY <2>7, <2>8, <3>2 DEF Live
      <4> QED
        BY <1>1, <4>1 DEF LabelInv
    <3> QED
      BY <3>1, <3>2
  <2> QED
    BY <1>1, <2>7, <2>8 DEF LabelInv, Live, Honest
<1> QED
  BY <1>3, <1>4 DEF MergeBlank, Live

(* The second sort moves whole entries, and the cut only takes some away. *)
LEMMA EndLabels ==
  ASSUME IInv, LabelInv, MergeEnd
  PROVE  LabelInv'
<1> DEFINE n == Len(entries)
<1>1. /\ TypeOK /\ entries \in Seq(Entry) /\ n \in Nat
      /\ pc = "visit" /\ pc' # "load" /\ loaded' = loaded
      /\ merged \in 0 .. MaxEntries /\ merged <= n
  <2>1. /\ TypeOK /\ IndexInv /\ entries \in Seq(Entry) /\ n \in Nat
        /\ pc = "visit" /\ pc' # "load" /\ loaded' = loaded
        /\ merged \in 0 .. MaxEntries
    BY EntryFacts DEF IInv, TypeOK, MergeEnd
  <2>2. merged <= i - 1 /\ i \in 1 .. n + 1
    BY <2>1 DEF IndexInv, Passing, Frontier
  <2> QED
    BY <2>1, <2>2
<1>2. CASE entries' = entries
  BY <1>1, <1>2 DEF LabelInv, Live, Honest
<1>3. ASSUME NEW s \in Sortings(entries), entries' = SubSeq(s, 1, Len(s) - merged)
      PROVE  LabelInv'
  <2>1. s \in Seq(Entry) /\ Len(s) = n
    BY <1>1, SortingIsReordering
  <2>2. PICK p \in Reorderings(n) : \A x \in 1 .. n : s[x] = entries[p[x]]
    BY <1>1, SortingIsReordering
  <2> DEFINE c == n - merged
  <2>3. c \in 0 .. n
    BY <1>1
  <2>4. Len(entries') = c /\ \A x \in 1 .. c : x \in 1 .. n /\ entries'[x] = s[x]
    <3>1. \A x \in 1 .. c : x \in 1 .. n /\ s[x] \in Entry
      BY <1>1, <2>1, <2>3, SeqElements
    <3> QED
      BY <1>1, <1>3, <2>1, <2>3, <3>1, SubSeqProperties
  <2> HIDE DEF c
  <2>5. ASSUME NEW x \in 1 .. c, entries'[x].name # NULL
        PROVE  Honest(entries'[x].name, entries'[x].ip_min, entries'[x].ip_max)
    <3>1. p[x] \in 1 .. n /\ entries'[x] = entries[p[x]]
      BY <2>2, <2>4 DEF Reorderings
    <3> QED
      BY <1>1, <2>5, <3>1 DEF LabelInv, Live
  <2> QED
    BY <1>1, <2>4, <2>5 DEF LabelInv, Live, Honest
<1> QED
  BY <1>2, <1>3 DEF MergeEnd

(* Every step keeps the names honest. *)
LEMMA NextLabels == IInv /\ LabelInv /\ [Next]_vars => LabelInv'
<1> SUFFICES ASSUME IInv, LabelInv, [Next]_vars PROVE LabelInv'
  OBVIOUS
<1>1. ASSUME NEW r \in Ranges, blocklist_append(r) PROVE LabelInv'
  BY <1>1, AppendLabels
<1>2. ASSUME NEW start \in 0 .. Len(entries), blocklist_clear(start) PROVE LabelInv'
  BY <1>2, ClearLabels
<1>3. CASE blocklist_sort
  BY <1>3, SortLabels
<1>4. CASE MergeBegin \/ MergeVisit \/ MergeSaturate \/ MergeExtend
           \/ MergeBlanked \/ MergeTally
  <2>1. UNCHANGED <<entries, loaded>> /\ pc # "load" /\ pc' # "load"
    BY <1>4 DEF MergeBegin, MergeVisit, MergeSaturate, MergeExtend, MergeBlanked,
                MergeTally
  <2> QED
    BY <2>1, LabelFrame
<1>5. CASE MergeScanned
  BY <1>5, ScannedLabels
<1>6. CASE MergeBlank
  BY <1>6, BlankLabels
<1>7. CASE MergeEnd
  BY <1>7, EndLabels
<1>8. CASE Find \/ \E ip \in Ip : FindBegin(ip)
  <2>1. UNCHANGED <<entries, loaded>> /\ pc # "load" /\ pc' # "load"
    BY <1>8 DEF Find, FindBegin, FindStep, FindMiss, FindReturn
  <2> QED
    BY <2>1, LabelFrame
<1>9. CASE Respawn
  BY <1>9 DEF Respawn, LabelInv
<1>10. CASE UNCHANGED vars
  BY <1>10, LabelFrame DEF vars
<1> QED
  BY <1>1, <1>2, <1>3, <1>4, <1>5, <1>6, <1>7, <1>8, <1>9, <1>10 DEF Next, Merge

(* A hit is logged with the labels of loaded ranges that lie inside the      *)
(* entry that was hit, and with at least one, however often the list was     *)
(* sorted, merged and cut.                                                   *)
THEOREM LabelsTheorem == Spec => []LabelsHonest
<1>1. Init => LabelInv
  BY DEF Init, blocklist_init, LabelInv
<1>2. IInv /\ LabelInv /\ [Next]_vars => LabelInv'
  BY NextLabels
<1>3. IInv /\ LabelInv => LabelsHonest
  <2> SUFFICES ASSUME IInv, LabelInv, InUse, NEW x \in 1 .. Len(entries)
               PROVE  /\ entries[x].name \notin {{}, NULL}
                      /\ \A n \in entries[x].name :
                           /\ entries[x].ip_min <= loaded[n].ip_min
                           /\ loaded[n].ip_max <= entries[x].ip_max
    BY DEF LabelsHonest
  <2>1. Live(x) /\ pc # "load"
    BY DEF IInv, BlankInv, InUse
  <2> QED
    BY <2>1 DEF LabelInv, Honest, Live
<1> QED
  BY <1>1, <1>2, <1>3, Invariance, PTL DEF Spec

=============================================================================
