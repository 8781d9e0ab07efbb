------------------------------ MODULE Blocklist ------------------------------
(***************************************************************************)
(* The in-memory blocklist of pgld (src/pgld/src/blocklist.c): ranges are  *)
(* appended while the list files are read, then sorted and merged once,    *)
(* and afterwards searched for every packet.                               *)
(*                                                                         *)
(* The merge is modelled one loop iteration at a time because its          *)
(* correctness lives there: a merged entry is not removed but overwritten  *)
(* with the range MaxIp-MaxIp and a NULL name, a second sort is trusted to *)
(* move it to the end, and the end is cut off.                             *)
(*                                                                         *)
(* C indices 0..count-1 are 1..Len(entries) here, so blocklist.count is    *)
(* Len(entries).  The text of a name is abstracted to the set of loaded    *)
(* ranges whose label it contains.                                         *)
(***************************************************************************)
EXTENDS Integers, Sequences, FiniteSets

CONSTANTS
  MaxIp,       (* 255.255.255.255, and the largest value of a uint32_t      *)
  Ranges,      (* the pairs <<ip_min, ip_max>> the list files may contain   *)
  MaxEntries,  (* bound: the most ranges loaded at once                     *)
  AllocChunk   (* ALLOC_CHUNK                                               *)

ASSUME BlocklistAssumption ==
  /\ MaxIp \in Nat \ {0}
  /\ Ranges \subseteq (0 .. MaxIp) \X (0 .. MaxIp)
  /\ MaxEntries \in Nat
  /\ AllocChunk \in Nat \ {0}

VARIABLES
  entries,     (* blocklist.entries[0 .. count-1]                           *)
  size,        (* blocklist.size, the capacity blocklist_append believes in *)
  alloc,       (* the slots really allocated by the last realloc            *)
  numips,      (* blocklist.numips                                          *)
  loaded,      (* history: the entries as they were before the first sort   *)
  i, j, k,     (* the loop variables of blocklist_merge                     *)
  ip_max,      (* the running maximum of blocklist_merge                    *)
  merged,      (* the entries blanked by the current call of the merge      *)
  key, lo, hi, (* the argument and the bounds of the binary search          *)
  found,       (* the index it returned, 0 for NULL                         *)
  pc           (* where the single thread of the program is                 *)

loopVars   == <<i, j, k, ip_max, merged>>
searchVars == <<key, lo, hi, found>>
heapVars   == <<size, alloc>>
vars == <<entries, heapVars, numips, loaded, loopVars, searchVars, pc>>

-----------------------------------------------------------------------------

Ip == 0 .. MaxIp

(* The name of a blanked entry; the labels of loaded ranges count from 1. *)
NULL == {0}

Covers(e, ip) == e.ip_min <= ip /\ ip <= e.ip_max

Blocks(s, ip) == \E x \in 1 .. Len(s) : Covers(s[x], ip)

Ascending(s) == \A x, y \in 1 .. Len(s) : x < y => s[x].ip_min <= s[y].ip_min

(* The orders qsort may leave n elements in. *)
Reorderings(n) ==
  {p \in [1 .. n -> 1 .. n] :
     /\ \A x, y \in 1 .. n : p[x] = p[y] => x = y
     /\ \A y \in 1 .. n : \E x \in 1 .. n : p[x] = y}

Reorder(s, p) == [x \in 1 .. Len(s) |-> s[p[x]]]

(* qsort with block_entry_compare, which looks at ip_min alone: entries with *)
(* the same ip_min may come out in any order.                                *)
Sortings(s) ==
  {Reorder(s, p) : p \in {q \in Reorderings(Len(s)) : Ascending(Reorder(s, q))}}

-----------------------------------------------------------------------------
blocklist_init ==
  /\ entries = <<>>
  /\ size = 0
  /\ alloc = 0
  /\ numips = 0

Init ==
  /\ blocklist_init
  /\ loaded = <<>>
  /\ i = 0 /\ j = 0 /\ k = 0 /\ ip_max = 0 /\ merged = 0
  /\ key = 0 /\ lo = 0 /\ hi = 0 /\ found = 0
  /\ pc = "load"

(* Broken variant: the array grows one entry too late. *)
FullTooLate == size < Len(entries)

(* The believed capacity is used up. *)
Full == size = Len(entries)

(* One line of a list file.  The array grows by a chunk when it is full, and *)
(* only then.                                                                *)
blocklist_append(r) ==
  /\ pc = "load"
  /\ Len(entries) < MaxEntries
  /\ entries' = Append(entries, [ip_min |-> r[1], ip_max |-> r[2],
                                 name |-> {Len(entries) + 1}])
  /\ IF Full
       THEN size' = size + AllocChunk /\ alloc' = size + AllocChunk
       ELSE UNCHANGED heapVars
  /\ UNCHANGED <<numips, loaded, loopVars, searchVars, pc>>

(* While loading, load_list drops what a file that turned out unreadable has *)
(* appended; once the list is in use, a reload starts by clearing all of it. *)
blocklist_clear(start) ==
  /\ \/ pc = "load"
     \/ pc = "ready" /\ start = 0
  /\ entries' = SubSeq(entries, 1, start)
  /\ size' = start
  /\ alloc' = start
  /\ numips' = IF start = 0 THEN 0 ELSE numips
  /\ loaded' = <<>>
  /\ found' = 0
  /\ pc' = "load"
  /\ UNCHANGED <<loopVars, key, lo, hi>>

blocklist_sort ==
  /\ pc = "load"
  /\ entries' \in Sortings(entries)
  /\ loaded' = entries
  /\ pc' = "merge"
  /\ UNCHANGED <<heapVars, numips, loopVars, searchVars>>

-----------------------------------------------------------------------------
(* blocklist_merge *)

MergeBegin ==
  /\ pc = "merge"
  /\ numips' = 0
  /\ IF entries = <<>>
       THEN pc' = "ready" /\ UNCHANGED loopVars
       ELSE /\ pc' = "visit"
            /\ i' = 1
            /\ UNCHANGED <<j, k, ip_max, merged>>
  /\ UNCHANGED <<entries, heapVars, loaded, searchVars>>

(* The head of the outer loop: strlen of a NULL name ends the process. *)
MergeVisit ==
  /\ pc = "visit"
  /\ i <= Len(entries)
  /\ IF entries[i].name = NULL
       THEN pc' = "crashed" /\ UNCHANGED <<j, ip_max>>
       ELSE /\ pc' = "scan"
            /\ ip_max' = entries[i].ip_max
            /\ j' = i + 1
  /\ UNCHANGED <<entries, heapVars, numips, loaded, i, k, merged, searchVars>>

(* Broken variant: ranges merge across a gap of one address. *)
AdjoinsAcross(x) == ip_max # MaxIp /\ entries[x].ip_min <= ip_max + 2

(* Entry x starts inside the group or right behind it. *)
Adjoins(x) == ip_max # MaxIp /\ entries[x].ip_min <= ip_max + 1

(* Broken variant: the end of the last entry, though one before reaches on. *)
WidenedToLast(x) == entries[x].ip_max

(* The end of the group with entry x in it. *)
Widened(x) == IF entries[x].ip_max > ip_max THEN entries[x].ip_max ELSE ip_max

(* The group reaches the last address: everything behind it belongs to it. *)
MergeSaturate ==
  /\ pc = "scan"
  /\ j <= Len(entries)
  /\ ip_max = MaxIp
  /\ j' = Len(entries) + 1
  /\ UNCHANGED <<entries, heapVars, numips, loaded, i, k, ip_max, merged,
                 searchVars, pc>>

MergeExtend ==
  /\ pc = "scan"
  /\ j <= Len(entries)
  /\ Adjoins(j)
  /\ ip_max' = Widened(j)
  /\ j' = j + 1
  /\ UNCHANGED <<entries, heapVars, numips, loaded, i, k, merged, searchVars, pc>>

MergeScanned ==
  /\ pc = "scan"
  /\ j <= Len(entries) => ip_max # MaxIp /\ ~Adjoins(j)
  /\ IF j > i + 1
       THEN /\ entries' = [entries EXCEPT ![i].ip_max = ip_max]
            /\ k' = i + 1
            /\ pc' = "blank"
       ELSE /\ pc' = "tally"
            /\ UNCHANGED <<entries, k>>
  /\ UNCHANGED <<heapVars, numips, loaded, i, j, ip_max, merged, searchVars>>

(* What is left of a merged entry; it is to sort behind every other one. *)
Blanked == [ip_min |-> MaxIp, ip_max |-> MaxIp, name |-> NULL]

(* The name of the group's first entry takes in the label of entry k unless  *)
(* the text would get too long or is there already.                          *)
MergeBlank ==
  /\ pc = "blank"
  /\ k < j
  /\ IF entries[k].name = NULL
       THEN pc' = "crashed" /\ UNCHANGED <<entries, k, merged>>
       ELSE /\ \E label \in {{}, entries[k].name} :
                 entries' = [entries EXCEPT
                   ![i].name = @ \cup label, ![k] = Blanked]
            /\ k' = k + 1
            /\ merged' = merged + 1
            /\ UNCHANGED pc
  /\ UNCHANGED <<heapVars, numips, loaded, i, j, ip_max, searchVars>>

MergeBlanked ==
  /\ pc = "blank"
  /\ k = j
  /\ i' = j - 1
  /\ pc' = "tally"
  /\ UNCHANGED <<entries, heapVars, numips, loaded, j, k, ip_max, merged, searchVars>>

(* numips is a uint32_t: the sum wraps, the increment does not. *)
Tallied(e) ==
  LET n == (numips + e.ip_max - e.ip_min) % (MaxIp + 1)
  IN  IF n < MaxIp THEN n + 1 ELSE n

MergeTally ==
  /\ pc = "tally"
  /\ numips' = Tallied(entries[i])
  /\ i' = i + 1
  /\ pc' = "visit"
  /\ UNCHANGED <<entries, heapVars, loaded, j, k, ip_max, merged, searchVars>>

(* Broken variant: "merged >= 0", true of every unsigned number. *)
AlwaysMerged == merged >= 0

SomethingMerged == merged # 0

(* The end of the outer loop.  If anything was blanked: sort again, cut off  *)
(* as many entries as were blanked, and merge once more, with new locals.    *)
MergeEnd ==
  /\ pc = "visit"
  /\ i > Len(entries)
  /\ IF SomethingMerged
       THEN /\ \E s \in Sortings(entries) :
                 entries' = SubSeq(s, 1, Len(s) - merged)
            /\ alloc' = Len(entries) - merged
            /\ pc' = "merge"
       ELSE pc' = "ready" /\ UNCHANGED <<entries, alloc>>
  /\ i' = 0 /\ j' = 0 /\ k' = 0 /\ ip_max' = 0 /\ merged' = 0
  /\ UNCHANGED <<size, numips, loaded, searchVars>>

-----------------------------------------------------------------------------
(* blocklist_find: bsearch with block_key_compare. *)

(* Broken variant: the last entry is out of reach. *)
BeyondLastShort == Len(entries)

BeyondLast == Len(entries) + 1

FindBegin(ip) ==
  /\ pc = "ready"
  /\ key' = ip
  /\ lo' = 1
  /\ hi' = BeyondLast
  /\ found' = 0
  /\ pc' = "find"
  /\ UNCHANGED <<entries, heapVars, numips, loaded, loopVars>>

FindStep ==
  LET mid == lo + (hi - lo) \div 2 IN
  /\ pc = "find"
  /\ lo < hi
  /\ \/ /\ key < entries[mid].ip_min
        /\ hi' = mid
        /\ UNCHANGED <<lo, found, pc>>
     \/ /\ key >= entries[mid].ip_min
        /\ key > entries[mid].ip_max
        /\ lo' = mid + 1
        /\ UNCHANGED <<hi, found, pc>>
     \/ /\ Covers(entries[mid], key)
        /\ found' = mid
        /\ pc' = "answered"
        /\ UNCHANGED <<lo, hi>>
  /\ UNCHANGED <<entries, heapVars, numips, loaded, loopVars, key>>

FindMiss ==
  /\ pc = "find"
  /\ lo >= hi
  /\ found' = 0
  /\ pc' = "answered"
  /\ UNCHANGED <<entries, heapVars, numips, loaded, loopVars, key, lo, hi>>

FindReturn ==
  /\ pc = "answered"
  /\ key' = 0 /\ lo' = 0 /\ hi' = 0 /\ found' = 0
  /\ pc' = "ready"
  /\ UNCHANGED <<entries, heapVars, numips, loaded, loopVars>>

-----------------------------------------------------------------------------
(* The process is gone after a crash; the next one starts with Init. *)
Respawn ==
  /\ pc = "crashed"
  /\ entries' = <<>> /\ size' = 0 /\ alloc' = 0 /\ numips' = 0
  /\ loaded' = <<>>
  /\ i' = 0 /\ j' = 0 /\ k' = 0 /\ ip_max' = 0 /\ merged' = 0
  /\ key' = 0 /\ lo' = 0 /\ hi' = 0 /\ found' = 0
  /\ pc' = "load"

Merge ==
  \/ MergeBegin
  \/ MergeVisit
  \/ MergeSaturate
  \/ MergeExtend
  \/ MergeScanned
  \/ MergeBlank
  \/ MergeBlanked
  \/ MergeTally
  \/ MergeEnd

Find ==
  \/ FindStep
  \/ FindMiss
  \/ FindReturn

Next ==
  \/ \E r \in Ranges : blocklist_append(r)
  \/ \E start \in 0 .. Len(entries) : blocklist_clear(start)
  \/ blocklist_sort
  \/ Merge
  \/ \E ip \in Ip : FindBegin(ip)
  \/ Find
  \/ Respawn

Spec == Init /\ [][Next]_vars

(* The merge and the search are loops of one thread: nothing can keep them   *)
(* from their next iteration.                                                *)
FairSpec == Spec /\ WF_vars(Merge) /\ WF_vars(Find)

-----------------------------------------------------------------------------
(* Properties *)

Name == SUBSET (1 .. MaxEntries)

Entry == [ip_min : Ip, ip_max : Ip, name : Name \cup {NULL}]

(* The types of the variables; pc names the loops of the program. *)
TypeOK ==
  /\ entries \in Seq(Entry) /\ Len(entries) <= MaxEntries
  /\ loaded \in Seq(Entry)
  /\ size \in Nat /\ alloc \in Nat
  /\ numips \in Ip /\ ip_max \in Ip
  /\ i \in 0 .. MaxEntries + 1 /\ j \in 0 .. MaxEntries + 1
  /\ k \in 0 .. MaxEntries + 1 /\ merged \in 0 .. MaxEntries
  /\ key \in Ip /\ lo \in 0 .. MaxEntries + 1 /\ hi \in 0 .. MaxEntries + 1
  /\ found \in 0 .. MaxEntries
  /\ pc \in {"load", "merge", "visit", "scan", "blank", "tally",
             "ready", "find", "answered", "crashed"}

(* The list is in use: packets are looked up in it. *)
InUse == pc \in {"ready", "find", "answered"}

(* Sorting and merging neither add nor lose an address: what the merged list *)
(* blocks is exactly what the loaded ranges block.                           *)
CoverageExact ==
  InUse => \A ip \in Ip : Blocks(entries, ip) <=> Blocks(loaded, ip)

(* The merged list is what the binary search needs: in order, and with a gap *)
(* between any two ranges.                                                   *)
Separated ==
  InUse => \A x, y \in 1 .. Len(entries) :
             x < y => entries[x].ip_max + 1 < entries[y].ip_min

(* blocklist_find returns an entry if and only if a loaded range holds the   *)
(* address, and then the entry holds it too.                                 *)
FindExact ==
  pc = "answered" =>
    /\ found # 0 <=> Blocks(loaded, key)
    /\ found # 0 => Covers(entries[found], key)

(* blocklist_append, which trusts blocklist.size, never writes past the end  *)
(* of the allocated array, even though the merge shrinks the allocation      *)
(* without telling blocklist.size.                                           *)
WithinAllocation == Len(entries) <= alloc

(* The label a hit is logged with: every label in an entry's name is that of *)
(* a loaded range inside the entry, and there is at least one.               *)
LabelsHonest ==
  InUse => \A x \in 1 .. Len(entries) :
    /\ entries[x].name \notin {{}, NULL}
    /\ \A n \in entries[x].name :
         /\ entries[x].ip_min <= loaded[n].ip_min
         /\ loaded[n].ip_max <= entries[x].ip_max

(* The one input that makes the merge touch a NULL name is a range beginning *)
(* at 255.255.255.255, where blanked and real entries sort alike.            *)
CrashNeedsLastAddress ==
  pc = "crashed" => \E x \in 1 .. Len(loaded) : loaded[x].ip_min = MaxIp

(* The merge calls itself until nothing was merged, and the search halves    *)
(* its interval: both come to an end.                                        *)
Terminates ==
  /\ pc = "merge" ~> pc \in {"ready", "crashed"}
  /\ pc = "find" ~> pc = "answered"

-----------------------------------------------------------------------------
(* The inductive invariant behind the safety properties. *)

Passing == pc \in {"merge", "visit", "scan", "blank", "tally"}

Live(x) == entries[x].name # NULL

LiveBlocks(ip) == \E x \in 1 .. Len(entries) : Live(x) /\ Covers(entries[x], ip)

(* How far the current pass has got: what lies beyond is as the last sort    *)
(* left it.  Outside a pass i is 0.                                          *)
Frontier == IF pc = "blank" THEN k - 1 ELSE IF pc = "tally" THEN i ELSE i - 1

BlankedTo(n) == {x \in 1 .. Len(entries) : x <= n /\ ~Live(x)}

LastAddressLoaded == \E y \in 1 .. Len(loaded) : loaded[y].ip_min = MaxIp

(* There is a gap behind every entry of the sorted list up to n. *)
GapsTo(n) ==
  \A x, y \in 1 .. Len(entries) :
    x <= n /\ y = x + 1 => entries[x].ip_max + 1 < entries[y].ip_min

HeapInv == Len(entries) <= alloc /\ (pc = "load" => size = alloc)

IndexInv ==
  /\ ~Passing /\ pc # "crashed" => i = 0 /\ merged = 0
  /\ pc = "merge" => i = 0 /\ merged = 0
  /\ pc = "visit" => i \in 1 .. Len(entries) + 1
  /\ pc \in {"scan", "blank"} =>
       /\ i \in 1 .. Len(entries)
       /\ j \in i + 1 .. Len(entries) + 1
       /\ Live(i)
  /\ pc = "blank" =>
       /\ j > i + 1
       /\ k \in i + 1 .. j
       /\ merged >= k - (i + 1)
  /\ pc = "tally" => i \in 1 .. Len(entries)
  /\ Passing /\ pc # "merge" => merged <= Frontier

(* Blanked entries are where the second sort will push them, and the ones    *)
(* of this pass are counted by merged; one left over from an earlier pass    *)
(* means that a loaded range began at the last address.                      *)
BlankInv ==
  /\ \A x \in 1 .. Len(entries) : ~Live(x) => entries[x].ip_min = MaxIp
  /\ Passing => Cardinality(BlankedTo(Frontier)) = merged
  /\ Passing => \A x \in 1 .. Len(entries) :
                  x > Frontier /\ ~Live(x) => LastAddressLoaded
  /\ pc = "crashed" => LastAddressLoaded
  /\ pc = "load" \/ InUse => \A x \in 1 .. Len(entries) : Live(x)
  /\ pc # "load" => \A x \in 1 .. Len(entries) : Live(x) =>
       \E y \in 1 .. Len(loaded) : loaded[y].ip_min = entries[x].ip_min

OrderInv ==
  /\ Passing => \A x, y \in 1 .. Len(entries) :
                  Frontier < x /\ x < y => entries[x].ip_min <= entries[y].ip_min
  /\ Passing /\ pc # "blank" /\ merged = 0 => Ascending(entries) /\ GapsTo(Frontier)
  /\ InUse => Ascending(entries) /\ GapsTo(Len(entries))

(* Entries i .. j-1 form one group that reaches up to ip_max without a hole. *)
GroupInv ==
  /\ pc = "scan" =>
       /\ j = i + 1 => ip_max = entries[i].ip_max
       /\ entries[i].ip_max <= ip_max
       /\ \A x \in i .. j - 1 : entries[x].ip_max <= ip_max
       /\ \A ip \in Ip : entries[i].ip_min <= ip /\ ip <= ip_max =>
            \E x \in i .. j - 1 : Covers(entries[x], ip)
  /\ pc = "blank" =>
       /\ entries[i].ip_max = ip_max
       /\ \A x \in k .. j - 1 : /\ entries[i].ip_min <= entries[x].ip_min
                                /\ entries[x].ip_max <= ip_max

CoverInv ==
  /\ Passing /\ (\A x \in 1 .. Len(entries) : x > Frontier => Live(x)) =>
       \A ip \in Ip : LiveBlocks(ip) <=> Blocks(loaded, ip)
  /\ InUse => \A ip \in Ip : LiveBlocks(ip) <=> Blocks(loaded, ip)

SearchInv ==
  /\ pc = "find" =>
       /\ lo \in 1 .. Len(entries) + 1
       /\ hi \in 1 .. Len(entries) + 1
       /\ \A x \in 1 .. Len(entries) :
            x < lo \/ x >= hi => ~Covers(entries[x], key)
  /\ pc = "answered" =>
       /\ found # 0 => found \in 1 .. Len(entries) /\ Covers(entries[found], key)
       /\ found = 0 => \A x \in 1 .. Len(entries) : ~Covers(entries[x], key)

IInv ==
  /\ TypeOK
  /\ HeapInv
  /\ IndexInv
  /\ BlankInv
  /\ OrderInv
  /\ GroupInv
  /\ CoverInv
  /\ SearchInv

=============================================================================
