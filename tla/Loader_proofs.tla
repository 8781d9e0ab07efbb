----------------------------- MODULE Loader_proofs -----------------------------
(***************************************************************************)
(* The parser drives the blocklist only through its operations: every      *)
(* behaviour of Loader is one of Blocklist, so what Blocklist_proofs shows *)
(* of the blocklist holds of the list pgld loads, reloads and rolls back.  *)
(* It reads its files through the stream, line by line as LineReader says. *)
(*                                                                         *)
(* What the list then holds follows from an invariant of the load: while a *)
(* file is read, the entries are the ranges of the files before it and of  *)
(* the lines taken so far, and LinesOf the text is these lines and the     *)
(* lines of what is left.                                                  *)
(***************************************************************************)
EXTENDS Loader, Blocklist_proofs, WellFoundedInduction

-----------------------------------------------------------------------------
(* The stream keeps the promise of LineReader: what it hands out does not    *)
(* depend on how the decompressed bytes fall into stream->out.               *)

(* Once the decompression has ended, all that is left is in stream->out;     *)
(* a closed stream holds nothing.                                            *)
StreamInv ==
  /\ opened \in BOOLEAN /\ compressed \in BOOLEAN /\ eos \in BOOLEAN
  /\ data \in Seq(Bytes)
  /\ avail \in 0 .. Len(data)
  /\ avail <= Chunk
  /\ compressed /\ eos => avail = Len(data)
  /\ ~compressed => avail = 0
  /\ ~opened => data = <<>>
  /\ buf \in Line

(* NULL is a line as far as the type goes. *)
LEMMA NullIsLine == <<>> \in Line
<1>1. <<>> \in [1 .. 0 -> Bytes] /\ 0 \in 0 .. MaxLine - 1
  BY StreamAssumption
<1> QED
  BY <1>1 DEF Line

(* A stream starts closed. *)
LEMMA StreamInitInv == StreamInit => StreamInv /\ Reader!Init
<1>1. /\ <<>> \in Seq(Bytes) /\ Len(<<>>) = 0
      /\ 0 \in 0 .. 0 /\ 0 <= Chunk
  BY StreamAssumption
<1> QED
  BY <1>1, NullIsLine DEF StreamInit, StreamInv, Reader!Init

(* Opening a closed stream and closing an open one. *)
LEMMA StreamOpenInv ==
  ASSUME StreamInv, ~opened, NEW gz \in BOOLEAN, NEW text \in Seq(Bytes),
         stream_open(gz, text)
  PROVE  StreamInv' /\ Reader!Open
<1>1. 0 \in 0 .. Len(text) /\ 0 <= Chunk
  BY StreamAssumption
<1>2. /\ opened' = TRUE /\ compressed' = gz /\ eos' = FALSE /\ data' = text
      /\ avail' = 0 /\ buf' = buf
  BY DEF stream_open
<1> QED
  BY <1>1, <1>2 DEF StreamInv, Reader!Open, Line

(* A closed stream holds nothing.                                            *)
LEMMA StreamCloseInv ==
  ASSUME StreamInv, opened, stream_close
  PROVE  StreamInv' /\ Reader!Close
<1>1. /\ <<>> \in Seq(Bytes) /\ Len(<<>>) = 0
      /\ 0 \in 0 .. 0 /\ 0 <= Chunk
  BY StreamAssumption
<1>2. /\ opened' = FALSE /\ data' = <<>> /\ avail' = 0
      /\ compressed' = compressed /\ eos' = eos /\ buf' = buf
  BY DEF stream_close
<1> QED
  BY <1>1, <1>2 DEF StreamInv, Reader!Close, Line

(* A line cut off the data is short enough for the buffer, and what is left  *)
(* is the data without it.                                                   *)
LEMMA CutLineFacts ==
  ASSUME data \in Seq(Bytes), NEW n \in 1 .. Len(data), n < MaxLine, CutLine(n)
  PROVE  /\ buf' \in Line /\ data' \in Seq(Bytes)
         /\ Len(data') = Len(data) - n
<1>1. buf' \in [1 .. n -> Bytes]
  <2>1. \A m \in 1 .. n : data[m] \in Bytes
    OBVIOUS
  <2>2. buf' \in Seq(Bytes) /\ Len(buf') = n
    BY <2>1, SubSeqProperties DEF CutLine
  <2> QED
    BY <2>2, LenProperties
<1>2. n \in 0 .. MaxLine - 1
  BY StreamAssumption
<1>3. data' \in Seq(Bytes) /\ Len(data') = Len(data) - n
  BY SubSeqProperties DEF CutLine
<1> QED
  BY <1>1, <1>2, <1>3 DEF Line

(* The n bytes that are copied are the first complete line of the data, as   *)
(* long as the bytes among which it was looked for are all of it or more     *)
(* than a line can hold.                                                     *)
LEMMA CopiesFirstLine ==
  ASSUME data \in Seq(Bytes), opened, UNCHANGED opened,
         NEW got \in 0 .. Len(data), NEW end \in BOOLEAN, end => got = Len(data),
         NEW n \in 1 .. got, Copies(n, got, end), CutLine(n)
  PROVE  Reader!ReadLine
<1>1. n \in 1 .. Len(data)
  OBVIOUS
<1>2. Reader!Complete(n)
  BY DEF Copies, Reader!Complete
<1>3. \A m \in 1 .. n - 1 : ~Reader!Complete(m)
  BY StreamAssumption DEF Copies, NoLF, Reader!Complete
<1> QED
  BY <1>1, <1>2, <1>3 DEF Reader!ReadLine, CutLine

(* Each call of stream_getline reads the next line, or finds the end of the  *)
(* text.                                                                     *)
LEMMA StreamGetlineInv ==
  ASSUME StreamInv, opened, stream_getline
  PROVE  StreamInv' /\ (Reader!ReadLine \/ Reader!ReadEnd)
<1>1. data \in Seq(Bytes) /\ Len(data) \in Nat /\ UNCHANGED <<opened, compressed>>
  BY DEF StreamInv, stream_getline
<1>2. CASE compressed /\ InflateLine
  <2>1. PICK got \in 0 .. Chunk, end \in BOOLEAN :
          /\ Fills(got, end)
          /\ eos' = end
          /\ \/ \E n \in 1 .. got : Copies(n, got, end) /\ CutLine(n) /\ avail' = got - n
             \/ NoCopy(got, end) /\ buf' = <<>> /\ data' = data /\ avail' = got
    BY <1>2 DEF InflateLine
  <2>2. /\ got \in 0 .. Len(data) /\ (end => got = Len(data))
        /\ (got < Chunk => end)
    BY <1>1, <1>2, <2>1, StreamAssumption DEF Fills, Least, StreamInv
  <2>3. CASE \E n \in 1 .. got : Copies(n, got, end) /\ CutLine(n) /\ avail' = got - n
    <3>1. PICK n \in 1 .. got : Copies(n, got, end) /\ CutLine(n) /\ avail' = got - n
      BY <2>3
    <3>2. Reader!ReadLine
      BY <1>1, <2>2, <3>1, CopiesFirstLine
    <3>3. n \in 1 .. Len(data) /\ n < MaxLine
      BY <2>2, <3>1 DEF Copies
    <3>4. /\ buf' \in Line /\ data' \in Seq(Bytes)
          /\ Len(data') = Len(data) - n
      BY <1>1, <3>1, <3>3, CutLineFacts
    <3>5. avail' \in 0 .. Len(data') /\ avail' <= Chunk /\ (end => avail' = Len(data'))
      BY <1>1, <2>1, <2>2, <3>1, <3>4, StreamAssumption
    <3> QED
      BY <1>1, <1>2, <2>1, <3>2, <3>4, <3>5 DEF StreamInv
  <2>4. CASE NoCopy(got, end) /\ buf' = <<>> /\ data' = data /\ avail' = got
    <3>1. got = 0 /\ got = Len(data)
      BY <2>2, <2>4, StreamAssumption DEF NoCopy
    <3>2. data = <<>>
      BY <1>1, <3>1
    <3> QED
      BY <1>1, <2>1, <2>4, <3>1, <3>2, NullIsLine, StreamAssumption
      DEF StreamInv, Reader!ReadEnd
  <2> QED
    BY <2>1, <2>3, <2>4
<1>3. CASE ~compressed /\ PlainLine
  <2>1. UNCHANGED <<eos, avail>>
    BY <1>3 DEF PlainLine
  <2>2. CASE \E n \in 1 .. Len(data) : Copies(n, Len(data), TRUE) /\ CutLine(n)
    <3>1. PICK n \in 1 .. Len(data) : Copies(n, Len(data), TRUE) /\ CutLine(n)
      BY <2>2
    <3>2. Reader!ReadLine
      <4>1. Len(data) \in 0 .. Len(data)
        BY <1>1
      <4>2. Copies(n, Len(data), TRUE) /\ CutLine(n)
        BY <3>1
      <4> QED
        BY <1>1, <4>1, <4>2, CopiesFirstLine
    <3>3. n < MaxLine
      BY <3>1 DEF Copies
    <3>4. buf' \in Line /\ data' \in Seq(Bytes) /\ Len(data') = Len(data) - n
      BY <1>1, <3>1, <3>3, CutLineFacts
    <3> QED
      BY <1>1, <1>3, <2>1, <3>2, <3>4 DEF StreamInv
  <2>3. CASE data = <<>> /\ buf' = <<>> /\ data' = data
    BY <1>1, <1>3, <2>1, <2>3, NullIsLine DEF StreamInv, Reader!ReadEnd
  <2> QED
    BY <1>3, <2>2, <2>3 DEF PlainLine
<1> QED
  BY <1>2, <1>3 DEF stream_getline

-----------------------------------------------------------------------------
(* The parser *)

USE LoaderAssumption

(* The rollback point is inside the list, and what is left to read of a P2B  *)
(* is made of ranges; the stream is open while the file is read as text.     *)
ParseInv ==
  /\ step \in {"ascii", "line", "header", "binary"} =>
       /\ Current \in Content
       /\ prevcount \in 0 .. Len(entries)
  /\ step = "binary" => rest \in Seq(Ranges)
  /\ StreamInv
  /\ opened <=> step \in {"ascii", "line"}

(* The files, the master list among them, are what list files may be. *)
FilesInv ==
  /\ blockfiles \in Seq(SUBSET Content)
  /\ files \in Seq(Content)
  /\ master \in Seq(Bytes)
  /\ written \in Nat

LoaderInv == FilesInv /\ ParseInv

(* The loader starts with an empty list and with no file open. *)
LEMMA LoaderInit_Inv == LoaderInit => Init /\ LoaderInv /\ Reader!Init
<1>1. LoaderInit => Init /\ StreamInv /\ Reader!Init
  BY StreamInitInv DEF LoaderInit
<1>2. LoaderInit => /\ ~opened /\ step = "idle" /\ master \in Seq(Bytes)
                    /\ files \in Seq(Content) /\ written \in Nat
  BY DEF LoaderInit, StreamInit
<1>3. LoaderInit => blockfiles \in Seq(SUBSET Content)
  <2>1. \A n \in Nat : [x \in 1 .. n |-> Contents] \in Seq(SUBSET Content)
    OBVIOUS
  <2> QED
    BY <2>1 DEF LoaderInit
<1> QED
  BY <1>1, <1>2, <1>3 DEF LoaderInv, FilesInv, ParseInv

(* A stream that is left alone stays what it is. *)
LEMMA StreamStays ==
  ASSUME StreamInv, UNCHANGED streamVars
  PROVE  StreamInv' /\ opened' = opened /\ UNCHANGED Reader!readerVars
BY DEF StreamInv, streamVars, Line, Reader!readerVars

(* The next range of a file that is being read. *)
LEMMA NextRange ==
  ASSUME NEW S, NEW s \in Seq(S), s # <<>>
  PROVE  Head(s) \in S /\ Tail(s) \in Seq(S)
BY HeadTailProperties

(* A range that is no NoRange is one of Ranges. *)
LEMMA OtherThanNoRange ==
  ASSUME NEW r \in Ranges \cup {NoRange}, r # NoRange
  PROVE  r \in Ranges
OBVIOUS

(* An append makes the list longer. *)
LEMMA AppendGrows ==
  ASSUME TypeOK, NEW r \in Ranges, blocklist_append(r)
  PROVE  Len(entries) \in Nat /\ Len(entries') = Len(entries) + 1
<1> DEFINE e == [ip_min |-> r[1], ip_max |-> r[2], name |-> {Len(entries) + 1}]
<1>1. entries' = Append(entries, e)
  BY DEF blocklist_append
<1> HIDE DEF e
<1>2. entries \in Seq(Entry \cup {e})
  <2>1. entries \in Seq(Entry)
    BY DEF TypeOK
  <2> QED
    BY <2>1
<1>3. Len(entries') = Len(entries) + 1
  BY <1>1, <1>2, AppendProperties
<1> QED
  BY <1>3, EntryFacts

(* A rollback leaves as many entries as it is told to. *)
LEMMA ClearShortens ==
  ASSUME TypeOK, NEW n \in 0 .. Len(entries), blocklist_clear(n)
  PROVE  Len(entries') = n
<1>1. \A x \in 1 .. n : entries[x] \in Entry
  BY EntryFacts
<1> QED
  BY <1>1, EntryFacts, SubSeqProperties DEF blocklist_clear

(* A file that is opened is what a list file may be. *)
LEMMA OpenedIsContent ==
  ASSUME blockfiles \in Seq(SUBSET Content), files \in Seq(Content),
         Len(files) < FilesToLoad,
         NEW c \in IF Stdin THEN {d \in Contents : Piped(d)}
                          ELSE blockfiles[Len(files) + 1]
  PROVE  c \in Content
<1>1. CASE Stdin
  BY <1>1
<1>2. CASE ~Stdin
  <2>1. Len(files) + 1 \in 1 .. Len(blockfiles)
    BY <1>2 DEF FilesToLoad
  <2>2. blockfiles[Len(files) + 1] \in SUBSET Content
    BY <2>1
  <2> QED
    BY <1>2, <2>2
<1> QED
  BY <1>1, <1>2

(* There is a number of files to load. *)
LEMMA FilesToLoadIsNat ==
  ASSUME NEW b \in Seq(SUBSET Content)
  PROVE  (IF b = <<>> THEN 1 ELSE Len(b)) \in Nat
OBVIOUS

(* What is printed makes a text that a list file may hold. *)
LEMMA PrintedIsText ==
  ASSUME TypeOK, master \in Seq(Bytes), written \in Nat, ToDump
  PROVE  master \o DumpLine(entries[written + 1]) \in Seq(Bytes)
<1> DEFINE e == entries[written + 1]
<1>1. e.ip_min \in Ip /\ e.ip_max \in Ip
  <2>1. e \in Entry
    BY EntryFacts DEF ToDump
  <2> QED
    BY <2>1 DEF Entry
<1>2. DumpLine(e) \in Line
  <2>1. <<<<e.ip_min, e.ip_max>>, HasLabel(e)>> \in (Ip \X Ip) \X BOOLEAN
    BY <1>1 DEF HasLabel
  <2> QED
    BY <2>1, DumpAssumption DEF DumpLine
<1> HIDE DEF e
<1>3. DumpLine(e) \in Seq(Bytes)
  BY <1>2 DEF Line
<1> QED
  BY <1>3, ConcatProperties DEF e

(* No step of the loader makes anything else of the files. *)
LEMMA FilesStep ==
  ASSUME TypeOK, FilesInv, [LoaderNext]_allVars
  PROVE  FilesInv'
<1> USE DEF FilesInv
<1>1. CASE AsciiOpen
  <2>1. PICK c \in IF Stdin THEN {d \in Contents : Piped(d)}
                             ELSE blockfiles[Len(files) + 1] :
          files' = Append(files, c)
    BY <1>1 DEF AsciiOpen
  <2>2. c \in Content
    BY <1>1, <2>1, OpenedIsContent DEF AsciiOpen
  <2>3. files' \in Seq(Content)
    BY <2>1, <2>2, AppendProperties
  <2> QED
    BY <1>1, <2>3 DEF AsciiOpen, premergeVars
<1>2. CASE blocklist_dump
  <2>1. master' \in Seq(Bytes)
    BY <1>2, PrintedIsText DEF blocklist_dump
  <2> QED
    BY <1>2, <2>1 DEF blocklist_dump, fileVars
<1>3. CASE StartDaemon
  <2>1. Listing(master) \in Content
    BY DEF Listing, Content
  <2>2. <<{Listing(master)}>> \in Seq(SUBSET Content)
    BY <2>1
  <2> QED
    BY <1>3, <2>2 DEF StartDaemon
<1>4. CASE DumpBegin
  <2>1. /\ blockfiles' = blockfiles /\ files' = files
        /\ master' = <<>> /\ written' = 0
    BY <1>4 DEF DumpBegin, fileVars
  <2>2. <<>> \in Seq(Bytes) /\ 0 \in Nat
    OBVIOUS
  <2> QED
    BY <2>1, <2>2
<1>5. CASE LoadAllBegin \/ LoaderRespawn
  <2>1. /\ blockfiles' = blockfiles /\ files' = <<>>
        /\ master' = master /\ written' = written
    BY <1>5 DEF LoadAllBegin, LoaderRespawn, premergeVars
  <2>2. <<>> \in Seq(Content)
    OBVIOUS
  <2> QED
    BY <2>1, <2>2
<1>6. CASE \/ AsciiRead \/ AsciiLine \/ AsciiAccept \/ AsciiReject
           \/ BinaryHeader \/ BinaryRange \/ BinaryEnd \/ LoadAllSort
           \/ LoadAllMerge \/ LoadAllEnd \/ DumpEnd \/ UNCHANGED allVars
  <2>1. UNCHANGED <<blockfiles, files, master, written>>
    BY <1>6 DEF AsciiRead, AsciiLine, AsciiAccept, AsciiReject, BinaryHeader,
       BinaryRange, BinaryEnd, LoadAllSort, LoadAllMerge, LoadAllEnd, DumpEnd,
       allVars, loaderVars, premergeVars, fileVars
  <2> QED
    BY <2>1
<1> QED
  BY <1>1, <1>2, <1>3, <1>4, <1>5, <1>6 DEF LoaderNext, LoadSteps

(* Every step of the parser is a step of the blocklist or leaves it alone,   *)
(* a step of the line reader or leaves it alone, and it keeps the rollback   *)
(* point inside the list.                                                    *)
LEMMA LoaderStep ==
  ASSUME IInv, LoaderInv, [LoaderNext]_allVars
  PROVE  [Next]_vars /\ LoaderInv' /\ [Reader!Next]_Reader!readerVars
<1>0. /\ TypeOK /\ Len(entries) \in Nat
      /\ ParseInv /\ StreamInv /\ FilesInv /\ FilesInv'
  BY EntryFacts, FilesStep DEF IInv, LoaderInv, ParseInv
<1> SUFFICES ASSUME ParseInv
             PROVE  [Next]_vars /\ ParseInv' /\ [Reader!Next]_Reader!readerVars
  BY <1>0 DEF LoaderInv
<1>1. CASE LoadAllBegin
  <2>1. /\ blocklist_clear(0) /\ 0 \in 0 .. Len(entries) /\ UNCHANGED streamVars
        /\ step \in {"idle", "exited"} /\ step' = "next"
    BY <1>0, <1>1 DEF LoadAllBegin
  <2> QED
    BY <1>0, <2>1, StreamStays DEF ParseInv, Next
<1>2. CASE AsciiOpen
  <2>1. UNCHANGED vars /\ prevcount' = Len(entries) /\ step = "next"
    BY <1>2 DEF AsciiOpen
  <2>2. PICK c \in IF Stdin THEN {d \in Contents : Piped(d)}
                             ELSE blockfiles[Len(files) + 1] :
          /\ files' = Append(files, c)
          /\ \/ step' = "ascii" /\ stream_open(c.gz, c.text)
             \/ step' = step /\ UNCHANGED streamVars
    BY <1>2 DEF AsciiOpen
  <2>3. CASE step' = step /\ UNCHANGED streamVars
    BY <1>0, <2>1, <2>3, StreamStays DEF ParseInv
  <2>4. CASE step' = "ascii" /\ stream_open(c.gz, c.text)
    <3>0. c \in Content
      BY <1>0, <1>2, <2>2, OpenedIsContent DEF AsciiOpen, FilesInv
    <3>1. c.gz \in BOOLEAN /\ c.text \in Seq(Bytes)
      BY <3>0 DEF Content
    <3>2. ~opened /\ opened'
      BY <2>1, <2>4 DEF ParseInv, stream_open
    <3>3. StreamInv' /\ Reader!Open
      BY <1>0, <2>4, <3>1, <3>2, StreamOpenInv
    <3>4. entries' = entries /\ Current' = c
      BY <2>1, <2>2 DEF vars, Current
    <3>5. prevcount' \in 0 .. Len(entries')
      BY <1>0, <2>1, <3>4
    <3> QED
      BY <2>1, <2>4, <3>0, <3>2, <3>3, <3>4, <3>5 DEF ParseInv, Reader!Next
  <2> QED
    BY <2>2, <2>3, <2>4
<1>3. CASE AsciiRead
  <2>1. /\ step = "ascii" /\ step' = "line" /\ stream_getline
        /\ UNCHANGED <<vars, files, prevcount>>
    BY <1>3 DEF AsciiRead, fileVars
  <2>2. opened /\ opened'
    BY <2>1 DEF ParseInv, stream_getline
  <2>3. StreamInv' /\ (Reader!ReadLine \/ Reader!ReadEnd)
    BY <1>0, <2>1, <2>2, StreamGetlineInv
  <2> QED
    BY <2>1, <2>2, <2>3 DEF ParseInv, Current, vars, Reader!Next
<1>4. CASE AsciiLine
  <2>1. /\ step = "line" /\ step' = "ascii"
        /\ UNCHANGED <<streamVars, files, prevcount>>
    BY <1>4 DEF AsciiLine
  <2>2. StreamInv' /\ opened' = opened /\ UNCHANGED Reader!readerVars
    BY <1>0, <2>1, StreamStays
  <2>3. RangeIn[buf] \in Ranges \cup {NoRange}
    BY <1>0, LoaderAssumption DEF StreamInv
  <2>4. CASE RangeIn[buf] = NoRange
    <3>1. UNCHANGED vars
      BY <1>4, <2>4 DEF AsciiLine
    <3> QED
      BY <2>1, <2>2, <3>1 DEF ParseInv, Current, vars
  <2>5. CASE RangeIn[buf] # NoRange
    <3>1. RangeIn[buf] \in Ranges /\ blocklist_append(RangeIn[buf])
      BY <1>4, <2>3, <2>5, OtherThanNoRange DEF AsciiLine
    <3>2. Len(entries') = Len(entries) + 1
      BY <1>0, <3>1, AppendGrows
    <3>3. prevcount' \in 0 .. Len(entries')
      BY <1>0, <2>1, <3>2 DEF ParseInv
    <3> QED
      BY <2>1, <2>2, <3>1, <3>3 DEF ParseInv, Current, Next
  <2> QED
    BY <2>4, <2>5
<1>5. CASE AsciiAccept
  <2>1. step = "line" /\ step' = "next" /\ stream_close /\ UNCHANGED vars
    BY <1>5 DEF AsciiAccept
  <2>2. StreamInv' /\ Reader!Close /\ ~opened'
    BY <1>0, <2>1, StreamCloseInv DEF ParseInv, stream_close
  <2> QED
    BY <2>1, <2>2 DEF ParseInv, Reader!Next
<1>6. CASE AsciiReject
  <2>1. /\ step = "line" /\ blocklist_clear(prevcount) /\ step' = "header"
        /\ prevcount' = prevcount /\ stream_close /\ UNCHANGED files
    BY <1>6 DEF AsciiReject, RollBack
  <2>2. prevcount \in 0 .. Len(entries) /\ Current' \in Content
    BY <2>1 DEF ParseInv, Current
  <2>3. Len(entries') = prevcount
    BY <1>0, <2>1, <2>2, ClearShortens
  <2>4. prevcount' \in 0 .. Len(entries')
    BY <2>1, <2>2, <2>3
  <2>5. StreamInv' /\ Reader!Close /\ ~opened'
    BY <1>0, <2>1, StreamCloseInv DEF ParseInv, stream_close
  <2> QED
    BY <2>1, <2>2, <2>4, <2>5 DEF ParseInv, Next, Reader!Next
<1>7. CASE BinaryHeader
  <2>1. step = "header" /\ UNCHANGED <<streamVars, files, prevcount>>
    BY <1>7 DEF BinaryHeader
  <2>2. /\ Current \in Content /\ prevcount \in 0 .. Len(entries)
        /\ StreamInv' /\ ~opened' /\ UNCHANGED Reader!readerVars
    BY <1>0, <2>1, StreamStays DEF ParseInv
  <2>3. CASE HeaderReadable(Current)
    <3>1. step' = "binary" /\ UNCHANGED vars /\ rest' \in {<<>>, Current.items}
      BY <1>7, <2>3 DEF BinaryHeader
    <3>2. Current.items \in Seq(Ranges) /\ <<>> \in Seq(Ranges)
      BY <2>2 DEF Content
    <3> QED
      BY <2>1, <2>2, <3>1, <3>2 DEF ParseInv, Current, vars
  <2>4. CASE ~HeaderReadable(Current)
    BY <1>7, <2>1, <2>2, <2>4 DEF BinaryHeader, RollBack, Failed, ParseInv, Next
  <2> QED
    BY <2>3, <2>4
<1>8. CASE BinaryRange
  <2>1. /\ step = "binary" /\ rest # <<>> /\ rest' = Tail(rest)
        /\ blocklist_append(Head(rest))
        /\ UNCHANGED <<streamVars, step, files, prevcount>>
    BY <1>8 DEF BinaryRange
  <2>2. Head(rest) \in Ranges /\ rest' \in Seq(Ranges)
    BY <2>1, NextRange DEF ParseInv
  <2>3. Len(entries') = Len(entries) + 1
    BY <1>0, <2>1, <2>2, AppendGrows
  <2>4. prevcount' \in 0 .. Len(entries')
    BY <1>0, <2>1, <2>3 DEF ParseInv
  <2> QED
    BY <1>0, <2>1, <2>2, <2>4, StreamStays DEF ParseInv, Current, Next
<1>9. CASE BinaryEnd
  <2>1. step = "binary" /\ step' = "next" /\ UNCHANGED streamVars
    BY <1>9 DEF BinaryEnd, Failed
  <2>2. prevcount \in 0 .. Len(entries)
    BY <2>1 DEF ParseInv
  <2>3. blocklist_clear(prevcount) \/ UNCHANGED vars
    BY <1>9 DEF BinaryEnd, RollBack
  <2> QED
    BY <1>0, <2>1, <2>2, <2>3, StreamStays DEF ParseInv, Next
<1>10. CASE LoadAllSort
  BY <1>0, <1>10, StreamStays DEF LoadAllSort, ParseInv, Next
<1>11. CASE LoadAllMerge
  BY <1>0, <1>11, StreamStays DEF LoadAllMerge, ParseInv, Next, loaderVars,
     fileVars, Current
<1>12. CASE LoadAllEnd
  BY <1>0, <1>12, StreamStays DEF LoadAllEnd, ParseInv
<1>13. CASE LoaderRespawn
  BY <1>0, <1>13, StreamStays DEF LoaderRespawn, ParseInv, Next
<1>14. CASE DumpBegin \/ blocklist_dump \/ DumpEnd
  BY <1>0, <1>14, StreamStays DEF DumpBegin, blocklist_dump, DumpEnd, ParseInv
<1>15. CASE StartDaemon
  <2>1. /\ blocklist_clear(0) /\ 0 \in 0 .. Len(entries) /\ UNCHANGED streamVars
        /\ step = "dumped" /\ step' = "idle"
    BY <1>0, <1>15 DEF StartDaemon
  <2> QED
    BY <1>0, <2>1, StreamStays DEF ParseInv, Next
<1>16. CASE UNCHANGED allVars
  BY <1>0, <1>16, StreamStays DEF allVars, loaderVars, fileVars, vars, ParseInv,
     Current
<1> QED
  BY <1>1, <1>2, <1>3, <1>4, <1>5, <1>6, <1>7, <1>8, <1>9, <1>10, <1>11, <1>12,
     <1>13, <1>14, <1>15, <1>16 DEF LoaderNext, LoadSteps

(* The counters of the parser and its files have their types after every     *)
(* step; the rollback point does because the list never outgrows MaxEntries. *)
LEMMA LoaderTypeStep ==
  ASSUME IInv, LoaderInv, LoaderInv', LoaderTypeOK, [LoaderNext]_allVars
  PROVE  LoaderTypeOK'
<1>1. Len(entries) \in 0 .. MaxEntries
  BY EntryFacts DEF IInv
<1>2. /\ data' \in Seq(Bytes) /\ buf' \in Line'
      /\ avail' \in 0 .. Chunk /\ avail' <= Len(data')
      /\ opened' <=> step' \in {"ascii", "line"}
  <2>1. avail' \in 0 .. Len(data') /\ avail' <= Chunk /\ Chunk \in Nat
    BY StreamAssumption DEF LoaderInv, ParseInv, StreamInv
  <2>2. avail' \in 0 .. Chunk /\ avail' <= Len(data')
    BY <2>1
  <2> QED
    BY <2>2 DEF LoaderInv, ParseInv, StreamInv
<1>3. /\ step' \in {"idle", "next", "ascii", "line", "header", "binary", "merge",
                   "exited", "dump", "dumped"}
      /\ opt_merge' \in BOOLEAN
      /\ serving' \in BOOLEAN /\ ret' \in {0, -1}
  BY DEF LoaderTypeOK, LoaderNext, LoadSteps, LoadAllBegin, AsciiOpen,
     AsciiRead, AsciiLine, AsciiAccept, AsciiReject, BinaryHeader, BinaryRange,
     BinaryEnd, LoadAllSort, LoadAllMerge, LoadAllEnd, DumpBegin, blocklist_dump,
     DumpEnd, StartDaemon, LoaderRespawn, Failed,
     allVars, loaderVars, fileVars, premergeVars
<1>4. prevcount' \in 0 .. MaxEntries
  <2>1. prevcount' = prevcount \/ prevcount' = Len(entries) \/ prevcount' = 0
    BY DEF LoaderNext, LoadSteps, LoadAllBegin, AsciiOpen,
     AsciiRead, AsciiLine, AsciiAccept, AsciiReject, BinaryHeader, BinaryRange,
     BinaryEnd, LoadAllSort, LoadAllMerge, LoadAllEnd, DumpBegin, blocklist_dump,
     DumpEnd, StartDaemon, LoaderRespawn,
     allVars, loaderVars, fileVars, premergeVars
  <2>2. 0 \in 0 .. MaxEntries
    BY BlocklistAssumption
  <2> QED
    BY <1>1, <2>1, <2>2 DEF LoaderTypeOK
<1>5. total' \in Nat /\ ok' \in 0 .. total'
  <2>1. \/ total' = total /\ ok' = ok
        \/ total' = 0 /\ ok' = 0
        \/ total' = total + 1 /\ ok' \in {ok, ok + 1}
    BY DEF LoaderNext, LoadSteps, LoadAllBegin, AsciiOpen,
     AsciiRead, AsciiLine, AsciiAccept, AsciiReject, BinaryHeader, BinaryRange,
     BinaryEnd, LoadAllSort, LoadAllMerge, LoadAllEnd, DumpBegin, blocklist_dump,
     DumpEnd, StartDaemon, LoaderRespawn,
     allVars, loaderVars, fileVars, premergeVars
  <2> QED
    BY <2>1 DEF LoaderTypeOK
<1>6. Len(files') <= FilesToLoad'
  <2>1. \/ UNCHANGED <<files, blockfiles>>
        \/ files' = <<>>
        \/ /\ Len(files) < FilesToLoad /\ blockfiles' = blockfiles
           /\ \E c : files' = Append(files, c)
    BY DEF LoaderNext, LoadSteps, LoadAllBegin, AsciiOpen,
     AsciiRead, AsciiLine, AsciiAccept, AsciiReject, BinaryHeader, BinaryRange,
     BinaryEnd, LoadAllSort, LoadAllMerge, LoadAllEnd, DumpBegin, blocklist_dump,
     DumpEnd, StartDaemon, LoaderRespawn,
     allVars, loaderVars, fileVars, premergeVars
  <2>2. CASE UNCHANGED <<files, blockfiles>>
    BY <2>2 DEF LoaderTypeOK, FilesToLoad, Stdin
  <2>3. CASE files' = <<>>
    BY <2>3, FilesToLoadIsNat DEF LoaderInv, FilesInv, FilesToLoad, Stdin
  <2>4. CASE /\ Len(files) < FilesToLoad /\ blockfiles' = blockfiles
             /\ \E c : files' = Append(files, c)
    <3>1. PICK c : files' = Append(files, c)
      BY <2>4
    <3>2. Len(files') = Len(files) + 1 /\ Len(files) \in Nat
      <4>1. files \in Seq(Content \cup {c})
        BY DEF LoaderTypeOK
      <4> QED
        BY <3>1, <4>1, AppendProperties
    <3>3. FilesToLoad' = FilesToLoad /\ FilesToLoad \in Nat
      BY <2>4, FilesToLoadIsNat DEF FilesToLoad, Stdin, LoaderInv, FilesInv
    <3> QED
      BY <2>4, <3>2, <3>3
  <2> QED
    BY <2>1, <2>2, <2>3, <2>4
<1> QED
  BY <1>2, <1>3, <1>4, <1>5, <1>6 DEF LoaderTypeOK, LoaderInv, FilesInv

(* Loading, rolling back and reloading are, step by step, appends, clears,   *)
(* sorts and merges of the blocklist.                                        *)
THEOREM LoaderRefines == LoaderSpec => ImplementsBlocklist
<1>1. LoaderInit => Init /\ IInv /\ LoaderInv
  BY LoaderInit_Inv, InitInv
<1>2. IInv /\ LoaderInv /\ [LoaderNext]_allVars => IInv' /\ LoaderInv' /\ [Next]_vars
  BY LoaderStep, NextInv
<1> QED
  BY <1>1, <1>2, PTL DEF LoaderSpec, ImplementsBlocklist, Spec

(* The parser's state has its type, and a line never outgrows the caller's   *)
(* buffer nor stream->out its size.                                          *)
THEOREM LoaderTypes == LoaderSpec => []LoaderTypeOK
<1>1. LoaderInit => IInv /\ LoaderInv
  BY LoaderInit_Inv, InitInv
<1>2. LoaderInit => LoaderTypeOK
  <2>1. 0 \in 0 .. MaxEntries /\ Chunk \in Nat
    BY BlocklistAssumption, StreamAssumption
  <2>2. <<>> \in Seq(Content) /\ Len(<<>>) = 0 /\ <<>> \in Seq(Bytes)
    OBVIOUS
  <2> SUFFICES ASSUME LoaderInit PROVE LoaderTypeOK
    OBVIOUS
  <2>3. /\ step = "idle" /\ opt_merge \in BOOLEAN /\ serving = FALSE /\ files = <<>> /\ ~opened
        /\ total = 0 /\ ok = 0 /\ prevcount = 0 /\ ret = 0
        /\ data = <<>> /\ avail = 0 /\ buf = <<>>
    BY DEF LoaderInit, StreamInit
  <2>4. /\ total \in Nat /\ ok \in 0 .. total
        /\ prevcount \in 0 .. MaxEntries
        /\ avail \in 0 .. Chunk /\ avail <= Len(data)
    BY <2>1, <2>2, <2>3
  <2>5. /\ files \in Seq(Content) /\ blockfiles \in Seq(SUBSET Content)
        /\ Len(files) <= FilesToLoad
    BY <1>1, <2>2, <2>3, FilesToLoadIsNat DEF LoaderInv, FilesInv, FilesToLoad, Stdin
  <2> QED
    BY <2>2, <2>3, <2>4, <2>5, NullIsLine DEF LoaderTypeOK
<1>3. /\ IInv /\ LoaderInv /\ LoaderTypeOK /\ [LoaderNext]_allVars
      => IInv' /\ LoaderInv' /\ LoaderTypeOK'
  BY LoaderStep, NextInv, LoaderTypeStep
<1> QED
  BY <1>1, <1>2, <1>3, PTL DEF LoaderSpec

(* Whatever a file holds, for every size of stream->out and of the caller's  *)
(* buffer: load_list gets the lines fgets would have got, in that order.     *)
THEOREM LinesTheorem == LoaderSpec => ReadsLines
<1>1. LoaderInit => IInv /\ LoaderInv /\ Reader!Init
  BY LoaderInit_Inv, InitInv
<1>2. IInv /\ LoaderInv /\ [LoaderNext]_allVars
        => IInv' /\ LoaderInv' /\ [Reader!Next]_Reader!readerVars
  BY LoaderStep, NextInv
<1> QED
  BY <1>1, <1>2, PTL DEF LoaderSpec, ReadsLines, Reader!Spec

(* Whatever the list files hold and however they break off, the list pgld    *)
(* searches blocks exactly what was loaded.                                  *)
THEOREM LoadedCoverage == LoaderSpec => []CoverageExact
BY LoaderRefines, CoverageTheorem DEF ImplementsBlocklist

(* The rollbacks of the parser never let an append write past the array.     *)
THEOREM LoadedAllocation == LoaderSpec => []WithinAllocation
BY LoaderRefines, AllocationTheorem DEF ImplementsBlocklist

-----------------------------------------------------------------------------
HIDE LoaderAssumption

(* Induction over numbers, the functions a recursion over a measure defines, *)
(* and from it what FlattenSeq and LinesOf are.                              *)

(* Induction, for a set of numbers. *)
LEMMA Counting ==
  ASSUME NEW P \in SUBSET Nat, 0 \in P, \A n \in P : n + 1 \in P
  PROVE  P = Nat
<1>1. IsWellFoundedOn(OpToRel(<, Nat), Nat)
  BY NatLessThanWellFounded
<1>2. SUFFICES ASSUME Nat \ P # {} PROVE FALSE
  OBVIOUS
<1>3. PICK m \in Nat \ P : \A n \in Nat \ P : ~(<<n, m>> \in OpToRel(<, Nat))
  <2>1. Nat \ P \in SUBSET Nat
    OBVIOUS
  <2> QED
    BY <1>1, <1>2, <2>1, WFMin, Zenon
<1>4. m \in Nat /\ m \notin P /\ m # 0
  OBVIOUS
<1>5. m - 1 \in Nat /\ m - 1 < m /\ (m - 1) + 1 = m
  BY <1>4
<1>6. <<m - 1, m>> \in OpToRel(<, Nat)
  BY <1>4, <1>5 DEF OpToRel
<1>7. m - 1 \in P
  BY <1>3, <1>5, <1>6, Zenon
<1>8. (m - 1) + 1 \in P
  BY <1>7
<1> QED
  BY <1>4, <1>5, <1>8

(* A function that is defined by recursion along a measure is there, and so  *)
(* is what its definition chooses.                                           *)
Solves(h, S, A, m, stop, base, cut, g, d) ==
  /\ h \in [S -> A]
  /\ \A t \in S : m[t] <= d =>
       h[t] = IF t \in stop THEN base[t] ELSE g[<<t, h[cut[t]]>>]

Shrinks(S, m, stop, cut) == \A t \in S \ stop : m[cut[t]] < m[t]

Recurs(f, S, stop, base, cut, g) ==
  \A t \in S : f[t] = IF t \in stop THEN base[t] ELSE g[<<t, f[cut[t]]>>]

(* A recursion on something of a smaller measure has a solution.             *)
LEMMA Recursion ==
  ASSUME NEW S, NEW A, NEW m \in [S -> Nat], NEW stop \in SUBSET S,
         NEW base \in [S -> A], NEW cut \in [S -> S], NEW g \in [S \X A -> A],
         Shrinks(S, m, stop, cut)
  PROVE  \E f \in [S -> A] : Recurs(f, S, stop, base, cut, g)
<1> DEFINE Good(h, d) == Solves(h, S, A, m, stop, base, cut, g, d)
           P == {d \in Nat : \E h : Good(h, d)}
           U == {d \in Nat : \A a, b : Good(a, d) /\ Good(b, d) =>
                               \A t \in S : m[t] <= d => a[t] = b[t]}
<1>0. /\ \A t \in S : m[t] \in Nat /\ cut[t] \in S /\ m[cut[t]] \in Nat
      /\ \A t \in S : base[t] \in A
      /\ \A t \in S, x \in A : g[<<t, x>>] \in A
      /\ \A t \in S \ stop : m[cut[t]] < m[t]
  BY DEF Shrinks
<1>1. ASSUME NEW h, NEW d \in Nat, NEW n \in Nat, n <= d, Good(h, d)
      PROVE  Good(h, n)
  <2>1. ASSUME NEW t \in S, m[t] <= n
        PROVE  h[t] = IF t \in stop THEN base[t] ELSE g[<<t, h[cut[t]]>>]
    <3>1. m[t] <= d
      BY <1>0, <1>1, <2>1
    <3> QED
      BY <1>1, <3>1 DEF Solves
  <2> QED
    BY <1>1, <2>1 DEF Solves
<1>2. ASSUME NEW d \in Nat, NEW h, Good(h, d),
             NEW e \in [S -> A],
             \A t \in S : e[t] = IF t \in stop THEN base[t] ELSE g[<<t, h[cut[t]]>>]
      PROVE  Good(e, d + 1)
  <2>1. ASSUME NEW t \in S, m[t] <= d PROVE e[t] = h[t]
    BY <1>2, <2>1 DEF Solves
  <2>2. ASSUME NEW t \in S, m[t] <= d + 1, t \notin stop
        PROVE  e[t] = g[<<t, e[cut[t]]>>]
    <3>1. m[cut[t]] <= d /\ cut[t] \in S
      BY <1>0, <2>2
    <3>2. e[cut[t]] = h[cut[t]]
      BY <2>1, <3>1
    <3> QED
      BY <1>2, <2>2, <3>2
  <2> QED
    BY <1>2, <2>2 DEF Solves
<1>3. ASSUME NEW h \in [S -> A]
      PROVE  \E e \in [S -> A] :
               \A t \in S : e[t] = IF t \in stop THEN base[t] ELSE g[<<t, h[cut[t]]>>]
  <2> DEFINE e == [t \in S |-> IF t \in stop THEN base[t] ELSE g[<<t, h[cut[t]]>>]]
  <2>1. e \in [S -> A]
    <3>1. ASSUME NEW t \in S
          PROVE  (IF t \in stop THEN base[t] ELSE g[<<t, h[cut[t]]>>]) \in A
      <4>1. h[cut[t]] \in A
        BY <1>0
      <4> QED
        BY <1>0, <4>1
    <3> QED
      BY <3>1
  <2>2. \A t \in S : e[t] = IF t \in stop THEN base[t] ELSE g[<<t, h[cut[t]]>>]
    OBVIOUS
  <2> QED
    BY <2>1, <2>2
<1>4. 0 \in P
  <2>1. PICK e \in [S -> A] :
          \A t \in S : e[t] = IF t \in stop THEN base[t] ELSE g[<<t, base[cut[t]]>>]
    BY <1>3
  <2>2. ASSUME NEW t \in S, m[t] <= 0 PROVE t \in stop
    <3>1. ~(m[cut[t]] < m[t])
      BY <1>0, <2>2
    <3> QED
      BY <1>0, <3>1
  <2>3. Good(e, 0)
    BY <2>1, <2>2 DEF Solves
  <2> QED
    BY <2>3
<1>5. ASSUME NEW d \in P PROVE d + 1 \in P
  <2>1. d \in Nat
    OBVIOUS
  <2>2. PICK h : Good(h, d)
    OBVIOUS
  <2>3. h \in [S -> A]
    BY <2>2 DEF Solves
  <2> HIDE DEF Good
  <2>4. \E e : Good(e, d + 1)
    <3>1. PICK e \in [S -> A] :
            \A t \in S : e[t] = IF t \in stop THEN base[t] ELSE g[<<t, h[cut[t]]>>]
      BY <1>3, <2>3
    <3> QED
      BY <1>2, <2>1, <2>2, <3>1
  <2> QED
    BY <2>1, <2>4
<1>6. P = Nat
  <2>1. P \in SUBSET Nat
    OBVIOUS
  <2> HIDE DEF P
  <2> QED
    BY <1>4, <1>5, <2>1, Counting
<1>7. 0 \in U
  <2>1. ASSUME NEW a, NEW b, Good(a, 0), Good(b, 0), NEW t \in S, m[t] <= 0
        PROVE  a[t] = b[t]
    <3>1. ~(m[cut[t]] < m[t])
      BY <1>0, <2>1
    <3>2. t \in stop
      BY <1>0, <3>1
    <3> QED
      BY <2>1, <3>2 DEF Solves
  <2> QED
    BY <2>1
<1>8. ASSUME NEW d \in U PROVE d + 1 \in U
  <2>1. d \in Nat /\ d + 1 \in Nat /\ d <= d + 1
    OBVIOUS
  <2>2. ASSUME NEW a, NEW b, Good(a, d + 1), Good(b, d + 1), NEW t \in S, m[t] <= d + 1
        PROVE  a[t] = b[t]
    <3>1. Good(a, d) /\ Good(b, d)
      <4> HIDE DEF Good
      <4> QED
        BY <1>1, <2>1, <2>2
    <3>2. CASE t \in stop
      BY <2>2, <3>2 DEF Solves
    <3>3. CASE t \notin stop
      <4>1. cut[t] \in S /\ m[cut[t]] <= d
        BY <1>0, <2>1, <2>2, <3>3
      <4>2. a[cut[t]] = b[cut[t]]
        <5> HIDE DEF Good
        <5> QED
          BY <3>1, <4>1
      <4>3. a[t] = g[<<t, a[cut[t]]>>]
        BY <2>2, <3>3 DEF Solves
      <4>4. b[t] = g[<<t, b[cut[t]]>>]
        BY <2>2, <3>3 DEF Solves
      <4> QED
        BY <4>2, <4>3, <4>4
    <3> QED
      BY <3>2, <3>3
  <2> HIDE DEF Good
  <2> QED
    BY <2>1, <2>2
<1>9. U = Nat
  <2>1. U \in SUBSET Nat
    OBVIOUS
  <2> HIDE DEF U
  <2> QED
    BY <1>7, <1>8, <2>1, Counting
<1> HIDE DEF Good
<1> DEFINE h(d) == CHOOSE h : Good(h, d)
           f == [t \in S |-> h(m[t])[t]]
<1>10. \A d \in Nat : Good(h(d), d)
  BY <1>6
<1> HIDE DEF h
<1>11. \A d \in Nat : h(d) \in [S -> A]
  BY <1>10 DEF Good, Solves
<1>12. f \in [S -> A]
  BY <1>0, <1>11
<1>13. ASSUME NEW t \in S
       PROVE  f[t] = IF t \in stop THEN base[t] ELSE g[<<t, f[cut[t]]>>]
  <2>1. m[t] \in Nat /\ m[t] <= m[t] /\ Good(h(m[t]), m[t])
    BY <1>0, <1>10
  <2>2. h(m[t])[t] = IF t \in stop THEN base[t] ELSE g[<<t, h(m[t])[cut[t]]>>]
    BY <2>1 DEF Good, Solves
  <2>3. CASE t \notin stop
    <3>1. /\ cut[t] \in S /\ m[cut[t]] \in Nat /\ m[cut[t]] <= m[t]
          /\ m[cut[t]] <= m[cut[t]]
      BY <1>0, <2>3
    <3>2. Good(h(m[cut[t]]), m[cut[t]]) /\ Good(h(m[t]), m[cut[t]])
      BY <1>1, <1>10, <2>1, <3>1
    <3>3. h(m[cut[t]])[cut[t]] = h(m[t])[cut[t]]
      BY <1>9, <3>1, <3>2
    <3> QED
      BY <2>2, <2>3, <3>1, <3>3
  <2> QED
    BY <2>2, <2>3
<1> QED
  BY <1>12, <1>13 DEF Recurs

(* Sequences put one behind the other. *)
LEMMA FlattenFacts ==
  ASSUME NEW X, NEW s \in Seq(Seq(X))
  PROVE  \E F \in [0 .. Len(s) -> Seq(X)] :
           /\ F[0] = <<>>
           /\ \A d \in 1 .. Len(s) : F[d] = F[d - 1] \o s[d]
           /\ F[Len(s)] = FlattenSeq(s)
<1> DEFINE A == Seq(X)
           n == Len(s)
           eqn(f) == f = [x \in 1 .. Len(s) |-> IF x = 1 THEN s[x] ELSE f[x - 1] \o s[x]]
           flat == CHOOSE f : eqn(f)
<1>1. FlattenSeq(s) = IF n = 0 THEN s ELSE flat[n]
  BY DEF FlattenSeq
<1>2. n \in Nat /\ (n = 0 => s = <<>>) /\ \A d \in 1 .. n : s[d] \in A
  OBVIOUS
<1>3. <<>> \in A /\ \A a, b \in A : a \o b \in A /\ <<>> \o a = a
  OBVIOUS
<1> HIDE DEF A
<1>4. \E f \in [1 .. n -> A] :
        \A x \in 1 .. n : f[x] = IF x = 1 THEN s[x] ELSE f[x - 1] \o s[x]
  <2> DEFINE m == [x \in 1 .. n |-> x]
             base == [x \in 1 .. n |-> s[x]]
             cut == [x \in 1 .. n |-> IF x = 1 THEN x ELSE x - 1]
             g == [p \in (1 .. n) \X A |-> p[2] \o s[p[1]]]
             stop == {x \in 1 .. n : x = 1}
  <2>1. m \in [1 .. n -> Nat] /\ base \in [1 .. n -> A] /\ stop \in SUBSET (1 .. n)
    BY <1>2
  <2>2. cut \in [1 .. n -> 1 .. n]
    BY <1>2
  <2>3. g \in [(1 .. n) \X A -> A]
    BY <1>2, <1>3
  <2>4. \A x \in (1 .. n) \ stop : m[cut[x]] < m[x]
    BY <1>2
  <2>5. \A x \in 1 .. n : base[x] = s[x] /\ (x # 1 => cut[x] = x - 1)
    OBVIOUS
  <2>6. \A x \in 1 .. n, a \in A : g[<<x, a>>] = a \o s[x]
    OBVIOUS
  <2>7. \A x \in 1 .. n : x \in stop <=> x = 1
    OBVIOUS
  <2>8. \A x \in 1 .. n : cut[x] \in 1 .. n
    BY <2>2
  <2> HIDE DEF m, base, cut, g, stop, n
  <2>9. PICK f \in [1 .. n -> A] :
          \A x \in 1 .. n : f[x] = IF x \in stop THEN base[x] ELSE g[<<x, f[cut[x]]>>]
    <3> DEFINE S == 1 .. n
    <3>1. /\ m \in [S -> Nat] /\ base \in [S -> A] /\ stop \in SUBSET S
          /\ cut \in [S -> S] /\ g \in [S \X A -> A]
          /\ Shrinks(S, m, stop, cut)
      BY <2>1, <2>2, <2>3, <2>4 DEF Shrinks
    <3> HIDE DEF S
    <3>2. \E f \in [S -> A] : Recurs(f, S, stop, base, cut, g)
      BY <3>1, Recursion
    <3> QED
      BY <3>2 DEF S, Recurs
  <2>10. ASSUME NEW x \in 1 .. n PROVE f[x] = IF x = 1 THEN s[x] ELSE f[x - 1] \o s[x]
    <3>1. CASE x = 1
      BY <2>5, <2>7, <2>9, <3>1
    <3>2. CASE x # 1
      <4>1. f[x] = g[<<x, f[cut[x]]>>]
        BY <2>7, <2>9, <3>2
      <4>2. cut[x] = x - 1 /\ f[cut[x]] \in A
        BY <2>5, <2>8, <3>2
      <4> QED
        BY <2>6, <3>2, <4>1, <4>2
    <3> QED
      BY <3>1, <3>2
  <2> QED
    BY <2>10
<1>5. PICK f \in [1 .. n -> A] :
        \A x \in 1 .. n : f[x] = IF x = 1 THEN s[x] ELSE f[x - 1] \o s[x]
  BY <1>4
<1>6. eqn(flat)
  <2>1. f = [x \in 1 .. n |-> f[x]]
    OBVIOUS
  <2>2. eqn(f)
    BY <1>5, <2>1
  <2> HIDE DEF eqn
  <2> QED
    BY <2>2
<1>7. \A x \in 1 .. n : flat[x] = IF x = 1 THEN s[x] ELSE flat[x - 1] \o s[x]
  <2> HIDE DEF flat
  <2> QED
    BY <1>6
<1> HIDE DEF flat, eqn, n
<1>8. \A d \in 1 .. n : flat[d] \in A
  <2> DEFINE P == {d \in Nat : d \in 1 .. n => flat[d] \in A}
  <2>1. ASSUME NEW d \in P PROVE d + 1 \in P
    <3> SUFFICES ASSUME d + 1 \in 1 .. n PROVE flat[d + 1] \in A
      OBVIOUS
    <3>0. flat[d + 1] = IF d + 1 = 1 THEN s[d + 1] ELSE flat[(d + 1) - 1] \o s[d + 1]
      BY <1>7
    <3>1. CASE d = 0
      <4>1. d + 1 = 1
        BY <3>1
      <4> QED
        BY <1>2, <3>0, <4>1
    <3>2. CASE d # 0
      <4>1. d \in 1 .. n /\ (d + 1) - 1 = d /\ d + 1 # 1
        BY <1>2, <3>2
      <4>2. flat[d] \in A /\ s[d + 1] \in A
        BY <1>2, <4>1
      <4>3. flat[d + 1] = flat[d] \o s[d + 1]
        BY <3>0, <4>1
      <4> QED
        BY <1>3, <4>2, <4>3
    <3> QED
      BY <3>1, <3>2
  <2>2. 0 \in P /\ P \in SUBSET Nat
    OBVIOUS
  <2> HIDE DEF P
  <2>3. P = Nat
    BY <2>1, <2>2, Counting
  <2> QED
    BY <1>2, <2>3 DEF P
<1> DEFINE F == [d \in 0 .. n |-> IF d = 0 THEN <<>> ELSE flat[d]]
<1>9. F \in [0 .. n -> A] /\ F[0] = <<>>
  BY <1>2, <1>3, <1>8
<1>10. ASSUME NEW d \in 1 .. n PROVE F[d] = F[d - 1] \o s[d]
  <2>1. d \in 0 .. n /\ d - 1 \in 0 .. n /\ s[d] \in A
    BY <1>2
  <2>2. CASE d = 1
    <3>1. F[d] = s[d] /\ F[d - 1] = <<>>
      BY <1>7, <2>1, <2>2
    <3>2. <<>> \o s[d] = s[d]
      BY <1>3, <2>1
    <3> QED
      BY <3>1, <3>2
  <2>3. CASE d # 1
    <3>1. F[d] = flat[d] /\ F[d - 1] = flat[d - 1]
      BY <2>1, <2>3
    <3> QED
      BY <1>7, <2>3, <3>1
  <2> QED
    BY <2>2, <2>3
<1>11. F[n] = FlattenSeq(s)
  BY <1>1, <1>2
<1> QED
  BY <1>9, <1>10, <1>11 DEF A, n

(* Nothing, and one sequence more. *)
LEMMA FlattenNothing == FlattenSeq(<<>>) = <<>>
<1>1. <<>> \in Seq(Seq({})) /\ Len(<<>>) = 0
  OBVIOUS
<1> QED
  BY <1>1, FlattenFacts

(* A sequence more is put behind the others.                                 *)
LEMMA FlattenMore ==
  ASSUME NEW X, NEW s \in Seq(Seq(X)), NEW a \in Seq(X)
  PROVE  /\ FlattenSeq(s) \in Seq(X)
         /\ FlattenSeq(Append(s, a)) = FlattenSeq(s) \o a
<1> DEFINE n == Len(s)
           z == Append(s, a)
<1>1. /\ n \in Nat /\ z \in Seq(Seq(X)) /\ Len(z) = n + 1 /\ z[n + 1] = a
      /\ \A d \in 1 .. n : z[d] = s[d]
  OBVIOUS
<1> HIDE DEF z
<1>0. /\ n \in Nat /\ n <= n
      /\ \A c \in Nat : c + 1 <= n => /\ c + 1 \in 1 .. n /\ c + 1 \in 1 .. n + 1
                                      /\ (c + 1) - 1 = c /\ c <= n
  <2> HIDE DEF n
  <2>1. n \in Nat
    BY <1>1
  <2> QED
    BY <2>1
<1>2. PICK F \in [0 .. n -> Seq(X)] :
        /\ F[0] = <<>> /\ \A d \in 1 .. n : F[d] = F[d - 1] \o s[d]
        /\ F[n] = FlattenSeq(s)
  BY FlattenFacts
<1> HIDE DEF z, n
<1>3. PICK G \in [0 .. n + 1 -> Seq(X)] :
        /\ G[0] = <<>> /\ \A d \in 1 .. n + 1 : G[d] = G[d - 1] \o z[d]
        /\ G[n + 1] = FlattenSeq(z)
  <2>1. \E G \in [0 .. Len(z) -> Seq(X)] :
          /\ G[0] = <<>> /\ \A d \in 1 .. Len(z) : G[d] = G[d - 1] \o z[d]
          /\ G[Len(z)] = FlattenSeq(z)
    BY <1>1, FlattenFacts
  <2> QED
    BY <1>1, <2>1
<1>4. F[n] = G[n]
  <2> DEFINE P == {d \in Nat : d <= n => F[d] = G[d]}
  <2>2. ASSUME NEW d \in Nat, d + 1 <= n, F[d] = G[d] PROVE F[d + 1] = G[d + 1]
    <3>1. /\ d + 1 \in 1 .. n /\ d + 1 \in 1 .. n + 1 /\ (d + 1) - 1 = d
      BY <1>0, <2>2, Zenon
    <3>2. F[d + 1] = F[d] \o s[d + 1]
      BY <1>2, <3>1
    <3>3. G[d + 1] = G[d] \o z[d + 1]
      BY <1>3, <3>1
    <3>4. z[d + 1] = s[d + 1]
      BY <1>1, <3>1
    <3> QED
      BY <2>2, <3>2, <3>3, <3>4
  <2>3. P = Nat
    <3>1. ASSUME NEW d \in P PROVE d + 1 \in P
      <4>1. d \in Nat /\ d + 1 \in Nat /\ (d <= n => F[d] = G[d])
        OBVIOUS
      <4>2. d + 1 <= n => d <= n
        BY <1>0, <4>1
      <4> QED
        BY <2>2, <4>1, <4>2
    <3>2. 0 \in P /\ P \in SUBSET Nat
      BY <1>2, <1>3
    <3> HIDE DEF P
    <3> QED
      BY <3>1, <3>2, Counting
  <2>4. n \in P /\ n <= n
    <3> HIDE DEF P
    <3> QED
      BY <1>0, <2>3, Zenon
  <2> HIDE DEF P
  <2> QED
    BY <2>4 DEF P
<1>5. G[n + 1] = G[n] \o a
  <2>1. n + 1 \in 1 .. n + 1 /\ (n + 1) - 1 = n
    BY <1>1
  <2> QED
    BY <1>1, <1>3, <2>1
<1>6. F[n] \in Seq(X)
  BY <1>1, <1>2
<1> QED
  BY <1>2, <1>3, <1>4, <1>5, <1>6 DEF z

-----------------------------------------------------------------------------
(* What the lines of a text are. *)

(* A line ends at a line feed, where it fills the buffer, or with the text.  *)
Ends(t, n) == t[n] = LF \/ n = MaxLine - 1 \/ n = Len(t)

(* The end of the first line: there is one, and LinesOf finds it.            *)
FirstEnd(t) == Min({n \in 1 .. Len(t) : t[n] = LF \/ n = MaxLine - 1} \cup {Len(t)})

(* No line ends before FirstEnd does.                                        *)
LEMMA FirstEndFacts ==
  ASSUME NEW t \in Seq(Bytes), t # <<>>
  PROVE  /\ FirstEnd(t) \in 1 .. Len(t) /\ Ends(t, FirstEnd(t))
         /\ \A n \in 1 .. Len(t) : Ends(t, n) => FirstEnd(t) <= n
<1> DEFINE E == {n \in 1 .. Len(t) : t[n] = LF \/ n = MaxLine - 1} \cup {Len(t)}
<1>1. Len(t) \in Nat /\ Len(t) # 0 /\ Len(t) \in 1 .. Len(t)
  OBVIOUS
<1>2. E \in SUBSET (1 .. Len(t)) /\ Len(t) \in E
  BY <1>1
<1>3. \A n \in 1 .. Len(t) : n \in E <=> Ends(t, n)
  BY DEF Ends
<1>4. FirstEnd(t) = Min(E)
  BY DEF FirstEnd
<1> HIDE DEF E
<1>5. \E x \in E : \A y \in E : x <= y
  <2> DEFINE P == {d \in Nat : \A x \in E : x <= d =>
                     \E z \in E : \A y \in E : z <= y}
  <2>1. 0 \in P /\ P \in SUBSET Nat
    BY <1>2
  <2>2. ASSUME NEW d \in P PROVE d + 1 \in P
    <3> SUFFICES ASSUME NEW x \in E, x <= d + 1
                 PROVE  \E z \in E : \A y \in E : z <= y
      OBVIOUS
    <3>1. CASE \E y \in E : y <= d
      BY <3>1
    <3>2. CASE ~\E y \in E : y <= d
      <4>1. \A y \in E : x <= y
        BY <1>2, <3>2
      <4> QED
        BY <4>1
    <3> QED
      BY <3>1, <3>2
  <2> HIDE DEF P
  <2>3. P = Nat
    BY <2>1, <2>2, Counting
  <2>4. Len(t) \in P /\ Len(t) <= Len(t)
    BY <1>1, <2>3
  <2> QED
    BY <1>2, <2>4 DEF P
<1>6. Min(E) \in E /\ \A y \in E : Min(E) <= y
  BY <1>5 DEF Min
<1> QED
  BY <1>2, <1>3, <1>4, <1>6

(* What is left behind the first line.                                       *)
Behind(t) == SubSeq(t, FirstEnd(t) + 1, Len(t))

(* The first line is a line, and less is left behind it.                     *)
LEMMA FirstLineFacts ==
  ASSUME NEW t \in Seq(Bytes), t # <<>>
  PROVE  /\ SubSeq(t, 1, FirstEnd(t)) \in Line
         /\ SubSeq(t, 1, FirstEnd(t)) # <<>>
         /\ Behind(t) \in Seq(Bytes) /\ Len(Behind(t)) < Len(t)
<1> DEFINE n == FirstEnd(t)
<1>1. /\ n \in 1 .. Len(t) /\ Len(t) \in Nat
      /\ \A d \in 1 .. Len(t) : Ends(t, d) => n <= d
  BY FirstEndFacts
<1> HIDE DEF n
<1>2. n <= MaxLine - 1
  <2>1. MaxLine - 1 \in Nat /\ MaxLine - 1 >= 1
    BY StreamAssumption
  <2>2. CASE MaxLine - 1 <= Len(t)
    BY <1>1, <2>1, <2>2 DEF Ends
  <2>3. CASE Len(t) < MaxLine - 1
    BY <1>1, <2>1, <2>3
  <2> QED
    BY <1>1, <2>1, <2>2, <2>3
<1>3. n \in Nat /\ n \in 0 .. MaxLine - 1 /\ n # 0
  BY <1>1, <1>2, StreamAssumption
<1>4. /\ SubSeq(t, 1, n) \in Seq(Bytes) /\ Len(SubSeq(t, 1, n)) = n
      /\ SubSeq(t, n + 1, Len(t)) \in Seq(Bytes)
      /\ Len(SubSeq(t, n + 1, Len(t))) = Len(t) - n
  <2>1. \A m \in 1 .. Len(t) : t[m] \in Bytes
    OBVIOUS
  <2> QED
    BY <1>1, <2>1, SubSeqProperties
<1>5. SubSeq(t, 1, n) \in [1 .. n -> Bytes]
  BY <1>4, LenProperties
<1>6. SubSeq(t, 1, n) \in Line
  BY <1>3, <1>5 DEF Line
<1>7. SubSeq(t, 1, n) # <<>>
  BY <1>3, <1>4
<1>8. Len(t) - n < Len(t)
  BY <1>1
<1> QED
  BY <1>4, <1>6, <1>7, <1>8 DEF n, Behind

(* The lines of a text are its first line and those of what is behind it.    *)
LEMMA LinesEquation ==
  ASSUME NEW t \in Seq(Bytes)
  PROVE  LinesOf[t] = IF t = <<>> THEN <<>>
                      ELSE <<SubSeq(t, 1, FirstEnd(t))>> \o LinesOf[Behind(t)]
<1> DEFINE S == Seq(Bytes)
           A == Seq(Line)
           m == [s \in S |-> Len(s)]
           stop == {<<>>}
           base == [s \in S |-> <<>>]
           cut == [s \in S |-> IF s = <<>> THEN s ELSE Behind(s)]
           g == [p \in S \X A |-> IF p[1] = <<>> THEN <<>>
                                  ELSE <<SubSeq(p[1], 1, FirstEnd(p[1]))>> \o p[2]]
           eqn(f) == f = [s \in S |->
                            IF s = <<>> THEN <<>>
                            ELSE LET ends == {n \in 1 .. Len(s) : s[n] = LF \/ n = MaxLine - 1}
                                     n == Min(ends \cup {Len(s)})
                                 IN  <<SubSeq(s, 1, n)>> \o f[SubSeq(s, n + 1, Len(s))]]
<1>1. /\ m \in [S -> Nat] /\ stop \in SUBSET S /\ base \in [S -> A]
  OBVIOUS
<1>2. cut \in [S -> S] /\ Shrinks(S, m, stop, cut)
  <2>1. ASSUME NEW s \in S, s # <<>>
        PROVE  cut[s] \in S /\ m[cut[s]] < m[s]
    <3>1. Behind(s) \in Seq(Bytes) /\ Len(Behind(s)) < Len(s)
      BY <2>1, FirstLineFacts
    <3> QED
      BY <2>1, <3>1
  <2>2. \A s \in S : (IF s = <<>> THEN s ELSE Behind(s)) \in S
    BY <2>1
  <2> QED
    BY <2>1, <2>2 DEF Shrinks
<1>3. g \in [S \X A -> A]
  <2>1. ASSUME NEW s \in S, NEW a \in A, s # <<>>
        PROVE  <<SubSeq(s, 1, FirstEnd(s))>> \o a \in A
    <3>1. SubSeq(s, 1, FirstEnd(s)) \in Line
      BY <2>1, FirstLineFacts
    <3> DEFINE l == SubSeq(s, 1, FirstEnd(s))
    <3> HIDE DEF l
    <3>2. l \in Line => <<l>> \o a \in A
      OBVIOUS
    <3> QED
      BY <3>1, <3>2 DEF l
  <2>2. <<>> \in A
    OBVIOUS
  <2> HIDE DEF A, S
  <2>3. \A p \in S \X A : (IF p[1] = <<>> THEN <<>>
                           ELSE <<SubSeq(p[1], 1, FirstEnd(p[1]))>> \o p[2]) \in A
    BY <2>1, <2>2
  <2> QED
    BY <2>3
<1>4. \A s \in S : /\ base[s] = <<>> /\ (s \in stop <=> s = <<>>)
                   /\ (s # <<>> => cut[s] = Behind(s))
  OBVIOUS
<1>5. \A s \in S, a \in A :
        s # <<>> => g[<<s, a>>] = <<SubSeq(s, 1, FirstEnd(s))>> \o a
  <2> HIDE DEF A, S
  <2> QED
    OBVIOUS
<1> HIDE DEF m, stop, base, cut, g
<1>6. \E f \in [S -> A] : Recurs(f, S, stop, base, cut, g)
  <2> HIDE DEF A, S
  <2> QED
    BY <1>1, <1>2, <1>3, Recursion
<1>7. PICK f \in [S -> A] : Recurs(f, S, stop, base, cut, g)
  BY <1>6
<1>8. ASSUME NEW s \in S
      PROVE  f[s] = IF s = <<>> THEN <<>>
                    ELSE <<SubSeq(s, 1, FirstEnd(s))>> \o f[Behind(s)]
  <2>1. cut[s] \in S
    BY <1>2
  <2>2. f[s] = IF s \in stop THEN base[s] ELSE g[<<s, f[cut[s]]>>]
    BY <1>7 DEF Recurs
  <2>3. f[cut[s]] \in A
    BY <1>7, <2>1
  <2> HIDE DEF A, S
  <2> QED
    BY <1>4, <1>5, <2>2, <2>3
<1>9. eqn(f)
  <2>1. f = [s \in S |-> f[s]]
    BY <1>7
  <2> HIDE DEF S, A
  <2> QED
    BY <1>8, <2>1 DEF FirstEnd, Behind
<1>10. LinesOf = CHOOSE h : eqn(h)
  BY DEF LinesOf
<1>11. eqn(LinesOf)
  <2> HIDE DEF eqn
  <2> QED
    BY <1>9, <1>10
<1> QED
  BY <1>11 DEF FirstEnd, Behind

(* An empty text has no lines.                                               *)
LEMMA LinesOfNothing == LinesOf[<<>>] = <<>>
<1>1. <<>> \in Seq(Bytes)
  OBVIOUS
<1> QED
  BY <1>1, LinesEquation

(* Every text has lines. *)
LEMMA LinesType == \A t \in Seq(Bytes) : LinesOf[t] \in Seq(Line)
<1> DEFINE P == {d \in Nat : \A t \in Seq(Bytes) : Len(t) <= d => LinesOf[t] \in Seq(Line)}
<1>1. 0 \in P /\ P \in SUBSET Nat
  <2>1. ASSUME NEW t \in Seq(Bytes), Len(t) <= 0 PROVE LinesOf[t] \in Seq(Line)
    <3>1. t = <<>>
      BY <2>1
    <3> QED
      BY <3>1, LinesOfNothing
  <2> QED
    BY <2>1
<1>2. ASSUME NEW d \in P PROVE d + 1 \in P
  <2> SUFFICES ASSUME NEW t \in Seq(Bytes), Len(t) <= d + 1, t # <<>>
               PROVE  LinesOf[t] \in Seq(Line)
    <3>1. LinesOf[<<>>] \in Seq(Line)
      BY LinesOfNothing
    <3> QED
      BY <3>1
  <2> DEFINE l == SubSeq(t, 1, FirstEnd(t))
  <2>1. l \in Line /\ Behind(t) \in Seq(Bytes) /\ Len(Behind(t)) < Len(t)
    BY FirstLineFacts
  <2>2. Len(Behind(t)) <= d
    BY <2>1
  <2>3. LinesOf[Behind(t)] \in Seq(Line)
    BY <2>1, <2>2
  <2>4. LinesOf[t] = <<l>> \o LinesOf[Behind(t)]
    BY LinesEquation
  <2> HIDE DEF l
  <2> QED
    BY <2>1, <2>3, <2>4
<1> HIDE DEF P
<1>3. P = Nat
  BY <1>1, <1>2, Counting
<1> QED
  <2>1. ASSUME NEW t \in Seq(Bytes) PROVE LinesOf[t] \in Seq(Line)
    <3>1. Len(t) \in P /\ Len(t) <= Len(t)
      BY <1>3
    <3> QED
      BY <3>1 DEF P
  <2> QED
    BY <2>1

(* A text is its first line and the lines of what is behind it.              *)
LEMMA FirstOfLines ==
  ASSUME NEW t \in Seq(Bytes), NEW n \in 1 .. Len(t), Ends(t, n),
         \A m \in 1 .. n - 1 : ~Ends(t, m)
  PROVE  LinesOf[t] = <<SubSeq(t, 1, n)>> \o LinesOf[SubSeq(t, n + 1, Len(t))]
<1>1. t # <<>>
  OBVIOUS
<1>2. FirstEnd(t) \in 1 .. Len(t) /\ Ends(t, FirstEnd(t)) /\ FirstEnd(t) <= n
  BY <1>1, FirstEndFacts
<1>3. FirstEnd(t) = n
  BY <1>2
<1> QED
  BY <1>1, <1>3, LinesEquation DEF Behind

(* What has a line feed at its end and nowhere else is a line of its own.    *)
WellEnded(l) ==
  /\ l \in Line /\ l # <<>>
  /\ \A x \in 1 .. Len(l) : l[x] = LF <=> x = Len(l)

(* Such a line in front of a text is the first of its lines.                 *)
LEMMA LineInFront ==
  ASSUME NEW l, WellEnded(l), NEW t \in Seq(Bytes)
  PROVE  LinesOf[l \o t] = <<l>> \o LinesOf[t]
<1> DEFINE z == l \o t
           n == Len(l)
<1>1. l \in Seq(Bytes) /\ n \in Nat /\ n # 0 /\ n <= MaxLine - 1
  BY StreamAssumption DEF WellEnded, Line
<1>2. /\ z \in Seq(Bytes) /\ Len(z) = n + Len(t)
      /\ \A x \in 1 .. n : z[x] = l[x]
      /\ \A x \in 1 .. Len(t) : z[n + x] = t[x]
  BY <1>1
<1>3. n \in 1 .. Len(z) /\ n \in 1 .. n
  BY <1>1, <1>2
<1>4. Ends(z, n)
  BY <1>2, <1>3 DEF Ends, WellEnded
<1>5. ASSUME NEW m \in 1 .. n - 1 PROVE ~Ends(z, m)
  <2>1. m \in 1 .. n /\ m # n /\ m # Len(z) /\ m # MaxLine - 1
    BY <1>1, <1>2, StreamAssumption
  <2> QED
    BY <1>2, <2>1 DEF Ends, WellEnded
<1>6. SubSeq(z, 1, n) = l
  <2> HIDE DEF z
  <2>1. \A x \in 1 .. n : z[x] \in Bytes
    BY <1>2, <1>3
  <2> QED
    BY <1>1, <1>2, <1>3, <2>1, SubSeqProperties
<1>7. SubSeq(z, n + 1, Len(z)) = t
  <2> HIDE DEF z
  <2>1. Len(SubSeq(z, n + 1, Len(z))) = Len(t)
    BY <1>1, <1>2, SubSeqProperties
  <2>2. \A x \in 1 .. Len(t) : SubSeq(z, n + 1, Len(z))[x] = t[x]
    BY <1>1, <1>2, SubSeqProperties
  <2>3. SubSeq(z, n + 1, Len(z)) \in Seq(Bytes)
    BY <1>1, <1>2, SubSeqProperties
  <2> DEFINE r == SubSeq(z, n + 1, Len(z))
  <2> HIDE DEF r, n
  <2>4. r \in Seq(Bytes) /\ Len(r) = Len(t) /\ \A x \in 1 .. Len(r) : r[x] = t[x]
    BY <2>1, <2>2, <2>3 DEF r
  <2>5. r = t
    BY <2>4, SeqEqual
  <2> QED
    BY <2>5 DEF r
<1> HIDE DEF z, n
<1>8. LinesOf[z] = <<SubSeq(z, 1, n)>> \o LinesOf[SubSeq(z, n + 1, Len(z))]
  BY <1>2, <1>3, <1>4, <1>5, FirstOfLines
<1> QED
  BY <1>6, <1>7, <1>8 DEF z

-----------------------------------------------------------------------------
(* What the files hold. *)

Reading == Ranges \cup {NoRange}

(* The readings of lines, and the ranges among them.                         *)
Read(ls) == [x \in 1 .. Len(ls) |-> RangeIn[ls[x]]]

Found(ls) == OnlyRanges(Read(ls))

AsRange(x) == IF x = NoRange THEN <<>> ELSE <<x>>

(* A reading more yields its range behind the others, if it is one.          *)
LEMMA OnlyRangesFacts ==
  ASSUME NEW r \in Seq(Reading), NEW x \in Reading
  PROVE  /\ OnlyRanges(<<>>) = <<>>
         /\ OnlyRanges(r) \in Seq(Ranges)
         /\ OnlyRanges(Append(r, x)) = OnlyRanges(r) \o AsRange(x)
<1> DEFINE pick(s) == [n \in 1 .. Len(s) |-> IF s[n] = NoRange THEN <<>> ELSE <<s[n]>>]
<1>1. ASSUME NEW y \in Reading PROVE AsRange(y) \in Seq(Ranges)
  <2>1. y # NoRange => y \in Ranges
    BY DEF Reading
  <2> QED
    BY <2>1 DEF AsRange
<1>2. \A s : OnlyRanges(s) = FlattenSeq(pick(s))
  BY DEF OnlyRanges
<1>3. pick(<<>>) = <<>>
  OBVIOUS
<1>4. pick(r) \in Seq(Seq(Ranges))
  <2>1. Len(r) \in Nat /\ \A n \in 1 .. Len(r) : r[n] \in Reading
    OBVIOUS
  <2> HIDE DEF Reading
  <2>2. \A n \in 1 .. Len(r) : (IF r[n] = NoRange THEN <<>> ELSE <<r[n]>>) \in Seq(Ranges)
    BY <1>1, <2>1 DEF AsRange
  <2> QED
    BY <2>1, <2>2
<1>5. pick(Append(r, x)) = Append(pick(r), AsRange(x))
  <2> DEFINE z == Append(r, x)
  <2>1. /\ Len(r) \in Nat /\ Len(z) = Len(r) + 1 /\ z[Len(r) + 1] = x
        /\ \A n \in 1 .. Len(r) : z[n] = r[n]
    OBVIOUS
  <2> HIDE DEF z
  <2> DEFINE a == pick(z)
             b == Append(pick(r), AsRange(x))
  <2>2. AsRange(x) \in Seq(Ranges)
    BY <1>1
  <2>3. /\ b \in Seq(Seq(Ranges)) /\ Len(b) = Len(r) + 1 /\ b[Len(r) + 1] = AsRange(x)
        /\ \A n \in 1 .. Len(r) : b[n] = pick(r)[n]
    BY <1>4, <2>1, <2>2
  <2>4. Len(a) = Len(r) + 1
    BY <2>1
  <2>5. \A n \in 1 .. Len(r) + 1 : a[n] = b[n]
    BY <2>1, <2>3 DEF AsRange
  <2>6. a \in Seq(Seq(Ranges))
    <3>1. \A n \in 1 .. Len(r) + 1 : b[n] \in Seq(Ranges)
      BY <2>1, <2>3
    <3>2. \A n \in 1 .. Len(z) : a[n] \in Seq(Ranges)
      BY <2>1, <2>5, <3>1
    <3> QED
      BY <2>1, <3>2
  <2> HIDE DEF a, b
  <2>7. a = b
    BY <2>1, <2>3, <2>4, <2>5, <2>6, SeqEqual
  <2> QED
    BY <2>7 DEF a, b, z
<1> HIDE DEF pick
<1>6. AsRange(x) \in Seq(Ranges)
  BY <1>1
<1> QED
  BY <1>2, <1>3, <1>4, <1>5, <1>6, FlattenNothing, FlattenMore

(* A line more yields the range it holds, if any.                            *)
LEMMA FoundFacts ==
  ASSUME NEW ls \in Seq(Line), NEW l \in Line
  PROVE  /\ Found(<<>>) = <<>>
         /\ Found(ls) \in Seq(Ranges)
         /\ Found(Append(ls, l)) = Found(ls) \o AsRange(RangeIn[l])
<1>1. \A m \in Line : RangeIn[m] \in Reading
  BY LoaderAssumption DEF Reading
<1>2. Read(<<>>) = <<>>
  BY DEF Read
<1>3. Read(ls) \in Seq(Reading)
  <2>1. Len(ls) \in Nat /\ \A n \in 1 .. Len(ls) : RangeIn[ls[n]] \in Reading
    BY <1>1
  <2> HIDE DEF Reading
  <2> QED
    BY <2>1 DEF Read
<1>4. Read(Append(ls, l)) = Append(Read(ls), RangeIn[l])
  <2> DEFINE z == Append(ls, l)
             a == Read(z)
             b == Append(Read(ls), RangeIn[l])
  <2>1. /\ Len(ls) \in Nat /\ Len(z) = Len(ls) + 1 /\ z[Len(ls) + 1] = l
        /\ \A n \in 1 .. Len(ls) : z[n] = ls[n]
    OBVIOUS
  <2> HIDE DEF z
  <2>2. RangeIn[l] \in Reading
    BY <1>1
  <2>3. Len(Read(ls)) = Len(ls) /\ \A n \in 1 .. Len(ls) : Read(ls)[n] = RangeIn[ls[n]]
    BY <2>1 DEF Read
  <2>4. /\ b \in Seq(Reading) /\ Len(b) = Len(ls) + 1 /\ b[Len(ls) + 1] = RangeIn[l]
        /\ \A n \in 1 .. Len(ls) : b[n] = RangeIn[ls[n]]
    <3> HIDE DEF Reading
    <3> QED
      BY <1>3, <2>1, <2>2, <2>3
  <2>5. Len(a) = Len(ls) + 1 /\ \A n \in 1 .. Len(ls) + 1 : a[n] = b[n]
    BY <2>1, <2>4 DEF Read
  <2>6. a \in Seq(Reading)
    <3> HIDE DEF Reading
    <3>1. \A n \in 1 .. Len(ls) + 1 : b[n] \in Reading
      BY <2>1, <2>4
    <3>2. \A n \in 1 .. Len(z) : RangeIn[z[n]] \in Reading
      BY <2>1, <2>5, <3>1 DEF Read
    <3> QED
      BY <2>1, <3>2 DEF Read
  <2> HIDE DEF a, b, Reading
  <2>7. a = b
    BY <2>1, <2>4, <2>5, <2>6, SeqEqual
  <2> QED
    BY <2>7 DEF a, b, z
<1>5. RangeIn[l] \in Reading
  BY <1>1
<1> HIDE DEF Reading
<1> QED
  BY <1>2, <1>3, <1>4, <1>5, OnlyRangesFacts DEF Found

(* What a file is and yields, for standard input and for a named file.       *)
LoadableAs(stdin, c) ==
  /\ c.readable
  /\ \/ IsText(c)
     \/ ~stdin /\ c.format = "p2b"
     \/ ~stdin /\ c.format = "p2b3" /\ c.tear \in {"no", "count"}

ItemsOf(c) == IF c.format = "p2b3" /\ c.tear = "count" THEN <<>> ELSE c.items

RangesAs(stdin, c) ==
  IF ~LoadableAs(stdin, c) THEN <<>>
  ELSE IF IsText(c) THEN Found(LinesOf[c.text])
  ELSE ItemsOf(c)

(* What a file holds depends on the state only by Stdin.                     *)
LEMMA RangesAsFacts ==
  ASSUME NEW c
  PROVE  /\ Loadable(c) <=> LoadableAs(Stdin, c)
         /\ RangesIn(c) = RangesAs(Stdin, c)
<1>1. TextRanges(c) = Read(LinesOf[c.text])
  BY DEF TextRanges, Read
<1>2. Loadable(c) <=> LoadableAs(Stdin, c)
  BY DEF Loadable, LoadableAs
<1> QED
  BY <1>1, <1>2 DEF RangesIn, RangesAs, ItemsOf, Found

(* A file yields ranges. *)
LEMMA RangesAsType ==
  ASSUME NEW stdin, NEW c \in Content
  PROVE  RangesAs(stdin, c) \in Seq(Ranges) /\ ItemsOf(c) \in Seq(Ranges)
<1>1. c.text \in Seq(Bytes) /\ c.items \in Seq(Ranges)
  BY DEF Content
<1>2. LinesOf[c.text] \in Seq(Line) /\ <<>> \in Line
  BY <1>1, LinesType, NullIsLine
<1>3. Found(LinesOf[c.text]) \in Seq(Ranges)
  BY <1>2, FoundFacts
<1>4. <<>> \in Seq(Ranges)
  OBVIOUS
<1> QED
  BY <1>1, <1>3, <1>4 DEF RangesAs, ItemsOf

(* What a list of files holds.                                               *)
Whole(stdin, fs) == FlattenSeq([x \in 1 .. Len(fs) |-> RangesAs(stdin, fs[x])])

(* A file more adds what it holds behind the others.                         *)
LEMMA WholeFacts ==
  ASSUME NEW stdin, NEW fs \in Seq(Content), NEW c \in Content
  PROVE  /\ Whole(stdin, <<>>) = <<>>
         /\ Whole(stdin, fs) \in Seq(Ranges)
         /\ Whole(stdin, Append(fs, c)) = Whole(stdin, fs) \o RangesAs(stdin, c)
<1> DEFINE R == Seq(Ranges)
           list(s) == [x \in 1 .. Len(s) |-> RangesAs(stdin, s[x])]
<1>1. \A d \in Content : RangesAs(stdin, d) \in R
  BY RangesAsType
<1> HIDE DEF R
<1>2. list(<<>>) = <<>>
  OBVIOUS
<1>3. /\ list(fs) \in Seq(R) /\ Len(list(fs)) = Len(fs) /\ Len(fs) \in Nat
      /\ \A n \in 1 .. Len(fs) : list(fs)[n] = RangesAs(stdin, fs[n])
  <2>1. Len(fs) \in Nat /\ \A n \in 1 .. Len(fs) : RangesAs(stdin, fs[n]) \in R
    BY <1>1
  <2> QED
    BY <2>1
<1>4. list(Append(fs, c)) = Append(list(fs), RangesAs(stdin, c))
  <2> DEFINE z == Append(fs, c)
             a == list(z)
             b == Append(list(fs), RangesAs(stdin, c))
  <2>1. /\ z \in Seq(Content) /\ Len(z) = Len(fs) + 1 /\ z[Len(fs) + 1] = c
        /\ \A n \in 1 .. Len(fs) : z[n] = fs[n]
    OBVIOUS
  <2> HIDE DEF z
  <2>2. RangesAs(stdin, c) \in R
    BY <1>1
  <2>3. /\ b \in Seq(R) /\ Len(b) = Len(fs) + 1 /\ b[Len(fs) + 1] = RangesAs(stdin, c)
        /\ \A n \in 1 .. Len(fs) : b[n] = RangesAs(stdin, fs[n])
    <3> DEFINE l == list(fs)
               x == RangesAs(stdin, c)
    <3>1. l \in Seq(R) /\ Len(l) = Len(fs) /\ x \in R
      BY <1>3, <2>2
    <3>2. \A n \in 1 .. Len(fs) : l[n] = RangesAs(stdin, fs[n])
      BY <1>3
    <3> HIDE DEF l, x
    <3>3. /\ Append(l, x) \in Seq(R) /\ Len(Append(l, x)) = Len(l) + 1
          /\ Append(l, x)[Len(l) + 1] = x
          /\ \A n \in 1 .. Len(l) : Append(l, x)[n] = l[n]
      BY <3>1
    <3> QED
      BY <3>1, <3>2, <3>3 DEF l, x
  <2>4. Len(a) = Len(fs) + 1 /\ \A n \in 1 .. Len(fs) + 1 : a[n] = RangesAs(stdin, z[n])
    BY <1>3, <2>1
  <2>5. a \in Seq(R)
    <3>1. Len(z) \in Nat /\ \A n \in 1 .. Len(z) : RangesAs(stdin, z[n]) \in R
      BY <1>1, <2>1
    <3> QED
      BY <3>1
  <2>6. \A n \in 1 .. Len(fs) + 1 : a[n] = b[n]
    <3> HIDE DEF a, b
    <3> QED
      BY <1>3, <2>1, <2>3, <2>4
  <2> HIDE DEF a, b
  <2>7. a = b
    BY <2>3, <2>4, <2>5, <2>6, SeqEqual
  <2> QED
    BY <2>7 DEF a, b, z
<1>5. RangesAs(stdin, c) \in R
  BY <1>1
<1> HIDE DEF list
<1>6. \A s : Whole(stdin, s) = FlattenSeq(list(s))
  BY DEF Whole, list
<1>7. Whole(stdin, <<>>) = <<>>
  BY <1>2, <1>6, FlattenNothing
<1>8. /\ FlattenSeq(list(fs)) \in Seq(Ranges)
      /\ FlattenSeq(Append(list(fs), RangesAs(stdin, c)))
           = FlattenSeq(list(fs)) \o RangesAs(stdin, c)
  BY <1>3, <1>5, FlattenMore DEF R
<1> QED
  BY <1>4, <1>6, <1>7, <1>8

AllLoadable(stdin, fs) == \A x \in 1 .. Len(fs) : LoadableAs(stdin, fs[x])

(* All files can be loaded if those before the last and the last can.        *)
LEMMA AllLoadableFacts ==
  ASSUME NEW stdin, NEW fs \in Seq(Content), NEW c \in Content
  PROVE  /\ AllLoadable(stdin, <<>>)
         /\ AllLoadable(stdin, Append(fs, c)) <=>
              AllLoadable(stdin, fs) /\ LoadableAs(stdin, c)
<1> DEFINE z == Append(fs, c)
<1>1. /\ Len(fs) \in Nat /\ Len(z) = Len(fs) + 1 /\ z[Len(fs) + 1] = c
      /\ \A n \in 1 .. Len(fs) : z[n] = fs[n]
  OBVIOUS
<1> HIDE DEF z
<1>2. \A n \in 1 .. Len(z) : n \in 1 .. Len(fs) \/ n = Len(fs) + 1
  BY <1>1
<1>3. Len(fs) + 1 \in 1 .. Len(z) /\ \A n \in 1 .. Len(fs) : n \in 1 .. Len(z)
  BY <1>1
<1>4. AllLoadable(stdin, z) <=> AllLoadable(stdin, fs) /\ LoadableAs(stdin, c)
  BY <1>1, <1>2, <1>3 DEF AllLoadable
<1>5. AllLoadable(stdin, <<>>)
  BY DEF AllLoadable
<1> QED
  BY <1>4, <1>5 DEF z

(* Joined sequences. *)
LEMMA JoinFacts ==
  ASSUME NEW S, NEW a \in Seq(S), NEW b \in Seq(S), NEW e \in S
  PROVE  /\ a \o <<>> = a /\ <<>> \o a = a
         /\ a \o <<e>> = Append(a, e)
         /\ a \o b \in Seq(S) /\ Append(a, e) \in Seq(S)
         /\ Append(a, e) \o b = a \o (<<e>> \o b)
         /\ a \o Append(b, e) = Append(a \o b, e)
<1>1. a \o <<>> = a /\ <<>> \o a = a /\ a \o <<e>> = Append(a, e)
  OBVIOUS
<1>2. a \o b \in Seq(S) /\ Append(a, e) \in Seq(S)
  OBVIOUS
<1>3. Append(a, e) \o b = a \o (<<e>> \o b)
  OBVIOUS
<1>4. a \o Append(b, e) = Append(a \o b, e)
  OBVIOUS
<1> QED
  BY <1>1, <1>2, <1>3, <1>4

(* The ranges of entries.                                                    *)
RangeList(s) == [x \in 1 .. Len(s) |-> <<s[x].ip_min, s[x].ip_max>>]

(* An append adds its range behind the others.                               *)
LEMMA RangeListAppend ==
  ASSUME TypeOK, NEW r \in Ranges, blocklist_append(r)
  PROVE  RangeList(entries') = Append(RangeList(entries), r)
<1> DEFINE e == [ip_min |-> r[1], ip_max |-> r[2], name |-> {Len(entries) + 1}]
<1>1. entries' = Append(entries, e)
  BY DEF blocklist_append
<1>2. <<e.ip_min, e.ip_max>> = r
  BY BlocklistAssumption
<1> HIDE DEF e
<1>3. entries \in Seq(Entry \cup {e})
  <2>1. entries \in Seq(Entry)
    BY DEF TypeOK
  <2> QED
    BY <2>1
<1>4. /\ Len(entries) \in Nat /\ Len(entries') = Len(entries) + 1
      /\ entries'[Len(entries) + 1] = e
      /\ \A x \in 1 .. Len(entries) : entries'[x] = entries[x]
  BY <1>1, <1>3, AppendProperties
<1> DEFINE Q == {<<entries[x].ip_min, entries[x].ip_max>> : x \in 1 .. Len(entries)} \cup {r}
           a == RangeList(entries')
           l == RangeList(entries)
           b == Append(l, r)
<1>5. /\ l \in Seq(Q) /\ Len(l) = Len(entries)
      /\ \A x \in 1 .. Len(entries) : l[x] = <<entries[x].ip_min, entries[x].ip_max>>
  BY <1>4 DEF RangeList
<1>6. r \in Q
  OBVIOUS
<1>7. /\ Len(a) = Len(entries) + 1
      /\ \A x \in 1 .. Len(entries) + 1 : a[x] = <<entries'[x].ip_min, entries'[x].ip_max>>
  BY <1>4 DEF RangeList
<1> HIDE DEF Q, l
<1>8. /\ b \in Seq(Q) /\ Len(b) = Len(l) + 1 /\ b[Len(l) + 1] = r
      /\ \A x \in 1 .. Len(l) : b[x] = l[x]
  BY <1>5, <1>6
<1>9. \A x \in 1 .. Len(entries) + 1 : a[x] = b[x]
  <2> HIDE DEF a, b
  <2> SUFFICES ASSUME NEW x \in 1 .. Len(entries) + 1 PROVE a[x] = b[x]
    OBVIOUS
  <2>1. a[x] = <<entries'[x].ip_min, entries'[x].ip_max>>
    BY <1>7
  <2>2. CASE x = Len(entries) + 1
    BY <1>2, <1>4, <1>5, <1>8, <2>1, <2>2
  <2>3. CASE x # Len(entries) + 1
    <3>1. x \in 1 .. Len(entries)
      BY <1>4, <2>3
    <3> QED
      BY <1>4, <1>5, <1>8, <2>1, <3>1
  <2> QED
    BY <2>2, <2>3
<1>10. a \in Seq(Q)
  <2>1. \A x \in 1 .. Len(entries) + 1 : b[x] \in Q
    <3> HIDE DEF b
    <3> QED
      BY <1>4, <1>5, <1>8
  <2>2. \A x \in 1 .. Len(entries') : <<entries'[x].ip_min, entries'[x].ip_max>> \in Q
    <3> HIDE DEF a, b
    <3> QED
      BY <1>4, <1>7, <1>9, <2>1
  <2> QED
    BY <1>4, <2>2 DEF RangeList
<1> HIDE DEF a, b
<1>11. a = b
  BY <1>5, <1>7, <1>8, <1>9, <1>10, SeqEqual
<1> QED
  BY <1>11 DEF a, b, l

(* Neither a rollback nor an append touches the entries before it.           *)
LEMMA RangeListFacts ==
  ASSUME TypeOK, NEW n \in 0 .. Len(entries)
  PROVE  /\ SubSeq(entries, 1, Len(entries)) = entries
         /\ SubSeq(SubSeq(entries, 1, n), 1, n) = SubSeq(entries, 1, n)
         /\ \A r \in Ranges : blocklist_append(r) =>
              SubSeq(entries', 1, n) = SubSeq(entries, 1, n)
<1> DEFINE s == SubSeq(entries, 1, n)
<1>1. entries \in Seq(Entry) /\ Len(entries) \in Nat
  BY EntryFacts DEF TypeOK
<1>2. \A x \in 1 .. Len(entries) : entries[x] \in Entry
  BY EntryFacts
<1> HIDE DEF Entry
<1>3. SubSeq(entries, 1, Len(entries)) = entries
  BY <1>1
<1>4. /\ s \in Seq(Entry) /\ Len(s) = n
      /\ \A x \in 1 .. n : s[x] = entries[x]
  BY <1>1, <1>2, SubSeqProperties
<1>5. SubSeq(s, 1, n) = s
  <2> HIDE DEF s
  <2>1. SubSeq(s, 1, Len(s)) = s
    BY <1>4
  <2> QED
    BY <1>4, <2>1
<1>6. ASSUME NEW r \in Ranges, blocklist_append(r)
      PROVE  SubSeq(entries', 1, n) = s
  <2> DEFINE e == [ip_min |-> r[1], ip_max |-> r[2], name |-> {Len(entries) + 1}]
             T == Entry \cup {e}
             z == SubSeq(entries', 1, n)
  <2>1. entries' = Append(entries, e)
    BY <1>6 DEF blocklist_append
  <2>2. e \in T /\ entries \in Seq(T) /\ s \in Seq(T)
    BY <1>1, <1>4
  <2> HIDE DEF e, T, s
  <2>3. /\ entries' \in Seq(T) /\ Len(entries') = Len(entries) + 1
        /\ \A x \in 1 .. Len(entries) : entries'[x] = entries[x]
    BY <2>1, <2>2, AppendProperties
  <2>4. \A x \in 1 .. n : x \in 1 .. Len(entries) /\ entries'[x] = entries[x] /\ entries'[x] \in T
    <3>1. \A x \in 1 .. n : x \in 1 .. Len(entries) /\ x \in 1 .. Len(entries')
      BY <1>1, <2>3
    <3> QED
      BY <2>3, <3>1
  <2>5. z \in Seq(T) /\ Len(z) = n /\ \A x \in 1 .. n : z[x] = entries'[x]
    BY <1>1, <2>3, <2>4, SubSeqProperties
  <2> HIDE DEF z
  <2>6. z = s
    BY <1>4, <2>2, <2>4, <2>5, SeqEqual
  <2> QED
    BY <2>6 DEF z
<1> QED
  BY <1>3, <1>5, <1>6

-----------------------------------------------------------------------------
(* While a file is read, the list holds what the files before it hold and    *)
(* what the lines, or the items, read of it so far have yielded.             *)

(* The lines taken and their counters: a text that has yielded nothing is    *)
(* given up in time.                                                         *)
Counted(taken, lines, ranges) ==
  /\ taken \in Seq(Line)
  /\ Len(taken) = lines
  /\ ranges = 0 => /\ lines <= TryLines
                   /\ \A x \in 1 .. lines : RangeIn[taken[x]] = NoRange
  /\ ranges # 0 => \E x \in 1 .. lines : x <= TryLines /\ RangeIn[taken[x]] # NoRange

ToCome ==
  IF step = "line" /\ buf # <<>> THEN <<buf>> \o LinesOf[data] ELSE LinesOf[data]

(* The files before the current one. *)
Earlier == SubSeq(files, 1, Len(files) - 1)

TextInv ==
  \E taken : /\ Counted(taken, total, ok)
             /\ LinesOf[Current.text] = taken \o ToCome
             /\ RangeList(entries) = Whole(Stdin, Earlier) \o Found(taken)

ItemsInv ==
  \E done \in Seq(Ranges) : /\ RangeList(entries) = Whole(Stdin, Earlier) \o done
                            /\ done \o rest = ItemsOf(Current)

InFile ==
  /\ files # <<>> /\ Current.readable
  /\ RangeList(SubSeq(entries, 1, prevcount)) = Whole(Stdin, Earlier)
  /\ ~Stdin => (ret = 0 <=> AllLoadable(Stdin, Earlier))
  /\ step \in {"ascii", "line"} => TextInv
  /\ step = "line" /\ buf = <<>> => data = <<>>
  /\ step \in {"header", "binary"} => ~IsText(Current)
  /\ step = "header" => RangeList(entries) = Whole(Stdin, Earlier)
  /\ step = "binary" => HeaderReadable(Current) /\ ItemsInv

Reads == step \in {"ascii", "line", "header", "binary"}

HoldInv ==
  /\ step = "next" \/ Reads => pc = "load"
  /\ step = "next" => RangeList(entries) = Whole(Stdin, files)
  /\ Reads => InFile
  /\ pc # "load" => RangeList(loaded) = Whole(Stdin, files)
  /\ step = "merge" => pc # "load"
  /\ step \in {"next", "merge"} =>
       (~Stdin => (ret = 0 <=> AllLoadable(Stdin, files)))
  /\ ~opt_merge => ~Stdin

(* The file being read is the last one. *)
LEMMA FileFacts ==
  ASSUME NEW fs \in Seq(Content), NEW c \in Content
  PROVE  /\ SubSeq(Append(fs, c), 1, Len(Append(fs, c)) - 1) = fs
         /\ Append(fs, c)[Len(Append(fs, c))] = c
         /\ fs # <<>> => /\ SubSeq(fs, 1, Len(fs) - 1) \in Seq(Content)
                         /\ fs[Len(fs)] \in Content
                         /\ fs = Append(SubSeq(fs, 1, Len(fs) - 1), fs[Len(fs)])
<1> HIDE DEF Content
<1>1. /\ SubSeq(Append(fs, c), 1, Len(Append(fs, c)) - 1) = fs
      /\ Append(fs, c)[Len(Append(fs, c))] = c
  OBVIOUS
<1>2. ASSUME fs # <<>>
      PROVE  /\ SubSeq(fs, 1, Len(fs) - 1) \in Seq(Content)
             /\ fs[Len(fs)] \in Content
             /\ fs = Append(SubSeq(fs, 1, Len(fs) - 1), fs[Len(fs)])
  BY <1>2
<1> QED
  BY <1>1, <1>2

(* A file is opened: none of its lines has been taken.                       *)
LEMMA HoldOpen ==
  ASSUME TypeOK, LoaderInv, HoldInv, AsciiOpen
  PROVE  HoldInv'
<1>1. /\ step = "next" /\ pc = "load"
      /\ prevcount' = Len(entries) /\ total' = 0 /\ ok' = 0
      /\ UNCHANGED <<entries, loaded, pc, blockfiles, opt_merge>>
  BY DEF AsciiOpen, premergeVars, vars, HoldInv
<1>2. PICK c \in IF Stdin THEN {d \in Contents : Piped(d)}
                          ELSE blockfiles[Len(files) + 1] :
        /\ files' = Append(files, c)
        /\ \/ c.readable /\ step' = "ascii" /\ stream_open(c.gz, c.text) /\ UNCHANGED ret
           \/ ~c.readable /\ ret' = -1 /\ UNCHANGED <<step, streamVars>>
  BY DEF AsciiOpen
<1>3. files \in Seq(Content) /\ files' \in Seq(Content) /\ c \in Content
  <2>1. files \in Seq(Content) /\ c \in Content
    BY <1>2, OpenedIsContent DEF LoaderInv, FilesInv, AsciiOpen
  <2> QED
    BY <1>2, <2>1, AppendProperties
<1>4. Stdin' = Stdin
  BY <1>1 DEF Stdin
<1>5. /\ RangeList(entries) = Whole(Stdin, files)
      /\ (~Stdin => (ret = 0 <=> AllLoadable(Stdin, files)))
      /\ (~opt_merge => ~Stdin)
  BY <1>1 DEF HoldInv
<1>6. /\ Whole(Stdin, files) \in Seq(Ranges)
      /\ Whole(Stdin, Append(files, c)) = Whole(Stdin, files) \o RangesAs(Stdin, c)
  BY <1>3, WholeFacts
<1>7. \A a \in Seq(Ranges) : a \o <<>> = a
  OBVIOUS
<1>8. CASE ~c.readable
  <2>1. step' = "next" /\ ret' = -1
    BY <1>1, <1>2, <1>8
  <2>2. ~LoadableAs(Stdin, c)
    BY <1>8 DEF LoadableAs
  <2>3. RangesAs(Stdin, c) = <<>>
    BY <2>2 DEF RangesAs
  <2>4. RangeList(entries') = Whole(Stdin', files')
    BY <1>1, <1>2, <1>4, <1>5, <1>6, <1>7, <2>3
  <2>5. ~AllLoadable(Stdin', files')
    BY <1>2, <1>3, <1>4, <2>2, AllLoadableFacts
  <2> QED
    BY <1>1, <1>4, <1>5, <2>1, <2>4, <2>5 DEF HoldInv, Reads
<1>9. CASE c.readable
  <2>1. step' = "ascii" /\ ret' = ret /\ data' = c.text
    BY <1>2, <1>9 DEF stream_open
  <2>2. Current' = c /\ Earlier' = files /\ files' # <<>>
    BY <1>2, <1>3, FileFacts DEF Current, Earlier
  <2>3. c.text \in Seq(Bytes)
    BY <1>3 DEF Content
  <2>4. LinesOf[c.text] \in Seq(Line)
    BY <2>3, LinesType
  <2>5. LinesOf[c.text] = <<>> \o LinesOf[c.text]
    BY <2>4
  <2>6. Counted(<<>>, total', ok')
    <3>1. <<>> \in Seq(Line) /\ Len(<<>>) = 0 /\ 0 <= TryLines /\ 1 .. 0 = {}
      BY LoaderAssumption
    <3> QED
      BY <1>1, <3>1 DEF Counted
  <2>7. RangeList(entries) = Whole(Stdin, files) \o Found(<<>>)
    <3>1. <<>> \in Seq(Line)
      OBVIOUS
    <3>2. Found(<<>>) = <<>>
      BY <3>1, FoundFacts, NullIsLine
    <3> QED
      BY <1>5, <1>6, <1>7, <3>2
  <2>8. ToCome' = LinesOf[c.text]
    BY <2>1 DEF ToCome
  <2>9. TextInv'
    BY <1>1, <1>4, <2>2, <2>5, <2>6, <2>7, <2>8 DEF TextInv
  <2>10. RangeList(SubSeq(entries', 1, prevcount')) = Whole(Stdin, files)
    <3>1. Len(entries) \in 0 .. Len(entries)
      BY EntryFacts
    <3> QED
      BY <1>1, <1>5, <3>1, RangeListFacts
  <2>11. InFile'
    BY <1>4, <1>5, <1>9, <2>1, <2>2, <2>9, <2>10 DEF InFile
  <2> QED
    BY <1>1, <1>4, <1>5, <2>1, <2>11 DEF HoldInv, Reads
<1> QED
  BY <1>8, <1>9

(* What the invariants say of the file that is being read. *)
LEMMA ReadingFacts ==
  ASSUME LoaderInv, HoldInv, Reads
  PROVE  /\ InFile /\ pc = "load" /\ prevcount \in 0 .. Len(entries)
         /\ Current \in Content /\ Current.text \in Seq(Bytes)
         /\ Earlier \in Seq(Content) /\ files = Append(Earlier, Current)
         /\ Whole(Stdin, Earlier) \in Seq(Ranges)
<1>1. InFile /\ pc = "load"
  BY DEF HoldInv
<1>2. files \in Seq(Content) /\ files # <<>> /\ prevcount \in 0 .. Len(entries)
  BY <1>1 DEF LoaderInv, FilesInv, ParseInv, InFile, Reads
<1>3. Current \in Content /\ Earlier \in Seq(Content) /\ files = Append(Earlier, Current)
  BY <1>2, FileFacts DEF Current, Earlier
<1>4. Current.text \in Seq(Bytes)
  BY <1>3 DEF Content
<1> QED
  BY <1>1, <1>2, <1>3, <1>4, WholeFacts

(* The next line of the text, or its end. *)
LEMMA HoldRead ==
  ASSUME LoaderInv, HoldInv, AsciiRead
  PROVE  HoldInv'
<1>1. /\ step = "ascii" /\ step' = "line" /\ stream_getline
      /\ UNCHANGED <<entries, loaded, pc, blockfiles, opt_merge, files, total, ok,
                     prevcount, ret>>
  BY DEF AsciiRead, premergeVars, vars, fileVars
<1>2. /\ Stdin' = Stdin /\ Current' = Current /\ Earlier' = Earlier
      /\ Reads /\ StreamInv /\ opened
  BY <1>1 DEF Stdin, Current, Earlier, Reads, LoaderInv, ParseInv
<1>3. InFile /\ pc = "load"
  BY <1>2, ReadingFacts
<1>4. ToCome' = LinesOf[data] /\ (buf' = <<>> => data' = <<>>)
  <2>1. data \in Seq(Bytes) /\ (Reader!ReadLine \/ Reader!ReadEnd)
    BY <1>1, <1>2, StreamGetlineInv DEF StreamInv
  <2>2. CASE Reader!ReadLine
    <3>1. PICK n \in 1 .. Len(data) :
            /\ Reader!Complete(n) /\ \A m \in 1 .. n - 1 : ~Reader!Complete(m)
            /\ buf' = SubSeq(data, 1, n) /\ data' = SubSeq(data, n + 1, Len(data))
      BY <2>2 DEF Reader!ReadLine
    <3>2. Ends(data, n) /\ \A m \in 1 .. n - 1 : ~Ends(data, m)
      BY <3>1 DEF Reader!Complete, Ends
    <3>3. LinesOf[data] = <<buf'>> \o LinesOf[data']
      BY <2>1, <3>1, <3>2, FirstOfLines
    <3>4. buf' # <<>>
      <4>1. \A m \in 1 .. n : data[m] \in Bytes
        BY <2>1
      <4>2. Len(buf') = n /\ n # 0
        BY <3>1, <4>1, SubSeqProperties
      <4> QED
        BY <4>2
    <3> QED
      BY <1>1, <3>3, <3>4 DEF ToCome
  <2>3. CASE Reader!ReadEnd
    BY <1>1, <2>3 DEF Reader!ReadEnd, ToCome
  <2> QED
    BY <2>1, <2>2, <2>3
<1>5. TextInv'
  <2>1. ToCome = LinesOf[data] /\ TextInv
    BY <1>1, <1>3 DEF ToCome, InFile
  <2> QED
    BY <1>1, <1>2, <1>4, <2>1 DEF TextInv
<1>6. InFile'
  BY <1>1, <1>2, <1>3, <1>4, <1>5 DEF InFile
<1> QED
  BY <1>1, <1>2, <1>6 DEF HoldInv, Reads

(* One more line is counted. *)
LEMMA OneMoreLine ==
  ASSUME NEW taken, NEW t \in Nat, NEW n \in Nat, Counted(taken, t, n),
         NEW l \in Line, ~(n = 0 /\ t + 1 > TryLines)
  PROVE  Counted(Append(taken, l), t + 1, IF RangeIn[l] = NoRange THEN n ELSE n + 1)
<1> DEFINE z == Append(taken, l)
<1>1. taken \in Seq(Line) /\ Len(taken) = t
  BY DEF Counted
<1>2. /\ z \in Seq(Line) /\ Len(z) = t + 1 /\ z[t + 1] = l
      /\ \A x \in 1 .. t : z[x] = taken[x]
  <2> HIDE DEF Counted
  <2> QED
    BY <1>1
<1> HIDE DEF z
<1>3. /\ \A x \in 1 .. t + 1 : x \in 1 .. t \/ x = t + 1
      /\ \A x \in 1 .. t : x \in 1 .. t + 1
      /\ t + 1 \in 1 .. t + 1
  OBVIOUS
<1>4. CASE n = 0
  <2>1. t + 1 <= TryLines /\ \A x \in 1 .. t : RangeIn[z[x]] = NoRange
    BY <1>2, <1>4, LoaderAssumption DEF Counted
  <2>2. CASE RangeIn[l] = NoRange
    <3>1. \A x \in 1 .. t + 1 : RangeIn[z[x]] = NoRange
      BY <1>2, <1>3, <2>1, <2>2
    <3> QED
      BY <1>2, <1>4, <2>1, <2>2, <3>1 DEF Counted, z
  <2>3. CASE RangeIn[l] # NoRange
    <3>1. \E x \in 1 .. t + 1 : x <= TryLines /\ RangeIn[z[x]] # NoRange
      BY <1>2, <1>3, <2>1, <2>3
    <3>2. n + 1 # 0
      OBVIOUS
    <3> QED
      BY <1>2, <2>3, <3>1, <3>2 DEF Counted, z
  <2> QED
    BY <2>2, <2>3
<1>5. CASE n # 0
  <2>1. \E x \in 1 .. t + 1 : x <= TryLines /\ RangeIn[z[x]] # NoRange
    <3>1. PICK x \in 1 .. t : x <= TryLines /\ RangeIn[taken[x]] # NoRange
      BY <1>5 DEF Counted
    <3> QED
      BY <1>2, <1>3, <3>1
  <2>2. n + 1 # 0
    OBVIOUS
  <2> QED
    BY <1>2, <1>5, <2>1, <2>2 DEF Counted, z
<1> QED
  BY <1>4, <1>5

(* A line is taken, and its range, if it has one, is appended.               *)
LEMMA HoldLine ==
  ASSUME TypeOK, LoaderTypeOK, LoaderInv, HoldInv, AsciiLine
  PROVE  HoldInv'
<1>1. /\ step = "line" /\ step' = "ascii" /\ buf # <<>> /\ ~GiveUp
      /\ total' = total + 1
      /\ UNCHANGED <<blockfiles, opt_merge, files, prevcount, ret, data, buf>>
  BY DEF AsciiLine, premergeVars, streamVars
<1>2. /\ Stdin' = Stdin /\ Current' = Current /\ Earlier' = Earlier
      /\ Reads /\ buf \in Line /\ data \in Seq(Bytes)
  BY <1>1 DEF Stdin, Current, Earlier, Reads, LoaderInv, ParseInv, StreamInv
<1>3. /\ InFile /\ pc = "load" /\ Whole(Stdin, Earlier) \in Seq(Ranges)
      /\ prevcount \in 0 .. Len(entries)
  BY <1>2, ReadingFacts
<1>4. PICK taken : /\ Counted(taken, total, ok)
                   /\ LinesOf[Current.text] = taken \o (<<buf>> \o LinesOf[data])
                   /\ RangeList(entries) = Whole(Stdin, Earlier) \o Found(taken)
  <2>1. TextInv /\ ToCome = <<buf>> \o LinesOf[data]
    BY <1>1, <1>3 DEF InFile, ToCome
  <2> QED
    BY <2>1 DEF TextInv
<1>5. taken \in Seq(Line) /\ LinesOf[data] \in Seq(Line)
  BY <1>2, <1>4, LinesType DEF Counted
<1>6. LinesOf[Current.text] = Append(taken, buf) \o ToCome'
  <2>1. ToCome' = LinesOf[data]
    BY <1>1 DEF ToCome
  <2>2. \A a, b \in Seq(Line), e \in Line : Append(a, e) \o b = a \o (<<e>> \o b)
    BY JoinFacts
  <2>3. Append(taken, buf) \o LinesOf[data] = taken \o (<<buf>> \o LinesOf[data])
    BY <1>2, <1>5, <2>2, Zenon
  <2> QED
    BY <1>4, <2>1, <2>3
<1>7. /\ Found(taken) \in Seq(Ranges)
      /\ Found(Append(taken, buf)) = Found(taken) \o AsRange(RangeIn[buf])
  BY <1>2, <1>5, FoundFacts
<1>8. RangeIn[buf] \in Ranges \cup {NoRange}
  BY <1>2, LoaderAssumption
<1>9. /\ pc' = "load" /\ ok' = (IF RangeIn[buf] = NoRange THEN ok ELSE ok + 1)
      /\ RangeList(entries') = Whole(Stdin, Earlier) \o Found(Append(taken, buf))
      /\ SubSeq(entries', 1, prevcount) = SubSeq(entries, 1, prevcount)
  <2>1. CASE RangeIn[buf] = NoRange
    <3>1. UNCHANGED <<entries, pc, ok>>
      BY <2>1 DEF AsciiLine, vars
    <3>2. Found(taken) \o <<>> = Found(taken)
      BY <1>7
    <3> QED
      BY <1>3, <1>4, <1>7, <2>1, <3>1, <3>2 DEF AsRange
  <2>2. CASE RangeIn[buf] # NoRange
    <3>1. RangeIn[buf] \in Ranges /\ blocklist_append(RangeIn[buf]) /\ ok' = ok + 1
      BY <1>8, <2>2, OtherThanNoRange DEF AsciiLine
    <3>2. pc' = "load"
      BY <1>3, <3>1 DEF blocklist_append
    <3>3. RangeList(entries') = Append(RangeList(entries), RangeIn[buf])
      BY <3>1, RangeListAppend
    <3>4. SubSeq(entries', 1, prevcount) = SubSeq(entries, 1, prevcount)
      BY <1>3, <3>1, RangeListFacts
    <3>5. Append(Whole(Stdin, Earlier) \o Found(taken), RangeIn[buf])
            = Whole(Stdin, Earlier) \o (Found(taken) \o AsRange(RangeIn[buf]))
      <4>1. /\ Whole(Stdin, Earlier) \o Append(Found(taken), RangeIn[buf])
                 = Append(Whole(Stdin, Earlier) \o Found(taken), RangeIn[buf])
            /\ Found(taken) \o <<RangeIn[buf]>> = Append(Found(taken), RangeIn[buf])
        BY <1>3, <1>7, <3>1, JoinFacts
      <4> QED
        BY <2>2, <4>1 DEF AsRange
    <3> QED
      BY <1>4, <1>7, <2>2, <3>1, <3>2, <3>3, <3>4, <3>5
  <2> QED
    BY <2>1, <2>2
<1>10. Counted(Append(taken, buf), total', ok')
  <2>1. total \in Nat /\ ok \in Nat
    BY DEF LoaderTypeOK
  <2>2. ~(ok = 0 /\ total + 1 > TryLines)
    BY <1>1 DEF GiveUp
  <2> QED
    BY <1>1, <1>2, <1>4, <1>9, <2>1, <2>2, OneMoreLine
<1>11. TextInv'
  BY <1>2, <1>6, <1>9, <1>10 DEF TextInv
<1>12. InFile'
  BY <1>1, <1>2, <1>3, <1>9, <1>11 DEF InFile
<1> QED
  BY <1>1, <1>2, <1>9, <1>12 DEF HoldInv, Reads

(* Text with a range in time: its lines are all taken. *)
LEMMA HoldAccept ==
  ASSUME LoaderTypeOK, LoaderInv, HoldInv, AsciiAccept
  PROVE  HoldInv'
<1>1. /\ step = "line" /\ step' = "next" /\ buf = <<>> /\ ok > 0
      /\ UNCHANGED <<entries, loaded, pc, blockfiles, opt_merge, files, ret>>
  BY DEF AsciiAccept, premergeVars, vars, fileVars
<1>2. Stdin' = Stdin /\ Reads
  BY <1>1 DEF Stdin, Reads
<1>3. /\ InFile /\ pc = "load" /\ Current \in Content /\ Earlier \in Seq(Content)
      /\ files = Append(Earlier, Current)
  BY <1>2, ReadingFacts
<1>4. PICK taken : /\ Counted(taken, total, ok)
                   /\ LinesOf[Current.text] = taken \o ToCome
                   /\ RangeList(entries) = Whole(Stdin, Earlier) \o Found(taken)
  BY <1>1, <1>3 DEF InFile, TextInv
<1>5. LinesOf[Current.text] = taken
  <2>1. ToCome = <<>>
    BY <1>1, <1>3, LinesOfNothing DEF InFile, ToCome
  <2>2. taken \in Seq(Line)
    BY <1>4 DEF Counted
  <2> QED
    BY <1>4, <2>1, <2>2
<1>6. IsText(Current)
  <2>1. /\ Len(TextRanges(Current)) = Len(taken)
        /\ \A x \in 1 .. Len(taken) : TextRanges(Current)[x] = RangeIn[taken[x]]
    <3>1. Len(taken) \in Nat
      BY <1>4 DEF Counted
    <3> QED
      BY <1>5, <3>1 DEF TextRanges
  <2>2. Len(taken) = total /\ \E x \in 1 .. total : x <= TryLines /\ RangeIn[taken[x]] # NoRange
    <3>1. ok # 0
      BY <1>1
    <3> QED
      BY <1>4, <3>1 DEF Counted
  <2> QED
    BY <2>1, <2>2 DEF IsText
<1>7. LoadableAs(Stdin, Current) /\ RangesAs(Stdin, Current) = Found(taken)
  BY <1>3, <1>5, <1>6 DEF LoadableAs, RangesAs, InFile
<1>8. RangeList(entries) = Whole(Stdin, files)
  BY <1>3, <1>4, <1>7, WholeFacts
<1>9. AllLoadable(Stdin, files) <=> AllLoadable(Stdin, Earlier)
  BY <1>3, <1>7, AllLoadableFacts
<1> QED
  BY <1>1, <1>2, <1>3, <1>8, <1>9 DEF HoldInv, Reads, InFile

(* What a rollback leaves. *)
LEMMA RolledBack ==
  ASSUME TypeOK, LoaderInv, HoldInv, Reads, blocklist_clear(prevcount)
  PROVE  /\ pc' = "load" /\ RangeList(entries') = Whole(Stdin, Earlier)
         /\ SubSeq(entries', 1, prevcount) = entries'
<1>1. InFile /\ prevcount \in 0 .. Len(entries)
  BY ReadingFacts
<1>2. pc' = "load" /\ entries' = SubSeq(entries, 1, prevcount)
  BY DEF blocklist_clear
<1> QED
  BY <1>1, <1>2, RangeListFacts DEF InFile

(* Text without a range in time. *)
LEMMA HoldReject ==
  ASSUME TypeOK, LoaderTypeOK, LoaderInv, HoldInv, AsciiReject
  PROVE  HoldInv'
<1>1. /\ step = "line" /\ step' = "header" /\ ok = 0
      /\ buf = <<>> \/ total + 1 > TryLines
      /\ blocklist_clear(prevcount) /\ prevcount' = prevcount
      /\ UNCHANGED <<blockfiles, opt_merge, files, ret>>
  BY DEF AsciiReject, RollBack, GiveUp, premergeVars
<1>2. /\ Stdin' = Stdin /\ Current' = Current /\ Earlier' = Earlier /\ Reads
  BY <1>1 DEF Stdin, Current, Earlier, Reads
<1>3. /\ InFile /\ Current \in Content
      /\ pc' = "load" /\ RangeList(entries') = Whole(Stdin, Earlier)
      /\ SubSeq(entries', 1, prevcount) = entries'
  BY <1>1, <1>2, ReadingFacts, RolledBack
<1>4. PICK taken : /\ Counted(taken, total, ok)
                   /\ LinesOf[Current.text] = taken \o ToCome
  BY <1>1, <1>3 DEF InFile, TextInv
<1>5. /\ taken \in Seq(Line) /\ Len(taken) = total /\ total \in Nat
      /\ \A x \in 1 .. total : RangeIn[taken[x]] = NoRange
  BY <1>1, <1>4 DEF Counted, LoaderTypeOK
<1>6. ToCome \in Seq(Line) /\ (buf = <<>> => ToCome = <<>>)
  <2>1. buf \in Line /\ data \in Seq(Bytes)
    BY DEF LoaderInv, ParseInv, StreamInv
  <2>2. LinesOf[data] \in Seq(Line)
    BY <2>1, LinesType
  <2>3. <<buf>> \o LinesOf[data] \in Seq(Line)
    BY <2>1, <2>2
  <2>4. buf = <<>> => ToCome = <<>>
    BY <1>1, <1>3, LinesOfNothing DEF InFile, ToCome
  <2> QED
    BY <2>2, <2>3, <2>4 DEF ToCome
<1>7. ~IsText(Current)
  <2> DEFINE l == LinesOf[Current.text]
  <2>1. /\ l \in Seq(Line) /\ Len(l) = total + Len(ToCome) /\ Len(ToCome) \in Nat
        /\ \A x \in 1 .. total : l[x] = taken[x]
    <3>1. \A a, b \in Seq(Line) :
            /\ a \o b \in Seq(Line) /\ Len(a \o b) = Len(a) + Len(b) /\ Len(b) \in Nat
            /\ \A x \in 1 .. Len(a) : (a \o b)[x] = a[x]
      OBVIOUS
    <3>2. l = taken \o ToCome
      BY <1>4
    <3> HIDE DEF l
    <3> QED
      BY <1>5, <1>6, <3>1, <3>2
  <2>2. Len(ToCome) = 0 \/ TryLines <= total
    <3>1. buf = <<>> => Len(ToCome) = 0
      BY <1>6
    <3>2. total + 1 > TryLines => TryLines <= total
      BY <1>5, LoaderAssumption
    <3> QED
      BY <1>1, <3>1, <3>2
  <2>3. /\ Len(TextRanges(Current)) = Len(l)
        /\ \A x \in 1 .. Len(l) : TextRanges(Current)[x] = RangeIn[l[x]]
    BY <2>1 DEF TextRanges
  <2> HIDE DEF l
  <2>4. ASSUME NEW x \in 1 .. Len(l), x <= TryLines PROVE RangeIn[l[x]] = NoRange
    <3>1. x \in 1 .. total
      BY <1>5, <2>1, <2>2, <2>4, LoaderAssumption
    <3> QED
      BY <1>5, <2>1, <3>1
  <2> QED
    BY <2>3, <2>4 DEF IsText
<1>8. InFile'
  BY <1>1, <1>2, <1>3, <1>7 DEF InFile
<1> QED
  BY <1>1, <1>2, <1>3, <1>8 DEF HoldInv, Reads

(* The file is tried as a P2B. *)
LEMMA HoldHeader ==
  ASSUME TypeOK, LoaderTypeOK, LoaderInv, HoldInv, BinaryHeader
  PROVE  HoldInv'
<1>1. step = "header" /\ UNCHANGED <<blockfiles, opt_merge, files, prevcount>>
  BY DEF BinaryHeader, premergeVars
<1>2. /\ Stdin' = Stdin /\ Current' = Current /\ Earlier' = Earlier /\ Reads
  BY <1>1 DEF Stdin, Current, Earlier, Reads
<1>3. /\ InFile /\ pc = "load" /\ Current \in Content /\ Earlier \in Seq(Content)
      /\ files = Append(Earlier, Current) /\ Whole(Stdin, Earlier) \in Seq(Ranges)
  BY <1>2, ReadingFacts
<1>4. CASE HeaderReadable(Current)
  <2>1. /\ step' = "binary" /\ UNCHANGED <<entries, loaded, pc, ret>>
        /\ rest' = ItemsOf(Current)
    BY <1>4 DEF BinaryHeader, vars, ItemsOf
  <2>2. ItemsOf(Current) \in Seq(Ranges)
    BY <1>3, RangesAsType
  <2>3. /\ RangeList(entries) = Whole(Stdin, Earlier) \o <<>> /\ <<>> \in Seq(Ranges)
        /\ <<>> \o ItemsOf(Current) = ItemsOf(Current)
    BY <1>1, <1>3, <2>2 DEF InFile
  <2>4. ItemsInv'
    BY <1>2, <2>1, <2>3 DEF ItemsInv
  <2>5. HeaderReadable(Current)'
    BY <1>2, <1>4 DEF HeaderReadable
  <2>6. InFile'
    BY <1>1, <1>2, <1>3, <2>1, <2>4, <2>5 DEF InFile
  <2> QED
    BY <1>1, <1>2, <1>3, <2>1, <2>6 DEF HoldInv, Reads
<1>5. CASE ~HeaderReadable(Current)
  <2>1. /\ step' = "next" /\ blocklist_clear(prevcount)
        /\ ret' = IF Stdin THEN ret ELSE -1
    BY <1>5 DEF BinaryHeader, RollBack, Failed
  <2>2. pc' = "load" /\ RangeList(entries') = Whole(Stdin, Earlier)
    BY <1>2, <2>1, RolledBack
  <2>3. ~LoadableAs(Stdin, Current)
    BY <1>1, <1>3, <1>5 DEF InFile, LoadableAs, HeaderReadable
  <2>4. RangesAs(Stdin, Current) = <<>>
    BY <2>3 DEF RangesAs
  <2>5. Whole(Stdin, files) = Whole(Stdin, Earlier) \o <<>>
    BY <1>3, <2>4, WholeFacts
  <2>6. RangeList(entries') = Whole(Stdin, files)
    BY <1>3, <2>2, <2>5
  <2>7. ~AllLoadable(Stdin, files)
    BY <1>3, <2>3, AllLoadableFacts
  <2> QED
    BY <1>1, <1>2, <2>1, <2>2, <2>6, <2>7 DEF HoldInv, Reads
<1> QED
  BY <1>4, <1>5

(* One range of the P2B is appended.                                         *)
LEMMA HoldItem ==
  ASSUME TypeOK, LoaderInv, HoldInv, BinaryRange
  PROVE  HoldInv'
<1>1. /\ step = "binary" /\ step' = "binary" /\ rest # <<>> /\ rest' = Tail(rest)
      /\ blocklist_append(Head(rest))
      /\ UNCHANGED <<blockfiles, opt_merge, files, prevcount, ret>>
  BY DEF BinaryRange, premergeVars
<1>2. /\ Stdin' = Stdin /\ Current' = Current /\ Earlier' = Earlier /\ Reads
      /\ rest \in Seq(Ranges)
  BY <1>1 DEF Stdin, Current, Earlier, Reads, LoaderInv, ParseInv
<1>3. /\ InFile /\ pc = "load" /\ Whole(Stdin, Earlier) \in Seq(Ranges)
      /\ prevcount \in 0 .. Len(entries)
  BY <1>2, ReadingFacts
<1>4. Head(rest) \in Ranges /\ rest' \in Seq(Ranges) /\ rest = <<Head(rest)>> \o rest'
  BY <1>1, <1>2
<1>5. PICK done \in Seq(Ranges) : /\ RangeList(entries) = Whole(Stdin, Earlier) \o done
                                  /\ done \o rest = ItemsOf(Current)
  BY <1>1, <1>3 DEF InFile, ItemsInv
<1>6. /\ RangeList(entries') = Append(RangeList(entries), Head(rest))
      /\ SubSeq(entries', 1, prevcount) = SubSeq(entries, 1, prevcount)
      /\ pc' = "load"
  BY <1>1, <1>3, <1>4, RangeListAppend, RangeListFacts DEF blocklist_append
<1>7. /\ Append(done, Head(rest)) \in Seq(Ranges)
      /\ RangeList(entries') = Whole(Stdin, Earlier) \o Append(done, Head(rest))
      /\ Append(done, Head(rest)) \o rest' = ItemsOf(Current)
  <2>1. \A a, b \in Seq(Ranges), e \in Ranges :
          /\ Append(a, e) \in Seq(Ranges)
          /\ Append(a, e) \o b = a \o (<<e>> \o b)
          /\ a \o Append(b, e) = Append(a \o b, e)
    BY JoinFacts
  <2> DEFINE e == Head(rest)
             r == rest'
  <2> HIDE DEF e, r
  <2>2. e \in Ranges /\ r \in Seq(Ranges) /\ rest = <<e>> \o r
    BY <1>4 DEF e, r
  <2>3. /\ Append(done, e) \in Seq(Ranges)
        /\ Append(done, e) \o r = done \o (<<e>> \o r)
        /\ Whole(Stdin, Earlier) \o Append(done, e) = Append(Whole(Stdin, Earlier) \o done, e)
    BY <1>3, <2>1, <2>2, Zenon
  <2> QED
    BY <1>5, <1>6, <2>2, <2>3 DEF e, r
<1>8. ItemsInv'
  BY <1>2, <1>7 DEF ItemsInv
<1>9. HeaderReadable(Current)'
  BY <1>1, <1>2, <1>3 DEF InFile, HeaderReadable
<1>10. InFile'
  BY <1>1, <1>2, <1>3, <1>6, <1>8, <1>9 DEF InFile
<1> QED
  BY <1>1, <1>2, <1>6, <1>10 DEF HoldInv, Reads

(* The P2B has ended or broken off.                                          *)
LEMMA HoldBinaryEnd ==
  ASSUME TypeOK, LoaderTypeOK, LoaderInv, HoldInv, BinaryEnd
  PROVE  HoldInv'
<1>1. /\ step = "binary" /\ step' = "next" /\ rest = <<>>
      /\ UNCHANGED <<blockfiles, opt_merge, files>>
  BY DEF BinaryEnd, Failed, premergeVars
<1>2. Stdin' = Stdin /\ Reads
  BY <1>1 DEF Stdin, Reads
<1>3. /\ InFile /\ pc = "load" /\ Current \in Content /\ Earlier \in Seq(Content)
      /\ files = Append(Earlier, Current) /\ Whole(Stdin, Earlier) \in Seq(Ranges)
  BY <1>2, ReadingFacts
<1>4. HeaderReadable(Current) /\ ~IsText(Current) /\ Current.readable
  BY <1>1, <1>3 DEF InFile
<1>5. /\ Current.format \in {"none", "p2b", "p2b3"}
      /\ Current.tear \in {"no", "labels", "count", "items"}
  BY <1>3 DEF Content
<1>6. CASE Current.format = "p2b3" /\ Current.tear = "items"
  <2>1. blocklist_clear(prevcount) /\ ret' = IF Stdin THEN ret ELSE -1
    BY <1>6 DEF BinaryEnd, RollBack, Failed
  <2>2. pc' = "load" /\ RangeList(entries') = Whole(Stdin, Earlier)
    BY <1>2, <2>1, RolledBack
  <2>3. ~LoadableAs(Stdin, Current)
    BY <1>4, <1>6 DEF LoadableAs
  <2>4. RangesAs(Stdin, Current) = <<>>
    BY <2>3 DEF RangesAs
  <2>5. Whole(Stdin, files) = Whole(Stdin, Earlier) \o <<>>
    BY <1>3, <2>4, WholeFacts
  <2>6. RangeList(entries') = Whole(Stdin, files)
    BY <1>3, <2>2, <2>5
  <2>7. ~AllLoadable(Stdin, files)
    BY <1>3, <2>3, AllLoadableFacts
  <2> QED
    BY <1>1, <1>2, <2>1, <2>2, <2>6, <2>7 DEF HoldInv, Reads
<1>7. CASE ~(Current.format = "p2b3" /\ Current.tear = "items")
  <2>1. UNCHANGED <<entries, loaded, pc, ret>>
    BY <1>7 DEF BinaryEnd, vars
  <2>2. LoadableAs(Stdin, Current)
    BY <1>4, <1>5, <1>7 DEF LoadableAs, HeaderReadable
  <2>3. RangesAs(Stdin, Current) = ItemsOf(Current)
    BY <1>4, <2>2 DEF RangesAs
  <2>4. RangeList(entries) = Whole(Stdin, Earlier) \o ItemsOf(Current)
    <3>1. PICK done \in Seq(Ranges) : /\ RangeList(entries) = Whole(Stdin, Earlier) \o done
                                      /\ done \o rest = ItemsOf(Current)
      BY <1>1, <1>3 DEF InFile, ItemsInv
    <3>2. done \o <<>> = done
      OBVIOUS
    <3> QED
      BY <1>1, <3>1, <3>2
  <2>5. RangeList(entries) = Whole(Stdin, files)
    BY <1>3, <2>3, <2>4, WholeFacts
  <2>6. AllLoadable(Stdin, files) <=> AllLoadable(Stdin, Earlier)
    BY <1>3, <2>2, AllLoadableFacts
  <2> QED
    BY <1>1, <1>2, <1>3, <2>1, <2>5, <2>6 DEF HoldInv, Reads, InFile
<1> QED
  BY <1>6, <1>7

(* The merge keeps what was loaded. *)
LEMMA MergeKeeps == Merge => pc # "load" /\ pc' # "load" /\ loaded' = loaded
BY DEF Merge, MergeBegin, MergeVisit, MergeSaturate, MergeExtend, MergeScanned,
   MergeBlank, MergeBlanked, MergeTally, MergeEnd

(* Every step of the loader keeps the invariant of the load.                 *)
LEMMA HoldStep ==
  ASSUME TypeOK, LoaderTypeOK, LoaderInv, HoldInv, [LoaderNext]_allVars
  PROVE  HoldInv'
<1>1. CASE LoadAllBegin
  <2>1. /\ step' = "next" /\ pc' = "load" /\ entries' = SubSeq(entries, 1, 0)
        /\ files' = <<>> /\ ret' = 0 /\ UNCHANGED <<blockfiles, opt_merge>>
    BY <1>1 DEF LoadAllBegin, blocklist_clear, premergeVars
  <2>2. Stdin' = Stdin
    BY <2>1 DEF Stdin
  <2>3. entries' = <<>>
    BY <2>1, SubSeqEmpty
  <2>4. RangeList(<<>>) = <<>>
    BY DEF RangeList
  <2>5. Whole(Stdin, <<>>) = <<>> /\ AllLoadable(Stdin, <<>>)
    BY FlattenNothing DEF Whole, AllLoadable
  <2>6. RangeList(entries') = Whole(Stdin', files') /\ AllLoadable(Stdin', files')
    BY <2>1, <2>2, <2>3, <2>4, <2>5
  <2> QED
    BY <2>1, <2>2, <2>6 DEF HoldInv, Reads
<1>2. CASE LoadAllSort
  <2>1. /\ step = "next" /\ step' = "merge" /\ loaded' = entries /\ pc' = "merge"
        /\ UNCHANGED <<blockfiles, opt_merge, files, ret>>
    BY <1>2 DEF LoadAllSort, blocklist_sort, premergeVars, fileVars
  <2>2. Stdin' = Stdin
    BY <2>1 DEF Stdin
  <2> QED
    BY <2>1, <2>2 DEF HoldInv, Reads
<1>3. CASE LoadAllMerge
  <2>1. /\ step = "merge" /\ Merge
        /\ UNCHANGED <<step, blockfiles, opt_merge, files, ret>>
    BY <1>3 DEF LoadAllMerge, loaderVars, premergeVars, fileVars
  <2>2. Stdin' = Stdin
    BY <2>1 DEF Stdin
  <2> QED
    BY <2>1, <2>2, MergeKeeps DEF HoldInv, Reads
<1>4. CASE LoadAllEnd \/ DumpBegin \/ blocklist_dump \/ DumpEnd
  <2>1. /\ step' \in {"idle", "exited", "dump", "dumped"}
        /\ UNCHANGED <<blockfiles, opt_merge, files, ret, loaded, pc>>
    BY <1>4 DEF LoadAllEnd, DumpBegin, blocklist_dump, DumpEnd, premergeVars, fileVars, vars
  <2>2. Stdin' = Stdin
    BY <2>1 DEF Stdin
  <2> QED
    BY <2>1, <2>2 DEF HoldInv, Reads
<1>5. CASE StartDaemon
  <2>1. step' = "idle" /\ pc' = "load" /\ blockfiles' = <<{Listing(master)}>>
    BY <1>5 DEF StartDaemon, blocklist_clear
  <2>2. ~Stdin'
    BY <2>1 DEF Stdin
  <2> QED
    BY <2>1, <2>2 DEF HoldInv, Reads
<1>6. CASE LoaderRespawn
  <2>1. step' = "idle" /\ pc' = "load" /\ UNCHANGED <<blockfiles, opt_merge>>
    BY <1>6 DEF LoaderRespawn, Respawn, premergeVars
  <2>2. Stdin' = Stdin
    BY <2>1 DEF Stdin
  <2> QED
    BY <2>1, <2>2 DEF HoldInv, Reads
<1>7. CASE UNCHANGED allVars
  <2>1. UNCHANGED <<entries, loaded, pc, blockfiles, opt_merge, step, files, rest,
                    total, ok, prevcount, ret, data, buf>>
    BY <1>7 DEF allVars, vars, streamVars, loaderVars, premergeVars, fileVars
  <2> USE <2>1
  <2>2. /\ Stdin' = Stdin /\ Current' = Current /\ Earlier' = Earlier
        /\ ToCome' = ToCome /\ Reads' = Reads
    BY DEF Stdin, Current, Earlier, ToCome, Reads
  <2>3. TextInv' = TextInv /\ ItemsInv' = ItemsInv
    BY <2>2 DEF TextInv, ItemsInv
  <2>4. HeaderReadable(Current)' = HeaderReadable(Current)
    BY <2>2 DEF HeaderReadable
  <2>5. InFile => InFile'
    BY <2>2, <2>3, <2>4 DEF InFile
  <2> QED
    BY <2>2, <2>5 DEF HoldInv
<1> QED
  BY <1>1, <1>2, <1>3, <1>4, <1>5, <1>6, <1>7, HoldOpen, HoldRead, HoldLine,
     HoldAccept, HoldReject, HoldHeader, HoldItem, HoldBinaryEnd
  DEF LoaderNext, LoadSteps

(* It holds before the first load.                                           *)
LEMMA HoldInit == LoaderInit => HoldInv
<1> SUFFICES ASSUME LoaderInit PROVE HoldInv
  OBVIOUS
<1>1. pc = "load" /\ step = "idle" /\ (blockfiles = <<>> => opt_merge)
  <2>1. pc = "load" /\ step = "idle"
    BY DEF LoaderInit, Init
  <2>2. PICK n \in {0, NFiles} : (n = 0 => opt_merge) /\ blockfiles = [x \in 1 .. n |-> Contents]
    BY DEF LoaderInit
  <2>3. n \in Nat /\ Len(blockfiles) = n
    BY <2>2, LoaderAssumption
  <2> QED
    BY <2>1, <2>2, <2>3
<1>2. ~Reads /\ (~opt_merge => ~Stdin)
  BY <1>1 DEF Reads, Stdin
<1> QED
  BY <1>1, <1>2 DEF HoldInv

(* All of the invariant is kept by every step.                               *)
LoadInv == IInv /\ LoaderInv /\ LoaderTypeOK /\ HoldInv

(* So all of it is an invariant.                                             *)
LEMMA LoadInvariant == LoaderSpec => []LoadInv
<1>1. LoaderInit => HoldInv
  BY HoldInit
<1>2. LoadInv /\ [LoaderNext]_allVars => HoldInv'
  BY HoldStep DEF LoadInv, IInv
<1>3. LoaderSpec => [](IInv /\ LoaderInv)
  <2>1. LoaderInit => IInv /\ LoaderInv
    BY LoaderInit_Inv, InitInv
  <2>2. IInv /\ LoaderInv /\ [LoaderNext]_allVars => IInv' /\ LoaderInv'
    BY LoaderStep, NextInv
  <2> QED
    BY <2>1, <2>2, PTL DEF LoaderSpec
<1> QED
  BY <1>1, <1>2, <1>3, LoaderTypes, PTL DEF LoaderSpec, LoadInv

(* What pgld blocks was loaded from every range of every list file that      *)
(* could be loaded, in order, and from nothing else.                         *)
THEOREM LoadedTheorem == LoaderSpec => []LoadedIsWhatFilesHold
<1>1. HoldInv => LoadedIsWhatFilesHold
  <2> SUFFICES ASSUME HoldInv, pc # "load"
               PROVE  RangeList(loaded) = FlattenSeq([x \in 1 .. Len(files) |-> RangesIn(files[x])])
    BY DEF LoadedIsWhatFilesHold, RangeList
  <2>1. RangeList(loaded) = Whole(Stdin, files)
    BY DEF HoldInv
  <2>2. \A x \in 1 .. Len(files) : RangesIn(files[x]) = RangesAs(Stdin, files[x])
    BY RangesAsFacts
  <2>3. [x \in 1 .. Len(files) |-> RangesIn(files[x])]
          = [x \in 1 .. Len(files) |-> RangesAs(Stdin, files[x])]
    BY <2>2
  <2> QED
    BY <2>1, <2>3 DEF Whole
<1> QED
  BY <1>1, LoadInvariant, PTL DEF LoadInv

(* The first load leads to serving packets exactly if every named file could *)
(* be loaded; a failed reload never ends the service.                        *)
THEOREM ServingTheorem == LoaderSpec => ServesAfterGoodLoad
<1>1. ASSUME LoadInv, [LoaderNext]_allVars
      PROVE  step = "merge" /\ step' \in {"idle", "exited"} /\ pc = "ready" =>
               (serving' <=> \/ serving
                             \/ \A x \in 1 .. Len(files) : Loadable(files[x]))
  <2> SUFFICES ASSUME step = "merge", step' \in {"idle", "exited"}, pc = "ready"
               PROVE  serving' <=> \/ serving
                                   \/ \A x \in 1 .. Len(files) : Loadable(files[x])
    OBVIOUS
  <2>1. LoadAllEnd
    BY <1>1 DEF LoaderNext, LoadSteps, LoadAllBegin, AsciiOpen, AsciiRead, AsciiLine,
       AsciiAccept, AsciiReject, BinaryHeader, BinaryRange, BinaryEnd, LoadAllSort,
       LoadAllMerge, DumpBegin, blocklist_dump, DumpEnd, StartDaemon, LoaderRespawn,
       Respawn, allVars, loaderVars
  <2>2. (\A x \in 1 .. Len(files) : Loadable(files[x])) <=> AllLoadable(Stdin, files)
    BY RangesAsFacts DEF AllLoadable
  <2>3. ~opt_merge
    BY <2>1 DEF LoadAllEnd
  <2>4. ret = 0 <=> AllLoadable(Stdin, files)
    BY <1>1, <2>3 DEF LoadInv, HoldInv
  <2>5. serving \in BOOLEAN
    BY <1>1 DEF LoadInv, LoaderTypeOK
  <2>6. CASE ret = 0 \/ serving
    BY <2>1, <2>2, <2>4, <2>6 DEF LoadAllEnd
  <2>7. CASE ~(ret = 0 \/ serving)
    BY <2>1, <2>2, <2>4, <2>7 DEF LoadAllEnd
  <2> QED
    BY <2>6, <2>7
<1> QED
  BY <1>1, LoadInvariant, PTL DEF LoaderSpec, ServesAfterGoodLoad

-----------------------------------------------------------------------------
(* What the merge makes of the ranges of the list files are ranges, too.     *)

InList(e) == <<e.ip_min, e.ip_max>> \in Ranges

(* An entry of the list that is not blanked is a range; while a group is     *)
(* blanked its first entry is, and while it is collected its extent is, as   *)
(* long as no blanked entry of an earlier pass got into it.                  *)
MergedInv ==
  /\ pc # "crashed" =>
       \A x \in 1 .. Len(entries) :
         entries[x].name # NULL /\ ~(pc = "blank" /\ x = i) => InList(entries[x])
  /\ pc = "scan" /\ (\A x \in i .. j - 1 : entries[x].name # NULL) =>
       <<entries[i].ip_min, ip_max>> \in Ranges
  /\ pc = "blank" /\ (\A x \in k .. j - 1 : entries[x].name # NULL) =>
       InList(entries[i])

(* Steps that move no entry and belong to no group. *)
LEMMA MergedFrame ==
  ASSUME MergedInv, UNCHANGED entries, pc \notin {"blank", "crashed"},
         pc' \notin {"scan", "blank"}
  PROVE  MergedInv'
BY DEF MergedInv

(* Entries that were taken from somewhere in the list. *)
LEMMA MergedMoved ==
  ASSUME TypeOK, MergedInv, pc \notin {"blank", "crashed"},
         pc' \notin {"scan", "blank"},
         \A x \in 1 .. Len(entries') :
           \E y \in 1 .. Len(entries) : entries'[x] = entries[y]
  PROVE  MergedInv'
<1>1. ASSUME NEW x \in 1 .. Len(entries'), entries'[x].name # NULL
      PROVE  InList(entries'[x])
  <2>1. PICK y \in 1 .. Len(entries) : entries'[x] = entries[y]
    OBVIOUS
  <2> QED
    BY <1>1, <2>1 DEF MergedInv
<1> QED
  BY <1>1 DEF MergedInv

(* An appended range is one of the list files.                               *)
LEMMA AppendMerged ==
  ASSUME IInv, MergedInv, NEW r \in Ranges, blocklist_append(r)
  PROVE  MergedInv'
<1> DEFINE e == [ip_min |-> r[1], ip_max |-> r[2], name |-> {Len(entries) + 1}]
<1>1. pc = "load" /\ pc' = "load" /\ entries' = Append(entries, e) /\ TypeOK
  BY DEF IInv, blocklist_append
<1>2. <<e.ip_min, e.ip_max>> = r
  BY BlocklistAssumption
<1> HIDE DEF e
<1>3. entries \in Seq(Entry \cup {e})
  <2>1. entries \in Seq(Entry)
    BY <1>1 DEF TypeOK
  <2> QED
    BY <2>1
<1>4. /\ Len(entries) \in Nat /\ Len(entries') = Len(entries) + 1
      /\ entries'[Len(entries) + 1] = e
      /\ \A x \in 1 .. Len(entries) : entries'[x] = entries[x]
  BY <1>1, <1>3, AppendProperties
<1>5. InList(e)
  BY <1>2 DEF InList
<1>6. \A x \in 1 .. Len(entries') : x \in 1 .. Len(entries) \/ x = Len(entries) + 1
  BY <1>4
<1> QED
  BY <1>1, <1>4, <1>5, <1>6 DEF MergedInv

(* A rollback keeps entries that were there.                                 *)
LEMMA ClearMerged ==
  ASSUME IInv, MergedInv, NEW start \in 0 .. Len(entries), blocklist_clear(start)
  PROVE  MergedInv'
<1>1. /\ TypeOK /\ pc \in {"load", "ready"} /\ pc' = "load"
      /\ entries' = SubSeq(entries, 1, start)
  BY DEF IInv, blocklist_clear
<1>2. Len(entries') = start /\ \A x \in 1 .. start : entries'[x] = entries[x]
  <2>1. \A x \in 1 .. start : entries[x] \in Entry
    BY <1>1, EntryFacts
  <2> QED
    BY <1>1, <2>1, EntryFacts, SubSeqProperties
<1>3. \A x \in 1 .. start : x \in 1 .. Len(entries)
  BY <1>1, EntryFacts
<1> QED
  BY <1>1, <1>2, <1>3, MergedMoved

(* A sort only moves entries.                                                *)
LEMMA SortMerged ==
  ASSUME IInv, MergedInv, blocklist_sort
  PROVE  MergedInv'
<1>1. TypeOK /\ entries \in Seq(Entry) /\ pc = "load" /\ pc' = "merge"
  BY DEF IInv, TypeOK, blocklist_sort
<1>2. /\ Len(entries') = Len(entries)
      /\ \E p \in Reorderings(Len(entries)) :
           \A x \in 1 .. Len(entries) : entries'[x] = entries[p[x]]
  BY <1>1, SortingIsReordering DEF blocklist_sort
<1>3. \A p \in Reorderings(Len(entries)), x \in 1 .. Len(entries) : p[x] \in 1 .. Len(entries)
  BY DEF Reorderings
<1> QED
  BY <1>1, <1>2, <1>3, MergedMoved

(* A group begins as the range of its first entry.                           *)
LEMMA VisitMerged ==
  ASSUME IInv, MergedInv, MergeVisit
  PROVE  MergedInv'
<1>1. /\ TypeOK /\ pc = "visit" /\ i \in 1 .. Len(entries)
      /\ UNCHANGED <<entries, i>>
      /\ \/ pc' = "crashed"
         \/ /\ pc' = "scan" /\ ip_max' = entries[i].ip_max /\ j' = i + 1
            /\ entries[i].name # NULL
  BY DEF IInv, IndexInv, TypeOK, MergeVisit
<1>2. InList(entries[i]) \/ entries[i].name = NULL
  BY <1>1 DEF MergedInv
<1> QED
  BY <1>1, <1>2 DEF MergedInv, InList

(* A group that reaches the last address takes in all that is left.          *)
LEMMA SaturateMerged ==
  ASSUME IInv, MergedInv, MergeSaturate
  PROVE  MergedInv'
<1>1. /\ TypeOK /\ pc = "scan" /\ pc' = "scan" /\ j' = Len(entries) + 1
      /\ UNCHANGED <<entries, i, ip_max>>
      /\ i \in Int /\ j \in Int /\ j <= Len(entries) /\ Len(entries) \in Nat
  BY EntryFacts DEF IInv, TypeOK, MergeSaturate
<1>2. \A x \in i .. j - 1 : x \in i .. j' - 1
  BY <1>1
<1> QED
  BY <1>1, <1>2 DEF MergedInv

(* A range that adjoins a group extends it to a range.                       *)
LEMMA ExtendMerged ==
  ASSUME IInv, MergedInv, MergeExtend
  PROVE  MergedInv'
<1>1. /\ TypeOK /\ pc = "scan" /\ pc' = "scan" /\ j' = j + 1
      /\ UNCHANGED <<entries, i>> /\ ip_max' = Widened(j) /\ Adjoins(j)
      /\ i \in 1 .. Len(entries) /\ j \in i + 1 .. Len(entries) /\ ip_max \in Nat
      /\ Len(entries) \in Nat
  <2>1. TypeOK /\ IndexInv /\ pc = "scan"
    BY DEF IInv, MergeExtend
  <2>2. i \in 1 .. Len(entries) /\ j \in i + 1 .. Len(entries) + 1 /\ j <= Len(entries)
    BY <2>1 DEF IndexInv, MergeExtend
  <2>3. Len(entries) \in Nat /\ ip_max \in Nat
    BY <2>1, EntryFacts DEF TypeOK, Ip
  <2> QED
    BY <2>1, <2>2, <2>3 DEF MergeExtend
<1> SUFFICES ASSUME \A x \in i .. j : entries[x].name # NULL
             PROVE  <<entries[i].ip_min, ip_max'>> \in Ranges
  <2>1. j' - 1 = j
    BY <1>1
  <2> QED
    BY <1>1, <2>1 DEF MergedInv
<1>2. j \in i .. j /\ \A x \in i .. j - 1 : x \in i .. j
  BY <1>1
<1>3. <<entries[i].ip_min, ip_max>> \in Ranges
  BY <1>1, <1>2 DEF MergedInv
<1>4. <<entries[j].ip_min, entries[j].ip_max>> \in Ranges
  <2>1. j \in 1 .. Len(entries) /\ entries[j].name # NULL
    BY <1>1, <1>2
  <2> QED
    BY <1>1, <2>1 DEF MergedInv, InList
<1>5. entries[i].ip_min <= entries[j].ip_min
  <2>1. Frontier < i /\ i < j /\ Passing /\ j \in 1 .. Len(entries)
    BY <1>1 DEF Frontier, Passing
  <2> QED
    BY <1>1, <2>1 DEF IInv, OrderInv
<1>6. entries[j].ip_min <= ip_max + 1
  BY <1>1 DEF Adjoins
<1>7. CASE entries[j].ip_max > ip_max
  <2>1. ip_max < entries[j].ip_max /\ entries[j].ip_max \in Nat
    BY <1>1, <1>7, EntryFacts
  <2>2. ip_max' = entries[j].ip_max
    BY <1>1, <1>7 DEF Widened
  <2> DEFINE r == <<entries[i].ip_min, ip_max>>
             s == <<entries[j].ip_min, entries[j].ip_max>>
  <2>3. /\ r \in Ranges /\ s \in Ranges
        /\ r[1] <= s[1] /\ s[1] <= r[2] + 1 /\ r[2] < s[2]
    BY <1>3, <1>4, <1>5, <1>6, <2>1
  <2>4. r[1] = entries[i].ip_min /\ s[2] = entries[j].ip_max
    OBVIOUS
  <2> HIDE DEF r, s
  <2>5. <<r[1], s[2]>> \in Ranges
    BY <2>3, DumpAssumption
  <2> QED
    BY <2>2, <2>4, <2>5
<1>8. CASE ~(entries[j].ip_max > ip_max)
  BY <1>1, <1>3, <1>8 DEF Widened
<1> QED
  BY <1>7, <1>8

(* The first entry of the group gets its extent.                             *)
LEMMA ScannedMerged ==
  ASSUME IInv, MergedInv, MergeScanned
  PROVE  MergedInv'
<1>1. /\ TypeOK /\ entries \in Seq(Entry) /\ pc = "scan" /\ ip_max \in Ip
      /\ i \in 1 .. Len(entries) /\ j \in i + 1 .. Len(entries) + 1
      /\ entries[i].name # NULL /\ Len(entries) \in Nat
      /\ UNCHANGED <<i, j, ip_max>>
  <2>1. TypeOK /\ IndexInv /\ pc = "scan"
    BY DEF IInv, MergeScanned
  <2>2. i \in 1 .. Len(entries) /\ j \in i + 1 .. Len(entries) + 1 /\ entries[i].name # NULL
    BY <2>1 DEF IndexInv, Live
  <2> QED
    BY <2>1, <2>2, EntryFacts DEF MergeScanned, TypeOK
<1>2. CASE j > i + 1
  <2>1. /\ entries' = [entries EXCEPT ![i].ip_max = ip_max]
        /\ k' = i + 1 /\ pc' = "blank"
    BY <1>2 DEF MergeScanned
  <2> DEFINE e == [entries[i] EXCEPT !.ip_max = ip_max]
  <2>2. /\ e \in Entry /\ e.ip_min = entries[i].ip_min /\ e.ip_max = ip_max
    BY <1>1, EntryFacts DEF Entry
  <2>3. entries' = [entries EXCEPT ![i] = e]
    BY <2>1
  <2> HIDE DEF e
  <2>4. /\ Len(entries') = Len(entries)
        /\ \A x \in 1 .. Len(entries) :
             entries'[x] = IF x = i THEN e ELSE entries[x]
    BY <1>1, <2>2, <2>3, ExceptSeq
  <2>5. ASSUME \A x \in k' .. j' - 1 : entries'[x].name # NULL
        PROVE  InList(entries'[i])
    <3>1. \A x \in i .. j - 1 : x = i \/ (x \in k' .. j' - 1 /\ x \in 1 .. Len(entries) /\ x # i)
      BY <1>1, <2>1
    <3>2. \A x \in i .. j - 1 : entries[x].name # NULL
      BY <1>1, <2>4, <2>5, <3>1
    <3>3. <<entries[i].ip_min, ip_max>> \in Ranges
      BY <1>1, <3>2 DEF MergedInv
    <3> QED
      BY <1>1, <2>2, <2>4, <3>3 DEF InList
  <2>6. \A x \in 1 .. Len(entries') :
          entries'[x].name # NULL /\ x # i => InList(entries'[x])
    BY <1>1, <2>4 DEF MergedInv
  <2> QED
    BY <1>1, <2>1, <2>5, <2>6 DEF MergedInv
<1>3. CASE ~(j > i + 1)
  <2>1. UNCHANGED entries /\ pc' = "tally"
    BY <1>3 DEF MergeScanned
  <2> QED
    BY <1>1, <2>1, MergedFrame
<1> QED
  BY <1>2, <1>3

(* An entry of the group is blanked; the first one keeps its extent.         *)
LEMMA BlankMerged ==
  ASSUME IInv, MergedInv, MergeBlank
  PROVE  MergedInv'
<1>1. /\ TypeOK /\ entries \in Seq(Entry) /\ pc = "blank"
      /\ i \in 1 .. Len(entries) /\ k \in i + 1 .. Len(entries) /\ k < j
      /\ j \in Int /\ Len(entries) \in Nat /\ UNCHANGED <<i, j>>
  <2>1. TypeOK /\ IndexInv /\ pc = "blank" /\ k < j
    BY DEF IInv, MergeBlank
  <2>2. /\ i \in 1 .. Len(entries) /\ j \in i + 1 .. Len(entries) + 1
        /\ k \in i + 1 .. j
    BY <2>1 DEF IndexInv
  <2>3. Len(entries) \in Nat
    BY <2>1, EntryFacts
  <2> QED
    BY <2>1, <2>2, <2>3 DEF MergeBlank, TypeOK
<1>2. CASE entries[k].name = NULL
  <2>1. pc' = "crashed"
    BY <1>2 DEF MergeBlank
  <2> QED
    BY <2>1 DEF MergedInv
<1>3. CASE entries[k].name # NULL
  <2>1. PICK label \in {{}, entries[k].name} :
          entries' = [entries EXCEPT ![i].name = @ \cup label, ![k] = Blanked]
    BY <1>3 DEF MergeBlank
  <2>2. k' = k + 1 /\ pc' = "blank"
    BY <1>1, <1>3 DEF MergeBlank
  <2>3. /\ DOMAIN entries = 1 .. Len(entries) /\ entries[i] \in Entry /\ i # k
    BY <1>1, SeqElements
  <2>4. /\ DOMAIN entries' = DOMAIN entries
        /\ entries'[i].ip_min = entries[i].ip_min
        /\ entries'[i].ip_max = entries[i].ip_max
        /\ entries'[k] = Blanked
        /\ \A x \in 1 .. Len(entries) : x # i /\ x # k => entries'[x] = entries[x]
    BY <1>1, <2>1, <2>3 DEF Entry
  <2>5. Len(entries') = Len(entries)
    <3>1. entries' \in Seq(Entry)
      <4>1. IInv'
        BY BlankStepInv
      <4> QED
        BY <4>1 DEF IInv, TypeOK
    <3>2. DOMAIN entries' = 1 .. Len(entries') /\ Len(entries') \in Nat
      BY <3>1, SeqElements
    <3> QED
      BY <1>1, <2>3, <2>4, <3>2
  <2>6. Blanked.name = NULL
    BY DEF Blanked
  <2>7. ASSUME \A x \in k' .. j' - 1 : entries'[x].name # NULL
        PROVE  InList(entries'[i])
    <3>1. \A x \in k .. j - 1 : x = k \/ x \in k' .. j' - 1
      BY <1>1, <2>2
    <3>2. ASSUME NEW x \in k .. j - 1 PROVE entries[x].name # NULL
      <4>1. CASE x = k
        BY <1>3, <4>1
      <4>2. CASE x # k
        <5>1. entries'[x].name # NULL /\ x # i
          BY <1>1, <2>7, <3>1, <4>2
        <5>2. x \in 1 .. Len(entries)
          <6>1. IndexInv
            BY DEF IInv
          <6>2. j \in i + 1 .. Len(entries) + 1
            BY <1>1, <6>1 DEF IndexInv
          <6> QED
            BY <1>1, <6>2
        <5> QED
          BY <2>4, <4>2, <5>1, <5>2
      <4> QED
        BY <4>1, <4>2
    <3>3. InList(entries[i])
      BY <1>1, <3>2 DEF MergedInv
    <3> QED
      BY <2>4, <3>3 DEF InList
  <2>8. ASSUME NEW x \in 1 .. Len(entries'), entries'[x].name # NULL, x # i
        PROVE  InList(entries'[x])
    <3>1. x # k /\ x \in 1 .. Len(entries)
      BY <2>4, <2>5, <2>6, <2>8
    <3> QED
      BY <1>1, <2>4, <2>8, <3>1 DEF MergedInv
  <2> QED
    BY <1>1, <2>2, <2>7, <2>8 DEF MergedInv
<1> QED
  BY <1>2, <1>3

(* The group is complete.                                                    *)
LEMMA BlankedMerged ==
  ASSUME IInv, MergedInv, MergeBlanked
  PROVE  MergedInv'
<1>1. pc = "blank" /\ pc' = "tally" /\ k = j /\ UNCHANGED entries /\ k \in Int
  BY DEF IInv, TypeOK, MergeBlanked
<1>2. InList(entries[i])
  <2>1. k .. j - 1 = {}
    BY <1>1
  <2> QED
    BY <1>1, <2>1 DEF MergedInv
<1> QED
  BY <1>1, <1>2 DEF MergedInv

(* The second sort moves entries, and the cut drops some.                    *)
LEMMA EndMerged ==
  ASSUME IInv, MergedInv, MergeEnd
  PROVE  MergedInv'
<1> DEFINE n == Len(entries)
<1>1. /\ TypeOK /\ entries \in Seq(Entry) /\ n \in Nat
      /\ pc = "visit" /\ pc' \in {"merge", "ready"} /\ merged \in 0 .. n
  <2>1. /\ TypeOK /\ IndexInv /\ pc = "visit" /\ pc' \in {"merge", "ready"}
    BY DEF IInv, MergeEnd
  <2>2. merged <= i - 1 /\ i \in 1 .. n + 1
    BY <2>1 DEF IndexInv, Passing, Frontier
  <2>3. entries \in Seq(Entry) /\ n \in Nat /\ merged \in 0 .. MaxEntries /\ MaxEntries \in Nat
    <3>1. merged \in 0 .. MaxEntries /\ MaxEntries \in Nat
      BY <2>1, BlocklistAssumption DEF TypeOK
    <3>2. entries \in Seq(Entry)
      BY <2>1 DEF TypeOK
    <3>3. n \in Nat
      BY <2>1, EntryFacts
    <3> QED
      BY <3>1, <3>2, <3>3
  <2> QED
    BY <2>1, <2>2, <2>3
<1>2. CASE entries' = entries
  BY <1>1, <1>2, MergedFrame
<1>3. ASSUME NEW s \in Sortings(entries), entries' = SubSeq(s, 1, Len(s) - merged)
      PROVE  MergedInv'
  <2>1. s \in Seq(Entry) /\ Len(s) = n
    BY <1>1, SortingIsReordering
  <2>2. PICK p \in Reorderings(n) : \A x \in 1 .. n : s[x] = entries[p[x]]
    BY <1>1, SortingIsReordering
  <2> DEFINE c == n - merged
  <2>3. c \in 0 .. n
    BY <1>1
  <2>4. Len(entries') = c /\ \A x \in 1 .. c : x \in 1 .. n /\ entries'[x] = s[x]
    <3>1. \A x \in 1 .. c : x \in 1 .. n /\ s[x] \in Entry
      BY <1>1, <2>1, <2>3, SeqElements
    <3> QED
      BY <1>1, <1>3, <2>1, <2>3, <3>1, SubSeqProperties
  <2> HIDE DEF c
  <2>5. \A x \in 1 .. c : p[x] \in 1 .. n /\ entries'[x] = entries[p[x]]
    BY <2>2, <2>4 DEF Reorderings
  <2> QED
    BY <1>1, <2>4, <2>5, MergedMoved
<1> QED
  BY <1>2, <1>3 DEF MergeEnd

(* No step of the blocklist makes anything but ranges of the list files.     *)
LEMMA NextMerged == IInv /\ MergedInv /\ [Next]_vars => MergedInv'
<1> SUFFICES ASSUME IInv, MergedInv, [Next]_vars PROVE MergedInv'
  OBVIOUS
<1>1. ASSUME NEW r \in Ranges, blocklist_append(r) PROVE MergedInv'
  BY <1>1, AppendMerged
<1>2. ASSUME NEW start \in 0 .. Len(entries), blocklist_clear(start) PROVE MergedInv'
  BY <1>2, ClearMerged
<1>3. CASE MergeBegin \/ MergeTally
  <2>1. /\ UNCHANGED entries /\ pc \in {"merge", "tally"} /\ pc' \in {"ready", "visit"}
    BY <1>3 DEF MergeBegin, MergeTally
  <2> QED
    BY <2>1, MergedFrame
<1>4. CASE Find \/ \E ip \in Ip : FindBegin(ip)
  <2>1. /\ UNCHANGED entries /\ pc \in {"ready", "find", "answered"}
        /\ pc' \in {"ready", "find", "answered"}
    BY <1>4 DEF Find, FindBegin, FindStep, FindMiss, FindReturn
  <2> QED
    BY <2>1, MergedFrame
<1>5. CASE Respawn
  BY <1>5 DEF Respawn, MergedInv
<1>6. CASE UNCHANGED vars
  BY <1>6 DEF vars, loopVars, MergedInv
<1> QED
  BY <1>1, <1>2, <1>3, <1>4, <1>5, <1>6, SortMerged, VisitMerged, SaturateMerged,
     ExtendMerged, ScannedMerged, BlankMerged, BlankedMerged, EndMerged
  DEF Next, Merge

(* Every entry of a list in use is a range that a list file may hold.        *)
LEMMA RangesStay ==
  LoaderSpec => [](IInv /\ MergedInv)
<1>1. Init => MergedInv
  BY DEF Init, blocklist_init, MergedInv
<1>2. Spec => [](IInv /\ MergedInv)
  BY <1>1, InitInv, NextInv, NextMerged, PTL DEF Spec
<1> QED
  BY <1>2, LoaderRefines, PTL DEF ImplementsBlocklist

-----------------------------------------------------------------------------
(* What "pgld -m" prints, and what a daemon reads of it.                     *)

(* An entry of the merged list, as it is printed. *)
Printable ==
  {p \in [ip_min : Ip, ip_max : Ip, labelled : BOOLEAN] : <<p.ip_min, p.ip_max>> \in Ranges}

PrintedLine(p) == LineOf[<<p.ip_min, p.ip_max>>, p.labelled]

(* The first n printed lines, and the text they make. *)
PrintedLines(s, n) == [x \in 1 .. n |-> PrintedLine(s[x])]

Text(s, n) == FlattenSeq(PrintedLines(s, n))

(* A printed line is a line of its own, and read as a range if labelled.     *)
LEMMA PrintedLineFacts ==
  ASSUME NEW p \in Printable
  PROVE  /\ WellEnded(PrintedLine(p)) /\ PrintedLine(p) \in Line
         /\ PrintedLine(p) \in Seq(Bytes)
         /\ RangeIn[PrintedLine(p)] =
              IF p.labelled THEN <<p.ip_min, p.ip_max>> ELSE NoRange
         /\ <<p.ip_min, p.ip_max>> # NoRange
<1> DEFINE r == <<p.ip_min, p.ip_max>>
<1>1. /\ r \in Ranges /\ r \in Ip \X Ip /\ p.labelled \in BOOLEAN /\ r # <<>>
      /\ PrintedLine(p) = LineOf[r, p.labelled]
  BY DEF Printable, PrintedLine
<1> HIDE DEF r
<1>2. \A q \in Ip \X Ip, b \in BOOLEAN :
        LineOf[q, b] \in Line /\ WellEnded(LineOf[q, b])
  <2> SUFFICES ASSUME NEW q \in Ip \X Ip, NEW b \in BOOLEAN
               PROVE  LineOf[q, b] \in Line /\ WellEnded(LineOf[q, b])
    OBVIOUS
  <2>1. LineOf[q, b] \in Line
    <3>1. <<q, b>> \in (Ip \X Ip) \X BOOLEAN
      OBVIOUS
    <3> HIDE DEF Line
    <3> QED
      BY <3>1, DumpAssumption
  <2>2. LineOf[q, b] # <<>> /\ \A x \in 1 .. Len(LineOf[q, b]) :
          LineOf[q, b][x] = LF <=> x = Len(LineOf[q, b])
    BY DumpAssumption, ZenonT(60)
  <2> QED
    BY <2>1, <2>2 DEF WellEnded
<1>3. PrintedLine(p) \in Line /\ WellEnded(PrintedLine(p))
  BY <1>1, <1>2
<1>4. RangeIn[PrintedLine(p)] = IF p.labelled THEN r ELSE NoRange
  <2>1. CASE p.labelled
    <3>1. PrintedLine(p) = LineOf[r, TRUE]
      BY <1>1, <2>1
    <3>2. RangeIn[LineOf[r, TRUE]] = r
      BY <1>1, DumpAssumption
    <3> QED
      BY <2>1, <3>1, <3>2
  <2>2. CASE ~p.labelled
    <3>1. PrintedLine(p) = LineOf[r, FALSE]
      BY <1>1, <2>2
    <3>2. RangeIn[LineOf[r, FALSE]] = NoRange
      BY <1>1, DumpAssumption
    <3> QED
      BY <2>2, <3>1, <3>2
  <2> QED
    BY <2>1, <2>2
<1>5. PrintedLine(p) \in Seq(Bytes)
  BY <1>3 DEF Line
<1> QED
  BY <1>1, <1>3, <1>4, <1>5 DEF r, NoRange

(* Printing one entry more. *)
LEMMA OneMorePrinted ==
  ASSUME NEW s \in Seq(Printable), NEW n \in Nat, n < Len(s)
  PROVE  /\ PrintedLines(s, n) \in Seq(Line) /\ Text(s, n) \in Seq(Bytes)
         /\ PrintedLine(s[n + 1]) \in Seq(Bytes)
         /\ WellEnded(PrintedLine(s[n + 1]))
         /\ PrintedLines(s, n + 1) = Append(PrintedLines(s, n), PrintedLine(s[n + 1]))
         /\ Text(s, n + 1) = Text(s, n) \o PrintedLine(s[n + 1])
<1> DEFINE l == PrintedLine(s[n + 1])
           a == PrintedLines(s, n)
           z == PrintedLines(s, n + 1)
           b == Append(a, l)
<1>1. \A x \in 1 .. n + 1 : x \in 1 .. Len(s) /\ s[x] \in Printable
  <2> HIDE DEF Printable
  <2> QED
    OBVIOUS
<1>2. \A x \in 1 .. n + 1 : /\ PrintedLine(s[x]) \in Line
                            /\ PrintedLine(s[x]) \in Seq(Bytes)
                            /\ WellEnded(PrintedLine(s[x]))
  BY <1>1, PrintedLineFacts
<1>3. n + 1 \in 1 .. n + 1 /\ \A x \in 1 .. n : x \in 1 .. n + 1
  OBVIOUS
<1>4. l \in Line /\ l \in Seq(Bytes) /\ WellEnded(l)
  BY <1>2, <1>3
<1>5. \A T : (\A x \in 1 .. n + 1 : PrintedLine(s[x]) \in T) =>
             /\ a \in Seq(T) /\ Len(a) = n /\ z \in Seq(T) /\ Len(z) = n + 1
             /\ \A x \in 1 .. n : a[x] = PrintedLine(s[x])
             /\ \A x \in 1 .. n + 1 : z[x] = PrintedLine(s[x])
  <2> SUFFICES ASSUME NEW T, \A x \in 1 .. n + 1 : PrintedLine(s[x]) \in T
               PROVE  /\ a \in Seq(T) /\ Len(a) = n /\ z \in Seq(T) /\ Len(z) = n + 1
                      /\ \A x \in 1 .. n : a[x] = PrintedLine(s[x])
                      /\ \A x \in 1 .. n + 1 : z[x] = PrintedLine(s[x])
    OBVIOUS
  <2> QED
    BY <1>3 DEF PrintedLines
<1>6. /\ a \in Seq(Line) /\ a \in Seq(Seq(Bytes)) /\ Len(a) = n
      /\ z \in Seq(Line) /\ Len(z) = n + 1
      /\ \A x \in 1 .. n : a[x] = PrintedLine(s[x])
      /\ \A x \in 1 .. n + 1 : z[x] = PrintedLine(s[x])
  <2> HIDE DEF a, z, Line
  <2> QED
    BY <1>2, <1>5
<1> HIDE DEF a, z, l
<1>7. /\ b \in Seq(Line) /\ Len(b) = n + 1 /\ b[n + 1] = l
      /\ \A x \in 1 .. n : b[x] = a[x]
  <2> HIDE DEF Line
  <2> QED
    BY <1>4, <1>6, AppendProperties
<1> HIDE DEF b
<1>8. z = b
  <2>1. \A x \in 1 .. n + 1 : z[x] = b[x]
    <3> SUFFICES ASSUME NEW x \in 1 .. n + 1 PROVE z[x] = b[x]
      OBVIOUS
    <3>1. CASE x = n + 1
      BY <1>6, <1>7, <3>1 DEF l
    <3>2. CASE x # n + 1
      <4>1. x \in 1 .. n
        BY <3>2
      <4> QED
        BY <1>6, <1>7, <4>1
    <3> QED
      BY <3>1, <3>2
  <2> HIDE DEF Line
  <2> QED
    BY <1>6, <1>7, <2>1, SeqEqual
<1>9. FlattenSeq(a) \in Seq(Bytes) /\ FlattenSeq(Append(a, l)) = FlattenSeq(a) \o l
  BY <1>4, <1>6, FlattenMore
<1> QED
  BY <1>4, <1>6, <1>8, <1>9 DEF Text, a, z, l, b

(* A text of printed lines has just these lines. *)
LEMMA LinesOfPrinted ==
  ASSUME NEW s \in Seq(Printable)
  PROVE  LinesOf[Text(s, Len(s))] = PrintedLines(s, Len(s))
<1> DEFINE N == Len(s)
           Good(n) == \A t \in Seq(Bytes) :
                        LinesOf[Text(s, n) \o t] = PrintedLines(s, n) \o LinesOf[t]
           P == {n \in Nat : n <= N => Good(n)}
<1>1. N \in Nat
  OBVIOUS
<1>2. PrintedLines(s, 0) = <<>> /\ Text(s, 0) = <<>>
  <2>1. PrintedLines(s, 0) = <<>>
    BY DEF PrintedLines
  <2> QED
    BY <2>1, FlattenNothing DEF Text
<1>3. P \in SUBSET Nat /\ 0 \in P
  <2>1. ASSUME NEW t \in Seq(Bytes)
        PROVE  LinesOf[Text(s, 0) \o t] = PrintedLines(s, 0) \o LinesOf[t]
    <3>1. LinesOf[t] \in Seq(Line)
      BY LinesType
    <3>2. <<>> \o t = t /\ <<>> \o LinesOf[t] = LinesOf[t]
      BY <3>1
    <3> QED
      BY <1>2, <3>2
  <2> QED
    BY <2>1
<1>4. ASSUME NEW n \in Nat, n < N, Good(n) PROVE Good(n + 1)
  <2> SUFFICES ASSUME NEW t \in Seq(Bytes)
               PROVE  LinesOf[Text(s, n + 1) \o t] = PrintedLines(s, n + 1) \o LinesOf[t]
    OBVIOUS
  <2> DEFINE l == PrintedLine(s[n + 1])
             a == PrintedLines(s, n)
             f == Text(s, n)
  <2>2. /\ a \in Seq(Line) /\ f \in Seq(Bytes) /\ l \in Seq(Bytes) /\ WellEnded(l)
        /\ PrintedLines(s, n + 1) = Append(a, l) /\ Text(s, n + 1) = f \o l
    BY <1>4, OneMorePrinted
  <2>3. \A u \in Seq(Bytes) : LinesOf[f \o u] = a \o LinesOf[u]
    BY <1>4
  <2> HIDE DEF l, a, f, Good, P
  <2>4. l \o t \in Seq(Bytes) /\ (f \o l) \o t = f \o (l \o t)
    BY <2>2
  <2>5. LinesOf[l \o t] = <<l>> \o LinesOf[t] /\ LinesOf[t] \in Seq(Line) /\ l \in Line
    BY <2>2, LineInFront, LinesType DEF WellEnded
  <2>6. Append(a, l) \o LinesOf[t] = a \o (<<l>> \o LinesOf[t])
    <3>1. \A u, v \in Seq(Line), e \in Line : Append(u, e) \o v = u \o (<<e>> \o v)
      BY JoinFacts
    <3> HIDE DEF Line
    <3> QED
      BY <2>2, <2>5, <3>1, Zenon
  <2> QED
    BY <2>2, <2>3, <2>4, <2>5, <2>6
<1>5. P = Nat
  <2> HIDE DEF Good
  <2>1. ASSUME NEW n \in P PROVE n + 1 \in P
    <3>1. n \in Nat /\ n + 1 \in Nat /\ (n <= N => Good(n))
      OBVIOUS
    <3>2. n + 1 <= N => n < N /\ n <= N
      BY <1>1, <3>1
    <3> QED
      BY <1>4, <3>1, <3>2
  <2> HIDE DEF P
  <2> QED
    BY <1>3, <2>1, Counting
<1> HIDE DEF P
<1>6. Good(N)
  <2>1. N \in P /\ N <= N
    BY <1>1, <1>5
  <2> HIDE DEF Good, N
  <2> QED
    BY <2>1 DEF P
<1>7. /\ Text(s, N) \in Seq(Bytes) /\ PrintedLines(s, N) \in Seq(Line)
  <2>1. CASE N = 0
    <3>1. <<>> \in Seq(Bytes) /\ <<>> \in Seq(Line)
      OBVIOUS
    <3> QED
      BY <1>2, <2>1, <3>1
  <2>2. CASE N # 0
    <3>1. N - 1 \in Nat /\ N - 1 < N /\ (N - 1) + 1 = N /\ N \in 1 .. N
      BY <1>1, <2>2
    <3> DEFINE m == N - 1
               l == PrintedLine(s[m + 1])
    <3>2. m \in Nat /\ m < N /\ m + 1 = N
      BY <3>1
    <3> HIDE DEF m
    <3>3. /\ PrintedLines(s, m) \in Seq(Line) /\ Text(s, m) \in Seq(Bytes)
          /\ l \in Seq(Bytes) /\ l \in Line
          /\ PrintedLines(s, m + 1) = Append(PrintedLines(s, m), l)
          /\ Text(s, m + 1) = Text(s, m) \o l
      BY <3>2, OneMorePrinted DEF WellEnded
    <3> HIDE DEF l, Line
    <3>4. Append(PrintedLines(s, m), l) \in Seq(Line) /\ Text(s, m) \o l \in Seq(Bytes)
      BY <3>3, AppendProperties, ConcatProperties
    <3> QED
      BY <3>2, <3>3, <3>4
  <2> QED
    BY <2>1, <2>2
<1>8. LinesOf[Text(s, N) \o <<>>] = PrintedLines(s, N) \o LinesOf[<<>>]
  <2>1. <<>> \in Seq(Bytes)
    OBVIOUS
  <2> HIDE DEF N
  <2> QED
    BY <1>6, <2>1
<1>9. Text(s, N) \o <<>> = Text(s, N) /\ PrintedLines(s, N) \o <<>> = PrintedLines(s, N)
  <2> HIDE DEF N, Line
  <2> QED
    BY <1>7
<1> QED
  BY <1>8, <1>9, LinesOfNothing

(* The ranges among readings: all of them and nothing else. *)
LEMMA OnlyRangesMembers ==
  \A r \in Seq(Reading), g \in Ranges :
    (\E y \in 1 .. Len(OnlyRanges(r)) : OnlyRanges(r)[y] = g)
      <=> g # NoRange /\ \E x \in 1 .. Len(r) : r[x] = g
<1> DEFINE Good(r) == \A g \in Ranges :
                        (\E y \in 1 .. Len(OnlyRanges(r)) : OnlyRanges(r)[y] = g)
                          <=> g # NoRange /\ \E x \in 1 .. Len(r) : r[x] = g
           P == {n \in Nat : \A r \in Seq(Reading) : Len(r) = n => Good(r)}
<1>1. P \in SUBSET Nat /\ 0 \in P
  <2>1. ASSUME NEW r \in Seq(Reading), Len(r) = 0 PROVE Good(r)
    <3>1. r = <<>> /\ NoRange \in Reading
      BY <2>1 DEF Reading
    <3>2. OnlyRanges(r) = <<>>
      BY <3>1, OnlyRangesFacts
    <3> QED
      BY <3>1, <3>2
  <2> HIDE DEF Good
  <2> QED
    BY <2>1
<1>2. ASSUME NEW n \in P PROVE n + 1 \in P
  <2> SUFFICES ASSUME NEW r \in Seq(Reading), Len(r) = n + 1 PROVE Good(r)
    OBVIOUS
  <2> HIDE DEF Reading
  <2>1. PICK f \in Seq(Reading), x \in Reading : r = Append(f, x) /\ Len(f) = n
    <3>1. n \in Nat
      OBVIOUS
    <3> DEFINE f == SubSeq(r, 1, n)
    <3>2. /\ f \in Seq(Reading) /\ Len(f) = n /\ r[n + 1] \in Reading
          /\ \A m \in 1 .. n : f[m] = r[m]
      <4>1. \A m \in 1 .. n + 1 : r[m] \in Reading
        OBVIOUS
      <4>2. \A m \in 1 .. n : r[m] \in Reading
        BY <3>1, <4>1
      <4> QED
        BY <3>1, <4>1, <4>2, SubSeqProperties
    <3> HIDE DEF f
    <3> DEFINE z == Append(f, r[n + 1])
    <3>3. /\ z \in Seq(Reading) /\ Len(z) = n + 1 /\ z[n + 1] = r[n + 1]
          /\ \A m \in 1 .. n : z[m] = f[m]
      BY <3>2, AppendProperties
    <3> HIDE DEF z
    <3>4. \A m \in 1 .. n + 1 : z[m] = r[m]
      BY <3>1, <3>2, <3>3
    <3>5. z = r
      BY <3>3, <3>4, SeqEqual
    <3> QED
      BY <3>2, <3>5 DEF z
  <2>2. Good(f)
    BY <2>1
  <2> HIDE DEF P, Good
  <2>3. /\ OnlyRanges(f) \in Seq(Ranges)
        /\ OnlyRanges(r) = OnlyRanges(f) \o AsRange(x)
    BY <2>1, OnlyRangesFacts
  <2>4. /\ Len(r) = n + 1 /\ n \in Nat /\ r[n + 1] = x
        /\ \A m \in 1 .. n : r[m] = f[m]
    BY <2>1, AppendProperties DEF P
  <2> DEFINE o == OnlyRanges(f)
             q == OnlyRanges(r)
  <2>5. \A g : (\E m \in 1 .. Len(r) : r[m] = g)
                 <=> (\E m \in 1 .. Len(f) : f[m] = g) \/ g = x
    <3>1. \A m \in 1 .. Len(r) : m \in 1 .. n \/ m = n + 1
      BY <2>4
    <3>2. n + 1 \in 1 .. Len(r) /\ \A m \in 1 .. n : m \in 1 .. Len(r)
      BY <2>4
    <3> QED
      BY <2>1, <2>4, <3>1, <3>2
  <2>6. \A g \in Ranges : (\E y \in 1 .. Len(q) : q[y] = g)
                 <=> (\E y \in 1 .. Len(o) : o[y] = g) \/ (g = x /\ x # NoRange)
    <3>1. CASE x = NoRange
      <4>1. q = o
        <5>1. AsRange(x) = <<>>
          BY <3>1 DEF AsRange
        <5> HIDE DEF o, q
        <5>2. \A a \in Seq(Ranges) : a \o <<>> = a
          OBVIOUS
        <5> QED
          BY <2>3, <5>1, <5>2 DEF o, q
      <4> HIDE DEF o, q
      <4> QED
        BY <3>1, <4>1
    <3>2. CASE x # NoRange
      <4>1. x \in Ranges /\ AsRange(x) = <<x>>
        BY <3>2 DEF AsRange, Reading
      <4>2. o \in Seq(Ranges) /\ q = o \o <<x>>
        BY <2>3, <4>1
      <4> HIDE DEF o, q
      <4>3. /\ Len(o) \in Nat /\ Len(q) = Len(o) + 1 /\ q[Len(o) + 1] = x
            /\ \A y \in 1 .. Len(o) : q[y] = o[y]
        BY <4>1, <4>2
      <4>4. \A y \in 1 .. Len(q) : y \in 1 .. Len(o) \/ y = Len(o) + 1
        BY <4>3
      <4>5. Len(o) + 1 \in 1 .. Len(q) /\ \A y \in 1 .. Len(o) : y \in 1 .. Len(q)
        BY <4>3
      <4> QED
        BY <3>2, <4>3, <4>4, <4>5
    <3> QED
      BY <3>1, <3>2
  <2> QED
    BY <2>2, <2>5, <2>6 DEF Good
<1> HIDE DEF P
<1>3. P = Nat
  BY <1>1, <1>2, Counting
<1> QED
  <2> SUFFICES ASSUME NEW r \in Seq(Reading) PROVE Good(r)
    OBVIOUS
  <2>1. Len(r) \in P
    <3>1. Len(r) \in Nat
      OBVIOUS
    <3> QED
      BY <1>3, <3>1
  <2> HIDE DEF Good, Reading
  <2> QED
    BY <2>1 DEF P

(* The printed text holds what was merged, and the files opened are those    *)
(* of the command line.                                                      *)
MasterInv ==
  /\ premerged \in Seq(Printable)
  /\ step = "dump" =>
       /\ pc = "ready" /\ Len(premerged) = Len(entries) /\ written <= Len(premerged)
       /\ \A x \in 1 .. Len(premerged) : PrintedLine(premerged[x]) = DumpLine(entries[x])
       /\ master = Text(premerged, written)
  /\ step # "dump" => master = Text(premerged, Len(premerged))

NamedInv ==
  /\ ~Stdin => \A x \in 1 .. Len(files) : files[x] \in blockfiles[x]
  /\ step = "merge" => Len(files) = FilesToLoad

(* Before the first dump nothing was printed.                                *)
LEMMA MasterInit == LoaderInit => MasterInv /\ NamedInv
<1> SUFFICES ASSUME LoaderInit PROVE MasterInv /\ NamedInv
  OBVIOUS
<1>1. step = "idle" /\ files = <<>> /\ master = <<>> /\ premerged = <<>>
  BY DEF LoaderInit
<1>2. Text(<<>>, 0) = <<>>
  <2>1. PrintedLines(<<>>, 0) = <<>>
    BY DEF PrintedLines
  <2> QED
    BY <2>1, FlattenNothing DEF Text
<1>3. <<>> \in Seq(Printable) /\ Len(<<>>) = 0
  OBVIOUS
<1> QED
  BY <1>1, <1>2, <1>3 DEF MasterInv, NamedInv

(* Every file opened is one of the command line.                             *)
LEMMA NamedStep ==
  ASSUME LoaderInv, NamedInv, [LoaderNext]_allVars
  PROVE  NamedInv'
<1>1. CASE AsciiOpen
  <2>1. /\ step = "next" /\ Len(files) < FilesToLoad /\ UNCHANGED blockfiles
        /\ step' # "merge"
    BY <1>1 DEF AsciiOpen, premergeVars
  <2>2. PICK c \in IF Stdin THEN {d \in Contents : Piped(d)}
                            ELSE blockfiles[Len(files) + 1] : files' = Append(files, c)
    BY <1>1 DEF AsciiOpen
  <2>3. files \in Seq(Content) /\ c \in Content
    BY <2>1, <2>2, OpenedIsContent DEF LoaderInv, FilesInv
  <2>4. /\ Len(files) \in Nat /\ Len(files') = Len(files) + 1
        /\ files'[Len(files) + 1] = c /\ \A x \in 1 .. Len(files) : files'[x] = files[x]
    <3> HIDE DEF Content
    <3> QED
      BY <2>2, <2>3, AppendProperties
  <2>5. \A x \in 1 .. Len(files') : x \in 1 .. Len(files) \/ x = Len(files) + 1
    BY <2>4
  <2>6. Stdin' = Stdin
    BY <2>1 DEF Stdin
  <2> QED
    BY <2>1, <2>2, <2>4, <2>5, <2>6 DEF NamedInv
<1>2. CASE LoadAllBegin \/ StartDaemon \/ LoaderRespawn
  <2>1. files' = <<>> /\ step' # "merge"
    BY <1>2 DEF LoadAllBegin, StartDaemon, LoaderRespawn
  <2> QED
    BY <2>1 DEF NamedInv
<1>3. CASE /\ UNCHANGED <<files, blockfiles>>
           /\ step' = "merge" => step = "merge" \/ Len(files) = FilesToLoad
  <2>1. Stdin' = Stdin /\ FilesToLoad' = FilesToLoad
    BY <1>3 DEF Stdin, FilesToLoad
  <2> QED
    BY <1>3, <2>1 DEF NamedInv
<1>4. \/ AsciiRead \/ AsciiLine \/ AsciiAccept \/ AsciiReject \/ BinaryHeader
      \/ BinaryRange \/ BinaryEnd \/ LoadAllSort \/ LoadAllMerge \/ LoadAllEnd
      \/ DumpBegin \/ blocklist_dump \/ DumpEnd \/ UNCHANGED allVars
      => /\ UNCHANGED <<files, blockfiles>>
         /\ step' = "merge" => step = "merge" \/ Len(files) = FilesToLoad
  BY DEF AsciiRead, AsciiLine, AsciiAccept, AsciiReject, BinaryHeader, BinaryRange,
     BinaryEnd, LoadAllSort, LoadAllMerge, LoadAllEnd, DumpBegin, blocklist_dump,
     DumpEnd, Failed, allVars, loaderVars, premergeVars, fileVars
<1> QED
  BY <1>1, <1>2, <1>3, <1>4 DEF LoaderNext, LoadSteps

(* What is printed so far is the text of the entries written so far.         *)
LEMMA MasterStep ==
  ASSUME IInv, LoaderInv, MergedInv, MasterInv, [LoaderNext]_allVars
  PROVE  MasterInv'
<1>1. CASE DumpBegin
  <2>1. /\ pc = "ready" /\ step' = "dump" /\ master' = <<>> /\ written' = 0
        /\ UNCHANGED <<entries, pc, labels>>
        /\ premerged' =
             [x \in 1 .. Len(entries) |-> [ip_min |-> entries[x].ip_min,
                                           ip_max |-> entries[x].ip_max,
                                           labelled |-> HasLabel(entries[x])]]
    BY <1>1 DEF DumpBegin, vars, fileVars
  <2>2. TypeOK /\ Len(entries) \in Nat
    BY EntryFacts DEF IInv
  <2>3. ASSUME NEW x \in 1 .. Len(entries)
        PROVE  [ip_min |-> entries[x].ip_min, ip_max |-> entries[x].ip_max,
                labelled |-> HasLabel(entries[x])] \in Printable
    <3>1. entries[x].name # NULL
      BY <2>1 DEF IInv, BlankInv, InUse, Live
    <3>2. <<entries[x].ip_min, entries[x].ip_max>> \in Ranges
      BY <2>1, <3>1 DEF MergedInv, InList
    <3>3. entries[x].ip_min \in Ip /\ entries[x].ip_max \in Ip
      BY <2>2, EntryFacts DEF Ip, Entry
    <3>4. HasLabel(entries[x]) \in BOOLEAN
      BY DEF HasLabel
    <3> QED
      BY <3>2, <3>3, <3>4 DEF Printable
  <2>4. premerged' \in Seq(Printable) /\ Len(premerged') = Len(entries)
    <3> HIDE DEF Printable
    <3> QED
      BY <2>1, <2>2, <2>3
  <2>5. \A x \in 1 .. Len(entries) : PrintedLine(premerged'[x]) = DumpLine(entries[x])
    BY <2>1 DEF PrintedLine, DumpLine
  <2>6. \A x \in 1 .. Len(entries) : DumpLine(entries[x])' = DumpLine(entries[x])
    BY <2>1 DEF DumpLine, HasLabel
  <2>7. \A s : Text(s, 0) = <<>>
    <3>1. \A s : PrintedLines(s, 0) = <<>>
      BY DEF PrintedLines
    <3> QED
      BY <3>1, FlattenNothing DEF Text
  <2> QED
    BY <2>1, <2>2, <2>4, <2>5, <2>6, <2>7 DEF MasterInv
<1>2. CASE blocklist_dump
  <2>1. /\ step = "dump" /\ step' = "dump" /\ written < Len(entries)
        /\ master' = master \o DumpLine(entries[written + 1]) /\ written' = written + 1
        /\ UNCHANGED <<entries, pc, labels, premerged>>
    BY <1>2 DEF blocklist_dump, ToDump, vars, fileVars
  <2>2. /\ premerged \in Seq(Printable) /\ written \in Nat /\ written < Len(premerged)
        /\ Len(premerged) = Len(entries) /\ Len(entries) \in Nat
    BY <2>1, EntryFacts DEF MasterInv, LoaderInv, FilesInv, IInv
  <2>3. Text(premerged, written + 1)
          = Text(premerged, written) \o PrintedLine(premerged[written + 1])
    BY <2>2, OneMorePrinted
  <2>4. written + 1 \in 1 .. Len(premerged)
    BY <2>2
  <2>5. PrintedLine(premerged[written + 1]) = DumpLine(entries[written + 1])
    BY <2>1, <2>4 DEF MasterInv
  <2>6. master' = Text(premerged, written')
    BY <2>1, <2>3, <2>5 DEF MasterInv
  <2>7. \A e : DumpLine(e)' = LineOf[<<e.ip_min, e.ip_max>>, e.name \cap labels # {}]
    BY <2>1 DEF DumpLine, HasLabel
  <2>8. \A x \in 1 .. Len(premerged) : PrintedLine(premerged[x]) = DumpLine(entries[x])'
    BY <2>1 DEF MasterInv, DumpLine, HasLabel
  <2>9. written' <= Len(premerged)
    BY <2>1, <2>2
  <2> QED
    BY <2>1, <2>2, <2>6, <2>8, <2>9 DEF MasterInv
<1>3. CASE DumpEnd
  <2>1. /\ step = "dump" /\ step' = "dumped" /\ ~(written < Len(entries))
        /\ UNCHANGED <<premerged, master>>
    BY <1>3 DEF DumpEnd, ToDump, premergeVars
  <2>2. written = Len(premerged)
    BY <2>1, EntryFacts DEF MasterInv, LoaderInv, FilesInv, IInv
  <2> QED
    BY <2>1, <2>2 DEF MasterInv
<1>4. CASE step # "dump" /\ step' # "dump" /\ UNCHANGED <<premerged, master>>
  BY <1>4 DEF MasterInv
<1>5. CASE UNCHANGED allVars
  <2>1. UNCHANGED <<step, pc, entries, labels, premerged, master, written>>
    BY <1>5 DEF allVars, vars, loaderVars, premergeVars, fileVars
  <2>2. \A x : DumpLine(entries[x])' = DumpLine(entries[x])
    BY <2>1 DEF DumpLine, HasLabel
  <2> QED
    BY <2>1, <2>2 DEF MasterInv
<1>6. \/ LoadAllBegin \/ AsciiOpen \/ AsciiRead \/ AsciiLine \/ AsciiAccept
      \/ AsciiReject \/ BinaryHeader \/ BinaryRange \/ BinaryEnd \/ LoadAllSort
      \/ LoadAllMerge \/ LoadAllEnd \/ StartDaemon \/ LoaderRespawn
      => step # "dump" /\ step' # "dump" /\ UNCHANGED <<premerged, master>>
  <2>1. \/ LoadAllBegin \/ AsciiOpen \/ AsciiRead \/ AsciiLine \/ AsciiAccept
        \/ AsciiReject \/ BinaryHeader \/ BinaryRange \/ BinaryEnd \/ LoadAllSort
        => step # "dump" /\ step' # "dump" /\ UNCHANGED <<premerged, master>>
    BY DEF LoadAllBegin, AsciiOpen, AsciiRead, AsciiLine, AsciiAccept, AsciiReject,
       BinaryHeader, BinaryRange, BinaryEnd, LoadAllSort, Failed, premergeVars
  <2>2. LoadAllMerge \/ LoadAllEnd \/ StartDaemon \/ LoaderRespawn
        => step # "dump" /\ step' # "dump" /\ UNCHANGED <<premerged, master>>
    BY DEF LoadAllMerge, LoadAllEnd, StartDaemon, LoaderRespawn, premergeVars, loaderVars
  <2> QED
    BY <2>1, <2>2
<1> QED
  BY <1>1, <1>2, <1>3, <1>4, <1>5, <1>6 DEF LoaderNext, LoadSteps

(* What a daemon reads of the printed text: the labelled ranges, provided    *)
(* the first of them comes within the lines that are tried.                  *)
Readable == \E x \in 1 .. Len(premerged) : x <= TryLines /\ premerged[x].labelled

(* The lists that a daemon finds in the printed text.                        *)
LEMMA MasterReads ==
  ASSUME MasterInv, step = "merge", master \in Seq(Bytes)
  PROVE  /\ Listing(master) \in Content
         /\ \A b \in BOOLEAN : LoadableAs(b, Listing(master)) <=> Readable
         /\ \A b \in BOOLEAN, g \in Ranges :
              (\E y \in 1 .. Len(RangesAs(b, Listing(master))) :
                 RangesAs(b, Listing(master))[y] = g)
              <=> /\ Readable
                  /\ \E x \in 1 .. Len(premerged) :
                       /\ premerged[x].labelled
                       /\ <<premerged[x].ip_min, premerged[x].ip_max>> = g
<1> DEFINE c == Listing(master)
           n == Len(premerged)
           L == PrintedLines(premerged, n)
           r == Read(L)
           At(x) == <<premerged[x].ip_min, premerged[x].ip_max>>
<1>1. c \in Content
  <2>1. <<>> \in Seq(Ranges)
    OBVIOUS
  <2> QED
    BY <2>1 DEF Listing, Content
<1>2. c.readable /\ c.format = "none" /\ c.text = master
  BY DEF Listing
<1> HIDE DEF c
<1>3. premerged \in Seq(Printable) /\ n \in Nat /\ LinesOf[master] = L
  BY LinesOfPrinted DEF MasterInv
<1>4. \A x \in 1 .. n : premerged[x] \in Printable
  <2> HIDE DEF Printable
  <2> QED
    BY <1>3
<1>5. Len(L) = n /\ \A x \in 1 .. n : L[x] = PrintedLine(premerged[x])
  BY <1>3 DEF PrintedLines
<1> HIDE DEF L, n
<1>6. Len(r) = n /\ \A x \in 1 .. n :
        /\ r[x] = IF premerged[x].labelled THEN At(x) ELSE NoRange
        /\ At(x) # NoRange /\ r[x] \in Reading
  <2>1. Len(r) = n /\ \A x \in 1 .. n : r[x] = RangeIn[L[x]]
    BY <1>3, <1>5 DEF Read
  <2>2. \A x \in 1 .. n : /\ RangeIn[L[x]] = IF premerged[x].labelled THEN At(x) ELSE NoRange
                          /\ At(x) # NoRange
    BY <1>4, <1>5, PrintedLineFacts
  <2>3. \A x \in 1 .. n : At(x) \in Ranges
    BY <1>4 DEF Printable
  <2> HIDE DEF r, At
  <2>4. \A x \in 1 .. n : r[x] \in Reading
    <3>1. \A x \in 1 .. n : r[x] = IF premerged[x].labelled THEN At(x) ELSE NoRange
      BY <2>1, <2>2
    <3> QED
      BY <2>3, <3>1 DEF Reading
  <2> QED
    BY <2>1, <2>2, <2>4
<1>7. r \in Seq(Reading)
  <2>1. r = [x \in 1 .. n |-> r[x]]
    BY <1>3, <1>5, <1>6 DEF Read
  <2> HIDE DEF r, Reading, At
  <2>2. \A x \in 1 .. n : r[x] \in Reading
    BY <1>6
  <2>3. [x \in 1 .. n |-> r[x]] \in Seq(Reading)
    BY <1>3, <2>2
  <2> QED
    BY <2>1, <2>3
<1>8. IsText(c) <=> Readable
  <2>1. TextRanges(c) = r
    BY <1>2, <1>3 DEF TextRanges, Read
  <2>2. IsText(c) <=> \E x \in 1 .. n : x <= TryLines /\ r[x] # NoRange
    BY <1>6, <2>1 DEF IsText
  <2> HIDE DEF r, At
  <2>3. \A x \in 1 .. n : r[x] # NoRange <=> premerged[x].labelled
    BY <1>6
  <2> QED
    BY <2>2, <2>3 DEF Readable, n
<1>9. \A b \in BOOLEAN : LoadableAs(b, c) <=> Readable
  BY <1>2, <1>8 DEF LoadableAs
<1>10. ASSUME NEW b \in BOOLEAN, NEW g \in Ranges
       PROVE  (\E y \in 1 .. Len(RangesAs(b, c)) : RangesAs(b, c)[y] = g)
              <=> Readable /\ \E x \in 1 .. n : premerged[x].labelled /\ At(x) = g
  <2>1. CASE ~Readable
    <3>1. RangesAs(b, c) = <<>>
      BY <1>9, <2>1 DEF RangesAs
    <3> QED
      BY <2>1, <3>1
  <2>2. CASE Readable
    <3>1. RangesAs(b, c) = OnlyRanges(r)
      BY <1>2, <1>3, <1>8, <1>9, <2>2 DEF RangesAs, Found
    <3> HIDE DEF r, At
    <3>2. (\E y \in 1 .. Len(OnlyRanges(r)) : OnlyRanges(r)[y] = g)
            <=> g # NoRange /\ \E x \in 1 .. Len(r) : r[x] = g
      BY <1>7, OnlyRangesMembers
    <3>3. (g # NoRange /\ \E x \in 1 .. Len(r) : r[x] = g)
            <=> \E x \in 1 .. n : premerged[x].labelled /\ At(x) = g
      BY <1>6
    <3> QED
      BY <2>2, <3>1, <3>2, <3>3
  <2> QED
    BY <2>1, <2>2
<1> QED
  BY <1>1, <1>9, <1>10 DEF c, n

(* The ranges of entries block what the entries block.                       *)
LEMMA RangeListBlocks ==
  ASSUME NEW s, Len(s) \in Nat, NEW ip
  PROVE  Blocks(s, ip) <=> \E y \in 1 .. Len(RangeList(s)) :
           RangeList(s)[y][1] <= ip /\ ip <= RangeList(s)[y][2]
<1>1. /\ Len(RangeList(s)) = Len(s)
      /\ \A y \in 1 .. Len(s) : RangeList(s)[y] = <<s[y].ip_min, s[y].ip_max>>
  BY DEF RangeList
<1> QED
  BY <1>1 DEF Blocks, Covers

PremergeInv == LoadInv /\ MergedInv /\ MasterInv /\ NamedInv

(* Together with the invariant of the load these are kept.                   *)
LEMMA PremergeInvariant == LoaderSpec => []PremergeInv
<1>1. LoaderInit => MasterInv /\ NamedInv
  BY MasterInit
<1>2. LoadInv /\ MergedInv /\ MasterInv /\ NamedInv /\ [LoaderNext]_allVars
        => MasterInv' /\ NamedInv'
  BY MasterStep, NamedStep DEF LoadInv
<1> QED
  BY <1>1, <1>2, LoadInvariant, RangesStay, PTL DEF LoaderSpec, PremergeInv

(* A daemon that is given what "pgld -m" printed blocks nothing that was not *)
(* in the premerged lists; if every range of the output has a label, it      *)
(* blocks all of it, and it starts unless there is nothing to block.         *)
THEOREM PremergedTheorem == LoaderSpec => []PremergedIsBlocked
<1>1. ASSUME PremergeInv, CoverageExact, step = "merge", pc = "ready", OnMaster
      PROVE  /\ \A ip \in Ip : Blocks(entries, ip) => Blocks(premerged, ip)
             /\ (\A x \in 1 .. Len(premerged) : premerged[x].labelled) =>
                  /\ \A ip \in Ip : Blocks(premerged, ip) => Blocks(entries, ip)
                  /\ ret = 0 <=> premerged # <<>>
  <2> DEFINE c == Listing(master)
             R == RangesAs(Stdin, c)
  <2>1. /\ HoldInv /\ MasterInv /\ NamedInv /\ TypeOK /\ master \in Seq(Bytes)
        /\ files \in Seq(Content)
    BY <1>1 DEF PremergeInv, LoadInv, LoaderInv, FilesInv, IInv
  <2>2. ~Stdin /\ Stdin \in BOOLEAN /\ FilesToLoad = 1 /\ blockfiles[1] = {c}
    BY <1>1 DEF OnMaster, Stdin, FilesToLoad
  <2>3. files = <<c>>
    <3>1. Len(files) = 1 /\ files[1] = c
      <4>1. Len(files) = 1
        BY <1>1, <2>1, <2>2 DEF NamedInv
      <4>2. 1 \in 1 .. Len(files)
        BY <4>1
      <4> HIDE DEF c
      <4>3. files[1] \in blockfiles[1]
        BY <2>1, <2>2, <4>2 DEF NamedInv
      <4> QED
        BY <2>2, <4>1, <4>3
    <3> HIDE DEF c, Content
    <3> QED
      BY <2>1, <3>1
  <2>4. /\ c \in Content
        /\ LoadableAs(Stdin, c) <=> Readable
        /\ \A g \in Ranges :
             (\E y \in 1 .. Len(R) : R[y] = g)
             <=> Readable /\ \E x \in 1 .. Len(premerged) :
                   /\ premerged[x].labelled
                   /\ <<premerged[x].ip_min, premerged[x].ip_max>> = g
    <3>1. \A b \in BOOLEAN : LoadableAs(b, c) <=> Readable
      BY <1>1, <2>1, MasterReads
    <3>2. \A b \in BOOLEAN, g \in Ranges :
             (\E y \in 1 .. Len(RangesAs(b, c)) : RangesAs(b, c)[y] = g)
             <=> Readable /\ \E x \in 1 .. Len(premerged) :
                   /\ premerged[x].labelled
                   /\ <<premerged[x].ip_min, premerged[x].ip_max>> = g
      BY <1>1, <2>1, MasterReads
    <3>3. c \in Content
      BY <1>1, <2>1, MasterReads
    <3> HIDE DEF c
    <3> QED
      BY <2>2, <3>1, <3>2, <3>3
  <2>5. R \in Seq(Ranges)
    BY <2>4, RangesAsType
  <2> HIDE DEF c, R
  <2>6. RangeList(loaded) = R
    <3>1. RangeList(loaded) = Whole(Stdin, files)
      BY <1>1, <2>1 DEF HoldInv
    <3>2. <<>> \in Seq(Content) /\ Append(<<>>, c) = <<c>>
      BY <2>4
    <3>3. Whole(Stdin, <<c>>) = <<>> \o R
      <4>1. /\ Whole(Stdin, <<>>) = <<>>
            /\ Whole(Stdin, Append(<<>>, c)) = Whole(Stdin, <<>>) \o RangesAs(Stdin, c)
        BY <2>4, <3>2, WholeFacts
      <4> QED
        BY <3>2, <4>1 DEF R
    <3>4. <<>> \o R = R
      BY <2>5
    <3> QED
      BY <2>3, <3>1, <3>3, <3>4
  <2>7. ret = 0 <=> Readable
    <3>1. ret = 0 <=> AllLoadable(Stdin, files)
      BY <1>1, <2>1, <2>2 DEF HoldInv
    <3>2. Len(<<c>>) = 1 /\ <<c>>[1] = c
      OBVIOUS
    <3>3. AllLoadable(Stdin, <<c>>) <=> LoadableAs(Stdin, c)
      BY <3>2 DEF AllLoadable
    <3> QED
      BY <2>3, <2>4, <3>1, <3>3
  <2>8. /\ premerged \in Seq(Printable) /\ Len(premerged) \in Nat
        /\ \A x \in 1 .. Len(premerged) :
             <<premerged[x].ip_min, premerged[x].ip_max>> \in Ranges
    <3>1. premerged \in Seq(Printable)
      BY <2>1 DEF MasterInv
    <3> HIDE DEF Printable
    <3>2. Len(premerged) \in Nat /\ \A x \in 1 .. Len(premerged) : premerged[x] \in Printable
      BY <3>1
    <3> QED
      BY <3>1, <3>2 DEF Printable
  <2>9. ASSUME NEW ip \in Ip
        PROVE  Blocks(entries, ip) <=>
                 Readable /\ \E x \in 1 .. Len(premerged) :
                               premerged[x].labelled /\ Covers(premerged[x], ip)
    <3>1. Blocks(entries, ip) <=> Blocks(loaded, ip)
      BY <1>1 DEF CoverageExact, InUse
    <3>2. Len(loaded) \in Nat
      BY <2>1 DEF TypeOK
    <3>3. Blocks(loaded, ip) <=> \E y \in 1 .. Len(R) : R[y][1] <= ip /\ ip <= R[y][2]
      BY <2>6, <3>2, RangeListBlocks
    <3>4. \A y \in 1 .. Len(R) : R[y] \in Ranges
      BY <2>5
    <3>5. (\E y \in 1 .. Len(R) : R[y][1] <= ip /\ ip <= R[y][2])
            <=> \E g \in Ranges : /\ g[1] <= ip /\ ip <= g[2]
                                  /\ \E y \in 1 .. Len(R) : R[y] = g
      BY <3>4
    <3>6. (\E g \in Ranges : /\ g[1] <= ip /\ ip <= g[2]
                             /\ \E y \in 1 .. Len(R) : R[y] = g)
            <=> Readable /\ \E x \in 1 .. Len(premerged) :
                              premerged[x].labelled /\ Covers(premerged[x], ip)
      <4> DEFINE At(x) == <<premerged[x].ip_min, premerged[x].ip_max>>
      <4>1. \A x \in 1 .. Len(premerged) :
              /\ At(x) \in Ranges
              /\ Covers(premerged[x], ip) <=> At(x)[1] <= ip /\ ip <= At(x)[2]
        BY <2>8 DEF Covers
      <4>2. \A g \in Ranges :
              (\E y \in 1 .. Len(R) : R[y] = g)
              <=> Readable /\ \E x \in 1 .. Len(premerged) :
                                premerged[x].labelled /\ At(x) = g
        BY <2>4
      <4> HIDE DEF At, Readable
      <4> QED
        BY <4>1, <4>2
    <3> QED
      BY <3>1, <3>3, <3>5, <3>6
  <2>10. ASSUME \A x \in 1 .. Len(premerged) : premerged[x].labelled
         PROVE  Readable <=> premerged # <<>>
    <3>1. premerged # <<>> <=> 1 \in 1 .. Len(premerged)
      BY <2>8
    <3>2. 1 <= TryLines /\ \A x \in 1 .. Len(premerged) : 1 \in 1 .. Len(premerged)
      BY <2>8, LoaderAssumption
    <3> QED
      BY <2>10, <3>1, <3>2 DEF Readable
  <2>11. ASSUME NEW ip \in Ip, Blocks(premerged, ip) PROVE premerged # <<>>
    BY <2>11 DEF Blocks
  <2> QED
    BY <2>7, <2>9, <2>10, <2>11 DEF Blocks
<1> QED
  BY <1>1, PremergeInvariant, LoadedCoverage, PTL DEF PremergedIsBlocked

=============================================================================
