-------------------------------- MODULE Stream --------------------------------
(***************************************************************************)
(* The text of a list file, plain or compressed, line by line              *)
(* (src/pgld/src/stream.c).                                                *)
(*                                                                         *)
(* A plain file is read with fgets.  Of a compressed one, stream_getline   *)
(* keeps up to Chunk decompressed bytes in stream->out, fills them up      *)
(* before each line and cuts the line out of them.  They are the first     *)
(* avail bytes of data, what the file still has to give.  Damage ends the  *)
(* decompression like the end of the file: data is what comes before it.   *)
(***************************************************************************)
EXTENDS Naturals, Sequences

CONSTANTS
  Bytes,    (* what a text is made of                                       *)
  LF,       (* the byte that ends a line                                    *)
  MaxLine,  (* MAX_LINE_LENGTH, the size of the caller's buffer: 350        *)
  Chunk     (* CHUNK, the size of stream->out: 1024                         *)

ASSUME StreamAssumption ==
  /\ MaxLine \in Nat /\ MaxLine > 1
  /\ Chunk \in Nat /\ Chunk >= MaxLine

VARIABLES
  opened,      (* the stream is open                                        *)
  compressed,  (* its name ends in .gz                                      *)
  eos,         (* the decompression has come to its end                     *)
  data,        (* what has not been handed out as a line                    *)
  avail,       (* CHUNK - avail_out: so much of it is in stream->out        *)
  buf          (* the caller's line; <<>> stands for NULL                   *)

streamVars == <<opened, compressed, eos, data, avail, buf>>

(* The lines stream_getline can hand out, and NULL. *)
Line == UNION {[1 .. n -> Bytes] : n \in 0 .. MaxLine - 1}

StreamInit ==
  /\ opened = FALSE /\ compressed = FALSE /\ eos = FALSE
  /\ data = <<>> /\ avail = 0 /\ buf = <<>>

stream_open(gz, text) ==
  /\ opened' = TRUE
  /\ compressed' = gz
  /\ eos' = FALSE
  /\ data' = text
  /\ avail' = 0
  /\ UNCHANGED buf

stream_close ==
  /\ opened' = FALSE
  /\ data' = <<>>
  /\ avail' = 0
  /\ UNCHANGED <<compressed, eos, buf>>

-----------------------------------------------------------------------------
Least(m, n) == IF m <= n THEN m ELSE n

(* The loop around inflate fills stream->out, or finds the end of the data;  *)
(* an end that falls on the last free byte may be found now or next time.    *)
Fills(k, end) ==
  /\ k = IF eos THEN avail ELSE Least(Chunk, Len(data))
  /\ end \in BOOLEAN
  /\ eos \/ k < Chunk => end
  /\ end => k = Len(data)

NoLF(n) == \A m \in 1 .. n : data[m] # LF

(* Broken variant: the line fills the buffer to its last byte. *)
CopiesFull(n, k, end) ==
  /\ n <= MaxLine
  /\ NoLF(n - 1)
  /\ \/ data[n] = LF
     \/ n = MaxLine /\ k > n
     \/ n = k /\ end

(* Of k bytes in stream->out, n are copied: up to the first LF, or as much   *)
(* as the caller's buffer holds, or, at the end, all of a line without LF.   *)
Copies(n, k, end) ==
  /\ n < MaxLine
  /\ NoLF(n - 1)
  /\ \/ data[n] = LF
     \/ n = MaxLine - 1 /\ k > n
     \/ n = k /\ end

(* Broken variant: a last line without LF is lost. *)
NoCopyLast(k, end) == NoLF(k) /\ k < MaxLine

NoCopy(k, end) == NoLF(k) /\ k < MaxLine /\ (k = 0 \/ ~end)

CutLine(n) ==
  /\ buf' = SubSeq(data, 1, n)
  /\ data' = SubSeq(data, n + 1, Len(data))

InflateLine ==
  \E k \in 0 .. Chunk, end \in BOOLEAN :
    /\ Fills(k, end)
    /\ eos' = end
    /\ \/ \E n \in 1 .. k : Copies(n, k, end) /\ CutLine(n) /\ avail' = k - n
       \/ NoCopy(k, end) /\ buf' = <<>> /\ data' = data /\ avail' = k

(* fgets, as LineReader has it. *)
PlainLine ==
  /\ \/ \E n \in 1 .. Len(data) : Copies(n, Len(data), TRUE) /\ CutLine(n)
     \/ data = <<>> /\ buf' = <<>> /\ data' = data
  /\ UNCHANGED <<eos, avail>>

stream_getline ==
  /\ \/ compressed /\ InflateLine
     \/ ~compressed /\ PlainLine
  /\ UNCHANGED <<opened, compressed>>

-----------------------------------------------------------------------------
(* The promise of the stream, whether its file is compressed or not. *)
Reader == INSTANCE LineReader WITH open <- opened, left <- data, line <- buf

=============================================================================
