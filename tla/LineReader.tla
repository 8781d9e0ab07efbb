------------------------------ MODULE LineReader ------------------------------
(***************************************************************************)
(* What fgets promises of an open file: each call hands out the shortest   *)
(* beginning of what is left that ends in a line feed, fills the buffer,   *)
(* or is all there is; at the end of the file it hands out nothing.        *)
(***************************************************************************)
EXTENDS Naturals, Sequences

CONSTANTS
  Bytes,   (* what a text is made of                                        *)
  LF,      (* the byte that ends a line                                     *)
  MaxLine  (* the size of the caller's buffer, with room for a final NUL    *)

VARIABLES
  open,  (* a file is open                                                  *)
  left,  (* what has not been handed out of it                              *)
  line   (* what the last call handed out; <<>> stands for NULL             *)

readerVars == <<open, left, line>>

Init == open = FALSE /\ left = <<>> /\ line = <<>>

Open ==
  /\ ~open
  /\ open' = TRUE
  /\ left' \in Seq(Bytes)
  /\ UNCHANGED line

Complete(n) == left[n] = LF \/ n = MaxLine - 1 \/ n = Len(left)

ReadLine ==
  /\ open
  /\ \E n \in 1 .. Len(left) :
       /\ Complete(n)
       /\ \A m \in 1 .. n - 1 : ~Complete(m)
       /\ line' = SubSeq(left, 1, n)
       /\ left' = SubSeq(left, n + 1, Len(left))
  /\ UNCHANGED open

ReadEnd ==
  /\ open
  /\ left = <<>>
  /\ line' = <<>>
  /\ UNCHANGED <<open, left>>

Close ==
  /\ open
  /\ open' = FALSE
  /\ left' = <<>>
  /\ UNCHANGED line

Next == Open \/ ReadLine \/ ReadEnd \/ Close

Spec == Init /\ [][Next]_readerVars

=============================================================================
