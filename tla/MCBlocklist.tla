----------------------------- MODULE MCBlocklist -----------------------------
(* Instances of Blocklist for TLC. *)
EXTENDS Blocklist

(* The ranges a list without mistakes contains, and inverted ones: the       *)
(* parsers check nothing.                                                    *)
SomeRanges ==
  {r \in (0 .. MaxIp) \X (0 .. MaxIp) : r[1] <= r[2]} \cup {<<1, 0>>, <<3, 1>>, <<3, 2>>}

=============================================================================
