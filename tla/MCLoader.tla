------------------------------- MODULE MCLoader -------------------------------
(* Instances of Loader for TLC. *)
EXTENDS Loader

Three == {<<0, 1>>, <<3, 3>>, <<0, 0>>}

(* A line is "a", "b" or "c" for one of the ranges with a label, "r" for the *)
(* third one without, or "x" for rubbish.                                    *)
Alphabet == {"a", "b", "c", "r", "x", "n"}

RangeOf ==
  [l \in Line |->
     CASE l \in {<<"a">>, <<"a", "n">>} -> <<0, 1>>
       [] l \in {<<"c">>, <<"c", "n">>, <<"r">>, <<"r", "n">>} -> <<0, 0>>
       [] l \in {<<"b">>, <<"b", "n">>} -> <<3, 3>>
       [] OTHER -> NoRange]

HasText == [l \in Line |-> l # <<>> /\ l[1] \in {"a", "b", "c"}]

Printed ==
  [r \in Ip \X Ip, b \in BOOLEAN |->
     <<CASE ~b -> "x" [] r = <<0, 1>> -> "a" [] r = <<3, 3>> -> "b" [] OTHER -> "c",
       "n">>]

Gz(text) == [Listing(text) EXCEPT !.gz = TRUE]

P2B(format, items, tear) ==
  [Listing(<<"x", "n">>) EXCEPT !.format = format, !.items = items, !.tear = tear]

(* A file of each kind load_list tells apart.  With TryLines = 2, the one    *)
(* range of the second text is in a line that is not tried any more; with    *)
(* MaxLine = 4, the rest of a line of four bytes is a line of its own.  The  *)
(* compressed ones take one, two and three fillings of Chunk = 4 bytes.      *)
Kinds ==
  LET a == <<0, 1>>
      b == <<3, 3>>
  IN  {[Listing(<<>>) EXCEPT !.readable = FALSE],
       Listing(<<"x", "n", "a">>),
       Listing(<<"n", "n", "a">>),
       Listing(<<"x", "x", "x", "a", "n", "b">>),
       Gz(<<>>),
       Gz(<<"n", "n", "a">>),
       Gz(<<"r", "n", "b", "n">>),
       Gz(<<"b", "n", "x", "x", "a", "n", "n", "n", "a">>),
       Gz(<<"x", "x", "x", "a", "n", "b">>),
       P2B("p2b", <<b, a>>, "no"),
       P2B("p2b3", <<b>>, "no"),
       P2B("p2b3", <<b>>, "items"),
       P2B("p2b3", <<>>, "labels"),
       P2B("p2b3", <<b>>, "count")}

=============================================================================
