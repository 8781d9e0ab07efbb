-------------------------------- MODULE MCGui --------------------------------
(* Instances of Gui for TLC: the entries and the circumstances. *)
EXTENDS Gui

Worlds ==
  {{"white", "log", "fail"}, {"lists", "undo", "fail", "nosudo"},
   {"options", "restart", "nosudo", "hidden"}, {"options", "undo", "full"},
   {"white", "daemon"}}

=============================================================================
