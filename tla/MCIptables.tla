------------------------------ MODULE MCIptables ------------------------------
(* Instances of Iptables for TLC: the chains and the circumstances. *)
EXTENDS Iptables

TwoChains == <<"INPUT", "FORWARD">>

Worlds ==
  {{"stuck", "nice"}, {"nice"}, {"repair", "end"}, {"kill", "reboot"}, {"hook"},
   {"packets", "end"}, {"packets", "fail"}, {"packets", "kill"}}

=============================================================================
