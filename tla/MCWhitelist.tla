------------------------------ MODULE MCWhitelist ------------------------------
(* Instances of Whitelist for TLC. *)
EXTENDS Whitelist

Line(number, protocol, names) ==
  [number |-> number, protocol |-> protocol, names |-> names]

(* A name is listed for two numbers, and another one in two spellings. *)
X11 == Spelled(Called("x11"), 1)

Lines ==
  <<Line(80, "TCP", <<Called("http"), Called("www")>>),
    Line(53, "TCP", <<Called("domain")>>),
    Line(53, "UDP", <<Called("domain")>>),
    Line(514, "UDP", <<Called("syslog")>>),
    Line(517, "TCP", <<Called("talk")>>),
    Line(518, "TCP", <<Called("ntalk"), Called("talk")>>),
    Line(6000, "TCP", <<X11, Called("x11")>>),
    Line(0, "TCP", <<Called("nothing")>>)>>

(* 080, and a number of too many digits. *)
Padded == Spelled(Port(80), 1)
Huge == Port(NotInt)

(* Names of one port and of another protocol; ranges in, around and across   *)
(* each other, one of them without an end; addresses, one of them with a     *)
(* mask that is not taken; words that are the same but for how they are      *)
(* written.                                                                  *)
Scenes ==
  {[typed |-> {Port(80), Called("http"), Called("www"), Called("syslog")},
    protocols |-> {"TCP"}, connections |-> {"Incoming"}, hand |-> FALSE],
   [typed |-> {Port(53), Called("domain")},
    protocols |-> {"TCP", "UDP"}, connections |-> {"Incoming"}, hand |-> FALSE],
   [typed |-> {Port(80), Span(70, 90), Span(80, NotInt), Span(75, 100)},
    protocols |-> {"TCP"}, connections |-> {"Outgoing"}, hand |-> FALSE],
   [typed |-> {Port(80), Called("http"), Span(79, NotInt), Span(75, 77)},
    protocols |-> {"TCP"}, connections |-> {"Outgoing"}, hand |-> FALSE],
   [typed |-> {Port(80), Called("http"), Span(70, 90)},
    protocols |-> {"TCP"}, connections |-> {"Forward"}, hand |-> TRUE],
   [typed |-> {Address(<<127, 0, 0, 0>>, <<8>>), Address(<<127, 0, 0, 1>>, <<32>>),
               Called("nothing")},
    protocols |-> {"TCP"}, connections |-> {"Incoming", "Outgoing"}, hand |-> FALSE],
   [typed |-> {Port(80), Padded, Called("http"), Span(80, 80)},
    protocols |-> {"TCP"}, connections |-> {"Incoming"}, hand |-> FALSE],
   [typed |-> {Port(80), Padded, Spelled(Called("http"), 1), Huge},
    protocols |-> {"TCP"}, connections |-> {"Outgoing"}, hand |-> FALSE],
   [typed |-> {Port(6000), Called("x11"), X11},
    protocols |-> {"TCP"}, connections |-> {"Incoming"}, hand |-> FALSE],
   [typed |-> {Port(517), Port(518), Called("talk")},
    protocols |-> {"TCP"}, connections |-> {"Incoming"}, hand |-> FALSE]}

=============================================================================
