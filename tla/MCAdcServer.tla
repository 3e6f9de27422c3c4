---------------------------- MODULE MCAdcServer ----------------------------
(* Instances of AdcServer for TLC: the server samples channel 0 of 0 and 1. *)
EXTENDS AdcServer, TLC

CONSTANTS c1, c2, c3

MCConn == {c1, c2}
MCSampled == {0}

Data(ch) == [type |-> "GETDATA", channel |-> ch, valid |-> TRUE]
Time == [type |-> "GETTIME", channel |-> 0, valid |-> FALSE]
Unknown == [type |-> "UNTYPE", channel |-> 0, valid |-> TRUE]

MCRequest == {Data(0), Data(1), Unknown}
MCValidRequest == {Data(0), Time}
MCDataRequest == {Data(0)}

ConnSymmetry == Permutations(MCConn)
=============================================================================
