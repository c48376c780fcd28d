------------------------------- MODULE MCMCDAQ -------------------------------
(* Instances of CChannelMCDAQ small enough for TLC: two lines on the port. *)
EXTENDS MCDAQProps

NoBits == {}

SetLine1   == [usValue |-> {1}, usBitSelect |-> {1}]
ClearLine2 == [usValue |-> {}, usBitSelect |-> {2}]

\* Readings go on until they are cancelled, and the board never fails.
Continuous ==
  [bContinuous |-> TRUE, WriteRequests |-> {SetLine1, ClearLine2},
   MaxPackets |-> 1, MaxReads |-> 2, MaxRefusals |-> 1, MaxFaults |-> 0]
\* One reading for each trigger, and clients that trigger before it is given.
Single ==
  [bContinuous |-> FALSE, WriteRequests |-> {SetLine1},
   MaxPackets |-> 1, MaxReads |-> 2, MaxRefusals |-> 0, MaxFaults |-> 0]
\* Clients that write while a packet is queued, to a board that may fail.
Busy == [Single EXCEPT !.MaxPackets = 2, !.MaxReads = 1, !.MaxFaults = 1]

All     == {Continuous, Single, Busy}
Failing == {[Continuous EXCEPT !.MaxReads = 1, !.MaxFaults = 1]}
=============================================================================
