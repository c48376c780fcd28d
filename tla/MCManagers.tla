----------------------------- MODULE MCManagers -----------------------------
(* Instances of the main manager and its managers small enough for TLC. *)
EXTENDS ManagersProps

R(to, eType, nChan, what) == [to |-> to, eType |-> eType, nChan |-> nChan, what |-> what]

\* Two serial ports, opened and closed next to the other managers.
Serial_ ==
  {R(-1, "eSet", -1, "eSerialMan"), R(0, "eSet", -1, "COM1"), R(0, "eSet", -1, "COM2"),
   R(0, "eDelete", 0, "none")}
\* The FTDI devices: listed and opened.
FTDI_ ==
  {R(-1, "eSet", -1, "eFTDIMan"), R(0, "eQuery", -1, "none"),
   R(0, "eSet", 0, "init"), R(0, "eSet", 1, "init")}
\* The one port of a frame grabber, or of an MCDAQ board.
Ports_ ==
  {R(-1, "eSet", -1, "eRTVMan"), R(-1, "eSet", -1, "eMCDAQMan"),
   R(0, "eSet", 0, "init"), R(0, "eSet", 0, "badFormat")}
Delete_ == {R(-1, "eDelete", n, "none") : n \in {-1, 0}}
Refused_ ==
  {R(to, t, n, "none") : to \in {-1, 0}, t \in Commands \ {"eDelete", "eSet"}, n \in {-1, 0}}
  \cup {R(-1, "eSet", -1, "eNoMan"), R(-1, "eDelete", 7, "none"), R(0, "eDelete", 7, "none"),
        R(0, "eSet", 7, "none")}

AllRequests == Serial_ \cup FTDI_ \cup Ports_ \cup Delete_ \cup Refused_
=============================================================================
