------------------------------ MODULE MCSerial ------------------------------
(* Instances of CChannelSerial small enough for TLC. *)
EXTENDS SerialProps

\* Writes with and without a timeout, a short read with a timeout, a longer
\* one without, and one that ends on the stop character.
Asked ==
  {[kind |-> "write", dwSize |-> 1, dwTimeout |-> t, bStop |-> FALSE] :
     t \in BOOLEAN} \cup
  {[kind |-> "read", dwSize |-> 1, dwTimeout |-> TRUE, bStop |-> FALSE],
   [kind |-> "read", dwSize |-> 2, dwTimeout |-> FALSE, bStop |-> FALSE],
   [kind |-> "read", dwSize |-> 1, dwTimeout |-> TRUE, bStop |-> TRUE]}
=============================================================================
