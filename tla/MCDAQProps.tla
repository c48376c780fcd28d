----------------------------- MODULE MCDAQProps -----------------------------
(***************************************************************************)
(* What must hold of a CChannelMCDAQ.                                      *)
(***************************************************************************)
EXTENDS MCDAQ

Killed == pc = "killed"

\* The thread sleeps until an event is set, and three parties set and reset
\* them (ProcessData, the thread, a cancel that empties the list) in an order
\* that is up to the scheduler: none of them may leave a request queued with
\* nobody going to look at it.
RequestsNotForgotten ==
  ~Killed =>
    /\ m_allReads # NoReads => m_hReadEvent \/ pc \in {"read", "holding"}
    /\ m_asWPackets # << >> => m_hWriteEvent \/ pc = "take"

\* "After a cancel, no new data will be added to that pipe, the last message
\* .. is the cancel request response" (until the session triggers again).
NoDataAfterCancel ==
  [][bContinuous =>
       \A id \in Ids : reading[id] = "cancelled" => reading'[id] # "data"]_vars

\* Until the thread is told to stop, a continuous reader stays one: it has
\* what it asked for until it cancels or a message for it was refused.
SubscriptionKept ==
  bContinuous /\ ~m_hStopEvent =>
    \A id \in Ids :
      reading[id] \in {"asked", "data"} =>
        id \in Readers \/ reply = [llId |-> id, eType |-> "cancelled"]

\* A single trigger is answered with a reading at most once.
OneReadingPerTrigger == \A id \in Ids : owed[id] >= 0

\* "Only bit 3 will be changed.  The other bits will remain as is": a write
\* changes lines it selects and no others.  It is worked out from
\* m_usLastWrite, never from the lines.
OnlySelectedBitsChange ==
  [][(port \ port') \cup (port' \ port) \subseteq psPacket.usBitSelect]_vars

\* Every write gets an answer, also while readings go on for ever: unless its
\* session ends or the channel is deleted.
WritesAnswered ==
  \A id \in Ids : id \in writing ~> id \notin writing \/ m_hStopEvent

\* Readers that left without a cancel do not stay in the list, unless clients
\* never stop writing, which is served first.
GoneReadersForgotten ==
  <>[](m_asWPackets = << >>) =>
    \A id \in Ids :
      id \notin online ~> id \notin Readers \/ m_hStopEvent
=============================================================================
