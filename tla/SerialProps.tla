----------------------------- MODULE SerialProps -----------------------------
(***************************************************************************)
(* What must hold of a CChannelSerial, and what "cpl defs.h" says of it.   *)
(***************************************************************************)
EXTENDS Serial

\* The answers to packets of kind k, by their places in replies.
AnswersOf(k) == {i \in DOMAIN replies : requests[replies[i].packet].kind = k}

\* The packet of kind k that is off its queue and not answered.
InHand(k) == {p \in {sPacket} \ {NoPacket} : requests[p].kind = k}

\* Answered, in hand and then queued: all of kind k that were pushed, in order.
InTurn(k) ==
  /\ {replies[i].packet : i \in AnswersOf(k)} \cup InHand(k) \cup Range(packets[k])
       = {p \in DOMAIN requests : requests[p].kind = k}
  /\ \A i, j \in AnswersOf(k) : i < j => replies[i].packet < replies[j].packet
  /\ \A i \in AnswersOf(k) : \A p \in InHand(k) : replies[i].packet < p
  /\ \A i \in AnswersOf(k), n \in DOMAIN packets[k] : replies[i].packet < packets[k][n]
  /\ \A p \in InHand(k), n \in DOMAIN packets[k] : p < packets[k][n]
  /\ \A m, n \in DOMAIN packets[k] : m < n => packets[k][m] < packets[k][n]

Answering == {"answerRead", "answerWrite", "tellRead", "tellWrite"}

\* Until the channel is gone, each packet is answered once, none is lost and
\* none overtakes another, however timeouts, cancellation, completion and the
\* end of the thread meet.  One packet may go unanswered: the one in the hand
\* of a thread that is terminated between taking and answering it.
OneAnswerEach ==
  /\ deletePc # "deleted" => \A k \in Kinds : InTurn(k)
  /\ sPacket # NoPacket => pc \in Answering \cup {"terminated"}

\* "0 means infinite wait": only a packet with a timeout ends by it.
AbortedOnlyIfTimed ==
  \A i \in 1 .. Len(replies) :
    replies[i].nError = "aborted" => requests[replies[i].packet].dwTimeout

\* While ThreadProc serves reads, the bytes given to clients, those of the
\* read under way and those still in the port are the bytes received, in
\* order: none is lost or given twice by a read that ends in the middle.
NoByteLost ==
  pc \notin {"closingRead", "closingWrite", "tellRead", "tellWrite",
             "closed", "terminated"} =>
    received = delivered \o m_acReadBuffer \o input

\* When ThreadProc waits with a packet queued, something will wake it for that
\* packet: the queue's event, which is set only for an empty queue and after
\* an answer, the event of its operation, or the port.
QueueNotForgotten ==
  pc = "wait" =>
    \A k \in Kinds : packets[k] # <<>> =>
      \/ queueEvent[k] \/ overlapped[k].event
      \/ IF k = "write" THEN writes # <<>> ELSE commWait

\* A packet with a timeout is answered once it is first in its queue, whatever
\* the device does, unless the channel is deleted, or clients never stop asking
\* for more: only a wait in which no event comes up can time out.
TimedIsAnswered ==
  <>[][UNCHANGED requests]_requests =>
  \A p \in 1 .. MaxRequests : \A k \in Kinds :
    /\ packets[k] # <<>> /\ Head(packets[k]) = p /\ requests[p].dwTimeout
    ~> \/ \E i \in 1 .. Len(replies) : replies[i].packet = p
       \/ deletePc # "none"

\* "dwSize: size of data to read/write": a read answered without an error has
\* its bytes or its stop character, a write its bytes written.
DoneAsAsked ==
  \A i \in 1 .. Len(replies) :
    LET r == replies[i]
        request == requests[r.packet] IN
    r.nError = "none" =>
      IF request.kind = "write" THEN r.packet \in sent
      ELSE IF request.bStop THEN \E j \in 1 .. Len(r.data) : r.data[j] = cStop
      ELSE Len(r.data) = request.dwSize
=============================================================================
