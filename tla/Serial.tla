------------------------------- MODULE Serial -------------------------------
(***************************************************************************)
(* CChannelSerial ("serial device.cpp"): the comm's pipe thread queues     *)
(* requests in ProcessData, ThreadProc serves the first write and the      *)
(* first read at the same time with overlapped operations on the port, the *)
(* manager's thread deletes the channel.                                   *)
(*                                                                         *)
(* A packet is its number in requests, which also stands for the session   *)
(* that asked (llId): each answer goes to the packet it is made for.  The  *)
(* comm always takes an answer; memory is never short.  WaitForMultiple-   *)
(* Objects and the ResetEvent that opens every case are one action: what   *)
(* happens between them could as well happen before or after both.         *)
(*                                                                         *)
(* The port is external.  As Windows documents it: an operation clears its *)
(* event when it starts and sets it when it ends well, at once or later; a *)
(* wait for a character ends at once if one came since the last wait was   *)
(* served, and fails while another wait is pending.  EV_RXCHAR is the only *)
(* event asked for, so a wait that ends well always has it in dwMask.      *)
(***************************************************************************)
EXTENDS Naturals, Sequences, SequencesExt

CONSTANTS
  Requests,     \* what a client may ask for, see RequestType
  Bytes,        \* what the port may receive
  cStop,        \* the byte on which a read with bStop ends
  HasCancelIoEx,\* lpf_CancelIoEx was found (Vista or later)
  MaxRequests,  \* bound: requests made
  MaxBytes      \* bound: bytes received

Kinds == {"write", "read"}

RequestType ==
  [kind : Kinds, dwSize : Nat \ {0}, dwTimeout : BOOLEAN, bStop : BOOLEAN]

ASSUME SerialAssumption ==
  /\ Requests \subseteq RequestType
  /\ HasCancelIoEx \in BOOLEAN /\ MaxRequests \in Nat /\ MaxBytes \in Nat

VARIABLES
  requests,       \* every packet pushed, in the order of ProcessData
  packets,        \* m_asWPackets and m_asRPackets
  sPacket,        \* the packet taken off its queue and not yet answered
  queueEvent,     \* m_hWriteEvent and m_hReadEvent
  m_hStopEvent,
  overlapped,     \* hEvent and status of m_sWOverlapped and m_sROverlapped
  pc,             \* where ThreadProc is
  duration,       \* dWDur and dRDur are not 0
  bRPending, nError,
  m_acReadBuffer, \* its first nPos bytes
  deletePc,       \* where the destructor is
  replies,        \* what SendData was given
  writes,         \* port: the packets it is writing
  sent,           \* port: the packets it has written in full
  input,          \* port: bytes received and not yet read
  commWait,       \* port: a WaitCommEvent is pending
  charEvent,      \* port: a byte came since the last wait was served
  received,       \* every byte the port received
  delivered       \* every byte given to a client

queueVars == <<requests, packets, queueEvent>>
threadVars == <<pc, sPacket, duration, bRPending, nError, m_acReadBuffer>>
portVars == <<writes, sent, input, commWait, charEvent, received>>
deleteVars == <<m_hStopEvent, deletePc>>
answerVars == <<replies, delivered>>
vars == <<queueVars, threadVars, portVars, deleteVars, answerVars, overlapped>>

Both(x) == [k \in Kinds |-> x]

NoPacket == 0     \* packets are numbered from 1

Init ==
  /\ requests = <<>> /\ packets = Both(<<>>) /\ queueEvent = Both(FALSE)
  /\ pc = "wait" /\ sPacket = NoPacket /\ duration = Both(FALSE) /\ bRPending = FALSE
  /\ nError = "none" /\ m_acReadBuffer = <<>>
  /\ overlapped = Both([event |-> FALSE, status |-> "none"])
  /\ m_hStopEvent = FALSE /\ deletePc = "none"
  /\ replies = <<>> /\ delivered = <<>>
  /\ writes = <<>> /\ sent = {} /\ input = <<>> /\ received = <<>>
  /\ commWait = FALSE /\ charEvent = FALSE

-----------------------------------------------------------------------------
(* The pipe thread. *)

\* A good read or write is queued; a query or a bad one is answered at once
\* and changes nothing else.
ProcessData(request) ==
  LET k == request.kind IN
  /\ deletePc \in {"none", "joining", "closing"} /\ Len(requests) < MaxRequests
  /\ requests' = Append(requests, request)
  /\ packets' = [packets EXCEPT ![k] = Append(@, Len(requests) + 1)]
  /\ queueEvent' = [queueEvent EXCEPT ![k] = @ \/ packets[k] = <<>>]
  /\ UNCHANGED <<threadVars, portVars, deleteVars, answerVars, overlapped>>

-----------------------------------------------------------------------------
(* ThreadProc waits. *)

ahEvents == <<m_hStopEvent, queueEvent["write"], queueEvent["read"],
              overlapped["write"].event, overlapped["read"].event>>

\* WaitForMultipleObjects returns the first event that is set.
Woken(i) == pc = "wait" /\ ahEvents[i] /\ \A j \in 1 .. i - 1 : ~ahEvents[j]

WakeStop ==
  /\ Woken(1) /\ pc' = "closingRead"
  /\ UNCHANGED <<queueVars, sPacket, duration, bRPending, nError, m_acReadBuffer,
                 portVars, deleteVars, answerVars, overlapped>>

WakeQueue(k) ==
  /\ Woken(IF k = "write" THEN 2 ELSE 3)
  /\ pc' = k
  /\ queueEvent' = [queueEvent EXCEPT ![k] = FALSE]
  /\ UNCHANGED <<requests, packets, sPacket, duration, bRPending, nError,
                 m_acReadBuffer, portVars, deleteVars, answerVars, overlapped>>

WakeOverlapped(k) ==
  /\ Woken(IF k = "write" THEN 4 ELSE 5)
  /\ pc' = IF k = "write" THEN "written" ELSE "comm"
  /\ overlapped' = [overlapped EXCEPT ![k].event = FALSE]
  /\ UNCHANGED <<queueVars, sPacket, duration, bRPending, nError, m_acReadBuffer,
                 portVars, deleteVars, answerVars>>

\* The operations that the timeouts of the kinds in expired cancel.
\* Mutant: CancelIo in every version.
AllOfThem(expired) == Kinds
Cancelled(expired) == IF HasCancelIoEx THEN expired ELSE Kinds

\* An operation under way is aborted, which completes it.
Timeout(expired) ==
  LET aborted == {k \in Cancelled(expired) :
                    IF k = "write" THEN writes # <<>> ELSE commWait} IN
  /\ pc = "wait" /\ \A i \in 1 .. 5 : ~ahEvents[i]
  /\ expired # {} /\ \A k \in expired : duration[k]
  /\ overlapped' = [k \in Kinds |->
       IF k \in aborted THEN [event |-> TRUE, status |-> "aborted"]
                        ELSE overlapped[k]]
  /\ writes' = IF "write" \in aborted THEN <<>> ELSE writes
  /\ commWait' = (commWait /\ "read" \notin aborted)
  /\ UNCHANGED <<queueVars, threadVars, deleteVars, answerVars,
                 sent, input, charEvent, received>>

\* The end of the loop's body, with nothing to answer.
WaitAgain == pc' = "wait" /\ nError' = "none"

\* The packet is to be answered, with this nError.
Clear(k, error) ==
  /\ pc' = IF k = "write" THEN "clearWrite" ELSE "clearRead"
  /\ nError' = error

\* An operation of kind k that has begun and not ended well.
Begun == [event |-> FALSE, status |-> "pending"]
Ended(status) == [event |-> TRUE, status |-> status]
SetOverlapped(k, o) == overlapped' = [overlapped EXCEPT ![k] = o]

-----------------------------------------------------------------------------
(* Writes. *)

WriteFails ==
  /\ SetOverlapped("write", Begun) /\ Clear("write", "failed")
  /\ UNCHANGED <<writes, sent, duration>>

\* It completes at once, in full or not.
WriteCompletes(packet, full) ==
  /\ writes = <<>>
  /\ SetOverlapped("write", Ended(IF full THEN "done" ELSE "short"))
  /\ Clear("write", IF full THEN "none" ELSE "failed")
  /\ sent' = IF full THEN sent \cup {packet} ELSE sent
  /\ UNCHANGED <<writes, duration>>

WritePends(packet) ==
  /\ SetOverlapped("write", Begun) /\ WaitAgain
  /\ writes' = Append(writes, packet)
  /\ duration' = [duration EXCEPT !["write"] = requests[packet].dwTimeout]
  /\ UNCHANGED sent

\* case WAIT_OBJECT_0+1: the first packet is written; without one there is
\* nothing to write, and the answer below finds nothing to answer.
Write ==
  /\ pc = "write"
  /\ \/ /\ packets["write"] = <<>> /\ Clear("write", "none")
        /\ UNCHANGED <<overlapped, writes, sent, duration>>
     \/ /\ packets["write"] # <<>>
        /\ LET packet == Head(packets["write"]) IN
             \/ WriteFails
             \/ \E full \in BOOLEAN : WriteCompletes(packet, full)
             \/ WritePends(packet)
  /\ UNCHANGED <<queueVars, sPacket, bRPending, m_acReadBuffer, deleteVars,
                 answerVars, input, commWait, charEvent, received>>

\* What GetOverlappedResult and the count of bytes tell.
ResultError(status) ==
  CASE status = "done" -> "none"
    [] status = "aborted" -> "aborted"
    [] OTHER -> "failed"

\* case WAIT_OBJECT_0+3
Written ==
  /\ pc = "written"
  /\ Clear("write", IF packets["write"] = <<>> THEN "none"
                    ELSE ResultError(overlapped["write"].status))
  /\ UNCHANGED <<queueVars, sPacket, duration, bRPending, m_acReadBuffer, portVars,
                 deleteVars, answerVars, overlapped>>

-----------------------------------------------------------------------------
(* Reads: WaitCommEvent tells of a byte, then ReadFile takes what is there. *)

CommEventFails == SetOverlapped("read", Begun) /\ UNCHANGED <<commWait, charEvent>>

CommEventAtOnce ==
  /\ ~commWait /\ charEvent /\ charEvent' = FALSE
  /\ SetOverlapped("read", Ended("done")) /\ UNCHANGED commWait

CommEventPends ==
  /\ ~commWait /\ ~charEvent /\ commWait' = TRUE
  /\ SetOverlapped("read", Begun) /\ UNCHANGED charEvent

\* Mutant: the read's timeout is not noted.
NoTimer(packet) == UNCHANGED duration
StartTimer(packet) ==
  duration' = [duration EXCEPT !["read"] = requests[packet].dwTimeout]

\* case WAIT_OBJECT_0+2
Read ==
  /\ pc = "read"
  /\ \/ /\ packets["read"] = <<>> /\ Clear("read", "none")
        /\ UNCHANGED <<overlapped, commWait, charEvent, bRPending, duration>>
     \/ /\ packets["read"] # <<>>
        /\ CommEventFails /\ Clear("read", "failed")
        /\ UNCHANGED <<bRPending, duration>>
     \/ /\ packets["read"] # <<>> /\ WaitAgain
        /\ StartTimer(Head(packets["read"]))
        /\ \/ CommEventAtOnce /\ UNCHANGED bRPending
           \/ CommEventPends /\ bRPending' = TRUE
  /\ UNCHANGED <<queueVars, sPacket, m_acReadBuffer, deleteVars, answerVars,
                 writes, sent, input, received>>

\* How many bytes ReadFile takes for a request, and whether they complete it.
Available(request) ==
  LET missing == request.dwSize - Len(m_acReadBuffer) IN
  IF Len(input) < missing THEN Len(input) ELSE missing

Completed(request, read) ==
  IF request.bStop THEN \E i \in 1 .. Len(read) : read[i] = cStop
  ELSE Len(m_acReadBuffer) + Len(read) = request.dwSize

\* lineError is what ClearCommError tells.  Mutant: a read that goes on starts
\* at the front of the buffer again.
ReadFromStart(request, lineError) ==
  LET n == Available(request) IN
  /\ m_acReadBuffer' = SubSeq(input, 1, n)
  /\ input' = SubSeq(input, n + 1, Len(input))
  /\ SetOverlapped("read", Ended("done"))
  /\ \/ Completed(request, SubSeq(input, 1, n)) /\ Clear("read", "none")
     \/ ~Completed(request, SubSeq(input, 1, n))
        /\ pc' = "again" /\ UNCHANGED nError
ReadFile(request, lineError) ==
  LET n == Available(request)
      read == SubSeq(input, 1, n) IN
  /\ m_acReadBuffer' = m_acReadBuffer \o read
  /\ input' = SubSeq(input, n + 1, Len(input))
  /\ SetOverlapped("read", Ended("done"))
  /\ \/ lineError /\ Clear("read", "failed")
     \/ ~lineError /\ Completed(request, read) /\ Clear("read", "none")
     \/ ~lineError /\ ~Completed(request, read)
        /\ pc' = "again" /\ UNCHANGED nError

\* case WAIT_OBJECT_0+4, down to its ReadFile.
Comm ==
  /\ pc = "comm"
  /\ \/ /\ packets["read"] = <<>> /\ Clear("read", "none")
        /\ UNCHANGED <<overlapped, m_acReadBuffer, input>>
     \/ /\ packets["read"] # <<>>
        /\ bRPending /\ overlapped["read"].status # "done"
        /\ Clear("read", ResultError(overlapped["read"].status))
        /\ UNCHANGED <<overlapped, m_acReadBuffer, input>>
     \/ /\ packets["read"] # <<>>
        /\ bRPending => overlapped["read"].status = "done"
        /\ \/ /\ Clear("read", "failed")    \* ClearCommError or ReadFile fails
              /\ \/ UNCHANGED overlapped
                 \/ SetOverlapped("read", Begun)
              /\ UNCHANGED <<m_acReadBuffer, input>>
           \/ \E lineError \in BOOLEAN :
                ReadFile(requests[Head(packets["read"])], lineError)
  /\ UNCHANGED <<queueVars, sPacket, duration, bRPending, deleteVars, answerVars,
                 writes, sent, commWait, charEvent, received>>

\* The read is not complete: wait for the next byte.
Again ==
  /\ pc = "again"
  /\ bRPending' = FALSE
  /\ \/ CommEventFails /\ Clear("read", "failed")
     \/ CommEventAtOnce /\ WaitAgain
     \/ CommEventPends /\ pc' = "check" /\ UNCHANGED nError
  /\ UNCHANGED <<queueVars, sPacket, duration, m_acReadBuffer, deleteVars,
                 answerVars, writes, sent, input, received>>

\* "if there's data now in read buffer, do another read so not to miss data"
Check ==
  /\ pc = "check"
  /\ \/ Clear("read", "failed") /\ UNCHANGED <<overlapped, bRPending>>
     \/ /\ WaitAgain
        /\ overlapped' = [overlapped EXCEPT !["read"].event = @ \/ input # <<>>]
        /\ bRPending' = (input = <<>>)
  /\ UNCHANGED <<queueVars, sPacket, duration, m_acReadBuffer, portVars, deleteVars,
                 answerVars>>

-----------------------------------------------------------------------------
(* Answers. *)

Reply(packet, error, data) ==
  replies' = Append(replies, [packet |-> packet, nError |-> error, data |-> data])

\* The end of the two parts that answer.
ReadCleared ==
  /\ m_acReadBuffer' = <<>> /\ bRPending' = FALSE
  /\ duration' = [duration EXCEPT !["read"] = FALSE]
  /\ WaitAgain
WriteCleared ==
  /\ duration' = [duration EXCEPT !["write"] = FALSE]
  /\ WaitAgain

\* Front(true), and the event is set again while the queue is not empty.
\* Mutants: it is not; a packet that failed stays queued.
Taken(k) == IF packets[k] = <<>> THEN NoPacket ELSE Head(packets[k])
NoWake(k) ==
  /\ packets' = [packets EXCEPT ![k] = IF @ = <<>> THEN @ ELSE Tail(@)]
  /\ sPacket' = Taken(k) /\ UNCHANGED <<requests, queueEvent>>
KeepFailed(k) ==
  /\ packets' = [packets EXCEPT ![k] = IF nError = "none" /\ @ # <<>>
                                       THEN Tail(@) ELSE @]
  /\ queueEvent' = [queueEvent EXCEPT ![k] = @ \/ packets'[k] # <<>>]
  /\ sPacket' = Taken(k) /\ UNCHANGED requests
Pop(k) ==
  /\ packets' = [packets EXCEPT ![k] = IF @ = <<>> THEN @ ELSE Tail(@)]
  /\ queueEvent' = [queueEvent EXCEPT ![k] = @ \/ Len(packets[k]) > 1]
  /\ sPacket' = Taken(k) /\ UNCHANGED requests

\* if (bRClear): whatever packet is first now is taken, ..
ClearRead ==
  /\ pc = "clearRead" /\ Pop("read")
  /\ \/ packets["read"] # <<>> /\ pc' = "answerRead"
        /\ UNCHANGED <<nError, m_acReadBuffer, bRPending, duration>>
     \/ packets["read"] = <<>> /\ ReadCleared
  /\ UNCHANGED <<portVars, deleteVars, answerVars, overlapped>>

\* .. and answered with what was read.
AnswerRead ==
  /\ pc = "answerRead"
  /\ Reply(sPacket, nError, m_acReadBuffer)
  /\ delivered' = delivered \o m_acReadBuffer
  /\ sPacket' = NoPacket /\ ReadCleared
  /\ UNCHANGED <<queueVars, portVars, deleteVars, overlapped>>

\* if (bWClear)
ClearWrite ==
  /\ pc = "clearWrite" /\ Pop("write")
  /\ \/ packets["write"] # <<>> /\ pc' = "answerWrite" /\ UNCHANGED <<nError, duration>>
     \/ packets["write"] = <<>> /\ WriteCleared
  /\ UNCHANGED <<m_acReadBuffer, bRPending, portVars, deleteVars, answerVars,
                 overlapped>>

AnswerWrite ==
  /\ pc = "answerWrite"
  /\ Reply(sPacket, nError, <<>>)
  /\ sPacket' = NoPacket /\ WriteCleared
  /\ UNCHANGED <<queueVars, m_acReadBuffer, bRPending, portVars, deleteVars,
                 delivered, overlapped>>

\* After the loop every packet left is taken, reads first, ..
Closing(k) ==
  /\ pc = IF k = "read" THEN "closingRead" ELSE "closingWrite"
  /\ sPacket' = Taken(k)
  /\ \/ /\ packets[k] = <<>> /\ UNCHANGED packets
        /\ pc' = IF k = "read" THEN "closingWrite" ELSE "closed"
     \/ /\ packets[k] # <<>>
        /\ packets' = [packets EXCEPT ![k] = Tail(@)]
        /\ pc' = IF k = "read" THEN "tellRead" ELSE "tellWrite"
  /\ UNCHANGED <<requests, queueEvent, duration, bRPending, nError, answerVars,
                 m_acReadBuffer, portVars, deleteVars, overlapped>>

\* .. and told.
Tell(k) ==
  /\ pc = IF k = "read" THEN "tellRead" ELSE "tellWrite"
  /\ Reply(sPacket, "DEVICE_CLOSING", <<>>)
  /\ sPacket' = NoPacket
  /\ pc' = IF k = "read" THEN "closingRead" ELSE "closingWrite"
  /\ UNCHANGED <<queueVars, duration, bRPending, nError, delivered,
                 m_acReadBuffer, portVars, deleteVars, overlapped>>

ThreadProc ==
  \/ WakeStop
  \/ \E k \in Kinds : WakeQueue(k) \/ WakeOverlapped(k)
  \/ Write \/ Written \/ Read \/ Comm \/ Again \/ Check
  \/ ClearRead \/ AnswerRead \/ ClearWrite \/ AnswerWrite
  \/ \E k \in Kinds : Closing(k) \/ Tell(k)

-----------------------------------------------------------------------------
(* The destructor, on the manager's thread. *)

\* SignalObjectAndWait
DeleteBegin ==
  /\ deletePc = "none" /\ deletePc' = "joining" /\ m_hStopEvent' = TRUE
  /\ UNCHANGED <<queueVars, threadVars, portVars, answerVars, overlapped>>

\* The thread has ended, or is terminated where it is after two seconds, with
\* what it holds; the port is purged and closed.
DeleteJoin ==
  /\ deletePc = "joining" /\ deletePc' = "closing"
  /\ pc' = IF pc = "closed" THEN pc ELSE "terminated"
  /\ writes' = <<>> /\ commWait' = FALSE /\ input' = <<>>
  /\ UNCHANGED <<queueVars, sPacket, duration, bRPending, nError,
                 m_acReadBuffer, m_hStopEvent, answerVars, overlapped, sent,
                 charEvent, received>>

\* m_pcComm->Close, then the packets left are dropped without an answer.  Close
\* may wait for a lock of the terminated thread for ever: nothing says that
\* this step is ever taken.
DeleteEnd ==
  /\ deletePc = "closing" /\ deletePc' = "deleted"
  /\ packets' = Both(<<>>)
  /\ UNCHANGED <<requests, queueEvent, threadVars, portVars, m_hStopEvent,
                 answerVars, overlapped>>

-----------------------------------------------------------------------------
(* The port. *)

PortOpen == deletePc \in {"none", "joining"}

\* A byte comes; a pending wait is over.
Receive(b) ==
  /\ PortOpen /\ Len(received) < MaxBytes
  /\ received' = Append(received, b) /\ input' = Append(input, b)
  /\ commWait' = FALSE
  /\ charEvent' = (charEvent \/ ~commWait)
  /\ overlapped' = [overlapped EXCEPT !["read"] =
                      IF commWait THEN Ended("done") ELSE @]
  /\ UNCHANGED <<queueVars, threadVars, deleteVars, answerVars, writes, sent>>

\* A pending write ends, in full or not.
WriteEnds(full) ==
  /\ PortOpen /\ writes # <<>> /\ writes' = Tail(writes)
  /\ sent' = IF full THEN sent \cup {Head(writes)} ELSE sent
  /\ SetOverlapped("write", Ended(IF full THEN "done" ELSE "short"))
  /\ UNCHANGED <<queueVars, threadVars, deleteVars, answerVars,
                 input, commWait, charEvent, received>>

Port == (\E b \in Bytes : Receive(b)) \/ (\E full \in BOOLEAN : WriteEnds(full))

-----------------------------------------------------------------------------
Delete == DeleteBegin \/ DeleteJoin \/ DeleteEnd

Next ==
  \/ \E request \in Requests : ProcessData(request)
  \/ ThreadProc
  \/ \E expired \in SUBSET Kinds : Timeout(expired)
  \/ Delete
  \/ Port

Spec == Init /\ [][Next]_vars

\* Windows schedules the thread, and the timeout of an operation that is timed
\* passes; nothing says that the device sends a byte or takes one.
Fairness ==
  /\ WF_vars(ThreadProc)
  /\ \A k \in Kinds : WF_vars(\E expired \in SUBSET Kinds :
                                k \in expired /\ Timeout(expired))

FairSpec == Spec /\ Fairness
=============================================================================
