-------------------------------- MODULE MCDAQ --------------------------------
(***************************************************************************)
(* CChannelMCDAQ ("mcdaq_device.cpp"), a channel for the digital lines of  *)
(* one board: the comm's pipe thread queues write packets and read         *)
(* requests in ProcessData, the channel's own thread serves them, and the  *)
(* manager's thread deletes the channel.                                   *)
(*                                                                         *)
(* The comm is used through what it promises (module Comm): SendData to a  *)
(* session fails when the session is gone or the queue is full.  A region  *)
(* run under m_hReadSafe is one action.  All of m_allReads is served in one *)
(* such region, so its order is seen by nobody: m_allReads[id] is how often *)
(* id is in it.  The model begins when the constructor has returned; memory *)
(* is never short.                                                         *)
(***************************************************************************)
EXTENDS Integers, Sequences

CONSTANTS
  Ids,            \* sessions of the comm, each named by its llId
  ucDirection,    \* 0 read, 1 write, 2 both
  usInitialVal,   \* words are the sets of their bits
  Setups          \* the channels, each with its clients and bounds, see below

ASSUME MCDAQAssumption ==
  /\ Ids \subseteq Nat
  /\ ucDirection \in 0 .. 2
  /\ \A s \in Setups :
       /\ s.bContinuous \in BOOLEAN
       /\ \A w \in s.WriteRequests : DOMAIN w = {"usValue", "usBitSelect"}
       /\ {s.MaxPackets, s.MaxReads, s.MaxRefusals, s.MaxFaults} \subseteq Nat

VARIABLES
  m_asWPackets,   \* CQueue: packets to write
  m_allReads,     \* m_allReads[id]: readings id asked for, in the list
  m_hWriteEvent, m_hReadEvent, m_hStopEvent,
  m_usLastWrite,
  pc,             \* where the channel's thread is
  psPacket,       \* the packet it took last
  owned,          \* the locks it never lets go of, once terminated
  reply,          \* the answer ProcessData has yet to send
  deletePc,       \* where the destructor is
  port,           \* the word on the board's lines
  online,         \* sessions the comm still has
  nRefusals, nFaults,
  setup,          \* the channel's entry in Setups
  reading,        \* reading[id]: the last of what id asked and was sent
  writing,        \* sessions waiting for the answer to a write
  owed            \* owed[id]: triggers not answered with a reading or otherwise

writes  == <<m_asWPackets, m_hWriteEvent, writing>>
reads   == <<m_allReads, m_hReadEvent, reading, owed>>
thread  == <<pc, psPacket, owned>>
board   == <<m_usLastWrite, port, nFaults, setup>>
comm    == <<online, nRefusals, reply>>
delete  == <<m_hStopEvent, deletePc>>
vars == <<writes, reads, thread, board, comm, delete>>

bContinuous   == setup.bContinuous    \* m_sChanInit.bContinuous
WriteRequests == setup.WriteRequests  \* what clients send: [usValue, usBitSelect]
MaxPackets    == setup.MaxPackets     \* bound: write packets queued
MaxReads      == setup.MaxReads       \* bound: read requests of a session
MaxRefusals   == setup.MaxRefusals    \* bound: times the comm's queue is full
MaxFaults     == setup.MaxFaults      \* bound: times cbDOut fails

NoReply == [llId |-> -1, eType |-> "none"]
NoPacket == [llId |-> -1, usValue |-> {}, usBitSelect |-> {}]
NoReads == [id \in Ids |-> 0]
Readers == {id \in Ids : m_allReads[id] > 0}

Init ==
  /\ m_asWPackets = << >> /\ m_allReads = NoReads
  /\ m_hWriteEvent = FALSE /\ m_hReadEvent = FALSE /\ m_hStopEvent = FALSE
  /\ setup \in Setups
  /\ m_usLastWrite = usInitialVal /\ port = usInitialVal
  /\ pc = "wait" /\ psPacket = NoPacket /\ owned = {}
  /\ reply = NoReply /\ deletePc = "none"
  /\ online = Ids /\ nRefusals = 0 /\ nFaults = 0
  /\ reading = [id \in Ids |-> "none"]
  /\ writing = {}
  /\ owed = NoReads

-----------------------------------------------------------------------------
(* Helpers *)

\* SendData to each of the sessions S fails for those in result.
Sends(S, refused) ==
  /\ refused \subseteq S
  /\ IF refused = {} THEN UNCHANGED nRefusals
     ELSE nRefusals < MaxRefusals /\ nRefusals' = nRefusals + 1

\* The sessions S were told something, except those SendData failed for.
Tell(S, failed, message) ==
  reading' = [id \in Ids |->
    IF id \notin S THEN reading[id] ELSE IF id \in failed THEN "none" ELSE message]

\* m_hReadSafe is held over several steps only by the thread.
ReadSafeFree == pc # "holding" /\ "m_hReadSafe" \notin owned

\* ahEvents: the lowest signalled event is served first.  Mutant: readings
\* before writes.
ReadsFirst ==
  IF m_hStopEvent THEN "stop" ELSE IF m_hReadEvent THEN "read"
  ELSE IF m_hWriteEvent THEN "write" ELSE "none"
Wakes ==
  IF m_hStopEvent THEN "stop" ELSE IF m_hWriteEvent THEN "write"
  ELSE IF m_hReadEvent THEN "read" ELSE "none"

\* The locks a terminated thread may own: m_hReadSafe in its two loops over
\* m_allReads, the comm's m_sInitSafe when it was in SendData, the queue's when
\* it was in Front.
MayOwn ==
  {locks \in SUBSET {"m_hReadSafe", "m_sInitSafe", "m_asWPackets"} :
     /\ pc = "holding" => "m_hReadSafe" \in locks
     /\ "m_hReadSafe" \in locks =>
          pc = "holding" \/ (pc = "wait" /\ Wakes = "stop")
     /\ "m_sInitSafe" \in locks =>
          pc \in {"write", "drain"} \/ "m_hReadSafe" \in locks
     /\ "m_asWPackets" \in locks =>
          pc \in {"take", "drain"} /\ "m_sInitSafe" \notin locks}

\* "if (m_asWPackets.GetSize()) SetEvent(m_hWriteEvent)".  Mutant: forgotten.
NoMoreToWrite(queue) == FALSE
MoreToWrite(queue) == queue # << >>

\* "if (!m_allReads.size()) ResetEvent(m_hReadEvent)" after a cancel.  Mutant:
\* reset without looking.
AlwaysReset(left) == FALSE
StillSignalled(left) == m_hReadEvent /\ left # NoReads

\* Mutant: every bit is taken from the packet.
WholeWord(packet, last) == packet.usValue
\* (usBitSelect & usValue) | (~usBitSelect & m_usLastWrite)
Merged(packet, last) ==
  (packet.usBitSelect \cap packet.usValue) \cup (last \ packet.usBitSelect)

\* A cancel erases the first request of id, if there is one.  Mutant: none.
Kept(list, id) == list
Without(list, id) == [list EXCEPT ![id] = IF @ > 0 THEN @ - 1 ELSE 0]

\* After a reading single requests are done; of the continuous ones those that
\* failed, marked -1, are removed.  Mutants: all stay; failed ones stay; all
\* go if one failed.
AllStay(failed) == m_allReads
FailedStay(failed) == IF bContinuous THEN m_allReads ELSE NoReads
AllGo(failed) == IF bContinuous /\ failed = {} THEN m_allReads ELSE NoReads
Remaining(failed) ==
  [id \in Ids |-> IF bContinuous /\ id \notin failed THEN m_allReads[id] ELSE 0]

-----------------------------------------------------------------------------
(* ProcessData, on the pipe thread: one request at a time *)

Request(id) == reply = NoReply /\ id \in online

RequestWrite(id) ==
  /\ Request(id) /\ ucDirection # 0 /\ "m_asWPackets" \notin owned
  /\ Len(m_asWPackets) < MaxPackets
  /\ \E w \in WriteRequests :
       m_asWPackets' = Append(m_asWPackets,
         [llId |-> id, usValue |-> w.usValue, usBitSelect |-> w.usBitSelect])
  /\ m_hWriteEvent' = (m_hWriteEvent \/ m_asWPackets = << >>)
  /\ writing' = writing \cup {id}
  /\ UNCHANGED <<reads, thread, board, comm, delete>>

\* eTrigger: a continuous reader cannot be triggered again.
RequestRead(id) ==
  /\ Request(id) /\ ucDirection # 1 /\ ReadSafeFree
  /\ \/ /\ ~bContinuous \/ id \notin Readers
        /\ m_allReads[id] < MaxReads
        /\ m_allReads' = [m_allReads EXCEPT ![id] = @ + 1]
        /\ m_hReadEvent' = TRUE
        /\ reading' = [reading EXCEPT ![id] = "asked"]
        /\ owed' = [owed EXCEPT ![id] = IF bContinuous THEN 0 ELSE @ + 1]
        /\ UNCHANGED reply
     \/ /\ bContinuous /\ id \in Readers
        /\ reply' = [llId |-> id, eType |-> "alreadyOpen"]
        /\ UNCHANGED <<m_allReads, m_hReadEvent, reading, owed>>
  /\ UNCHANGED <<writes, thread, board, delete, online, nRefusals>>

\* eCancelReadRequest
RequestCancel(id) ==
  /\ Request(id) /\ ucDirection # 1 /\ ReadSafeFree
  /\ m_allReads' = Without(m_allReads, id)
  /\ m_hReadEvent' = StillSignalled(m_allReads')
  /\ reply' = [llId |-> id, eType |-> "cancelled"]
  /\ owed' = [owed EXCEPT ![id] = IF @ > 0 THEN @ - 1 ELSE 0]
  /\ UNCHANGED <<writes, thread, board, delete, reading, online, nRefusals>>

\* The answer to the last two, sent when m_hReadSafe has been left.
Respond ==
  /\ reply # NoReply /\ "m_sInitSafe" \notin owned
  /\ \E refused \in SUBSET {reply.llId} :
       /\ Sends({reply.llId}, refused)
       /\ IF reply.eType = "cancelled"
          THEN Tell({reply.llId}, refused, "cancelled") ELSE UNCHANGED reading
  /\ reply' = NoReply
  /\ UNCHANGED <<writes, thread, board, delete, m_allReads, m_hReadEvent, owed,
                 online>>

\* The comm drops a session, on the pipe thread: never during a request.
SessionEnds(id) ==
  /\ Request(id)
  /\ online' = online \ {id}
  /\ UNCHANGED <<writes, reads, thread, board, delete, nRefusals, reply>>

-----------------------------------------------------------------------------
(* ThreadProc.  WaitForMultipleObjects: stop first, writes before reads. *)

WaitWrite ==
  /\ pc = "wait" /\ Wakes = "write"
  /\ m_hWriteEvent' = FALSE
  /\ pc' = "take"
  /\ UNCHANGED <<reads, board, comm, delete, m_asWPackets, writing, psPacket, owned>>

TakePacket ==
  /\ pc = "take"
  /\ IF m_asWPackets = << >>
     THEN /\ pc' = "wait"
          /\ UNCHANGED <<m_asWPackets, m_hWriteEvent, psPacket>>
     ELSE /\ pc' = "write"
          /\ psPacket' = Head(m_asWPackets)
          /\ m_asWPackets' = Tail(m_asWPackets)
          /\ m_hWriteEvent' = (m_hWriteEvent \/ MoreToWrite(m_asWPackets'))
  /\ UNCHANGED <<reads, board, comm, delete, writing, owned>>

\* cbDOut, which may fail, and the answer; m_usLastWrite is set either way.
WritePacket ==
  LET word == Merged(psPacket, m_usLastWrite)
      to == {psPacket.llId}
  IN /\ pc = "write"
     /\ \/ port' = word /\ UNCHANGED nFaults
        \/ nFaults < MaxFaults /\ nFaults' = nFaults + 1 /\ UNCHANGED port
     /\ m_usLastWrite' = word
     /\ \E refused \in SUBSET (to \cap online) : Sends(to \cap online, refused)
     /\ writing' = writing \ to
     /\ pc' = "wait" /\ psPacket' = NoPacket
     /\ UNCHANGED <<reads, delete, setup, m_asWPackets, m_hWriteEvent, online, reply,
                    owned>>

WaitRead ==
  /\ pc = "wait" /\ Wakes = "read"
  /\ m_hReadEvent' = FALSE
  /\ pc' = "read"
  /\ UNCHANGED <<writes, board, comm, delete, m_allReads, reading, owed,
                 psPacket, owned>>

\* cbDIn, then m_hReadSafe is entered.
ReadPort ==
  /\ pc = "read"
  /\ pc' = "holding"
  /\ UNCHANGED <<writes, reads, board, comm, delete, psPacket, owned>>

\* The reading is sent to every session that asked, and m_hReadSafe is left.
Deliver ==
  /\ pc = "holding"
  /\ \E refused \in SUBSET (Readers \cap online) :
       LET failed == refused \cup (Readers \ online)
       IN /\ Sends(Readers, refused)
          /\ m_allReads' = Remaining(failed)
          /\ m_hReadEvent' = (m_hReadEvent \/ m_allReads' # NoReads)
          /\ Tell(Readers, failed, "data")
  /\ owed' = [id \in Ids |->
               IF bContinuous THEN owed[id] ELSE owed[id] - m_allReads[id]]
  /\ pc' = "wait"
  /\ UNCHANGED <<writes, board, delete, psPacket, owned, online, reply>>

\* The stop event: DEVICE_CLOSING to every reader, under m_hReadSafe ..
WaitStop ==
  /\ pc = "wait" /\ Wakes = "stop"
  /\ \E refused \in SUBSET (Readers \cap online) :
       /\ Sends(Readers, refused)
       /\ Tell(Readers, refused \cup (Readers \ online), "closing")
  /\ m_allReads' = NoReads /\ owed' = NoReads
  /\ pc' = "drain"
  /\ UNCHANGED <<writes, board, delete, m_hReadEvent, psPacket, owned, online, reply>>

\* .. and to the writer of every packet left.
DrainPacket ==
  /\ pc = "drain" /\ m_asWPackets # << >>
  /\ LET to == {Head(m_asWPackets).llId}
     IN /\ \E refused \in SUBSET (to \cap online) : Sends(to, refused)
        /\ writing' = writing \ to
  /\ m_asWPackets' = Tail(m_asWPackets)
  /\ UNCHANGED <<reads, thread, board, delete, m_hWriteEvent, online, reply>>

Exit ==
  /\ pc = "drain" /\ m_asWPackets = << >>
  /\ pc' = "exited"
  /\ UNCHANGED <<writes, reads, board, comm, delete, psPacket, owned>>

-----------------------------------------------------------------------------
(* The destructor, on the manager's thread: the thread, the comm, the rest *)

DeleteBegin ==
  /\ deletePc = "none"
  /\ m_hStopEvent' = TRUE
  /\ deletePc' = "joining"
  /\ UNCHANGED <<writes, reads, thread, board, comm>>

DeleteJoined ==
  /\ deletePc = "joining" /\ pc = "exited"
  /\ deletePc' = "closing"
  /\ UNCHANGED <<writes, reads, thread, board, comm, m_hStopEvent>>

\* 2000 ms are over: the thread is terminated wherever it is.
DeleteTimeout ==
  /\ deletePc = "joining" /\ pc # "exited"
  /\ owned' \in MayOwn
  /\ pc' = "killed" /\ psPacket' = NoPacket
  /\ deletePc' = "closing"
  /\ UNCHANGED <<writes, reads, board, comm, m_hStopEvent>>

\* Close on the comm ends its pipe thread and every session; packets that
\* came after the thread's end go unanswered.  With m_sInitSafe or the queue's
\* lock lost the manager's thread waits for it here for ever.
DeleteEnd ==
  /\ deletePc = "closing" /\ owned \subseteq {"m_hReadSafe"}
  /\ online' = {} /\ reply' = NoReply
  /\ m_asWPackets' = << >>
  /\ deletePc' = "deleted"
  /\ UNCHANGED <<reads, thread, board, m_hWriteEvent, writing, nRefusals,
                 m_hStopEvent>>

-----------------------------------------------------------------------------
ThreadProc ==
  \/ WaitWrite \/ TakePacket \/ WritePacket
  \/ WaitRead \/ ReadPort \/ Deliver
  \/ WaitStop \/ DrainPacket \/ Exit

ProcessData(id) == RequestWrite(id) \/ RequestRead(id) \/ RequestCancel(id)

Delete == DeleteBegin \/ DeleteJoined \/ DeleteTimeout \/ DeleteEnd

Next ==
  \/ \E id \in Ids : ProcessData(id) \/ SessionEnds(id)
  \/ Respond
  \/ ThreadProc
  \/ Delete

Spec == Init /\ [][Next]_vars

\* The channel's thread runs and its driver calls return; the pipe thread
\* finishes the request it is at, and a deletion begun goes on.
FairSpec ==
  /\ Spec
  /\ WF_vars(ThreadProc)
  /\ WF_vars(Respond)
  /\ WF_vars(DeleteJoined \/ DeleteTimeout)
  /\ WF_vars(DeleteEnd)
=============================================================================
