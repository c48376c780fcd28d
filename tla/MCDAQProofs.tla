----------------------------- MODULE MCDAQProofs -----------------------------
(***************************************************************************)
(* For any number of sessions, any channel and any order of requests,      *)
(* refusals and faults, no request of a CChannelMCDAQ is forgotten and     *)
(* readings go to those who are to have them.                              *)
(***************************************************************************)
EXTENDS MCDAQProps, TLAPS

Messages == {"none", "asked", "data", "cancelled", "closing"}

Typed ==
  /\ setup \in Setups
  /\ m_allReads \in [Ids -> Nat]
  /\ owed \in [Ids -> Int]
  /\ reading \in [Ids -> Messages]
  /\ reply \in [llId : Ids, eType : {"alreadyOpen", "cancelled"}] \cup {NoReply}

\* A continuous reader is in the list once; whoever was told of a cancel, or
\* is about to be, is not in it.
ReadersOnce ==
  bContinuous =>
    /\ \A id \in Ids : m_allReads[id] \in {0, 1}
    /\ \A id \in Ids : reading[id] = "cancelled" => id \notin Readers
    /\ reply.eType = "cancelled" => reply.llId \notin Readers

\* What is owed is in the list still.
OwedListed ==
  \A id \in Ids : owed[id] >= 0 /\ (bContinuous \/ owed[id] >= m_allReads[id])

\* A deletion begins with the stop event.
StopFirst == deletePc # "none" => m_hStopEvent

IInv ==
  /\ Typed
  /\ ReadersOnce
  /\ OwedListed
  /\ StopFirst
  /\ RequestsNotForgotten
  /\ SubscriptionKept

-----------------------------------------------------------------------------
(* What the helpers do *)

\* A list with nobody in it has no reader, and the other way round.
LEMMA NobodyReads ==
  ASSUME Typed
  PROVE  /\ m_allReads = NoReads <=> Readers = {}
         /\ \A id \in Ids : id \notin Readers <=> m_allReads[id] = 0
<1>1. \A id \in Ids : m_allReads[id] \in Nat
  BY DEF Typed
<1>2. ASSUME NEW id \in Ids PROVE id \notin Readers <=> m_allReads[id] = 0
  <2>1. m_allReads[id] \in Nat /\ (id \in Readers <=> m_allReads[id] > 0)
    BY <1>1 DEF Readers
  <2> QED BY <2>1
<1>3. m_allReads = NoReads <=> \A id \in Ids : m_allReads[id] = 0
  BY DEF Typed, NoReads
<1>4. Readers \subseteq Ids
  BY DEF Readers
<1> QED BY <1>2, <1>3, <1>4

\* A cancel takes one request of its session off the list.
LEMMA WithoutIs ==
  ASSUME NEW list \in [Ids -> Nat], NEW id \in Ids
  PROVE  /\ Without(list, id) \in [Ids -> Nat]
         /\ \A k \in Ids \ {id} : Without(list, id)[k] = list[k]
         /\ Without(list, id)[id] = IF list[id] > 0 THEN list[id] - 1 ELSE 0
BY DEF Without

\* After a reading only those stay in the list whom it reached, and only in a
\* continuous channel.
LEMMA RemainingIs ==
  ASSUME Typed, NEW failed
  PROVE  /\ Remaining(failed) \in [Ids -> Nat]
         /\ \A id \in Ids : Remaining(failed)[id] =
               IF bContinuous /\ id \notin failed THEN m_allReads[id] ELSE 0
BY DEF Remaining, Typed

\* Who is told something is told that or, when it fails, nothing.
LEMMA TellIs ==
  ASSUME Typed, NEW S, NEW failed, NEW message \in Messages,
         Tell(S, failed, message)
  PROVE  /\ reading' \in [Ids -> Messages]
         /\ \A id \in Ids : reading'[id] =
              IF id \notin S THEN reading[id]
              ELSE IF id \in failed THEN "none" ELSE message
BY DEF Tell, Typed, Messages

\* The events in the order of ahEvents.
LEMMA WakesIs ==
  /\ Wakes = "stop" => m_hStopEvent
  /\ Wakes \in {"write", "read"} => ~m_hStopEvent
BY DEF Wakes

-----------------------------------------------------------------------------
(* Steps that leave the readers alone *)

\* A step that changes neither the list nor what readers were told keeps all
\* that is said of them.
LEMMA ReadersStill ==
  ASSUME IInv, UNCHANGED <<m_allReads, owed, reading, reply, setup>>,
         m_hStopEvent => m_hStopEvent', StopFirst', RequestsNotForgotten'
  PROVE  IInv'
<1>1. Typed'
  BY DEF IInv, Typed
<1>2. ReadersOnce'
  BY DEF IInv, ReadersOnce, Readers, bContinuous
<1>3. OwedListed'
  BY DEF IInv, OwedListed, bContinuous
<1>4. SubscriptionKept'
  BY DEF IInv, SubscriptionKept, Readers, bContinuous
<1> QED BY <1>1, <1>2, <1>3, <1>4 DEF IInv

\* A write request is queued with the event set, unless it is behind others.
LEMMA RequestWriteKeeps ==
  ASSUME IInv, NEW id \in Ids, RequestWrite(id)
  PROVE  IInv'
<1>1. RequestsNotForgotten'
  BY DEF RequestWrite, IInv, RequestsNotForgotten, Killed, reads, thread
<1> QED
  BY <1>1, ReadersStill DEF RequestWrite, reads, thread, comm, delete, board,
     StopFirst, IInv

\* The thread serves the packets.
LEMMA WriteStepKeeps ==
  ASSUME IInv, WaitWrite \/ TakePacket \/ WritePacket
  PROVE  IInv'
<1>1. CASE WaitWrite
  <2>1. RequestsNotForgotten'
    BY <1>1 DEF WaitWrite, IInv, RequestsNotForgotten, Killed, reads
  <2> QED
    BY <1>1, <2>1, ReadersStill DEF WaitWrite, reads, comm, delete, board,
       StopFirst, IInv
<1>2. CASE TakePacket
  <2>1. RequestsNotForgotten'
    BY <1>2 DEF TakePacket, MoreToWrite, IInv, RequestsNotForgotten, Killed, reads
  <2> QED
    BY <1>2, <2>1, ReadersStill DEF TakePacket, reads, comm, delete, board,
       StopFirst, IInv
<1>3. CASE WritePacket
  <2>1. RequestsNotForgotten'
    BY <1>3 DEF WritePacket, IInv, RequestsNotForgotten, Killed, reads
  <2> QED
    BY <1>3, <2>1, ReadersStill DEF WritePacket, reads, delete, StopFirst, IInv
<1> QED BY <1>1, <1>2, <1>3

\* The read event is reset with the thread on its way to look.
LEMMA ReadStepKeeps ==
  ASSUME IInv, WaitRead \/ ReadPort
  PROVE  IInv'
<1>1. CASE WaitRead
  <2>1. RequestsNotForgotten'
    BY <1>1 DEF WaitRead, IInv, RequestsNotForgotten, Killed, writes
  <2> QED
    BY <1>1, <2>1, ReadersStill DEF WaitRead, comm, delete, board, StopFirst, IInv
<1>2. CASE ReadPort
  <2>1. RequestsNotForgotten'
    BY <1>2 DEF ReadPort, IInv, RequestsNotForgotten, Killed, writes, reads
  <2> QED
    BY <1>2, <2>1, ReadersStill DEF ReadPort, reads, comm, delete, board, StopFirst, IInv
<1> QED BY <1>1, <1>2

\* The exiting thread, and sessions that end.
LEMMA QuietStepKeeps ==
  ASSUME IInv,
         DrainPacket \/ Exit \/ \E id \in Ids : SessionEnds(id)
  PROVE  IInv'
<1>1. CASE DrainPacket
  <2>1. RequestsNotForgotten'
    BY <1>1 DEF DrainPacket, IInv, RequestsNotForgotten, Killed, reads, thread
  <2> QED
    BY <1>1, <2>1, ReadersStill DEF DrainPacket, reads, board, delete, StopFirst, IInv
<1>2. CASE Exit
  <2>1. RequestsNotForgotten'
    BY <1>2 DEF Exit, IInv, RequestsNotForgotten, Killed, reads, writes
  <2> QED
    BY <1>2, <2>1, ReadersStill DEF Exit, reads, comm, board, delete, StopFirst, IInv
<1>3. CASE \E id \in Ids : SessionEnds(id)
  <2>1. RequestsNotForgotten'
    BY <1>3 DEF SessionEnds, IInv, RequestsNotForgotten, Killed, reads, writes, thread
  <2> QED
    BY <1>3, <2>1, ReadersStill DEF SessionEnds, reads, board, delete, StopFirst, IInv
<1> QED BY <1>1, <1>2, <1>3

\* The destructor; only when the stop event is set is a reply abandoned.
LEMMA DeleteKeeps ==
  ASSUME IInv, Delete
  PROVE  IInv'
<1>1. CASE DeleteBegin
  <2>1. RequestsNotForgotten'
    BY <1>1 DEF DeleteBegin, IInv, RequestsNotForgotten, Killed, reads, writes, thread
  <2> QED
    BY <1>1, <2>1, ReadersStill DEF DeleteBegin, reads, comm, board, StopFirst, IInv
<1>2. CASE DeleteJoined
  <2>1. RequestsNotForgotten'
    BY <1>2 DEF DeleteJoined, IInv, RequestsNotForgotten, Killed, reads, writes, thread
  <2> QED
    BY <1>2, <2>1, ReadersStill DEF DeleteJoined, reads, comm, board, StopFirst, IInv
<1>3. CASE DeleteTimeout
  <2>1. RequestsNotForgotten'
    BY <1>3 DEF DeleteTimeout, RequestsNotForgotten, Killed
  <2> QED
    BY <1>3, <2>1, ReadersStill DEF DeleteTimeout, reads, comm, board, StopFirst, IInv
<1>4. CASE DeleteEnd
  <2>1. /\ UNCHANGED <<m_allReads, m_hReadEvent, reading, owed, setup, pc, m_hStopEvent>>
        /\ reply' = NoReply /\ m_asWPackets' = << >> /\ m_hStopEvent
    BY <1>4 DEF DeleteEnd, reads, board, thread, IInv, StopFirst
  <2>2. Typed' /\ OwedListed' /\ StopFirst'
    BY <2>1 DEF IInv, Typed, OwedListed, StopFirst, bContinuous
  <2>3. ReadersOnce'
    BY <2>1 DEF IInv, ReadersOnce, Readers, bContinuous, NoReply
  <2>4. RequestsNotForgotten' /\ SubscriptionKept'
    BY <2>1 DEF IInv, RequestsNotForgotten, Killed, SubscriptionKept
  <2> QED BY <2>2, <2>3, <2>4 DEF IInv
<1> QED BY <1>1, <1>2, <1>3, <1>4 DEF Delete

-----------------------------------------------------------------------------
(* Steps that change who reads *)

\* A trigger puts its session into the list, which a continuous channel does
\* for a session that is not there.
LEMMA RequestReadKeeps ==
  ASSUME IInv, NEW id \in Ids, RequestRead(id)
  PROVE  IInv'
<1>1. CASE /\ ~bContinuous \/ id \notin Readers
           /\ m_allReads' = [m_allReads EXCEPT ![id] = @ + 1]
           /\ m_hReadEvent' = TRUE
           /\ reading' = [reading EXCEPT ![id] = "asked"]
           /\ owed' = [owed EXCEPT ![id] = IF bContinuous THEN 0 ELSE @ + 1]
           /\ UNCHANGED reply
  <2>1. /\ UNCHANGED <<m_asWPackets, m_hWriteEvent, pc, setup, m_hStopEvent, deletePc, reply>>
        /\ reply = NoReply
    BY <1>1 DEF RequestRead, Request, writes, thread, board, delete
  <2>2. /\ m_allReads \in [Ids -> Nat] /\ owed \in [Ids -> Int]
        /\ reading \in [Ids -> Messages] /\ (bContinuous' <=> bContinuous)
    BY <2>1 DEF IInv, Typed, bContinuous
  <2>3. Typed'
    BY <1>1, <2>1, <2>2 DEF IInv, Typed, Messages
  <2>4. /\ \A k \in Ids \ {id} : m_allReads'[k] = m_allReads[k] /\ owed'[k] = owed[k]
                                 /\ reading'[k] = reading[k]
        /\ m_allReads'[id] = m_allReads[id] + 1 /\ reading'[id] = "asked"
        /\ owed'[id] = IF bContinuous THEN 0 ELSE owed[id] + 1
    BY <1>1, <2>2
  <2>5. Readers' = Readers \cup {id}
    BY <2>2, <2>4 DEF Readers
  <2>6. ReadersOnce'
    <3> SUFFICES ASSUME bContinuous PROVE ReadersOnce'
      BY <2>2 DEF ReadersOnce
    <3>1. m_allReads[id] = 0
      BY <1>1, NobodyReads DEF IInv
    <3>2. \A k \in Ids : m_allReads'[k] \in {0, 1}
      BY <2>4, <3>1 DEF IInv, ReadersOnce
    <3>3. \A k \in Ids : reading'[k] = "cancelled" => k \notin Readers'
      BY <2>4, <2>5 DEF IInv, ReadersOnce
    <3> QED BY <2>1, <3>2, <3>3 DEF ReadersOnce, NoReply
  <2>7. OwedListed'
    BY <2>2, <2>4 DEF IInv, OwedListed
  <2>8. RequestsNotForgotten'
    BY <1>1, <2>1 DEF IInv, RequestsNotForgotten, Killed
  <2>9. SubscriptionKept'
    BY <2>1, <2>2, <2>4, <2>5 DEF IInv, SubscriptionKept
  <2> QED BY <2>1, <2>3, <2>6, <2>7, <2>8, <2>9 DEF IInv, StopFirst
<1>2. CASE /\ reply' = [llId |-> id, eType |-> "alreadyOpen"]
           /\ UNCHANGED <<m_allReads, m_hReadEvent, reading, owed>>
  <2>1. /\ UNCHANGED <<m_asWPackets, m_hWriteEvent, pc, setup, m_hStopEvent, deletePc>>
        /\ reply = NoReply
    BY <1>2 DEF RequestRead, Request, writes, thread, board, delete
  <2>2. Typed' /\ OwedListed' /\ StopFirst' /\ RequestsNotForgotten'
    BY <1>2, <2>1 DEF IInv, Typed, OwedListed, StopFirst, bContinuous,
       RequestsNotForgotten, Killed
  <2>3. ReadersOnce'
    BY <1>2, <2>1 DEF IInv, ReadersOnce, Readers, bContinuous
  <2>4. SubscriptionKept'
    BY <1>2, <2>1 DEF IInv, SubscriptionKept, Readers, bContinuous, NoReply
  <2> QED BY <2>2, <2>3, <2>4 DEF IInv
<1> QED BY <1>1, <1>2 DEF RequestRead

\* A cancel takes its session off a continuous channel's list, and leaves the
\* event set when others are in it.
LEMMA RequestCancelKeeps ==
  ASSUME IInv, NEW id \in Ids, RequestCancel(id)
  PROVE  IInv'
<1>1. /\ UNCHANGED <<m_asWPackets, m_hWriteEvent, pc, setup, m_hStopEvent, deletePc, reading>>
      /\ reply = NoReply /\ reply' = [llId |-> id, eType |-> "cancelled"]
      /\ m_allReads' = Without(m_allReads, id)
      /\ m_hReadEvent' = StillSignalled(m_allReads')
      /\ owed' = [owed EXCEPT ![id] = IF @ > 0 THEN @ - 1 ELSE 0]
  BY DEF RequestCancel, Request, writes, thread, board, delete
<1>2. /\ m_allReads \in [Ids -> Nat] /\ owed \in [Ids -> Int]
      /\ (bContinuous' <=> bContinuous)
  BY <1>1 DEF IInv, Typed, bContinuous
<1>3. /\ m_allReads' \in [Ids -> Nat] /\ owed' \in [Ids -> Int]
      /\ \A k \in Ids \ {id} : m_allReads'[k] = m_allReads[k] /\ owed'[k] = owed[k]
      /\ m_allReads'[id] = IF m_allReads[id] > 0 THEN m_allReads[id] - 1 ELSE 0
      /\ owed'[id] = IF owed[id] > 0 THEN owed[id] - 1 ELSE 0
  BY <1>1, <1>2, WithoutIs
<1>4. Typed'
  BY <1>1, <1>3 DEF IInv, Typed
<1>5. Readers' \subseteq Readers /\ Readers \subseteq Readers' \cup {id}
  <2>1. ASSUME NEW k \in Ids PROVE m_allReads[k] \in Nat /\ m_allReads'[k] <= m_allReads[k]
    BY <1>2, <1>3
  <2> QED BY <1>2, <1>3, <2>1 DEF Readers
<1>6. ReadersOnce'
  <2> SUFFICES ASSUME bContinuous PROVE ReadersOnce'
    BY <1>2 DEF ReadersOnce
  <2>1. m_allReads'[id] = 0 /\ \A k \in Ids : m_allReads'[k] \in {0, 1}
    BY <1>3 DEF IInv, ReadersOnce
  <2>2. id \notin Readers'
    BY <2>1 DEF Readers
  <2>3. \A k \in Ids : reading'[k] = "cancelled" => k \notin Readers'
    BY <1>1, <1>5 DEF IInv, ReadersOnce
  <2> QED BY <1>1, <2>1, <2>2, <2>3 DEF ReadersOnce
<1>7. OwedListed'
  <2> SUFFICES ASSUME NEW k \in Ids
               PROVE  owed'[k] >= 0 /\ (bContinuous \/ owed'[k] >= m_allReads'[k])
    BY <1>2 DEF OwedListed
  <2>1. /\ owed[k] \in Int /\ m_allReads[k] \in Nat /\ owed[k] >= 0
        /\ bContinuous \/ owed[k] >= m_allReads[k]
    BY <1>2 DEF IInv, OwedListed
  <2>2. CASE k = id
    BY <1>3, <2>1, <2>2
  <2>3. CASE k # id
    BY <1>3, <2>1, <2>3
  <2> QED BY <2>2, <2>3
<1>8. RequestsNotForgotten'
  <2>1. m_allReads' # NoReads => m_allReads # NoReads
    <3> SUFFICES ASSUME m_allReads = NoReads PROVE m_allReads' = NoReads
      OBVIOUS
    <3>1. \A k \in Ids : m_allReads'[k] = 0
      BY <1>3 DEF NoReads
    <3> QED BY <1>3, <3>1 DEF NoReads
  <2> QED BY <1>1, <2>1 DEF IInv, RequestsNotForgotten, Killed, StillSignalled, NoReads
<1>9. SubscriptionKept'
  BY <1>1, <1>2, <1>5 DEF IInv, SubscriptionKept, NoReply
<1> QED BY <1>1, <1>4, <1>6, <1>7, <1>8, <1>9 DEF IInv, StopFirst

\* The answer: whoever is told of the cancel is off the list.
LEMMA RespondKeeps ==
  ASSUME IInv, Respond
  PROVE  IInv'
<1>1. /\ UNCHANGED <<m_asWPackets, m_hWriteEvent, pc, setup, m_hStopEvent, deletePc,
                    m_allReads, m_hReadEvent, owed>>
      /\ reply # NoReply /\ reply' = NoReply
  BY DEF Respond, writes, thread, board, delete
<1>2. PICK refused \in SUBSET {reply.llId} :
        IF reply.eType = "cancelled"
        THEN Tell({reply.llId}, refused, "cancelled") ELSE UNCHANGED reading
  BY DEF Respond
<1>3. /\ reading' \in [Ids -> Messages]
      /\ \A id \in Ids :
           \/ reading'[id] = reading[id] /\ (reply.eType = "cancelled" => id # reply.llId)
           \/ /\ reading'[id] \in {"none", "cancelled"}
              /\ reply.eType = "cancelled" /\ id = reply.llId
  <2>1. CASE reply.eType = "cancelled"
    <3>1. Tell({reply.llId}, refused, "cancelled") /\ "cancelled" \in Messages
      BY <1>2, <2>1 DEF Messages
    <3> QED BY <2>1, <3>1, TellIs DEF IInv
  <2>2. CASE reply.eType # "cancelled"
    BY <1>2, <2>2 DEF IInv, Typed
  <2> QED BY <2>1, <2>2
<1>4. Typed' /\ OwedListed' /\ StopFirst' /\ RequestsNotForgotten'
  BY <1>1, <1>3 DEF IInv, Typed, OwedListed, StopFirst, bContinuous,
     RequestsNotForgotten, Killed
<1>5. ReadersOnce'
  <2>1. Readers' = Readers /\ (bContinuous' <=> bContinuous)
    BY <1>1 DEF Readers, bContinuous
  <2>2. bContinuous => \A id \in Ids : reading'[id] = "cancelled" => id \notin Readers
    BY <1>3 DEF IInv, ReadersOnce
  <2> QED BY <1>1, <2>1, <2>2 DEF IInv, ReadersOnce, NoReply
<1>6. SubscriptionKept'
  <2>1. Readers' = Readers /\ (bContinuous' <=> bContinuous)
    BY <1>1 DEF Readers, bContinuous
  <2> SUFFICES ASSUME bContinuous, ~m_hStopEvent, NEW id \in Ids,
                      reading'[id] \in {"asked", "data"}
               PROVE  id \in Readers
    BY <1>1, <2>1 DEF SubscriptionKept
  <2>2. reading'[id] = reading[id] /\ (reply.eType = "cancelled" => id # reply.llId)
    BY <1>3
  <2>3. id \in Readers \/ reply = [llId |-> id, eType |-> "cancelled"]
    BY <2>2 DEF IInv, SubscriptionKept
  <2> QED BY <2>2, <2>3
<1> QED BY <1>4, <1>5, <1>6 DEF IInv

\* The reading goes to those in the list; a continuous reader it reached stays.
LEMMA DeliverIs ==
  ASSUME IInv, Deliver
  PROVE  \E failed :
           /\ m_allReads' = Remaining(failed)
           /\ Tell(Readers, failed, "data")
           /\ m_hReadEvent' = (m_hReadEvent \/ m_allReads' # NoReads)
           /\ owed' = [id \in Ids |->
                IF bContinuous THEN owed[id] ELSE owed[id] - m_allReads[id]]
           /\ pc' = "wait"
           /\ UNCHANGED <<m_asWPackets, m_hWriteEvent, setup, m_hStopEvent, deletePc, reply>>
BY DEF Deliver, writes, board, delete

\* So nobody is forgotten, owed less than nothing or served after a cancel.
LEMMA DeliverKeeps ==
  ASSUME IInv, Deliver
  PROVE  IInv'
<1>1. PICK failed :
           /\ m_allReads' = Remaining(failed)
           /\ Tell(Readers, failed, "data")
           /\ m_hReadEvent' = (m_hReadEvent \/ m_allReads' # NoReads)
           /\ owed' = [id \in Ids |->
                IF bContinuous THEN owed[id] ELSE owed[id] - m_allReads[id]]
           /\ pc' = "wait"
           /\ UNCHANGED <<m_asWPackets, m_hWriteEvent, setup, m_hStopEvent, deletePc, reply>>
  BY DeliverIs
<1>2. bContinuous' <=> bContinuous
  BY <1>1 DEF bContinuous
<1>3. /\ m_allReads' \in [Ids -> Nat]
      /\ \A id \in Ids : m_allReads'[id] =
            IF bContinuous /\ id \notin failed THEN m_allReads[id] ELSE 0
  BY <1>1, RemainingIs DEF IInv
<1>4. /\ reading' \in [Ids -> Messages]
      /\ \A id \in Ids : reading'[id] =
            IF id \notin Readers THEN reading[id]
            ELSE IF id \in failed THEN "none" ELSE "data"
  BY <1>1, TellIs DEF IInv, Messages
<1>5. \A id \in Ids : m_allReads[id] \in Nat /\ owed[id] \in Int
  BY DEF IInv, Typed
<1>6. \A id \in Ids : owed'[id] = IF bContinuous THEN owed[id] ELSE owed[id] - m_allReads[id]
  BY <1>1
<1>7. Typed'
  BY <1>1, <1>3, <1>4, <1>5 DEF IInv, Typed
<1>8. \A id \in Ids : id \in Readers' <=> bContinuous /\ id \notin failed /\ id \in Readers
  BY <1>3, <1>5 DEF Readers
<1>9. ReadersOnce'
  <2> SUFFICES ASSUME bContinuous PROVE ReadersOnce'
    BY <1>2 DEF ReadersOnce
  <2>1. \A id \in Ids : m_allReads'[id] \in {0, 1}
    BY <1>3 DEF IInv, ReadersOnce
  <2>2. \A id \in Ids : reading'[id] = "cancelled" => id \notin Readers'
    BY <1>4, <1>8 DEF IInv, ReadersOnce
  <2>3. reply'.eType = "cancelled" => reply'.llId \notin Readers'
    BY <1>1, <1>8 DEF IInv, ReadersOnce, Readers
  <2> QED BY <2>1, <2>2, <2>3 DEF ReadersOnce
<1>10. OwedListed'
  <2> SUFFICES ASSUME NEW id \in Ids
               PROVE  owed'[id] >= 0 /\ (bContinuous \/ owed'[id] >= m_allReads'[id])
    BY <1>2 DEF OwedListed
  <2>1. owed[id] >= 0 /\ (bContinuous \/ owed[id] >= m_allReads[id])
    BY DEF IInv, OwedListed
  <2> QED BY <1>3, <1>5, <1>6, <2>1
<1>11. RequestsNotForgotten'
  BY <1>1 DEF IInv, RequestsNotForgotten, Killed, Deliver, NoReads
<1>12. SubscriptionKept'
  <2> SUFFICES ASSUME bContinuous, ~m_hStopEvent, NEW id \in Ids,
                      reading'[id] \in {"asked", "data"}, id \notin Readers'
               PROVE  reply = [llId |-> id, eType |-> "cancelled"]
    BY <1>1, <1>2 DEF SubscriptionKept
  <2>1. id \notin Readers /\ reading'[id] = reading[id]
    BY <1>4, <1>8
  <2> QED BY <2>1 DEF IInv, SubscriptionKept
<1> QED BY <1>1, <1>7, <1>9, <1>10, <1>11, <1>12 DEF IInv, StopFirst

\* Told to stop, the thread closes on every reader.
LEMMA WaitStopKeeps ==
  ASSUME IInv, WaitStop
  PROVE  IInv'
<1>1. /\ m_allReads' = NoReads /\ owed' = NoReads /\ m_hStopEvent /\ pc' = "drain"
      /\ pc = "wait"
      /\ UNCHANGED <<m_asWPackets, m_hWriteEvent, setup, m_hStopEvent, deletePc, reply>>
  BY WakesIs DEF WaitStop, writes, board, delete
<1>2. PICK refused : Tell(Readers, refused \cup (Readers \ online), "closing")
  BY DEF WaitStop
<1>3. /\ reading' \in [Ids -> Messages]
      /\ \A id \in Ids : reading'[id] = "cancelled" => reading[id] = "cancelled"
  BY <1>2, TellIs DEF IInv, Messages
<1>4. Typed' /\ OwedListed'
  BY <1>1, <1>3 DEF IInv, Typed, OwedListed, NoReads
<1>5. Readers' = {}
  BY <1>1 DEF Readers, NoReads
<1>6. ReadersOnce'
  BY <1>1, <1>5 DEF ReadersOnce, NoReads
<1>7. RequestsNotForgotten' /\ SubscriptionKept' /\ StopFirst'
  BY <1>1 DEF IInv, RequestsNotForgotten, Killed, SubscriptionKept, StopFirst, NoReads
<1> QED BY <1>4, <1>6, <1>7 DEF IInv

-----------------------------------------------------------------------------
(* The theorems *)

\* The channel begins with nobody waiting.
LEMMA InitIInv == Init => IInv
<1> SUFFICES ASSUME Init PROVE IInv
  OBVIOUS
<1>1. Typed
  BY DEF Init, Typed, NoReads, Messages
<1>2. Readers = {}
  BY DEF Init, Readers, NoReads
<1>3. ReadersOnce /\ OwedListed
  BY <1>2 DEF Init, ReadersOnce, OwedListed, NoReads
<1>4. StopFirst /\ RequestsNotForgotten /\ SubscriptionKept
  BY DEF Init, StopFirst, RequestsNotForgotten, SubscriptionKept
<1> QED BY <1>1, <1>3, <1>4 DEF IInv

\* Every step of the channel keeps the invariant.
LEMMA NextIInv == IInv /\ [Next]_vars => IInv'
<1> SUFFICES ASSUME IInv, [Next]_vars PROVE IInv'
  OBVIOUS
<1>1. CASE UNCHANGED vars
  BY <1>1, ReadersStill DEF vars, writes, reads, thread, board, comm, delete, IInv,
     StopFirst, RequestsNotForgotten, Killed
<1>2. CASE \E id \in Ids : ProcessData(id) \/ SessionEnds(id)
  BY <1>2, RequestWriteKeeps, RequestReadKeeps, RequestCancelKeeps, QuietStepKeeps
  DEF ProcessData
<1>3. CASE ThreadProc
  BY <1>3, WriteStepKeeps, ReadStepKeeps, DeliverKeeps, WaitStopKeeps, QuietStepKeeps
  DEF ThreadProc
<1>4. CASE Respond \/ Delete
  BY <1>4, RespondKeeps, DeleteKeeps
<1> QED BY <1>1, <1>2, <1>3, <1>4 DEF Next

\* The invariant holds for ever.
THEOREM Inductive == Spec => []IInv
BY InitIInv, NextIInv, PTL DEF Spec

\* Whoever sets and resets the events, and in whatever order, a request that
\* is queued is one the thread is going to look at.
THEOREM NoRequestForgotten == Spec => []RequestsNotForgotten
<1>1. IInv => RequestsNotForgotten
  BY DEF IInv
<1> QED BY <1>1, Inductive, PTL

\* A continuous reader stays one until it cancels, a message for it is refused
\* or the channel stops, whoever else comes and goes.
THEOREM ReadersStay == Spec => []SubscriptionKept
<1>1. IInv => SubscriptionKept
  BY DEF IInv
<1> QED BY <1>1, Inductive, PTL

\* No trigger is answered with two readings, cancelled or not.
THEOREM NoSecondReading == Spec => []OneReadingPerTrigger
<1>1. IInv => OneReadingPerTrigger
  BY DEF IInv, OwedListed, OneReadingPerTrigger
<1> QED BY <1>1, Inductive, PTL

\* Only a reading of the thread tells a session "data", and only one in the list.
LEMMA OnlyReadersGetData ==
  ASSUME IInv, [Next]_vars, NEW id \in Ids, reading'[id] = "data", reading[id] # "data"
  PROVE  id \in Readers
<1>1. CASE UNCHANGED reading
  BY <1>1
<1>2. ASSUME NEW k \in Ids, RequestRead(k) PROVE UNCHANGED reading
  BY <1>2 DEF RequestRead, IInv, Typed
<1>3. CASE Respond
  <2>1. PICK refused : IF reply.eType = "cancelled"
                       THEN Tell({reply.llId}, refused, "cancelled") ELSE UNCHANGED reading
    BY <1>3 DEF Respond
  <2> QED BY <2>1, TellIs DEF IInv, Messages
<1>4. CASE Deliver
  <2>1. PICK failed : Tell(Readers, failed, "data")
    BY <1>4, DeliverIs
  <2> QED BY <2>1, TellIs DEF IInv, Messages
<1>5. CASE WaitStop
  <2>1. PICK refused : Tell(Readers, refused, "closing")
    BY <1>5 DEF WaitStop
  <2> QED BY <2>1, TellIs DEF IInv, Messages
<1>6. ASSUME NEW k \in Ids, RequestWrite(k) \/ RequestCancel(k) \/ SessionEnds(k)
      PROVE  UNCHANGED reading
  BY <1>6 DEF RequestWrite, RequestCancel, SessionEnds, reads
<1>7. CASE WaitWrite \/ TakePacket \/ WritePacket \/ WaitRead \/ ReadPort
  BY <1>1, <1>7 DEF WaitWrite, TakePacket, WritePacket, WaitRead, ReadPort, reads
<1>8. CASE DrainPacket \/ Exit \/ Delete \/ UNCHANGED vars
  BY <1>1, <1>8 DEF DrainPacket, Exit, Delete, DeleteBegin, DeleteJoined, DeleteTimeout,
     DeleteEnd, vars, reads
<1> QED BY <1>1, <1>2, <1>3, <1>4, <1>5, <1>6, <1>7, <1>8
  DEF Next, ProcessData, ThreadProc

\* "After a cancel, no new data will be added to that pipe", also when the
\* thread has its reading already and waits for the list to be let go of.
THEOREM CancelIsLast == Spec => NoDataAfterCancel
<1>1. IInv /\ [Next]_vars =>
        [bContinuous => \A id \in Ids :
           reading[id] = "cancelled" => reading'[id] # "data"]_vars
  BY OnlyReadersGetData DEF IInv, ReadersOnce
<1> QED BY <1>1, Inductive, PTL DEF Spec, NoDataAfterCancel

-----------------------------------------------------------------------------
(* On a board that does as it is told *)

NeverFails == \A s \in Setups : s.MaxFaults = 0

\* The lines are what was written last.
LinesKnown == setup \in Setups /\ nFaults = 0 /\ port = m_usLastWrite

\* A write that succeeds sets the lines to what the channel then remembers.
LEMMA LinesStayKnown ==
  ASSUME NeverFails, LinesKnown, [Next]_vars
  PROVE  /\ LinesKnown'
         /\ (port \ port') \cup (port' \ port) \subseteq psPacket.usBitSelect
<1>1. CASE WritePacket
  <2>1. ~(nFaults < MaxFaults)
    BY DEF NeverFails, LinesKnown, MaxFaults
  <2>2. /\ port' = Merged(psPacket, m_usLastWrite) /\ UNCHANGED <<nFaults, setup>>
        /\ m_usLastWrite' = Merged(psPacket, m_usLastWrite)
    BY <1>1, <2>1 DEF WritePacket
  <2>3. port = m_usLastWrite
    BY DEF LinesKnown
  <2>4. (port \ port') \cup (port' \ port) \subseteq psPacket.usBitSelect
    BY <2>2, <2>3 DEF Merged
  <2> QED BY <2>2, <2>4 DEF LinesKnown
<1>2. CASE UNCHANGED <<m_usLastWrite, port, nFaults, setup>>
  BY <1>2 DEF LinesKnown
<1>3. ASSUME NEW id \in Ids, ProcessData(id) \/ SessionEnds(id)
      PROVE  UNCHANGED <<m_usLastWrite, port, nFaults, setup>>
  BY <1>3 DEF ProcessData, RequestWrite, RequestRead, RequestCancel, SessionEnds, board
<1>4. CASE ThreadProc \/ Respond
  <2>1. WritePacket \/ UNCHANGED <<m_usLastWrite, port, nFaults, setup>>
    BY <1>4 DEF ThreadProc, Respond, WaitWrite, TakePacket, WaitRead, ReadPort,
       Deliver, WaitStop, DrainPacket, Exit, board
  <2> QED BY <1>1, <1>2, <2>1
<1>5. CASE Delete \/ UNCHANGED vars
  BY <1>2, <1>5 DEF Delete, DeleteBegin, DeleteJoined, DeleteTimeout, DeleteEnd, vars, board
<1> QED BY <1>2, <1>3, <1>4, <1>5 DEF Next

\* "Only bit 3 will be changed.  The other bits will remain as is", when no
\* write fails: the channel works out the word from what it wrote last.
THEOREM OnlySelectedLines ==
  ASSUME NeverFails
  PROVE  Spec => OnlySelectedBitsChange
<1>1. Init => LinesKnown
  BY DEF Init, LinesKnown
<1>2. LinesKnown /\ [Next]_vars => LinesKnown'
  BY LinesStayKnown
<1>3. LinesKnown /\ [Next]_vars =>
        [(port \ port') \cup (port' \ port) \subseteq psPacket.usBitSelect]_vars
  BY LinesStayKnown
<1> QED BY <1>1, <1>2, <1>3, PTL DEF Spec, OnlySelectedBitsChange
=============================================================================
