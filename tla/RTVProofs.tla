------------------------------ MODULE RTVProofs ------------------------------
(***************************************************************************)
(* The stream of a CChannelRTV keeps its order and its pace: the inductive *)
(* invariant behind OneFrameAtATime, AnswerBeforeFrames and ActivatorTold. *)
(***************************************************************************)
EXTENDS RTVProps, FiniteSetTheorems, SequenceTheorems, TLAPS

\* A channel that is not lossless waits for every frame of this activation.
Waited == ~bLossless => \A b \in fresh : m_bSent /\ b = m_pLastSent

\* What a session was told, or not told for want of room, of an activation that
\* has not been ended since.
Active == {"active", "activeLost"}

\* Outside ProcessData an active channel has told its client so.  Within, the
\* answer may be still to come.
Answering ==
  pc = "respond" /\ request.eType = "eActivate" /\ request.nError = "none"
Announced ==
  /\ pc = "closing" => ~m_bActive /\ request.eType = "eInactivate"
  /\ Answering => m_bActive /\ request.llId = m_llId
  /\ pc \in {"closing", "respond"} =>
       request.llId \in DOMAIN outbox /\ deletePc \in {"none", "joining"}
  /\ m_bActive /\ pc \in {"idle", "exited"} => m_llId \in Ids /\ told[m_llId] \in Active
  /\ m_bActive /\ pc = "respond" =>
       m_llId \in Ids /\ (told[m_llId] \in Active \/ Answering)

\* A frame of this activation is under way only between the answer to the
\* activation and the closing response, and m_llId does not change meanwhile.
Streaming ==
  /\ fresh # {} =>
       /\ m_bActive \/ pc \in {"closing", "killedHolding"}
       /\ m_llId \in Ids /\ told[m_llId] \in Active
  /\ framePc # "idle" => pFrame \in Buffers
  /\ framePc = "send" /\ pFrame \in fresh => frameId = m_llId

\* Only the session m_llId names thinks that it is active, and only until the
\* closing response.
OneActive ==
  \A id \in Ids : told[id] \in Active =>
    /\ id < nextId
    /\ id \in DOMAIN outbox =>
         id = m_llId /\ (m_bActive \/ pc \in {"closing", "killedHolding"})

IInv == TypeOK /\ Waited /\ Announced /\ Streaming /\ OneActive
-----------------------------------------------------------------------------
(* What the helpers make of the comm *)

\* PoolAcquire yields a buffer nobody refers to.
LEMMA Acquired ==
  ASSUME Unused # {} PROVE PoolAcquire \in Unused /\ PoolAcquire \in Buffers
  BY DEF PoolAcquire, Unused

\* With room for more than n buffers there is one.
LEMMA SomeUnused ==
  ASSUME Cardinality(Unused) >= 2 \/ Cardinality(Unused) > 2 PROVE Unused # {}
  BY FS_EmptySet

\* One entry of the outbox is replaced.
LEMMA OutboxType ==
  ASSUME NEW D, NEW f \in [D -> Seq(Buffers)], NEW id \in D, NEW s \in Seq(Buffers)
  PROVE  /\ [f EXCEPT ![id] = s] \in [D -> Seq(Buffers)]
         /\ DOMAIN [f EXCEPT ![id] = s] = D
  OBVIOUS

\* SendData keeps the sessions, and what is queued are buffers.
LEMMA SendDataType ==
  ASSUME TypeOK, NEW b \in Buffers, NEW x \in {"free", "frame", "response"},
         NEW id, SendData(b, x, id)
  PROVE  /\ DOMAIN outbox' = DOMAIN outbox
         /\ outbox' \in [DOMAIN outbox -> Seq(Buffers)] /\ nFaults' \in Nat
         /\ content' \in [Buffers -> {"free", "lost", "frame", "response"}]
<1>1. content' \in [Buffers -> {"free", "lost", "frame", "response"}]
  BY DEF SendData, TypeOK
<1>2. nFaults' \in Nat
  BY DEF SendData, Fault, TypeOK
<1>3. CASE UNCHANGED outbox
  BY <1>1, <1>2, <1>3 DEF TypeOK
<1>4. ASSUME id \in DOMAIN outbox, outbox' = [outbox EXCEPT ![id] = Append(@, b)]
      PROVE  /\ DOMAIN outbox' = DOMAIN outbox
             /\ outbox' \in [DOMAIN outbox -> Seq(Buffers)]
  <2>1. Append(outbox[id], b) \in Seq(Buffers)
    BY <1>4 DEF TypeOK
  <2>2. outbox' = [outbox EXCEPT ![id] = Append(outbox[id], b)]
    BY <1>4
  <2>3. outbox \in [DOMAIN outbox -> Seq(Buffers)]
    BY DEF TypeOK
  <2>4. QED
    BY <1>4, <2>1, <2>2, <2>3, OutboxType
<1>5. QED
  BY <1>1, <1>2, <1>3, <1>4 DEF SendData

\* Result frees buffers; a channel that waited for one of them goes on.
LEMMA ResultsType ==
  ASSUME TypeOK, Waited, NEW S, Results(S)
  PROVE  /\ content' \in [Buffers -> {"free", "lost", "frame", "response"}]
         /\ m_bSent' \in BOOLEAN /\ m_pLastSent' \in Buffers \cup {NULL}
         /\ fresh' \subseteq fresh
         /\ ~bLossless => \A b \in fresh' : m_bSent' /\ b = m_pLastSent'
<1>1. content' \in [Buffers -> {"free", "lost", "frame", "response"}]
  BY DEF Results, TypeOK
<1>2. fresh' \subseteq fresh
  BY DEF Results
<1>3. CASE m_bSent /\ LastSentIn(S)
  BY <1>1, <1>2, <1>3 DEF Results, LastSentIn, TypeOK, Waited
<1>4. CASE ~(m_bSent /\ LastSentIn(S))
  BY <1>1, <1>2, <1>4 DEF Results, TypeOK, Waited
<1>5. QED
  BY <1>3, <1>4

-----------------------------------------------------------------------------
(* Each action keeps the invariant *)

\* Initially nothing is active and nothing under way.
LEMMA InitIInv == Init => IInv
<1> SUFFICES ASSUME Init PROVE IInv
  OBVIOUS
<1>1. TypeOK
  <2>1. outbox \in [DOMAIN outbox -> Seq(Buffers)] /\ DOMAIN outbox = {}
    BY DEF Init
  <2>2. NoRequest \in [llId : Ids \cup {-1},
                      eType : {"none", "eActivate", "eInactivate"},
                      nError : {"none", "ALREADY_OPEN", "DRIVER_ERROR"}]
    BY DEF NoRequest
  <2>3. /\ told \in [Ids -> Told]
        /\ content \in [Buffers -> {"free", "lost", "frame", "response"}]
    BY DEF Init, Told
  <2>4. nextId \in 0 .. MaxSessions /\ DOMAIN outbox \subseteq 0 .. nextId - 1
    BY <2>1, RTVAssumption DEF Init
  <2>5. QED
    BY <2>1, <2>2, <2>3, <2>4 DEF Init, TypeOK
<1>2. QED
  BY <1>1 DEF Init, IInv, Waited, Announced, Streaming, OneActive, NoRequest,
     Answering, Ids, Active

\* A session that begins takes an id no session had, so none that is active.
LEMMA SessionBeginsKeeps == IInv /\ SessionBegins => IInv'
<1> SUFFICES ASSUME IInv, SessionBegins PROVE IInv'
  OBVIOUS
<1> USE DEF SessionBegins, PipeThread, IdTaken, channel, thread, driver, rest
<1>1. TypeOK'
  <2>1. /\ DOMAIN outbox' = DOMAIN outbox \cup {nextId}
        /\ outbox' \in [DOMAIN outbox' -> Seq(Buffers)]
    BY DEF IInv, TypeOK
  <2>2. QED
    BY <2>1, RTVAssumption DEF IInv, TypeOK
<1>2. Waited' /\ Announced' /\ Streaming'
  BY DEF IInv, Waited, Announced, Streaming, Answering
<1>3. OneActive'
  BY RTVAssumption DEF IInv, OneActive, TypeOK, Ids
<1>4. QED
  BY <1>1, <1>2, <1>3 DEF IInv

\* A session that ends or is sent a message only lets buffers go.
LEMMA OutboxKeeps ==
  ASSUME IInv, NEW S, Results(S), pc = "idle",
         DOMAIN outbox' \subseteq DOMAIN outbox,
         outbox' \in [DOMAIN outbox' -> Seq(Buffers)],
         UNCHANGED <<m_bActive, m_llId, thread, driver, rest, nextId>>
  PROVE  IInv'
<1> USE DEF thread, driver, rest
<1>1. TypeOK'
  BY ResultsType DEF IInv, TypeOK
<1>2. Waited' /\ Announced'
  BY ResultsType DEF IInv, Waited, Announced, Answering
<1>3. Streaming' /\ OneActive'
  BY ResultsType DEF IInv, Streaming, OneActive
<1>4. QED
  BY <1>1, <1>2, <1>3 DEF IInv

\* Both steps of the comm that call Result.
LEMMA CommKeeps == ASSUME IInv, NEW id, SessionEnds(id) \/ Sent(id) PROVE IInv'
<1>1. CASE SessionEnds(id)
  <2>1. /\ DOMAIN outbox' \subseteq DOMAIN outbox
        /\ outbox' \in [DOMAIN outbox' -> Seq(Buffers)]
    BY <1>1 DEF SessionEnds, IInv, TypeOK
  <2>2. QED
    BY <1>1, <2>1, OutboxKeeps DEF SessionEnds, PipeThread
<1>2. CASE Sent(id)
  <2>1. Tail(outbox[id]) \in Seq(Buffers)
    BY <1>2 DEF Sent, IInv, TypeOK
  <2>2. /\ DOMAIN outbox' \subseteq DOMAIN outbox
        /\ outbox' \in [DOMAIN outbox' -> Seq(Buffers)]
    BY <1>2, <2>1 DEF Sent, IInv, TypeOK
  <2>3. QED
    BY <1>2, <2>2, OutboxKeeps DEF Sent, PipeThread
<1>3. QED
  BY <1>1, <1>2

\* A query changes nothing but the outbox of who asked.
LEMMA InformKeeps == ASSUME IInv, NEW id, Inform(id) PROVE IInv'
<1> USE DEF Inform, Answer, Request, channel, thread, driver
<1>1. PoolAcquire \in Buffers
  BY Acquired
<1>2. /\ DOMAIN outbox' = DOMAIN outbox
      /\ outbox' \in [DOMAIN outbox -> Seq(Buffers)]
      /\ content' \in [Buffers -> {"free", "lost", "frame", "response"}] /\ nFaults' \in Nat
  BY <1>1, SendDataType DEF IInv
<1>3. TypeOK'
  BY <1>2 DEF IInv, TypeOK
<1>4. Waited' /\ Announced' /\ Streaming' /\ OneActive'
  BY <1>2 DEF IInv, Waited, Announced, Streaming, OneActive, Answering
<1>5. QED
  BY <1>3, <1>4 DEF IInv

\* Activate: when the channel becomes active no frame is under way, and nobody
\* else thinks that it is.
LEMMA ActivateKeeps == ASSUME IInv, NEW id, Activate(id) PROVE IInv'
<1> USE DEF Activate, Fault, Request, PipeThread, driver, comm
<1>1. id \in Ids /\ id \in DOMAIN outbox /\ pc = "idle"
  BY RTVAssumption DEF IInv, TypeOK, Ids
<1>2. TypeOK'
  <2>1. request' \in [llId : Ids \cup {-1},
                     eType : {"none", "eActivate", "eInactivate"},
                     nError : {"none", "ALREADY_OPEN", "DRIVER_ERROR"}]
    BY <1>1
  <2>2. m_bActive' \in BOOLEAN /\ m_llId' \in Ids \cup {-1}
    BY <1>1 DEF IInv, TypeOK
  <2>3. nFaults' \in Nat
    <3>1. nFaults \in Nat
      BY DEF IInv, TypeOK
    <3>2. nFaults' = nFaults \/ nFaults' = nFaults + 1
      OBVIOUS
    <3>3. QED
      BY <3>1, <3>2
  <2>4. QED
    BY <2>1, <2>2, <2>3 DEF IInv, TypeOK
<1>3. Waited'
  BY DEF IInv, Waited
<1>4. Announced'
  BY <1>1 DEF IInv, Announced, Answering
<1>5. Streaming'
  BY <1>1 DEF IInv, Streaming
<1>6. OneActive'
  BY <1>1 DEF IInv, OneActive
<1>7. QED
  BY <1>2, <1>3, <1>4, <1>5, <1>6 DEF IInv

\* Inactivate: the activator still thinks the channel active, until told.
LEMMA InactivateKeeps == ASSUME IInv, NEW id, Inactivate(id) PROVE IInv'
<1> USE DEF Inactivate, Request, PipeThread, driver, comm, rest
<1>1. id \in Ids /\ id \in DOMAIN outbox /\ pc = "idle"
  BY RTVAssumption DEF IInv, TypeOK, Ids
<1>2. TypeOK'
  BY <1>1 DEF IInv, TypeOK
<1>3. Waited' /\ Announced'
  BY <1>1 DEF IInv, Waited, Announced, Answering
<1>4. Streaming' /\ OneActive'
  BY <1>1 DEF IInv, Streaming, OneActive
<1>5. QED
  BY <1>2, <1>3, <1>4 DEF IInv

\* SendClosing: after it no frame of this activation is left, and nobody thinks
\* the channel active.
LEMMA SendClosingKeeps == IInv /\ SendClosing => IInv'
<1> SUFFICES ASSUME IInv, SendClosing PROVE IInv'
  OBVIOUS
<1> USE DEF SendClosing, Answer, driver
<1>1. PoolAcquire \in Buffers
  BY Acquired
<1>2. /\ DOMAIN outbox' = DOMAIN outbox
      /\ outbox' \in [DOMAIN outbox -> Seq(Buffers)]
      /\ content' \in [Buffers -> {"free", "lost", "frame", "response"}] /\ nFaults' \in Nat
  BY <1>1, SendDataType DEF IInv
<1>3. TypeOK'
  <2>1. told' \in [Ids -> Told]
    BY DEF IInv, TypeOK, Told
  <2>2. m_bSent' \in BOOLEAN /\ m_llId' \in Ids \cup {-1}
        /\ m_pLastSent' \in Buffers \cup {NULL} /\ fresh' \subseteq Buffers
        /\ pc' \in {"idle", "closing", "respond", "exited", "killedHolding"}
    OBVIOUS
  <2>3. QED
    BY <1>2, <2>1, <2>2 DEF IInv, TypeOK
<1>4. Waited' /\ Streaming'
  BY DEF IInv, Waited, Streaming
<1>5. Announced'
  BY <1>2 DEF IInv, Announced, Answering
<1>6. OneActive'
  BY <1>2 DEF IInv, OneActive, TypeOK, Activator, Active
<1>7. QED
  BY <1>3, <1>4, <1>5, <1>6 DEF IInv

\* Respond: what makes the client think the channel active is sent when it is.
LEMMA RespondKeeps == IInv /\ Respond => IInv'
<1> SUFFICES ASSUME IInv, Respond PROVE IInv'
  OBVIOUS
<1> USE DEF Respond, Answer, driver, channel
<1>1. PoolAcquire \in Buffers
  BY Acquired
<1>2. /\ DOMAIN outbox' = DOMAIN outbox
      /\ outbox' \in [DOMAIN outbox -> Seq(Buffers)]
      /\ content' \in [Buffers -> {"free", "lost", "frame", "response"}] /\ nFaults' \in Nat
  BY <1>1, SendDataType DEF IInv
<1>3. /\ request.llId \in DOMAIN outbox /\ request.llId \in Ids
      /\ request.llId < nextId
  BY RTVAssumption DEF IInv, Announced, TypeOK, Ids
<1>4. TypeOK'
  <2>1. told' \in [Ids -> Told]
    BY DEF IInv, TypeOK, Told
  <2>2. NoRequest \in [llId : Ids \cup {-1},
                      eType : {"none", "eActivate", "eInactivate"},
                      nError : {"none", "ALREADY_OPEN", "DRIVER_ERROR"}]
    BY DEF NoRequest
  <2>3. QED
    BY <1>2, <2>1, <2>2 DEF IInv, TypeOK
<1>5. Waited'
  BY DEF IInv, Waited
<1>6. Announced'
  BY <1>2, <1>3 DEF IInv, Announced, Answering, TypeOK, Active
<1>7. Streaming'
  BY <1>3 DEF IInv, Streaming, TypeOK, Active
<1>8. OneActive'
  BY <1>2, <1>3 DEF IInv, OneActive, Announced, Answering, TypeOK
<1>9. QED
  BY <1>4, <1>5, <1>6, <1>7, <1>8 DEF IInv

\* TakeFrame: m_hSentSafe is free, so the client has been told.
LEMMA TakeFrameKeeps == IInv /\ TakeFrame => IInv'
<1> SUFFICES ASSUME IInv, TakeFrame PROVE IInv'
  OBVIOUS
<1> USE DEF TakeFrame, thread, rest
<1>1. PoolAcquire \in Buffers
  BY Acquired, SomeUnused
<1>2. TypeOK'
  <2>1. content' \in [Buffers -> {"free", "lost", "frame", "response"}]
    BY <1>1 DEF IInv, TypeOK
  <2>2. m_bSent' \in BOOLEAN /\ m_pLastSent' \in Buffers \cup {NULL}
    <3>1. \/ m_bSent' = m_bSent /\ m_pLastSent' = m_pLastSent
          \/ m_bSent' = TRUE /\ m_pLastSent' = PoolAcquire
      OBVIOUS
    <3>2. m_bSent \in BOOLEAN /\ m_pLastSent \in Buffers \cup {NULL}
      BY DEF IInv, TypeOK
    <3> QED BY <1>1, <3>1, <3>2
  <2>3. fresh' \subseteq Buffers /\ pFrame' \in Buffers \cup {NULL}
    BY <1>1 DEF IInv, TypeOK
  <2>4. QED
    BY <2>1, <2>2, <2>3 DEF IInv, TypeOK
<1>3. Waited'
  BY <1>1 DEF IInv, Waited
<1>4. Announced' /\ OneActive'
  BY DEF IInv, Announced, OneActive, Answering
<1>5. pc \in {"idle", "exited"}
  BY DEF IInv, TypeOK, SentSafeFree
<1>6. Streaming'
  BY <1>1, <1>5 DEF IInv, Streaming, Announced
<1>7. QED
  BY <1>2, <1>3, <1>4, <1>6 DEF IInv

\* ReadId: the id that goes with the frame.
LEMMA ReadIdKeeps == IInv /\ ReadId => IInv'
<1> SUFFICES ASSUME IInv, ReadId PROVE IInv'
  OBVIOUS
<1> USE DEF ReadId, channel, thread, comm, rest
<1>1. TypeOK'
  BY DEF IInv, TypeOK
<1>2. Waited' /\ Announced' /\ Streaming' /\ OneActive'
  BY DEF IInv, Waited, Announced, Streaming, OneActive, Answering
<1>3. QED
  BY <1>1, <1>2 DEF IInv

\* SendFrame: only the outbox changes.
LEMMA SendFrameKeeps == IInv /\ SendFrame => IInv'
<1> SUFFICES ASSUME IInv, SendFrame PROVE IInv'
  OBVIOUS
<1> USE DEF SendFrame, channel, thread
<1>1. pFrame \in Buffers
  BY DEF IInv, Streaming
<1>2. /\ DOMAIN outbox' = DOMAIN outbox
      /\ outbox' \in [DOMAIN outbox -> Seq(Buffers)]
      /\ content' \in [Buffers -> {"free", "lost", "frame", "response"}] /\ nFaults' \in Nat
  BY <1>1, SendDataType DEF IInv
<1>3. TypeOK'
  BY <1>2 DEF IInv, TypeOK
<1>4. Waited' /\ Announced' /\ Streaming' /\ OneActive'
  BY <1>2 DEF IInv, Waited, Announced, Streaming, OneActive, Answering
<1>5. QED
  BY <1>3, <1>4 DEF IInv

\* Deletion ends the pipe thread and lets everything queued go.
LEMMA DeleteKeeps == IInv /\ Delete => IInv'
<1> SUFFICES ASSUME IInv, Delete PROVE IInv'
  OBVIOUS
<1> USE DEF channel, thread, driver, comm
<1>1. CASE DeleteBegin
  <2>1. TypeOK'
    BY <1>1 DEF DeleteBegin, IInv, TypeOK
  <2>2. QED
    BY <1>1, <2>1 DEF DeleteBegin, IInv, Waited, Announced, Streaming, OneActive,
       Answering
<1>2. CASE DeleteJoined
  <2>1. TypeOK'
    BY <1>2 DEF DeleteJoined, IInv, TypeOK
  <2>2. QED
    BY <1>2, <2>1 DEF DeleteJoined, IInv, Waited, Announced, Streaming, OneActive,
       Answering
<1>3. CASE DeleteTimeout
  <2>1. TypeOK'
    BY <1>3 DEF DeleteTimeout, IInv, TypeOK
  <2>2. QED
    BY <1>3, <2>1 DEF DeleteTimeout, IInv, Waited, Announced, Streaming, OneActive,
       Answering
<1>4. CASE DeleteEnd
  <2>1. PICK S : Results(S)
    BY <1>4 DEF DeleteEnd
  <2>2. DOMAIN outbox' = {} /\ outbox' \in [DOMAIN outbox' -> Seq(Buffers)]
    BY <1>4 DEF DeleteEnd
  <2>3. TypeOK'
    BY <1>4, <2>1, <2>2, ResultsType DEF DeleteEnd, IInv, TypeOK
  <2>4. Waited'
    BY <1>4, <2>1, ResultsType DEF DeleteEnd, IInv, Waited
  <2>5. Announced' /\ Streaming' /\ OneActive'
    BY <1>4, <2>1, <2>2, ResultsType
    DEF DeleteEnd, IInv, Announced, Streaming, OneActive, Answering
  <2>6. QED
    BY <2>3, <2>4, <2>5 DEF IInv
<1>5. QED
  BY <1>1, <1>2, <1>3, <1>4 DEF Delete

-----------------------------------------------------------------------------
\* Every step of the channel keeps the invariant.
LEMMA NextIInv == IInv /\ [Next]_vars => IInv'
<1> SUFFICES ASSUME IInv, [Next]_vars PROVE IInv'
  OBVIOUS
<1>1. CASE Comm
  BY <1>1, SessionBeginsKeeps, CommKeeps DEF Comm
<1>2. CASE ProcessData
  BY <1>2, InformKeeps, ActivateKeeps, InactivateKeeps, SendClosingKeeps,
     RespondKeeps DEF ProcessData
<1>3. CASE NextFrame
  BY <1>3, TakeFrameKeeps, ReadIdKeeps, SendFrameKeeps DEF NextFrame
<1>4. CASE Delete
  BY <1>4, DeleteKeeps
<1>5. CASE UNCHANGED vars
  <2>1. TypeOK'
    BY <1>5 DEF vars, channel, thread, driver, comm, rest, IInv, TypeOK
  <2>2. QED
    BY <1>5, <2>1 DEF vars, channel, thread, driver, comm, rest, IInv, Waited,
       Announced, Streaming, OneActive, Answering
<1>6. QED
  BY <1>1, <1>2, <1>3, <1>4, <1>5 DEF Next

\* The inductive invariant holds in every reachable state, for any number of
\* buffers and sessions, lossless or not, whatever m_llId holds at first.
THEOREM StreamInvariant == Spec => []IInv
<1>1. Init => IInv
  BY InitIInv
<1>2. IInv /\ [Next]_vars => IInv'
  BY NextIInv
<1>3. QED
  BY <1>1, <1>2, PTL DEF Spec

\* Every variable of a CChannelRTV and its comm keeps its type.
THEOREM StreamTyped == Spec => []TypeOK
<1>1. IInv => TypeOK
  BY DEF IInv
<1>2. QED
  BY <1>1, StreamInvariant, PTL

\* NextFrame and Result: a channel that is not lossless never has two frames of
\* one activation under way.
THEOREM FramesPaced == Spec => []OneFrameAtATime
<1>1. IInv => OneFrameAtATime
  BY DEF IInv, Waited, OneFrameAtATime
<1>2. QED
  BY <1>1, StreamInvariant, PTL

\* ProcessData, eInactivate: whoever inactivates the channel, the session that
\* activated it has been told when the request is done, unless a full queue
\* refused that response.
THEOREM ClosingArrives == Spec => []ActivatorTold
<1>1. IInv => ActivatorTold
  BY RTVAssumption DEF IInv, OneActive, ActivatorTold, Active, TypeOK, Ids
<1>2. QED
  BY <1>1, StreamInvariant, PTL

\* ProcessData, eActivate: m_hSentSafe is held until the answer is sent or has
\* been refused by a full queue, so that no frame of the activation comes before
\* it; and only frames of an activation that has ended come after DEVICE_CLOSING.
THEOREM AnswerFirst == Spec => AnswerBeforeFrames
<1> DEFINE A == \A id \in Ids :
                  FrameQueued(id) /\ pFrame \in fresh =>
                    told[id] \in {"active", "activeLost"}
<1>1. IInv => A
  BY DEF IInv, Streaming, FrameQueued, Active
<1>2. IInv /\ [Next]_vars => [A]_vars
  BY <1>1
<1>3. QED
  BY <1>2, StreamInvariant, PTL DEF Spec, AnswerBeforeFrames
=============================================================================
