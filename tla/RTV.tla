--------------------------------- MODULE RTV ---------------------------------
(***************************************************************************)
(* CChannelRTV ("rtv device.cpp"), a channel that streams video frames:    *)
(* the comm's pipe thread activates and inactivates it in ProcessData, the *)
(* driver's thread brings frames to NextFrame, the manager's thread        *)
(* deletes the channel.                                                    *)
(*                                                                         *)
(* The comm is used through what it promises (module Comm): sessions with  *)
(* fresh ids, an outbox each, one Result for each buffer that leaves it,   *)
(* all on the pipe thread or in Close, and SendData fails for a session    *)
(* that is gone or when the limit of the process's queues is reached.  A   *)
(* region run under m_hSentSafe is one action unless it calls SendData,    *)
(* which waits while Close holds m_sInitSafe.  Memory is never short.      *)
(***************************************************************************)
EXTENDS Integers, Sequences, SequencesExt, FiniteSets

CONSTANTS
  Buffers,      \* bound: the buffers in use at one time
  NULL,
  MaxSessions,  \* bound: sessions of the comm
  MaxFaults     \* bound: times Capture_Start fails or the queue is full

ASSUME RTVAssumption == NULL \notin Buffers /\ MaxSessions \in Nat

VARIABLES
  bLossless,      \* m_sChanInit.bLossless
  m_bActive, m_llId, m_bSent, m_pLastSent,
  pc,             \* where the pipe thread is
  request,        \* the request ProcessData handles
  framePc,        \* where NextFrame is
  pFrame,         \* its sData.pHead
  frameId,        \* the id it has read from m_llId to give to SendData
  deletePc,       \* where the destructor is
  outbox,         \* outbox[id]: what the comm has queued for the session id
  nextId,         \* the id of the next session
  content,        \* what is in each buffer
  nFaults,
  fresh,          \* frames taken since the last inactivation, not yet done with
  told            \* told[id]: what the session was told of its activation

channel == <<m_bActive, m_llId, m_bSent, m_pLastSent, fresh>>
thread  == <<pc, request>>
driver  == <<framePc, pFrame, frameId>>
comm    == <<outbox, nextId, content>>
rest    == <<bLossless, deletePc, nFaults, told>>
vars == <<channel, thread, driver, comm, rest>>

Ids == 0 .. MaxSessions - 1
NoRequest == [llId |-> -1, eType |-> "none", nError |-> "none"]

\* The constructor sets every field but m_llId, which may hold anything.
Init ==
  /\ bLossless \in BOOLEAN
  /\ m_bActive = FALSE /\ m_llId \in Ids \cup {-1}
  /\ m_bSent = FALSE /\ m_pLastSent = NULL
  /\ pc = "idle" /\ request = NoRequest
  /\ framePc = "idle" /\ pFrame = NULL /\ frameId = -1
  /\ deletePc = "none"
  /\ outbox = << >> /\ nextId = 0
  /\ content = [b \in Buffers |-> "free"]
  /\ nFaults = 0
  /\ fresh = {} /\ told = [id \in Ids |-> "nothing"]

-----------------------------------------------------------------------------
(* Helpers *)

\* ProcessData is in the region it runs under m_hSentSafe, or was terminated
\* there.  Mutant: left before the answer is sent.
LeftBeforeAnswer == pc \notin {"closing", "killedHolding"}
SentSafeFree == pc \notin {"closing", "respond", "killedHolding"}

\* PoolAcquire: memory nobody refers to.
Unused == {b \in Buffers : content[b] \in {"free", "lost"} /\ b # m_pLastSent}
PoolAcquire == CHOOSE b \in Unused : TRUE

Fault == nFaults < MaxFaults /\ nFaults' = nFaults + 1

\* SendData of the buffer b, filled with x.  When it fails the code never
\* releases the buffer; its name is used again once nothing refers to it.
SendData(b, x, id) ==
  \/ /\ id \in DOMAIN outbox
     /\ outbox' = [outbox EXCEPT ![id] = Append(@, b)]
     /\ content' = [content EXCEPT ![b] = x]
     /\ UNCHANGED nFaults
  \/ /\ IF id \in DOMAIN outbox THEN Fault ELSE UNCHANGED nFaults
     /\ content' = [content EXCEPT ![b] = IF x = "frame" THEN "lost" ELSE "free"]
     /\ UNCHANGED outbox
Accepted == outbox' # outbox

\* A response acquired and sent in one go.
Answer(id) == Unused # {} /\ SendData(PoolAcquire, "response", id)

\* The frame whose Result a non-lossless channel waits for.  Mutants: any
\* buffer will do; it is not recognised.
AnyOf(S) == TRUE
NoneOf(S) == FALSE
LastSentIn(S) == m_pLastSent \in S

\* Result for each buffer in S.
Results(S) ==
  /\ content' = [b \in Buffers |-> IF b \in S THEN "free" ELSE content[b]]
  /\ fresh' = fresh \ S
  /\ IF m_bSent /\ LastSentIn(S)
     THEN m_bSent' = FALSE /\ m_pLastSent' = NULL
     ELSE UNCHANGED <<m_bSent, m_pLastSent>>

\* To whom the closing response goes.  Mutant: m_llId has been reset by then.
Nobody == -1
Activator == m_llId

-----------------------------------------------------------------------------
(* The comm, on the pipe thread: sessions begin and end, outboxes empty *)

PipeThread == pc = "idle" /\ deletePc = "none"

\* Every session has an id of its own.
IdTaken == nextId + 1

SessionBegins ==
  /\ PipeThread /\ nextId < MaxSessions
  /\ outbox' = [id \in DOMAIN outbox \cup {nextId} |->
                  IF id = nextId THEN << >> ELSE outbox[id]]
  /\ nextId' = IdTaken
  /\ UNCHANGED <<channel, thread, driver, rest, content>>

SessionEnds(id) ==
  /\ PipeThread /\ id \in DOMAIN outbox
  /\ outbox' = [other \in DOMAIN outbox \ {id} |-> outbox[other]]
  /\ Results(Range(outbox[id]))
  /\ UNCHANGED <<m_bActive, m_llId, thread, driver, rest, nextId>>

\* The client has read the first message, or writing it failed.
Sent(id) ==
  /\ PipeThread /\ id \in DOMAIN outbox /\ outbox[id] # << >>
  /\ outbox' = [outbox EXCEPT ![id] = Tail(@)]
  /\ Results({Head(outbox[id])})
  /\ UNCHANGED <<m_bActive, m_llId, thread, driver, rest, nextId>>

-----------------------------------------------------------------------------
(* ProcessData, on the pipe thread *)

Request(id) == PipeThread /\ id \in DOMAIN outbox /\ Cardinality(Unused) >= 2

\* A query or a bad request: answered with no lock held.
Inform(id) ==
  /\ Request(id)
  /\ Answer(id)
  /\ UNCHANGED <<channel, thread, driver, bLossless, deletePc, told, nextId>>

Activate(id) ==
  /\ Request(id)
  /\ \/ /\ m_bActive
        /\ request' = [llId |-> id, eType |-> "eActivate", nError |-> "ALREADY_OPEN"]
        /\ UNCHANGED <<m_bActive, m_llId, nFaults>>
     \/ /\ ~m_bActive
        /\ m_bActive' = TRUE /\ m_llId' = id
        /\ request' = [llId |-> id, eType |-> "eActivate", nError |-> "none"]
        /\ UNCHANGED nFaults
     \/ /\ ~m_bActive /\ Fault               \* Capture_Start fails
        /\ request' = [llId |-> id, eType |-> "eActivate", nError |-> "DRIVER_ERROR"]
        /\ UNCHANGED <<m_bActive, m_llId>>
  /\ pc' = "respond"
  /\ UNCHANGED <<driver, comm, m_bSent, m_pLastSent, fresh, bLossless, deletePc,
                 told>>

Inactivate(id) ==
  /\ Request(id)
  /\ m_bActive' = FALSE
  /\ request' = [llId |-> id, eType |-> "eInactivate", nError |-> "none"]
  /\ pc' = "closing"
  /\ UNCHANGED <<driver, comm, rest, m_llId, m_bSent, m_pLastSent, fresh>>

InitSafeFree == deletePc = "none"

\* DEVICE_CLOSING to the session that activated, and the fields are reset.
SendClosing ==
  /\ pc = "closing" /\ InitSafeFree
  /\ Answer(Activator)
  /\ told' = IF Activator \in DOMAIN outbox
             THEN [told EXCEPT ![Activator] =
                     IF Accepted THEN "closing" ELSE "closingLost"]
             ELSE told
  /\ m_llId' = -1 /\ m_bSent' = FALSE /\ m_pLastSent' = NULL
  /\ fresh' = {}
  /\ pc' = "respond"
  /\ UNCHANGED <<driver, m_bActive, request, bLossless, deletePc, nextId>>

\* The answer; m_hSentSafe is left.
Respond ==
  /\ pc = "respond" /\ InitSafeFree
  /\ Answer(request.llId)
  /\ told' = IF request.eType = "eActivate" /\ request.nError = "none"
             THEN [told EXCEPT ![request.llId] =
                     IF Accepted THEN "active" ELSE "activeLost"]
             ELSE told
  /\ pc' = "idle" /\ request' = NoRequest
  /\ UNCHANGED <<channel, driver, bLossless, deletePc, nextId>>

-----------------------------------------------------------------------------
(* NextFrame, on the driver's thread, within m_ahCallbackSafe *)

\* Memory for the frame is taken under m_hSentSafe ..
TakeFrame ==
  /\ framePc = "idle" /\ deletePc = "none" /\ SentSafeFree
  /\ m_bActive /\ ~m_bSent
  /\ Cardinality(Unused) > 2
  /\ pFrame' = PoolAcquire
  /\ content' = [content EXCEPT ![PoolAcquire] = "frame"]
  /\ IF bLossless THEN UNCHANGED <<m_bSent, m_pLastSent>>
     ELSE m_bSent' = TRUE /\ m_pLastSent' = PoolAcquire
  /\ fresh' = fresh \cup {PoolAcquire}
  /\ framePc' = "read"
  /\ UNCHANGED <<thread, rest, m_bActive, m_llId, frameId, outbox, nextId>>

\* .. then, with no lock held, m_llId is read ..
ReadId ==
  /\ framePc = "read"
  /\ frameId' = m_llId
  /\ framePc' = "send"
  /\ UNCHANGED <<channel, thread, comm, rest, pFrame>>

\* .. and SendData is called.
SendFrame ==
  /\ framePc = "send" /\ InitSafeFree
  /\ SendData(pFrame, "frame", frameId)
  /\ framePc' = "idle" /\ pFrame' = NULL /\ frameId' = -1
  /\ UNCHANGED <<channel, thread, bLossless, deletePc, told, nextId>>

-----------------------------------------------------------------------------
(* The destructor, on the manager's thread, within m_ahCallbackSafe *)

\* Capture ends, and Close takes m_sInitSafe and tells the pipe thread to end.
DeleteBegin ==
  /\ deletePc = "none" /\ framePc = "idle"
  /\ deletePc' = "joining"
  /\ UNCHANGED <<channel, thread, driver, comm, bLossless, nFaults, told>>

DeleteJoined ==
  /\ deletePc = "joining" /\ pc = "idle"
  /\ pc' = "exited" /\ deletePc' = "clearing"
  /\ UNCHANGED <<channel, driver, comm, request, bLossless, nFaults, told>>

\* 2000 ms are over: TerminateThread, also of a thread that owns m_hSentSafe.
DeleteTimeout ==
  /\ deletePc = "joining" /\ pc \in {"closing", "respond"}
  /\ pc' = "killedHolding" /\ deletePc' = "clearing"
  /\ UNCHANGED <<channel, driver, comm, request, bLossless, nFaults, told>>

\* ClearQueue calls Result, which enters m_hSentSafe, on all that is queued.
DeleteEnd ==
  LET queued == UNION {Range(outbox[id]) : id \in DOMAIN outbox}
  IN /\ deletePc = "clearing"
     /\ queued # {} => SentSafeFree
     /\ Results(queued)
     /\ outbox' = << >>
     /\ deletePc' = "deleted"
     /\ UNCHANGED <<thread, driver, m_bActive, m_llId, nextId, bLossless, nFaults,
                    told>>

-----------------------------------------------------------------------------
Comm == SessionBegins \/ \E id \in Ids : SessionEnds(id) \/ Sent(id)
ProcessData ==
  \/ \E id \in Ids : Inform(id) \/ Activate(id) \/ Inactivate(id)
  \/ SendClosing \/ Respond
NextFrame == TakeFrame \/ ReadId \/ SendFrame
Delete == DeleteBegin \/ DeleteJoined \/ DeleteTimeout \/ DeleteEnd

Next == Comm \/ ProcessData \/ NextFrame \/ Delete

Spec == Init /\ [][Next]_vars

\* The threads run, the driver's calls return, clients read what is written to
\* them, and a deletion begun goes on.
FairSpec ==
  /\ Spec
  /\ WF_vars(SendClosing \/ Respond)
  /\ WF_vars(ReadId \/ SendFrame)
  /\ \A id \in Ids : WF_vars(Sent(id))
  /\ WF_vars(DeleteJoined \/ DeleteTimeout)
  /\ WF_vars(DeleteEnd)
=============================================================================
