--------------------------- MODULE PipeServerProps ---------------------------
(***************************************************************************)
(* What must hold of CPipeServer, and what it promises as a CComm.         *)
(***************************************************************************)
EXTENDS PipeServer

OpenPipes == Range(m_aPipes)

\* The state has its type (s_llQueueBytes: see BytesAccounted), m_aPipes lists
\* each open handle once and no closed one, none when there is no thread, and
\* the thread handles an instance that is in it.
TypeOK ==
  /\ m_aPipes \in Seq(Pipes) /\ IsInjective(m_aPipes)
  /\ res \in [Pipes -> SPipeResource]
  /\ m_nConnected \in Int /\ m_llNextId \in Ids
  /\ m_bWorking \in BOOLEAN /\ m_hDone \in BOOLEAN /\ bError \in BOOLEAN
  /\ pc \in {"none", "top", "wait", "onEvent", "onWrite", "process", "sending",
             "exited"}
  /\ IF pc \in {"onEvent", "onWrite", "process", "sending"}
     THEN cur \in DOMAIN m_aPipes ELSE cur = 0
  /\ closePc \in {"idle", "waiting", "blocked"}
  /\ os \in [Pipes -> Instance]
  /\ OpenPipes = {p \in Pipes : os[p].link # "none"}
  /\ pc = "none" => m_aPipes = << >>
  /\ nClients \in Nat /\ nFaults \in Nat
  /\ status \in [Buffers -> {"idle", "held", "passed", "failed", "refused"}]
  /\ served \subseteq Ids \X Nat /\ arrived \subseteq Ids \X Nat

-----------------------------------------------------------------------------
(* Isolation of clients: "so that we won't get data from previous user".   *)

\* No id is ever used for requests of two clients, and whatever a client
\* receives was addressed to the id its own requests were passed on under.
\* (llId is unique and incremented with each user that connects.)
UniqueUser == \A s, t \in served : s[1] = t[1] => s[2] = t[2]
RepliesReachTheirAsker == UniqueUser /\ arrived \subseteq served

-----------------------------------------------------------------------------
(* Ownership of buffers: pHead is the comm's from SendData until Result.   *)

Positions == UNION {{p} \X DOMAIN res[p].cWriteQueue : p \in OpenPipes}
Queued(pos) == res[pos[1]].cWriteQueue[pos[2]].pHead

\* A buffer the comm accepted and has not reported on is in exactly one
\* place of one queue, and a queue holds no other buffer: no reply is lost or
\* reported twice.
HeldOnce ==
  /\ \A a, b \in Positions : Queued(a) = Queued(b) => a = b
  /\ {Queued(a) : a \in Positions} = {b \in Buffers : status[b] = "held"}

\* s_llQueueBytes is what the queues of this comm and those of the others hold
\* and never more than the limit, whichever of the ways out (written, dropped,
\* closed) an entry has taken.
BytesAccounted ==
  /\ s_llQueueBytes =
       IF Limited THEN Bytes({b \in Buffers : status[b] = "held"}) + elsewhere ELSE 0
  /\ Limited => s_llQueueBytes <= MaxQueueBytes

-----------------------------------------------------------------------------
(* Events: the thread sleeps on them, so a lost one is never made up for.  *)

Handling(p) == cur > 0 /\ m_aPipes[cur] = p

\* A queue with entries has its event signalled, a write under way, or the
\* thread about to look at it.
WriteNotForgotten ==
  m_bWorking => \A p \in OpenPipes :
    res[p].cWriteQueue # << >> =>
      \/ res[p].hWriteEvent
      \/ os[p].writeIo = "pending"
      \/ pc = "onWrite" /\ Handling(p)

\* Every instance is connecting, reading, signalled or being handled.
ReadNotForgotten ==
  \A p \in OpenPipes :
    \/ res[p].hEvent
    \/ os[p].readIo = "pending"
    \/ Handling(p) /\ pc # "onWrite"

\* oOverlap and oWriteOverlap serve one operation at a time, and an
\* operation is taken for finished only when it is: the write event has a
\* second meaning (the queue's), so a signal for one could be read as the
\* other and a buffer still being written would be given back.
OverlappedInStep ==
  \A p \in OpenPipes :
    /\ os[p].writeIo # "idle" => res[p].fWritePending /\ res[p].cWriteQueue # << >>
    /\ res[p].fWritePending /\ os[p].writeIo = "pending" =>
         ~res[p].hWriteEvent /\ ~(pc = "onWrite" /\ Handling(p))
    /\ os[p].readIo = "pending" =>
         res[p].fPending /\ ~res[p].hEvent /\ ~(pc = "onEvent" /\ Handling(p))

-----------------------------------------------------------------------------
(* Instances and life cycle *)

\* With several instances allowed, m_nConnected counts those with a client;
\* and unless creating one has failed or the maximum is reached, the thread
\* never goes to sleep without an instance the next client can connect to.
NextClientCanConnect ==
  MaxPipes > 1 /\ pc = "wait" =>
    /\ m_nConnected =
         Cardinality({p \in OpenPipes : res[p].eStatus = "kReading"})
    /\ \/ bError \/ Len(m_aPipes) = MaxPipes
       \/ \E p \in OpenPipes : res[p].eStatus # "kReading"

\* Close returns the comm to its original state: no thread, no instance, no
\* buffer kept; and it waits for the thread, or ends it, before that.
ClosedIsClean ==
  ~m_bWorking /\ closePc = "idle" =>
    /\ pc = "none" /\ m_aPipes = << >>
    /\ Limited => s_llQueueBytes = elsewhere
    /\ \A b \in Buffers : status[b] # "held"

-----------------------------------------------------------------------------
(* Liveness *)

Idle == pc = "wait" /\ \A p \in OpenPipes : ~res[p].hEvent /\ ~res[p].hWriteEvent

\* The lowest signalled event is served first, so a client that never stops
\* writing starves its own replies and the instances after its own.  Unless
\* the thread is saturated like that, or Close hangs, every accepted buffer is
\* reported on.
RepliesFinish ==
  []<>((Idle \/ pc = "none") /\ closePc # "blocked") =>
    \A b \in Buffers : status[b] = "held" ~> status[b] # "held"

-----------------------------------------------------------------------------
(* CPipeServer implements the comm of "base classses.h". *)

PipeOf(id) == CHOOSE p \in OpenPipes : res[p].llId = id
LiveIds == {res[p].llId : p \in OpenPipes}

\* The buffers of a queue in their order, whether the user has the first of them,
\* and what the connection says of the user.
Order(queue) == [n \in DOMAIN queue |-> queue[n].pHead]
Received(o) == o.writeIo = "ok"
Presence(link) ==
  CASE link = "open" -> "online" [] link = "broken" -> "left" [] OTHER -> "awaited"

Outbox == [id \in LiveIds |-> Order(res[PipeOf(id)].cWriteQueue)]
Sent == [id \in LiveIds |-> Received(os[PipeOf(id)])]
User == [id \in LiveIds |-> Presence(os[PipeOf(id)].link)]

Promise == INSTANCE Comm WITH
  outbox <- Outbox, sent <- Sent, user <- User,
  nextId <- m_llNextId, working <- m_bWorking

\* Replies of a session are written in the order sent and reported in that
\* order, TRUE exactly when the client got them or could no longer get them
\* otherwise; ids are never taken up again; SendData fails only if the session
\* asked for is gone, the comm is closed, or the bytes queued here and elsewhere
\* leave no room (which it tells its caller, though "named pipes.h" calls such
\* data discarded without error).
ImplementsComm == Promise!Spec
=============================================================================
