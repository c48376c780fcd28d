----------------------------- MODULE PipeServer -----------------------------
(***************************************************************************)
(* CPipeServer ("named pipes.cpp"), the comm every manager and channel of  *)
(* Barst talks to its clients through: one pipe thread serves up to        *)
(* m_nMaxPipes instances of a named pipe with overlapped I/O, while device *)
(* threads queue replies with SendData and another thread may call Close.  *)
(*                                                                         *)
(* Every region the code runs under m_sPipeSafe is one action.  m_sInitSafe *)
(* is held over several steps only by Close, so "free" means closePc =     *)
(* "idle".  Named pipes, overlapped operations, clients and the process's  *)
(* other comms, which share the byte count, are external and modelled from *)
(* how the code uses them.                                                 *)
(***************************************************************************)
EXTENDS Integers, Sequences, SequencesExt, FiniteSets, FiniteSetsExt

CONSTANTS
  Pipes,          \* addresses an SPipeResource can be allocated at
  MaxPipes,       \* m_nMaxPipes; 1 for the main manager, at most 31 elsewhere
  Buffers,        \* the memory blocks devices send (SData::pHead)
  Size,           \* dwSize of each buffer
  MaxQueueBytes,  \* g_llMaxQueueBytes; negative means no limit
  OtherBytes,     \* bound: what the process's other CPipeServers may have queued
  MaxClients,     \* bound: how many times a client connects
  MaxFaults,      \* bound: how many system calls fail
  MaxInbox,       \* bound: requests waiting unread in a pipe instance
  LastInitId      \* bound: Init is called only while m_llNextId <= LastInitId

ASSUME PipeServerAssumption ==
  /\ MaxPipes \in Nat \ {0}
  /\ IsFiniteSet(Buffers)
  /\ Size \in [Buffers -> Nat \ {0}]
  /\ MaxQueueBytes \in Int /\ OtherBytes \subseteq Nat
  /\ MaxClients \in Nat /\ MaxFaults \in Nat /\ MaxInbox \in Nat
  /\ LastInitId \in Nat

VARIABLES
  m_aPipes,       \* the open instances, in the order they are waited on
  res,            \* res[p]: the SPipeResource at address p
  m_nConnected, m_llNextId, m_bWorking,
  m_hDone,        \* whether the "close" event is signalled
  bError,         \* ThreadProc's local: no further instance is created
  s_llQueueBytes, \* bytes queued by all CPipeServers, counted only under a limit
  elsewhere,      \* those the others of them have queued
  pc,             \* where the pipe thread is
  cur,            \* ThreadProc's i (from 1): the instance being handled
  closePc,        \* "waiting" while Close holds m_sInitSafe, "blocked" for ever
  os,             \* os[p]: the system's side of instance p
  nClients,       \* clients that have connected; a client's name is its number
  nFaults,
  status,         \* status[b]: what the device that owns b was last told
  served,         \* <<id, client>>: a request of client was passed on under id
  arrived,        \* <<id, client>>: client received a reply addressed to id
  refusedFor      \* whom b was for if SendData refused it last, otherwise -1

resources == <<m_aPipes, res, m_nConnected, m_llNextId, bError>>
control   == <<m_bWorking, m_hDone, pc, cur, closePc>>
system    == <<os, nClients, nFaults>>
history   == <<served, arrived>>
others  == <<elsewhere, refusedFor>>
vars == <<resources, control, system, s_llQueueBytes, status, history, others>>

-----------------------------------------------------------------------------
(* Data *)

Ids == Nat                              \* __int64, never wraps in practice
SData == [pHead : Buffers, to : Ids]    \* "to" is the llId given to SendData

ePipeStatus == {"kCreated", "kConnecting", "kReading"}

SPipeResource ==
  [eStatus : ePipeStatus, fPending : BOOLEAN, hEvent : BOOLEAN,
   hWriteEvent : BOOLEAN, fWritePending : BOOLEAN, llId : Ids,
   cWriteQueue : Seq(SData)]

NewResourceQuiet(id, signalled) ==    \* mutant: the event starts unsignalled
  [eStatus |-> "kCreated", fPending |-> FALSE, hEvent |-> FALSE,
   hWriteEvent |-> FALSE, fWritePending |-> FALSE, llId |-> id,
   cWriteQueue |-> << >>]
NewResource(id, signalled) ==
  [eStatus |-> "kCreated", fPending |-> FALSE, hEvent |-> signalled,
   hWriteEvent |-> FALSE, fWritePending |-> FALSE, llId |-> id,
   cWriteQueue |-> << >>]

ResetResource(r) ==
  [r EXCEPT !.hEvent = TRUE, !.hWriteEvent = FALSE, !.fWritePending = FALSE,
            !.fPending = FALSE, !.eStatus = "kCreated"]

\* Mutants: the event is set on every push; the event is never set; the new
\* element goes to the front.
PushAlwaysSignals(r, d) ==
  [r EXCEPT !.hWriteEvent = TRUE, !.cWriteQueue = Append(@, d)]
PushNeverSignals(r, d) == [r EXCEPT !.cWriteQueue = Append(@, d)]
PushFront(r, d) ==
  [r EXCEPT !.hWriteEvent = @ \/ r.cWriteQueue = << >>,
            !.cWriteQueue = <<d>> \o @]
\* CQueue::Push signals the queue's event only when the queue was empty.
Push(r, d) ==
  [r EXCEPT !.hWriteEvent = @ \/ r.cWriteQueue = << >>,
            !.cWriteQueue = Append(@, d)]

PopWrittenQuietly(r) == [r EXCEPT !.cWriteQueue = Tail(@)]  \* mutant
\* Front(true, ..) followed by "if (GetSize()) SetEvent(hWriteEvent)".
PopWritten(r) ==
  [r EXCEPT !.cWriteQueue = Tail(@),
            !.hWriteEvent = @ \/ Tail(r.cWriteQueue) # << >>]

BuffersIn(queue) == {queue[n].pHead : n \in DOMAIN queue}
Bytes(B) == MapThenSumSet(LAMBDA b : Size[b], B)

(* The system's side of an instance.  link: "none" no such handle, "avail" *)
(* a client can connect, "off" disconnected and not listening, "open"      *)
(* connected, "broken" the client has closed its end.  readIo and writeIo  *)
(* are the operations on oOverlap and oWriteOverlap.                       *)
Instance ==
  [link : {"none", "avail", "off", "open", "broken"}, client : Nat,
   readIo : {"idle", "pending", "ok", "failed"},
   writeIo : {"idle", "pending", "ok", "failed"},
   inbox : Seq({"request", "oversized"})]

Unlinked(link) == [link |-> link, client |-> 0, readIo |-> "idle",
                   writeIo |-> "idle", inbox |-> << >>]

Init ==
  /\ m_aPipes = << >>
  /\ res = [p \in Pipes |-> NewResource(0, FALSE)]
  /\ m_nConnected = 0 /\ m_llNextId = 0 /\ bError = FALSE
  /\ m_bWorking = FALSE /\ m_hDone = FALSE
  /\ pc = "none" /\ cur = 0 /\ closePc = "idle"
  /\ os = [p \in Pipes |-> Unlinked("none")]
  /\ nClients = 0 /\ nFaults = 0
  /\ s_llQueueBytes = 0 /\ elsewhere = 0
  /\ status = [b \in Buffers |-> "idle"]
  /\ served = {} /\ arrived = {}
  /\ refusedFor = [b \in Buffers |-> -1]

-----------------------------------------------------------------------------
(* Helpers shared by the actions *)

Fault == nFaults < MaxFaults /\ nFaults' = nFaults + 1

\* ClearQueue and its kin: Result(pHead, bPass) on a set of buffers.
Result(B, bPass) ==
  status' = [b \in Buffers |->
    IF b \in B THEN (IF bPass THEN "passed" ELSE "failed") ELSE status[b]]

Limited == MaxQueueBytes >= 0
DecreaseQueueByCount(B) ==                        \* mutant: entries, not bytes
  s_llQueueBytes' =
    IF Limited THEN s_llQueueBytes - Cardinality(B) ELSE s_llQueueBytes
DecreaseQueue(B) ==
  s_llQueueBytes' = IF Limited THEN s_llQueueBytes - Bytes(B) ELSE s_llQueueBytes

GoTo(label) == pc' = label /\ UNCHANGED <<m_bWorking, m_hDone, closePc>>
NextIteration == GoTo("top") /\ cur' = 0

\* "m_llNextId++"
IdKept == m_llNextId                              \* mutant
IdTaken == m_llNextId + 1

Erase(i) == RemoveAt(m_aPipes, i)

ConnectedStill(r) == m_nConnected                 \* mutant: "--" forgotten
ConnectedAfter(r) ==
  IF r.eStatus = "kReading" THEN m_nConnected - 1 ELSE m_nConnected

\* m_nMaxPipes = 1: the instance is reset and gets a new id; its queue is
\* cleared only if a client was connected.  (Result comes before the pipe is
\* disconnected, so a client whose message was too long may still take the
\* reply just given back: one step here, all under m_sPipeSafe.)
NothingCleared(r) == {}                           \* mutant
Cleared(r) ==
  IF r.eStatus = "kReading" THEN BuffersIn(r.cWriteQueue) ELSE {}

ResetInstance(p) ==
  /\ MaxPipes = 1
  /\ res' = [res EXCEPT ![p] =
       [ResetResource(res[p]) EXCEPT !.llId = m_llNextId,
          !.cWriteQueue =
            IF res[p].eStatus = "kReading" THEN << >> ELSE res[p].cWriteQueue]]
  /\ m_llNextId' = IdTaken
  /\ os' = [os EXCEPT ![p] = Unlinked("off")]
  /\ Result(Cleared(res[p]), FALSE) /\ DecreaseQueue(Cleared(res[p]))
  /\ UNCHANGED <<m_aPipes, m_nConnected, bError>>

\* Otherwise it is deleted.
DeleteInstance(i) ==
  LET p == m_aPipes[i]
      queued == BuffersIn(res[p].cWriteQueue)
  IN /\ MaxPipes > 1
     /\ m_aPipes' = Erase(i)
     /\ res' = [res EXCEPT ![p] = NewResource(0, FALSE)]
     /\ os' = [os EXCEPT ![p] = Unlinked("none")]
     /\ m_nConnected' = ConnectedAfter(res[p])
     /\ Result(queued, FALSE) /\ DecreaseQueue(queued)
     /\ UNCHANGED <<m_llNextId, bError>>

\* The instance's connect or read failed.
DropInstance(i) == ResetInstance(m_aPipes[i]) \/ DeleteInstance(i)

-----------------------------------------------------------------------------
(* Init: first instance, its ConnectNamedPipe, and the pipe thread.        *)

\* A client may find the new instance before ConnectNamedPipe is called, and
\* may have left again by then.
FirstLink(c) == {Unlinked("avail"),
                 [Unlinked("open") EXCEPT !.client = c],
                 [Unlinked("broken") EXCEPT !.client = c]}

InitComm(p) ==
  /\ closePc = "idle" /\ pc = "none" /\ ~m_bWorking
  /\ m_llNextId <= LastInitId
  /\ os[p].link = "none"
  /\ \E o \in FirstLink(nClients + 1) :
       LET r == NewResource(m_llNextId, FALSE)
       IN /\ o.client > 0 => nClients < MaxClients
          /\ nClients' = IF o.client > 0 THEN nClients + 1 ELSE nClients
          /\ \/ /\ o.link = "avail"               \* ERROR_IO_PENDING
                /\ res' = [res EXCEPT ![p] =
                     [r EXCEPT !.fPending = TRUE, !.eStatus = "kConnecting"]]
                /\ os' = [os EXCEPT ![p] = [o EXCEPT !.readIo = "pending"]]
                /\ m_llNextId' = IdTaken
             \/ /\ o.link = "open"                \* ERROR_PIPE_CONNECTED
                /\ res' = [res EXCEPT ![p] =
                     [r EXCEPT !.hEvent = TRUE, !.eStatus = "kConnecting"]]
                /\ os' = [os EXCEPT ![p] = o]
                /\ m_llNextId' = IdTaken
             \/ /\ o.link = "broken"              \* any other error
                /\ res' = [res EXCEPT ![p] =
                     [ResetResource(r) EXCEPT !.llId = m_llNextId + 1]]
                /\ os' = [os EXCEPT ![p] = Unlinked("off")]
                /\ m_llNextId' = m_llNextId + 2
  /\ m_aPipes' = <<p>>
  /\ m_bWorking' = TRUE /\ m_hDone' = FALSE
  /\ pc' = "top" /\ cur' = 0
  /\ m_nConnected' = 0 /\ bError' = FALSE        \* ThreadProc's first lines
  /\ UNCHANGED <<closePc, nFaults, s_llQueueBytes, status, history, others>>

\* No pipe resource, or (after the id was taken) no thread: Init calls Close.
InitCommFails ==
  /\ closePc = "idle" /\ pc = "none" /\ ~m_bWorking
  /\ m_llNextId <= LastInitId
  /\ Fault
  /\ m_llNextId' \in {m_llNextId, m_llNextId + 1}
  /\ UNCHANGED <<m_aPipes, res, m_nConnected, bError, control, os, nClients,
                 s_llQueueBytes, status, history, others>>

-----------------------------------------------------------------------------
(* ThreadProc *)

\* All instances are taken: open one more, unless that failed once.
AddInstance ==
  /\ pc = "top"
  /\ m_nConnected = Len(m_aPipes) /\ Len(m_aPipes) < MaxPipes /\ ~bError
  /\ \/ \E p \in Pipes :
          /\ os[p].link = "none"
          /\ res' = [res EXCEPT ![p] = NewResource(m_llNextId, TRUE)]
          /\ os' = [os EXCEPT ![p] = Unlinked("avail")]
          /\ m_aPipes' = Append(m_aPipes, p)
          /\ m_llNextId' = IdTaken
          /\ UNCHANGED <<bError, nFaults>>
     \/ /\ Fault
        /\ bError' = TRUE
        /\ UNCHANGED <<m_aPipes, res, m_llNextId, os>>
  /\ GoTo("wait")
  /\ UNCHANGED <<cur, m_nConnected, nClients, s_llQueueBytes, status, history>>

KeepInstances ==
  /\ pc = "top"
  /\ ~(m_nConnected = Len(m_aPipes) /\ Len(m_aPipes) < MaxPipes /\ ~bError)
  /\ GoTo("wait")
  /\ UNCHANGED <<cur, resources, system, s_llQueueBytes, status, history>>

Signalled(i) == res[m_aPipes[i]].hEvent \/ res[m_aPipes[i]].hWriteEvent

\* WaitForMultipleObjects returns the signalled event of lowest index:
\* m_hDone, then each instance's hEvent and hWriteEvent in turn.
WaitDone ==
  /\ pc = "wait" /\ m_hDone
  /\ GoTo("exited")
  /\ UNCHANGED <<cur, resources, system, s_llQueueBytes, status, history>>

WaitEvent ==
  /\ pc = "wait" /\ ~m_hDone
  /\ \E i \in DOMAIN m_aPipes :
       /\ Signalled(i)
       /\ \A j \in 1 .. i - 1 : ~Signalled(j)
       /\ cur' = i
       /\ GoTo(IF res[m_aPipes[i]].hEvent THEN "onEvent" ELSE "onWrite")
  /\ UNCHANGED <<resources, system, s_llQueueBytes, status, history>>

\* case kCreated: ConnectNamedPipe
OnCreated ==
  LET p == m_aPipes[cur]
      r == [res[p] EXCEPT !.hEvent = FALSE]
  IN /\ pc = "onEvent" /\ r.eStatus = "kCreated"
     /\ NextIteration
     /\ \/ /\ os[p].link \in {"avail", "off"}     \* ERROR_IO_PENDING
           /\ res' = [res EXCEPT ![p] =
                [r EXCEPT !.fPending = TRUE, !.eStatus = "kConnecting"]]
           /\ os' = [os EXCEPT ![p].link = "avail", ![p].readIo = "pending"]
           /\ UNCHANGED <<m_aPipes, m_nConnected, m_llNextId, bError, nFaults,
                          status, s_llQueueBytes>>
        \/ /\ os[p].link = "open"                 \* ERROR_PIPE_CONNECTED
           /\ res' = [res EXCEPT ![p] =
                [r EXCEPT !.fPending = FALSE, !.hEvent = TRUE,
                          !.eStatus = "kConnecting"]]
           /\ UNCHANGED <<m_aPipes, m_nConnected, m_llNextId, bError, os,
                          nFaults, status, s_llQueueBytes>>
        \/ /\ IF os[p].link = "broken" THEN UNCHANGED nFaults ELSE Fault
           /\ DropInstance(cur)
     /\ UNCHANGED <<nClients, history>>

\* case kConnecting
OnConnecting ==
  LET p == m_aPipes[cur]
      r == [res[p] EXCEPT !.hEvent = FALSE]
  IN /\ pc = "onEvent" /\ r.eStatus = "kConnecting"
     /\ NextIteration
     /\ \/ /\ r.fPending /\ os[p].readIo # "ok"   \* GetOverlappedResult fails
           /\ DropInstance(cur)
        \/ /\ r.fPending => os[p].readIo = "ok"
           /\ res' = [res EXCEPT ![p] =
                [r EXCEPT !.fPending = FALSE, !.eStatus = "kReading",
                          !.hEvent = TRUE]]
           /\ m_nConnected' = m_nConnected + 1
           /\ os' = [os EXCEPT ![p].readIo = "idle"]
           /\ UNCHANGED <<m_aPipes, m_llNextId, bError, status, s_llQueueBytes>>
     /\ UNCHANGED <<nClients, nFaults, history>>

\* The request is handed to m_pcDevice->ProcessData outside m_sPipeSafe.
CallProcessData(p) ==
  /\ served' = served \cup {<<res[p].llId, os[p].client>>}
  /\ GoTo("process")
  /\ UNCHANGED <<cur, arrived>>

\* ReadFile, from r, the resource as the handler has left it so far.
ReadNext(p, r) ==
  \/ /\ os[p].inbox # << >> /\ Head(os[p].inbox) = "request"  \* read at once
     /\ os' = [os EXCEPT ![p].inbox = Tail(@)]
     /\ res' = [res EXCEPT ![p] = [r EXCEPT !.hEvent = TRUE]]
     /\ CallProcessData(p)
     /\ UNCHANGED <<m_aPipes, m_nConnected, m_llNextId, bError, status,
                    s_llQueueBytes>>
  \/ /\ os[p].inbox = << >> /\ os[p].link = "open"            \* ERROR_IO_PENDING
     /\ os' = [os EXCEPT ![p].readIo = "pending"]
     /\ res' = [res EXCEPT ![p] = [r EXCEPT !.fPending = TRUE, !.hEvent = FALSE]]
     /\ NextIteration
     /\ UNCHANGED <<m_aPipes, m_nConnected, m_llNextId, bError, status,
                    s_llQueueBytes, history>>
  \/ /\ IF os[p].inbox = << >> THEN os[p].link # "open"       \* any other error
                               ELSE Head(os[p].inbox) = "oversized"
     /\ DropInstance(cur)
     /\ NextIteration
     /\ UNCHANGED history

\* case kReading: a pending read has ended, or it is time to start one
OnReading ==
  LET p == m_aPipes[cur]
      r == [res[p] EXCEPT !.hEvent = FALSE]
  IN /\ pc = "onEvent" /\ r.eStatus = "kReading"
     /\ \/ /\ r.fPending /\ os[p].readIo = "ok"
           /\ res' = [res EXCEPT ![p] = r]
           /\ os' = [os EXCEPT ![p].readIo = "idle"]
           /\ CallProcessData(p)
           /\ UNCHANGED <<m_aPipes, m_nConnected, m_llNextId, bError, status,
                          s_llQueueBytes>>
        \/ /\ r.fPending /\ os[p].readIo # "ok"
           /\ DropInstance(cur)
           /\ NextIteration
           /\ UNCHANGED history
        \/ ~r.fPending /\ ReadNext(p, r)
     /\ UNCHANGED <<nClients, nFaults>>

\* ProcessData returns.  After a pending read (fPending is still TRUE) the
\* next ReadFile follows; after an immediate one, hEvent is set to read again.
ProcessReturn ==
  LET p == m_aPipes[cur]
      r == res[p]
  IN /\ pc = "process"
     /\ \/ r.fPending /\ ReadNext(p, [r EXCEPT !.fPending = FALSE])
        \/ /\ ~r.fPending
           /\ res' = [res EXCEPT ![p].hEvent = TRUE]
           /\ NextIteration
           /\ UNCHANGED <<m_aPipes, m_nConnected, m_llNextId, bError, os,
                          status, s_llQueueBytes, history>>
     /\ UNCHANGED <<nClients, nFaults>>

\* GetOverlappedResult(..) on the finished write.
WritePassed(p) == os[p].writeIo = "ok"

\* hWriteEvent: finish the write that was pending, or write the next reply.
OnWrite ==
  LET p == m_aPipes[cur]
      r == [res[p] EXCEPT !.hWriteEvent = FALSE]
      d == Head(r.cWriteQueue)
      Finish(q, bPass) ==
        /\ res' = [res EXCEPT ![p] = PopWritten([q EXCEPT !.fWritePending = FALSE])]
        /\ Result({d.pHead}, bPass)
        /\ DecreaseQueue({d.pHead})
  IN /\ pc = "onWrite"
     /\ NextIteration
     /\ \/ /\ r.cWriteQueue = << >>
           /\ res' = [res EXCEPT ![p] = [r EXCEPT !.fWritePending = FALSE]]
           /\ UNCHANGED <<os, status, s_llQueueBytes, arrived>>
        \/ /\ r.cWriteQueue # << >> /\ r.fWritePending
           /\ Finish(r, WritePassed(p))
           /\ os' = [os EXCEPT ![p].writeIo = "idle"]
           /\ UNCHANGED arrived
        \/ /\ r.cWriteQueue # << >> /\ ~r.fWritePending
           /\ \/ /\ os[p].link = "open"           \* written at once
                 /\ Finish([r EXCEPT !.hWriteEvent = TRUE], TRUE)
                 /\ arrived' = arrived \cup {<<d.to, os[p].client>>}
                 /\ UNCHANGED os
              \/ /\ os[p].link = "open"           \* ERROR_IO_PENDING
                 /\ res' = [res EXCEPT ![p] = [r EXCEPT !.fWritePending = TRUE]]
                 /\ os' = [os EXCEPT ![p].writeIo = "pending"]
                 /\ UNCHANGED <<status, s_llQueueBytes, arrived>>
              \/ /\ os[p].link # "open"           \* any other error
                 /\ Finish(r, FALSE)
                 /\ UNCHANGED <<os, arrived>>
     /\ UNCHANGED <<m_aPipes, m_nConnected, m_llNextId, bError, nClients,
                    nFaults, served>>

-----------------------------------------------------------------------------
(* SendData(pData, llId).  A device knows only ids ProcessData gave it and *)
(* leaves a buffer alone until the comm has called Result on it.           *)

KnownIds == {s[1] : s \in served}
DeviceOwned(b) == status[b] # "held"

Room(b) == Limited => s_llQueueBytes + Size[b] <= MaxQueueBytes
Addressees(id) == {p \in Range(m_aPipes) : res[p].llId = id}

SendData(b, id) ==
  /\ closePc = "idle"                             \* m_sInitSafe is free
  /\ DeviceOwned(b)
  /\ \/ \E p \in Addressees(id) :
          /\ m_bWorking /\ Room(b)
          /\ res' = [res EXCEPT ![p] = Push(@, [pHead |-> b, to |-> id])]
          /\ s_llQueueBytes' =
               IF Limited THEN s_llQueueBytes + Size[b] ELSE s_llQueueBytes
          /\ status' = [status EXCEPT ![b] = "held"]
          /\ refusedFor' = [refusedFor EXCEPT ![b] = -1]
     \/ /\ ~m_bWorking \/ Addressees(id) = {} \/ ~Room(b)
        /\ status' = [status EXCEPT ![b] = "refused"]
        /\ refusedFor' = [refusedFor EXCEPT ![b] = id]
        /\ UNCHANGED <<res, s_llQueueBytes>>
  /\ UNCHANGED <<m_aPipes, m_nConnected, m_llNextId, bError, system, history>>

\* From a device's own thread.
DeviceSend ==
  /\ \E b \in Buffers, id \in KnownIds : SendData(b, id)
  /\ UNCHANGED <<control, elsewhere>>

\* From ProcessData, on the pipe thread: it first has to get m_sInitSafe.
ProcessSends ==
  /\ pc = "process"
  /\ GoTo("sending")
  /\ UNCHANGED <<cur, resources, system, s_llQueueBytes, status, history>>

ProcessSent ==
  /\ pc = "sending"
  /\ \/ \E b \in Buffers : SendData(b, res[m_aPipes[cur]].llId)
     \/ /\ closePc = "idle" /\ \A b \in Buffers : ~DeviceOwned(b)
        /\ UNCHANGED <<resources, system, s_llQueueBytes, status, history, refusedFor>>
  /\ GoTo("process")
  /\ UNCHANGED cur

-----------------------------------------------------------------------------
(* Close *)

CloseBegin ==
  /\ closePc = "idle" /\ pc # "none"
  /\ closePc' = "waiting"
  /\ m_bWorking' = FALSE
  /\ m_hDone' = TRUE
  /\ UNCHANGED <<pc, cur, resources, system, s_llQueueBytes, status, history>>

QueuedInFirst ==                                  \* mutant: only one cleared
  IF m_aPipes = << >> THEN {} ELSE BuffersIn(res[m_aPipes[1]].cWriteQueue)
StillQueued == UNION {BuffersIn(res[p].cWriteQueue) : p \in Range(m_aPipes)}

\* The thread has exited, or did not within 2000 ms and is terminated; then
\* every queue is cleared and every instance deleted.
CloseEnd ==
  /\ closePc = "waiting"
  /\ Result(StillQueued, FALSE) /\ DecreaseQueue(StillQueued)
  /\ res' = [p \in Pipes |-> NewResource(0, FALSE)]
  /\ os' = [p \in Pipes |-> Unlinked("none")]
  /\ m_aPipes' = << >>
  /\ closePc' = "idle" /\ pc' = "none" /\ cur' = 0 /\ m_hDone' = FALSE
  /\ UNCHANGED <<m_bWorking, m_nConnected, m_llNextId, bError, nClients,
                 nFaults, history>>

CloseJoined  == pc = "exited" /\ CloseEnd
CloseTimeout == pc # "exited" /\ CloseEnd

\* The thread was terminated while it owned s_hLimitSafe, which DecreaseQueue
\* enters, or a lock of its device, which Result does: Close never returns, and
\* m_sInitSafe is never free again.
CloseBlocks ==
  /\ closePc = "waiting" /\ pc \in {"onEvent", "onWrite", "process", "sending"}
  /\ Limited \/ StillQueued # {}
  /\ closePc' = "blocked"
  /\ UNCHANGED <<m_bWorking, m_hDone, pc, cur, resources, system,
                 s_llQueueBytes, status, history>>

-----------------------------------------------------------------------------
(* Clients and the system *)

ClientConnect(p) ==
  /\ os[p].link = "avail" /\ nClients < MaxClients
  /\ nClients' = nClients + 1
  /\ LET listening == os[p].readIo = "pending"
     IN /\ os' = [os EXCEPT ![p].link = "open", ![p].client = nClients + 1,
                            ![p].readIo = IF listening THEN "ok" ELSE @]
        /\ res' = [res EXCEPT ![p].hEvent = @ \/ listening]
  /\ UNCHANGED <<m_aPipes, m_nConnected, m_llNextId, bError, control, nFaults,
                 s_llQueueBytes, status, history>>

\* A message longer than m_dwBuffSizeIn makes the server's read fail.
ClientWrite(p) ==
  /\ os[p].link = "open"
  /\ \E m \in {"request", "oversized"} :
       \/ /\ os[p].readIo = "pending"
          /\ os' = [os EXCEPT ![p].readIo =
                      IF m = "request" THEN "ok" ELSE "failed"]
          /\ res' = [res EXCEPT ![p].hEvent = TRUE]
       \/ /\ os[p].readIo # "pending" /\ Len(os[p].inbox) < MaxInbox
          /\ os' = [os EXCEPT ![p].inbox = Append(@, m)]
          /\ UNCHANGED res
  /\ UNCHANGED <<m_aPipes, m_nConnected, m_llNextId, bError, control, nClients,
                 nFaults, s_llQueueBytes, status, history>>

\* The client takes the reply a pending write is waiting with.
ClientRead(p) ==
  /\ os[p].link = "open" /\ os[p].writeIo = "pending"
  /\ os' = [os EXCEPT ![p].writeIo = "ok"]
  /\ res' = [res EXCEPT ![p].hWriteEvent = TRUE]
  /\ arrived' = arrived \cup
       {<<Head(res[p].cWriteQueue).to, os[p].client>>}
  /\ UNCHANGED <<m_aPipes, m_nConnected, m_llNextId, bError, control, nClients,
                 nFaults, s_llQueueBytes, status, served>>

Ended(io) == IF io = "pending" THEN "failed" ELSE io

\* The client closes its end: pending operations fail and signal.
ClientClose(p) ==
  /\ os[p].link = "open"
  /\ os' = [os EXCEPT ![p].link = "broken", ![p].readIo = Ended(@),
                      ![p].writeIo = Ended(@)]
  /\ res' = [res EXCEPT
       ![p].hEvent = @ \/ os[p].readIo = "pending",
       ![p].hWriteEvent = @ \/ os[p].writeIo = "pending"]
  /\ UNCHANGED <<m_aPipes, m_nConnected, m_llNextId, bError, control, nClients,
                 nFaults, s_llQueueBytes, status, history>>

\* A pending connect ends with an error.
ConnectFails(p) ==
  /\ os[p].link = "avail" /\ os[p].readIo = "pending"
  /\ Fault
  /\ os' = [os EXCEPT ![p].readIo = "failed"]
  /\ res' = [res EXCEPT ![p].hEvent = TRUE]
  /\ UNCHANGED <<m_aPipes, m_nConnected, m_llNextId, bError, control, nClients,
                 s_llQueueBytes, status, history, others>>

-----------------------------------------------------------------------------
PipeThread ==
  /\ closePc # "blocked"
  /\ \/ ProcessSent
     \/ /\ \/ AddInstance \/ KeepInstances \/ WaitDone \/ WaitEvent
           \/ OnCreated \/ OnConnecting \/ OnReading \/ OnWrite
           \/ ProcessSends \/ ProcessReturn
        /\ UNCHANGED refusedFor
  /\ UNCHANGED elsewhere

Closing == CloseJoined \/ CloseTimeout \/ CloseBlocks
Closer == (CloseBegin \/ Closing) /\ UNCHANGED others

Client(p) ==
  /\ ClientConnect(p) \/ ClientWrite(p) \/ ClientRead(p) \/ ClientClose(p)
  /\ UNCHANGED others

\* The other CPipeServers of the process count their bytes in the same variable.
OtherComms ==
  /\ Limited
  /\ elsewhere' \in OtherBytes
  /\ s_llQueueBytes' = s_llQueueBytes - elsewhere + elsewhere'
  /\ elsewhere' > elsewhere => s_llQueueBytes' <= MaxQueueBytes
  /\ UNCHANGED <<resources, control, system, status, history, refusedFor>>

Next ==
  \/ \E p \in Pipes : InitComm(p)
  \/ InitCommFails
  \/ PipeThread
  \/ DeviceSend
  \/ Closer
  \/ \E p \in Pipes : Client(p) \/ ConnectFails(p)
  \/ OtherComms

Spec == Init /\ [][Next]_vars

(* The pipe thread and a Close in progress keep running, ProcessData       *)
(* returns after finitely many calls, and connected clients take the       *)
(* replies the server is waiting to write.  Nothing forces clients,        *)
(* devices or Close to act.                                                *)
Fairness ==
  /\ WF_vars(PipeThread)
  /\ SF_vars(PipeThread /\ ProcessReturn)
  /\ WF_vars(Closing /\ UNCHANGED others)
  /\ \A p \in Pipes : WF_vars(ClientRead(p) /\ UNCHANGED others)

FairSpec == Spec /\ Fairness
=============================================================================
