------------------------- MODULE PipeSessionProofs --------------------------
(***************************************************************************)
(* CPipeServer keeps the sessions of its clients apart: the inductive      *)
(* invariant behind TypeOK and RepliesReachTheirAsker, and its proof.      *)
(***************************************************************************)
EXTENDS PipeServerProofs

-----------------------------------------------------------------------------
(* The invariant *)

\* Before a client has connected there is no read, and no connect that has
\* ended well or that nobody waits for.
Awaited(r, o) ==
  o.link \in {"avail", "off"} =>
    /\ r.eStatus # "kReading" /\ o.readIo # "ok"
    /\ r.eStatus = "kConnecting" => r.fPending

\* While p has a handle: its id has been given out; a write under way is of
\* an entry still queued and the thread remembers it; all that is queued
\* answers requests of its present client; whoever was served under its id is
\* that client, who has been accepted; nothing is queued before that.
Session(p) ==
  os[p].link # "none" =>
    /\ res[p].llId < m_llNextId
    /\ os[p].writeIo # "idle" =>
         res[p].fWritePending /\ res[p].cWriteQueue # << >>
    /\ \A n \in DOMAIN res[p].cWriteQueue :
         <<res[p].cWriteQueue[n].to, os[p].client>> \in served
    /\ \A s \in served : s[1] = res[p].llId =>
         s[2] = os[p].client /\ res[p].eStatus = "kReading"
    /\ res[p].eStatus # "kReading" => res[p].cWriteQueue = << >>
    /\ Awaited(res[p], os[p])

IdsDistinct == \A p, q \in Pipes :
  /\ os[p].link # "none" /\ os[q].link # "none"
  /\ res[p].llId = res[q].llId
  => p = q

ServedBefore == \A s \in served : s[1] < m_llNextId

\* While ProcessData runs, its client is one that was served.
Handled == <<res[m_aPipes[cur]].llId, os[m_aPipes[cur]].client>>
ThreadServed == pc \in {"process", "sending"} => Handled \in served

Sessions == (\A p \in Pipes : Session(p)) /\ IdsDistinct /\ ServedBefore

IInv == TypeOK /\ Sessions /\ ThreadServed /\ RepliesReachTheirAsker

\* IInv holds before InitCommunication has created an instance.
LEMMA InitIInv == Init => IInv
<1> SUFFICES ASSUME Init PROVE IInv
  OBVIOUS
<1>1. \A p \in Pipes : os[p].link = "none"
  BY DEF Init, Unlinked
<1>2. served = {} /\ arrived = {} /\ pc = "none"
  BY DEF Init
<1>3. Sessions
  BY <1>1, <1>2 DEF Sessions, Session, IdsDistinct, ServedBefore
<1>4. QED
  BY <1>2, <1>3, InitTypeOK DEF IInv, ThreadServed, RepliesReachTheirAsker, UniqueUser

-----------------------------------------------------------------------------
(* What each step makes of the instance it is about *)

\* A new or reset instance: a fresh id, nothing queued, nobody served.
Fresh(r, o) ==
  /\ r.llId \in m_llNextId .. m_llNextId' - 1
  /\ r.cWriteQueue = << >> /\ r.eStatus # "kReading"
  /\ o.writeIo = "idle" /\ o.link \in {"avail", "off", "open"} /\ Awaited(r, o)

OpeningOf(p) ==
  \E r, o : /\ res' = [res EXCEPT ![p] = r] /\ os' = [os EXCEPT ![p] = o]
            /\ Fresh(r, o)

\* The first instance of InitCommunication opens an empty session.
LEMMA InitCommOpens ==
  ASSUME TypeOK, NEW p \in Pipes, InitComm(p) PROVE OpeningOf(p)
<1> DEFINE r == NewResource(m_llNextId, FALSE)
           r1 == [r EXCEPT !.fPending = TRUE, !.eStatus = "kConnecting"]
           r2 == [r EXCEPT !.hEvent = TRUE, !.eStatus = "kConnecting"]
           r3 == [ResetResource(r) EXCEPT !.llId = m_llNextId + 1]
<1>1. PICK o \in FirstLink(nClients + 1) :
        \/ /\ o.link = "avail"
           /\ res' = [res EXCEPT ![p] = r1]
           /\ os' = [os EXCEPT ![p] = [o EXCEPT !.readIo = "pending"]]
           /\ m_llNextId' = IdTaken
        \/ /\ o.link = "open"
           /\ res' = [res EXCEPT ![p] = r2]
           /\ os' = [os EXCEPT ![p] = o]
           /\ m_llNextId' = IdTaken
        \/ /\ o.link = "broken"
           /\ res' = [res EXCEPT ![p] = r3]
           /\ os' = [os EXCEPT ![p] = Unlinked("off")]
           /\ m_llNextId' = m_llNextId + 2
  BY DEF InitComm
<1>2. m_llNextId \in Nat
  BY DEF TypeOK, Ids
<1>3. o.writeIo = "idle" /\ o.readIo = "idle"
  BY <1>1 DEF FirstLink, Unlinked
<1>4. CASE o.link = "avail"
  <2> DEFINE o1 == [o EXCEPT !.readIo = "pending"]
  <2>1. o = Unlinked("avail")
    BY <1>1, <1>4 DEF FirstLink, Unlinked
  <2>2. Fresh(r1, o1)
    BY <1>1, <1>2, <1>4, <2>1 DEF Fresh, Awaited, NewResource, Unlinked, IdTaken
  <2>3. res' = [res EXCEPT ![p] = r1] /\ os' = [os EXCEPT ![p] = o1]
    BY <1>1, <1>4
  <2> HIDE DEF r1, o1
  <2>4. QED
    BY <2>2, <2>3 DEF OpeningOf
<1>5. CASE o.link = "open"
  <2>1. Fresh(r2, o)
    BY <1>1, <1>2, <1>3, <1>5 DEF Fresh, Awaited, NewResource, IdTaken
  <2>2. res' = [res EXCEPT ![p] = r2] /\ os' = [os EXCEPT ![p] = o]
    BY <1>1, <1>5
  <2> HIDE DEF r2
  <2>3. QED
    BY <2>1, <2>2 DEF OpeningOf
<1>6. CASE o.link = "broken"
  <2>1. Fresh(r3, Unlinked("off"))
    BY <1>1, <1>2, <1>6 DEF Fresh, Awaited, NewResource, ResetResource, Unlinked
  <2>2. res' = [res EXCEPT ![p] = r3] /\ os' = [os EXCEPT ![p] = Unlinked("off")]
    BY <1>1, <1>6
  <2> HIDE DEF r3
  <2>3. QED
    BY <2>1, <2>2 DEF OpeningOf
<1>7. QED
  BY <1>1, <1>4, <1>5, <1>6

\* So does the instance the connection thread adds when all others are in use.
LEMMA AddInstanceOpens ==
  TypeOK /\ AddInstance =>
    \/ UNCHANGED <<m_aPipes, res, os, m_llNextId>>
    \/ \E p \in Pipes : /\ os[p].link = "none"
                        /\ m_aPipes' = Append(m_aPipes, p) /\ OpeningOf(p)
<1> SUFFICES ASSUME TypeOK, AddInstance, ~UNCHANGED <<m_aPipes, res, os, m_llNextId>>
             PROVE  \E p \in Pipes : /\ os[p].link = "none"
                                     /\ m_aPipes' = Append(m_aPipes, p)
                                     /\ OpeningOf(p)
  OBVIOUS
<1> DEFINE r == NewResource(m_llNextId, TRUE)
           o == Unlinked("avail")
<1>1. PICK p \in Pipes : /\ os[p].link = "none"
                         /\ res' = [res EXCEPT ![p] = r]
                         /\ os' = [os EXCEPT ![p] = o]
                         /\ m_aPipes' = Append(m_aPipes, p)
                         /\ m_llNextId' = IdTaken
  BY DEF AddInstance
<1>2. Fresh(r, o)
  BY <1>1 DEF Fresh, Awaited, NewResource, Unlinked, IdTaken, TypeOK, Ids
<1> HIDE DEF r, o
<1>3. QED
  BY <1>1, <1>2 DEF OpeningOf

\* A dropped instance is reset, as a fresh one if it had nothing queued or a
\* client, or it is gone.
LEMMA ResetOpens ==
  ASSUME TypeOK, NEW p \in Pipes, ResetInstance(p),
         res[p].eStatus # "kReading" => res[p].cWriteQueue = << >>
  PROVE  OpeningOf(p) /\ UNCHANGED m_aPipes
<1> DEFINE r == [ResetResource(res[p]) EXCEPT !.llId = m_llNextId,
          !.cWriteQueue =
            IF res[p].eStatus = "kReading" THEN << >> ELSE res[p].cWriteQueue]
           o == Unlinked("off")
<1>1. res[p] \in SPipeResource /\ m_llNextId \in Nat
  BY DEF TypeOK, Ids
<1>2. Fresh(r, o)
  BY <1>1 DEF Fresh, Awaited, ResetResource, Unlinked, IdTaken, ResetInstance,
     SPipeResource
<1>3. res' = [res EXCEPT ![p] = r] /\ os' = [os EXCEPT ![p] = o]
  BY DEF ResetInstance
<1> HIDE DEF r, o
<1>4. QED
  BY <1>2, <1>3 DEF OpeningOf, ResetInstance

\* What a handler of hEvent that does not drop its instance makes of it: the
\* session, its queue and its write stay, and it only ever moves on.
Advanced(p, r, o) ==
  /\ r.llId = res[p].llId /\ o.client = os[p].client
  /\ r.cWriteQueue = res[p].cWriteQueue
  /\ r.fWritePending = res[p].fWritePending /\ o.writeIo = os[p].writeIo
  /\ o.link # "none"
  /\ \A l \in {"open", "broken"} : (o.link = l) <=> (os[p].link = l)
  /\ res[p].eStatus = "kReading" => r.eStatus = "kReading"
  /\ Awaited(res[p], os[p]) => Awaited(r, o)

AdvanceOf(p) ==
  \E r, o : /\ res' = [res EXCEPT ![p] = r] /\ os' = [os EXCEPT ![p] = o]
            /\ Advanced(p, r, o)
            /\ UNCHANGED <<m_aPipes, m_llNextId>>

\* Or else it drops the instance and starts again.
Dropped == DropInstance(cur) /\ NextIteration /\ UNCHANGED history

\* Starting the next read keeps the session of the instance: its id, its client
\* and what is queued for it.
LEMMA ReadNextAdvances ==
  ASSUME NEW p, NEW r \in SPipeResource, os[p] \in Instance, os[p].link # "none",
         ReadNext(p, r),
         r.llId = res[p].llId, r.cWriteQueue = res[p].cWriteQueue,
         r.fWritePending = res[p].fWritePending,
         r.eStatus = "kReading", res[p].eStatus = "kReading"
  PROVE  Dropped \/ AdvanceOf(p)
<1> DEFINE r1 == [r EXCEPT !.hEvent = TRUE]
           o1 == [os[p] EXCEPT !.inbox = Tail(os[p].inbox)]
           r2 == [r EXCEPT !.fPending = TRUE, !.hEvent = FALSE]
           o2 == [os[p] EXCEPT !.readIo = "pending"]
<1>1. CASE /\ res' = [res EXCEPT ![p] = r1] /\ os' = [os EXCEPT ![p] = o1]
           /\ UNCHANGED <<m_aPipes, m_llNextId>>
  <2>1. Advanced(p, r1, o1)
    BY DEF Advanced, Awaited, SPipeResource, Instance
  <2> HIDE DEF r1, o1
  <2>2. QED
    BY <1>1, <2>1 DEF AdvanceOf
<1>2. CASE /\ res' = [res EXCEPT ![p] = r2] /\ os' = [os EXCEPT ![p] = o2]
           /\ UNCHANGED <<m_aPipes, m_llNextId>>
  <2>1. Advanced(p, r2, o2)
    BY DEF Advanced, Awaited, SPipeResource, Instance
  <2> HIDE DEF r2, o2
  <2>2. QED
    BY <1>2, <2>1 DEF AdvanceOf
<1>3. QED
  BY <1>1, <1>2 DEF ReadNext, Dropped

\* Handling kCreated keeps the session, unless it drops the instance.
LEMMA OnCreatedAdvances ==
  TypeOK /\ OnCreated => Dropped \/ AdvanceOf(m_aPipes[cur])
<1> SUFFICES ASSUME TypeOK, OnCreated
             PROVE  Dropped \/ AdvanceOf(m_aPipes[cur])
  OBVIOUS
<1> DEFINE p == m_aPipes[cur]
           r0 == [res[p] EXCEPT !.hEvent = FALSE]
           r1 == [r0 EXCEPT !.fPending = TRUE, !.eStatus = "kConnecting"]
           o1 == [os[p] EXCEPT !.link = "avail", !.readIo = "pending"]
           r2 == [r0 EXCEPT !.fPending = FALSE, !.hEvent = TRUE,
                            !.eStatus = "kConnecting"]
<1>1. /\ p \in Pipes /\ res[p] \in SPipeResource /\ os[p] \in Instance
      /\ os[p].link # "none" /\ res[p].eStatus = "kCreated"
  <2>1. p \in Pipes /\ os[p].link # "none"
    BY HandledPipe DEF OnCreated, Dropped
  <2>2. res[p] \in SPipeResource /\ os[p] \in Instance
    BY <2>1 DEF TypeOK
  <2>3. QED
    BY <2>1, <2>2 DEF OnCreated, SPipeResource
<1>2. CASE /\ os[p].link \in {"avail", "off"}
           /\ res' = [res EXCEPT ![p] = r1]
           /\ os' = [os EXCEPT ![p].link = "avail", ![p].readIo = "pending"]
           /\ UNCHANGED <<m_aPipes, m_llNextId>>
  <2>1. Advanced(p, r1, o1)
    BY <1>1, <1>2 DEF Advanced, Awaited, SPipeResource, Instance
  <2>2. os' = [os EXCEPT ![p] = o1]
    BY <1>1, <1>2 DEF TypeOK
  <2> HIDE DEF r1, o1
  <2>3. QED
    BY <1>2, <2>1, <2>2 DEF AdvanceOf
<1>3. CASE /\ os[p].link = "open"
           /\ res' = [res EXCEPT ![p] = r2] /\ UNCHANGED os
           /\ UNCHANGED <<m_aPipes, m_llNextId>>
  <2>1. Advanced(p, r2, os[p])
    BY <1>1, <1>3 DEF Advanced, Awaited, SPipeResource, Instance
  <2>2. os' = [os EXCEPT ![p] = os[p]]
    BY <1>3 DEF TypeOK
  <2> HIDE DEF r2
  <2>3. QED
    BY <1>3, <2>1, <2>2 DEF AdvanceOf
<1>4. QED
  BY <1>2, <1>3 DEF OnCreated, Dropped

\* Handling kConnecting keeps the session, unless it drops the instance.
LEMMA OnConnectingAdvances ==
  TypeOK /\ OnConnecting => Dropped \/ AdvanceOf(m_aPipes[cur])
<1> SUFFICES ASSUME TypeOK, OnConnecting
             PROVE  Dropped \/ AdvanceOf(m_aPipes[cur])
  OBVIOUS
<1> DEFINE p == m_aPipes[cur]
           r0 == [res[p] EXCEPT !.hEvent = FALSE]
           r1 == [r0 EXCEPT !.fPending = FALSE, !.eStatus = "kReading",
                            !.hEvent = TRUE]
           o1 == [os[p] EXCEPT !.readIo = "idle"]
<1>1. /\ p \in Pipes /\ res[p] \in SPipeResource /\ os[p] \in Instance
      /\ os[p].link # "none" /\ res[p].eStatus = "kConnecting"
  <2>1. p \in Pipes /\ os[p].link # "none"
    BY HandledPipe DEF OnConnecting, Dropped
  <2>2. res[p] \in SPipeResource /\ os[p] \in Instance
    BY <2>1 DEF TypeOK
  <2>3. QED
    BY <2>1, <2>2 DEF OnConnecting, SPipeResource
<1>2. CASE /\ r0.fPending => os[p].readIo = "ok"
           /\ res' = [res EXCEPT ![p] = r1]
           /\ os' = [os EXCEPT ![p].readIo = "idle"]
           /\ UNCHANGED <<m_aPipes, m_llNextId>>
  <2>1. Advanced(p, r1, o1)
    BY <1>1, <1>2 DEF Advanced, Awaited, SPipeResource, Instance
  <2>2. os' = [os EXCEPT ![p] = o1]
    BY <1>2
  <2> HIDE DEF r1, o1
  <2>3. QED
    BY <1>2, <2>1, <2>2 DEF AdvanceOf
<1>3. QED
  BY <1>2 DEF OnConnecting, Dropped

\* Handling kReading keeps the session or hands a message to ProcessData.
LEMMA OnReadingAdvances ==
  TypeOK /\ OnReading => Dropped \/ AdvanceOf(m_aPipes[cur])
<1> SUFFICES ASSUME TypeOK, OnReading
             PROVE  Dropped \/ AdvanceOf(m_aPipes[cur])
  OBVIOUS
<1> DEFINE p == m_aPipes[cur]
           r == [res[p] EXCEPT !.hEvent = FALSE]
           o == [os[p] EXCEPT !.readIo = "idle"]
<1>1. /\ p \in Pipes /\ res[p] \in SPipeResource /\ os[p] \in Instance
      /\ os[p].link # "none" /\ res[p].eStatus = "kReading"
  <2>1. p \in Pipes /\ os[p].link # "none"
    BY HandledPipe DEF OnReading
  <2>2. res[p] \in SPipeResource /\ os[p] \in Instance
    BY <2>1 DEF TypeOK
  <2>3. QED
    BY <2>1, <2>2 DEF OnReading, SPipeResource
<1>2. /\ r \in SPipeResource /\ r.llId = res[p].llId /\ r.eStatus = "kReading"
      /\ r.cWriteQueue = res[p].cWriteQueue
      /\ r.fWritePending = res[p].fWritePending
  BY <1>1 DEF SPipeResource
<1>3. CASE /\ res' = [res EXCEPT ![p] = r]
           /\ os' = [os EXCEPT ![p].readIo = "idle"]
           /\ UNCHANGED <<m_aPipes, m_llNextId>>
  <2>1. Advanced(p, r, o)
    BY <1>1, <1>2 DEF Advanced, Awaited, SPipeResource, Instance
  <2>2. os' = [os EXCEPT ![p] = o]
    BY <1>3
  <2> HIDE DEF r, o
  <2>3. QED
    BY <1>3, <2>1, <2>2 DEF AdvanceOf
<1> HIDE DEF r
<1>4. CASE ReadNext(p, r)
  BY <1>1, <1>2, <1>4, ReadNextAdvances
<1>5. QED
  BY <1>3, <1>4 DEF OnReading, r, Dropped

\* The return of ProcessData keeps the session, unless it drops the instance.
LEMMA ProcessReturnAdvances ==
  ASSUME TypeOK, ProcessReturn, res[m_aPipes[cur]].eStatus = "kReading"
  PROVE  Dropped \/ AdvanceOf(m_aPipes[cur])
<1> DEFINE p == m_aPipes[cur]
           r == [res[p] EXCEPT !.fPending = FALSE]
           r1 == [res[p] EXCEPT !.hEvent = TRUE]
<1>1. /\ p \in Pipes /\ res[p] \in SPipeResource /\ os[p] \in Instance
      /\ os[p].link # "none"
  <2>1. p \in Pipes /\ os[p].link # "none"
    BY HandledPipe DEF ProcessReturn
  <2>2. QED
    BY <2>1 DEF TypeOK
<1>2. /\ r \in SPipeResource /\ r.llId = res[p].llId
      /\ r.eStatus = res[p].eStatus /\ r.cWriteQueue = res[p].cWriteQueue
      /\ r.fWritePending = res[p].fWritePending
  BY <1>1 DEF SPipeResource
<1>3. CASE /\ res' = [res EXCEPT ![p].hEvent = TRUE] /\ UNCHANGED os
           /\ UNCHANGED <<m_aPipes, m_llNextId>>
  <2>1. Advanced(p, r1, os[p])
    BY <1>1 DEF Advanced, Awaited, SPipeResource
  <2>2. res' = [res EXCEPT ![p] = r1] /\ os' = [os EXCEPT ![p] = os[p]]
    BY <1>3 DEF TypeOK
  <2> HIDE DEF r1
  <2>3. QED
    BY <1>3, <2>1, <2>2 DEF AdvanceOf
<1> HIDE DEF r
<1>4. CASE ReadNext(p, r)
  BY <1>1, <1>2, <1>4, ReadNextAdvances
<1>5. QED
  BY <1>3, <1>4 DEF ProcessReturn, r, Dropped

-----------------------------------------------------------------------------
(* Sessions is preserved by a step that is about one instance: the handle  *)
(* goes, or gets a fresh id, or keeps the one it has.                      *)

\* The client of p may have been served by the step.
ServedBy(p) == served' = served \cup {<<res[p].llId, os[p].client>>}

\* Two instances with the id of one reply are the same instance, so a reply found
\* by its id is queued on the instance whose client asked.
LEMMA OneSession ==
  ASSUME IInv, TypeOK', NEW p \in Pipes, NEW r, NEW o,
         res' = [res EXCEPT ![p] = r], os' = [os EXCEPT ![p] = o],
         m_llNextId <= m_llNextId',
         served' = served \/ (ServedBy(p) /\ os[p].link # "none"),
         o.link # "none" =>
           \/ r.llId \in m_llNextId .. m_llNextId' - 1
           \/ os[p].link # "none" /\ r.llId = res[p].llId,
         Session(p)'
  PROVE  Sessions'
<1>1. /\ res'[p] = r /\ os'[p] = o
      /\ \A q \in Pipes : q # p => res'[q] = res[q] /\ os'[q] = os[q]
  BY DEF IInv, TypeOK
<1>2. m_llNextId \in Nat /\ m_llNextId' \in Nat
  BY DEF IInv, TypeOK, Ids
<1>3. \A q \in Pipes : res[q].llId \in Nat /\ (os[q].link # "none" => res[q].llId < m_llNextId)
  BY DEF IInv, TypeOK, SPipeResource, Ids, Sessions, Session
<1>4. ServedBefore'
  <2>1. \A s \in served : s[1] \in Nat /\ s[1] < m_llNextId
    BY DEF IInv, TypeOK, Ids, Sessions, ServedBefore
  <2>2. QED
    BY <1>2, <1>3, <2>1 DEF ServedBefore, ServedBy
<1>5. IdsDistinct'
  <2>1. ASSUME NEW q \in Pipes, q # p, os'[q].link # "none", os'[p].link # "none"
        PROVE  res'[p].llId # res'[q].llId
    BY <1>1, <1>2, <1>3, <2>1 DEF IInv, Sessions, IdsDistinct
  <2>2. QED
    BY <1>1, <2>1 DEF IInv, Sessions, IdsDistinct
<1>6. ASSUME NEW q \in Pipes, q # p PROVE Session(q)'
  <2>1. SUFFICES ASSUME os[q].link # "none" PROVE Session(q)'
    BY <1>1, <1>6 DEF Session
  <2>2. Session(q) /\ res'[q] = res[q] /\ os'[q] = os[q]
    BY <1>1, <1>6 DEF IInv, Sessions
  <2>3. \A s \in served' : s[1] = res[q].llId => s \in served
    BY <1>6, <2>1 DEF IInv, Sessions, IdsDistinct, ServedBy
  <2>4. served \subseteq served' /\ res[q].llId < m_llNextId'
    BY <1>2, <1>3, <2>1 DEF ServedBy
  <2>5. QED
    BY <2>1, <2>2, <2>3, <2>4 DEF Session
<1>7. QED
  BY <1>4, <1>5, <1>6 DEF Sessions

\* A session that moves on under its own id stays a session.
LEMMA AdvanceKeeps ==
  ASSUME IInv, TypeOK', NEW p \in Pipes, os[p].link # "none", AdvanceOf(p),
         \/ served' = served
         \/ ServedBy(p) /\ res[p].eStatus = "kReading"
  PROVE  /\ Sessions'
         /\ <<res'[p].llId, os'[p].client>> = <<res[p].llId, os[p].client>>
<1>1. PICK r, o : /\ res' = [res EXCEPT ![p] = r] /\ os' = [os EXCEPT ![p] = o]
                  /\ Advanced(p, r, o) /\ UNCHANGED <<m_aPipes, m_llNextId>>
  BY DEF AdvanceOf
<1>2. res'[p] = r /\ os'[p] = o
  BY <1>1 DEF IInv, TypeOK
<1>3. m_llNextId' = m_llNextId /\ m_llNextId \in Nat
  BY <1>1 DEF IInv, TypeOK, Ids
<1>4. Session(p)
  BY DEF IInv, Sessions
<1>5. Session(p)'
  <2>1. /\ r.llId = res[p].llId /\ r.llId < m_llNextId'
        /\ o.writeIo # "idle" => r.fWritePending /\ r.cWriteQueue # << >>
        /\ r.eStatus # "kReading" => r.cWriteQueue = << >>
        /\ Awaited(r, o)
    BY <1>1, <1>3, <1>4 DEF Session, Advanced
  <2>2. \A n \in DOMAIN r.cWriteQueue : <<r.cWriteQueue[n].to, o.client>> \in served'
    BY <1>1, <1>4 DEF Session, Advanced, ServedBy
  <2>3. \A s \in served' : s[1] = r.llId => s[2] = o.client /\ r.eStatus = "kReading"
    BY <1>1, <1>4 DEF Session, Advanced, ServedBy
  <2>4. QED
    BY <1>2, <2>1, <2>2, <2>3 DEF Session
<1>6. m_llNextId <= m_llNextId' /\ r.llId = res[p].llId /\ o.client = os[p].client
  BY <1>1, <1>3 DEF Advanced
<1>7. Sessions'
  BY <1>1, <1>5, <1>6, OneSession
<1>8. QED
  BY <1>2, <1>6, <1>7

\* A session that opens takes the id m_llNextId, which nobody had before.
LEMMA OpeningKeeps ==
  ASSUME IInv, TypeOK', NEW p \in Pipes, OpeningOf(p), served' = served
  PROVE  Sessions'
<1>1. PICK r, o : /\ res' = [res EXCEPT ![p] = r] /\ os' = [os EXCEPT ![p] = o]
                  /\ Fresh(r, o)
  BY DEF OpeningOf
<1>2. res'[p] = r /\ os'[p] = o
  BY <1>1 DEF IInv, TypeOK
<1>3. m_llNextId \in Nat /\ m_llNextId' \in Nat /\ m_llNextId <= m_llNextId'
  BY <1>1 DEF IInv, TypeOK, Ids, Fresh
<1>4. \A s \in served : s[1] # r.llId
  <2>1. \A s \in served : s[1] \in Nat /\ s[1] < m_llNextId
    BY DEF IInv, TypeOK, Ids, Sessions, ServedBefore
  <2>2. r.llId \in Nat /\ m_llNextId <= r.llId
    BY <1>1, <1>3 DEF Fresh
  <2>3. QED
    BY <1>3, <2>1, <2>2
<1>5. Session(p)'
  BY <1>1, <1>2, <1>3, <1>4 DEF Session, Fresh
<1>6. QED
  BY <1>1, <1>3, <1>5, OneSession DEF Fresh

\* Erasing an instance leaves the sessions of the others as they were.
LEMMA GoneKeeps ==
  ASSUME IInv, TypeOK', NEW p \in Pipes,
         res' = [res EXCEPT ![p] = NewResource(0, FALSE)],
         os' = [os EXCEPT ![p] = Unlinked("none")],
         UNCHANGED <<m_llNextId, served>>
  PROVE  Sessions'
<1> DEFINE r == NewResource(0, FALSE)
           o == Unlinked("none")
<1>1. /\ o.link = "none"
      /\ res' = [res EXCEPT ![p] = r] /\ os' = [os EXCEPT ![p] = o]
      /\ m_llNextId <= m_llNextId' /\ served' = served
  BY DEF Unlinked, IInv, TypeOK, Ids
<1> HIDE DEF r, o
<1>2. os'[p] = o
  BY <1>1 DEF IInv, TypeOK
<1>3. Session(p)'
  BY <1>1, <1>2 DEF Session
<1>4. QED
  BY <1>1, <1>3, OneSession

\* DropInstance, in both its forms (erase or reset), keeps all three parts.
LEMMA DropKeeps ==
  ASSUME IInv, TypeOK', NEW i \in DOMAIN m_aPipes, DropInstance(i),
         served' = served
  PROVE  Sessions'
<1>1. PICK p \in Pipes : p = m_aPipes[i] /\ os[p].link # "none"
  <2>1. m_aPipes[i] \in OpenPipes
    BY DEF OpenPipes, Range
  <2>2. QED
    BY <2>1 DEF IInv, TypeOK
<1>2. CASE ResetInstance(p)
  <2>1. res[p].eStatus # "kReading" => res[p].cWriteQueue = << >>
    BY <1>1 DEF IInv, Sessions, Session
  <2>2. OpeningOf(p)
    BY <1>1, <1>2, <2>1, ResetOpens DEF IInv
  <2>3. QED
    BY <1>1, <2>2, OpeningKeeps
<1>3. CASE DeleteInstance(i)
  BY <1>1, <1>3, GoneKeeps DEF DeleteInstance
<1>4. QED
  BY <1>1, <1>2, <1>3 DEF DropInstance

\* Steps that touch no instance.
LEMMA StillKeeps ==
  ASSUME IInv, UNCHANGED <<res, os, served>>, m_llNextId' \in Nat,
         m_llNextId <= m_llNextId'
  PROVE  Sessions'
<1>1. m_llNextId \in Nat /\ \A p \in Pipes : res[p].llId \in Nat
  BY DEF IInv, TypeOK, SPipeResource, Ids
<1>2. \A s \in served : s[1] \in Nat /\ s[1] < m_llNextId
  BY DEF IInv, TypeOK, Ids, Sessions, ServedBefore
<1>3. QED
  BY <1>1, <1>2 DEF IInv, Sessions, Session, IdsDistinct, ServedBefore

-----------------------------------------------------------------------------
(* The history: what is passed on, and what arrives. *)

\* Handing a message to ProcessData records its id and client, a pair that agrees
\* with those recorded before.
LEMMA ServeKeeps ==
  ASSUME IInv, NEW p \in Pipes, os[p].link # "none", ServedBy(p),
         UNCHANGED arrived
  PROVE  RepliesReachTheirAsker'
<1>1. Session(p) /\ RepliesReachTheirAsker
  BY DEF IInv, Sessions
<1>2. \A s \in served : s[1] = res[p].llId => s[2] = os[p].client
  BY <1>1 DEF Session
<1>3. QED
  BY <1>1, <1>2 DEF RepliesReachTheirAsker, UniqueUser, ServedBy

\* A reply that arrives is the head of the queue, put there for this client.
LEMMA ArriveKeeps ==
  ASSUME IInv, NEW p \in Pipes, os[p].link # "none",
         res[p].cWriteQueue # << >>, UNCHANGED served,
         arrived' = arrived \cup
           {<<Head(res[p].cWriteQueue).to, os[p].client>>}
  PROVE  RepliesReachTheirAsker'
<1>1. res[p] \in SPipeResource
  BY DEF IInv, TypeOK
<1>2. /\ Head(res[p].cWriteQueue) = res[p].cWriteQueue[1]
      /\ 1 \in DOMAIN res[p].cWriteQueue
  BY <1>1, PopWrittenType
<1>3. <<Head(res[p].cWriteQueue).to, os[p].client>> \in served
  BY <1>2 DEF IInv, Sessions, Session
<1>4. QED
  BY <1>3 DEF IInv, RepliesReachTheirAsker, UniqueUser

\* A step that serves and delivers nothing cannot misdeliver.
LEMMA HistoryKeeps ==
  ASSUME IInv, UNCHANGED history PROVE RepliesReachTheirAsker'
  BY DEF IInv, RepliesReachTheirAsker, UniqueUser, history

-----------------------------------------------------------------------------
(* One lemma for each action *)

\* What the thread does next, and what it has been given.
IndKept == Sessions' /\ ThreadServed' /\ RepliesReachTheirAsker'

\* The two steps that create instances keep IInv.
LEMMA CreateKeeps ==
  ASSUME IInv, TypeOK', (\E p \in Pipes : InitComm(p)) \/ AddInstance
  PROVE  IndKept
<1>1. UNCHANGED history /\ pc' \in {"top", "wait"}
  BY DEF InitComm, AddInstance, GoTo
<1>2. served' = served
  BY <1>1 DEF history
<1>3. Sessions'
  <2>1. ASSUME NEW p \in Pipes, OpeningOf(p) PROVE Sessions'
    BY <1>2, <2>1, OpeningKeeps
  <2>2. CASE UNCHANGED <<m_aPipes, res, os, m_llNextId>>
    BY <1>2, <2>2, StillKeeps DEF IInv, TypeOK, Ids
  <2>3. QED
    BY <2>1, <2>2, InitCommOpens, AddInstanceOpens DEF IInv
<1>4. QED
  BY <1>1, <1>3, HistoryKeeps DEF IndKept, ThreadServed

\* Handlers of hEvent: the instance is dropped, or the session moves on.
LEMMA HandlersKeep ==
  ASSUME IInv, TypeOK', OnCreated \/ OnConnecting \/ OnReading \/ ProcessReturn
  PROVE  IndKept
<1> DEFINE p == m_aPipes[cur]
<1>1. /\ cur \in DOMAIN m_aPipes /\ p \in Pipes /\ os[p].link # "none"
      /\ Session(p)
  <2>1. pc \in {"onEvent", "process"}
    BY DEF OnCreated, OnConnecting, OnReading, ProcessReturn
  <2>2. QED
    BY <2>1, HandledPipe DEF IInv, Sessions
<1>2. ProcessReturn => res[p].eStatus = "kReading"
  BY <1>1 DEF ProcessReturn, IInv, ThreadServed, Handled, Session
<1>3. Dropped \/ AdvanceOf(p)
  BY <1>2, OnCreatedAdvances, OnConnectingAdvances, OnReadingAdvances,
     ProcessReturnAdvances DEF IInv
<1>4. CASE Dropped
  <2>1. pc' = "top" /\ served' = served /\ UNCHANGED history
    BY <1>4 DEF Dropped, NextIteration, GoTo, history
  <2>2. Sessions'
    BY <1>1, <1>4, <2>1, DropKeeps DEF Dropped
  <2>3. QED
    BY <2>1, <2>2, HistoryKeeps DEF IndKept, ThreadServed
<1>5. CASE AdvanceOf(p) /\ NextIteration /\ UNCHANGED history
  <2>1. pc' = "top" /\ served' = served
    BY <1>5 DEF NextIteration, GoTo, history
  <2>2. Sessions'
    BY <1>1, <1>5, <2>1, AdvanceKeeps
  <2>3. QED
    BY <1>5, <2>1, <2>2, HistoryKeeps DEF IndKept, ThreadServed
<1>6. CASE AdvanceOf(p) /\ CallProcessData(p) /\ res[p].eStatus = "kReading"
  <2>1. /\ ServedBy(p) /\ UNCHANGED arrived /\ cur' = cur
        /\ m_aPipes' = m_aPipes
    BY <1>6 DEF CallProcessData, ServedBy, AdvanceOf
  <2>2. Sessions' /\ <<res'[p].llId, os'[p].client>> = <<res[p].llId, os[p].client>>
    BY <1>1, <1>6, <2>1, AdvanceKeeps
  <2>3. ThreadServed'
    BY <2>1, <2>2 DEF ThreadServed, Handled, ServedBy
  <2>4. QED
    BY <1>1, <2>1, <2>2, <2>3, ServeKeeps DEF IndKept
<1>7. \/ NextIteration /\ UNCHANGED history
      \/ CallProcessData(p) /\ res[p].eStatus = "kReading"
  <2>1. ASSUME NEW r, ReadNext(p, r)
        PROVE  (NextIteration /\ UNCHANGED history) \/ CallProcessData(p)
    BY <2>1 DEF ReadNext
  <2>2. OnReading => res[p].eStatus = "kReading"
    BY <1>1 DEF OnReading, IInv, TypeOK, SPipeResource
  <2>3. (OnCreated \/ OnConnecting) => NextIteration /\ UNCHANGED history
    BY DEF OnCreated, OnConnecting, history
  <2>4. OnReading => ((NextIteration /\ UNCHANGED history) \/ CallProcessData(p))
    BY <2>1 DEF OnReading
  <2>5. ProcessReturn => ((NextIteration /\ UNCHANGED history) \/ CallProcessData(p))
    BY <2>1 DEF ProcessReturn
  <2>6. QED
    BY <1>2, <2>2, <2>3, <2>4, <2>5
<1>8. QED
  BY <1>3, <1>4, <1>5, <1>6, <1>7

\* Entries may leave the queue, or the new one be served by its client.
LEMMA QueueKeeps ==
  ASSUME IInv, TypeOK', NEW p \in Pipes, os[p].link # "none", NEW r, NEW o,
         res' = [res EXCEPT ![p] = r], os' = [os EXCEPT ![p] = o],
         r.llId = res[p].llId, r.eStatus = res[p].eStatus,
         r.fPending = res[p].fPending,
         o.link = os[p].link, o.client = os[p].client, o.readIo = os[p].readIo,
         o.writeIo # "idle" => r.fWritePending /\ r.cWriteQueue # << >>,
         r.eStatus # "kReading" => r.cWriteQueue = << >>,
         \A n \in DOMAIN r.cWriteQueue :
           \/ <<r.cWriteQueue[n].to, os[p].client>> \in served
           \/ \E m \in DOMAIN res[p].cWriteQueue :
                r.cWriteQueue[n] = res[p].cWriteQueue[m],
         UNCHANGED <<m_llNextId, served>>
  PROVE  Sessions'
<1>1. res'[p] = r /\ os'[p] = o
  BY DEF IInv, TypeOK
<1>2. Session(p) /\ m_llNextId \in Nat
  BY DEF IInv, TypeOK, Sessions, Ids
<1>3. \A n \in DOMAIN r.cWriteQueue : <<r.cWriteQueue[n].to, o.client>> \in served
  BY <1>2 DEF Session
<1>4. Awaited(r, o)
  BY <1>2 DEF Session, Awaited
<1>5. Session(p)'
  BY <1>1, <1>2, <1>3, <1>4 DEF Session
<1>6. m_llNextId <= m_llNextId' /\ served' = served
  BY <1>2
<1>7. QED
  BY <1>5, <1>6, OneSession

\* Handling the write event of an instance keeps IInv.
LEMMA WriteKeeps ==
  ASSUME IInv, TypeOK', OnWrite PROVE IndKept
<1>1. PICK p \in Pipes : p = m_aPipes[cur] /\ os[p].link # "none"
  BY HandledPipe DEF OnWrite, IInv
<1> DEFINE r0 == [res[p] EXCEPT !.hWriteEvent = FALSE]
           r1 == [r0 EXCEPT !.hWriteEvent = TRUE]
           Popped(q) == PopWritten([q EXCEPT !.fWritePending = FALSE])
           Same(r) == /\ r.llId = res[p].llId /\ r.eStatus = res[p].eStatus
                      /\ r.fPending = res[p].fPending
<1>2. /\ res[p] \in SPipeResource /\ os[p] \in Instance /\ Session(p)
      /\ res[p].cWriteQueue \in Seq(SData)
  BY DEF IInv, TypeOK, Sessions, SPipeResource
<1>3. UNCHANGED <<m_llNextId, served>> /\ pc' = "top"
  BY DEF OnWrite, NextIteration, GoTo
<1>4. ASSUME NEW r, NEW o, Same(r),
             res' = [res EXCEPT ![p] = r], os' = [os EXCEPT ![p] = o],
             o.link = os[p].link, o.client = os[p].client, o.readIo = os[p].readIo,
             r.cWriteQueue = res[p].cWriteQueue,
             o.writeIo # "idle" => r.fWritePending /\ r.cWriteQueue # << >>
      PROVE  Sessions'
  <2>1. r.eStatus # "kReading" => r.cWriteQueue = << >>
    BY <1>1, <1>2, <1>4 DEF Session
  <2>2. \A n \in DOMAIN r.cWriteQueue : \E m \in DOMAIN res[p].cWriteQueue :
          r.cWriteQueue[n] = res[p].cWriteQueue[m]
    BY <1>4
  <2>3. /\ r.llId = res[p].llId /\ r.eStatus = res[p].eStatus
        /\ r.fPending = res[p].fPending
    BY <1>4
  <2> HIDE DEF Same
  <2>4. QED
    BY <1>1, <1>3, <1>4, <2>1, <2>2, <2>3, QueueKeeps
<1>5. ASSUME NEW q \in SPipeResource, Same(q), res[p].cWriteQueue # << >>,
             q.cWriteQueue = res[p].cWriteQueue, NEW o,
             res' = [res EXCEPT ![p] = Popped(q)], os' = [os EXCEPT ![p] = o],
             o.link = os[p].link, o.client = os[p].client, o.readIo = os[p].readIo,
             o.writeIo = "idle"
      PROVE  Sessions'
  <2> DEFINE q0 == [q EXCEPT !.fWritePending = FALSE]
  <2>1. q0 \in SPipeResource /\ q0.cWriteQueue = res[p].cWriteQueue /\ Same(q0)
    BY <1>5 DEF SPipeResource
  <2> HIDE DEF q0
  <2>2. /\ Same(PopWritten(q0)) /\ PopWritten(q0).cWriteQueue = Tail(res[p].cWriteQueue)
        /\ \A n \in DOMAIN PopWritten(q0).cWriteQueue :
             \E m \in DOMAIN res[p].cWriteQueue :
               PopWritten(q0).cWriteQueue[n] = res[p].cWriteQueue[m]
    <3>1. /\ Same(PopWritten(q0))
          /\ PopWritten(q0).cWriteQueue = Tail(res[p].cWriteQueue)
      BY <2>1 DEF PopWritten, SPipeResource
    <3>2. \A n \in DOMAIN PopWritten(q0).cWriteQueue :
             /\ n + 1 \in DOMAIN q0.cWriteQueue
             /\ PopWritten(q0).cWriteQueue[n] = q0.cWriteQueue[n + 1]
      BY <1>5, <2>1, PopWrittenType
    <3>3. QED
      BY <2>1, <3>1, <3>2
  <2>3. res[p].eStatus = "kReading"
    BY <1>1, <1>2, <1>5 DEF Session
  <2>4. res' = [res EXCEPT ![p] = PopWritten(q0)]
    BY <1>5 DEF q0
  <2> DEFINE r == PopWritten(q0)
  <2>5. /\ r.llId = res[p].llId /\ r.eStatus = res[p].eStatus
        /\ r.fPending = res[p].fPending
        /\ r.eStatus # "kReading" => r.cWriteQueue = << >>
        /\ res' = [res EXCEPT ![p] = r]
        /\ \A n \in DOMAIN r.cWriteQueue : \E m \in DOMAIN res[p].cWriteQueue :
             r.cWriteQueue[n] = res[p].cWriteQueue[m]
    BY <2>2, <2>3, <2>4
  <2> HIDE DEF r, Same, Popped
  <2>6. /\ o.writeIo # "idle" => r.fWritePending /\ r.cWriteQueue # << >>
        /\ os' = [os EXCEPT ![p] = o] /\ o.link = os[p].link
        /\ o.client = os[p].client /\ o.readIo = os[p].readIo
    BY <1>5
  <2>7. QED
    BY <1>1, <1>3, <2>5, <2>6, QueueKeeps
<1>6. /\ r0 \in SPipeResource /\ Same(r0) /\ r0.cWriteQueue = res[p].cWriteQueue
      /\ r1 \in SPipeResource /\ Same(r1) /\ r1.cWriteQueue = res[p].cWriteQueue
      /\ r0.fWritePending = res[p].fWritePending
  BY <1>2 DEF SPipeResource
<1>7. UNCHANGED os => os' = [os EXCEPT ![p] = os[p]]
  BY DEF IInv, TypeOK
<1>8. ~res[p].fWritePending \/ res[p].cWriteQueue = << >> => os[p].writeIo = "idle"
  BY <1>1, <1>2 DEF Session
<1> DEFINE o1(io) == [os[p] EXCEPT !.writeIo = io]
<1>9. ASSUME NEW io PROVE /\ o1(io).link = os[p].link /\ o1(io).client = os[p].client
                          /\ o1(io).readIo = os[p].readIo /\ o1(io).writeIo = io
  BY <1>2 DEF Instance
<1>10. \/ /\ res[p].cWriteQueue = << >> /\ UNCHANGED os
          /\ res' = [res EXCEPT ![p] = [r0 EXCEPT !.fWritePending = FALSE]]
       \/ /\ res[p].cWriteQueue # << >> /\ ~res[p].fWritePending
          /\ res' = [res EXCEPT ![p] = [r0 EXCEPT !.fWritePending = TRUE]]
          /\ os' = [os EXCEPT ![p] = o1("pending")]
       \/ /\ res[p].cWriteQueue # << >> /\ res' = [res EXCEPT ![p] = Popped(r0)]
          /\ os' = [os EXCEPT ![p] = o1("idle")]
       \/ /\ res[p].cWriteQueue # << >> /\ ~res[p].fWritePending
          /\ res' = [res EXCEPT ![p] = Popped(r0)] /\ UNCHANGED os
       \/ /\ res[p].cWriteQueue # << >> /\ ~res[p].fWritePending
          /\ res' = [res EXCEPT ![p] = Popped(r1)] /\ UNCHANGED os
  BY <1>1, <1>6 DEF OnWrite
<1>11. ASSUME NEW v PROVE
         /\ Same([r0 EXCEPT !.fWritePending = v])
         /\ [r0 EXCEPT !.fWritePending = v].cWriteQueue = res[p].cWriteQueue
         /\ [r0 EXCEPT !.fWritePending = v].fWritePending = v
  BY <1>6 DEF SPipeResource
<1> HIDE DEF r0, r1, o1, Popped
<1>12. Sessions'
  <2>1. CASE /\ res[p].cWriteQueue = << >> /\ UNCHANGED os
             /\ res' = [res EXCEPT ![p] = [r0 EXCEPT !.fWritePending = FALSE]]
    BY <1>4, <1>7, <1>8, <1>11, <2>1
  <2>2. CASE /\ res[p].cWriteQueue # << >> /\ ~res[p].fWritePending
             /\ res' = [res EXCEPT ![p] = [r0 EXCEPT !.fWritePending = TRUE]]
             /\ os' = [os EXCEPT ![p] = o1("pending")]
    <3> DEFINE r2 == [r0 EXCEPT !.fWritePending = TRUE]
               o2 == o1("pending")
    <3>1. /\ Same(r2) /\ r2.cWriteQueue = res[p].cWriteQueue
          /\ o2.writeIo # "idle" => r2.fWritePending /\ r2.cWriteQueue # << >>
      BY <1>11, <2>2
    <3>2. /\ o2.link = os[p].link /\ o2.client = os[p].client
          /\ o2.readIo = os[p].readIo
      BY <1>9
    <3>3. res' = [res EXCEPT ![p] = r2] /\ os' = [os EXCEPT ![p] = o2]
      BY <2>2
    <3> HIDE DEF r2, o2
    <3>4. QED
      BY <1>4, <3>1, <3>2, <3>3
  <2>3. CASE /\ res[p].cWriteQueue # << >> /\ res' = [res EXCEPT ![p] = Popped(r0)]
             /\ os' = [os EXCEPT ![p] = o1("idle")]
    BY <1>5, <1>6, <1>9, <2>3
  <2>4. CASE /\ res[p].cWriteQueue # << >> /\ ~res[p].fWritePending
             /\ res' = [res EXCEPT ![p] = Popped(r0)] /\ UNCHANGED os
    BY <1>5, <1>6, <1>7, <1>8, <2>4
  <2>5. CASE /\ res[p].cWriteQueue # << >> /\ ~res[p].fWritePending
             /\ res' = [res EXCEPT ![p] = Popped(r1)] /\ UNCHANGED os
    BY <1>5, <1>6, <1>7, <1>8, <2>5
  <2>6. QED
    BY <1>10, <2>1, <2>2, <2>3, <2>4, <2>5
<1>13. RepliesReachTheirAsker'
  <2>1. CASE UNCHANGED arrived
    BY <1>3, <2>1, HistoryKeeps DEF history
  <2>2. CASE /\ res[p].cWriteQueue # << >>
             /\ arrived' = arrived \cup {<<Head(res[p].cWriteQueue).to, os[p].client>>}
    BY <1>1, <1>3, <2>2, ArriveKeeps
  <2>3. QED
    BY <1>1, <1>6, <2>1, <2>2 DEF OnWrite, r0
<1>14. QED
  BY <1>3, <1>12, <1>13 DEF IndKept, ThreadServed

\* Steps that leave the instances and the history alone.
LEMMA PassiveKeeps ==
  ASSUME IInv, TypeOK',
         \/ InitCommFails \/ KeepInstances \/ WaitDone \/ WaitEvent
         \/ ProcessSends \/ CloseBegin \/ CloseBlocks \/ OtherComms \/ UNCHANGED vars
  PROVE  IndKept
<1>1. UNCHANGED <<m_aPipes, res, os>> /\ UNCHANGED history /\ served' = served
  BY DEF InitCommFails, KeepInstances, WaitDone, WaitEvent, ProcessSends,
     CloseBegin, CloseBlocks, OtherComms, vars, resources, system, history
<1>2. m_llNextId' \in Nat /\ m_llNextId <= m_llNextId'
  BY DEF InitCommFails, KeepInstances, WaitDone, WaitEvent, ProcessSends,
     CloseBegin, CloseBlocks, OtherComms, vars, resources, IInv, TypeOK, Ids
<1>3. pc' \in {"process", "sending"} => pc \in {"process", "sending"} /\ cur' = cur
  BY DEF InitCommFails, KeepInstances, WaitDone, WaitEvent, ProcessSends,
     CloseBegin, CloseBlocks, OtherComms, vars, control, GoTo
<1>4. Sessions'
  BY <1>1, <1>2, StillKeeps
<1>5. ThreadServed'
  BY <1>1, <1>3 DEF ThreadServed, Handled, IInv
<1>6. QED
  BY <1>1, <1>4, <1>5, HistoryKeeps DEF IndKept

\* SendData from any thread keeps IInv: it queues on the instance its id names.
LEMMA SendKeeps ==
  ASSUME IInv, TypeOK', NEW b \in Buffers, NEW id \in Ids, SendData(b, id),
         \A p \in Pipes : os[p].link # "none" /\ res[p].llId = id =>
           <<id, os[p].client>> \in served
  PROVE  /\ Sessions' /\ RepliesReachTheirAsker'
         /\ UNCHANGED <<m_aPipes, os, served>>
         /\ \A p \in Pipes : res'[p].llId = res[p].llId
<1>1. UNCHANGED <<m_aPipes, os, served, m_llNextId>> /\ UNCHANGED history
  BY DEF SendData, system, history
<1>2. RepliesReachTheirAsker'
  BY <1>1, HistoryKeeps
<1>3. CASE UNCHANGED res
  <2>1. m_llNextId' \in Nat /\ m_llNextId <= m_llNextId'
    BY <1>1 DEF IInv, TypeOK, Ids
  <2>2. QED
    BY <1>1, <1>2, <1>3, <2>1, StillKeeps
<1>4. ASSUME NEW p \in Addressees(id),
             res' = [res EXCEPT ![p] = Push(@, [pHead |-> b, to |-> id])]
      PROVE  Sessions' /\ \A q \in Pipes : res'[q].llId = res[q].llId
  <2> DEFINE d == [pHead |-> b, to |-> id]
             r == Push(res[p], d)
  <2>1. p \in Pipes /\ os[p].link # "none" /\ res[p].llId = id
    BY DEF Addressees, OpenPipes, IInv, TypeOK
  <2>2. d \in SData /\ d.to = id /\ res[p] \in SPipeResource
    BY <2>1 DEF SData, IInv, TypeOK
  <2> HIDE DEF d
  <2>3. /\ r \in SPipeResource /\ r.cWriteQueue # << >>
        /\ \A n \in DOMAIN r.cWriteQueue :
             \/ r.cWriteQueue[n] = d
             \/ n \in DOMAIN res[p].cWriteQueue
                /\ r.cWriteQueue[n] = res[p].cWriteQueue[n]
    BY <2>2, PushType
  <2>4. /\ r.llId = res[p].llId /\ r.eStatus = res[p].eStatus
        /\ r.fPending = res[p].fPending /\ r.fWritePending = res[p].fWritePending
    BY <2>2 DEF Push, SPipeResource
  <2>5. <<id, os[p].client>> \in served /\ Session(p)
    BY <2>1 DEF IInv, Sessions
  <2>6. r.eStatus = "kReading" /\ (os[p].writeIo # "idle" => r.fWritePending)
    BY <2>1, <2>4, <2>5 DEF Session
  <2>7. res' = [res EXCEPT ![p] = r] /\ os' = [os EXCEPT ![p] = os[p]]
    BY <1>1, <1>4 DEF d, IInv, TypeOK
  <2>8. \A n \in DOMAIN r.cWriteQueue :
           \/ <<r.cWriteQueue[n].to, os[p].client>> \in served
           \/ \E m \in DOMAIN res[p].cWriteQueue :
                r.cWriteQueue[n] = res[p].cWriteQueue[m]
    BY <2>2, <2>3, <2>5
  <2> HIDE DEF r
  <2>9. Sessions'
    <3>1. os[p].writeIo # "idle" => r.fWritePending /\ r.cWriteQueue # << >>
      BY <2>3, <2>6
    <3>2. r.eStatus # "kReading" => r.cWriteQueue = << >>
      BY <2>6
    <3>3. QED
      BY <1>1, <2>1, <2>4, <2>7, <2>8, <3>1, <3>2, QueueKeeps
  <2>10. \A q \in Pipes : res'[q].llId = res[q].llId
    BY <2>4, <2>7 DEF IInv, TypeOK
  <2>11. QED
    BY <2>9, <2>10
<1>5. QED
  BY <1>1, <1>2, <1>3, <1>4 DEF SendData

\* The sends of the devices and of ProcessData keep IInv.
LEMMA DevicesKeep ==
  ASSUME IInv, TypeOK', DeviceSend \/ ProcessSent
  PROVE  IndKept
<1>1. CASE DeviceSend
  <2>1. PICK b \in Buffers, id \in KnownIds : SendData(b, id)
    BY <1>1 DEF DeviceSend
  <2>2. PICK s \in served : s[1] = id
    BY <2>1 DEF KnownIds
  <2>3. s = <<s[1], s[2]>> /\ id \in Ids
    BY <2>2 DEF IInv, TypeOK
  <2>4. \A p \in Pipes : os[p].link # "none" /\ res[p].llId = id =>
          <<id, os[p].client>> \in served
    BY <2>2, <2>3 DEF IInv, Sessions, Session
  <2>5. /\ Sessions' /\ RepliesReachTheirAsker'
        /\ UNCHANGED <<m_aPipes, os, served>>
        /\ \A p \in Pipes : res'[p].llId = res[p].llId
    BY <2>1, <2>3, <2>4, SendKeeps
  <2>6. pc' = pc /\ cur' = cur
    BY <1>1 DEF DeviceSend, control
  <2>7. pc \in {"process", "sending"} => m_aPipes[cur] \in Pipes
    BY HandledPipe DEF IInv
  <2>8. QED
    BY <2>5, <2>6, <2>7 DEF IndKept, ThreadServed, Handled, IInv
<1>2. CASE ProcessSent
  <2> DEFINE p == m_aPipes[cur]
  <2>1. p \in Pipes /\ os[p].link # "none" /\ res[p].llId \in Ids
    BY <1>2, HandledPipe DEF ProcessSent, IInv, TypeOK, SPipeResource
  <2>2. <<res[p].llId, os[p].client>> \in served
    BY <1>2 DEF ProcessSent, IInv, ThreadServed, Handled
  <2>3. \A q \in Pipes : os[q].link # "none" /\ res[q].llId = res[p].llId =>
          <<res[p].llId, os[q].client>> \in served
    BY <2>1, <2>2 DEF IInv, Sessions, IdsDistinct
  <2>4. cur' = cur
    BY <1>2 DEF ProcessSent
  <2>5. CASE \E b \in Buffers : SendData(b, res[p].llId)
    <3>1. /\ Sessions' /\ RepliesReachTheirAsker'
          /\ UNCHANGED <<m_aPipes, os, served>>
          /\ \A q \in Pipes : res'[q].llId = res[q].llId
      BY <2>1, <2>3, <2>5, SendKeeps
    <3>2. QED
      BY <2>1, <2>2, <2>4, <3>1 DEF IndKept, ThreadServed, Handled
  <2>6. CASE UNCHANGED <<resources, system, s_llQueueBytes, status, history>>
    <3>1. /\ UNCHANGED <<m_aPipes, res, os, served>> /\ UNCHANGED history
          /\ m_llNextId' \in Nat /\ m_llNextId <= m_llNextId'
      BY <2>6 DEF resources, system, history, IInv, TypeOK, Ids
    <3>2. Sessions' /\ RepliesReachTheirAsker'
      BY <3>1, StillKeeps, HistoryKeeps
    <3>3. QED
      BY <2>2, <2>4, <3>1, <3>2 DEF IndKept, ThreadServed, Handled
  <2>7. QED
    BY <1>2, <2>5, <2>6 DEF ProcessSent
<1>3. QED
  BY <1>1, <1>2

\* Close keeps IInv: it frees every instance.
LEMMA CloseKeeps ==
  ASSUME IInv, TypeOK', CloseEnd PROVE IndKept
<1>1. /\ \A p \in Pipes : os'[p].link = "none"
      /\ UNCHANGED <<m_llNextId, served>> /\ UNCHANGED history /\ pc' = "none"
  BY DEF CloseEnd, Unlinked, history
<1>2. Sessions'
  BY <1>1 DEF Sessions, Session, IdsDistinct, ServedBefore, IInv
<1>3. QED
  BY <1>1, <1>2, HistoryKeeps DEF IndKept, ThreadServed

\* Clients and the system leave the id and the queue alone; the client only
\* changes while nobody is connected.
LEMMA OutsideKeeps ==
  ASSUME IInv, TypeOK', NEW p \in Pipes, os[p].link # "none", NEW r, NEW o,
         res' = [res EXCEPT ![p] = r], os' = [os EXCEPT ![p] = o],
         r.llId = res[p].llId, r.eStatus = res[p].eStatus,
         r.cWriteQueue = res[p].cWriteQueue,
         r.fWritePending = res[p].fWritePending,
         o.link # "none", Awaited(r, o),
         o.client = os[p].client \/ os[p].link = "avail",
         o.writeIo # "idle" => os[p].writeIo # "idle",
         UNCHANGED <<m_llNextId, served, m_aPipes, pc, cur>>
  PROVE  Sessions' /\ ThreadServed'
<1>1. res'[p] = r /\ os'[p] = o /\ \A q \in Pipes : q # p => os'[q] = os[q] /\ res'[q] = res[q]
  BY DEF IInv, TypeOK
<1>2. Session(p) /\ m_llNextId \in Nat
  BY DEF IInv, TypeOK, Sessions, Ids
<1>3. o.client = os[p].client \/ res[p].eStatus # "kReading"
  BY <1>2 DEF Session, Awaited
<1>4. Session(p)'
  <2>1. CASE o.client = os[p].client
    BY <1>1, <1>2, <2>1 DEF Session
  <2>2. CASE res[p].eStatus # "kReading"
    BY <1>1, <1>2, <2>2 DEF Session
  <2>3. QED
    BY <1>3, <2>1, <2>2
<1>5. Sessions'
  <2>1. m_llNextId <= m_llNextId' /\ served' = served
    BY <1>2
  <2>2. QED
    BY <1>4, <2>1, OneSession
<1>6. ThreadServed'
  <2>1. SUFFICES ASSUME pc \in {"process", "sending"} PROVE Handled' \in served
    BY DEF ThreadServed
  <2>2. PICK q \in Pipes : q = m_aPipes[cur] /\ os[q].link # "none"
    BY <2>1, HandledPipe DEF IInv
  <2>3. <<res[q].llId, os[q].client>> \in served
    BY <2>1, <2>2 DEF IInv, ThreadServed, Handled
  <2>4. res'[q].llId = res[q].llId /\ os'[q].client = os[q].client
    <3>1. CASE q # p
      BY <1>1, <3>1
    <3>2. CASE q = p
      <4>1. res[p].eStatus = "kReading"
        BY <1>2, <2>2, <2>3, <3>2 DEF Session
      <4>2. QED
        BY <1>1, <1>3, <3>2, <4>1
    <3>3. QED
      BY <3>1, <3>2
  <2>5. QED
    BY <2>2, <2>3, <2>4 DEF Handled
<1>7. QED
  BY <1>5, <1>6

\* A client that connects enters an instance whose session has no client yet.
LEMMA ConnectKeeps ==
  ASSUME IInv, TypeOK', NEW p \in Pipes, ClientConnect(p) PROVE IndKept
<1> DEFINE listening == os[p].readIo = "pending"
           r == [res[p] EXCEPT !.hEvent = @ \/ listening]
           o == [os[p] EXCEPT !.link = "open", !.client = nClients + 1,
                              !.readIo = IF listening THEN "ok" ELSE @]
<1>1. res[p] \in SPipeResource /\ os[p] \in Instance
  BY DEF IInv, TypeOK
<1>2. /\ r.llId = res[p].llId /\ r.eStatus = res[p].eStatus
      /\ r.cWriteQueue = res[p].cWriteQueue
      /\ r.fWritePending = res[p].fWritePending
  BY <1>1 DEF SPipeResource
<1>3. o.link = "open" /\ o.writeIo = os[p].writeIo /\ os[p].link = "avail"
  BY <1>1 DEF Instance, ClientConnect
<1>4. res' = [res EXCEPT ![p] = r] /\ os' = [os EXCEPT ![p] = o]
  BY DEF ClientConnect, IInv, TypeOK
<1>5. UNCHANGED <<m_llNextId, served, m_aPipes, pc, cur>> /\ UNCHANGED history
  BY DEF ClientConnect, control, history
<1> HIDE DEF r, o
<1>6. Awaited(r, o)
  BY <1>3 DEF Awaited
<1>7. QED
  BY <1>2, <1>3, <1>4, <1>5, <1>6, OutsideKeeps, HistoryKeeps DEF IndKept

\* A client that writes to its pipe keeps IInv.
LEMMA ClientWriteKeeps ==
  ASSUME IInv, TypeOK', NEW p \in Pipes, ClientWrite(p) PROVE IndKept
<1>1. res[p] \in SPipeResource /\ os[p] \in Instance /\ os[p].link = "open"
  BY DEF IInv, TypeOK, ClientWrite
<1>2. UNCHANGED <<m_llNextId, served, m_aPipes, pc, cur>> /\ UNCHANGED history
  BY DEF ClientWrite, control, history
<1> DEFINE r1 == [res[p] EXCEPT !.hEvent = TRUE]
           o1(io) == [os[p] EXCEPT !.readIo = io]
           o2(m) == [os[p] EXCEPT !.inbox = Append(os[p].inbox, m)]
<1>3. ASSUME NEW r, NEW o, res' = [res EXCEPT ![p] = r],
             os' = [os EXCEPT ![p] = o],
             r.llId = res[p].llId, r.eStatus = res[p].eStatus,
             r.cWriteQueue = res[p].cWriteQueue,
             r.fWritePending = res[p].fWritePending,
             o.link = "open", o.client = os[p].client, o.writeIo = os[p].writeIo
      PROVE  IndKept
  <2>1. Awaited(r, o)
    BY <1>3 DEF Awaited
  <2>2. QED
    BY <1>1, <1>2, <1>3, <2>1, OutsideKeeps, HistoryKeeps DEF IndKept
<1>4. /\ r1.llId = res[p].llId /\ r1.eStatus = res[p].eStatus
      /\ r1.cWriteQueue = res[p].cWriteQueue
      /\ r1.fWritePending = res[p].fWritePending
  BY <1>1 DEF SPipeResource
<1>5. ASSUME NEW x
      PROVE  /\ o1(x).link = "open" /\ o1(x).client = os[p].client
             /\ o1(x).writeIo = os[p].writeIo
             /\ o2(x).link = "open" /\ o2(x).client = os[p].client
             /\ o2(x).writeIo = os[p].writeIo
  BY <1>1 DEF Instance
<1>6. \/ \E io : res' = [res EXCEPT ![p] = r1] /\ os' = [os EXCEPT ![p] = o1(io)]
      \/ \E m : res' = [res EXCEPT ![p] = res[p]] /\ os' = [os EXCEPT ![p] = o2(m)]
  BY DEF ClientWrite, IInv, TypeOK
<1> HIDE DEF r1, o1, o2
<1>7. QED
  BY <1>3, <1>4, <1>5, <1>6

\* A client that takes the reply written to it keeps IInv: the reply is one of a
\* request it made.
LEMMA ClientReadKeeps ==
  ASSUME IInv, TypeOK', NEW p \in Pipes, ClientRead(p) PROVE IndKept
<1> DEFINE r == [res[p] EXCEPT !.hWriteEvent = TRUE]
           o == [os[p] EXCEPT !.writeIo = "ok"]
<1>1. /\ res[p] \in SPipeResource /\ os[p] \in Instance /\ os[p].link = "open"
      /\ os[p].writeIo = "pending" /\ Session(p)
  BY DEF IInv, TypeOK, ClientRead, Sessions
<1>2. res[p].cWriteQueue # << >>
  BY <1>1 DEF Session
<1>3. /\ r.llId = res[p].llId /\ r.eStatus = res[p].eStatus
      /\ r.cWriteQueue = res[p].cWriteQueue
      /\ r.fWritePending = res[p].fWritePending
      /\ o.link = "open" /\ o.client = os[p].client
  BY <1>1 DEF SPipeResource, Instance
<1>4. res' = [res EXCEPT ![p] = r] /\ os' = [os EXCEPT ![p] = o]
  BY DEF ClientRead
<1>5. /\ UNCHANGED <<m_llNextId, served, m_aPipes, pc, cur>>
      /\ arrived' = arrived \cup {<<Head(res[p].cWriteQueue).to, os[p].client>>}
  BY DEF ClientRead, control
<1> HIDE DEF r, o
<1>6. Awaited(r, o)
  BY <1>3 DEF Awaited
<1>7. RepliesReachTheirAsker'
  BY <1>1, <1>2, <1>5, ArriveKeeps
<1>8. Sessions' /\ ThreadServed'
  BY <1>1, <1>3, <1>4, <1>5, <1>6, OutsideKeeps
<1>9. QED
  BY <1>7, <1>8 DEF IndKept

\* A client that leaves keeps IInv: its session waits to be dropped.
LEMMA ClientCloseKeeps ==
  ASSUME IInv, TypeOK', NEW p \in Pipes, ClientClose(p) PROVE IndKept
<1> DEFINE r == [res[p] EXCEPT !.hEvent = @ \/ os[p].readIo = "pending",
                               !.hWriteEvent = @ \/ os[p].writeIo = "pending"]
           o == [os[p] EXCEPT !.link = "broken", !.readIo = Ended(@),
                              !.writeIo = Ended(@)]
<1>1. res[p] \in SPipeResource /\ os[p] \in Instance /\ os[p].link = "open"
  BY DEF IInv, TypeOK, ClientClose
<1>2. /\ r.llId = res[p].llId /\ r.eStatus = res[p].eStatus
      /\ r.cWriteQueue = res[p].cWriteQueue
      /\ r.fWritePending = res[p].fWritePending
      /\ o.link = "broken" /\ o.client = os[p].client
      /\ o.writeIo # "idle" => os[p].writeIo # "idle"
  BY <1>1 DEF SPipeResource, Instance, Ended
<1>3. res' = [res EXCEPT ![p] = r] /\ os' = [os EXCEPT ![p] = o]
  BY DEF ClientClose, IInv, TypeOK
<1>4. UNCHANGED <<m_llNextId, served, m_aPipes, pc, cur>> /\ UNCHANGED history
  BY DEF ClientClose, control, history
<1> HIDE DEF r, o
<1>5. Awaited(r, o)
  BY <1>2 DEF Awaited
<1>6. QED
  BY <1>1, <1>2, <1>3, <1>4, <1>5, OutsideKeeps, HistoryKeeps DEF IndKept

\* A connection that the system breaks keeps IInv.
LEMMA ConnectFailsKeeps ==
  ASSUME IInv, TypeOK', NEW p \in Pipes, ConnectFails(p) PROVE IndKept
<1> DEFINE r == [res[p] EXCEPT !.hEvent = TRUE]
           o == [os[p] EXCEPT !.readIo = "failed"]
<1>1. /\ res[p] \in SPipeResource /\ os[p] \in Instance /\ os[p].link = "avail"
      /\ Session(p)
  BY DEF IInv, TypeOK, ConnectFails, Sessions
<1>2. /\ r.llId = res[p].llId /\ r.eStatus = res[p].eStatus
      /\ r.cWriteQueue = res[p].cWriteQueue
      /\ r.fWritePending = res[p].fWritePending /\ r.fPending = res[p].fPending
      /\ o.link = os[p].link /\ o.client = os[p].client
      /\ o.writeIo = os[p].writeIo /\ o.readIo = "failed"
  BY <1>1 DEF SPipeResource, Instance
<1>3. res' = [res EXCEPT ![p] = r] /\ os' = [os EXCEPT ![p] = o]
  BY DEF ConnectFails
<1>4. UNCHANGED <<m_llNextId, served, m_aPipes, pc, cur>> /\ UNCHANGED history
  BY DEF ConnectFails, control, history
<1> HIDE DEF r, o
<1>5. Awaited(r, o)
  BY <1>1, <1>2 DEF Awaited, Session
<1>6. QED
  BY <1>1, <1>2, <1>3, <1>4, <1>5, OutsideKeeps, HistoryKeeps DEF IndKept

-----------------------------------------------------------------------------
\* Every step of the pipe server, its threads, devices and clients keeps IInv.
LEMMA NextIInv == IInv /\ [Next]_vars => IInv'
<1> SUFFICES ASSUME IInv, [Next]_vars PROVE IInv'
  OBVIOUS
<1>1. TypeOK'
  <2>1. \A p \in Pipes : ClientRead(p) => res[p].cWriteQueue # << >>
    BY DEF IInv, Sessions, Session, ClientRead
  <2>2. QED
    BY <2>1, NextTypeOK DEF IInv
<1>2. IndKept
  <2>1. CASE \E p \in Pipes : InitComm(p)
    BY <1>1, <2>1, CreateKeeps
  <2>2. CASE InitCommFails \/ OtherComms \/ UNCHANGED vars
    BY <1>1, <2>2, PassiveKeeps
  <2>3. CASE PipeThread
    BY <1>1, <2>3, CreateKeeps, PassiveKeeps, HandlersKeep, WriteKeeps,
       DevicesKeep DEF PipeThread
  <2>4. CASE DeviceSend
    BY <1>1, <2>4, DevicesKeep
  <2>5. CASE Closer
    BY <1>1, <2>5, PassiveKeeps, CloseKeeps DEF Closer, Closing, CloseJoined, CloseTimeout
  <2>6. ASSUME NEW p \in Pipes, Client(p) \/ ConnectFails(p) PROVE IndKept
    BY <1>1, <2>6, ConnectKeeps, ClientWriteKeeps, ClientReadKeeps,
       ClientCloseKeeps, ConnectFailsKeeps DEF Client
  <2>7. QED
    BY <2>1, <2>2, <2>3, <2>4, <2>5, <2>6 DEF Next
<1>3. QED
  BY <1>1, <1>2 DEF IInv, IndKept

\* The inductive invariant: in every reachable state each open instance has one
\* session (Session), ids are never shared or reused (m_llNextId of CPipeServer)
\* and what is written to a client was produced for it.
THEOREM Inductive == Spec => []IInv
<1>1. QED
  BY InitIInv, NextIInv, PTL DEF Spec

\* Whatever the clients, the devices and the system do, for any number of
\* instances, clients and buffers, the state of a CPipeServer has its type.
THEOREM TypeCorrect == Spec => []TypeOK
<1>1. IInv => TypeOK
  BY DEF IInv
<1>2. QED
  BY <1>1, Inductive, PTL

\* No client ever receives a reply to a request of another one ("so that we
\* won't get data from previous user"), and no id serves two clients.
THEOREM ClientsIsolated == Spec => []RepliesReachTheirAsker
<1>1. IInv => RepliesReachTheirAsker
  BY DEF IInv
<1>2. QED
  BY <1>1, Inductive, PTL
=============================================================================
