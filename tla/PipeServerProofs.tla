-------------------------- MODULE PipeServerProofs --------------------------
(***************************************************************************)
(* Every step of CPipeServer preserves TypeOK, one lemma for each action.  *)
(***************************************************************************)
EXTENDS PipeServerProps, SequenceTheorems, TLAPS

-----------------------------------------------------------------------------
(* What the helpers on resources, instances and the list of instances do   *)

\* The constructor of SPipeResource yields an instance of its type.
LEMMA NewResourceType ==
  ASSUME NEW id \in Ids, NEW s \in BOOLEAN
  PROVE  NewResource(id, s) \in SPipeResource
  BY DEF NewResource, SPipeResource, ePipeStatus, Ids

\* So does the reset of an instance for its next client.
LEMMA ResetResourceType ==
  ASSUME NEW r \in SPipeResource
  PROVE  ResetResource(r) \in SPipeResource
  BY DEF ResetResource, SPipeResource, ePipeStatus

\* Queueing a reply keeps the type of an instance.
LEMMA PushType ==
  ASSUME NEW r \in SPipeResource, NEW d \in SData
  PROVE  /\ Push(r, d) \in SPipeResource
         /\ Push(r, d).cWriteQueue # << >>
         /\ \A n \in DOMAIN Push(r, d).cWriteQueue :
              \/ Push(r, d).cWriteQueue[n] = d
              \/ n \in DOMAIN r.cWriteQueue /\ Push(r, d).cWriteQueue[n] = r.cWriteQueue[n]
<1> DEFINE q == r.cWriteQueue
<1>1. q \in Seq(SData) /\ DOMAIN q = 1 .. Len(q) /\ Len(q) \in Nat
  BY LenProperties DEF SPipeResource
<1>2. /\ Append(q, d) \in Seq(SData) /\ Append(q, d) # << >>
      /\ Len(Append(q, d)) = Len(q) + 1
      /\ \A n \in 1 .. Len(q) : Append(q, d)[n] = q[n]
      /\ Append(q, d)[Len(q) + 1] = d
  BY <1>1, AppendProperties
<1>3. Push(r, d) \in SPipeResource /\ Push(r, d).cWriteQueue = Append(q, d)
  BY <1>1, <1>2 DEF Push, SPipeResource
<1>4. DOMAIN Append(q, d) = 1 .. Len(q) + 1
  BY <1>2, LenProperties
<1>5. QED
  BY <1>1, <1>2, <1>3, <1>4

\* Releasing what was written keeps the type of an instance.
LEMMA PopWrittenType ==
  ASSUME NEW r \in SPipeResource, r.cWriteQueue # << >>
  PROVE  /\ PopWritten(r) \in SPipeResource
         /\ Head(r.cWriteQueue) \in SData
         /\ Head(r.cWriteQueue) = r.cWriteQueue[1] /\ 1 \in DOMAIN r.cWriteQueue
         /\ \A n \in DOMAIN PopWritten(r).cWriteQueue :
              n + 1 \in DOMAIN r.cWriteQueue
              /\ PopWritten(r).cWriteQueue[n] = r.cWriteQueue[n + 1]
<1> DEFINE q == r.cWriteQueue
<1>1. q \in Seq(SData) /\ DOMAIN q = 1 .. Len(q) /\ Len(q) \in Nat \ {0}
  BY LenProperties, EmptySeq DEF SPipeResource
<1>2. /\ Head(q) \in SData /\ Head(q) = q[1]
      /\ Tail(q) \in Seq(SData) /\ Len(Tail(q)) = Len(q) - 1
      /\ \A n \in 1 .. Len(q) - 1 : Tail(q)[n] = q[n + 1]
  BY <1>1, HeadTailProperties
<1>3. PopWritten(r) \in SPipeResource /\ PopWritten(r).cWriteQueue = Tail(q)
  BY <1>1, <1>2 DEF PopWritten, SPipeResource
<1>4. DOMAIN Tail(q) = 1 .. Len(q) - 1
  BY <1>2, LenProperties
<1>5. QED
  BY <1>1, <1>2, <1>3, <1>4

\* The instance a destroyed SPipeResource leaves has its type.
LEMMA UnlinkedType ==
  ASSUME NEW link \in {"none", "avail", "off", "open", "broken"}
  PROVE  Unlinked(link) \in Instance
  BY DEF Unlinked, Instance

\* Erasing one element of the list shortens it by one; every other element stays.
LEMMA RemoveAtProperties ==
  ASSUME NEW S, NEW s \in Seq(S), NEW i \in 1 .. Len(s)
  PROVE  /\ RemoveAt(s, i) \in Seq(S)
         /\ Len(RemoveAt(s, i)) = Len(s) - 1
         /\ \A n \in 1 .. Len(s) - 1 :
              RemoveAt(s, i)[n] = s[IF n < i THEN n ELSE n + 1]
<1>1. Len(s) \in Nat /\ \A n \in 1 .. Len(s) : s[n] \in S
  BY LenProperties, ElementOfSeq
<1> DEFINE a == SubSeq(s, 1, i - 1)
           b == SubSeq(s, i + 1, Len(s))
<1>2. a \in Seq(S) /\ Len(a) = i - 1 /\ \A n \in 1 .. i - 1 : a[n] = s[n]
  BY <1>1, SubSeqProperties
<1>3. /\ b \in Seq(S) /\ Len(b) = Len(s) - i
      /\ \A n \in 1 .. Len(s) - i : b[n] = s[n + i]
  BY <1>1, SubSeqProperties
<1> HIDE DEF a, b
<1>4. /\ a \o b \in Seq(S) /\ Len(a \o b) = Len(a) + Len(b)
      /\ \A n \in 1 .. Len(a) + Len(b) :
           (a \o b)[n] = IF n <= Len(a) THEN a[n] ELSE b[n - Len(a)]
  BY <1>2, <1>3, ConcatProperties
<1>5. ASSUME NEW n \in 1 .. Len(s) - 1
      PROVE  (a \o b)[n] = s[IF n < i THEN n ELSE n + 1]
  <2>1. CASE n < i
    BY <2>1, <1>1, <1>2, <1>3, <1>4
  <2>2. CASE ~(n < i)
    <3>1. n - (i - 1) \in 1 .. Len(s) - i /\ n - (i - 1) + i = n + 1
      BY <2>2, <1>1
    <3>2. (a \o b)[n] = b[n - (i - 1)]
      BY <2>2, <1>1, <1>2, <1>3, <1>4
    <3>3. b[n - (i - 1)] = s[n + 1]
      BY <3>1, <1>3
    <3>4. QED
      BY <2>2, <3>2, <3>3
  <2>3. QED
    BY <2>1, <2>2
<1>6. RemoveAt(s, i) = a \o b
  BY DEF RemoveAt, a, b
<1>7. Len(a) + Len(b) = Len(s) - 1
  BY <1>1, <1>2, <1>3
<1>8. QED
  BY <1>4, <1>5, <1>6, <1>7

\* Erasing an instance from m_aPipes leaves a list without repetitions, of the
\* instances that still have a handle.
LEMMA ErasePreserves ==
  ASSUME NEW i \in DOMAIN m_aPipes,
         m_aPipes \in Seq(Pipes), IsInjective(m_aPipes)
  PROVE  /\ Erase(i) \in Seq(Pipes) /\ IsInjective(Erase(i))
         /\ Range(Erase(i)) = Range(m_aPipes) \ {m_aPipes[i]}
<1> DEFINE N == Len(m_aPipes)
           Old(n) == IF n < i THEN n ELSE n + 1
           New(k) == IF k < i THEN k ELSE k - 1
<1>1. DOMAIN m_aPipes = 1 .. N /\ N \in Nat
  BY LenProperties
<1>2. /\ Erase(i) \in Seq(Pipes)
      /\ Len(Erase(i)) = N - 1
      /\ \A n \in 1 .. N - 1 : Erase(i)[n] = m_aPipes[Old(n)]
  BY <1>1, RemoveAtProperties DEF Erase
<1>3. DOMAIN Erase(i) = 1 .. N - 1
  BY <1>2, LenProperties
<1>4. /\ \A n \in 1 .. N - 1 : Old(n) \in DOMAIN m_aPipes /\ Old(n) # i
      /\ \A m, n \in 1 .. N - 1 : Old(m) = Old(n) => m = n
      /\ \A k \in DOMAIN m_aPipes :
           k # i => New(k) \in 1 .. N - 1 /\ Old(New(k)) = k
  BY <1>1
<1> HIDE DEF Old, New
<1>5. IsInjective(Erase(i))
  BY <1>2, <1>3, <1>4 DEF IsInjective
<1>6. \A x : x \in Range(Erase(i)) => x \in Range(m_aPipes) /\ x # m_aPipes[i]
  BY <1>2, <1>3, <1>4 DEF Range, IsInjective
<1>7. \A x : x \in Range(m_aPipes) /\ x # m_aPipes[i] => x \in Range(Erase(i))
  <2>1. SUFFICES ASSUME NEW k \in DOMAIN m_aPipes, k # i
                 PROVE  m_aPipes[k] \in Range(Erase(i))
    BY DEF Range
  <2>2. New(k) \in DOMAIN Erase(i) /\ Erase(i)[New(k)] = m_aPipes[k]
    BY <2>1, <1>2, <1>3, <1>4
  <2>3. QED
    BY <2>2 DEF Range
<1>8. QED
  BY <1>2, <1>5, <1>6, <1>7

\* The same for the list that grows by an instance not in it.
LEMMA AppendPreserves ==
  ASSUME NEW p \in Pipes, p \notin Range(m_aPipes),
         m_aPipes \in Seq(Pipes), IsInjective(m_aPipes)
  PROVE  /\ Append(m_aPipes, p) \in Seq(Pipes) /\ IsInjective(Append(m_aPipes, p))
         /\ Range(Append(m_aPipes, p)) = Range(m_aPipes) \cup {p}
<1> DEFINE N == Len(m_aPipes)
           t == Append(m_aPipes, p)
<1>1. DOMAIN m_aPipes = 1 .. N /\ N \in Nat
  BY LenProperties
<1>2. /\ t \in Seq(Pipes) /\ Len(t) = N + 1
      /\ \A n \in 1 .. N : t[n] = m_aPipes[n]
      /\ t[N + 1] = p
  BY AppendProperties
<1>3. DOMAIN t = 1 .. N + 1
  BY <1>2, LenProperties
<1> HIDE DEF t
<1>4. IsInjective(t)
  <2>1. SUFFICES ASSUME NEW m \in 1 .. N + 1, NEW n \in 1 .. N + 1, t[m] = t[n]
                 PROVE  m = n
    BY <1>3 DEF IsInjective
  <2>2. \A k \in 1 .. N : m_aPipes[k] # p
    BY <1>1 DEF Range
  <2>3. QED
    BY <1>1, <1>2, <2>1, <2>2 DEF IsInjective
<1>5. Range(t) = Range(m_aPipes) \cup {p}
  BY <1>1, <1>2, <1>3 DEF Range
<1>6. QED
  BY <1>2, <1>4, <1>5 DEF t

ListOK ==
  /\ m_aPipes \in Seq(Pipes) /\ IsInjective(m_aPipes)
  /\ OpenPipes = {p \in Pipes : os[p].link # "none"}

\* Ending a session, by erasing the instance or resetting it, keeps the types.
LEMMA DropType ==
  ASSUME TypeOK, NEW i \in DOMAIN m_aPipes, DropInstance(i)
  PROVE  /\ ListOK'
         /\ res' \in [Pipes -> SPipeResource] /\ os' \in [Pipes -> Instance]
         /\ m_nConnected' \in Int /\ m_llNextId' \in Ids /\ bError' = bError
         /\ status' \in [Buffers -> {"idle", "held", "passed", "failed", "refused"}]
<1> DEFINE p == m_aPipes[i]
<1>1. p \in Pipes
  BY LenProperties, ElementOfSeq DEF TypeOK
<1>2. CASE ResetInstance(p)
  <2>1. m_aPipes' = m_aPipes /\ m_nConnected' = m_nConnected /\ bError' = bError
    BY <1>2 DEF ResetInstance
  <2>2. res' \in [Pipes -> SPipeResource]
    <3>1. ResetResource(res[p]) \in SPipeResource
      BY <1>1, ResetResourceType DEF TypeOK
    <3>2. << >> \in Seq(SData)
      BY EmptySeq
    <3>3. QED
      BY <1>1, <1>2, <3>1, <3>2 DEF ResetInstance, TypeOK, SPipeResource, Ids
  <2>3. os' \in [Pipes -> Instance]
    BY <1>1, <1>2, UnlinkedType DEF ResetInstance, TypeOK
  <2>4. m_llNextId' \in Ids
    BY <1>2 DEF ResetInstance, IdTaken, Ids, TypeOK
  <2>5. status' \in [Buffers -> {"idle", "held", "passed", "failed", "refused"}]
    BY <1>2 DEF ResetInstance, Result, TypeOK
  <2>6. ListOK'
    <3>1. \A q \in Pipes : (os[q].link # "none") <=> (os'[q].link # "none")
      <4>1. p \in OpenPipes
        BY DEF OpenPipes, Range
      <4>2. QED
        BY <1>1, <1>2, <4>1 DEF ResetInstance, Unlinked, TypeOK
    <3>2. QED
      BY <2>1, <3>1 DEF TypeOK, ListOK, OpenPipes, IsInjective, Range
  <2>7. QED
    BY <2>1, <2>2, <2>3, <2>4, <2>5, <2>6 DEF TypeOK
<1>3. CASE DeleteInstance(i)
  <2>1. m_aPipes' = Erase(i) /\ UNCHANGED <<m_llNextId, bError>>
    BY <1>3 DEF DeleteInstance
  <2>2. /\ m_aPipes' \in Seq(Pipes) /\ IsInjective(m_aPipes')
        /\ OpenPipes' = OpenPipes \ {p}
    BY <2>1, ErasePreserves DEF TypeOK, OpenPipes
  <2>3. res' \in [Pipes -> SPipeResource] /\ os' \in [Pipes -> Instance]
    BY <1>1, <1>3, NewResourceType, UnlinkedType DEF DeleteInstance, TypeOK, Ids
  <2>4. m_nConnected' \in Int
    BY <1>3 DEF DeleteInstance, ConnectedAfter, TypeOK
  <2>5. status' \in [Buffers -> {"idle", "held", "passed", "failed", "refused"}]
    BY <1>3 DEF DeleteInstance, Result, TypeOK
  <2>6. {q \in Pipes : os'[q].link # "none"} = OpenPipes \ {p}
    BY <1>1, <1>3 DEF DeleteInstance, Unlinked, TypeOK
  <2>7. QED
    BY <2>1, <2>2, <2>3, <2>4, <2>5, <2>6 DEF TypeOK, ListOK
<1>4. QED
  BY <1>2, <1>3 DEF DropInstance

-----------------------------------------------------------------------------
\* The state before InitCommunication has its type.
LEMMA InitTypeOK == Init => TypeOK
<1> SUFFICES ASSUME Init PROVE TypeOK
  OBVIOUS
<1>1. NewResource(0, FALSE) \in SPipeResource
  BY NewResourceType DEF Ids
<1>2. Unlinked("none") \in Instance
  BY UnlinkedType
<1>3. m_aPipes \in Seq(Pipes) /\ IsInjective(m_aPipes) /\ Len(m_aPipes) = 0
  BY EmptySeq DEF Init, IsInjective
<1>4. cur = 0
  BY DEF Init
<1>5. res \in [Pipes -> SPipeResource] /\ os \in [Pipes -> Instance]
  BY <1>1, <1>2 DEF Init
<1>6. status \in [Buffers -> {"idle", "held", "passed", "failed", "refused"}]
  BY DEF Init
<1>7. m_bWorking \in BOOLEAN /\ m_hDone \in BOOLEAN /\ bError \in BOOLEAN
  BY DEF Init
<1>8. /\ m_nConnected \in Int /\ m_llNextId \in Ids
      /\ nClients \in Nat /\ nFaults \in Nat
      /\ pc = "none" /\ closePc = "idle" /\ served = {} /\ arrived = {}
  BY DEF Init, Ids
<1>9. OpenPipes = {p \in Pipes : os[p].link # "none"}
  BY DEF Init, OpenPipes, Range, Unlinked
<1>10. QED
  BY <1>3, <1>4, <1>5, <1>6, <1>7, <1>8, <1>9 DEF TypeOK

\* The thread's variables between two handlers.
LEMMA NextIterationType ==
  ASSUME TypeOK, NextIteration
  PROVE  /\ pc' = "top" /\ cur' = 0
         /\ m_bWorking' \in BOOLEAN /\ m_hDone' \in BOOLEAN
         /\ closePc' \in {"idle", "waiting", "blocked"}
  BY DEF NextIteration, GoTo, TypeOK

\* The parts of TypeOK' for variables a step leaves alone.
LEMMA UnchangedType ==
  ASSUME TypeOK
  PROVE  /\ UNCHANGED m_aPipes /\ UNCHANGED os => ListOK'
         /\ UNCHANGED res => res' \in [Pipes -> SPipeResource]
         /\ UNCHANGED os => os' \in [Pipes -> Instance]
         /\ UNCHANGED status => status' \in [Buffers ->
               {"idle", "held", "passed", "failed", "refused"}]
         /\ UNCHANGED bError => bError' \in BOOLEAN
         /\ UNCHANGED <<served, arrived>> =>
               served' \subseteq Ids \X Nat /\ arrived' \subseteq Ids \X Nat
  BY DEF TypeOK, ListOK, IsInjective, OpenPipes, Range

\* A step that keeps the list and no handle appears or goes.
LEMMA SameList ==
  ASSUME TypeOK, UNCHANGED m_aPipes,
         \A p \in Pipes : os[p].link # "none" <=> os'[p].link # "none"
  PROVE  ListOK'
  BY DEF TypeOK, ListOK, IsInjective, OpenPipes, Range

\* The instance being handled is an open one of the list.
LEMMA HandledPipe ==
  ASSUME TypeOK, pc \in {"onEvent", "onWrite", "process", "sending"}
  PROVE  /\ cur \in DOMAIN m_aPipes /\ m_aPipes[cur] \in Pipes
         /\ m_aPipes[cur] \in OpenPipes /\ os[m_aPipes[cur]].link # "none"
<1>1. cur \in DOMAIN m_aPipes
  BY DEF TypeOK
<1>2. m_aPipes[cur] \in OpenPipes
  BY <1>1 DEF OpenPipes, Range
<1>3. QED
  BY <1>1, <1>2 DEF TypeOK

\* InitCommunication keeps the types.
LEMMA InitCommType ==
  ASSUME TypeOK, NEW p \in Pipes, InitComm(p) PROVE TypeOK'
<1> DEFINE r == NewResource(m_llNextId, FALSE)
<1>1. PICK o \in FirstLink(nClients + 1) :
        /\ nClients' = IF o.client > 0 THEN nClients + 1 ELSE nClients
        /\ \/ /\ o.link = "avail"
              /\ res' = [res EXCEPT ![p] =
                   [r EXCEPT !.fPending = TRUE, !.eStatus = "kConnecting"]]
              /\ os' = [os EXCEPT ![p] = [o EXCEPT !.readIo = "pending"]]
              /\ m_llNextId' = IdTaken
           \/ /\ o.link = "open"
              /\ res' = [res EXCEPT ![p] =
                   [r EXCEPT !.hEvent = TRUE, !.eStatus = "kConnecting"]]
              /\ os' = [os EXCEPT ![p] = o]
              /\ m_llNextId' = IdTaken
           \/ /\ o.link = "broken"
              /\ res' = [res EXCEPT ![p] =
                   [ResetResource(r) EXCEPT !.llId = m_llNextId + 1]]
              /\ os' = [os EXCEPT ![p] = Unlinked("off")]
              /\ m_llNextId' = m_llNextId + 2
  BY DEF InitComm
<1>2. r \in SPipeResource /\ ResetResource(r) \in SPipeResource
  BY NewResourceType, ResetResourceType DEF TypeOK
<1> HIDE DEF r
<1>3. res' \in [Pipes -> SPipeResource] /\ m_llNextId' \in Ids
  <2>1. m_llNextId \in Nat /\ m_llNextId' \in Ids
    BY <1>1 DEF TypeOK, IdTaken, Ids
  <2>2. PICK x \in SPipeResource : res' = [res EXCEPT ![p] = x]
    <3>1. /\ [r EXCEPT !.fPending = TRUE, !.eStatus = "kConnecting"] \in SPipeResource
          /\ [r EXCEPT !.hEvent = TRUE, !.eStatus = "kConnecting"] \in SPipeResource
      BY <1>2 DEF SPipeResource, ePipeStatus
    <3>2. [ResetResource(r) EXCEPT !.llId = m_llNextId + 1] \in SPipeResource
      BY SMTT(30), <1>2, <2>1 DEF SPipeResource, Ids
    <3>3. QED
      BY <1>1, <3>1, <3>2
  <2>3. QED
    BY <2>1, <2>2 DEF TypeOK
<1>4. /\ o \in Instance /\ o.link \in {"avail", "open", "broken"}
      /\ Unlinked("off") \in Instance /\ Unlinked("off").link = "off"
  <2>1. /\ Unlinked("avail") \in Instance /\ Unlinked("open") \in Instance
        /\ Unlinked("broken") \in Instance /\ Unlinked("off") \in Instance
    BY UnlinkedType
  <2>2. nClients + 1 \in Nat
    BY DEF TypeOK
  <2>3. QED
    BY <1>1, <2>1, <2>2 DEF FirstLink, Instance, Unlinked
<1>5. /\ os' \in [Pipes -> Instance] /\ nClients' \in Nat
      /\ os'[p].link # "none"
      /\ \A q \in Pipes : q # p => os'[q] = os[q]
  <2>1. PICK x \in Instance : x.link # "none" /\ os' = [os EXCEPT ![p] = x]
    <3>1. /\ [o EXCEPT !.readIo = "pending"] \in Instance
          /\ [o EXCEPT !.readIo = "pending"].link = o.link
      BY <1>4 DEF Instance
    <3>2. QED
      BY <1>1, <1>4, <3>1
  <2>2. nClients' \in Nat
    BY <1>1 DEF TypeOK
  <2>3. QED
    BY <2>1, <2>2 DEF TypeOK
<1>6. ListOK'
  <2>1. OpenPipes = {}
    BY DEF OpenPipes, Range, InitComm, TypeOK
  <2>2. m_aPipes' = <<p>> /\ os[p].link = "none"
    BY DEF InitComm
  <2>3. QED
    BY <1>5, <2>1, <2>2 DEF ListOK, OpenPipes, IsInjective, Range, TypeOK
<1>7. m_bWorking' \in BOOLEAN /\ m_hDone' \in BOOLEAN /\ bError' \in BOOLEAN
  BY DEF InitComm
<1>8. m_nConnected' = 0 /\ pc' = "top" /\ cur' = 0
  BY DEF InitComm
<1>9. QED
  BY <1>3, <1>5, <1>6, <1>7, <1>8, UnchangedType
  DEF InitComm, TypeOK, ListOK, history

\* An InitCommunication that fails keeps the types.
LEMMA InitCommFailsType == TypeOK /\ InitCommFails => TypeOK'
<1> SUFFICES ASSUME TypeOK, InitCommFails PROVE TypeOK'
  OBVIOUS
<1>1. m_llNextId' \in Ids /\ nFaults' \in Nat
  BY DEF InitCommFails, Fault, TypeOK, Ids
<1>2. QED
  BY <1>1, UnchangedType DEF InitCommFails, TypeOK, ListOK, control, history

\* Adding an instance when all are in use keeps the types.
LEMMA AddInstanceType == TypeOK /\ AddInstance => TypeOK'
<1> SUFFICES ASSUME TypeOK, AddInstance PROVE TypeOK'
  OBVIOUS
<1>1. /\ cur' = 0 /\ pc' = "wait" /\ nClients' \in Nat /\ m_nConnected' \in Int
      /\ m_bWorking' \in BOOLEAN /\ m_hDone' \in BOOLEAN
      /\ closePc' \in {"idle", "waiting", "blocked"}
      /\ UNCHANGED <<status, served, arrived>>
  BY DEF AddInstance, GoTo, TypeOK, history
<1>2. CASE UNCHANGED <<m_aPipes, res, m_llNextId, os>> /\ Fault /\ bError' = TRUE
  BY <1>1, <1>2, UnchangedType DEF TypeOK, ListOK, Fault
<1>3. ASSUME NEW p \in Pipes,
             os[p].link = "none",
             res' = [res EXCEPT ![p] = NewResource(m_llNextId, TRUE)],
             os' = [os EXCEPT ![p] = Unlinked("avail")],
             m_aPipes' = Append(m_aPipes, p),
             m_llNextId' = IdTaken,
             UNCHANGED <<bError, nFaults>>
      PROVE  TypeOK'
  <2>1. res' \in [Pipes -> SPipeResource] /\ os' \in [Pipes -> Instance]
    BY <1>3, NewResourceType, UnlinkedType DEF TypeOK
  <2>2. p \notin Range(m_aPipes)
    BY <1>3 DEF TypeOK, OpenPipes
  <2>3. /\ m_aPipes' \in Seq(Pipes) /\ IsInjective(m_aPipes')
        /\ OpenPipes' = OpenPipes \cup {p}
    BY <1>3, <2>2, AppendPreserves DEF TypeOK, OpenPipes
  <2>4. {q \in Pipes : os'[q].link # "none"} = OpenPipes \cup {p}
    BY <1>3 DEF TypeOK, Unlinked
  <2>5. m_llNextId' \in Ids
    BY <1>3 DEF TypeOK, IdTaken, Ids
  <2>6. QED
    BY <1>1, <1>3, <2>1, <2>3, <2>4, <2>5, UnchangedType DEF TypeOK
<1>4. QED
  BY <1>2, <1>3 DEF AddInstance

\* The steps that only move the thread on keep the types.
LEMMA PassiveType ==
  TypeOK /\ (KeepInstances \/ WaitDone \/ WaitEvent \/ ProcessSends \/ CloseBegin)
    => TypeOK'
<1> SUFFICES ASSUME TypeOK,
                    KeepInstances \/ WaitDone \/ WaitEvent \/ ProcessSends \/ CloseBegin
             PROVE  TypeOK'
  OBVIOUS
<1>1. UNCHANGED <<resources, system, status, history>>
  BY DEF KeepInstances, WaitDone, WaitEvent, ProcessSends, CloseBegin
<1>2. /\ ListOK' /\ res' \in [Pipes -> SPipeResource] /\ os' \in [Pipes -> Instance]
      /\ status' \in [Buffers -> {"idle", "held", "passed", "failed", "refused"}]
      /\ served' \subseteq Ids \X Nat /\ arrived' \subseteq Ids \X Nat
      /\ m_nConnected' \in Int /\ m_llNextId' \in Ids /\ bError' \in BOOLEAN
      /\ nClients' \in Nat /\ nFaults' \in Nat
  BY <1>1, UnchangedType DEF TypeOK, resources, system, history
<1>3. /\ m_bWorking' \in BOOLEAN /\ m_hDone' \in BOOLEAN
      /\ closePc' \in {"idle", "waiting", "blocked"}
  BY DEF KeepInstances, WaitDone, WaitEvent, ProcessSends, CloseBegin, GoTo, TypeOK
<1>4. /\ pc' \in {"none", "top", "wait", "onEvent", "onWrite", "process",
                  "sending", "exited"}
      /\ IF pc' \in {"onEvent", "onWrite", "process", "sending"}
         THEN cur' \in DOMAIN m_aPipes' ELSE cur' = 0
      /\ pc' = "none" => m_aPipes' = << >>
  BY <1>1 DEF KeepInstances, WaitDone, WaitEvent, ProcessSends, CloseBegin, GoTo,
     TypeOK, resources
<1>5. QED
  BY <1>2, <1>3, <1>4 DEF TypeOK, ListOK

\* OnCreated, OnConnecting and what ends OnReading drop the instance they handle.
LEMMA DropAndNextType ==
  ASSUME TypeOK, NEW i \in DOMAIN m_aPipes, DropInstance(i), NextIteration,
         UNCHANGED <<nClients, history>>, nFaults' \in Nat
  PROVE  TypeOK'
<1>1. /\ nClients' \in Nat /\ served' \subseteq Ids \X Nat
      /\ arrived' \subseteq Ids \X Nat
  BY DEF TypeOK, history
<1>2. bError' \in BOOLEAN
  BY DropType DEF TypeOK
<1>3. QED
  BY <1>1, <1>2, DropType, NextIterationType DEF TypeOK, ListOK

\* A counted fault keeps the counter a number.
LEMMA FaultType == TypeOK /\ Fault => nFaults' \in Nat
  BY DEF TypeOK, Fault

\* Handling kCreated keeps the types.
LEMMA OnCreatedType == TypeOK /\ OnCreated => TypeOK'
<1> SUFFICES ASSUME TypeOK, OnCreated PROVE TypeOK'
  OBVIOUS
<1> DEFINE p == m_aPipes[cur]
           r == [res[p] EXCEPT !.hEvent = FALSE]
<1>1. cur \in DOMAIN m_aPipes /\ p \in Pipes /\ os[p].link # "none"
  BY HandledPipe DEF OnCreated
<1>2. NextIteration /\ UNCHANGED <<nClients, history>>
  BY DEF OnCreated
<1>3. CASE /\ DropInstance(cur)
           /\ UNCHANGED nFaults \/ Fault
  BY <1>1, <1>2, <1>3, DropAndNextType, FaultType DEF TypeOK
<1>4. r \in SPipeResource /\ os[p] \in Instance
  <2>1. res[p] \in SPipeResource /\ os[p] \in Instance
    BY <1>1 DEF TypeOK
  <2>2. r \in SPipeResource
    BY <2>1 DEF SPipeResource
  <2> QED BY <2>1, <2>2
<1> HIDE DEF r
<1>5. CASE /\ os[p].link \in {"avail", "off"}
           /\ res' = [res EXCEPT ![p] =
                [r EXCEPT !.fPending = TRUE, !.eStatus = "kConnecting"]]
           /\ os' = [os EXCEPT ![p].link = "avail", ![p].readIo = "pending"]
           /\ UNCHANGED <<m_aPipes, m_nConnected, m_llNextId, bError, nFaults,
                          status, s_llQueueBytes>>
  <2>1. [r EXCEPT !.fPending = TRUE, !.eStatus = "kConnecting"] \in SPipeResource
    BY <1>4 DEF SPipeResource, ePipeStatus
  <2>2. res' \in [Pipes -> SPipeResource]
    BY <1>5, <2>1 DEF TypeOK
  <2>3. os' = [os EXCEPT ![p] = [os[p] EXCEPT !.link = "avail", !.readIo = "pending"]]
    BY <1>1, <1>5 DEF TypeOK
  <2>4. [os[p] EXCEPT !.link = "avail", !.readIo = "pending"] \in Instance
    BY <1>4 DEF Instance
  <2>5. os' \in [Pipes -> Instance]
    BY <2>3, <2>4 DEF TypeOK
  <2>6. ListOK'
    <3>1. \A q \in Pipes : os[q].link # "none" <=> os'[q].link # "none"
      BY <1>1, <1>4, <2>3 DEF TypeOK, Instance
    <3>2. QED
      BY <1>5, <3>1, SameList
  <2>7. QED
    BY <1>2, <1>5, <2>2, <2>5, <2>6, UnchangedType, NextIterationType
    DEF TypeOK, ListOK, history
<1>6. CASE /\ res' = [res EXCEPT ![p] =
                [r EXCEPT !.fPending = FALSE, !.hEvent = TRUE,
                          !.eStatus = "kConnecting"]]
           /\ UNCHANGED <<m_aPipes, m_nConnected, m_llNextId, bError, os,
                          nFaults, status, s_llQueueBytes>>
  <2>1. [r EXCEPT !.fPending = FALSE, !.hEvent = TRUE, !.eStatus = "kConnecting"]
          \in SPipeResource
    BY <1>4 DEF SPipeResource, ePipeStatus
  <2>2. res' \in [Pipes -> SPipeResource]
    BY <1>6, <2>1 DEF TypeOK
  <2>3. QED
    BY <1>2, <1>6, <2>2, UnchangedType, NextIterationType DEF TypeOK, ListOK, history
<1>7. QED
  BY <1>3, <1>5, <1>6 DEF OnCreated, r

\* Handling kConnecting keeps the types.
LEMMA OnConnectingType == TypeOK /\ OnConnecting => TypeOK'
<1> SUFFICES ASSUME TypeOK, OnConnecting PROVE TypeOK'
  OBVIOUS
<1> DEFINE p == m_aPipes[cur]
           r == [res[p] EXCEPT !.hEvent = FALSE]
<1>1. cur \in DOMAIN m_aPipes /\ p \in Pipes /\ os[p].link # "none"
  BY HandledPipe DEF OnConnecting
<1>2. NextIteration /\ UNCHANGED <<nClients, nFaults, history>>
  BY DEF OnConnecting
<1>3. r \in SPipeResource /\ os[p] \in Instance
  <2>1. res[p] \in SPipeResource /\ os[p] \in Instance
    BY <1>1 DEF TypeOK
  <2>2. r \in SPipeResource
    BY <2>1 DEF SPipeResource
  <2> QED BY <2>1, <2>2
<1> HIDE DEF r
<1>4. CASE DropInstance(cur)
  BY <1>1, <1>2, <1>4, DropAndNextType DEF TypeOK
<1>5. CASE /\ res' = [res EXCEPT ![p] =
                [r EXCEPT !.fPending = FALSE, !.eStatus = "kReading",
                          !.hEvent = TRUE]]
           /\ m_nConnected' = m_nConnected + 1
           /\ os' = [os EXCEPT ![p].readIo = "idle"]
           /\ UNCHANGED <<m_aPipes, m_llNextId, bError, status, s_llQueueBytes>>
  <2>1. [r EXCEPT !.fPending = FALSE, !.eStatus = "kReading", !.hEvent = TRUE]
          \in SPipeResource
    BY <1>3 DEF SPipeResource, ePipeStatus
  <2>2. res' \in [Pipes -> SPipeResource]
    BY <1>5, <2>1 DEF TypeOK
  <2>3. os' = [os EXCEPT ![p] = [os[p] EXCEPT !.readIo = "idle"]]
    BY <1>5
  <2>4. [os[p] EXCEPT !.readIo = "idle"] \in Instance
    BY <1>3 DEF Instance
  <2>5. os' \in [Pipes -> Instance]
    BY <2>3, <2>4 DEF TypeOK
  <2>6. ListOK'
    <3>1. \A q \in Pipes : os[q].link # "none" <=> os'[q].link # "none"
      BY <1>1, <1>3, <2>3 DEF TypeOK, Instance
    <3>2. QED
      BY <1>5, <3>1, SameList
  <2>7. m_nConnected' \in Int
    BY <1>5 DEF TypeOK
  <2>8. QED
    BY <1>2, <1>5, <2>2, <2>5, <2>6, <2>7, UnchangedType, NextIterationType
    DEF TypeOK, ListOK, history
<1>6. QED
  BY <1>4, <1>5 DEF OnConnecting, r

\* What the fields a handler may set do to the type of os.
LEMMA InstanceFields ==
  ASSUME TypeOK, NEW p \in Pipes, NEW o \in Instance,
         (o.link # "none") <=> (os[p].link # "none"),
         os' = [os EXCEPT ![p] = o]
  PROVE  /\ os' \in [Pipes -> Instance]
         /\ UNCHANGED m_aPipes => ListOK'
<1>1. \A q \in Pipes : os[q].link # "none" <=> os'[q].link # "none"
  BY DEF TypeOK
<1>2. QED
  BY <1>1, SameList DEF TypeOK

\* Handing a message to ProcessData keeps the types.
LEMMA CallProcessDataType ==
  ASSUME TypeOK, pc \in {"onEvent", "process"}, CallProcessData(m_aPipes[cur])
  PROVE  /\ pc' = "process" /\ cur' = cur /\ cur \in DOMAIN m_aPipes
         /\ m_bWorking' \in BOOLEAN /\ m_hDone' \in BOOLEAN
         /\ closePc' \in {"idle", "waiting", "blocked"}
         /\ served' \subseteq Ids \X Nat /\ arrived' \subseteq Ids \X Nat
<1>1. m_aPipes[cur] \in Pipes /\ cur \in DOMAIN m_aPipes
  BY HandledPipe
<1>2. res[m_aPipes[cur]].llId \in Ids /\ os[m_aPipes[cur]].client \in Nat
  BY <1>1 DEF TypeOK, SPipeResource, Instance
<1>3. served' \subseteq Ids \X Nat
  BY <1>2 DEF CallProcessData, TypeOK
<1>4. QED
  BY <1>1, <1>3 DEF CallProcessData, GoTo, TypeOK

\* Starting the next read keeps the types, whatever ReadFile returns.
LEMMA ReadNextType ==
  ASSUME TypeOK, pc \in {"onEvent", "process"}, NEW r \in SPipeResource,
         ReadNext(m_aPipes[cur], r), UNCHANGED nClients,
         UNCHANGED nFaults
  PROVE  TypeOK'
<1> DEFINE p == m_aPipes[cur]
<1>1. cur \in DOMAIN m_aPipes /\ p \in Pipes /\ os[p].link # "none"
  BY HandledPipe
<1>2. os[p] \in Instance /\ os[p].inbox \in Seq({"request", "oversized"})
  BY <1>1 DEF TypeOK, Instance
<1>3. CASE /\ os[p].inbox # << >>
           /\ os' = [os EXCEPT ![p].inbox = Tail(@)]
           /\ res' = [res EXCEPT ![p] = [r EXCEPT !.hEvent = TRUE]]
           /\ CallProcessData(p)
           /\ UNCHANGED <<m_aPipes, m_nConnected, m_llNextId, bError, status,
                          s_llQueueBytes>>
  <2>1. Tail(os[p].inbox) \in Seq({"request", "oversized"})
    BY <1>2, <1>3, HeadTailProperties
  <2>2. [os[p] EXCEPT !.inbox = Tail(os[p].inbox)] \in Instance
    BY <1>2, <2>1 DEF Instance
  <2>3. os' = [os EXCEPT ![p] = [os[p] EXCEPT !.inbox = Tail(os[p].inbox)]]
    BY <1>3
  <2>4. [os[p] EXCEPT !.inbox = Tail(os[p].inbox)].link = os[p].link
    BY <1>2 DEF Instance
  <2>5. os' \in [Pipes -> Instance] /\ ListOK'
    BY <1>1, <1>3, <2>2, <2>3, <2>4, InstanceFields
  <2>6. res' \in [Pipes -> SPipeResource]
    <3>1. [r EXCEPT !.hEvent = TRUE] \in SPipeResource
      BY DEF SPipeResource
    <3>2. QED
      BY <1>3, <3>1 DEF TypeOK
  <2>7. QED
    BY <1>3, <2>5, <2>6, CallProcessDataType, UnchangedType DEF TypeOK, ListOK
<1>4. CASE /\ os' = [os EXCEPT ![p].readIo = "pending"]
           /\ res' = [res EXCEPT ![p] = [r EXCEPT !.fPending = TRUE, !.hEvent = FALSE]]
           /\ NextIteration
           /\ UNCHANGED <<m_aPipes, m_nConnected, m_llNextId, bError, status,
                          s_llQueueBytes, history>>
  <2>1. /\ [os[p] EXCEPT !.readIo = "pending"] \in Instance
        /\ [os[p] EXCEPT !.readIo = "pending"].link = os[p].link
    BY <1>2 DEF Instance
  <2>2. os' = [os EXCEPT ![p] = [os[p] EXCEPT !.readIo = "pending"]]
    BY <1>4
  <2>3. os' \in [Pipes -> Instance] /\ ListOK'
    BY <1>1, <1>4, <2>1, <2>2, InstanceFields
  <2>4. [r EXCEPT !.fPending = TRUE, !.hEvent = FALSE] \in SPipeResource
    BY DEF SPipeResource
  <2>5. res' \in [Pipes -> SPipeResource]
    BY <1>4, <2>4 DEF TypeOK
  <2>6. QED
    BY <1>4, <2>3, <2>5, NextIterationType, UnchangedType DEF TypeOK, ListOK, history
<1>5. CASE DropInstance(cur) /\ NextIteration /\ UNCHANGED history
  BY <1>1, <1>5, DropAndNextType DEF TypeOK
<1>6. QED
  BY <1>3, <1>4, <1>5 DEF ReadNext

\* Handling kReading keeps the types.
LEMMA OnReadingType == TypeOK /\ OnReading => TypeOK'
<1> SUFFICES ASSUME TypeOK, OnReading PROVE TypeOK'
  OBVIOUS
<1> DEFINE p == m_aPipes[cur]
           r == [res[p] EXCEPT !.hEvent = FALSE]
<1>1. /\ cur \in DOMAIN m_aPipes /\ p \in Pipes /\ os[p].link # "none"
      /\ pc = "onEvent" /\ UNCHANGED <<nClients, nFaults>>
  BY HandledPipe DEF OnReading
<1>2. r \in SPipeResource /\ os[p] \in Instance
  <2>1. res[p] \in SPipeResource /\ os[p] \in Instance
    BY <1>1 DEF TypeOK
  <2>2. r \in SPipeResource
    BY <2>1 DEF SPipeResource
  <2> QED BY <2>1, <2>2
<1> HIDE DEF r
<1>3. CASE /\ res' = [res EXCEPT ![p] = r]
           /\ os' = [os EXCEPT ![p].readIo = "idle"]
           /\ CallProcessData(p)
           /\ UNCHANGED <<m_aPipes, m_nConnected, m_llNextId, bError, status,
                          s_llQueueBytes>>
  <2>1. /\ [os[p] EXCEPT !.readIo = "idle"] \in Instance
        /\ [os[p] EXCEPT !.readIo = "idle"].link = os[p].link
    BY <1>2 DEF Instance
  <2>2. os' = [os EXCEPT ![p] = [os[p] EXCEPT !.readIo = "idle"]]
    BY <1>3
  <2>3. os' \in [Pipes -> Instance] /\ ListOK'
    BY <1>1, <1>3, <2>1, <2>2, InstanceFields
  <2>4. res' \in [Pipes -> SPipeResource]
    BY <1>2, <1>3 DEF TypeOK
  <2>5. QED
    BY <1>1, <1>3, <2>3, <2>4, CallProcessDataType, UnchangedType DEF TypeOK, ListOK
<1>4. CASE DropInstance(cur) /\ NextIteration /\ UNCHANGED history
  BY <1>1, <1>4, DropAndNextType DEF TypeOK
<1>5. CASE ReadNext(p, r)
  BY <1>1, <1>2, <1>5, ReadNextType
<1>6. QED
  BY <1>3, <1>4, <1>5 DEF OnReading, r

\* The return of ProcessData keeps the types.
LEMMA ProcessReturnType == TypeOK /\ ProcessReturn => TypeOK'
<1> SUFFICES ASSUME TypeOK, ProcessReturn PROVE TypeOK'
  OBVIOUS
<1> DEFINE p == m_aPipes[cur]
           r == [res[p] EXCEPT !.fPending = FALSE]
<1>1. p \in Pipes /\ pc = "process" /\ UNCHANGED <<nClients, nFaults>>
  BY HandledPipe DEF ProcessReturn
<1>2. res[p] \in SPipeResource /\ r \in SPipeResource
  <2>1. res[p] \in SPipeResource
    BY <1>1 DEF TypeOK
  <2>2. QED
    BY <2>1 DEF SPipeResource
<1> HIDE DEF r
<1>3. CASE ReadNext(p, r)
  BY <1>1, <1>2, <1>3, ReadNextType
<1>4. CASE /\ res' = [res EXCEPT ![p].hEvent = TRUE]
           /\ NextIteration
           /\ UNCHANGED <<m_aPipes, m_nConnected, m_llNextId, bError, os,
                          status, s_llQueueBytes, history>>
  <2>1. res' = [res EXCEPT ![p] = [res[p] EXCEPT !.hEvent = TRUE]]
    BY <1>4
  <2>2. res' \in [Pipes -> SPipeResource]
    <3>1. [res[p] EXCEPT !.hEvent = TRUE] \in SPipeResource
      BY <1>2 DEF SPipeResource
    <3>2. QED
      BY <2>1, <3>1 DEF TypeOK
  <2>3. QED
    BY <1>1, <1>4, <2>2, NextIterationType, UnchangedType DEF TypeOK, ListOK, history
<1>5. QED
  BY <1>3, <1>4 DEF ProcessReturn, r

\* Handling the write event keeps the types.
LEMMA OnWriteType == TypeOK /\ OnWrite => TypeOK'
<1> SUFFICES ASSUME TypeOK, OnWrite PROVE TypeOK'
  OBVIOUS
<1> DEFINE p == m_aPipes[cur]
           r == [res[p] EXCEPT !.hWriteEvent = FALSE]
           d == Head(r.cWriteQueue)
           Finish(q, bPass) ==
             /\ res' = [res EXCEPT ![p] = PopWritten([q EXCEPT !.fWritePending = FALSE])]
             /\ Result({d.pHead}, bPass)
             /\ DecreaseQueue({d.pHead})
           w == [r EXCEPT !.hWriteEvent = TRUE]
<1>1. p \in Pipes /\ res[p] \in SPipeResource /\ os[p] \in Instance
  BY HandledPipe DEF OnWrite, TypeOK
<1>2. /\ r \in SPipeResource /\ w \in SPipeResource
      /\ r.cWriteQueue = w.cWriteQueue
  BY <1>1 DEF SPipeResource
<1>3. /\ NextIteration
      /\ UNCHANGED <<m_aPipes, m_nConnected, m_llNextId, bError, nClients,
                     nFaults, served>>
  BY DEF OnWrite
<1>4. /\ \/ UNCHANGED os
         \/ os' = [os EXCEPT ![p].writeIo = "idle"]
         \/ os' = [os EXCEPT ![p].writeIo = "pending"]
  BY DEF OnWrite
<1>5. os' \in [Pipes -> Instance] /\ ListOK'
  <2>1. ASSUME NEW io \in {"idle", "pending"}, os' = [os EXCEPT ![p].writeIo = io]
        PROVE  os' \in [Pipes -> Instance] /\ ListOK'
    <3>1. /\ [os[p] EXCEPT !.writeIo = io] \in Instance
          /\ [os[p] EXCEPT !.writeIo = io].link = os[p].link
      BY <1>1 DEF Instance
    <3>2. os' = [os EXCEPT ![p] = [os[p] EXCEPT !.writeIo = io]]
      BY <2>1
    <3>3. QED
      BY <1>1, <1>3, <3>1, <3>2, InstanceFields
  <2>2. QED
    BY <1>3, <1>4, <2>1, UnchangedType
<1> HIDE DEF r, d, w
<1>6. /\ \/ res' = [res EXCEPT ![p] = [r EXCEPT !.fWritePending = FALSE]]
         \/ res' = [res EXCEPT ![p] = [r EXCEPT !.fWritePending = TRUE]]
         \/ r.cWriteQueue # << >> /\ \E bPass \in BOOLEAN : Finish(r, bPass)
         \/ r.cWriteQueue # << >> /\ Finish(w, TRUE)
      /\ UNCHANGED status \/ (\E bPass \in BOOLEAN : Result({d.pHead}, bPass))
  <2>1. WritePassed(p) \in BOOLEAN
    BY DEF WritePassed
  <2>2. QED
    BY <2>1 DEF OnWrite, r, d, w
<1>7. res' \in [Pipes -> SPipeResource]
  <2>1. ASSUME NEW q \in SPipeResource, q.cWriteQueue # << >>,
               res' = [res EXCEPT ![p] = PopWritten([q EXCEPT !.fWritePending = FALSE])]
        PROVE  res' \in [Pipes -> SPipeResource]
    <3>1. /\ [q EXCEPT !.fWritePending = FALSE] \in SPipeResource
          /\ [q EXCEPT !.fWritePending = FALSE].cWriteQueue = q.cWriteQueue
      BY DEF SPipeResource
    <3>2. PopWritten([q EXCEPT !.fWritePending = FALSE]) \in SPipeResource
      BY <2>1, <3>1, PopWrittenType
    <3>3. QED
      BY <2>1, <3>2 DEF TypeOK
  <2>2. /\ [r EXCEPT !.fWritePending = FALSE] \in SPipeResource
        /\ [r EXCEPT !.fWritePending = TRUE] \in SPipeResource
    BY <1>2 DEF SPipeResource
  <2>3. QED
    BY <1>2, <1>6, <2>1, <2>2 DEF TypeOK
<1>8. status' \in [Buffers -> {"idle", "held", "passed", "failed", "refused"}]
  BY <1>6 DEF Result, TypeOK
<1>9. arrived' \subseteq Ids \X Nat
  <2>1. r.cWriteQueue # << >> => d \in SData
    BY <1>2, HeadTailProperties DEF d, SPipeResource
  <2>2. CASE UNCHANGED arrived
    BY <2>2 DEF TypeOK
  <2>3. CASE r.cWriteQueue # << >> /\ arrived' = arrived \cup {<<d.to, os[p].client>>}
    BY <1>1, <2>1, <2>3 DEF TypeOK, SData, Instance
  <2>4. QED
    BY <2>2, <2>3 DEF OnWrite, r, d
<1>10. QED
  BY <1>3, <1>5, <1>7, <1>8, <1>9, NextIterationType DEF TypeOK, ListOK

\* SendData may be called by any thread; its caller says what pc does.
LEMMA SendDataType ==
  ASSUME TypeOK, NEW b \in Buffers, NEW id \in Ids, SendData(b, id)
  PROVE  /\ ListOK' /\ res' \in [Pipes -> SPipeResource]
         /\ os' \in [Pipes -> Instance]
         /\ m_nConnected' \in Int /\ m_llNextId' \in Ids /\ bError' \in BOOLEAN
         /\ nClients' \in Nat /\ nFaults' \in Nat
         /\ status' \in [Buffers -> {"idle", "held", "passed", "failed", "refused"}]
         /\ served' \subseteq Ids \X Nat /\ arrived' \subseteq Ids \X Nat
         /\ m_aPipes' = m_aPipes
<1>1. /\ UNCHANGED <<m_aPipes, m_nConnected, m_llNextId, bError, os, nClients,
                     nFaults, served, arrived>>
      /\ \/ status' = [status EXCEPT ![b] = "held"]
         \/ status' = [status EXCEPT ![b] = "refused"]
  BY DEF SendData, system, history
<1>2. res' \in [Pipes -> SPipeResource]
  <2>1. CASE UNCHANGED res
    BY <2>1 DEF TypeOK
  <2>2. ASSUME NEW p \in Addressees(id),
               res' = [res EXCEPT ![p] = Push(@, [pHead |-> b, to |-> id])]
        PROVE  res' \in [Pipes -> SPipeResource]
    <3>1. p \in Pipes
      BY DEF Addressees, OpenPipes, TypeOK
    <3>2. res[p] \in SPipeResource /\ [pHead |-> b, to |-> id] \in SData
      BY <3>1 DEF TypeOK, SData
    <3>3. Push(res[p], [pHead |-> b, to |-> id]) \in SPipeResource
      BY <3>2, PushType
    <3>4. QED
      BY <2>2, <3>3 DEF TypeOK
  <2>3. QED
    BY <2>1, <2>2 DEF SendData
<1>3. QED
  BY <1>1, <1>2, UnchangedType DEF TypeOK, ListOK

\* The send of a device thread keeps the types.
LEMMA DeviceSendType == TypeOK /\ DeviceSend => TypeOK'
<1> SUFFICES ASSUME TypeOK, DeviceSend PROVE TypeOK'
  OBVIOUS
<1>1. PICK b \in Buffers, id \in KnownIds : SendData(b, id)
  BY DEF DeviceSend
<1>2. id \in Ids
  BY <1>1 DEF KnownIds, TypeOK
<1>3. QED
  BY <1>1, <1>2, SendDataType DEF DeviceSend, control, TypeOK, ListOK

\* The send of the thread inside ProcessData keeps the types.
LEMMA ProcessSentType == TypeOK /\ ProcessSent => TypeOK'
<1> SUFFICES ASSUME TypeOK, ProcessSent PROVE TypeOK'
  OBVIOUS
<1>1. /\ cur \in DOMAIN m_aPipes /\ cur' = cur /\ pc' = "process"
      /\ m_bWorking' \in BOOLEAN /\ m_hDone' \in BOOLEAN
      /\ closePc' \in {"idle", "waiting", "blocked"}
  BY HandledPipe DEF ProcessSent, GoTo, TypeOK
<1>2. res[m_aPipes[cur]].llId \in Ids
  BY HandledPipe DEF ProcessSent, TypeOK, SPipeResource
<1>3. CASE \E b \in Buffers : SendData(b, res[m_aPipes[cur]].llId)
  BY <1>1, <1>2, <1>3, SendDataType DEF TypeOK, ListOK
<1>4. CASE UNCHANGED <<resources, system, s_llQueueBytes, status, history>>
  BY <1>1, <1>4, UnchangedType DEF TypeOK, ListOK, resources, system, history
<1>5. QED
  BY <1>3, <1>4 DEF ProcessSent

\* Close keeps the types: it frees what InitCommunication made.
LEMMA CloseEndType == TypeOK /\ CloseEnd => TypeOK'
<1> SUFFICES ASSUME TypeOK, CloseEnd PROVE TypeOK'
  OBVIOUS
<1>1. NewResource(0, FALSE) \in SPipeResource /\ Unlinked("none") \in Instance
  BY NewResourceType, UnlinkedType DEF Ids
<1>2. res' \in [Pipes -> SPipeResource] /\ os' \in [Pipes -> Instance]
  BY <1>1 DEF CloseEnd
<1>3. m_aPipes' \in Seq(Pipes) /\ IsInjective(m_aPipes')
  BY EmptySeq DEF CloseEnd, IsInjective
<1>4. OpenPipes' = {p \in Pipes : os'[p].link # "none"}
  BY DEF CloseEnd, OpenPipes, Range, Unlinked
<1>5. status' \in [Buffers -> {"idle", "held", "passed", "failed", "refused"}]
  BY DEF CloseEnd, Result, TypeOK
<1>6. m_bWorking' \in BOOLEAN /\ m_hDone' \in BOOLEAN /\ bError' \in BOOLEAN
  BY DEF CloseEnd, TypeOK
<1>7. /\ m_nConnected' \in Int /\ m_llNextId' \in Ids
      /\ nClients' \in Nat /\ nFaults' \in Nat
      /\ served' \subseteq Ids \X Nat /\ arrived' \subseteq Ids \X Nat
      /\ closePc' = "idle" /\ pc' = "none" /\ cur' = 0 /\ m_aPipes' = << >>
  BY DEF CloseEnd, TypeOK, history
<1>8. QED
  BY <1>2, <1>3, <1>4, <1>5, <1>6, <1>7 DEF TypeOK

\* A step of a client or the system changes one instance and its events.
LEMMA OutsideType ==
  ASSUME TypeOK, NEW p \in Pipes, NEW r \in SPipeResource, NEW o \in Instance,
         (o.link # "none") <=> (os[p].link # "none"),
         res' = [res EXCEPT ![p] = r], os' = [os EXCEPT ![p] = o],
         UNCHANGED <<m_aPipes, m_nConnected, m_llNextId, bError, control,
                     status, served>>,
         nClients' \in Nat, nFaults' \in Nat, arrived' \subseteq Ids \X Nat
  PROVE  TypeOK'
<1>1. res' \in [Pipes -> SPipeResource] /\ os' \in [Pipes -> Instance] /\ ListOK'
  BY InstanceFields DEF TypeOK
<1>2. QED
  BY <1>1, UnchangedType DEF TypeOK, ListOK, control

\* A client that connects keeps the types.
LEMMA ClientConnectType ==
  ASSUME TypeOK, NEW p \in Pipes, ClientConnect(p) PROVE TypeOK'
<1> DEFINE listening == os[p].readIo = "pending"
           r == [res[p] EXCEPT !.hEvent = @ \/ listening]
           o == [os[p] EXCEPT !.link = "open", !.client = nClients + 1,
                              !.readIo = IF listening THEN "ok" ELSE @]
<1>1. res[p] \in SPipeResource /\ os[p] \in Instance /\ nClients + 1 \in Nat
  BY DEF TypeOK
<1>2. r \in SPipeResource
  BY <1>1 DEF SPipeResource
<1>3. o \in Instance /\ o.link = "open" /\ os[p].link = "avail"
  BY <1>1 DEF Instance, ClientConnect
<1>4. res' = [res EXCEPT ![p] = r] /\ os' = [os EXCEPT ![p] = o]
  BY DEF ClientConnect, TypeOK
<1>5. /\ nClients' \in Nat /\ nFaults' \in Nat /\ arrived' \subseteq Ids \X Nat
      /\ UNCHANGED <<m_aPipes, m_nConnected, m_llNextId, bError, control,
                     status, served>>
  BY DEF ClientConnect, TypeOK, history
<1> HIDE DEF r, o
<1>6. QED
  BY <1>2, <1>3, <1>4, <1>5, OutsideType

\* A client that writes keeps the types.
LEMMA ClientWriteType ==
  ASSUME TypeOK, NEW p \in Pipes, ClientWrite(p) PROVE TypeOK'
<1>1. res[p] \in SPipeResource /\ os[p] \in Instance /\ os[p].link = "open"
  BY DEF TypeOK, ClientWrite
<1>2. /\ nClients' \in Nat /\ nFaults' \in Nat /\ arrived' \subseteq Ids \X Nat
      /\ UNCHANGED <<m_aPipes, m_nConnected, m_llNextId, bError, control,
                     status, served>>
  BY DEF ClientWrite, TypeOK, history
<1>3. ASSUME NEW io \in {"ok", "failed"},
             os' = [os EXCEPT ![p].readIo = io],
             res' = [res EXCEPT ![p].hEvent = TRUE]
      PROVE  TypeOK'
  <2> DEFINE r == [res[p] EXCEPT !.hEvent = TRUE]
             o == [os[p] EXCEPT !.readIo = io]
  <2>1. r \in SPipeResource /\ o \in Instance /\ o.link = "open"
    BY <1>1 DEF SPipeResource, Instance
  <2>2. res' = [res EXCEPT ![p] = r] /\ os' = [os EXCEPT ![p] = o]
    BY <1>3
  <2> HIDE DEF r, o
  <2>3. QED
    BY <1>1, <1>2, <2>1, <2>2, OutsideType
<1>4. ASSUME NEW m \in {"request", "oversized"},
             os' = [os EXCEPT ![p].inbox = Append(@, m)], UNCHANGED res
      PROVE  TypeOK'
  <2> DEFINE o == [os[p] EXCEPT !.inbox = Append(os[p].inbox, m)]
  <2>1. Append(os[p].inbox, m) \in Seq({"request", "oversized"})
    BY <1>1, AppendProperties DEF Instance
  <2>2. o \in Instance /\ o.link = "open"
    BY <1>1, <2>1 DEF Instance
  <2>3. os' = [os EXCEPT ![p] = o] /\ res' = [res EXCEPT ![p] = res[p]]
    BY <1>4 DEF TypeOK
  <2> HIDE DEF o
  <2>4. QED
    BY <1>1, <1>2, <2>2, <2>3, OutsideType
<1>5. QED
  BY <1>3, <1>4 DEF ClientWrite

\* A client that reads keeps the types.
LEMMA ClientReadType ==
  ASSUME TypeOK, NEW p \in Pipes, ClientRead(p),
         res[p].cWriteQueue # << >>
  PROVE  TypeOK'
<1> DEFINE r == [res[p] EXCEPT !.hWriteEvent = TRUE]
           o == [os[p] EXCEPT !.writeIo = "ok"]
<1>1. res[p] \in SPipeResource /\ os[p] \in Instance /\ os[p].link = "open"
  BY DEF TypeOK, ClientRead
<1>2. r \in SPipeResource /\ o \in Instance /\ o.link = "open"
  BY <1>1 DEF SPipeResource, Instance
<1>3. res' = [res EXCEPT ![p] = r] /\ os' = [os EXCEPT ![p] = o]
  BY DEF ClientRead
<1>4. Head(res[p].cWriteQueue) \in SData
  BY <1>1, HeadTailProperties DEF SPipeResource
<1>5. arrived' \subseteq Ids \X Nat
  BY <1>1, <1>4 DEF ClientRead, TypeOK, SData, Instance
<1>6. /\ nClients' \in Nat /\ nFaults' \in Nat
      /\ UNCHANGED <<m_aPipes, m_nConnected, m_llNextId, bError, control,
                     status, served>>
  BY DEF ClientRead, TypeOK
<1> HIDE DEF r, o
<1>7. QED
  BY <1>1, <1>2, <1>3, <1>5, <1>6, OutsideType

\* A client that leaves keeps the types.
LEMMA ClientCloseType ==
  ASSUME TypeOK, NEW p \in Pipes, ClientClose(p) PROVE TypeOK'
<1> DEFINE r == [res[p] EXCEPT !.hEvent = @ \/ os[p].readIo = "pending",
                               !.hWriteEvent = @ \/ os[p].writeIo = "pending"]
           o == [os[p] EXCEPT !.link = "broken", !.readIo = Ended(@),
                              !.writeIo = Ended(@)]
<1>1. res[p] \in SPipeResource /\ os[p] \in Instance /\ os[p].link = "open"
  BY DEF TypeOK, ClientClose
<1>2. r \in SPipeResource
  BY <1>1 DEF SPipeResource
<1>3. o \in Instance /\ o.link = "broken"
  BY <1>1 DEF Instance, Ended
<1>4. res' = [res EXCEPT ![p] = r] /\ os' = [os EXCEPT ![p] = o]
  BY DEF ClientClose, TypeOK
<1>5. /\ nClients' \in Nat /\ nFaults' \in Nat /\ arrived' \subseteq Ids \X Nat
      /\ UNCHANGED <<m_aPipes, m_nConnected, m_llNextId, bError, control,
                     status, served>>
  BY DEF ClientClose, TypeOK, history
<1> HIDE DEF r, o
<1>6. QED
  BY <1>1, <1>2, <1>3, <1>4, <1>5, OutsideType

\* A connection that the system breaks keeps the types.
LEMMA ConnectFailsType ==
  ASSUME TypeOK, NEW p \in Pipes, ConnectFails(p) PROVE TypeOK'
<1> DEFINE r == [res[p] EXCEPT !.hEvent = TRUE]
           o == [os[p] EXCEPT !.readIo = "failed"]
<1>1. res[p] \in SPipeResource /\ os[p] \in Instance /\ os[p].link = "avail"
  BY DEF TypeOK, ConnectFails
<1>2. r \in SPipeResource /\ o \in Instance /\ o.link = "avail"
  BY <1>1 DEF SPipeResource, Instance
<1>3. res' = [res EXCEPT ![p] = r] /\ os' = [os EXCEPT ![p] = o]
  BY DEF ConnectFails
<1>4. /\ nClients' \in Nat /\ nFaults' \in Nat /\ arrived' \subseteq Ids \X Nat
      /\ UNCHANGED <<m_aPipes, m_nConnected, m_llNextId, bError, control,
                     status, served>>
  BY FaultType DEF ConnectFails, TypeOK, history
<1> HIDE DEF r, o
<1>5. QED
  BY <1>1, <1>2, <1>3, <1>4, OutsideType

\* A Close that hangs and the other comms leave all of it alone.
LEMMA BesideType == TypeOK /\ (CloseBlocks \/ OtherComms) => TypeOK'
<1> SUFFICES ASSUME TypeOK, CloseBlocks \/ OtherComms PROVE TypeOK'
  OBVIOUS
<1>1. /\ UNCHANGED <<resources, system, status, history>>
      /\ UNCHANGED <<m_bWorking, m_hDone, pc, cur>>
      /\ closePc' \in {"idle", "waiting", "blocked"}
  BY DEF CloseBlocks, OtherComms, control, TypeOK
<1> QED
  BY <1>1, UnchangedType DEF TypeOK, ListOK, resources, system, history

-----------------------------------------------------------------------------
\* A client that takes a reply finds one: the only thing TypeOK does not say
\* itself of what the types rest on (see Session in PipeSessionProofs).
LEMMA NextTypeOK ==
  ASSUME TypeOK, [Next]_vars,
         \A p \in Pipes : ClientRead(p) => res[p].cWriteQueue # << >>
  PROVE  TypeOK'
<1>1. ASSUME NEW p \in Pipes, InitComm(p) PROVE TypeOK'
  BY <1>1, InitCommType
<1>2. CASE InitCommFails
  BY <1>2, InitCommFailsType
<1>3. CASE PipeThread
  BY <1>3, AddInstanceType, PassiveType, OnCreatedType, OnConnectingType,
     OnReadingType, OnWriteType, ProcessSentType, ProcessReturnType
  DEF PipeThread
<1>4. CASE DeviceSend
  BY <1>4, DeviceSendType
<1>5. CASE Closer
  BY <1>5, PassiveType, CloseEndType, BesideType
  DEF Closer, Closing, CloseJoined, CloseTimeout
<1>6. ASSUME NEW p \in Pipes, Client(p) PROVE TypeOK'
  BY <1>6, ClientConnectType, ClientWriteType, ClientReadType, ClientCloseType
  DEF Client
<1>7. ASSUME NEW p \in Pipes, ConnectFails(p) PROVE TypeOK'
  BY <1>7, ConnectFailsType
<1>8. CASE UNCHANGED vars
  BY <1>8, UnchangedType
  DEF vars, resources, control, system, history, TypeOK, ListOK
<1>9. CASE OtherComms
  BY <1>9, BesideType
<1>10. QED
  BY <1>1, <1>2, <1>3, <1>4, <1>5, <1>6, <1>7, <1>8, <1>9 DEF Next
=============================================================================
