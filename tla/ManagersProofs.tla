---------------------------- MODULE ManagersProofs ----------------------------
(***************************************************************************)
(* For any number of users' requests, boards, devices and failing calls,   *)
(* the numbers handed to users stay good, the list of devices they were    *)
(* shown is the one they open from, and every object is deleted once.      *)
(***************************************************************************)
EXTENDS ManagersProps, SequenceTheorems, WellFoundedInduction, TLAPS

Slots(S) == Seq(S \cup {NULL})

\* The handle h names what it was given for.
Good(mans, h) ==
  /\ IsOpen(mans, h.man)
  /\ IF h.chan = -1 THEN mans[h.man + 1].kind = h.what
     ELSE /\ IsOpen(mans[h.man + 1].chans, h.chan)
          /\ mans[h.man + 1].chans[h.chan + 1].what = h.what

Typed ==
  /\ m_acManagers \in Slots(ManagerRecord)
  /\ deleted \in Seq(Nat)
  /\ request \in Requests \cup {NoRequest}
  /\ attached \subseteq Devices
  /\ \A h \in told : h.man \in Nat /\ h.chan \in Nat \cup {-1}

\* Within a deletion, nobody holds a number of what is deleted any more.
DoomedUnnamed ==
  pc = "deleting" =>
    IF request.to = -1
    THEN /\ request.nChan \in Nat /\ IsOpen(m_acManagers, request.nChan)
         /\ \A h \in told : h.man # request.nChan
    ELSE /\ request.to \in Nat /\ IsOpen(m_acManagers, request.to)
         /\ request.nChan \in Nat /\ IsOpen(Manager.chans, request.nChan)
         /\ \A h \in told : h.man # request.to \/ h.chan # request.nChan

\* The main thread deletes managers only after the pipe thread is gone.
MainAlone == mainPc \in {"deleting", "done"} => pc \in {"exited", "killed"}

IInv ==
  /\ Typed
  /\ \A h \in told : Good(m_acManagers, h)
  /\ DoomedUnnamed
  /\ MainAlone

-----------------------------------------------------------------------------
(* Slots *)

\* FirstFree finds a slot that is not open, with none such before it.
LEMMA FirstFreeIs ==
  ASSUME NEW S, NEW s \in Seq(S)
  PROVE  /\ FirstFree(s) \in 0 .. Len(s)
         /\ ~IsOpen(s, FirstFree(s))
         /\ \A k \in 0 .. FirstFree(s) - 1 : IsOpen(s, k)
<1> DEFINE T == {n \in 0 .. Len(s) : ~IsOpen(s, n)}
<1>1. Len(s) \in Nat /\ DOMAIN s = 1 .. Len(s)
  BY LenProperties
<1>2. Len(s) \in T
  BY <1>1 DEF IsOpen
<1>3. T \subseteq Nat /\ T # {}
  BY <1>1, <1>2
<1>4. PICK n \in T : \A k \in T : ~ (<<k, n>> \in OpToRel(<, Nat))
  <2> HIDE DEF T
  <2> QED BY <1>3, WFMin, NatLessThanWellFounded
<1>5. \A k \in 0 .. n - 1 : IsOpen(s, k)
  <2> SUFFICES ASSUME NEW k \in 0 .. n - 1, ~IsOpen(s, k) PROVE FALSE
    OBVIOUS
  <2>1. k \in T
    BY <1>1
  <2>2. k < n /\ k \in Nat /\ n \in Nat
    BY <1>1
  <2>3. <<k, n>> \in OpToRel(<, Nat)
    BY <2>2 DEF OpToRel
  <2> QED BY <1>4, <2>1, <2>3
<1>6. \E m \in 0 .. Len(s) : ~IsOpen(s, m) /\ \A k \in 0 .. m - 1 : IsOpen(s, k)
  BY <1>4, <1>5
<1> QED BY <1>6 DEF FirstFree

\* WithRoom keeps every slot where it is, and has one at the first free place.
LEMMA WithRoomKeeps ==
  ASSUME NEW S, NEW s \in Slots(S)
  PROVE  /\ WithRoom(s) \in Slots(S)
         /\ DOMAIN s \subseteq DOMAIN WithRoom(s)
         /\ \A n \in DOMAIN s : WithRoom(s)[n] = s[n]
         /\ \A n \in DOMAIN WithRoom(s) \ DOMAIN s : WithRoom(s)[n] = NULL
         /\ FirstFree(s) \in Nat
         /\ FirstFree(s) + 1 \in DOMAIN WithRoom(s)
<1>1. Len(s) \in Nat /\ DOMAIN s = 1 .. Len(s)
  BY LenProperties DEF Slots
<1>2. FirstFree(s) \in 0 .. Len(s) /\ \A k \in 0 .. FirstFree(s) - 1 : IsOpen(s, k)
  BY FirstFreeIs DEF Slots
<1>3. CASE \E n \in DOMAIN s : s[n] = NULL
  <2>1. PICK n \in DOMAIN s : s[n] = NULL
    BY <1>3
  <2>2. ~IsOpen(s, n - 1) /\ n - 1 \in Nat
    BY <1>1, <2>1 DEF IsOpen
  <2>3. FirstFree(s) <= n - 1
    BY <1>1, <1>2, <2>2
  <2> QED BY <1>1, <1>2, <1>3, <2>3 DEF WithRoom
<1>4. CASE ~\E n \in DOMAIN s : s[n] = NULL
  <2>1. WithRoom(s) = Append(s, NULL)
    BY <1>4 DEF WithRoom
  <2>2. DOMAIN WithRoom(s) = 1 .. Len(s) + 1
    BY <1>1, <2>1, AppendProperties, LenProperties DEF Slots
  <2> QED BY <1>1, <1>2, <2>1, <2>2, AppendProperties DEF Slots
<1> QED BY <1>3, <1>4

\* What stays open, with the same channels, keeps its handles good.
LEMMA GoodKept ==
  ASSUME NEW mans, NEW mans2, NEW h, Good(mans, h),
         h.man + 1 \in DOMAIN mans2,
         mans2[h.man + 1] = mans[h.man + 1]
  PROVE  Good(mans2, h)
BY DEF Good, IsOpen

-----------------------------------------------------------------------------
(* Steps that leave the slots alone *)

\* A request names a manager and a channel, or none.
LEMMA RequestTyped ==
  ASSUME NEW r \in Requests \cup {NoRequest}
  PROVE  /\ r.to \in Nat \cup {-1} /\ r.nChan \in Nat \cup {-1}
         /\ r # NoRequest => r.what \in {q.what : q \in Requests}
BY RequestsAssumption DEF NoRequest

\* A handler that has replied is over.
LEMMA RepliedEnds ==
  ASSUME NEW replies, Replied(replies)
  PROVE  /\ pc' = "idle" /\ request' = NoRequest
         /\ attached' = attached /\ mainPc' = mainPc
BY DEF Replied, world, main

\* The same for one reply.
LEMMA AnswerEnds ==
  ASSUME NEW nError, NEW nChan, Answer(nError, nChan)
  PROVE  /\ pc' = "idle" /\ request' = NoRequest
         /\ attached' = attached /\ mainPc' = mainPc
BY RepliedEnds DEF Answer

\* A handler that is over keeps what it does not touch.
LEMMA HandlerReturns ==
  ASSUME IInv, pc \in {"handling", "deleting"},
         pc' = "idle", request' = NoRequest,
         attached' = attached, mainPc' = mainPc,
         m_acManagers' \in Slots(ManagerRecord), deleted' \in Seq(Nat),
         \A h \in told' : /\ h.man \in Nat /\ h.chan \in Nat \cup {-1}
                         /\ Good(m_acManagers', h)
  PROVE  IInv'
BY DEF IInv, Typed, DoomedUnnamed, MainAlone

\* A handler that only replies keeps the invariant.
LEMMA HandlerInforms ==
  ASSUME IInv, pc \in {"handling", "deleting"},
         pc' = "idle", request' = NoRequest,
         attached' = attached, mainPc' = mainPc,
         Unchanged
  PROVE  IInv'
<1>1. m_acManagers' = m_acManagers /\ deleted' = deleted /\ told' = told
  BY DEF Unchanged, slots
<1>2. /\ m_acManagers' \in Slots(ManagerRecord) /\ deleted' \in Seq(Nat)
      /\ \A h \in told' : /\ h.man \in Nat /\ h.chan \in Nat \cup {-1}
                         /\ Good(m_acManagers', h)
  BY <1>1 DEF IInv, Typed
<1> QED BY <1>2, HandlerReturns

\* A step within which the slots and their names stay as they are.
LEMMA OthersStep ==
  ASSUME IInv, m_acManagers' = m_acManagers, told' = told,
         deleted' \in Seq(Nat), request' \in Requests \cup {NoRequest},
         attached' \subseteq Devices, MainAlone',
         pc' = "deleting" => pc = "deleting" /\ request' = request
  PROVE  IInv'
<1>1. Typed'
  BY DEF IInv, Typed
<1>2. (\A h \in told : Good(m_acManagers, h))'
  BY DEF IInv, Good, IsOpen
<1>3. DoomedUnnamed'
  BY DEF IInv, DoomedUnnamed, IsOpen, Manager
<1> QED BY <1>1, <1>2, <1>3 DEF IInv

\* Steps of the comm and the world.
LEMMA CommStep ==
  ASSUME IInv, Comm \/ (\E d \in Devices : Change(d))
  PROVE  IInv'
<1>1. CASE \E r \in Requests : ReadRequest(r)
  <2> PICK r \in Requests : ReadRequest(r)
    BY <1>1
  <2>1. MainAlone'
    BY DEF ReadRequest, MainAlone, main
  <2> QED BY <2>1, OthersStep DEF ReadRequest, IInv, Typed, slots, world
<1>2. CASE Sent \/ SessionEnds
  <2>1. MainAlone'
    BY <1>2 DEF Sent, SessionEnds, MainAlone, IInv, main, thread
  <2> QED BY <1>2, <2>1, OthersStep DEF Sent, SessionEnds, IInv, Typed, slots, thread, world
<1>3. CASE \E d \in Devices : Change(d)
  <2> PICK d \in Devices : Change(d)
    BY <1>3
  <2>1. MainAlone'
    BY DEF Change, MainAlone, IInv, main, thread
  <2>2. attached' \subseteq Devices
    BY DEF Change, IInv, Typed
  <2> QED BY <2>1, <2>2, OthersStep DEF Change, IInv, Typed, slots, thread
<1> QED BY <1>1, <1>2, <1>3 DEF Comm

\* The requests that only inform.
LEMMA InformStep ==
  ASSUME IInv, MainInforms \/ SendTime \/ CloseMain \/ ManagerInforms \/ ListDevices
  PROVE  IInv'
<1>1. CASE MainInforms
  <2>1. pc = "handling" /\ \E replies : Replied(replies)
    BY <1>1 DEF MainInforms, ToMain, Answer
  <2> QED BY <1>1, <2>1, RepliedEnds, HandlerInforms DEF MainInforms
<1>2. CASE SendTime
  <2>1. pc = "handling" /\ \E replies : Replied(replies)
    BY <1>2 DEF SendTime, ToMain
  <2> QED BY <1>2, <2>1, RepliedEnds, HandlerInforms DEF SendTime
<1>3. CASE CloseMain
  <2>1. /\ pc = "handling" /\ pc' = "idle" /\ request' = NoRequest
        /\ attached' = attached /\ mainPc' = mainPc
    BY <1>3 DEF CloseMain, ToMain, world
  <2> QED BY <1>3, <2>1, HandlerInforms DEF CloseMain
<1>4. CASE ManagerInforms
  <2>1. pc = "handling" /\ \E replies : Replied(replies)
    BY <1>4 DEF ManagerInforms, Other, ToManager, Answer
  <2> QED BY <1>4, <2>1, RepliedEnds, HandlerInforms DEF ManagerInforms
<1>5. CASE ListDevices
  <2>1. pc = "handling" /\ \E replies : Replied(replies)
    BY <1>5 DEF ListDevices, ToManager, Answer
  <2>2. m_acManagers' = m_acManagers /\ deleted' = deleted /\ told' = told
    BY <1>5 DEF ListDevices
  <2>3. /\ m_acManagers' \in Slots(ManagerRecord) /\ deleted' \in Seq(Nat)
        /\ \A h \in told' : /\ h.man \in Nat /\ h.chan \in Nat \cup {-1}
                           /\ Good(m_acManagers', h)
    BY <2>2 DEF IInv, Typed
  <2> QED BY <2>1, <2>3, RepliedEnds, HandlerReturns
<1> QED BY <1>1, <1>2, <1>3, <1>4, <1>5

-----------------------------------------------------------------------------
(* Steps that open *)

\* A handle stays good while its manager's slot is as it was.
LEMMA RoomKeepsGood ==
  ASSUME NEW S, NEW mans \in Slots(S), NEW h, h.man \in Nat, Good(mans, h)
  PROVE  /\ h.man + 1 \in DOMAIN mans
         /\ Good(WithRoom(mans), h)
<1>1. h.man + 1 \in DOMAIN mans
  BY DEF Good, IsOpen
<1> QED BY <1>1, WithRoomKeeps, GoodKept

\* An eSet that is refused adds an empty slot at most, and names what is there.
LEMMA RefuseManagerStep ==
  ASSUME IInv, RefuseManager
  PROVE  IInv'
<1>1. pc = "handling" /\ \E nError, nChan : Answer(nError, nChan)
  BY DEF RefuseManager, ToMain
<1>2. /\ m_acManagers' = WithRoom(m_acManagers) /\ deleted' = deleted
      /\ m_acManagers \in Slots(ManagerRecord)
  BY DEF RefuseManager, IInv, Typed
<1>3. m_acManagers' \in Slots(ManagerRecord)
  BY <1>2, WithRoomKeeps
<1>4. ASSUME NEW h \in told'
      PROVE  h.man \in Nat /\ h.chan \in Nat \cup {-1} /\ Good(m_acManagers', h)
  <2>1. CASE h \in told
    BY <1>2, <2>1, RoomKeepsGood DEF IInv, Typed
  <2>2. CASE h \notin told
    <3>1. PICK n \in OpenManagers : h = [man |-> n - 1, chan |-> -1, what |-> request.what]
      BY <2>2 DEF RefuseManager
    <3>2. /\ n \in DOMAIN m_acManagers /\ m_acManagers[n] # NULL
          /\ m_acManagers[n].kind = request.what
      BY <3>1 DEF OpenManagers
    <3>3. n - 1 \in Nat /\ (n - 1) + 1 = n
      BY <1>2, <3>2, LenProperties DEF Slots
    <3>4. n \in DOMAIN m_acManagers' /\ m_acManagers'[n] = m_acManagers[n]
      BY <1>2, <3>2, WithRoomKeeps
    <3> QED BY <3>1, <3>2, <3>3, <3>4 DEF Good, IsOpen
  <2> QED BY <2>1, <2>2
<1>5. deleted' \in Seq(Nat)
  BY <1>2 DEF IInv, Typed
<1> QED BY <1>1, <1>3, <1>4, <1>5, AnswerEnds, HandlerReturns

\* A new manager is one, of the kind asked for.
LEMMA NewManagerTyped ==
  ASSUME IInv, request.what \in Kinds
  PROVE  /\ NewManager(request.what) \in ManagerRecord
         /\ NewManager(request.what) # NULL
         /\ NewManager(request.what).kind = request.what
<1>1. NextObject \in Nat
  BY LenProperties DEF NextObject, IInv, Typed
<1>2. [n \in 1 .. m_usChans |-> NULL] \in Seq(Channel \cup {NULL})
  BY IsASeq, ManagersAssumption
<1>3. << >> \in Seq(Channel \cup {NULL})
  BY EmptySeq
<1>4. NewManager(request.what) \in ManagerRecord
  BY <1>1, <1>2, <1>3 DEF NewManager, ManagerRecord
<1> QED BY <1>4, ManagersAssumption DEF NewManager

\* A new manager takes a slot nobody has a number of.
LEMMA CreateManagerStep ==
  ASSUME IInv, CreateManager
  PROVE  IInv'
<1> DEFINE t == FirstFree(m_acManagers)
           man == NewManager(request.what)
           room == WithRoom(m_acManagers)
<1>1. pc = "handling" /\ \E nError, nChan : Answer(nError, nChan)
  BY DEF CreateManager, ToMain
<1>2. /\ m_acManagers' = [room EXCEPT ![t + 1] = man]
      /\ m_acManagers \in Slots(ManagerRecord)
      /\ told' = told \cup {[man |-> t, chan |-> -1, what |-> request.what]}
      /\ deleted' = Append(deleted, 0) /\ request.what \in Kinds
  BY DEF CreateManager, IInv, Typed
<1>3. /\ room \in Slots(ManagerRecord) /\ t \in Nat /\ t + 1 \in DOMAIN room
      /\ ~IsOpen(m_acManagers, t)
  BY <1>2, WithRoomKeeps, FirstFreeIs DEF Slots
<1>4. man \in ManagerRecord /\ man # NULL /\ man.kind = request.what
  BY <1>2, NewManagerTyped
<1> HIDE DEF t, man, room
<1>5. m_acManagers' \in Slots(ManagerRecord)
  BY <1>2, <1>3, <1>4, ExceptSeq, LenProperties DEF Slots
<1>6. DOMAIN m_acManagers' = DOMAIN room /\ m_acManagers'[t + 1] = man
  BY <1>2, <1>3
<1>7. ASSUME NEW h \in told'
      PROVE  h.man \in Nat /\ h.chan \in Nat \cup {-1} /\ Good(m_acManagers', h)
  <2>1. CASE h \in told
    <3>1. h.man \in Nat /\ h.chan \in Nat \cup {-1} /\ Good(m_acManagers, h)
      BY <2>1 DEF IInv, Typed
    <3>2. Good(room, h)
      BY <1>2, <3>1, RoomKeepsGood DEF room
    <3>3. h.man # t
      BY <1>3, <3>1 DEF Good
    <3>4. h.man + 1 \in DOMAIN room /\ m_acManagers'[h.man + 1] = room[h.man + 1]
      BY <1>2, <1>3, <3>1, <3>2, <3>3 DEF Good, IsOpen
    <3> QED BY <1>6, <3>1, <3>2, <3>4, GoodKept
  <2>2. CASE h = [man |-> t, chan |-> -1, what |-> request.what]
    BY <1>3, <1>4, <1>6, <2>2 DEF Good, IsOpen
  <2> QED BY <1>2, <2>1, <2>2
<1>8. deleted' \in Seq(Nat)
  BY <1>2, AppendProperties DEF IInv, Typed
<1> QED BY <1>1, <1>5, <1>7, <1>8, AnswerEnds, HandlerReturns

\* The manager a request is for, and its channels.
LEMMA ManagerTyped ==
  ASSUME IInv, request.to >= 0, IsOpen(m_acManagers, request.to)
  PROVE  /\ request.to \in Nat /\ request.to + 1 \in DOMAIN m_acManagers
         /\ Manager \in ManagerRecord /\ Manager.chans \in Slots(Channel)
<1>1. m_acManagers \in Slots(ManagerRecord) /\ request \in Requests \cup {NoRequest}
  BY DEF IInv, Typed
<1>2. request.to \in Nat
  BY <1>1, RequestTyped
<1>3. request.to + 1 \in DOMAIN m_acManagers /\ Manager # NULL
  BY DEF IsOpen, Manager
<1>4. Manager \in ManagerRecord \cup {NULL}
  BY <1>1, <1>3, ElementOfSeq DEF Slots, Manager
<1> QED BY <1>2, <1>3, <1>4 DEF ManagerRecord, Slots

WithChans(mans, n, chans) == [mans EXCEPT ![n].chans = chans]

\* Other channels in one manager leave the other managers alone.
LEMMA ChansReplaced ==
  ASSUME NEW mans \in Slots(ManagerRecord), NEW n \in DOMAIN mans,
         mans[n] \in ManagerRecord, NEW chans \in Slots(Channel)
  PROVE  /\ WithChans(mans, n, chans) \in Slots(ManagerRecord)
         /\ DOMAIN WithChans(mans, n, chans) = DOMAIN mans
         /\ WithChans(mans, n, chans)[n] # NULL
         /\ WithChans(mans, n, chans)[n].chans = chans
         /\ WithChans(mans, n, chans)[n].kind = mans[n].kind
         /\ WithChans(mans, n, chans)[n].id = mans[n].id
         /\ \A k \in DOMAIN mans \ {n} : WithChans(mans, n, chans)[k] = mans[k]
<1> DEFINE man == [mans[n] EXCEPT !.chans = chans]
<1>1. /\ man \in ManagerRecord /\ man.chans = chans
      /\ man.kind = mans[n].kind /\ man.id = mans[n].id
  BY DEF ManagerRecord, Slots
<1>2. man # NULL
  BY <1>1, ManagersAssumption
<1>3. WithChans(mans, n, chans) = [mans EXCEPT ![n] = man]
  BY DEF WithChans
<1> HIDE DEF man
<1>4. WithChans(mans, n, chans) \in Slots(ManagerRecord)
  BY <1>1, <1>3, ExceptSeq, LenProperties DEF Slots
<1> QED BY <1>1, <1>2, <1>3, <1>4

\* Handles stay good when the channels they name stay where they are.
LEMMA ChansKeepGood ==
  ASSUME NEW mans, NEW mans2, NEW n, NEW h, Good(mans, h),
         DOMAIN mans2 = DOMAIN mans, mans2[n] # NULL, mans2[n].kind = mans[n].kind,
         \A k \in DOMAIN mans \ {n} : mans2[k] = mans[k],
         h.man + 1 = n /\ h.chan # -1 =>
           /\ h.chan + 1 \in DOMAIN mans2[n].chans
           /\ mans2[n].chans[h.chan + 1] = mans[n].chans[h.chan + 1]
  PROVE  Good(mans2, h)
<1>1. CASE h.man + 1 # n
  BY <1>1, GoodKept DEF Good, IsOpen
<1>2. CASE h.man + 1 = n
  BY <1>2 DEF Good, IsOpen
<1> QED BY <1>1, <1>2

\* An eSet is for an empty slot of the manager's, and moves no channel.
LEMMA ChansTyped ==
  ASSUME IInv, Setting
  PROVE  /\ pc = "handling" /\ request \in Requests
         /\ request.to \in Nat /\ request.to + 1 \in DOMAIN m_acManagers
         /\ Manager \in ManagerRecord /\ Manager.chans \in Slots(Channel)
         /\ Chans \in Slots(Channel)
         /\ \A k \in DOMAIN Manager.chans :
              k \in DOMAIN Chans /\ Chans[k] = Manager.chans[k]
         /\ \A k \in DOMAIN Chans \ DOMAIN Manager.chans : Chans[k] = NULL
         /\ SlotFor \in Nat /\ SlotFor + 1 \in DOMAIN Chans
         /\ ~IsOpen(Manager.chans, SlotFor)
<1>1. pc = "handling" /\ request.to >= 0 /\ IsOpen(m_acManagers, request.to)
  BY DEF Setting, ToManager
<1>2. /\ request.to \in Nat /\ request.to + 1 \in DOMAIN m_acManagers
      /\ Manager \in ManagerRecord /\ Manager.chans \in Slots(Channel)
  BY <1>1, ManagerTyped
<1>3. request \in Requests
  BY <1>2 DEF IInv, Typed, NoRequest
<1>4. CASE Manager.kind \in WithPorts
  <2>1. Known /\ ~HasChan
    BY <1>4 DEF Setting, ToManager, WithPorts
  <2>2. Chans = Manager.chans /\ SlotFor = request.nChan
    BY <1>4 DEF Chans, SlotFor
  <2>3. request.nChan \in Nat
    BY <1>2, <1>3, <2>1, RequestTyped, LenProperties DEF Known, Slots
  <2> QED BY <1>1, <1>2, <1>3, <2>1, <2>2, <2>3 DEF Known, HasChan
<1>5. CASE Manager.kind \notin WithPorts
  <2>1. Chans = WithRoom(Manager.chans) /\ SlotFor = FirstFree(Manager.chans)
    BY <1>5 DEF Chans, SlotFor
  <2>2. ~IsOpen(Manager.chans, FirstFree(Manager.chans))
    BY <1>2, FirstFreeIs DEF Slots
  <2> QED BY <1>1, <1>2, <1>3, <2>1, <2>2, WithRoomKeeps
<1> QED BY <1>4, <1>5

\* What is opened is a port, what the request names, or a device.
LEMMA WantedTyped ==
  ASSUME IInv, Setting, CanOpen(Wanted(SlotFor))
  PROVE  Wanted(SlotFor) \in {"port"} \cup {r.what : r \in Requests} \cup Devices
<1>1. request \in Requests
  BY ChansTyped
<1>2. CASE ToManager(WithPorts, "eSet")
  <2>1. Manager.kind = "eRTVMan" \/ Manager.kind = "eMCDAQMan"
    BY <1>2 DEF ToManager, WithPorts
  <2> QED BY <2>1 DEF Wanted, WithPorts
<1>3. CASE ToManager({"eSerialMan"}, "eSet")
  <2>1. Manager.kind = "eSerialMan"
    BY <1>3 DEF ToManager
  <2> QED BY <1>1, <2>1 DEF Wanted, WithPorts
<1>4. CASE ToManager({"eFTDIMan"}, "eSet")
  <2>1. Manager.kind = "eFTDIMan"
    BY <1>4 DEF ToManager
  <2> QED BY <2>1 DEF Wanted, WithPorts, CanOpen, IInv, Typed
<1> QED BY <1>2, <1>3, <1>4 DEF Setting

\* A new channel takes a slot nobody has a number of.
LEMMA CreateChannelStep ==
  ASSUME IInv, CreateChannel
  PROVE  IInv'
<1> DEFINE n == request.to + 1
           what == Wanted(SlotFor)
           channel == [id |-> NextObject, what |-> what]
           chans == [Chans EXCEPT ![SlotFor + 1] = channel]
<1>1. /\ Setting /\ CanOpen(what)
      /\ m_acManagers' = WithChans(m_acManagers, n, chans)
      /\ deleted' = Append(deleted, 0)
      /\ told' = told \cup {[man |-> request.to, chan |-> SlotFor, what |-> what]}
      /\ \E nError, nChan : Answer(nError, nChan)
  BY DEF CreateChannel, WithChans
<1>2. /\ m_acManagers \in Slots(ManagerRecord) /\ deleted \in Seq(Nat)
      /\ n \in DOMAIN m_acManagers /\ m_acManagers[n] \in ManagerRecord
      /\ m_acManagers[n].chans \in Slots(Channel) /\ m_acManagers[n] = Manager
  BY <1>1, ChansTyped DEF IInv, Typed, Manager
<1>3. /\ Chans \in Slots(Channel)
      /\ SlotFor \in Nat /\ SlotFor + 1 \in DOMAIN Chans
      /\ ~IsOpen(Manager.chans, SlotFor) /\ pc = "handling" /\ request.to \in Nat
      /\ \A k \in DOMAIN Manager.chans :
           k \in DOMAIN Chans /\ Chans[k] = Manager.chans[k]
  BY <1>1, ChansTyped
<1>4. channel \in Channel /\ channel.what = what
  <2>1. NextObject \in Nat
    BY <1>2, LenProperties DEF NextObject
  <2> QED BY <1>1, <2>1, WantedTyped DEF Channel
<1>5. channel # NULL
  BY <1>4, ManagersAssumption
<1>6. chans \in Slots(Channel) /\ DOMAIN chans = DOMAIN Chans
  <2> HIDE DEF channel
  <2> QED BY <1>3, <1>4, ExceptSeq, LenProperties DEF Slots
<1>7. /\ chans[SlotFor + 1] = channel
      /\ \A k \in DOMAIN Chans \ {SlotFor + 1} : chans[k] = Chans[k]
  <2> HIDE DEF channel
  <2> QED BY <1>3
<1> HIDE DEF chans, channel, what
<1>8. /\ m_acManagers' \in Slots(ManagerRecord) /\ DOMAIN m_acManagers' = DOMAIN m_acManagers
      /\ m_acManagers'[n] # NULL /\ m_acManagers'[n].chans = chans
      /\ m_acManagers'[n].kind = m_acManagers[n].kind
      /\ \A k \in DOMAIN m_acManagers \ {n} : m_acManagers'[k] = m_acManagers[k]
  BY <1>1, <1>2, <1>6, ChansReplaced
<1>9. ASSUME NEW h \in told'
      PROVE  h.man \in Nat /\ h.chan \in Nat \cup {-1} /\ Good(m_acManagers', h)
  <2>1. CASE h \in told
    <3>1. h.man \in Nat /\ h.chan \in Nat \cup {-1} /\ Good(m_acManagers, h)
      BY <2>1 DEF IInv, Typed
    <3>2. ASSUME h.man + 1 = n, h.chan # -1
          PROVE  /\ h.chan + 1 \in DOMAIN chans
                 /\ chans[h.chan + 1] = m_acManagers[n].chans[h.chan + 1]
      <4>1. h.chan + 1 \in DOMAIN Manager.chans /\ IsOpen(Manager.chans, h.chan)
        BY <1>2, <3>1, <3>2 DEF Good, IsOpen
      <4>2. h.chan + 1 # SlotFor + 1
        BY <1>3, <3>1, <3>2, <4>1
      <4> QED BY <1>2, <1>3, <1>6, <1>7, <4>1, <4>2
    <3> HIDE DEF n
    <3> QED BY <1>8, <3>1, <3>2, ChansKeepGood
  <2>2. CASE h = [man |-> request.to, chan |-> SlotFor, what |-> what]
    <3>1. h.man + 1 = n /\ h.man = request.to /\ h.chan = SlotFor /\ h.what = what
      BY <2>2
    <3>2. IsOpen(m_acManagers', h.man) /\ m_acManagers'[h.man + 1].chans = chans
      BY <1>2, <1>8, <3>1 DEF IsOpen
    <3>3. IsOpen(chans, h.chan) /\ chans[h.chan + 1].what = h.what
      BY <1>3, <1>4, <1>5, <1>6, <1>7, <3>1 DEF IsOpen
    <3> QED BY <1>3, <3>1, <3>2, <3>3 DEF Good
  <2> QED BY <1>1, <2>1, <2>2
<1>10. deleted' \in Seq(Nat)
  BY <1>1, <1>2, AppendProperties
<1> QED BY <1>1, <1>3, <1>8, <1>9, <1>10, AnswerEnds, HandlerReturns

\* A constructor that fails leaves an empty slot at most.
LEMMA CreateFailsStep ==
  ASSUME IInv, CreateFails
  PROVE  IInv'
<1> DEFINE n == request.to + 1
<1>1. /\ Setting /\ m_acManagers' = WithChans(m_acManagers, n, Chans)
      /\ deleted' = deleted /\ told' = told
      /\ \E nError, nChan : Answer(nError, nChan)
  BY DEF CreateFails, WithChans
<1>2. /\ m_acManagers \in Slots(ManagerRecord) /\ n \in DOMAIN m_acManagers
      /\ m_acManagers[n] \in ManagerRecord /\ m_acManagers[n] = Manager
      /\ Chans \in Slots(Channel) /\ pc = "handling"
      /\ \A k \in DOMAIN Manager.chans :
           k \in DOMAIN Chans /\ Chans[k] = Manager.chans[k]
  BY <1>1, ChansTyped DEF IInv, Typed, Manager
<1> HIDE DEF n
<1>3. /\ m_acManagers' \in Slots(ManagerRecord) /\ DOMAIN m_acManagers' = DOMAIN m_acManagers
      /\ m_acManagers'[n] # NULL /\ m_acManagers'[n].chans = Chans
      /\ m_acManagers'[n].kind = m_acManagers[n].kind
      /\ \A k \in DOMAIN m_acManagers \ {n} : m_acManagers'[k] = m_acManagers[k]
  BY <1>1, <1>2, ChansReplaced
<1>4. ASSUME NEW h \in told'
      PROVE  h.man \in Nat /\ h.chan \in Nat \cup {-1} /\ Good(m_acManagers', h)
  <2>1. h.man \in Nat /\ h.chan \in Nat \cup {-1} /\ Good(m_acManagers, h)
    BY <1>1 DEF IInv, Typed
  <2>2. h.man + 1 = n /\ h.chan # -1 =>
          /\ h.chan + 1 \in DOMAIN Chans
          /\ Chans[h.chan + 1] = m_acManagers[n].chans[h.chan + 1]
    BY <1>2, <2>1 DEF Good, IsOpen
  <2> QED BY <1>3, <2>1, <2>2, ChansKeepGood
<1>5. deleted' \in Seq(Nat)
  BY <1>1 DEF IInv, Typed
<1> QED BY <1>1, <1>2, <1>3, <1>4, <1>5, AnswerEnds, HandlerReturns

\* The number of a port that is open already is that of its channel.
LEMMA RefusePortStep ==
  ASSUME IInv, RefusePort
  PROVE  IInv'
<1>1. PICK n \in DOMAIN Manager.chans :
        /\ Manager.chans[n] # NULL /\ Manager.chans[n].what = request.what
        /\ Answer("ALREADY_OPEN", n - 1)
        /\ told' = told \cup {[man |-> request.to, chan |-> n - 1, what |-> request.what]}
  BY DEF RefusePort
<1>2. /\ pc = "handling" /\ request.to >= 0 /\ IsOpen(m_acManagers, request.to)
      /\ m_acManagers' = m_acManagers /\ deleted' = deleted
  BY DEF RefusePort, ToManager, slots
<1>3. request.to \in Nat /\ Manager.chans \in Slots(Channel)
  BY <1>2, ManagerTyped
<1>4. n - 1 \in Nat /\ (n - 1) + 1 = n
  BY <1>1, <1>3, LenProperties DEF Slots
<1>5. ASSUME NEW h \in told'
      PROVE  h.man \in Nat /\ h.chan \in Nat \cup {-1} /\ Good(m_acManagers', h)
  <2>1. CASE h \in told
    BY <1>2, <2>1 DEF IInv, Typed
  <2>2. CASE h = [man |-> request.to, chan |-> n - 1, what |-> request.what]
    BY <1>1, <1>2, <1>3, <1>4, <2>2 DEF Good, IsOpen, Manager
  <2> QED BY <1>1, <2>1, <2>2
<1>6. m_acManagers' \in Slots(ManagerRecord) /\ deleted' \in Seq(Nat)
  BY <1>2 DEF IInv, Typed
<1> QED BY <1>1, <1>2, <1>5, <1>6, AnswerEnds, HandlerReturns

-----------------------------------------------------------------------------
(* Steps that delete *)

\* When a manager's deletion begins its number is nobody's any more.
LEMMA DeleteManagerStep ==
  ASSUME IInv, DeleteManager
  PROVE  IInv'
<1>1. /\ pc = "handling" /\ pc' = "deleting" /\ request' = request /\ request.to = -1
      /\ request.nChan # -1 /\ IsOpen(m_acManagers, request.nChan)
      /\ m_acManagers' = m_acManagers /\ deleted' = deleted /\ attached' = attached
      /\ mainPc' = mainPc /\ told' = {h \in told : h.man # request.nChan}
  BY DEF DeleteManager, ToMain, slots, main, world
<1>2. request.nChan \in Nat
  BY <1>1, RequestTyped DEF IInv, Typed
<1>3. Typed' /\ (\A h \in told : Good(m_acManagers, h))'
  BY <1>1 DEF IInv, Typed, Good, IsOpen
<1>4. DoomedUnnamed'
  BY <1>1, <1>2 DEF DoomedUnnamed, IsOpen
<1>5. MainAlone'
  BY <1>1 DEF IInv, MainAlone
<1> QED BY <1>3, <1>4, <1>5 DEF IInv

\* When a channel's deletion begins its number is nobody's any more.
LEMMA DeleteChannelStep ==
  ASSUME IInv, DeleteChannel
  PROVE  IInv'
<1>1. /\ pc = "handling" /\ pc' = "deleting" /\ request' = request /\ request.to >= 0
      /\ IsOpen(m_acManagers, request.to) /\ IsOpen(Manager.chans, request.nChan)
      /\ m_acManagers' = m_acManagers /\ deleted' = deleted /\ attached' = attached
      /\ mainPc' = mainPc
      /\ told' = {h \in told : h.man # request.to \/ h.chan # request.nChan}
  BY DEF DeleteChannel, ToManager, HasChan, slots, main, world
<1>2. request.to \in Nat /\ Manager.chans \in Slots(Channel)
  BY <1>1, ManagerTyped
<1>3. request.nChan \in Nat
  <2>1. request.nChan \in Nat \cup {-1}
    BY RequestTyped DEF IInv, Typed
  <2>2. request.nChan + 1 \in 1 .. Len(Manager.chans) /\ Len(Manager.chans) \in Nat
    BY <1>1, <1>2, LenProperties DEF IsOpen, Slots
  <2> QED BY <2>1, <2>2
<1>4. Typed' /\ (\A h \in told : Good(m_acManagers, h))'
  BY <1>1 DEF IInv, Typed, Good, IsOpen
<1>5. DoomedUnnamed'
  BY <1>1, <1>2, <1>3 DEF DoomedUnnamed, IsOpen, Manager
<1>6. MainAlone'
  BY <1>1 DEF IInv, MainAlone
<1> QED BY <1>4, <1>5, <1>6 DEF IInv

\* delete counts once for each of the objects, and for no other.
LEMMA DeleteTyped ==
  ASSUME IInv, NEW objects, Delete(objects)
  PROVE  /\ deleted' \in Seq(Nat) /\ DOMAIN deleted' = DOMAIN deleted
         /\ \A o \in DOMAIN deleted :
              deleted'[o] = IF o \in objects THEN deleted[o] + 1 ELSE deleted[o]
<1>1. Len(deleted) \in Nat /\ DOMAIN deleted = 1 .. Len(deleted)
  BY LenProperties DEF IInv, Typed
<1>2. \A o \in 1 .. Len(deleted) :
        (IF o \in objects THEN deleted[o] + 1 ELSE deleted[o]) \in Nat
  BY ElementOfSeq DEF IInv, Typed
<1> QED BY <1>1, <1>2, IsASeq DEF Delete

\* A destructor leaves the slots alone.
LEMMA DestroyStep ==
  ASSUME IInv, Destroy
  PROVE  IInv'
<1>1. deleted' \in Seq(Nat)
  BY DeleteTyped DEF Destroy
<1>2. MainAlone'
  BY DEF Destroy, IInv, MainAlone, main
<1> QED BY <1>1, <1>2, OthersStep DEF Destroy, slots, world, IInv, Typed

\* The slot that is cleared is one nobody has a number of.
LEMMA DeleteReturnsStep ==
  ASSUME IInv, DeleteReturns
  PROVE  IInv'
<1>1. /\ pc = "deleting" /\ \E nError, nChan : Answer(nError, nChan)
      /\ deleted' = deleted /\ told' = told
  BY DEF DeleteReturns
<1>2. m_acManagers \in Slots(ManagerRecord) /\ deleted' \in Seq(Nat)
  BY <1>1 DEF IInv, Typed
<1>3. \A h \in told : /\ h.man \in Nat /\ h.chan \in Nat \cup {-1}
                      /\ Good(m_acManagers, h)
  BY DEF IInv, Typed
<1>4. CASE request.to = -1
  <2> DEFINE n == request.nChan + 1
  <2>1. /\ request.nChan \in Nat /\ n \in DOMAIN m_acManagers
        /\ \A h \in told : h.man # request.nChan
    BY <1>1, <1>4 DEF IInv, DoomedUnnamed, IsOpen
  <2>2. m_acManagers' = [m_acManagers EXCEPT ![n] = NULL]
    BY <1>4 DEF DeleteReturns, Cleared
  <2>3. m_acManagers' \in Slots(ManagerRecord)
    BY <1>2, <2>1, <2>2, ExceptSeq, LenProperties DEF Slots
  <2>4. ASSUME NEW h \in told PROVE Good(m_acManagers', h)
    <3>1. h.man + 1 \in DOMAIN m_acManagers /\ h.man + 1 # n
      BY <1>3, <2>1 DEF Good, IsOpen
    <3>2. h.man + 1 \in DOMAIN m_acManagers' /\ m_acManagers'[h.man + 1] = m_acManagers[h.man + 1]
      BY <2>2, <3>1
    <3> QED BY <1>3, <3>2, GoodKept
  <2> QED BY <1>1, <1>2, <1>3, <2>3, <2>4, AnswerEnds, HandlerReturns
<1>5. CASE request.to # -1
  <2> DEFINE n == request.to + 1
             chans == [Manager.chans EXCEPT ![request.nChan + 1] = NULL]
  <2>1. /\ request.to \in Nat /\ IsOpen(m_acManagers, request.to)
        /\ request.nChan \in Nat /\ request.nChan + 1 \in DOMAIN Manager.chans
        /\ \A h \in told : h.man # request.to \/ h.chan # request.nChan
    BY <1>1, <1>5 DEF IInv, DoomedUnnamed, IsOpen
  <2>2. /\ n \in DOMAIN m_acManagers /\ m_acManagers[n] \in ManagerRecord
        /\ Manager.chans \in Slots(Channel) /\ m_acManagers[n] = Manager
    BY <2>1, ManagerTyped DEF Manager
  <2>3. m_acManagers' = WithChans(m_acManagers, n, chans)
    BY <1>5, <2>2 DEF DeleteReturns, Cleared, WithChans
  <2>4. chans \in Slots(Channel) /\ DOMAIN chans = DOMAIN Manager.chans
    BY <2>1, <2>2, ExceptSeq, LenProperties DEF Slots
  <2>5. \A k \in DOMAIN chans \ {request.nChan + 1} : chans[k] = Manager.chans[k]
    OBVIOUS
  <2> HIDE DEF chans
  <2>6. /\ m_acManagers' \in Slots(ManagerRecord) /\ DOMAIN m_acManagers' = DOMAIN m_acManagers
        /\ m_acManagers'[n] # NULL /\ m_acManagers'[n].chans = chans
        /\ m_acManagers'[n].kind = m_acManagers[n].kind
        /\ \A k \in DOMAIN m_acManagers \ {n} : m_acManagers'[k] = m_acManagers[k]
    BY <1>2, <2>2, <2>3, <2>4, ChansReplaced
  <2>7. ASSUME NEW h \in told PROVE Good(m_acManagers', h)
    <3>1. ASSUME h.man + 1 = n, h.chan # -1
          PROVE  /\ h.chan + 1 \in DOMAIN chans
                 /\ chans[h.chan + 1] = m_acManagers[n].chans[h.chan + 1]
      <4>1. h.man = request.to
        BY <1>3, <2>1, <3>1
      <4>2. h.chan + 1 # request.nChan + 1
        BY <1>3, <2>1, <4>1
      <4>3. h.chan + 1 \in DOMAIN Manager.chans
        BY <1>3, <2>2, <3>1 DEF Good, IsOpen
      <4> QED BY <2>2, <2>4, <2>5, <4>2, <4>3
    <3> HIDE DEF n
    <3> QED BY <1>3, <2>6, <3>1, ChansKeepGood
  <2> QED BY <1>1, <1>2, <1>3, <2>6, <2>7, AnswerEnds, HandlerReturns
<1> QED BY <1>4, <1>5

-----------------------------------------------------------------------------
(* The main thread *)

\* The main thread clears all slots, alone, and forgets all numbers.
LEMMA MainThreadStep ==
  ASSUME IInv, MainThread
  PROVE  IInv'
<1>1. CASE CloseBegin
  <2>1. MainAlone'
    BY <1>1 DEF CloseBegin, MainAlone
  <2> QED BY <1>1, <2>1, OthersStep DEF CloseBegin, IInv, Typed, slots, thread, world
<1>2. CASE CloseJoined \/ CloseTimeout
  <2>1. pc' \in {"exited", "killed"}
    BY <1>2 DEF CloseJoined, CloseTimeout, CloseEnd
  <2>2. MainAlone'
    BY <2>1 DEF MainAlone
  <2> QED BY <1>2, <2>1, <2>2, OthersStep
          DEF CloseJoined, CloseTimeout, CloseEnd, IInv, Typed, slots, world
<1>3. CASE DeleteManagers
  <2>1. /\ m_acManagers' = << >> /\ told' = {} /\ pc' = pc /\ request' = request
        /\ attached' = attached
        /\ deleted' \in Seq(Nat)
    BY <1>3, DeleteTyped DEF DeleteManagers, thread, world
  <2>2. m_acManagers' \in Slots(ManagerRecord)
    BY <2>1, EmptySeq DEF Slots
  <2>3. Typed'
    BY <2>1, <2>2 DEF IInv, Typed
  <2>4. pc \in {"exited", "killed"}
    BY <1>3 DEF DeleteManagers, IInv, MainAlone
  <2> QED BY <2>1, <2>3, <2>4 DEF IInv, DoomedUnnamed, MainAlone
<1> QED BY <1>1, <1>2, <1>3 DEF MainThread

-----------------------------------------------------------------------------
(* The invariant *)

\* Every handler of the pipe thread.
LEMMA ProcessDataStep ==
  ASSUME IInv, ProcessData
  PROVE  IInv'
BY InformStep, RefuseManagerStep, CreateManagerStep, CreateChannelStep,
   CreateFailsStep, RefusePortStep, DeleteManagerStep, DeleteChannelStep,
   DestroyStep, DeleteReturnsStep DEF ProcessData

\* The invariant holds at first.
LEMMA InitIInv == Init => IInv
<1> SUFFICES ASSUME Init PROVE IInv
  OBVIOUS
<1>1. m_acManagers \in Slots(ManagerRecord) /\ deleted \in Seq(Nat)
  BY EmptySeq DEF Init, Slots
<1> QED BY <1>1 DEF Init, IInv, Typed, DoomedUnnamed, MainAlone

\* A step that changes nothing keeps it.
LEMMA StutterStep ==
  ASSUME IInv, UNCHANGED vars
  PROVE  IInv'
<1>1. MainAlone'
  BY DEF vars, main, thread, MainAlone, IInv
<1> QED BY <1>1, OthersStep DEF vars, slots, thread, world, IInv, Typed

\* The invariant in every reachable state.
LEMMA InvariantAlways == Spec => []IInv
<1>1. IInv /\ [Next]_vars => IInv'
  BY CommStep, ProcessDataStep, MainThreadStep, StutterStep DEF Next
<1> QED BY <1>1, InitIInv, PTL DEF Spec

\* The numbers given to users go on naming what they were given for, until
\* somebody deletes it: HandlesStayGood, for any slots, requests and failures.
THEOREM NumbersStayGood == Spec => []HandlesStayGood
<1>1. IInv => HandlesStayGood
  BY DEF IInv, Good, HandlesStayGood
<1> QED BY <1>1, InvariantAlways, PTL

-----------------------------------------------------------------------------
(* The list of devices *)

\* What the list still tells of a device it told the present user.
Listed ==
  shown # << >> =>
    \A n \in DOMAIN m_asFTChanInfo :
      m_asFTChanInfo[n] # NULL =>
        n \in DOMAIN shown /\ m_asFTChanInfo[n] = shown[n]

\* The list is replaced by one that is shown, blanked or emptied.
LEMMA NextListed == Listed /\ [Next]_vars => Listed'
<1> SUFFICES ASSUME Listed, [Next]_vars PROVE Listed'
  OBVIOUS
<1> USE DEF Listed
<1>1. CASE UNCHANGED <<m_asFTChanInfo, shown>>
  BY <1>1
<1>2. CASE ListDevices
  <2>1. CASE \E list \in SetToSeqs(attached) : m_asFTChanInfo' = list /\ shown' = list
    BY <2>1
  <2>2. CASE m_asFTChanInfo' = << >>
    <3>1. DOMAIN m_asFTChanInfo' = {}
      BY <2>2
    <3> QED BY <3>1
  <2>3. CASE m_asFTChanInfo' = [n \in 1 .. Cardinality(attached) |-> NULL]
    BY <2>3
  <2> QED BY <1>1, <1>2, <2>1, <2>2, <2>3 DEF ListDevices
<1>3. CASE DeleteReturns \/ DeleteManagers
  <2>1. UNCHANGED shown /\ (m_asFTChanInfo' = << >> \/ UNCHANGED m_asFTChanInfo)
    BY <1>3 DEF DeleteReturns, DeleteManagers
  <2>2. CASE m_asFTChanInfo' = << >>
    <3>1. DOMAIN m_asFTChanInfo' = {}
      BY <2>2
    <3> QED BY <3>1
  <2> QED BY <1>1, <2>1, <2>2
<1>4. CASE SessionEnds
  BY <1>4 DEF SessionEnds
<1>5. CASE \/ Sent \/ UNCHANGED vars \/ (\E r \in Requests : ReadRequest(r))
           \/ \E d \in Devices : Change(d)
  BY <1>1, <1>5 DEF Sent, ReadRequest, Change, vars, slots
<1>6. CASE MainInforms \/ SendTime \/ CloseMain \/ ManagerInforms
  BY <1>1, <1>6 DEF MainInforms, SendTime, CloseMain, ManagerInforms, Unchanged, slots
<1>7. CASE \/ RefuseManager \/ CreateManager \/ CreateChannel \/ CreateFails
           \/ RefusePort \/ DeleteManager \/ DeleteChannel \/ Destroy
  BY <1>1, <1>7 DEF RefuseManager, CreateManager, CreateChannel, CreateFails,
     RefusePort, DeleteManager, DeleteChannel, Destroy, slots
<1>8. CASE CloseBegin \/ CloseJoined \/ CloseTimeout
  BY <1>1, <1>8 DEF CloseBegin, CloseJoined, CloseTimeout, CloseEnd, slots
<1> QED BY <1>2, <1>3, <1>4, <1>5, <1>6, <1>7, <1>8 DEF Next, Comm, ProcessData, MainThread

\* Opening by its place in the list the user was shown opens the device that was
\* there, or none, whatever was listed, plugged in or taken out since.
THEOREM OpensTheOneShown == Spec => OpensWhatWasShown
<1> DEFINE ForFTDI(n) ==
             /\ request.eType = "eSet" /\ request.to = n - 1
             /\ m_acManagers[n] # NULL /\ m_acManagers[n].kind = "eFTDIMan"
             /\ shown # << >>
<1>1. ASSUME IInv, Listed, [Next]_vars, NEW n \in DOMAIN m_acManagers, ForFTDI(n),
             NEW h \in told' \ told
      PROVE  h.what = shown[request.nChan + 1]
  <2>1. request.to # -1
    <3>1. n \in Nat \ {0}
      BY <1>1, LenProperties DEF IInv, Typed, Slots
    <3> QED BY <1>1, <3>1
  <2>2. Manager.kind = "eFTDIMan"
    <3>1. request.to + 1 = n
      BY <1>1, LenProperties DEF IInv, Typed, Slots
    <3> QED BY <1>1, <3>1 DEF Manager
  <2>3. CASE CreateChannel
    <3>1. /\ h.what = m_asFTChanInfo[request.nChan + 1]
          /\ h.what \in Devices /\ request.nChan + 1 \in DOMAIN m_asFTChanInfo
      BY <1>1, <2>2, <2>3 DEF CreateChannel, Setting, ToManager, Wanted, WithPorts,
         DeviceListed, CanOpen, IInv, Typed
    <3>2. h.what # NULL
      BY <3>1, ManagersAssumption
    <3> QED BY <1>1, <3>1, <3>2 DEF Listed
  <2>4. ~RefuseManager /\ ~CreateManager
    BY <2>1 DEF RefuseManager, CreateManager, ToMain
  <2>5. ~RefusePort
    BY <2>2 DEF RefusePort, ToManager
  <2>6. CASE \/ Sent \/ SessionEnds \/ UNCHANGED vars
             \/ (\E r \in Requests : ReadRequest(r)) \/ \E d \in Devices : Change(d)
    BY <1>1, <2>6 DEF Sent, SessionEnds, ReadRequest, Change, vars
  <2>7. CASE MainInforms \/ SendTime \/ CloseMain \/ ManagerInforms \/ ListDevices
    BY <1>1, <2>7 DEF MainInforms, SendTime, CloseMain, ManagerInforms, ListDevices,
       Unchanged
  <2>8. CASE CreateFails \/ DeleteManager \/ DeleteChannel \/ Destroy \/ DeleteReturns
    BY <1>1, <2>8 DEF CreateFails, DeleteManager, DeleteChannel, Destroy, DeleteReturns
  <2>9. CASE MainThread
    BY <1>1, <2>9 DEF MainThread, CloseBegin, CloseJoined, CloseTimeout, CloseEnd,
       DeleteManagers
  <2> QED BY <1>1, <2>3, <2>4, <2>5, <2>6, <2>7, <2>8, <2>9 DEF Next, Comm, ProcessData
<1>2. IInv /\ Listed /\ [Next]_vars =>
        [\A n \in DOMAIN m_acManagers :
           LET given == told' \ told
           IN /\ request.eType = "eSet" /\ request.to = n - 1
              /\ m_acManagers[n] # NULL /\ m_acManagers[n].kind = "eFTDIMan"
              /\ shown # << >>
              => \A h \in given : h.what = shown[request.nChan + 1]]_vars
  BY <1>1
<1>3. Init => Listed
  BY DEF Init, Listed
<1> QED BY <1>2, <1>3, InvariantAlways, NextListed, PTL DEF Spec, OpensWhatWasShown

-----------------------------------------------------------------------------
(* Every object is deleted once *)

\* The object o is the manager in slot m, or its channel in slot c > 0.
At(mans, o, m, c) ==
  /\ m \in DOMAIN mans /\ mans[m] # NULL
  /\ IF c = 0 THEN mans[m].id = o
     ELSE /\ c \in DOMAIN mans[m].chans /\ mans[m].chans[c] # NULL
          /\ mans[m].chans[c].id = o
Placed(o) == \E m, c : At(m_acManagers, o, m, c)

\* What the pipe thread is deleting.
UnderWay(m, c) ==
  /\ pc = "deleting"
  /\ IF request.to = -1 THEN m = request.nChan + 1
     ELSE m = request.to + 1 /\ c = request.nChan + 1

\* Each object there is has one place, and what has none was deleted.
Owned ==
  /\ \A o, m, c, m2, c2 :
       At(m_acManagers, o, m, c) /\ At(m_acManagers, o, m2, c2) => m = m2 /\ c = c2
  /\ \A o, m, c : At(m_acManagers, o, m, c) => o \in DOMAIN deleted
  /\ \A o \in DOMAIN deleted : Placed(o) \/ deleted[o] >= 1
  /\ mainPc = "done" => m_acManagers = << >>

\* What has a place is untouched, but for what a deletion under way has done.
Once ==
  pc # "killed" =>
    /\ \A o, m, c : At(m_acManagers, o, m, c) =>
         deleted[o] = IF UnderWay(m, c) /\ o \notin Range(doomed) THEN 1 ELSE 0
    /\ \A o \in DOMAIN deleted : Placed(o) \/ deleted[o] = 1

\* A deletion under way has each object in its list once, and only its own.
Queued ==
  pc = "deleting" =>
    /\ doomed \in Seq(Nat \cup {NULL})
    /\ \A i, j \in DOMAIN doomed : doomed[i] = doomed[j] /\ doomed[i] # NULL => i = j
    /\ \A i \in DOMAIN doomed : doomed[i] # NULL =>
         \E m, c : UnderWay(m, c) /\ At(m_acManagers, doomed[i], m, c)

Deletions == Owned /\ Once /\ Queued

\* A step that moves no object, outside of a deletion.
LEMMA SamePlaces ==
  ASSUME Deletions, pc # "deleting", pc' # "deleting", deleted' = deleted,
         \A o, m, c : At(m_acManagers', o, m, c) <=> At(m_acManagers, o, m, c),
         pc' # "killed" => pc # "killed",
         mainPc' = "done" => m_acManagers' = << >>
  PROVE  Deletions'
<1>1. \A o : Placed(o)' <=> Placed(o)
  BY DEF Placed
<1>2. \A m, c : ~UnderWay(m, c) /\ ~UnderWay(m, c)'
  BY DEF UnderWay
<1>3. Owned'
  BY <1>1 DEF Deletions, Owned
<1>4. Once'
  BY <1>1, <1>2 DEF Deletions, Once
<1> QED BY <1>3, <1>4 DEF Deletions, Queued

\* A handler that replies and leaves the slots as they are.
LEMMA SameSlots ==
  ASSUME IInv, Deletions, pc = "handling", NEW replies, Replied(replies),
         UNCHANGED <<m_acManagers, deleted>>
  PROVE  Deletions'
<1>1. pc' = "idle" /\ mainPc' = mainPc
  BY RepliedEnds
<1>2. mainPc' # "done"
  BY <1>1 DEF IInv, MainAlone
<1>3. \A o, m, c : At(m_acManagers', o, m, c) <=> At(m_acManagers, o, m, c)
  OBVIOUS
<1> QED BY <1>1, <1>2, <1>3, SamePlaces

\* The step puts the object new in a place, and moves no other.
Adds(new, m0, c0) ==
  \A o, m, c : At(m_acManagers', o, m, c) <=>
    \/ At(m_acManagers, o, m, c)
    \/ o = new /\ m = m0 /\ c = c0

\* A handler that creates an object, and puts it in a slot that was empty.
LEMMA ObjectCreated ==
  ASSUME IInv, Deletions, pc = "handling", pc' = "idle", mainPc' = mainPc,
         deleted' = Append(deleted, 0),
         \E m0, c0 : Adds(NextObject, m0, c0)
  PROVE  Deletions'
<1>0. PICK m0, c0 : \A o, m, c : At(m_acManagers', o, m, c) <=>
        \/ At(m_acManagers, o, m, c)
        \/ o = NextObject /\ m = m0 /\ c = c0
  BY DEF Adds
<1>1. /\ Len(deleted) \in Nat /\ DOMAIN deleted = 1 .. Len(deleted)
      /\ NextObject = Len(deleted) + 1
      /\ DOMAIN deleted' = 1 .. Len(deleted) + 1
      /\ \A o \in 1 .. Len(deleted) : deleted'[o] = deleted[o]
      /\ deleted'[NextObject] = 0
  BY LenProperties, AppendProperties DEF IInv, Typed, NextObject
<1>2. /\ DOMAIN deleted' = DOMAIN deleted \cup {NextObject}
      /\ NextObject \notin DOMAIN deleted
      /\ \A o \in DOMAIN deleted : deleted'[o] = deleted[o]
  BY <1>1
<1>3. \A o, m, c : At(m_acManagers, o, m, c) => o \in DOMAIN deleted /\ o # NextObject
  BY <1>2 DEF Deletions, Owned
<1>4. \A o : Placed(o) \/ o = NextObject => Placed(o)'
  BY <1>0 DEF Placed
<1>5. \A m, c : ~UnderWay(m, c) /\ ~UnderWay(m, c)'
  BY DEF UnderWay
<1>6. Owned'
  <2>1. mainPc' # "done"
    BY DEF IInv, MainAlone
  <2>2. \A o, m, c, m2, c2 :
          At(m_acManagers', o, m, c) /\ At(m_acManagers', o, m2, c2) => m = m2 /\ c = c2
    BY <1>0, <1>3 DEF Deletions, Owned
  <2>3. \A o, m, c : At(m_acManagers', o, m, c) => o \in DOMAIN deleted'
    BY <1>0, <1>2, <1>3
  <2>4. \A o \in DOMAIN deleted' : Placed(o)' \/ deleted'[o] >= 1
    BY <1>2, <1>4 DEF Deletions, Owned
  <2> QED BY <2>1, <2>2, <2>3, <2>4 DEF Owned
<1>7. Once'
  <2>1. \A o, m, c : At(m_acManagers', o, m, c) => deleted'[o] = 0
    BY <1>0, <1>1, <1>2, <1>3, <1>5 DEF Deletions, Once
  <2>2. \A o \in DOMAIN deleted' : Placed(o)' \/ deleted'[o] = 1
    BY <1>2, <1>4 DEF Deletions, Once
  <2> QED BY <1>5, <2>1, <2>2 DEF Once
<1> QED BY <1>6, <1>7 DEF Deletions, Queued

\* An empty slot more moves nothing.
LEMMA RoomMovesNone ==
  ASSUME NEW mans \in Slots(ManagerRecord)
  PROVE  \A o, m, c : At(WithRoom(mans), o, m, c) <=> At(mans, o, m, c)
BY WithRoomKeeps DEF At

\* A manager in a slot that was empty, with no channel, adds itself.
LEMMA ManagerAdds ==
  ASSUME NEW mans, NEW n \in DOMAIN mans, NEW man, man # NULL,
         \A o, m, c : ~(m = n /\ At(mans, o, m, c)),
         0 \notin DOMAIN man.chans, \A c \in DOMAIN man.chans : man.chans[c] = NULL
  PROVE  \A o, m, c : At([mans EXCEPT ![n] = man], o, m, c) <=>
           At(mans, o, m, c) \/ (o = man.id /\ m = n /\ c = 0)
BY DEF At

\* Other channels in a manager change what is in their slots.
LEMMA ChansChange ==
  ASSUME NEW mans \in Slots(ManagerRecord), NEW n \in DOMAIN mans,
         mans[n] \in ManagerRecord, NEW chans \in Slots(Channel)
  PROVE  \A o, m, c : At(WithChans(mans, n, chans), o, m, c) <=>
           IF m # n \/ c = 0 THEN At(mans, o, m, c)
           ELSE c \in DOMAIN chans /\ chans[c] # NULL /\ chans[c].id = o
<1> DEFINE mans2 == WithChans(mans, n, chans)
<1>1. /\ DOMAIN mans2 = DOMAIN mans /\ mans2[n] # NULL /\ mans2[n].chans = chans
      /\ mans2[n].id = mans[n].id /\ \A k \in DOMAIN mans \ {n} : mans2[k] = mans[k]
  BY ChansReplaced
<1>2. mans[n] # NULL
  BY ManagersAssumption
<1> HIDE DEF mans2
<1>3. ASSUME NEW o, NEW m, NEW c
      PROVE  At(mans2, o, m, c) <=>
               IF m # n \/ c = 0 THEN At(mans, o, m, c)
               ELSE c \in DOMAIN chans /\ chans[c] # NULL /\ chans[c].id = o
  BY <1>1, <1>2 DEF At
<1> QED BY <1>3 DEF mans2

\* The handlers that create no object and delete none.
LEMMA HandlersMoveNone ==
  ASSUME IInv, Deletions,
         \/ MainInforms \/ SendTime \/ CloseMain \/ RefuseManager \/ ManagerInforms
         \/ ListDevices \/ CreateFails \/ RefusePort
  PROVE  Deletions'
<1>1. CASE MainInforms \/ SendTime \/ ManagerInforms \/ ListDevices \/ RefusePort
  <2>1. /\ pc = "handling" /\ \E replies : Replied(replies)
        /\ UNCHANGED <<m_acManagers, deleted>>
    <3>1. CASE MainInforms
      BY <3>1 DEF MainInforms, ToMain, Answer, Unchanged, slots
    <3>2. CASE SendTime
      BY <3>2 DEF SendTime, ToMain, Unchanged, slots
    <3>3. CASE ManagerInforms
      BY <3>3 DEF ManagerInforms, Other, ToManager, Answer, Unchanged, slots
    <3>4. CASE ListDevices
      BY <3>4 DEF ListDevices, ToManager, Answer
    <3>5. CASE RefusePort
      BY <3>5 DEF RefusePort, ToManager, Answer, slots
    <3> QED BY <1>1, <3>1, <3>2, <3>3, <3>4, <3>5
  <2> QED BY <2>1, SameSlots
<1>2. CASE CloseMain
  <2>1. /\ pc = "handling" /\ pc' = "idle" /\ mainPc' = mainPc
        /\ UNCHANGED <<m_acManagers, deleted>>
    BY <1>2 DEF CloseMain, ToMain, Unchanged, slots
  <2>2. /\ mainPc' # "done"
        /\ \A o, m, c : At(m_acManagers', o, m, c) <=> At(m_acManagers, o, m, c)
    BY <2>1 DEF IInv, MainAlone
  <2> QED BY <2>1, <2>2, SamePlaces
<1>3. CASE RefuseManager
  <2>1. /\ pc = "handling" /\ \E replies : Replied(replies)
        /\ m_acManagers' = WithRoom(m_acManagers) /\ deleted' = deleted
    BY <1>3 DEF RefuseManager, ToMain, Answer
  <2>2. pc' = "idle" /\ mainPc' # "done"
    BY <2>1, RepliedEnds DEF IInv, MainAlone
  <2>3. \A o, m, c : At(m_acManagers', o, m, c) <=> At(m_acManagers, o, m, c)
    BY <2>1, RoomMovesNone DEF IInv, Typed
  <2> QED BY <2>1, <2>2, <2>3, SamePlaces
<1>4. CASE CreateFails
  <2> DEFINE n == request.to + 1
  <2>1. /\ pc = "handling" /\ \E replies : Replied(replies)
        /\ m_acManagers' = WithChans(m_acManagers, n, Chans) /\ deleted' = deleted
        /\ Setting
    BY <1>4, ChansTyped DEF CreateFails, Answer, WithChans
  <2>2. pc' = "idle" /\ mainPc' # "done"
    BY <2>1, RepliedEnds DEF IInv, MainAlone
  <2>3. /\ m_acManagers \in Slots(ManagerRecord) /\ n \in DOMAIN m_acManagers
        /\ m_acManagers[n] \in ManagerRecord /\ m_acManagers[n] = Manager
        /\ Chans \in Slots(Channel)
        /\ \A k \in DOMAIN Manager.chans : k \in DOMAIN Chans /\ Chans[k] = Manager.chans[k]
        /\ \A k \in DOMAIN Chans \ DOMAIN Manager.chans : Chans[k] = NULL
    BY <2>1, ChansTyped DEF IInv, Typed, Manager
  <2>4. m_acManagers[n] # NULL
    BY <2>3, ManagersAssumption
  <2> HIDE DEF n
  <2>5. \A o, m, c : At(m_acManagers', o, m, c) <=>
          IF m # n \/ c = 0 THEN At(m_acManagers, o, m, c)
          ELSE c \in DOMAIN Chans /\ Chans[c] # NULL /\ Chans[c].id = o
    BY <2>1, <2>3, ChansChange
  <2>6. \A o, c : c # 0 =>
          (At(m_acManagers, o, n, c) <=>
             c \in DOMAIN Chans /\ Chans[c] # NULL /\ Chans[c].id = o)
    BY <2>3, <2>4 DEF At
  <2>7. \A o, m, c : At(m_acManagers', o, m, c) <=> At(m_acManagers, o, m, c)
    BY <2>5, <2>6
  <2> QED BY <2>1, <2>2, <2>7, SamePlaces
<1> QED BY <1>1, <1>2, <1>3, <1>4

\* A new manager is a new object.
LEMMA CreateManagerPlaces ==
  ASSUME IInv, Deletions, CreateManager PROVE Deletions'
<1> DEFINE t == FirstFree(m_acManagers)
           man == NewManager(request.what)
           room == WithRoom(m_acManagers)
<1>1. /\ pc = "handling" /\ \E replies : Replied(replies)
      /\ m_acManagers' = [room EXCEPT ![t + 1] = man]
      /\ m_acManagers \in Slots(ManagerRecord)
      /\ deleted' = Append(deleted, 0) /\ request.what \in Kinds
  BY DEF CreateManager, ToMain, Answer, IInv, Typed
<1>2. t + 1 \in DOMAIN room /\ ~IsOpen(m_acManagers, t)
  BY <1>1, WithRoomKeeps, FirstFreeIs DEF Slots
<1>3. man # NULL /\ man.id = NextObject
  BY <1>1, NewManagerTyped DEF NewManager
<1>4. 0 \notin DOMAIN man.chans /\ \A c \in DOMAIN man.chans : man.chans[c] = NULL
  <2>1. man.chans = [n \in 1 .. m_usChans |-> NULL] \/ man.chans = << >>
    BY DEF NewManager
  <2>2. m_usChans \in Nat /\ DOMAIN << >> = {}
    BY ManagersAssumption
  <2> QED BY <2>1, <2>2
<1>5. pc' = "idle" /\ mainPc' = mainPc
  BY <1>1, RepliedEnds
<1> HIDE DEF t, man, room
<1>6. \A o, m, c : ~(m = t + 1 /\ At(m_acManagers, o, m, c))
  BY <1>2 DEF At, IsOpen
<1>7. \A o, m, c : At(room, o, m, c) <=> At(m_acManagers, o, m, c)
  BY <1>1, RoomMovesNone DEF room
<1>8. PICK n : n = t + 1
  OBVIOUS
<1>9. /\ n \in DOMAIN room /\ m_acManagers' = [room EXCEPT ![n] = man]
      /\ \A o, m, c : ~(m = n /\ At(room, o, m, c))
  BY <1>1, <1>2, <1>6, <1>7, <1>8
<1>10. \A o, m, c : At([room EXCEPT ![n] = man], o, m, c) <=>
         At(room, o, m, c) \/ (o = man.id /\ m = n /\ c = 0)
  BY <1>3, <1>4, <1>9, ManagerAdds
<1>11. \A o, m, c : At(m_acManagers', o, m, c) <=> At([room EXCEPT ![n] = man], o, m, c)
  BY <1>9
<1>12. Adds(NextObject, n, 0)
  <2> SUFFICES ASSUME NEW o, NEW m, NEW c
               PROVE  At(m_acManagers', o, m, c) <=>
                        \/ At(m_acManagers, o, m, c)
                        \/ o = NextObject /\ m = n /\ c = 0
    BY DEF Adds
  <2>1. At(room, o, m, c) <=> At(m_acManagers, o, m, c)
    BY <1>7
  <2>2. At(m_acManagers', o, m, c) <=> At([room EXCEPT ![n] = man], o, m, c)
    BY <1>11
  <2>3. At([room EXCEPT ![n] = man], o, m, c) <=>
          At(room, o, m, c) \/ (o = man.id /\ m = n /\ c = 0)
    BY <1>10
  <2> QED BY <1>3, <2>1, <2>2, <2>3
<1> QED BY <1>1, <1>5, <1>12, ObjectCreated

\* So is a new channel.
LEMMA CreateChannelPlaces ==
  ASSUME IInv, Deletions, CreateChannel PROVE Deletions'
<1> DEFINE n == request.to + 1
           what == Wanted(SlotFor)
           channel == [id |-> NextObject, what |-> what]
           chans == [Chans EXCEPT ![SlotFor + 1] = channel]
<1>1. /\ Setting /\ CanOpen(what)
      /\ m_acManagers' = WithChans(m_acManagers, n, chans)
      /\ deleted' = Append(deleted, 0)
      /\ \E replies : Replied(replies)
  BY DEF CreateChannel, WithChans, Answer
<1>2. /\ m_acManagers \in Slots(ManagerRecord) /\ deleted \in Seq(Nat)
      /\ n \in DOMAIN m_acManagers /\ m_acManagers[n] \in ManagerRecord
      /\ m_acManagers[n] = Manager /\ pc = "handling"
      /\ Chans \in Slots(Channel)
      /\ SlotFor \in Nat /\ SlotFor + 1 \in DOMAIN Chans /\ ~IsOpen(Manager.chans, SlotFor)
      /\ \A k \in DOMAIN Manager.chans : k \in DOMAIN Chans /\ Chans[k] = Manager.chans[k]
      /\ \A k \in DOMAIN Chans \ DOMAIN Manager.chans : Chans[k] = NULL
  BY <1>1, ChansTyped DEF IInv, Typed, Manager
<1>3. m_acManagers[n] # NULL
  BY <1>2, ManagersAssumption
<1>4. channel \in Channel /\ channel.id = NextObject
  <2>1. NextObject \in Nat
    BY <1>2, LenProperties DEF NextObject
  <2> QED BY <1>1, <2>1, WantedTyped DEF Channel
<1>5. channel # NULL
  BY <1>4, ManagersAssumption
<1>6. chans \in Slots(Channel) /\ DOMAIN chans = DOMAIN Chans
  <2> HIDE DEF channel
  <2> QED BY <1>2, <1>4, ExceptSeq, LenProperties DEF Slots
<1>7. /\ chans[SlotFor + 1] = channel
      /\ \A k \in DOMAIN Chans \ {SlotFor + 1} : chans[k] = Chans[k]
  <2> HIDE DEF channel
  <2> QED BY <1>2
<1>8. pc' = "idle" /\ mainPc' = mainPc
  BY <1>1, RepliedEnds
<1> HIDE DEF chans, channel, what, n
<1>9. \A o, m, c : At(m_acManagers', o, m, c) <=>
        IF m # n \/ c = 0 THEN At(m_acManagers, o, m, c)
        ELSE c \in DOMAIN chans /\ chans[c] # NULL /\ chans[c].id = o
  BY <1>1, <1>2, <1>6, ChansChange
<1>10. \A o, c : c # 0 /\ c # SlotFor + 1 =>
         (At(m_acManagers, o, n, c) <=>
            c \in DOMAIN chans /\ chans[c] # NULL /\ chans[c].id = o)
  BY <1>2, <1>3, <1>6, <1>7 DEF At
<1>11. \A o : ~At(m_acManagers, o, n, SlotFor + 1)
  BY <1>2 DEF At, IsOpen
<1>12. SlotFor + 1 # 0
  BY <1>2
<1>13. PICK slot : slot = SlotFor + 1
  OBVIOUS
<1>14. Adds(NextObject, n, slot)
  BY <1>2, <1>4, <1>5, <1>6, <1>7, <1>9, <1>10, <1>11, <1>12, <1>13 DEF Adds
<1> QED BY <1>1, <1>2, <1>8, <1>14, ObjectCreated

\* A deletion begins with a list of all it will delete.
LEMMA DeletionBegins ==
  ASSUME IInv, Deletions, pc = "handling", pc' = "deleting",
         UNCHANGED <<m_acManagers, deleted, mainPc>>,
         doomed' \in Seq(Nat \cup {NULL}),
         \A i, j \in DOMAIN doomed' : doomed'[i] = doomed'[j] /\ doomed'[i] # NULL => i = j,
         \A i \in DOMAIN doomed' : doomed'[i] # NULL =>
           \E m, c : UnderWay(m, c)' /\ At(m_acManagers, doomed'[i], m, c),
         \A o, m, c : UnderWay(m, c)' /\ At(m_acManagers, o, m, c) => o \in Range(doomed')
  PROVE  Deletions'
<1>1. \A o : Placed(o)' <=> Placed(o)
  BY DEF Placed
<1>2. \A m, c : ~UnderWay(m, c)
  BY DEF UnderWay
<1>3. Owned'
  BY <1>1 DEF Deletions, Owned
<1>4. Once'
  <2>1. \A o, m, c : At(m_acManagers, o, m, c) => deleted[o] = 0
    BY <1>2 DEF Deletions, Once
  <2>2. \A o \in DOMAIN deleted : Placed(o)' \/ deleted'[o] = 1
    BY <1>1 DEF Deletions, Once
  <2> QED BY <2>1, <2>2 DEF Once
<1> QED BY <1>3, <1>4 DEF Deletions, Queued

\* The deletion of a manager: of itself, then of each channel it has.
LEMMA DeleteManagerPlaces ==
  ASSUME IInv, Deletions, DeleteManager PROVE Deletions'
<1> DEFINE n == request.nChan + 1
           man == m_acManagers[n]
           ids == ChannelsOf(man)
           list == <<man.id>> \o ids
<1>1. /\ pc = "handling" /\ pc' = "deleting" /\ request' = request /\ request.to = -1
      /\ n \in DOMAIN m_acManagers /\ man # NULL
      /\ m_acManagers' = m_acManagers /\ deleted' = deleted /\ mainPc' = mainPc
      /\ doomed' = list
  BY DEF DeleteManager, ToMain, IsOpen, slots, main
<1>2. man \in ManagerRecord
  BY <1>1, ElementOfSeq DEF IInv, Typed, Slots
<1>3. /\ man.chans \in Seq(Channel \cup {NULL}) /\ man.id \in Nat
      /\ Len(man.chans) \in Nat /\ DOMAIN man.chans = 1 .. Len(man.chans)
  BY <1>2, LenProperties DEF ManagerRecord
<1>4. \A k \in DOMAIN man.chans : man.chans[k] # NULL => man.chans[k].id \in Nat
  BY <1>3, ElementOfSeq DEF Channel
<1>5. /\ ids \in Seq(Nat \cup {NULL}) /\ Len(ids) = Len(man.chans)
      /\ \A k \in DOMAIN man.chans :
           ids[k] = IF man.chans[k] = NULL THEN NULL ELSE man.chans[k].id
  <2>1. \A k \in 1 .. Len(man.chans) :
          (IF man.chans[k] = NULL THEN NULL ELSE man.chans[k].id) \in Nat \cup {NULL}
    BY <1>3, <1>4
  <2>2. ids = [k \in 1 .. Len(man.chans) |->
                 IF man.chans[k] = NULL THEN NULL ELSE man.chans[k].id]
    BY <1>3 DEF ChannelsOf
  <2>3. ids \in Seq(Nat \cup {NULL})
    BY <1>3, <2>1, <2>2, IsASeq
  <2>4. DOMAIN ids = 1 .. Len(man.chans)
    BY <2>2
  <2> QED BY <1>3, <2>2, <2>3, <2>4, LenProperties
<1> HIDE DEF ids, man
<1>6. /\ list \in Seq(Nat \cup {NULL}) /\ DOMAIN list = 1 .. Len(man.chans) + 1
      /\ list[1] = man.id
      /\ \A k \in 1 .. Len(man.chans) : list[k + 1] = ids[k]
  <2>1. <<man.id>> \in Seq(Nat \cup {NULL}) /\ Len(<<man.id>>) = 1 /\ <<man.id>>[1] = man.id
    BY <1>3
  <2> QED BY <1>3, <1>5, <2>1, ConcatProperties, LenProperties
<1> HIDE DEF list, n
<1>7. \A i \in DOMAIN list : list[i] # NULL => At(m_acManagers, list[i], n, i - 1)
  <2> SUFFICES ASSUME NEW i \in DOMAIN list, list[i] # NULL
               PROVE  At(m_acManagers, list[i], n, i - 1)
    OBVIOUS
  <2>1. CASE i = 1
    BY <1>1, <1>6, <2>1 DEF At, man
  <2>2. CASE i # 1
    <3>1. /\ i - 1 \in 1 .. Len(man.chans) /\ list[i] = ids[i - 1]
      BY <1>3, <1>6, <2>2
    <3>2. i - 1 \in DOMAIN man.chans /\ man.chans[i - 1] # NULL /\ man.chans[i - 1].id = list[i]
      BY <1>3, <1>5, <3>1
    <3>3. i - 1 # 0
      BY <3>1
    <3> QED BY <1>1, <3>2, <3>3 DEF At, man
  <2> QED BY <2>1, <2>2
<1>8. ASSUME NEW i \in DOMAIN list, NEW j \in DOMAIN list, list[i] = list[j], list[i] # NULL
      PROVE  i = j
  <2>1. i - 1 = j - 1
    BY <1>7, <1>8 DEF Deletions, Owned
  <2> QED BY <1>3, <1>6, <2>1
<1>9. ASSUME NEW o, NEW c, At(m_acManagers, o, n, c)
      PROVE  o \in Range(list)
  <2>1. CASE c = 0
    <3>1. o = list[1] /\ 1 \in DOMAIN list
      BY <1>3, <1>6, <1>9, <2>1 DEF At, man
    <3> QED BY <3>1 DEF Range
  <2>2. CASE c # 0
    <3>1. c \in DOMAIN man.chans /\ man.chans[c] # NULL /\ man.chans[c].id = o
      BY <1>9, <2>2 DEF At, man
    <3>2. c + 1 \in DOMAIN list /\ list[c + 1] = o
      BY <1>3, <1>5, <1>6, <3>1
    <3> QED BY <3>2 DEF Range
  <2> QED BY <2>1, <2>2
<1>10. \A m, c : UnderWay(m, c)' <=> m = n
  BY <1>1 DEF UnderWay, n
<1>11. \A i \in DOMAIN doomed' : doomed'[i] # NULL =>
         \E m, c : UnderWay(m, c)' /\ At(m_acManagers, doomed'[i], m, c)
  BY <1>1, <1>7, <1>10
<1>12. \A o, m, c : UnderWay(m, c)' /\ At(m_acManagers, o, m, c) => o \in Range(doomed')
  BY <1>1, <1>9, <1>10
<1>13. \A i, j \in DOMAIN doomed' : doomed'[i] = doomed'[j] /\ doomed'[i] # NULL => i = j
  BY <1>1, <1>8
<1> QED BY <1>1, <1>6, <1>11, <1>12, <1>13, DeletionBegins

\* The deletion of a channel: of nothing else.
LEMMA DeleteChannelPlaces ==
  ASSUME IInv, Deletions, DeleteChannel PROVE Deletions'
<1> DEFINE n == request.to + 1
           k == request.nChan + 1
           id == Manager.chans[k].id
<1>1. /\ pc = "handling" /\ pc' = "deleting" /\ request' = request /\ request.to >= 0
      /\ IsOpen(m_acManagers, request.to) /\ IsOpen(Manager.chans, request.nChan)
      /\ m_acManagers' = m_acManagers /\ deleted' = deleted /\ mainPc' = mainPc
      /\ doomed' = <<id>>
  BY DEF DeleteChannel, ToManager, HasChan, slots, main
<1>2. /\ n \in DOMAIN m_acManagers /\ m_acManagers[n] # NULL /\ Manager = m_acManagers[n]
      /\ k \in DOMAIN Manager.chans /\ Manager.chans[k] # NULL
      /\ Manager.chans \in Seq(Channel \cup {NULL})
  BY <1>1, ManagerTyped DEF IsOpen, Manager, Slots
<1>3. id \in Nat /\ k # 0
  <2>1. Manager.chans[k] \in Channel
    BY <1>2, ElementOfSeq
  <2>2. k \in 1 .. Len(Manager.chans)
    BY <1>2, LenProperties
  <2> QED BY <2>1, <2>2 DEF Channel
<1>4. request.to # -1
  BY <1>1
<1> HIDE DEF id
<1>5. doomed' \in Seq(Nat \cup {NULL}) /\ DOMAIN doomed' = {1} /\ doomed'[1] = id
  BY <1>1, <1>3
<1>6. \A m, c : UnderWay(m, c)' <=> m = n /\ c = k
  BY <1>1, <1>4 DEF UnderWay
<1> HIDE DEF n, k
<1>7. \A o : At(m_acManagers, o, n, k) <=> o = id
  BY <1>2, <1>3 DEF At, id
<1>8. id \in Range(doomed')
  BY <1>5 DEF Range
<1>9. \A i \in DOMAIN doomed' : doomed'[i] # NULL =>
        \E m, c : UnderWay(m, c)' /\ At(m_acManagers, doomed'[i], m, c)
  BY <1>5, <1>6, <1>7
<1>10. \A o, m, c : UnderWay(m, c)' /\ At(m_acManagers, o, m, c) => o \in Range(doomed')
  BY <1>6, <1>7, <1>8
<1>11. \A i, j \in DOMAIN doomed' : doomed'[i] = doomed'[j] /\ doomed'[i] # NULL => i = j
  BY <1>5
<1> QED BY <1>1, <1>5, <1>9, <1>10, <1>11, DeletionBegins

\* One destructor: the object counts as deleted, and leaves the list.
LEMMA DestroyPlaces ==
  ASSUME IInv, Deletions, Destroy PROVE Deletions'
<1> DEFINE d == Head(doomed)
<1>1. /\ pc = "deleting" /\ pc' = pc /\ request' = request /\ mainPc' = mainPc
      /\ m_acManagers' = m_acManagers /\ doomed # << >> /\ doomed' = Tail(doomed)
      /\ Delete({d})
  BY DEF Destroy, slots, main
<1>2. /\ DOMAIN deleted' = DOMAIN deleted
      /\ \A o \in DOMAIN deleted :
           deleted'[o] = IF o = d THEN deleted[o] + 1 ELSE deleted[o]
  BY <1>1, DeleteTyped
<1>3. \A o \in DOMAIN deleted : deleted[o] \in Nat /\ o # NULL
  <2>1. deleted \in Seq(Nat) /\ DOMAIN deleted \subseteq Nat
    BY LenProperties DEF IInv, Typed
  <2> QED BY <2>1, ElementOfSeq, ManagersAssumption
<1>4. /\ doomed \in Seq(Nat \cup {NULL}) /\ Len(doomed) \in Nat
      /\ DOMAIN doomed = 1 .. Len(doomed)
  BY <1>1, LenProperties DEF Deletions, Queued
<1>5. /\ doomed' \in Seq(Nat \cup {NULL}) /\ DOMAIN doomed' = 1 .. Len(doomed) - 1
      /\ 1 \in DOMAIN doomed /\ d = doomed[1]
      /\ \A i \in DOMAIN doomed' : i + 1 \in DOMAIN doomed /\ doomed'[i] = doomed[i + 1]
  <2>1. /\ Len(doomed) >= 1 /\ d = doomed[1] /\ Tail(doomed) \in Seq(Nat \cup {NULL})
        /\ Len(Tail(doomed)) = Len(doomed) - 1
        /\ \A i \in 1 .. Len(Tail(doomed)) : Tail(doomed)[i] = doomed[i + 1]
    BY <1>1, <1>4, HeadTailProperties, EmptySeq
  <2>2. DOMAIN Tail(doomed) = 1 .. Len(doomed) - 1
    BY <2>1, LenProperties
  <2> QED BY <1>1, <1>4, <2>1, <2>2
<1> HIDE DEF d
<1>6. \A i \in DOMAIN doomed' : doomed'[i] # NULL => doomed'[i] # d
  <2> SUFFICES ASSUME NEW i \in DOMAIN doomed', doomed'[i] # NULL, doomed'[i] = d
               PROVE  FALSE
    OBVIOUS
  <2>1. i + 1 = 1
    BY <1>1, <1>5 DEF Deletions, Queued
  <2> QED BY <1>4, <1>5, <2>1
<1>7. \A o : o # d => (o \in Range(doomed) <=> o \in Range(doomed'))
  <2>1. ASSUME NEW o, o # d, NEW i \in DOMAIN doomed, doomed[i] = o
        PROVE  o \in Range(doomed')
    <3>1. i # 1
      BY <1>5, <2>1
    <3>2. i - 1 \in DOMAIN doomed' /\ i - 1 + 1 = i
      BY <1>4, <1>5, <3>1
    <3>3. doomed'[i - 1] = o
      BY <1>5, <2>1, <3>2
    <3> QED BY <3>2, <3>3 DEF Range
  <2>2. \A o : o \in Range(doomed') => o \in Range(doomed)
    BY <1>5 DEF Range
  <2> QED BY <2>1, <2>2 DEF Range
<1>8. /\ \A o : Placed(o)' <=> Placed(o)
      /\ \A m, c : UnderWay(m, c)' <=> UnderWay(m, c)
  BY <1>1 DEF Placed, UnderWay
<1>9. Owned'
  BY <1>1, <1>2, <1>3, <1>8 DEF Deletions, Owned
<1>10. d # NULL => \E m, c : UnderWay(m, c) /\ At(m_acManagers, d, m, c)
  BY <1>1, <1>5 DEF Deletions, Queued
<1>11. Once'
  <2>1. \A o, m, c : At(m_acManagers, o, m, c) =>
          deleted[o] = IF UnderWay(m, c) /\ o \notin Range(doomed) THEN 1 ELSE 0
    BY <1>1 DEF Deletions, Once
  <2>2. ASSUME NEW o, NEW m, NEW c, At(m_acManagers, o, m, c)
        PROVE  deleted'[o] = IF UnderWay(m, c) /\ o \notin Range(doomed') THEN 1 ELSE 0
    <3>1. o \in DOMAIN deleted
      BY <2>2 DEF Deletions, Owned
    <3>2. CASE o = d
      <4>1. UnderWay(m, c)
        BY <1>3, <1>10, <2>2, <3>1, <3>2 DEF Deletions, Owned
      <4>2. d \in Range(doomed)
        BY <1>5 DEF Range
      <4>3. d # NULL
        BY <1>3, <3>1, <3>2
      <4>4. d \notin Range(doomed')
        BY <1>6, <4>3 DEF Range
      <4> QED BY <1>2, <2>1, <2>2, <3>1, <3>2, <4>1, <4>2, <4>4
    <3>3. CASE o # d
      BY <1>2, <1>7, <2>1, <2>2, <3>1, <3>3
    <3> QED BY <3>2, <3>3
  <2>3. ASSUME NEW o \in DOMAIN deleted, ~Placed(o)
        PROVE  deleted'[o] = 1
    <3>1. o # d
      BY <1>3, <1>10, <2>3 DEF Placed
    <3> QED BY <1>1, <1>2, <2>3, <3>1 DEF Deletions, Once
  <2> QED BY <1>1, <1>2, <1>8, <2>2, <2>3 DEF Once
<1>12. Queued'
  <2>1. ASSUME NEW i \in DOMAIN doomed', NEW j \in DOMAIN doomed',
               doomed'[i] = doomed'[j], doomed'[i] # NULL
        PROVE  i = j
    <3>1. i + 1 = j + 1
      BY <1>1, <1>5, <2>1 DEF Deletions, Queued
    <3> QED BY <1>4, <1>5, <3>1
  <2>2. ASSUME NEW i \in DOMAIN doomed', doomed'[i] # NULL
        PROVE  \E m, c : UnderWay(m, c)' /\ At(m_acManagers', doomed'[i], m, c)
    BY <1>1, <1>5, <1>8, <2>2 DEF Deletions, Queued
  <2> QED BY <1>5, <2>1, <2>2 DEF Queued
<1> QED BY <1>9, <1>11, <1>12 DEF Deletions

\* The deletion is over, and what was deleted loses its place.
LEMMA DeleteReturnsPlaces ==
  ASSUME IInv, Deletions, DeleteReturns PROVE Deletions'
<1>1. /\ pc = "deleting" /\ doomed = << >> /\ \E replies : Replied(replies)
      /\ deleted' = deleted
  BY DEF DeleteReturns, Answer
<1>2. pc' = "idle" /\ mainPc' = mainPc
  BY <1>1, RepliedEnds
<1>3. \A o, m, c : At(m_acManagers', o, m, c) <=>
        At(m_acManagers, o, m, c) /\ ~UnderWay(m, c)
  <2>1. CASE request.to = -1
    <3>1. PICK n : n = request.nChan + 1
      OBVIOUS
    <3>2. /\ n \in DOMAIN m_acManagers
          /\ m_acManagers' = [m_acManagers EXCEPT ![n] = NULL]
      BY <1>1, <2>1, <3>1 DEF IInv, DoomedUnnamed, IsOpen, DeleteReturns, Cleared
    <3>3. \A m, c : UnderWay(m, c) <=> m = n
      BY <1>1, <2>1, <3>1 DEF UnderWay
    <3> QED BY <3>2, <3>3 DEF At
  <2>2. CASE request.to # -1
    <3>1. PICK n, k : n = request.to + 1 /\ k = request.nChan + 1
      OBVIOUS
    <3> DEFINE chans == [Manager.chans EXCEPT ![k] = NULL]
    <3>2. /\ IsOpen(m_acManagers, request.to) /\ request.to \in Nat
          /\ k \in DOMAIN Manager.chans
      BY <1>1, <2>2, <3>1 DEF IInv, DoomedUnnamed, IsOpen
    <3>3. /\ n \in DOMAIN m_acManagers /\ m_acManagers[n] = Manager
          /\ Manager \in ManagerRecord /\ Manager.chans \in Slots(Channel)
          /\ m_acManagers \in Slots(ManagerRecord) /\ m_acManagers[n] # NULL
      BY <3>1, <3>2, ManagerTyped DEF Manager, IsOpen, IInv, Typed
    <3>4. m_acManagers' = WithChans(m_acManagers, n, chans)
      BY <2>2, <3>1, <3>3 DEF DeleteReturns, Cleared, WithChans
    <3>5. /\ chans \in Slots(Channel) /\ DOMAIN chans = DOMAIN Manager.chans
          /\ chans[k] = NULL /\ k # 0
          /\ \A j \in DOMAIN chans \ {k} : chans[j] = Manager.chans[j]
      BY <3>2, <3>3, ExceptSeq, LenProperties DEF Slots
    <3> HIDE DEF chans
    <3>6. \A o, m, c : At(m_acManagers', o, m, c) <=>
            IF m # n \/ c = 0 THEN At(m_acManagers, o, m, c)
            ELSE c \in DOMAIN chans /\ chans[c] # NULL /\ chans[c].id = o
      BY <3>3, <3>4, <3>5, ChansChange
    <3>7. \A m, c : UnderWay(m, c) <=> m = n /\ c = k
      BY <1>1, <2>2, <3>1 DEF UnderWay
    <3>8. \A o, c : c # 0 /\ c # k =>
            (At(m_acManagers, o, n, c) <=>
               c \in DOMAIN chans /\ chans[c] # NULL /\ chans[c].id = o)
      BY <3>3, <3>5 DEF At
    <3> QED BY <3>5, <3>6, <3>7, <3>8
  <2> QED BY <2>1, <2>2
<1>4. \A m, c : ~UnderWay(m, c)'
  BY <1>2 DEF UnderWay
<1>5. Range(doomed) = {}
  BY <1>1 DEF Range
<1>6. /\ \A o, m, c : At(m_acManagers, o, m, c) =>
           deleted[o] = IF UnderWay(m, c) THEN 1 ELSE 0
      /\ \A o \in DOMAIN deleted : Placed(o) \/ deleted[o] = 1
  BY <1>1, <1>5 DEF Deletions, Once
<1>7. ASSUME NEW o \in DOMAIN deleted, ~Placed(o)' PROVE deleted[o] = 1
  BY <1>3, <1>6, <1>7 DEF Placed
<1>8. Owned'
  <2>1. mainPc' # "done"
    BY <1>1, <1>2 DEF IInv, MainAlone
  <2> QED BY <1>1, <1>3, <1>7, <2>1 DEF Deletions, Owned
<1>9. Once'
  BY <1>1, <1>3, <1>4, <1>6, <1>7 DEF Once
<1> QED BY <1>2, <1>8, <1>9 DEF Deletions, Queued

\* A step that touches neither slots nor a deletion.
LEMMA NothingMoves ==
  ASSUME Deletions, UNCHANGED <<m_acManagers, deleted, pc, request, doomed>>,
         mainPc' = "done" => mainPc = "done"
  PROVE  Deletions'
<1>1. /\ \A o : Placed(o)' <=> Placed(o)
      /\ \A m, c : UnderWay(m, c)' <=> UnderWay(m, c)
  BY DEF Placed, UnderWay
<1>2. Owned'
  BY <1>1 DEF Deletions, Owned
<1>3. Once'
  BY <1>1 DEF Deletions, Once
<1>4. Queued'
  BY <1>1 DEF Deletions, Queued
<1> QED BY <1>2, <1>3, <1>4 DEF Deletions

\* Steps of the comm and the world.
LEMMA CommPlaces ==
  ASSUME Deletions, Comm \/ (\E d \in Devices : Change(d)) \/ UNCHANGED vars
  PROVE  Deletions'
<1>1. CASE \E r \in Requests : ReadRequest(r)
  <2>1. /\ pc = "idle" /\ pc' = "handling" /\ mainPc = "waiting" /\ mainPc' = mainPc
        /\ m_acManagers' = m_acManagers /\ deleted' = deleted
    BY <1>1 DEF ReadRequest, slots, main
  <2> QED BY <2>1, SamePlaces
<1>2. CASE Sent \/ SessionEnds \/ (\E d \in Devices : Change(d)) \/ UNCHANGED vars
  BY <1>2, NothingMoves DEF Sent, SessionEnds, Change, vars, slots, thread, main
<1> QED BY <1>1, <1>2 DEF Comm

\* Objects is what has a place.
LEMMA ObjectsPlaced ==
  ASSUME IInv, NEW o, o # NULL
  PROVE  o \in Objects <=> Placed(o)
<1>1. ASSUME NEW n \in DOMAIN m_acManagers, m_acManagers[n] # NULL
      PROVE  o \in {m_acManagers[n].id} \cup Range(ChannelsOf(m_acManagers[n])) <=>
               \E c : At(m_acManagers, o, n, c)
  <2> DEFINE man == m_acManagers[n]
  <2>1. 0 \notin DOMAIN man.chans
    <3>1. man \in ManagerRecord
      BY <1>1, ElementOfSeq DEF IInv, Typed, Slots
    <3>2. man.chans \in Seq(Channel \cup {NULL})
      BY <3>1 DEF ManagerRecord
    <3> QED BY <3>2, LenProperties
  <2>2. o \in Range(ChannelsOf(man)) <=>
          \E c \in DOMAIN man.chans : man.chans[c] # NULL /\ man.chans[c].id = o
    BY DEF Range, ChannelsOf
  <2>3. \A c : At(m_acManagers, o, n, c) <=>
          IF c = 0 THEN man.id = o
          ELSE c \in DOMAIN man.chans /\ man.chans[c] # NULL /\ man.chans[c].id = o
    BY <1>1 DEF At
  <2> HIDE DEF man
  <2>4. o \in {man.id} \cup Range(ChannelsOf(man)) <=> \E c : At(m_acManagers, o, n, c)
    BY <2>1, <2>2, <2>3
  <2> QED BY <2>4 DEF man
<1>2. \A m, c : At(m_acManagers, o, m, c) => m \in DOMAIN m_acManagers /\ m_acManagers[m] # NULL
  BY DEF At
<1> QED BY <1>1, <1>2 DEF Objects, Placed

\* The main thread deletes what has a place, after the pipe thread is gone.
LEMMA MainThreadPlaces ==
  ASSUME IInv, Deletions, MainThread PROVE Deletions'
<1>1. CASE CloseBegin
  BY <1>1, NothingMoves DEF CloseBegin, slots, thread
<1>2. CASE CloseJoined
  <2>1. /\ pc = "idle" /\ pc' = "exited" /\ mainPc' # "done"
        /\ m_acManagers' = m_acManagers /\ deleted' = deleted
    BY <1>2 DEF CloseJoined, CloseEnd, slots
  <2> QED BY <2>1, SamePlaces
<1>3. CASE CloseTimeout
  <2>1. /\ pc' = "killed" /\ mainPc' # "done"
        /\ m_acManagers' = m_acManagers /\ deleted' = deleted
    BY <1>3 DEF CloseTimeout, CloseEnd, slots
  <2>2. \A o : Placed(o)' <=> Placed(o)
    BY <2>1 DEF Placed
  <2>3. Owned'
    BY <2>1, <2>2 DEF Deletions, Owned
  <2> QED BY <2>1, <2>3 DEF Deletions, Once, Queued
<1>4. CASE DeleteManagers
  <2>1. /\ pc \in {"exited", "killed"} /\ pc' = pc /\ m_acManagers' = << >> /\ Delete(Objects)
    BY <1>4 DEF DeleteManagers, IInv, MainAlone, thread
  <2>2. /\ DOMAIN deleted' = DOMAIN deleted
        /\ \A o \in DOMAIN deleted :
             deleted'[o] = IF o \in Objects THEN deleted[o] + 1 ELSE deleted[o]
    BY <2>1, DeleteTyped
  <2>3. \A o \in DOMAIN deleted : deleted[o] \in Nat /\ o # NULL
    <3>1. deleted \in Seq(Nat) /\ DOMAIN deleted \subseteq Nat
      BY LenProperties DEF IInv, Typed
    <3> QED BY <3>1, ElementOfSeq, ManagersAssumption
  <2>4. \A o \in DOMAIN deleted : o \in Objects <=> Placed(o)
    BY <2>3, ObjectsPlaced
  <2>5. \A o, m, c : ~At(m_acManagers', o, m, c)
    <3>1. DOMAIN m_acManagers' = {}
      BY <2>1
    <3> QED BY <3>1 DEF At
  <2>6. \A m, c : ~UnderWay(m, c)
    BY <2>1 DEF UnderWay
  <2>7. \A o \in DOMAIN deleted : deleted'[o] >= 1
    BY <2>2, <2>3, <2>4 DEF Deletions, Owned
  <2>8. ASSUME pc # "killed", NEW o \in DOMAIN deleted PROVE deleted'[o] = 1
    <3>1. Placed(o) => deleted[o] = 0
      BY <2>6, <2>8 DEF Deletions, Once, Placed
    <3>2. ~Placed(o) => deleted[o] = 1
      BY <2>8 DEF Deletions, Once
    <3> QED BY <2>2, <2>4, <3>1, <3>2
  <2>9. Owned'
    BY <2>1, <2>2, <2>5, <2>7 DEF Owned
  <2>10. Once'
    BY <2>1, <2>2, <2>5, <2>8 DEF Once
  <2> QED BY <2>1, <2>9, <2>10 DEF Deletions, Queued
<1> QED BY <1>1, <1>2, <1>3, <1>4 DEF MainThread

\* Places and deletions agree in every reachable state.
LEMMA DeletionsAlways == Spec => []Deletions
<1>1. Init => Deletions
  <2> SUFFICES ASSUME Init PROVE Deletions
    OBVIOUS
  <2>1. DOMAIN m_acManagers = {} /\ DOMAIN deleted = {} /\ pc = "idle" /\ mainPc = "waiting"
    BY DEF Init
  <2>2. \A o, m, c : ~At(m_acManagers, o, m, c)
    BY <2>1 DEF At
  <2> QED BY <2>1, <2>2 DEF Deletions, Owned, Once, Queued
<1>2. IInv /\ Deletions /\ [Next]_vars => Deletions'
  <2> SUFFICES ASSUME IInv, Deletions, [Next]_vars PROVE Deletions'
    OBVIOUS
  <2>1. CASE ProcessData
    BY <2>1, HandlersMoveNone, CreateManagerPlaces, CreateChannelPlaces, DeleteManagerPlaces,
       DeleteChannelPlaces, DestroyPlaces, DeleteReturnsPlaces DEF ProcessData
  <2>2. CASE Comm \/ (\E d \in Devices : Change(d)) \/ UNCHANGED vars
    BY <2>2, CommPlaces
  <2>3. CASE MainThread
    BY <2>3, MainThreadPlaces
  <2> QED BY <2>1, <2>2, <2>3 DEF Next
<1> QED BY <1>1, <1>2, InvariantAlways, PTL DEF Spec

\* In the end every object was deleted, and none twice unless the pipe thread
\* was terminated: DeletedOnce, for any slots, requests and failures.
THEOREM EachDeletedOnce == Spec => []DeletedOnce
<1>1. IInv /\ Deletions => DeletedOnce
  <2> SUFFICES ASSUME IInv, Deletions PROVE DeletedOnce
    OBVIOUS
  <2>1. ASSUME pc # "killed", NEW o \in DOMAIN deleted PROVE deleted[o] <= 1
    BY <2>1 DEF Deletions, Once, Placed
  <2>2. ASSUME mainPc = "done", NEW o \in DOMAIN deleted PROVE deleted[o] >= 1
    <3>1. DOMAIN m_acManagers = {}
      BY <2>2 DEF Deletions, Owned
    <3>2. ~Placed(o)
      BY <3>1 DEF Placed, At
    <3> QED BY <3>2 DEF Deletions, Owned
  <2> QED BY <2>1, <2>2 DEF DeletedOnce
<1> QED BY <1>1, InvariantAlways, DeletionsAlways, PTL
=============================================================================
