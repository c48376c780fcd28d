------------------------------ MODULE Managers ------------------------------
(***************************************************************************)
(* CMainManager ("Barst.cpp") and the managers it creates: CManagerFTDI,   *)
(* CManagerRTV, CManagerSerial and CManagerMCDAQ (their ProcessData in the *)
(* file of their channel).  Users create, query and delete managers, and   *)
(* through them channels, over the main pipe; its one thread, and the one  *)
(* user it serves at a time, are those of a CPipeServer with one instance. *)
(* The main thread sleeps in Run until m_hClose is set and then deletes    *)
(* the main manager.                                                       *)
(*                                                                         *)
(* A channel is its number and what it was opened for: a board, a serial   *)
(* port, an FTDI device; what it does is the subject of the modules RTV,   *)
(* MCDAQ, Serial and FTDI.  An object deleted twice is counted twice.      *)
(* Memory is never short.                                                  *)
(***************************************************************************)
EXTENDS Integers, Sequences, SequencesExt, FiniteSets

CONSTANTS
  NULL,
  Devices,      \* FTDI devices, each with its LocId
  Requests,     \* the requests users send, see RequestsAssumption
  m_usChans,    \* boards a CManagerRTV or CManagerMCDAQ finds
  MaxRequests,  \* bound: requests in all
  MaxPending,   \* bound: replies queued when a request is read
  MaxFaults,    \* bound: constructors and driver calls that fail
  MaxChanges    \* bound: times a device is plugged in or out

Kinds == {"eFTDIMan", "eRTVMan", "eSerialMan", "eMCDAQMan"}
Commands == {"eVersion", "eDelete", "eSet", "eQuery", "eNone", "badSize"}

\* to is -1, or the manager an ePassOn names; what is the eType2 of an eSet
\* to the main manager, or what its SChanInit asks for: "badFormat" is a video
\* format there is not, for an MCDAQ board an SChanInit of another kind.
ASSUME RequestsAssumption ==
  \A r \in Requests :
    /\ DOMAIN r = {"to", "eType", "nChan", "what"}
    /\ r.to \in Nat \cup {-1} /\ r.nChan \in Nat \cup {-1}
    /\ r.eType \in Commands
\* What is in a slot: a channel, of a manager, or a manager.
Channel == [id : Nat, what : {"port"} \cup {r.what : r \in Requests} \cup Devices]
ManagerRecord == [id : Nat, kind : Kinds, chans : Seq(Channel \cup {NULL})]

ASSUME ManagersAssumption ==
  /\ NULL \notin Devices \cup Channel \cup ManagerRecord \cup Nat
  /\ m_usChans \in Nat /\ MaxRequests \in Nat /\ MaxPending \in Nat
  /\ MaxFaults \in Nat /\ MaxChanges \in Nat

VARIABLES
  m_acManagers,    \* sequence of managers and NULLs: number n at n + 1
  m_asFTChanInfo,  \* the device list of the FTDI manager, m_dwNumDevs long
  deleted,         \* deleted[o]: how often the object o was deleted
  pc,              \* where the pipe thread is
  request,         \* the request it handles
  doomed,          \* objects it has still to delete, and NULLs
  outbox,          \* the user's replies: pDevice is 0 for the main manager
  m_hClose,
  mainPc,          \* where the main thread is
  attached,        \* FTDI devices plugged in
  nRequests, nFaults, nChanges,
  shown,           \* the list the user was shown last in this session
  told             \* what users were told is open, and nobody has deleted

slots   == <<m_acManagers, m_asFTChanInfo>>
thread  == <<pc, request, doomed>>
world   == <<attached, nChanges>>
bounds  == <<nRequests, nFaults>>
main    == <<m_hClose, mainPc>>
vars == <<slots, deleted, thread, outbox, main, world, bounds, shown, told>>

NoRequest == [to |-> -1, eType |-> "none", nChan |-> -1, what |-> NULL]

\* Run has initialised the comm.
Init ==
  /\ m_acManagers = << >> /\ m_asFTChanInfo = << >> /\ deleted = << >>
  /\ pc = "idle" /\ request = NoRequest /\ doomed = << >> /\ outbox = << >>
  /\ m_hClose = FALSE /\ mainPc = "waiting"
  /\ attached = Devices
  /\ nRequests = 0 /\ nFaults = 0 /\ nChanges = 0
  /\ shown = << >> /\ told = {}

-----------------------------------------------------------------------------
(* Helpers *)

IsOpen(s, n) == n + 1 \in DOMAIN s /\ s[n + 1] # NULL

\* The slot for what is added: the first that is free, or a new one.
AfterOpen(s) == Cardinality({n \in DOMAIN s : s[n] # NULL})  \* mutant: behind those open
FirstFree(s) ==
  CHOOSE n \in 0 .. Len(s) :
    /\ ~IsOpen(s, n)
    /\ \A k \in 0 .. n - 1 : IsOpen(s, k)

\* push_back(NULL) when no slot is free.
WithRoom(s) == IF \E n \in DOMAIN s : s[n] = NULL THEN s ELSE Append(s, NULL)

\* What the manager man has open.
Opened(man) == {man.chans[n].what : n \in {k \in DOMAIN man.chans : man.chans[k] # NULL}}

\* The number of the next object to be created.
NextObject == Len(deleted) + 1

\* The manager an ePassOn is for, and whether the request got that far.
Manager == m_acManagers[request.to + 1]
ToManager(kinds, eType) ==
  /\ pc = "handling" /\ request.to >= 0
  /\ IsOpen(m_acManagers, request.to) /\ Manager.kind \in kinds
  /\ request.eType = eType
ToMain(eType) == pc = "handling" /\ request.to = -1 /\ request.eType = eType

\* One reply of pDevice, and the handler returns.
Reply(pDevice, nError, nChan) == [pDevice |-> pDevice, nError |-> nError, nChan |-> nChan]
Replied(replies) ==
  /\ outbox' = outbox \o replies
  /\ pc' = "idle" /\ request' = NoRequest
  /\ UNCHANGED <<doomed, main, world, nRequests>>
Answer(nError, nChan) ==
  Replied(<<Reply(IF request.to = -1 THEN 0 ELSE Manager.id, nError, nChan)>>)

\* A constructor or a call of a driver fails.
Fails == nFaults < MaxFaults /\ nFaults' = nFaults + 1
Unchanged == UNCHANGED <<slots, deleted, shown, told>>

-----------------------------------------------------------------------------
(* The main pipe *)

\* The pipe thread reads a request and calls ProcessData.
ReadRequest(r) ==
  /\ mainPc = "waiting" /\ pc = "idle"
  /\ nRequests < MaxRequests /\ Len(outbox) <= MaxPending
  /\ pc' = "handling" /\ request' = r
  /\ nRequests' = nRequests + 1
  /\ UNCHANGED <<slots, deleted, doomed, outbox, main, world, nFaults, shown, told>>

\* A reply is read: the pipe thread calls Result of its device.
Sent ==
  /\ mainPc = "waiting" /\ pc = "idle" /\ outbox # << >>
  /\ outbox' = Tail(outbox)
  /\ UNCHANGED <<slots, deleted, thread, main, world, bounds, shown, told>>

\* The user leaves, replies and all, and another one may connect.
SessionEnds ==
  /\ mainPc = "waiting" /\ pc = "idle" /\ <<outbox, shown>> # << << >>, << >> >>
  /\ outbox' = << >> /\ shown' = << >>
  /\ UNCHANGED <<slots, deleted, thread, main, world, bounds, told>>

\* A device is plugged in or out.
Change(d) ==
  /\ nChanges < MaxChanges /\ nChanges' = nChanges + 1
  /\ attached' = IF d \in attached THEN attached \ {d} ELSE attached \cup {d}
  /\ UNCHANGED <<slots, deleted, thread, outbox, main, bounds, shown, told>>

-----------------------------------------------------------------------------
(* CMainManager::ProcessData, of one request *)

\* A request that is refused, or answered with what the main manager or one
\* of the managers says of itself.
MainInforms ==
  /\ \/ ToMain("badSize") /\ Answer("SIZE_MISSMATCH", -1)
     \/ ToMain("eVersion") /\ request.nChan = -1 /\ Answer("ok", -1)
     \/ ToMain("eQuery") /\ IsOpen(m_acManagers, request.nChan) /\ Answer("ok", request.nChan)
     \/ /\ ToMain("eDelete") /\ request.nChan # -1 /\ ~IsOpen(m_acManagers, request.nChan)
        /\ Answer("INVALID_CHANN", request.nChan)
     \/ /\ ToMain("eNone") \/ (request.nChan # -1 /\ (ToMain("eVersion") \/ ToMain("eQuery")))
        /\ ~IsOpen(m_acManagers, request.nChan)
        /\ Answer("INVALID_CHANN", -1)
     \/ /\ ToMain("eNone") \/ ToMain("eVersion")
        /\ IsOpen(m_acManagers, request.nChan)
        /\ Answer("INVALID_COMMAND", -1)
     \/ /\ pc = "handling" /\ request.to # -1 /\ ~IsOpen(m_acManagers, request.to)
        /\ Replied(<<Reply(0, "INVALID_CHANN", -1)>>)
  /\ UNCHANGED nFaults /\ Unchanged

\* The time is sent, and since bRes is still set another reply behind it.
SendTime ==
  /\ ToMain("eQuery") /\ request.nChan = -1
  /\ Replied(<<Reply(0, "ok", -1), Reply(0, "ok", -1)>>)
  /\ UNCHANGED nFaults /\ Unchanged

\* m_hClose is set, and the request still answered.
CloseMain ==
  /\ ToMain("eDelete") /\ request.nChan = -1
  /\ outbox' = Append(outbox, Reply(0, "ok", -1))
  /\ pc' = "idle" /\ request' = NoRequest
  /\ m_hClose' = TRUE
  /\ UNCHANGED <<doomed, mainPc, world, bounds>> /\ Unchanged

\* An eSet takes a free slot first, and keeps it empty when it fails: the
\* manager is open already, is not known, or its constructor fails.
OpenManagers == {n \in DOMAIN m_acManagers :
                   m_acManagers[n] # NULL /\ m_acManagers[n].kind = request.what}
RefuseManager ==
  /\ ToMain("eSet")
  /\ m_acManagers' = WithRoom(m_acManagers)
  /\ \/ /\ UNCHANGED <<nFaults, told>>
        /\ request.what \notin Kinds /\ Answer("INVALID_MAN", -1)
     \/ /\ UNCHANGED nFaults
        /\ \E n \in OpenManagers :
             /\ Answer("ALREADY_OPEN", n - 1)
             /\ told' = told \cup {[man |-> n - 1, chan |-> -1, what |-> request.what]}
     \/ /\ request.what \in Kinds /\ OpenManagers = {}
        /\ Fails /\ Answer("DRIVER_ERROR", -1) /\ UNCHANGED told
  /\ UNCHANGED <<m_asFTChanInfo, deleted, shown>>

NewManager(kind) ==
  [id |-> NextObject, kind |-> kind,
   chans |-> IF kind \in {"eRTVMan", "eMCDAQMan"} THEN [n \in 1 .. m_usChans |-> NULL]
             ELSE << >>]

CreateManager ==
  LET t == FirstFree(m_acManagers)
  IN /\ ToMain("eSet") /\ request.what \in Kinds /\ OpenManagers = {}
     /\ m_acManagers' = [WithRoom(m_acManagers) EXCEPT ![t + 1] = NewManager(request.what)]
     /\ deleted' = Append(deleted, 0)
     /\ told' = told \cup {[man |-> t, chan |-> -1, what |-> request.what]}
     /\ Answer("ok", t)
     /\ UNCHANGED <<m_asFTChanInfo, nFaults, shown>>

-----------------------------------------------------------------------------
(* ProcessData of the managers *)

WithPorts == {"eRTVMan", "eMCDAQMan"}  \* their slots are the boards' ports
Growing   == {"eSerialMan", "eFTDIMan"}
Known     == request.nChan + 1 \in DOMAIN Manager.chans
HasChan   == IsOpen(Manager.chans, request.nChan)

\* What a manager has no branch for.
Other(kinds) ==
  ToManager(kinds, "eNone") \/ (ToManager(kinds, "eVersion") /\ request.nChan # -1)

\* A request that is refused, or answered with what the driver or one of the
\* channels says of itself.
ManagerInforms ==
  /\ \/ ToManager(Kinds, "badSize") /\ Answer("SIZE_MISSMATCH", -1)
     \/ ToManager(Kinds, "eQuery") /\ HasChan /\ Answer("ok", request.nChan)
     \/ /\ ToManager(Kinds, "eQuery") /\ ~HasChan
        /\ Manager.kind = "eFTDIMan" => request.nChan # -1
        /\ Answer("INVALID_CHANN", -1)
     \/ ToManager(Kinds, "eDelete") /\ ~HasChan /\ Answer("INVALID_CHANN", -1)
     \/ ToManager(Kinds, "eVersion") /\ request.nChan = -1 /\ Answer("ok", -1)
     \/ /\ Other(WithPorts) \/ ToManager(WithPorts, "eSet")
        /\ ~Known /\ Answer("INVALID_CHANN", -1)
     \/ ToManager(WithPorts, "eSet") /\ HasChan /\ Answer("ALREADY_OPEN", -1)
     \/ /\ ToManager({"eRTVMan"}, "eSet") /\ Known /\ ~HasChan
        /\ request.what = "badFormat" /\ Answer("BAD_INPUT_PARAMS", -1)
     \/ /\ \/ Other(WithPorts) /\ Known
           \/ ToManager({"eMCDAQMan"}, "eSet") /\ Known /\ ~HasChan /\ request.what = "badFormat"
           \/ Other(Growing)
           \/ ToManager({"eFTDIMan"}, "eSet") /\ request.nChan + 1 \notin DOMAIN m_asFTChanInfo
        /\ Answer("INVALID_COMMAND", -1)
  /\ UNCHANGED nFaults /\ Unchanged

\* FT_CreateDeviceInfoList and FT_GetDeviceInfoList give the devices in some
\* order; when only the second fails the list is left with as many blanks.
ListDevices ==
  /\ ToManager({"eFTDIMan"}, "eQuery") /\ request.nChan = -1
  /\ \/ /\ attached # {} /\ Answer("ok", -1) /\ UNCHANGED nFaults
        /\ \E list \in SetToSeqs(attached) : m_asFTChanInfo' = list /\ shown' = list
     \/ /\ attached = {} /\ Answer("NO_CHAN", -1) /\ UNCHANGED <<nFaults, shown>>
        /\ m_asFTChanInfo' = << >>
     \/ /\ Fails /\ Answer("FT_ERROR", -1) /\ UNCHANGED shown
        /\ m_asFTChanInfo' \in
             {m_asFTChanInfo, [n \in 1 .. Cardinality(attached) |-> NULL]}
  /\ UNCHANGED <<m_acManagers, deleted, told>>

\* What an eSet opens: the port of its slot, the port named, the device listed.
DeviceAtSlot(t) ==  \* mutant: indexed by the slot of the channel
  IF t + 1 \in DOMAIN m_asFTChanInfo THEN m_asFTChanInfo[t + 1] ELSE NULL
DeviceListed(t) == m_asFTChanInfo[request.nChan + 1]
Wanted(t) ==
  CASE Manager.kind \in WithPorts -> "port"
    [] Manager.kind = "eSerialMan" -> request.what
    [] Manager.kind = "eFTDIMan" -> DeviceListed(t)

\* A driver opens what is there, once.
CanOpen(what) ==
  Manager.kind = "eFTDIMan" =>
    /\ what \in attached
    /\ \A n \in DOMAIN m_acManagers :
         m_acManagers[n] # NULL => what \notin Opened(m_acManagers[n])

\* An eSet that is not refused outright, and the slot it is for.
Setting ==
  \/ ToManager(WithPorts, "eSet") /\ Known /\ ~HasChan /\ request.what # "badFormat"
  \/ ToManager({"eSerialMan"}, "eSet") /\ request.what \notin Opened(Manager)
  \/ ToManager({"eFTDIMan"}, "eSet") /\ request.nChan + 1 \in DOMAIN m_asFTChanInfo
SlotFor == IF Manager.kind \in WithPorts THEN request.nChan ELSE FirstFree(Manager.chans)
Chans == IF Manager.kind \in WithPorts THEN Manager.chans ELSE WithRoom(Manager.chans)

CreateChannel ==
  LET what == Wanted(SlotFor)
  IN /\ Setting /\ CanOpen(what)
     /\ m_acManagers' = [m_acManagers EXCEPT ![request.to + 1].chans =
          [Chans EXCEPT ![SlotFor + 1] = [id |-> NextObject, what |-> what]]]
     /\ deleted' = Append(deleted, 0)
     /\ told' = told \cup {[man |-> request.to, chan |-> SlotFor, what |-> what]}
     /\ Answer("ok", SlotFor)
     /\ UNCHANGED <<m_asFTChanInfo, nFaults, shown>>

\* The constructor fails, and the slot stays empty.
CreateFails ==
  /\ Setting
  /\ IF CanOpen(Wanted(SlotFor)) THEN Fails ELSE UNCHANGED nFaults
  /\ m_acManagers' = [m_acManagers EXCEPT ![request.to + 1].chans = Chans]
  /\ Answer("DRIVER_ERROR", -1)
  /\ UNCHANGED <<m_asFTChanInfo, deleted, shown, told>>

\* The port is open already, and the reply says where.
RefusePort ==
  /\ ToManager({"eSerialMan"}, "eSet")
  /\ \E n \in DOMAIN Manager.chans :
       /\ Manager.chans[n] # NULL /\ Manager.chans[n].what = request.what
       /\ Answer("ALREADY_OPEN", n - 1)
       /\ told' = told \cup {[man |-> request.to, chan |-> n - 1, what |-> request.what]}
  /\ UNCHANGED <<slots, deleted, nFaults, shown>>

-----------------------------------------------------------------------------
(* Deletion, one destructor after the other; each may take seconds *)

\* What the slots point at.
ChannelsOf(man) ==
  [n \in DOMAIN man.chans |-> IF man.chans[n] = NULL THEN NULL ELSE man.chans[n].id]

DeleteManager ==
  /\ ToMain("eDelete") /\ request.nChan # -1 /\ IsOpen(m_acManagers, request.nChan)
  /\ LET man == m_acManagers[request.nChan + 1]
     IN doomed' = <<man.id>> \o ChannelsOf(man)
  /\ told' = {h \in told : h.man # request.nChan}
  /\ pc' = "deleting"
  /\ UNCHANGED <<slots, deleted, request, outbox, main, world, bounds, shown>>

DeleteChannel ==
  /\ ToManager(Kinds, "eDelete") /\ HasChan
  /\ doomed' = <<Manager.chans[request.nChan + 1].id>>
  /\ told' = {h \in told : h.man # request.to \/ h.chan # request.nChan}
  /\ pc' = "deleting"
  /\ UNCHANGED <<slots, deleted, request, outbox, main, world, bounds, shown>>

\* delete, of objects and of NULL.
Delete(objects) ==
  deleted' = [o \in DOMAIN deleted |-> IF o \in objects THEN deleted[o] + 1 ELSE deleted[o]]

Destroy ==
  /\ pc = "deleting" /\ doomed # << >>
  /\ Delete({Head(doomed)})
  /\ doomed' = Tail(doomed)
  /\ UNCHANGED <<slots, pc, request, outbox, main, world, bounds, shown, told>>

\* Only when the destructors have returned is the slot cleared.
Kept(s, n) == s  \* mutant: not cleared
Cleared(s, n) == [s EXCEPT ![n + 1] = NULL]
DeleteReturns ==
  /\ pc = "deleting" /\ doomed = << >>
  /\ IF request.to = -1
     THEN /\ m_acManagers' = Cleared(m_acManagers, request.nChan)
          /\ m_asFTChanInfo' = IF m_acManagers[request.nChan + 1].kind = "eFTDIMan"
                               THEN << >> ELSE m_asFTChanInfo
     ELSE /\ m_acManagers' = [m_acManagers EXCEPT ![request.to + 1].chans =
                                Cleared(@, request.nChan)]
          /\ UNCHANGED m_asFTChanInfo
  /\ Answer("ok", request.nChan)
  /\ UNCHANGED <<deleted, nFaults, shown, told>>

-----------------------------------------------------------------------------
(* Run and ~CMainManager, on the main thread *)

\* m_hClose wakes the main thread, and it calls Close of the comm ..
CloseBegin ==
  /\ mainPc = "waiting" /\ m_hClose
  /\ mainPc' = "closing"
  /\ UNCHANGED <<slots, deleted, thread, outbox, m_hClose, world, bounds, shown, told>>

CloseEnd(to) ==
  /\ mainPc = "closing"
  /\ pc' = to /\ outbox' = << >>
  /\ mainPc' = "deleting"
  /\ UNCHANGED <<slots, deleted, request, doomed, m_hClose, world, bounds, shown, told>>

\* .. which waits 2000 ms for the pipe thread, and then terminates it.
CloseJoined  == pc = "idle" /\ CloseEnd("exited")
CloseTimeout == pc \in {"handling", "deleting"} /\ CloseEnd("killed")

\* All the managers are deleted, and with them their channels.
Objects ==
  UNION {{m_acManagers[n].id} \cup Range(ChannelsOf(m_acManagers[n])) :
           n \in {k \in DOMAIN m_acManagers : m_acManagers[k] # NULL}}
DeleteManagers ==
  /\ mainPc = "deleting"
  /\ Delete(Objects)
  /\ m_acManagers' = << >> /\ m_asFTChanInfo' = << >> /\ told' = {}
  /\ mainPc' = "done"
  /\ UNCHANGED <<thread, outbox, m_hClose, world, bounds, shown>>

-----------------------------------------------------------------------------
Comm == Sent \/ SessionEnds \/ \E r \in Requests : ReadRequest(r)
ProcessData ==
  \/ MainInforms \/ SendTime \/ CloseMain \/ RefuseManager \/ CreateManager
  \/ ManagerInforms \/ ListDevices \/ CreateChannel \/ CreateFails \/ RefusePort
  \/ DeleteManager \/ DeleteChannel \/ Destroy \/ DeleteReturns
MainThread == CloseBegin \/ CloseJoined \/ CloseTimeout \/ DeleteManagers

Next == Comm \/ ProcessData \/ MainThread \/ \E d \in Devices : Change(d)

Spec == Init /\ [][Next]_vars
=============================================================================
