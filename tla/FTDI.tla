-------------------------------- MODULE FTDI --------------------------------
(***************************************************************************)
(* CChannelFTDI ("ftdi device.cpp") with the devices on it: the comm's     *)
(* thread calls ProcessData, ThreadProc writes and reads the port for all  *)
(* devices at once, an ADC has a thread of its own, and the manager's      *)
(* thread deletes the channel.                                             *)
(*                                                                         *)
(* A request is what a client sends to one device, numbered in the order   *)
(* of arrival; status is the last answer it got.  Requests that are        *)
(* refused before they reach a device, and queries, change nothing and are *)
(* left out.  Every device is used in synchronous bit bang mode, so what   *)
(* is written is read back, and dwWrite and dwRead, equal, are 0 or not.   *)
(* Calls to the port, external, may fail.  Memory is never short, the comm *)
(* takes every answer for a client that is there.                          *)
(***************************************************************************)
EXTENDS FTPeriph, FTDISetup, ADC

CONSTANTS
  Configs,      \* the channels a client may ask for, sequences of Inits
  MaxClients,   \* bound: clients, numbered in the order they come
  Writes,       \* what may be written, [pins : SUBSET Pins, outOfRange : BOOLEAN]
  MaxRequests,  \* bound: requests to devices
  MaxUpdates,   \* bound: requests to activate or inactivate one
  MaxFaults     \* bound for each channel: calls to the port that fail

ASSUME FTDIAssumption ==
  /\ \A config \in Configs : config \in Seq(Inits)
  /\ Writes \subseteq [pins : SUBSET Pins, outOfRange : BOOLEAN]
  /\ MaxClients \in Nat
  /\ MaxRequests \in Nat /\ MaxUpdates \in Nat /\ MaxFaults \in [Configs -> Nat]

VARIABLES
  inits,        \* what the channel was created with
  dev,          \* m_aDevices
  requests, status,
  m_asUpdates, m_hUpdate, m_hNext, m_hStop,
  pc,           \* where ThreadProc is
  nError, bUpdating,
  dwWrite,      \* is not 0
  ucOutput,     \* the ADCs whose configuration bit the port drives
  nCount,       \* the ring
  deletePc,     \* where the destructor is
  gone,         \* clients that left
  wires,        \* the request whose value each output holds
  played,       \* the last request whose values were all written to the output
  late,         \* an update came after the queue was found empty and before
                \* m_hUpdate was reset
  nUpdates, nFaults

queueVars == <<m_asUpdates, nUpdates, late>>
eventVars == <<m_hUpdate, m_hNext>>
threadVars == <<pc, nError, bUpdating, dwWrite, ucOutput>>
clientVars == <<inits, requests, gone>>
outputVars == <<wires, played>>
stopVars == <<m_hStop, deletePc>>
vars == <<clientVars, dev, status, queueVars, eventVars, threadVars, nCount,
          outputVars, stopVars, nFaults>>

Devices == DOMAIN inits
Kind(kinds) == {d \in Devices : inits[d].kind \in kinds}
Writers == Kind({"MultiW", "PinW"})
Readers == Kind({"MultiR", "PinR"})
ADCs == Kind({"ADC"})

\* The constructor.  A channel that is refused is deleted at once; in one that
\* is not, every device is about to go inactive and ThreadProc, which set
\* m_hUpdate, waits.
Init ==
  /\ inits \in Configs
  /\ pc = (IF Setup(inits) = "none" THEN "wait" ELSE "none")
  /\ dev = [d \in Devices |-> IF inits[d].kind = "ADC" THEN NewADC ELSE NewPeriph]
  /\ requests = <<>> /\ status = <<>>
  /\ m_asUpdates = <<>> /\ m_hUpdate = TRUE /\ m_hNext = FALSE /\ m_hStop = FALSE
  /\ nError = FALSE /\ bUpdating = FALSE /\ dwWrite = FALSE /\ ucOutput = {}
  /\ nCount = NewRing
  /\ deletePc = "no" /\ gone = {}
  /\ wires = [d \in Devices |-> [p \in Pins |-> 0]] /\ played = wires
  /\ late = FALSE /\ nUpdates = 0 /\ nFaults = 0

-----------------------------------------------------------------------------
(* The comm's thread *)

\* Close ends it.
CommOpen == pc # "none" /\ deletePc \in {"no", "stopping"}

Clients == 1 .. MaxClients
HasAsked(c) == \E r \in DOMAIN requests : requests[r].llId = c
MayAsk(c) == CommOpen /\ c \notin gone /\ \A b \in 1 .. c - 1 : HasAsked(b)

\* The request r is made of device d; answer has what is sent at once.
Asked(r, c, d, pins, answer) ==
  /\ requests' = Append(requests, [llId |-> c, nChan |-> d, pins |-> pins])
  /\ status' = Append(status, IF r \in DOMAIN answer THEN answer[r] ELSE "waiting")
  /\ UNCHANGED <<inits, gone, queueVars, eventVars, threadVars, nCount,
                 outputVars, stopVars, nFaults>>

WriteData(c, d, request) ==
  LET r == Len(requests) + 1
      done == IF inits[d].kind = "MultiW" THEN MultiWProcessData(dev[d], r, request)
              ELSE PinWProcessData(dev[d], r, request)
  IN  /\ MayAsk(c) /\ d \in Writers /\ r <= MaxRequests
      /\ dev' = [dev EXCEPT ![d] = done.dev]
      /\ Asked(r, c, d, request.pins, done.sent)

\* Where in m_allIds a client's requests are.
Mine(c, d) ==
  {k \in DOMAIN dev[d].m_allIds :
     dev[d].m_allIds[k] # 0 /\ requests[dev[d].m_allIds[k]].llId = c}

ReaderProcessData(d, r, eType, mine) ==
  IF inits[d].kind = "MultiR"
  THEN MultiRProcessData(inits[d].bContinuous, dev[d], r, eType, mine)
  ELSE PinRProcessData(inits[d].bContinuous, dev[d], r, eType, mine)

Trigger(c, d) ==
  LET r == Len(requests) + 1
      done == ReaderProcessData(d, r, "eTrigger", Mine(c, d))
  IN  /\ MayAsk(c) /\ d \in Readers /\ r <= MaxRequests
      /\ dev' = [dev EXCEPT ![d] = done.dev]
      /\ Asked(r, c, d, {}, done.sent)

TriggerADC(c, d) ==
  LET r == Len(requests) + 1
      error == TriggerError(dev[d])
  IN  /\ MayAsk(c) /\ d \in ADCs /\ r <= MaxRequests
      /\ dev' = [dev EXCEPT ![d] = ADCProcessData(@, r)]
      /\ Asked(r, c, d, {}, IF error = "none" THEN <<>> ELSE [q \in {r} |-> error])

\* The cancelling is answered too, whether it found a request or not.
CancelRead(c, d) ==
  LET done == ReaderProcessData(d, 0, "eCancelReadRequest", Mine(c, d)) IN
  /\ MayAsk(c) /\ d \in Readers /\ Mine(c, d) # {}
  /\ dev' = [dev EXCEPT ![d] = done.dev]
  /\ status' = [r \in DOMAIN status |->
                  IF r \in DOMAIN done.sent THEN done.sent[r] ELSE status[r]]
  /\ UNCHANGED <<clientVars, queueVars, eventVars, threadVars, nCount,
                 outputVars, stopVars, nFaults>>

\* eActivate or eInactivate; Push sets the event of an empty queue.
ActivateOrInactivate(d, on) ==
  /\ CommOpen /\ d \in Devices /\ nUpdates < MaxUpdates
  /\ nUpdates' = nUpdates + 1
  /\ m_asUpdates' = Append(m_asUpdates, [nChan |-> d, on |-> on])
  /\ m_hUpdate' = (m_hUpdate \/ m_asUpdates = <<>>)
  /\ late' = (late \/ (pc = "reset" /\ m_asUpdates = <<>>))
  /\ UNCHANGED <<clientVars, dev, status, m_hNext, threadVars, nCount,
                 outputVars, stopVars, nFaults>>

\* A client that is owed readings leaves; one does.
Leave(c) ==
  /\ CommOpen /\ gone = {} /\ gone' = {c}
  /\ \E r \in DOMAIN requests : /\ requests[r].llId = c /\ requests[r].nChan \notin Writers
                               /\ status[r] \in {"waiting", "streaming"}
  /\ UNCHANGED <<inits, requests, dev, status, queueVars, eventVars, threadVars,
                 nCount, outputVars, stopVars, nFaults>>

-----------------------------------------------------------------------------
(* ThreadProc *)

\* outcome: the ADCs whose settings are read back as they were written, and the
\* requests whose answer a full queue refuses.
Nothing == [shown |-> {}, refused |-> {}]

DoWork(d, eReason, failed, outcome) ==
  LET lost == {r \in DOMAIN requests : requests[r].llId \in gone} \cup outcome.refused IN
  CASE inits[d].kind = "MultiW" -> MultiWDoWork(dev[d], eReason, failed)
    [] inits[d].kind = "PinW" -> PinWDoWork(dev[d], eReason, failed)
    [] inits[d].kind = "MultiR" ->
         MultiRDoWork(inits[d].bContinuous, dev[d], eReason, failed, lost)
    [] inits[d].kind = "PinR" ->
         PinRDoWork(inits[d].bContinuous, dev[d], eReason, failed, lost)
    [] inits[d].kind = "ADC" ->
         Does(ADCDoWork(dev[d], eReason, inits[d].bConfigureADC, d \in outcome.shown,
                        GetFree(nCount)),
              [r \in ADCTold(dev[d], eReason) |-> "DEVICE_CLOSING"])

\* The call is made to the devices ds, one after the other; they share nothing
\* but the ring.
Work(ds, eReason, failed, outcome) ==
  LET done == [d \in ds |-> DoWork(d, eReason, failed, outcome)]
      Told(r) == LET d == requests[r].nChan IN d \in ds /\ r \in DOMAIN done[d].sent
  IN  /\ dev' = [d \in Devices |-> IF d \in ds THEN done[d].dev ELSE dev[d]]
      /\ status' = [r \in DOMAIN status |->
                      IF Told(r) THEN done[requests[r].nChan].sent[r]
                      ELSE status[r]]

Updating == \E d \in Devices : dev[d].m_eState \in {"eActivateState", "eInactivateState"}

\* WaitForMultipleObjects returns the first event that is set.
Wake(stop, update) == pc = "wait" /\ m_hStop = stop /\ (stop \/ m_hUpdate = update)

WakeStop ==
  /\ Wake(TRUE, FALSE) /\ pc' = "exited"
  /\ UNCHANGED <<clientVars, dev, status, queueVars, eventVars, nError, bUpdating,
                 dwWrite, ucOutput, nCount, outputVars, stopVars, nFaults>>

\* After an error the port is opened again and the devices start over.
Recover ==
  /\ Wake(FALSE, TRUE) /\ nError /\ pc' = "updates" /\ nError' = FALSE
  /\ Work(Devices, "eRecover", FALSE, Nothing)
  /\ UNCHANGED <<clientVars, queueVars, eventVars, bUpdating, dwWrite, ucOutput,
                 nCount, outputVars, stopVars, nFaults>>

\* It cannot be opened: m_hUpdate is left set, for another try.
RecoverFails ==
  /\ Wake(FALSE, TRUE) /\ nError /\ nFaults < MaxFaults[inits] /\ nFaults' = nFaults + 1
  /\ UNCHANGED <<clientVars, dev, status, queueVars, eventVars, threadVars, nCount,
                 outputVars, stopVars>>

\* m_hUpdate without an error, or the loop over the updates goes on.
InUpdates == pc = "updates" \/ (Wake(FALSE, TRUE) /\ ~nError)

PopUpdate ==
  LET update == Head(m_asUpdates) IN
  /\ InUpdates /\ m_asUpdates # <<>> /\ pc' = "updates"
  /\ m_asUpdates' = Tail(m_asUpdates) /\ late' = (late /\ m_asUpdates' # <<>>)
  /\ Work({update.nChan}, IF update.on THEN "eActivateState" ELSE "eInactivateState",
          FALSE, Nothing)
  /\ UNCHANGED <<clientVars, nUpdates, eventVars, nError, bUpdating, dwWrite, ucOutput,
                 nCount, outputVars, stopVars, nFaults>>

\* Mutant: one update for each time the event is found set.
OneUpdate ==
  /\ InUpdates /\ (m_asUpdates = <<>> \/ pc = "updates") /\ pc' = "reset"
  /\ UNCHANGED <<clientVars, dev, status, queueVars, eventVars, nError, bUpdating,
                 dwWrite, ucOutput, nCount, outputVars, stopVars, nFaults>>
NoMoreUpdates ==
  /\ InUpdates /\ m_asUpdates = <<>> /\ pc' = "reset"
  /\ UNCHANGED <<clientVars, dev, status, queueVars, eventVars, nError, bUpdating,
                 dwWrite, ucOutput, nCount, outputVars, stopVars, nFaults>>

\* The pins the devices want as outputs.
\* Mutant: only those of a device that is active.
OutputsOfActive ==
  {d \in ADCs : dev[d].m_ucBitOutput /\ dev[d].m_eState = "eActive"}
Outputs == {d \in ADCs : dev[d].m_ucBitOutput}

\* The events are reset and the port set up for the devices in use.
Reset ==
  /\ pc = "reset"
  /\ m_hUpdate' = FALSE /\ m_hNext' = Updating
  /\ dwWrite' = (\E d \in Devices : dev[d].m_eState # "eInactive")
  /\ ucOutput' = Outputs /\ bUpdating' = Updating
  /\ pc' = IF Updating THEN "prewrite" ELSE "wait"
  /\ UNCHANGED <<clientVars, dev, status, queueVars, nError, nCount, outputVars,
                 stopVars, nFaults>>

\* Woken by m_hNext or a device, or updating.
PreWrite ==
  /\ pc = "prewrite" \/ (Wake(FALSE, FALSE) /\ (m_hNext \/ \E d \in Devices : dev[d].m_hNext))
  /\ dwWrite /\ pc' = "write"
  /\ Work(Devices, "ePreWrite", FALSE, Nothing)
  /\ UNCHANGED <<clientVars, queueVars, eventVars, nError, bUpdating, dwWrite, ucOutput,
                 nCount, outputVars, stopVars, nFaults>>

\* What a writing device clocks out: a register only when it was told to.
Clocked(d) == inits[d].kind = "PinW" \/ dev[d].m_bChanged

Write ==
  /\ pc = "write" /\ pc' = "read"
  /\ wires' = [d \in Devices |->
                 IF d \in Writers /\ Clocked(d) THEN dev[d].buff.data ELSE wires[d]]
  /\ played' = [d \in Devices |-> [p \in Pins |->
                  IF d \in Writers /\ Clocked(d) /\ p \in dev[d].buff.seq
                  THEN dev[d].buff.data[p] ELSE played[d][p]]]
  /\ Work(Devices, "ePostWrite", FALSE, Nothing)
  /\ UNCHANGED <<clientVars, queueVars, eventVars, nError, bUpdating, dwWrite, ucOutput,
                 nCount, stopVars, nFaults>>

WriteFails ==
  /\ pc = "write" /\ nFaults < MaxFaults[inits] /\ nFaults' = nFaults + 1
  /\ pc' = "erase" /\ nError' = TRUE
  /\ Work(Devices, "ePostWrite", TRUE, Nothing)
  /\ UNCHANGED <<clientVars, queueVars, eventVars, bUpdating, dwWrite, ucOutput,
                 nCount, outputVars, stopVars>>

\* GetFree is tried until it gives a block; nobody else may get it before the
\* read is over, when the active ADCs claim it.
ReadPort(outcome) ==
  LET block == GetFree(nCount) IN
  /\ pc = "read" /\ block # 0 /\ pc' = "erase"
  /\ Work(Devices, "ePostRead", FALSE, outcome)
  /\ nCount' = Claimed(Grown(nCount, block), block,
                       Cardinality({d \in ADCs : ClaimsBlock(dev[d])}))
  /\ UNCHANGED <<clientVars, queueVars, eventVars, nError, bUpdating, dwWrite, ucOutput,
                 outputVars, stopVars>>

\* The settings of an ADC can be read back only if its pin is an output; they
\* are right unless the bus garbled them.
Read ==
  /\ \E refused \in SUBSET DOMAIN requests :
       ReadPort([shown |-> ucOutput, refused |-> refused])
  /\ UNCHANGED nFaults

ReadGarbled(shown) ==
  /\ \E d \in ucOutput \ shown : dev[d].m_eConfigState = "eConfigWrite"
  /\ nFaults < MaxFaults[inits] /\ nFaults' = nFaults + 1
  /\ ReadPort([shown |-> shown, refused |-> {}])

\* The devices are not told.
ReadFails ==
  /\ pc = "read" /\ nFaults < MaxFaults[inits] /\ nFaults' = nFaults + 1
  /\ GetFree(nCount) # 0 /\ nCount' = Grown(nCount, GetFree(nCount))
  /\ pc' = "wait" /\ nError' = TRUE /\ m_hUpdate' = TRUE
  /\ UNCHANGED <<clientVars, dev, status, queueVars, m_hNext, bUpdating, dwWrite,
                 ucOutput, outputVars, stopVars>>

\* The reading devices' answers are over; with an error, or with all devices
\* where they were asked to be, the port is set up again.
Erase ==
  /\ pc = "erase" /\ pc' = "wait"
  /\ dev' = [d \in Devices |->
       CASE inits[d].kind = "MultiR" -> MultiRErase(inits[d].bContinuous, dev[d], nError)
         [] inits[d].kind = "PinR" -> PinRErase(inits[d].bContinuous, dev[d], nError)
         [] OTHER -> dev[d]]
  /\ bUpdating' = (bUpdating /\ (nError \/ Updating))
  /\ m_hUpdate' = (m_hUpdate \/ nError \/ (bUpdating /\ ~Updating))
  /\ UNCHANGED <<clientVars, status, queueVars, m_hNext, nError, dwWrite, ucOutput,
                 nCount, outputVars, stopVars, nFaults>>

-----------------------------------------------------------------------------
(* The thread of an ADC, and the time its reset takes *)

ADCUnchanged ==
  UNCHANGED <<clientVars, queueVars, eventVars, threadVars, outputVars, stopVars,
              nFaults>>

ADCTake(d) ==
  /\ d \in ADCs /\ ADCTakesBlock(dev[d])
  /\ dev' = [dev EXCEPT ![d] = ADCWithBlock(@)]
  /\ UNCHANGED <<status, nCount>> /\ ADCUnchanged

\* ExtractData sends a packet whenever one is full, which may be several times
\* for a block, to whom the device was triggered by when it began; after
\* DEVICE_CLOSING it is late.
DataSent(answer) == IF answer \in {"waiting", "streaming"} THEN "streaming" ELSE "late"

ADCSend(d) ==
  LET r == dev[d].llId IN
  /\ d \in ADCs /\ dev[d].pc = "extract"
  /\ r # 0 /\ CommOpen /\ requests[r].llId \notin gone
  /\ status' = [status EXCEPT ![r] = DataSent(@)]
  /\ UNCHANGED <<dev, nCount>> /\ ADCUnchanged

ADCExtracted(d) ==
  /\ d \in ADCs /\ dev[d].pc = "extract"
  /\ dev' = [dev EXCEPT ![d] = ADCWithoutBlock(@)]
  /\ nCount' = ReleaseIndex(nCount, dev[d].psRead)
  /\ UNCHANGED status /\ ADCUnchanged

ADCStop(d) ==
  /\ d \in ADCs /\ ADCStops(dev[d])
  /\ dev' = [dev EXCEPT ![d].pc = "exited"]
  /\ UNCHANGED <<status, nCount>> /\ ADCUnchanged

ADCDue(d) ==
  /\ d \in ADCs /\ dev[d].m_eConfigState = "eConfigTO" /\ ~dev[d].due
  /\ dev' = [dev EXCEPT ![d].due = TRUE]
  /\ UNCHANGED <<status, nCount>> /\ ADCUnchanged

-----------------------------------------------------------------------------
(* The destructor, on the manager's thread *)

DeleteUnchanged ==
  UNCHANGED <<clientVars, status, queueVars, eventVars, nError, bUpdating, dwWrite,
              ucOutput, outputVars, nFaults>>

Delete ==
  /\ deletePc = "no" /\ pc # "none" /\ deletePc' = "stopping" /\ m_hStop' = TRUE
  /\ UNCHANGED <<dev, pc, nCount>> /\ DeleteUnchanged

\* After two seconds the thread is terminated where it is, in the port, in a
\* full ring or between two calls of its devices: what a call leaves half done
\* goes with the devices.  The comm is closed before they go; an ADC tells its
\* thread to, and waits for it.
StopThread ==
  /\ deletePc = "stopping"
  /\ deletePc' = (IF ADCs = {} THEN "deleted" ELSE "closed")
  /\ pc' = IF pc = "exited" THEN pc ELSE "terminated"
  /\ dev' = [d \in Devices |-> IF d \in ADCs THEN [dev[d] EXCEPT !.m_hThreadClose = TRUE]
                               ELSE dev[d]]
  /\ UNCHANGED <<nCount, m_hStop>> /\ DeleteUnchanged

\* How often the block i is queued.
TimesQueued(i) ==
  Cardinality(UNION {{<<d, k>> : k \in {j \in DOMAIN dev[d].m_apsReadIdx :
                                         dev[d].m_apsReadIdx[j] = i}} : d \in ADCs})

\* It waits two seconds: a thread terminated while it extracts a block never
\* gives that back.
DeleteDevices ==
  /\ deletePc = "closed" /\ deletePc' = "deleted"
  /\ dev' = [d \in Devices |-> IF d \in ADCs THEN Emptied(dev[d]) ELSE dev[d]]
  /\ nCount' = [i \in DOMAIN nCount |-> nCount[i] - TimesQueued(i)]
  /\ UNCHANGED <<pc, m_hStop>> /\ DeleteUnchanged
-----------------------------------------------------------------------------

Deletion == Delete \/ StopThread \/ DeleteDevices

ProcessData ==
  \/ \E c \in Clients, d \in Devices :
       \/ \E request \in Writes : WriteData(c, d, request)
       \/ Trigger(c, d) \/ TriggerADC(c, d) \/ CancelRead(c, d)
  \/ \E d \in Devices, on \in BOOLEAN : ActivateOrInactivate(d, on)

ThreadProc ==
  \/ WakeStop \/ Recover \/ PopUpdate \/ NoMoreUpdates \/ Reset
  \/ PreWrite \/ Write \/ Read \/ Erase

Faults ==
  RecoverFails \/ WriteFails \/ ReadFails \/ \E shown \in SUBSET ucOutput : ReadGarbled(shown)

ADCThread(d) ==
  ADCTake(d) \/ ADCSend(d) \/ ADCExtracted(d) \/ ADCStop(d)

Next ==
  \/ ProcessData \/ ThreadProc \/ Faults \/ Deletion
  \/ \E c \in Clients : Leave(c)
  \/ \E d \in Devices : ADCThread(d) \/ ADCDue(d)

Spec == Init /\ [][Next]_vars

\* The threads run, the port ends what it was given, time passes.
FairSpec ==
  /\ Spec /\ WF_vars(ThreadProc)
  /\ \A d \in UNION {DOMAIN i : i \in Configs} :
       WF_vars(ADCThread(d)) /\ WF_vars(ADCDue(d))
=============================================================================
