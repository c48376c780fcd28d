-------------------------------- MODULE ADC --------------------------------
(***************************************************************************)
(* The ADC of an FTDI channel ("cpl ft adc.cpp"), CADCPeriph.  DoWork is   *)
(* called by the channel's thread and puts each block read on a queue, the *)
(* device's own thread takes the blocks off, extracts the readings and     *)
(* sends them to whoever triggered.  The device is the record of its       *)
(* members; a function gives the device after a call, as in FTPeriph.      *)
(*                                                                         *)
(* An id is the number of the request that triggered, 0 stands for -1.     *)
(* What is in a block is left out: extracting one may or may not fill      *)
(* packets; so is m_hReset, whose handling drops one that is not full.     *)
(* m_ucBitOutput matters for the bit that configures the ADC: it is TRUE   *)
(* while the device asks for that pin to be an output.                     *)
(***************************************************************************)
EXTENDS MemRing

\* due: ADC_RESET_DELAY is over.  pc, psRead and llId are those of ThreadProc.
NewADC ==
  [m_eState |-> "eInactivateState", m_hNext |-> FALSE, m_llId |-> 0,
   m_eConfigState |-> "eConfigDone", m_ucBitOutput |-> FALSE,
   due |-> FALSE, m_apsReadIdx |-> <<>>,
   m_hProcessData |-> FALSE, m_hThreadClose |-> FALSE,
   pc |-> "wait", psRead |-> 0, llId |-> 0]

-----------------------------------------------------------------------------
(* Called by the channel's thread *)

\* Mutant: the id outlives the inactivation.
KeepsId(adc) == [adc EXCEPT !.m_eState = "eInactivateState"]
Inactivated(adc) == [adc EXCEPT !.m_eState = "eInactivateState", !.m_llId = 0]

\* The pin is not an output again after a recovery.
Recovered(adc) ==
  IF adc.m_eState \in {"eActive", "eActivateState"}
  THEN [adc EXCEPT !.m_eState = "eActivateState", !.m_eConfigState = "eConfigStart",
                   !.m_ucBitOutput = FALSE]
  ELSE adc

ADCPreWrite(adc) ==
  CASE adc.m_eState = "eActivateState" /\ adc.m_eConfigState = "eConfigStart" ->
         [adc EXCEPT !.due = FALSE]
    [] adc.m_eState = "eInactivateState" ->
         [adc EXCEPT !.m_ucBitOutput = FALSE, !.m_eConfigState = "eConfigDone",
                     !.m_eState = "eInactive", !.m_hNext = FALSE]
    [] OTHER -> adc

ADCPostWrite(adc) ==
  IF adc.m_eState = "eActivateState" /\ adc.m_eConfigState = "eConfigStart"
  THEN [adc EXCEPT !.m_eConfigState = "eConfigTO"] ELSE adc

\* configured: the settings read back are those written.
NextConfig(adc, bConfigureADC, configured) ==
  CASE adc.m_eConfigState = "eConfigTO" /\ adc.due ->
         IF bConfigureADC THEN "eConfigWrite" ELSE "eConfigDone"
    [] adc.m_eConfigState = "eConfigWrite" ->
         IF configured THEN "eConfigDone" ELSE "eConfigStart"
    [] OTHER -> adc.m_eConfigState

\* block was read while the device was active: Push sets the event of an
\* empty queue.
Queued(adc, block) ==
  [adc EXCEPT !.m_apsReadIdx = Append(@, block),
              !.m_hProcessData = @ \/ adc.m_apsReadIdx = <<>>]

ADCPostRead(adc, bConfigureADC, configured, block) ==
  CASE adc.m_eState = "eActivateState" /\ adc.m_eConfigState = "eConfigDone" ->
         [adc EXCEPT !.m_ucBitOutput = FALSE, !.m_eState = "eActive"]
    [] adc.m_eState = "eActivateState" /\ adc.m_eConfigState # "eConfigDone" ->
         [adc EXCEPT !.m_eConfigState = NextConfig(adc, bConfigureADC, configured)]
    [] adc.m_eState = "eActive" -> Queued(adc, block)
    [] OTHER -> adc

\* An active device claims the block it queues.
ClaimsBlock(adc) == adc.m_eState = "eActive"

ADCDoWork(adc, eReason, bConfigureADC, configured, block) ==
  CASE eReason = "eActivateState" ->
         [adc EXCEPT !.m_eState = "eActivateState", !.m_hNext = TRUE,
                     !.m_ucBitOutput = @ \/ bConfigureADC,
                     !.m_eConfigState = "eConfigStart"]
    [] eReason = "eInactivateState" -> Inactivated(adc)
    [] eReason = "eRecover" -> Recovered(adc)
    [] eReason = "ePreWrite" -> ADCPreWrite(adc)
    [] eReason = "ePostWrite" -> ADCPostWrite(adc)
    [] eReason = "ePostRead" -> ADCPostRead(adc, bConfigureADC, configured, block)

\* Who is sent DEVICE_CLOSING by an inactivation.
ADCTold(adc, eReason) ==
  IF eReason = "eInactivateState" THEN {adc.m_llId} \ {0} ELSE {}

-----------------------------------------------------------------------------
(* Called by the comm's thread *)

\* The answer to the trigger r, "none" when it is accepted.
TriggerError(adc) ==
  CASE adc.m_eState \notin {"eActive", "eActivateState"} -> "INACTIVE_DEVICE"
    [] adc.m_eState \in {"eActive", "eActivateState"} /\ adc.m_llId # 0 ->
         "ALREADY_OPEN"
    [] OTHER -> "none"

ADCProcessData(adc, r) ==
  IF TriggerError(adc) = "none" THEN [adc EXCEPT !.m_llId = r] ELSE adc

-----------------------------------------------------------------------------
(* ThreadProc, with the first event that is set *)

\* A block, if there is one, and the id at that time.
ADCTakesBlock(adc) ==
  /\ adc.pc = "wait" /\ ~adc.m_hThreadClose /\ adc.m_hProcessData
ADCWithBlock(adc) ==
  IF adc.m_apsReadIdx = <<>> THEN [adc EXCEPT !.m_hProcessData = FALSE]
  ELSE [adc EXCEPT !.psRead = Head(adc.m_apsReadIdx), !.m_apsReadIdx = Tail(@),
                   !.llId = adc.m_llId, !.pc = "extract"]

\* ExtractData is over: the block goes back and ResetIfEmpty looks again.
ADCWithoutBlock(adc) ==
  [adc EXCEPT !.psRead = 0, !.llId = 0, !.pc = "wait",
              !.m_hProcessData = @ /\ adc.m_apsReadIdx # <<>>]

ADCStops(adc) == adc.pc = "wait" /\ adc.m_hThreadClose

-----------------------------------------------------------------------------
(* The destructor: the thread has ended or is terminated, the queue's blocks *)
(* go back.                                                                  *)

Emptied(adc) == [adc EXCEPT !.m_apsReadIdx = <<>>, !.pc = "deleted"]
=============================================================================
