----------------------------- MODULE FTDIProps -----------------------------
(* What CChannelFTDI and its devices promise. *)
EXTENDS FTDI

Open == {"waiting", "streaming"}
Created == pc # "none"

\* What a client must not ask of a device.
Valid(init) ==
  CASE init.kind \in {"MultiW", "MultiR"} -> init.dwBoards > 0 /\ init.dwClkPerData > 0
    [] init.kind \in {"PinW", "PinR"} -> init.usBytesUsed > 0 /\ init.ucActivePins > 0
    [] init.kind = "ADC" -> TRUE

Shifts(init) == init.kind \in {"MultiW", "MultiR"}

\* A channel is created unless it has no device, too many, an invalid one, one
\* that needs more than the port takes, or none that needs anything: the
\* buffer of all devices and the share of each, worked out one after the
\* other, agree.  What is written at once is that buffer, no larger than the
\* port takes; and what a register clocks out fits in it, unless its size is
\* too large for a DWORD, when it need not.
BuffersAgree ==
  /\ Created <=>
       /\ Len(inits) \in 1 .. MAXIMUM_WAIT_OBJECTS - 3
       /\ \A d \in Devices : Valid(inits[d]) /\ Need(inits[d]) <= dwMaxPacket
       /\ \E d \in Devices : Need(inits[d]) > 0
  /\ Created =>
       /\ dwMaxWrite(inits) = WriteSize(inits) /\ WriteSize(inits) <= dwMaxPacket
       /\ \A d \in Devices : Shifts(inits[d]) /\ Bytes(inits[d]) < dwSpan =>
            Bytes(inits[d]) <= WriteSize(inits)

\* A request that waits stands in its device's list exactly once, and only
\* those do, but while the answered ones are being taken out, or when the
\* thread was terminated before it did: nobody is forgotten and nobody is
\* served twice.
RequestsAccounted ==
  \A d \in Writers \cup Readers :
    /\ \A r \in DOMAIN requests : requests[r].nChan = d /\ status[r] \in Open =>
         Cardinality({k \in DOMAIN dev[d].m_allIds : dev[d].m_allIds[k] = r}) = 1
    /\ pc \notin {"erase", "terminated"} =>
         \A r \in First(dev[d], Everyone(dev[d])) : status[r] \in Open

\* Data answered with success is on the outputs it was for, or later data is;
\* and a pin device's whole sequence was, unless a call to the port failed:
\* the recovery writes its last value only.
WrittenWhenAnswered ==
  \A r \in DOMAIN requests : LET d == requests[r].nChan IN
    d \in Writers /\ status[r] = "ok" =>
      \A p \in requests[r].pins :
        wires[d][p] >= r /\ (played[d][p] >= r \/ nFaults > 0)

\* While the thread waits, a queued activation will wake it, but for one that
\* was pushed between the last look at the queue and the reset of the event:
\* that one, and all that come after it, stay until something else fails or
\* updates.
UpdatesNotForgotten ==
  pc = "wait" /\ m_asUpdates # <<>> => m_hUpdate \/ late

\* A block is claimed as often as it waits to be extracted or is being
\* extracted, and by each ADC at most once: no block is read into while its
\* data is still wanted.  In the end only blocks are claimed that a terminated
\* thread was extracting.
BlocksKept ==
  \A i \in DOMAIN nCount :
    /\ nCount[i] = TimesQueued(i) + Cardinality({d \in ADCs : dev[d].psRead = i})
    /\ nCount[i] <= Cardinality(ADCs)

\* An answer is the last one a request gets.  Two exceptions: a trigger that
\* was answered, and not yet taken out, may be what a cancelling finds; and the
\* readings of the block that an ADC's thread is extracting when the device is
\* inactivated follow DEVICE_CLOSING (NoDataAfterClosing), but never those of
\* a later block.
AnswersFinal ==
  [][\A r \in DOMAIN status : LET d == requests[r].nChan IN
       status[r] \notin Open =>
         \/ /\ status'[r] = status[r]
            /\ d \in ADCs /\ dev[d].llId # r => dev'[d].llId # r
         \/ pc = "erase" /\ status[r] \in {"ok", "error"} /\ status'[r] = "cancelled"
         \/ d \in ADCs /\ dev[d].llId = r /\ status'[r] = "late"]_vars

\* "After a inactivate request when in continously reading, mode, only a
\* inactive device response will be sent.  No data is sent after that."
\* ("ftdi device.cpp")
NoDataAfterClosing ==
  [][\A r \in DOMAIN status :
       status[r] = "DEVICE_CLOSING" => status'[r] = status[r]]_vars

Waits(r) == status[r] = "waiting" /\ requests[r].nChan \notin ADCs

\* As long as the channel is not deleted, every request to a digital device is
\* answered, as far as SendData takes the answer.
RequestsAnswered ==
  (\E r \in DOMAIN status : Waits(r)) ~> (m_hStop \/ \A r \in DOMAIN status : ~Waits(r))

Configuring(d) == dev[d].m_eState = "eActivateState"

\* The pin that configures the ADC is not an output any more.
CutOff(d) == Configuring(d) /\ inits[d].bConfigureADC /\ ~dev[d].m_ucBitOutput

\* An ADC that is activated is reset, configured and read back, again if the
\* settings read are wrong, until it gives data; unless a recovery took away
\* the pin that configures it.
AdcGetsActive ==
  (\E d \in ADCs : Configuring(d)) ~>
  (m_hStop \/ (\A d \in ADCs : ~Configuring(d)) \/ \E d \in ADCs : CutOff(d))
=============================================================================
