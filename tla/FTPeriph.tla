------------------------------ MODULE FTPeriph ------------------------------
(***************************************************************************)
(* The digital devices of an FTDI channel ("cpl ft io.cpp"): CMultiWPeriph *)
(* and CMultiRPeriph (shift registers), CPinWPeriph and CPinRPeriph (bare  *)
(* pins).  A device is the record of its members, its DoWork and           *)
(* ProcessData are functions of that record.                               *)
(*                                                                         *)
(* A request is a number; 0 in m_allIds is the -1 that stands for nobody.  *)
(* What an output is set to is named by the request that set it.  A pin    *)
(* device writes a sequence of values and then holds the last: seq holds   *)
(* the pins that still have a sequence to write, the others only hold.  A  *)
(* register holds one value for each output, and seq is always all.  buff  *)
(* is what the device put in m_aucTx.                                      *)
(*                                                                         *)
(* Every DoWork locks m_hDataSafe around what it shares with ProcessData;  *)
(* what it does outside is its own thread's business alone, so a call is   *)
(* one step, but for a reading device's answers: two.                      *)
(***************************************************************************)
EXTENDS Integers, Sequences, FiniteSets

CONSTANTS Pins   \* the outputs of a writing device

NewPeriph ==
  [m_eState |-> "eInactivateState", m_hNext |-> FALSE,
   m_allIds |-> <<>>, m_nProcessed |-> 0,
   m_bUpdated |-> FALSE, m_bChanged |-> FALSE, m_bRead |-> FALSE,
   data |-> [p \in Pins |-> 0], seq |-> Pins,
   buff |-> [data |-> [p \in Pins |-> 0], seq |-> {}]]

\* What a call does: the device after it, and what it sends to which request.
Does(dev, sent) == [dev |-> dev, sent |-> sent]
Quiet(dev) == Does(dev, <<>>)

\* The requests among the first n, and one message to each.
First(dev, n) == {dev.m_allIds[j] : j \in 1 .. n} \ {0}
Tell(dev, n, message) == [r \in First(dev, n) |-> message]
Everyone(dev) == Len(dev.m_allIds)
Drop(ids, n) == SubSeq(ids, n + 1, Len(ids))

Switched(dev, eReason) ==
  [dev EXCEPT !.m_eState =
     IF eReason = "eActivateState" THEN "eActive" ELSE "eInactivateState"]

-----------------------------------------------------------------------------
(* CMultiWPeriph *)

\* How many of the waiting requests a write has carried out.
\* Mutant: also those that came while it was under way.
AllWaiting(dev) == Everyone(dev)
Written(dev) == dev.m_nProcessed

MultiWDoWork(dev, eReason, nError) ==
  CASE eReason \in {"eActivateState", "eInactivateState"} ->
         Quiet(Switched(dev, eReason))
    [] eReason = "eRecover" /\ dev.m_eState \in {"eActive", "eInactivateState"} ->
         Quiet([dev EXCEPT !.m_bUpdated = TRUE, !.m_hNext = TRUE])
    [] eReason = "ePreWrite" /\ dev.m_eState = "eInactivateState" ->
         Does([dev EXCEPT !.m_eState = "eInactive", !.m_bUpdated = FALSE,
                          !.m_hNext = FALSE, !.m_allIds = <<>>,
                          !.m_nProcessed = 0, !.m_bChanged = FALSE],
              Tell(dev, Everyone(dev), "DEVICE_CLOSING"))
    [] eReason = "ePreWrite" /\ dev.m_eState = "eActive" /\ dev.m_bUpdated ->
         Quiet([dev EXCEPT !.buff = [data |-> dev.data, seq |-> dev.seq],
                           !.m_bUpdated = FALSE, !.m_bChanged = TRUE,
                           !.m_nProcessed = Everyone(dev), !.m_hNext = FALSE])
    [] eReason = "ePostWrite" /\ dev.m_eState = "eActive" /\ dev.m_bChanged ->
         Does([dev EXCEPT !.m_allIds = Drop(@, Written(dev)),
                          !.m_nProcessed = 0, !.m_bChanged = FALSE],
              Tell(dev, Written(dev), IF nError THEN "error" ELSE "ok"))
    [] OTHER -> Quiet(dev)

\* Data with an index out of range is refused, but not before the rest of it
\* has been stored.
MultiWProcessData(dev, r, request) ==
  LET stored == [dev EXCEPT !.data = [p \in Pins |->
                   IF p \in request.pins THEN r ELSE @[p]]]
  IN  IF dev.m_eState # "eActive"
      THEN Does(dev, [q \in {r} |-> "INACTIVE_DEVICE"])
      ELSE IF request.outOfRange
      THEN Does(stored, [q \in {r} |-> "BAD_INPUT_PARAMS"])
      ELSE Quiet([stored EXCEPT !.m_bUpdated = TRUE, !.m_hNext = TRUE,
                                !.m_allIds = Append(@, r)])

-----------------------------------------------------------------------------
(* CPinWPeriph *)

\* It prepares a write as CMultiWPeriph does, but keeps only the last values,
\* and answers after the read that follows a good write.
PinWDoWork(dev, eReason, nError) ==
  CASE eReason \in {"eActivateState", "eInactivateState"} ->
         Quiet(Switched(dev, eReason))
    [] eReason = "eRecover" /\ dev.m_eState \in {"eActive", "eInactivateState"} ->
         Quiet([dev EXCEPT !.m_bUpdated = TRUE, !.m_hNext = TRUE])
    [] eReason = "ePreWrite" /\ dev.m_eState = "eInactivateState" ->
         Does([dev EXCEPT !.m_eState = "eInactive", !.m_bUpdated = FALSE,
                          !.m_hNext = FALSE, !.m_allIds = <<>>,
                          !.m_nProcessed = 0, !.m_bChanged = FALSE,
                          !.buff.seq = {}],
              Tell(dev, Everyone(dev), "DEVICE_CLOSING"))
    [] eReason = "ePreWrite" /\ dev.m_eState = "eActive" /\ dev.m_bUpdated ->
         Quiet([dev EXCEPT !.buff = [data |-> dev.data, seq |-> dev.seq],
                           !.seq = {}, !.m_bUpdated = FALSE,
                           !.m_bChanged = TRUE,
                           !.m_nProcessed = Everyone(dev), !.m_hNext = FALSE])
    [] eReason = "ePostWrite" /\ dev.m_eState = "eActive" /\ dev.m_bChanged ->
         Quiet([dev EXCEPT !.buff.seq = {}])
    [] eReason = "ePostRead" /\ dev.m_eState = "eActive" /\ dev.m_bChanged ->
         Does([dev EXCEPT !.m_allIds = Drop(@, Written(dev)),
                          !.m_nProcessed = 0, !.m_bChanged = FALSE],
              Tell(dev, Written(dev), IF nError THEN "error" ELSE "ok"))
    [] OTHER -> Quiet(dev)

\* Either form of data, with one selection of pins, sets them to the end of
\* the buffer; too much of it is refused before anything is stored.
PinWProcessData(dev, r, request) ==
  CASE request.outOfRange -> Does(dev, [q \in {r} |-> "BAD_INPUT_PARAMS"])
    [] ~request.outOfRange /\ dev.m_eState # "eActive" ->
         Does(dev, [q \in {r} |-> "INACTIVE_DEVICE"])
    [] OTHER ->
         Quiet([dev EXCEPT !.data = [p \in Pins |->
                             IF p \in request.pins THEN r ELSE @[p]],
                           !.seq = @ \cup request.pins,
                           !.m_bUpdated = TRUE, !.m_hNext = TRUE,
                           !.m_allIds = Append(@, r)])

-----------------------------------------------------------------------------
(* CMultiRPeriph and CPinRPeriph *)

\* The requests answered are done with, unless the device reads continuously.
\* Mutant: the event is reset while requests wait.
AnsweredAll(bContinuous, dev) ==
  [dev EXCEPT !.m_allIds = IF bContinuous THEN @ ELSE Drop(@, dev.m_nProcessed),
              !.m_bRead = FALSE, !.m_nProcessed = 0, !.m_hNext = FALSE]
\* Mutant: those that came during the read go too.
AnsweredAndLater(bContinuous, dev) ==
  [dev EXCEPT !.m_allIds = IF bContinuous THEN @ ELSE <<>>,
              !.m_bRead = FALSE, !.m_nProcessed = 0, !.m_hNext = @ /\ bContinuous]
Answered(bContinuous, dev) ==
  LET rest == IF bContinuous THEN dev.m_allIds
              ELSE Drop(dev.m_allIds, dev.m_nProcessed)
  IN  [dev EXCEPT !.m_allIds = rest, !.m_bRead = FALSE, !.m_nProcessed = 0,
                  !.m_hNext = @ /\ rest # <<>>]

\* lost: the requests SendData refuses, since their client is gone or the queue
\* full: the entry is marked as a cancelled one is.
MultiRDoWork(bContinuous, dev, eReason, nError, lost) ==
  LET n == dev.m_nProcessed
      marked == [dev EXCEPT !.m_allIds = [j \in DOMAIN @ |->
                   IF j <= n /\ @[j] \in lost THEN 0 ELSE @[j]]]
      told == [r \in First(dev, n) |->
                 IF ~bContinuous THEN "ok"
                 ELSE IF r \in lost THEN "gone" ELSE "streaming"]
  IN
  CASE eReason \in {"eActivateState", "eInactivateState"} ->
         Quiet(Switched(dev, eReason))
    [] eReason = "ePreWrite" /\ dev.m_eState = "eInactivateState" ->
         Does([dev EXCEPT !.m_eState = "eInactive", !.m_allIds = <<>>,
                          !.m_hNext = FALSE, !.m_nProcessed = 0,
                          !.m_bRead = FALSE],
              Tell(dev, Everyone(dev), "DEVICE_CLOSING"))
    [] eReason = "ePreWrite" /\ dev.m_eState = "eActive" ->
         Quiet([dev EXCEPT !.m_nProcessed = Everyone(dev),
                           !.m_bRead = @ \/ dev.m_allIds # <<>>])
    [] eReason = "ePostWrite" /\ dev.m_eState = "eActive" /\ dev.m_bRead /\ nError ->
         Does(dev, Tell(dev, n, IF bContinuous THEN "streaming" ELSE "error"))
    [] eReason = "ePostRead" /\ dev.m_eState = "eActive" /\ dev.m_bRead ->
         Does(marked, told)
    [] OTHER -> Quiet(dev)

\* The entries that are not marked, in their order.
Unmarked(ids) ==
  LET left == {k \in DOMAIN ids : ids[k] # 0}
      Place(k) == Cardinality({j \in left : j <= k})
  IN  [n \in 1 .. Cardinality(left) |-> ids[CHOOSE k \in left : Place(k) = n]]

\* The end of such a call, in a critical section of its own: in between the
\* comm's thread may cancel.  Only a read takes the marked entries out.
MultiRErase(bContinuous, dev, nError) ==
  LET rest == Answered(bContinuous, dev)
      kept == IF nError THEN rest.m_allIds ELSE Unmarked(rest.m_allIds)
  IN  IF dev.m_eState = "eActive" /\ dev.m_bRead
      THEN [rest EXCEPT !.m_allIds = kept, !.m_hNext = @ /\ kept # <<>>]
      ELSE dev

\* A trigger, or the cancelling of the first one of the session; mine is
\* where in m_allIds the session's requests are.
Cancelled(ids, k) == [ids EXCEPT ![k] = 0]

MultiRProcessData(bContinuous, dev, r, eType, mine) ==
  LET k == CHOOSE i \in mine : \A j \in mine : i <= j IN
  CASE eType = "eTrigger" /\ dev.m_eState # "eActive" ->
         Does(dev, [q \in {r} |-> "INACTIVE_DEVICE"])
    [] eType = "eTrigger" /\ dev.m_eState = "eActive" /\ bContinuous /\ mine # {} ->
         Does(dev, [q \in {r} |-> "ALREADY_OPEN"])
    [] eType = "eCancelReadRequest" /\ mine # {} ->
         Does([dev EXCEPT !.m_allIds = Cancelled(@, k)],
              [q \in {dev.m_allIds[k]} |-> "cancelled"])
    [] eType = "eCancelReadRequest" /\ mine = {} -> Quiet(dev)
    [] OTHER ->
         Quiet([dev EXCEPT !.m_allIds = Append(@, r), !.m_hNext = TRUE])

\* The pins' readings are taken from the bytes read as they are; all else is
\* as for the register.
PinRDoWork(bContinuous, dev, eReason, nError, lost) ==
  MultiRDoWork(bContinuous, dev, eReason, nError, lost)

PinRErase(bContinuous, dev, nError) == MultiRErase(bContinuous, dev, nError)

PinRProcessData(bContinuous, dev, r, eType, mine) ==
  MultiRProcessData(bContinuous, dev, r, eType, mine)
=============================================================================
