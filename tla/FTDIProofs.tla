------------------------------ MODULE FTDIProofs ------------------------------
(***************************************************************************)
(* For any channel of any devices, any clients and requests, and however   *)
(* often the port fails: no update is overlooked, the buffers fit, a block *)
(* is kept while it is wanted, every request is accounted for, an answer   *)
(* stands, and it is true of the outputs.                                  *)
(***************************************************************************)
EXTENDS FTDIProps, SequenceTheorems, FiniteSetTheorems, TLAPS

-----------------------------------------------------------------------------
(* Updates *)

\* The event stays set while the queue is emptied; what comes after the last
\* look at the queue is late.
Noticed ==
  /\ pc \in {"updates", "reset"} => m_hUpdate
  /\ m_asUpdates # <<>> => m_hUpdate \/ late
  /\ pc = "reset" /\ m_asUpdates # <<>> => late

\* What a client asks of a device changes the device and the answers alone.
LEMMA AskChanges ==
  ASSUME NEW c, NEW d,
         \/ \E request \in Writes : WriteData(c, d, request)
         \/ Trigger(c, d) \/ TriggerADC(c, d) \/ CancelRead(c, d)
  PROVE  UNCHANGED <<inits, gone, queueVars, eventVars, threadVars, nCount, outputVars,
                     stopVars, nFaults>>
<1>1. CASE \E request \in Writes : WriteData(c, d, request)
  BY <1>1 DEF WriteData, Asked
<1>2. CASE Trigger(c, d)
  BY <1>2 DEF Trigger, Asked
<1>3. CASE TriggerADC(c, d)
  BY <1>3 DEF TriggerADC, Asked
<1>4. CASE CancelRead(c, d)
  BY <1>4 DEF CancelRead, clientVars
<1> QED BY <1>1, <1>2, <1>3, <1>4

\* A read of the port is one, whatever settings it shows.
LEMMA ReadIs ==
  ASSUME Read \/ \E shown \in SUBSET ucOutput : ReadGarbled(shown)
  PROVE  /\ \E outcome : ReadPort(outcome)
         /\ nFaults' \in {nFaults, nFaults + 1}
BY DEF Read, ReadGarbled

LEMMA NextKeepsNoticed ==
  ASSUME Noticed, [Next]_vars
  PROVE  Noticed'
<1> USE DEF Noticed, queueVars, eventVars, threadVars, Wake, InUpdates
<1>1. CASE ProcessData
  <2>1. CASE \E d \in Devices, on \in BOOLEAN : ActivateOrInactivate(d, on)
    BY <2>1 DEF ActivateOrInactivate
  <2>2. CASE \E c \in Clients, d \in Devices :
               \/ \E request \in Writes : WriteData(c, d, request)
               \/ Trigger(c, d) \/ TriggerADC(c, d) \/ CancelRead(c, d)
    BY <2>2, AskChanges
  <2> QED BY <1>1, <2>1, <2>2 DEF ProcessData
<1>2. CASE WakeStop \/ Recover
  BY <1>2 DEF WakeStop, Recover
<1>3. CASE PopUpdate
  BY <1>3 DEF PopUpdate
<1>4. CASE NoMoreUpdates
  BY <1>4 DEF NoMoreUpdates
<1>5. CASE Reset
  BY <1>5 DEF Reset
<1>6. CASE PreWrite \/ Write \/ Read \/ Erase
  BY <1>6 DEF PreWrite, Write, Read, ReadPort, Erase
<1>7. CASE Faults
  BY <1>7 DEF Faults, RecoverFails, WriteFails, ReadFails, ReadGarbled, ReadPort
<1>8. CASE Deletion
  BY <1>8 DEF Deletion, Delete, StopThread, DeleteDevices, DeleteUnchanged
<1>9. CASE \E c \in Clients : Leave(c)
  BY <1>9 DEF Leave
<1>10. CASE \E d \in Devices : ADCThread(d) \/ ADCDue(d)
  BY <1>10 DEF ADCThread, ADCTake, ADCSend, ADCExtracted, ADCStop, ADCDue, ADCUnchanged
<1>11. CASE UNCHANGED vars
  BY <1>11 DEF vars
<1> QED BY <1>1, <1>2, <1>3, <1>4, <1>5, <1>6, <1>7, <1>8, <1>9, <1>10, <1>11
        DEF Next, ThreadProc

\* Of the activations asked for none is forgotten while the thread waits, but
\* one that came between the last look at the queue and the reset of m_hUpdate.
THEOREM UpdatesSeen == Spec => []UpdatesNotForgotten
<1>1. Init => Noticed
  BY DEF Init, Noticed
<1>2. Noticed => UpdatesNotForgotten
  BY DEF Noticed, UpdatesNotForgotten
<1> QED BY <1>1, <1>2, NextKeepsNoticed, PTL DEF Spec

-----------------------------------------------------------------------------
(* Buffers *)

\* Every set of naturals has a least one.
LEMMA Least ==
  ASSUME NEW T \in SUBSET Nat, T # {}
  PROVE  \E n \in T : \A m \in T : n <= m
<1>1. PICK n \in T : \A m \in T : ~ (<<m, n>> \in OpToRel(<, Nat))
  BY WFMin, NatLessThanWellFounded
<1>2. ASSUME NEW m \in T PROVE n <= m
  <2>1. m \in Nat /\ n \in Nat
    OBVIOUS
  <2>2. m < n => <<m, n>> \in OpToRel(<, Nat)
    BY <2>1 DEF OpToRel
  <2>3. ~(m < n)
    BY <1>1, <2>2, Zenon
  <2> QED BY <2>1, <2>3
<1> QED BY <1>2

\* The values of a finite sequence have a bound: a shortest prefix without one
\* would be one value longer than a prefix with one.
LEMMA Bounded ==
  ASSUME NEW n \in Nat, NEW f \in [1 .. n -> Nat]
  PROVE  \E b \in Nat : \A i \in 1 .. n : f[i] <= b
<1> DEFINE Bound(k, b) == \A i \in 1 .. k : f[i] <= b
           T == {k \in 0 .. n : \A b \in Nat : ~Bound(k, b)}
<1>1. ASSUME T # {} PROVE FALSE
  <2>1. PICK k \in T : \A m \in T : k <= m
    <3>1. T \in SUBSET Nat
      OBVIOUS
    <3> HIDE DEF T
    <3> QED BY <1>1, <3>1, Least
  <2>2. k \in 0 .. n /\ \A b \in Nat : ~Bound(k, b)
    OBVIOUS
  <2>3. Bound(0, 0)
    OBVIOUS
  <2>4. k - 1 \in 0 .. n /\ k \in 1 .. n /\ ~(k <= k - 1)
    BY <2>2, <2>3
  <2>5. k - 1 \notin T
    BY <2>1, <2>4
  <2>6. PICK b \in Nat : Bound(k - 1, b)
    BY <2>4, <2>5
  <2>7. PICK c \in Nat : c >= b /\ c >= f[k]
    <3>1. f[k] \in Nat /\ b \in Nat
      BY <2>4
    <3>2. f[k] + b \in Nat /\ f[k] + b >= b /\ f[k] + b >= f[k]
      BY <3>1
    <3> QED BY <3>2
  <2>8. Bound(k, c)
    <3> SUFFICES ASSUME NEW i \in 1 .. k PROVE f[i] <= c
      OBVIOUS
    <3>1. f[i] \in Nat /\ f[k] \in Nat /\ (i = k \/ i \in 1 .. k - 1)
      BY <2>4
    <3> QED BY <2>6, <2>7, <3>1
  <2> QED BY <2>2, <2>8
<1>2. T = {}
  <2> HIDE DEF T
  <2> QED BY <1>1
<1> QED BY <1>2, n \in 0 .. n

\* Max finds the largest, and 0 among none.
LEMMA MaxIs ==
  ASSUME NEW n \in Nat, NEW f \in [1 .. n -> Nat]
  PROVE  LET S == {f[i] : i \in 1 .. n} \cup {0} IN
         Max(S) \in S /\ Max(S) \in Nat /\ \A x \in S : x <= Max(S)
<1> DEFINE S == {f[i] : i \in 1 .. n} \cup {0}
           T == {b \in Nat : \A i \in 1 .. n : f[i] <= b}
<1>1. PICK b \in T : \A c \in T : b <= c
  BY Bounded, Least, T \subseteq Nat, T # {}
<1>2. b = 0 \/ \E i \in 1 .. n : f[i] = b
  <2> SUFFICES ASSUME b # 0, \A i \in 1 .. n : f[i] # b PROVE FALSE
    OBVIOUS
  <2>1. b - 1 \in Nat /\ \A i \in 1 .. n : f[i] <= b - 1
    <3>1. b \in Nat /\ \A i \in 1 .. n : f[i] <= b /\ f[i] \in Nat
      OBVIOUS
    <3> QED BY <3>1
  <2> QED BY <1>1, <2>1
<1>3. b \in S /\ \A x \in S : b >= x
  BY <1>2
<1>4. S \subseteq Nat
  OBVIOUS
<1> HIDE DEF S, T
<1>5. Max(S) \in S /\ \A x \in S : Max(S) >= x
  BY <1>3 DEF Max
<1>6. \A x \in S : x <= Max(S)
  BY <1>4, <1>5
<1> QED BY <1>4, <1>5, <1>6 DEF S

\* Align gives the whole packets that hold n bytes.
LEMMA AlignIs ==
  ASSUME NEW n \in Nat
  PROVE  /\ Align(n) \in Nat /\ n <= Align(n)
         /\ Align(n) % dwPacket = 0
         /\ Align(n) = 0 <=> n = 0
         /\ Align(n) <= dwMaxPacket <=> n <= dwMaxPacket
<1>1. CASE dwPacket = 62
  BY <1>1, PacketAssumption DEF Align, CeilDiv
<1>2. CASE dwPacket = 510
  BY <1>2, PacketAssumption DEF Align, CeilDiv
<1> QED BY <1>1, <1>2, PacketAssumption

LEMMA AlignGrows ==
  ASSUME NEW m \in Nat, NEW n \in Nat, m <= n
  PROVE  Align(m) <= Align(n)
<1>1. CASE dwPacket = 62
  BY <1>1 DEF Align, CeilDiv
<1>2. CASE dwPacket = 510
  BY <1>2 DEF Align, CeilDiv
<1> QED BY <1>1, <1>2, PacketAssumption

\* An ADC asks for what the port takes or less, but never for nothing.
LEMMA ADCNeed ==
  ASSUME NEW init \in ADCInits
  PROVE  Need(init) \in Nat /\ 0 < Need(init) /\ Need(init) <= dwMaxPacket
<1> DEFINE f == init.fUSBBuffToUse
           M == dwMaxPacket
<1>1. init.kind = "ADC" /\ f \in Nat /\ M \in Nat
  BY PacketAssumption DEF ADCInits
<1>2. M > 0
  BY PacketAssumption
<1>3. CASE f >= 100
  BY <1>1, <1>2, <1>3 DEF Need
<1>4. CASE f < 100 /\ f * M <= 300 * dwPacket
  <2>1. Need(init) = Larger(90, 3 * dwPacket)
    BY <1>1, <1>4 DEF Need
  <2> QED BY <2>1, PacketAssumption DEF Larger
<1>5. CASE f < 100 /\ ~(f * M <= 300 * dwPacket)
  <2>1. PICK x : x = f * M
    OBVIOUS
  <2>2. x \in Nat /\ x <= 99 * M
    <3>1. f * M + (99 - f) * M = 99 * M /\ f * M \in Nat
      BY <1>1
    <3>2. (99 - f) * M \in Nat
      <4>1. 99 - f \in Nat
        BY <1>1, <1>5
      <4> QED BY <1>1, <4>1
    <3> QED BY <1>1, <2>1, <3>1, <3>2
  <2>3. PICK part : part = CeilDiv(x, 100)
    OBVIOUS
  <2>4. part \in Nat /\ part <= M /\ 3 * dwPacket <= part
    BY <1>1, <1>2, <1>5, <2>1, <2>2, <2>3, PacketAssumption DEF CeilDiv
  <2>5. Need(init) = part - (part % dwPacket)
    BY <1>1, <1>5, <2>1, <2>3 DEF Need
  <2>6. part % dwPacket \in 0 .. dwPacket - 1
    BY <2>4, PacketAssumption
  <2> QED BY <2>4, <2>5, <2>6, PacketAssumption
<1> QED BY <1>1, <1>3, <1>4, <1>5, PacketAssumption

\* A DWORD is the number itself if it is small enough.
LEMMA DWORDIs ==
  ASSUME NEW n \in Nat
  PROVE  DWORD(n) \in Nat /\ (n < dwSpan => DWORD(n) = n)
<1>1. dwSpan \in Nat /\ 0 < dwSpan
  BY PacketAssumption
<1> QED BY <1>1 DEF DWORD

\* What a register clocks out, and what it asks for.
LEMMA BytesIs ==
  ASSUME NEW init \in Inits, init.kind \in {"MultiW", "MultiR"}
  PROVE  /\ Bytes(init) \in Nat /\ Need(init) = DWORD(Bytes(init))
         /\ init.dwBoards \in Nat /\ init.dwClkPerData \in Nat
         /\ init.kind = "MultiW" =>
              Bytes(init) = (init.dwBoards * 16 + 2) * init.dwClkPerData
         /\ init.kind = "MultiR" =>
              Bytes(init) = (init.dwBoards * 16 + 6) * init.dwClkPerData
<1>1. init.dwBoards \in Nat /\ init.dwClkPerData \in Nat
  BY DEF Inits, MultiInits, PinInits, ADCInits
<1>2. PICK a \in Nat : Bytes(init) = a * init.dwClkPerData
  BY <1>1 DEF Bytes
<1>3. Bytes(init) \in Nat
  BY <1>1, <1>2
<1>4. Need(init) = DWORD(Bytes(init))
  BY DEF Need
<1>5. CASE init.kind = "MultiW"
  BY <1>1, <1>3, <1>4, <1>5 DEF Bytes
<1>6. CASE init.kind = "MultiR"
  BY <1>1, <1>3, <1>4, <1>6 DEF Bytes
<1> QED BY <1>5, <1>6

\* What a device asks for, and its share of the buffer.
LEMMA NeedIs ==
  ASSUME NEW init \in Inits
  PROVE  /\ Need(init) \in Nat
         /\ init.kind \in {"MultiW", "MultiR", "PinW", "PinR", "ADC"}
<1>1. CASE init \in MultiInits("MultiW") \cup MultiInits("MultiR")
  <2>1. init.kind \in {"MultiW", "MultiR"}
    BY <1>1 DEF MultiInits
  <2>2. Bytes(init) \in Nat /\ Need(init) = DWORD(Bytes(init))
    BY <2>1, BytesIs
  <2> QED BY <2>1, <2>2, DWORDIs
<1>2. CASE init \in PinInits("PinW") \cup PinInits("PinR")
  BY <1>2 DEF PinInits, Need
<1>3. CASE init \in ADCInits
  BY <1>3, ADCNeed DEF ADCInits
<1> QED BY <1>1, <1>2, <1>3 DEF Inits

\* The channel's buffer is as large as its largest device needs.
LEMMA LargestNeed ==
  ASSUME NEW is \in Seq(Inits)
  PROVE  \E n \in Nat : /\ dwMaxWrite(is) = Align(n)
                        /\ n = 0 \/ \E i \in DOMAIN is : Need(is[i]) = n
                        /\ \A i \in DOMAIN is : Need(is[i]) <= n
<1> DEFINE f == [i \in 1 .. Len(is) |-> Need(is[i])]
<1>1. Len(is) \in Nat /\ DOMAIN is = 1 .. Len(is) /\ \A i \in DOMAIN is : is[i] \in Inits
  BY LenProperties
<1>2. f \in [1 .. Len(is) -> Nat] /\ \A i \in 1 .. Len(is) : f[i] = Need(is[i])
  BY <1>1, NeedIs
<1>3. {Need(is[i]) : i \in DOMAIN is} = {f[i] : i \in 1 .. Len(is)}
  BY <1>1, <1>2
<1> HIDE DEF f
<1>4. PICK S : S = {f[i] : i \in 1 .. Len(is)} \cup {0}
  OBVIOUS
<1>5. Max(S) \in S /\ Max(S) \in Nat /\ \A x \in S : x <= Max(S)
  BY <1>1, <1>2, <1>4, MaxIs
<1>6. dwMaxWrite(is) = Align(Max(S))
  BY <1>3, <1>4 DEF dwMaxWrite
<1>7. Max(S) = 0 \/ \E i \in DOMAIN is : Need(is[i]) = Max(S)
  BY <1>1, <1>2, <1>4, <1>5
<1>8. \A i \in DOMAIN is : Need(is[i]) <= Max(S)
  BY <1>1, <1>2, <1>4, <1>5
<1> QED BY <1>5, <1>6, <1>7, <1>8

\* The share of each device is its need in whole packets, that of an ADC the
\* whole buffer; so the shares' largest is the buffer.
LEMMA SharesAgree ==
  ASSUME NEW is \in Seq(Inits)
  PROVE  /\ dwMaxWrite(is) \in Nat /\ dwMaxWrite(is) = WriteSize(is)
         /\ dwMaxWrite(is) % dwPacket = 0
         /\ dwMaxWrite(is) <= dwMaxPacket <=>
              \A i \in DOMAIN is : Need(is[i]) <= dwMaxPacket
         /\ dwMaxWrite(is) = 0 <=> \A i \in DOMAIN is : Need(is[i]) = 0
         /\ \A i \in DOMAIN is :
              /\ dwMinSize(is, i) = IF is[i].kind = "ADC" THEN dwMaxWrite(is)
                                    ELSE Align(Need(is[i]))
              /\ dwMinSize(is, i) \in Nat /\ dwMinSize(is, i) <= dwMaxWrite(is)
<1>1. PICK n \in Nat : /\ dwMaxWrite(is) = Align(n)
                       /\ n = 0 \/ \E i \in DOMAIN is : Need(is[i]) = n
                       /\ \A i \in DOMAIN is : Need(is[i]) <= n
  BY LargestNeed
<1>2. /\ Len(is) \in Nat /\ DOMAIN is = 1 .. Len(is)
      /\ \A i \in DOMAIN is : is[i] \in Inits /\ Need(is[i]) \in Nat
  BY LenProperties, NeedIs
<1>3. /\ Align(n) \in Nat /\ Align(n) % dwPacket = 0
      /\ Align(n) <= dwMaxPacket <=> n <= dwMaxPacket
      /\ Align(n) = 0 <=> n = 0
  BY AlignIs
<1>4. \A i \in DOMAIN is : dwMinSize(is, i) = IF is[i].kind = "ADC" THEN dwMaxWrite(is)
                                              ELSE Align(Need(is[i]))
  <2> SUFFICES ASSUME NEW i \in DOMAIN is
               PROVE  dwMinSize(is, i) = IF is[i].kind = "ADC" THEN dwMaxWrite(is)
                                         ELSE Align(Need(is[i]))
    OBVIOUS
  <2>1. CASE is[i].kind = "MultiW"
    BY <1>2, <2>1, BytesIs DEF dwMinSize, Align
  <2>2. CASE is[i].kind = "MultiR"
    BY <1>2, <2>2, BytesIs DEF dwMinSize, Align
  <2>3. CASE is[i].kind \in {"PinW", "PinR"}
    BY <2>3 DEF dwMinSize, Align, Need
  <2>4. CASE is[i].kind = "ADC"
    BY <2>4 DEF dwMinSize
  <2> QED BY <1>2, <2>1, <2>2, <2>3, <2>4, NeedIs
<1>5. \A i \in DOMAIN is : dwMinSize(is, i) \in Nat /\ dwMinSize(is, i) <= Align(n)
  BY <1>1, <1>2, <1>3, <1>4, AlignIs, AlignGrows
<1>6. Align(n) = 0 \/ \E i \in DOMAIN is : dwMinSize(is, i) = Align(n)
  BY <1>1, <1>3, <1>4
<1>7. WriteSize(is) = Align(n)
  <2> DEFINE f == [i \in 1 .. Len(is) |-> dwMinSize(is, i)]
  <2>1. f \in [1 .. Len(is) -> Nat] /\ \A i \in 1 .. Len(is) : f[i] = dwMinSize(is, i)
    BY <1>2, <1>5
  <2>2. {dwMinSize(is, i) : i \in DOMAIN is} = {f[i] : i \in 1 .. Len(is)}
    BY <1>2, <2>1
  <2> HIDE DEF f
  <2>3. PICK S : S = {f[i] : i \in 1 .. Len(is)} \cup {0}
    OBVIOUS
  <2>4. Max(S) \in S /\ Max(S) \in Nat /\ \A x \in S : x <= Max(S)
    BY <1>2, <2>1, <2>3, MaxIs
  <2>5. \A x \in S : x <= Align(n)
    BY <1>2, <1>3, <1>5, <2>1, <2>3
  <2>6. Align(n) \in S
    BY <1>2, <1>6, <2>1, <2>3
  <2>7. Max(S) = Align(n)
    BY <1>3, <2>4, <2>5, <2>6
  <2> QED BY <2>2, <2>3, <2>7 DEF WriteSize
<1>8. n <= dwMaxPacket <=> \A i \in DOMAIN is : Need(is[i]) <= dwMaxPacket
  BY <1>1, <1>2, PacketAssumption
<1>9. n = 0 <=> \A i \in DOMAIN is : Need(is[i]) = 0
  BY <1>1, <1>2
<1> QED BY <1>1, <1>3, <1>4, <1>5, <1>7, <1>8, <1>9

\* A device refuses what is not valid and nothing else.
LEMMA RefusesInvalid ==
  ASSUME NEW is \in Seq(Inits), NEW i \in DOMAIN is
  PROVE  Refuses(is, i) <=> ~Valid(is[i])
<1>1. /\ dwMaxWrite(is) \in Nat /\ dwMaxWrite(is) % dwPacket = 0
      /\ dwMinSize(is, i) = IF is[i].kind = "ADC" THEN dwMaxWrite(is) ELSE Align(Need(is[i]))
      /\ dwMinSize(is, i) \in Nat /\ dwMinSize(is, i) <= dwMaxWrite(is)
  BY SharesAgree
<1>2. is[i] \in Inits /\ Need(is[i]) \in Nat /\ Need(is[i]) <= Align(Need(is[i]))
  BY LenProperties, NeedIs, AlignIs
<1>3. Align(Need(is[i])) \in Nat
  BY <1>2, AlignIs
<1>4. CASE is[i].kind = "MultiW"
  <2>1. /\ is[i].dwBoards \in Nat /\ is[i].dwClkPerData \in Nat
        /\ Need(is[i]) = DWORD((is[i].dwBoards * 16 + 2) * is[i].dwClkPerData)
    BY <1>2, <1>4, BytesIs
  <2>2. Refuses(is, i) <=>
          \/ dwMinSize(is, i) < Need(is[i]) \/ dwMaxWrite(is) < dwMinSize(is, i)
          \/ is[i].dwClkPerData = 0 \/ is[i].dwBoards = 0
    BY <1>4, <2>1 DEF Refuses, MultiWRefuses
  <2>3. Valid(is[i]) <=> is[i].dwBoards # 0 /\ is[i].dwClkPerData # 0
    <3>1. Valid(is[i]) <=> is[i].dwBoards > 0 /\ is[i].dwClkPerData > 0
      BY <1>4 DEF Valid
    <3> QED BY <2>1, <3>1
  <2> QED BY <1>1, <1>2, <1>3, <1>4, <2>2, <2>3
<1>5. CASE is[i].kind = "MultiR"
  <2>1. /\ is[i].dwBoards \in Nat /\ is[i].dwClkPerData \in Nat
        /\ Need(is[i]) = DWORD((is[i].dwBoards * 16 + 6) * is[i].dwClkPerData)
    BY <1>2, <1>5, BytesIs
  <2>2. Refuses(is, i) <=>
          \/ dwMinSize(is, i) < Need(is[i]) \/ dwMaxWrite(is) < dwMinSize(is, i)
          \/ is[i].dwClkPerData = 0 \/ is[i].dwBoards = 0
    BY <1>5, <2>1 DEF Refuses, MultiRRefuses
  <2>3. Valid(is[i]) <=> is[i].dwBoards # 0 /\ is[i].dwClkPerData # 0
    <3>1. Valid(is[i]) <=> is[i].dwBoards > 0 /\ is[i].dwClkPerData > 0
      BY <1>5 DEF Valid
    <3> QED BY <2>1, <3>1
  <2> QED BY <1>1, <1>2, <1>3, <1>5, <2>2, <2>3
<1>6. CASE is[i].kind \in {"PinW", "PinR"}
  <2>1. is[i].usBytesUsed \in Nat /\ is[i].ucActivePins \in Nat
    BY <1>2, <1>6 DEF Inits, MultiInits, PinInits, ADCInits
  <2>2. Need(is[i]) = is[i].usBytesUsed
    BY <1>6 DEF Need
  <2>3. Valid(is[i]) <=> is[i].usBytesUsed # 0 /\ is[i].ucActivePins # 0
    <3>1. Valid(is[i]) <=> is[i].usBytesUsed > 0 /\ is[i].ucActivePins > 0
      <4>1. CASE is[i].kind = "PinW"
        BY <4>1 DEF Valid
      <4>2. CASE is[i].kind = "PinR"
        BY <4>2 DEF Valid
      <4> QED BY <1>6, <4>1, <4>2
    <3> QED BY <2>1, <3>1
  <2>4. dwMinSize(is, i) = Align(Need(is[i]))
    BY <1>1, <1>6
  <2>5. Refuses(is, i) <=>
          \/ dwMinSize(is, i) < is[i].usBytesUsed \/ dwMaxWrite(is) < dwMinSize(is, i)
          \/ is[i].usBytesUsed = 0 \/ is[i].ucActivePins = 0
    BY <1>6 DEF Refuses, PinWRefuses, PinRRefuses
  <2> QED BY <1>1, <1>2, <1>3, <2>1, <2>2, <2>3, <2>4, <2>5
<1>7. CASE is[i].kind = "ADC"
  BY <1>1, <1>7, PacketAssumption DEF Refuses, ADCRefuses, Valid
<1> QED BY <1>2, <1>4, <1>5, <1>6, <1>7, NeedIs

\* When a channel is created.
LEMMA SetupIs ==
  ASSUME NEW is \in Seq(Inits)
  PROVE  Setup(is) = "none" <=>
           /\ Len(is) \in 1 .. MAXIMUM_WAIT_OBJECTS - 3
           /\ \A i \in DOMAIN is : Valid(is[i]) /\ Need(is[i]) <= dwMaxPacket
           /\ \E i \in DOMAIN is : Need(is[i]) > 0
<1>1. /\ Len(is) \in Nat /\ DOMAIN is = 1 .. Len(is) /\ (is = <<>> <=> Len(is) = 0)
      /\ \A i \in DOMAIN is : is[i] \in Inits /\ Need(is[i]) \in Nat
  BY LenProperties, EmptySeq, NeedIs
<1>2. TooSmall(is) <=> \E i \in DOMAIN is : Need(is[i]) > dwMaxPacket
  <2>1. \A i \in DOMAIN is : is[i].kind = "ADC" => Need(is[i]) <= dwMaxPacket
    BY <1>1, ADCNeed DEF Inits, MultiInits, PinInits
  <2> QED BY <1>1, <2>1, PacketAssumption DEF TooSmall
<1>3. CASE TooSmall(is)
  BY <1>1, <1>2, <1>3, PacketAssumption DEF Setup
<1>4. CASE ~TooSmall(is) /\ \E i \in DOMAIN is : Refuses(is, i)
  BY <1>4, RefusesInvalid DEF Setup
<1>5. CASE ~TooSmall(is) /\ ~\E i \in DOMAIN is : Refuses(is, i)
  <2>1. \A i \in DOMAIN is : Valid(is[i]) /\ Need(is[i]) <= dwMaxPacket
    BY <1>1, <1>2, <1>5, RefusesInvalid, PacketAssumption
  <2>2. WriteSize(is) \in Nat /\ WriteSize(is) <= dwMaxPacket
    BY <2>1, SharesAgree
  <2>3. WriteSize(is) # 0 <=> \E i \in DOMAIN is : Need(is[i]) > 0
    BY <1>1, SharesAgree
  <2>4. Setup(is) = Unfit(is)
    BY <1>5 DEF Setup
  <2>5. CASE is = <<>> \/ Len(is) + 3 > 64
    <3>1. Unfit(is) # "none"
      BY <2>2, <2>5, PacketAssumption DEF Unfit, MAXIMUM_WAIT_OBJECTS
    <3>2. ~(Len(is) \in 1 .. 64 - 3)
      <4>1. \A n \in Nat : n = 0 \/ n + 3 > 64 => ~(n \in 1 .. 64 - 3)
        OBVIOUS
      <4>2. Len(is) \in Nat /\ (Len(is) = 0 \/ Len(is) + 3 > 64)
        BY <1>1, <2>5
      <4> QED BY <4>1, <4>2
    <3> QED BY <2>4, <3>1, <3>2 DEF MAXIMUM_WAIT_OBJECTS
  <2>6. CASE is # <<>> /\ ~(Len(is) + 3 > 64)
    <3>1. ~(WriteSize(is) > dwMaxPacket)
      BY <2>2, PacketAssumption
    <3>2. Unfit(is) = "none" <=> WriteSize(is) # 0
      BY <2>6, <3>1 DEF Unfit, MAXIMUM_WAIT_OBJECTS
    <3>3. Len(is) \in 1 .. 64 - 3
      <4>1. \A n \in Nat : n # 0 /\ ~(n + 3 > 64) => n \in 1 .. 64 - 3
        OBVIOUS
      <4>2. Len(is) \in Nat /\ Len(is) # 0 /\ ~(Len(is) + 3 > 64)
        BY <1>1, <2>6
      <4> QED BY <4>1, <4>2
    <3> QED BY <2>1, <2>3, <2>4, <3>2, <3>3 DEF MAXIMUM_WAIT_OBJECTS
  <2> QED BY <2>5, <2>6
<1> QED BY <1>3, <1>4, <1>5

\* ThreadProc is there in a channel that was created, and only there.
Fits ==
  /\ inits \in Configs /\ (Created <=> Setup(inits) = "none")
  /\ deletePc # "no" => Created

LEMMA NextKeepsFits ==
  ASSUME Fits, [Next]_vars
  PROVE  Fits'
<1>1. inits' = inits /\ (Created <=> Created')
  <2> USE DEF Created, clientVars, threadVars, Wake, InUpdates, CommOpen
  <2>1. CASE ProcessData
    <3>1. CASE \E d \in Devices, on \in BOOLEAN : ActivateOrInactivate(d, on)
      BY <3>1 DEF ActivateOrInactivate
    <3>2. CASE \E c \in Clients, d \in Devices :
                 \/ \E request \in Writes : WriteData(c, d, request)
                 \/ Trigger(c, d) \/ TriggerADC(c, d) \/ CancelRead(c, d)
      BY <3>2, AskChanges
    <3> QED BY <2>1, <3>1, <3>2 DEF ProcessData
  <2>2. CASE WakeStop \/ Recover
    BY <2>2 DEF WakeStop, Recover
  <2>3. CASE PopUpdate
    BY <2>3 DEF PopUpdate
  <2>4. CASE NoMoreUpdates
    BY <2>4 DEF NoMoreUpdates
  <2>5. CASE Reset
    BY <2>5 DEF Reset
  <2>6. CASE PreWrite \/ Write \/ Read \/ Erase
    BY <2>6 DEF PreWrite, Write, Read, ReadPort, Erase
  <2>7. CASE Faults
    BY <2>7 DEF Faults, RecoverFails, WriteFails, ReadFails, ReadGarbled, ReadPort
  <2>8. CASE Deletion
    BY <2>8 DEF Deletion, Delete, StopThread, DeleteDevices, DeleteUnchanged, Fits
  <2>9. CASE \E c \in Clients : Leave(c)
    BY <2>9 DEF Leave
  <2>10. CASE \E d \in Devices : ADCThread(d) \/ ADCDue(d)
    BY <2>10 DEF ADCThread, ADCTake, ADCSend, ADCExtracted, ADCStop, ADCDue, ADCUnchanged
  <2>11. CASE UNCHANGED vars
    BY <2>11 DEF vars
  <2> QED BY <2>1, <2>2, <2>3, <2>4, <2>5, <2>6, <2>7, <2>8, <2>9, <2>10, <2>11
          DEF Next, ThreadProc
<1>2. deletePc' # "no" => deletePc # "no" \/ Created
  <2> USE DEF Created, clientVars, threadVars, stopVars, Wake, InUpdates, CommOpen
  <2>1. CASE ProcessData
    <3>1. CASE \E d \in Devices, on \in BOOLEAN : ActivateOrInactivate(d, on)
      BY <3>1 DEF ActivateOrInactivate
    <3>2. CASE \E c \in Clients, d \in Devices :
                 \/ \E request \in Writes : WriteData(c, d, request)
                 \/ Trigger(c, d) \/ TriggerADC(c, d) \/ CancelRead(c, d)
      BY <3>2, AskChanges
    <3> QED BY <2>1, <3>1, <3>2 DEF ProcessData
  <2>2. CASE ThreadProc \/ Faults
    BY <2>2 DEF ThreadProc, WakeStop, Recover, PopUpdate, NoMoreUpdates, Reset, PreWrite, Write,
                Read, ReadPort, Erase, Faults, RecoverFails, WriteFails, ReadFails, ReadGarbled
  <2>3. CASE Deletion
    BY <2>3 DEF Deletion, Delete, StopThread, DeleteDevices
  <2>4. CASE \E c \in Clients : Leave(c)
    BY <2>4 DEF Leave
  <2>5. CASE \E d \in Devices : ADCThread(d) \/ ADCDue(d)
    BY <2>5 DEF ADCThread, ADCTake, ADCSend, ADCExtracted, ADCStop, ADCDue, ADCUnchanged
  <2>6. CASE UNCHANGED vars
    BY <2>6 DEF vars
  <2> QED BY <2>1, <2>2, <2>3, <2>4, <2>5, <2>6 DEF Next
<1> QED BY <1>1, <1>2 DEF Fits

\* For every channel a client may ask for, either speed of the port and any
\* width of a DWORD: it is created exactly when its devices are valid, each
\* alone fits and one needs anything, and then the buffer they share and their
\* shares agree, and it holds what a register clocks out that did not wrap.
THEOREM BuffersFit == Spec => []BuffersAgree
<1>1. Init => Fits
  BY DEF Init, Fits, Created
<1>2. Fits => BuffersAgree
  <2> SUFFICES ASSUME Fits PROVE BuffersAgree
    OBVIOUS
  <2>1. inits \in Seq(Inits)
    BY FTDIAssumption DEF Fits
  <2>2. Created <=> /\ Len(inits) \in 1 .. MAXIMUM_WAIT_OBJECTS - 3
                    /\ \A d \in Devices : Valid(inits[d]) /\ Need(inits[d]) <= dwMaxPacket
                    /\ \E d \in Devices : Need(inits[d]) > 0
    BY <2>1, SetupIs DEF Fits, Devices
  <2>3. Created => dwMaxWrite(inits) = WriteSize(inits) /\ WriteSize(inits) <= dwMaxPacket
    BY <2>1, <2>2, SharesAgree DEF Devices
  <2>4. ASSUME NEW d \in Devices, Shifts(inits[d]), Bytes(inits[d]) < dwSpan
        PROVE  Bytes(inits[d]) <= WriteSize(inits)
    <3>1. inits[d] \in Inits /\ d \in DOMAIN inits
      BY <2>1, LenProperties DEF Devices
    <3>2. Bytes(inits[d]) \in Nat /\ Need(inits[d]) = DWORD(Bytes(inits[d]))
      BY <2>4, <3>1, BytesIs DEF Shifts
    <3>3. Need(inits[d]) = Bytes(inits[d])
      BY <2>4, <3>2, DWORDIs
    <3>4. /\ WriteSize(inits) \in Nat /\ dwMinSize(inits, d) \in Nat
          /\ dwMinSize(inits, d) <= WriteSize(inits)
      BY <2>1, <3>1, SharesAgree
    <3>5. dwMinSize(inits, d) = Align(Need(inits[d]))
      BY <2>1, <2>4, <3>1, SharesAgree DEF Shifts
    <3> QED BY <3>2, <3>3, <3>4, <3>5, AlignIs
  <2> QED BY <2>2, <2>3, <2>4 DEF BuffersAgree
<1> QED BY <1>1, <1>2, NextKeepsFits, PTL DEF Spec

-----------------------------------------------------------------------------
(* What a device is *)

ADCType ==
  [m_eState : {"eActive", "eInactive", "eActivateState", "eInactivateState"},
   m_hNext : BOOLEAN, m_llId : Nat,
   m_eConfigState : {"eConfigStart", "eConfigTO", "eConfigWrite", "eConfigDone"},
   m_ucBitOutput : BOOLEAN, due : BOOLEAN, m_apsReadIdx : Seq(Nat),
   m_hProcessData : BOOLEAN, m_hThreadClose : BOOLEAN,
   pc : {"wait", "extract", "exited", "deleted"}, psRead : Nat, llId : Nat]

Outputs_ == [data : [Pins -> Nat], seq : SUBSET Pins]

PeriphType ==
  [m_eState : {"eActive", "eInactive", "eInactivateState"},
   m_hNext : BOOLEAN, m_allIds : Seq(Nat), m_nProcessed : Nat,
   m_bUpdated : BOOLEAN, m_bChanged : BOOLEAN, m_bRead : BOOLEAN,
   data : [Pins -> Nat], seq : SUBSET Pins, buff : Outputs_]

Reasons == {"eActivateState", "eInactivateState", "eRecover", "ePreWrite", "ePostWrite",
            "ePostRead"}

\* What a call of DoWork does to an ADC's queue, thread and id.
LEMMA ADCDoes ==
  ASSUME NEW a \in ADCType, NEW why \in Reasons, NEW bConfigureADC \in BOOLEAN,
         NEW configured \in BOOLEAN, NEW block \in Nat,
         NEW w, w = ADCDoWork(a, why, bConfigureADC, configured, block)
  PROVE  /\ w \in ADCType /\ w.psRead = a.psRead /\ w.pc = a.pc /\ w.llId = a.llId
         /\ w.m_apsReadIdx = IF why = "ePostRead" /\ a.m_eState = "eActive"
                             THEN Append(a.m_apsReadIdx, block) ELSE a.m_apsReadIdx
         /\ w.m_llId = IF why = "eInactivateState" THEN 0 ELSE a.m_llId
<1> USE DEF ADCType
<1>1. CASE why = "eActivateState"
  BY <1>1 DEF ADCDoWork
<1>2. CASE why = "eInactivateState"
  BY <1>2 DEF ADCDoWork, Inactivated
<1>3. CASE why = "eRecover"
  <2>1. \/ w = [a EXCEPT !.m_eState = "eActivateState", !.m_eConfigState = "eConfigStart",
                         !.m_ucBitOutput = FALSE]
        \/ w = a
    BY <1>3 DEF ADCDoWork, Recovered
  <2> QED BY <1>3, <2>1
<1>4. CASE why = "ePreWrite"
  <2>1. w = ADCPreWrite(a)
    BY <1>4 DEF ADCDoWork
  <2>2. \/ w = [a EXCEPT !.due = FALSE]
        \/ w = [a EXCEPT !.m_ucBitOutput = FALSE, !.m_eConfigState = "eConfigDone",
                         !.m_eState = "eInactive", !.m_hNext = FALSE]
        \/ w = a
    BY <2>1 DEF ADCPreWrite
  <2> QED BY <1>4, <2>2
<1>5. CASE why = "ePostWrite"
  BY <1>5 DEF ADCDoWork, ADCPostWrite
<1>6. CASE why = "ePostRead"
  <2>1. w = ADCPostRead(a, bConfigureADC, configured, block)
    BY <1>6 DEF ADCDoWork
  <2>2. CASE a.m_eState = "eActive"
    <3>1. w = Queued(a, block)
      BY <2>1, <2>2 DEF ADCPostRead
    <3>2. Append(a.m_apsReadIdx, block) \in Seq(Nat)
      BY AppendProperties
    <3> QED BY <1>6, <2>2, <3>1, <3>2 DEF Queued
  <2>3. CASE a.m_eState # "eActive"
    <3>1. NextConfig(a, bConfigureADC, configured) \in
            {"eConfigStart", "eConfigTO", "eConfigWrite", "eConfigDone"}
      BY DEF NextConfig
    <3>2. \/ w = [a EXCEPT !.m_ucBitOutput = FALSE, !.m_eState = "eActive"]
          \/ w = [a EXCEPT !.m_eConfigState = NextConfig(a, bConfigureADC, configured)]
          \/ w = a
      BY <2>1, <2>3 DEF ADCPostRead
    <3> HIDE DEF NextConfig
    <3> QED BY <1>6, <2>3, <3>1, <3>2
  <2> QED BY <2>2, <2>3
<1> QED BY <1>1, <1>2, <1>3, <1>4, <1>5, <1>6 DEF Reasons

\* Drop takes the first n off.
LEMMA DropIs ==
  ASSUME NEW ids \in Seq(Nat), NEW n \in Nat
  PROVE  /\ Drop(ids, n) \in Seq(Nat)
         /\ n <= Len(ids) => /\ Len(Drop(ids, n)) = Len(ids) - n
                             /\ \A k \in 1 .. Len(ids) - n : Drop(ids, n)[k] = ids[n + k]
<1>1. Len(ids) \in Nat /\ \A k \in n + 1 .. Len(ids) : ids[k] \in Nat
  BY LenProperties, ElementOfSeq
<1>2. /\ SubSeq(ids, n + 1, Len(ids)) \in Seq(Nat)
      /\ Len(SubSeq(ids, n + 1, Len(ids))) =
           IF n + 1 <= Len(ids) THEN Len(ids) - (n + 1) + 1 ELSE 0
      /\ \A k \in 1 .. Len(ids) - (n + 1) + 1 :
           SubSeq(ids, n + 1, Len(ids))[k] = ids[(n + 1) + k - 1]
  <2>1. n + 1 \in Int /\ Len(ids) \in Int
    BY <1>1
  <2> QED BY <1>1, <2>1, SubSeqProperties
<1>3. Len(ids) - (n + 1) + 1 = Len(ids) - n /\ \A k \in Nat : (n + 1) + k - 1 = n + k
  BY <1>1
<1>4. ASSUME n <= Len(ids)
      PROVE  /\ Len(Drop(ids, n)) = Len(ids) - n
             /\ \A k \in 1 .. Len(ids) - n : Drop(ids, n)[k] = ids[n + k]
  <2>1. Len(Drop(ids, n)) = Len(ids) - n
    BY <1>1, <1>2, <1>4 DEF Drop
  <2>2. \A k \in 1 .. Len(ids) - n : k \in Nat /\ Drop(ids, n)[k] = ids[n + k]
    BY <1>1, <1>2, <1>3 DEF Drop
  <2> QED BY <2>1, <2>2
<1> QED BY <1>2, <1>4 DEF Drop

\* Unmarked keeps each entry that is not marked, at a place of its own.
LEMMA UnmarkedIs ==
  ASSUME NEW ids \in Seq(Nat)
  PROVE  /\ Unmarked(ids) \in Seq(Nat)
         /\ \E at \in [1 .. Len(Unmarked(ids)) -> {k \in DOMAIN ids : ids[k] # 0}] :
              /\ \A n \in 1 .. Len(Unmarked(ids)) : Unmarked(ids)[n] = ids[at[n]]
              /\ \A m, n \in 1 .. Len(Unmarked(ids)) : at[m] = at[n] => m = n
              /\ \A k \in {j \in DOMAIN ids : ids[j] # 0} :
                   \E n \in 1 .. Len(Unmarked(ids)) : at[n] = k
<1> DEFINE left == {k \in DOMAIN ids : ids[k] # 0}
           Upto(k) == {j \in left : j <= k}
           N == Cardinality(left)
           place == [k \in left |-> Cardinality(Upto(k))]
           at == [n \in 1 .. N |-> CHOOSE k \in left : Cardinality(Upto(k)) = n]
<1>1. Len(ids) \in Nat /\ DOMAIN ids = 1 .. Len(ids) /\ \A k \in DOMAIN ids : ids[k] \in Nat
  BY LenProperties, ElementOfSeq
<1>2. left \subseteq 1 .. Len(ids) /\ \A k \in left : k \in Nat /\ ids[k] \in Nat
  BY <1>1
<1>3. IsFiniteSet(left) /\ N \in Nat
  <2>1. IsFiniteSet(1 .. Len(ids))
    BY <1>1, FS_Interval
  <2> HIDE DEF left
  <2> QED BY <1>2, <2>1, FS_Subset, FS_CardinalityType
<1>4. \A k \in left : /\ k \in Upto(k) /\ Upto(k) \subseteq left /\ IsFiniteSet(Upto(k))
                      /\ Cardinality(Upto(k)) \in 1 .. N
  <2> SUFFICES ASSUME NEW k \in left
               PROVE  /\ k \in Upto(k) /\ Upto(k) \subseteq left /\ IsFiniteSet(Upto(k))
                      /\ Cardinality(Upto(k)) \in 1 .. N
    OBVIOUS
  <2>1. k \in Upto(k) /\ Upto(k) \subseteq left
    BY <1>2
  <2> HIDE DEF left, Upto
  <2>2. IsFiniteSet(Upto(k)) /\ Cardinality(Upto(k)) <= N /\ Cardinality(Upto(k)) \in Nat
    BY <1>3, <2>1, FS_Subset, FS_CardinalityType
  <2>3. Cardinality(Upto(k)) # 0
    BY <2>1, <2>2, FS_EmptySet
  <2> QED BY <1>3, <2>1, <2>2, <2>3
<1>5. \A k, l \in left : Cardinality(Upto(k)) = Cardinality(Upto(l)) => k = l
  <2>1. ASSUME NEW k \in left, NEW l \in left, k < l
        PROVE  Cardinality(Upto(k)) # Cardinality(Upto(l))
    <3>1. Upto(k) \subseteq Upto(l) /\ Upto(k) # Upto(l)
      BY <1>2, <2>1
    <3>2. IsFiniteSet(Upto(l))
      BY <1>4
    <3> HIDE DEF Upto, left
    <3> QED BY <3>1, <3>2, FS_Subset
  <2>2. \A k, l \in left : k = l \/ k < l \/ l < k
    BY <1>2
  <2> HIDE DEF Upto, left
  <2> QED BY <2>1, <2>2
<1>6. \A n \in 1 .. N : \E k \in left : Cardinality(Upto(k)) = n
  <2>1. place \in [left -> 1 .. N]
    <3> HIDE DEF Upto, left, N
    <3> QED BY <1>4
  <2>2. \A k, l \in left : place[k] = place[l] => k = l
    <3> HIDE DEF Upto, left
    <3> QED BY <1>5
  <2>3. IsFiniteSet(1 .. N) /\ Cardinality(1 .. N) = N
    <3> HIDE DEF N
    <3>1. 1 \in Int /\ N \in Int
      BY <1>3
    <3>2. IsFiniteSet(1 .. N) /\ Cardinality(1 .. N) = IF 1 > N THEN 0 ELSE N - 1 + 1
      BY <3>1, FS_Interval
    <3> QED BY <1>3, <3>2
  <2>4. place \in Surjection(left, 1 .. N)
    <3>1. place \in Injection(left, 1 .. N)
      <4> HIDE DEF place, left, N
      <4> QED BY <2>1, <2>2 DEF Injection, IsInjective
    <3> HIDE DEF place, left
    <3> QED BY <2>3, <3>1, FS_Injection
  <2>5. \A n \in 1 .. N : \E k \in left : place[k] = n
    <3> HIDE DEF place, left, N
    <3> QED BY <2>4 DEF Surjection
  <2> HIDE DEF Upto, left, N
  <2> QED BY <2>5
<1>7. /\ at \in [1 .. N -> left]
      /\ \A n \in 1 .. N : Cardinality(Upto(at[n])) = n
  <2> HIDE DEF Upto, left, N
  <2> QED BY <1>6
<1>8. Unmarked(ids) = [n \in 1 .. N |-> ids[at[n]]]
  BY DEF Unmarked
<1> HIDE DEF at, Upto, place
<1>9. Unmarked(ids) \in Seq(Nat) /\ Len(Unmarked(ids)) = N
  <2> HIDE DEF left, N
  <2>1. \A n \in 1 .. N : at[n] \in left /\ ids[at[n]] \in Nat
    BY <1>2, <1>7
  <2>2. Unmarked(ids) \in [1 .. N -> Nat]
    BY <1>8, <2>1
  <2> QED BY <1>3, <2>2, SeqDef
<1>10. \A n \in 1 .. N : Unmarked(ids)[n] = ids[at[n]]
  BY <1>8
<1>11. \A m, n \in 1 .. N : at[m] = at[n] => m = n
  BY <1>7
<1>12. \A k \in left : \E n \in 1 .. N : at[n] = k
  <2> HIDE DEF left, N
  <2> SUFFICES ASSUME NEW k \in left PROVE \E n \in 1 .. N : at[n] = k
    OBVIOUS
  <2>1. PICK n \in 1 .. N : n = Cardinality(Upto(k))
    BY <1>4
  <2>2. at[n] \in left /\ Cardinality(Upto(at[n])) = Cardinality(Upto(k))
    BY <1>7, <2>1
  <2> QED BY <1>5, <2>2
<1> HIDE DEF N
<1>13. /\ Unmarked(ids) \in Seq(Nat) /\ Len(Unmarked(ids)) = N /\ at \in [1 .. N -> left]
       /\ \A n \in 1 .. N : Unmarked(ids)[n] = ids[at[n]]
  BY <1>7, <1>9, <1>10
<1>14. \E f \in [1 .. Len(Unmarked(ids)) -> left] :
         /\ \A n \in 1 .. Len(Unmarked(ids)) : Unmarked(ids)[n] = ids[f[n]]
         /\ \A m, n \in 1 .. Len(Unmarked(ids)) : f[m] = f[n] => m = n
         /\ \A k \in left : \E n \in 1 .. Len(Unmarked(ids)) : f[n] = k
  <2> HIDE DEF left
  <2> USE <1>13
  <2> WITNESS at \in [1 .. Len(Unmarked(ids)) -> left]
  <2>1. \A m, n \in 1 .. Len(Unmarked(ids)) : at[m] = at[n] => m = n
    BY <1>11, <1>13
  <2>2. \A k \in left : \E n \in 1 .. Len(Unmarked(ids)) : at[n] = k
    BY <1>12, <1>13
  <2> QED BY <1>13, <2>1, <2>2
<1> QED BY <1>9, <1>14

-----------------------------------------------------------------------------
(* Blocks *)

Request == [llId : Nat, nChan : Nat, pins : SUBSET Pins]

\* The ADCs that have block i queued or are extracting it.
Holders(i) ==
  {d \in ADCs : \/ dev[d].psRead = i
                \/ \E k \in DOMAIN dev[d].m_apsReadIdx : dev[d].m_apsReadIdx[k] = i}

Ended == {"exited", "terminated"}

\* An ADC's blocks are blocks of the ring, each only once; the thread has one
\* while it extracts; after the deletion none is queued.
Holding(a) ==
  /\ a \in ADCType
  /\ \A k \in DOMAIN a.m_apsReadIdx :
       a.m_apsReadIdx[k] \in DOMAIN nCount /\ a.m_apsReadIdx[k] # a.psRead
  /\ \A k, l \in DOMAIN a.m_apsReadIdx : a.m_apsReadIdx[k] = a.m_apsReadIdx[l] => k = l
  /\ a.psRead \in DOMAIN nCount \cup {0}
  /\ a.psRead # 0 => a.pc \in {"extract", "deleted"}
  /\ a.pc = "extract" => a.psRead # 0
  /\ deletePc = "deleted" => a.pc = "deleted" /\ a.m_apsReadIdx = <<>>

Stocked ==
  /\ inits \in Seq(Inits) /\ DOMAIN dev = Devices
  /\ requests \in Seq(Request) /\ nCount \in Seq(Nat)
  /\ \A d \in ADCs : Holding(dev[d])
  /\ \A i \in DOMAIN nCount : nCount[i] = Cardinality(Holders(i))
  /\ deletePc \in {"closed", "deleted"} => pc \in Ended
  /\ pc = "terminated" => deletePc \in {"closed", "deleted"}

\* Devices are numbers, few enough to count.
LEMMA DevicesFinite ==
  ASSUME inits \in Seq(Inits)
  PROVE  /\ Devices \subseteq Nat /\ IsFiniteSet(Devices) /\ IsFiniteSet(ADCs)
         /\ ADCs \subseteq Devices /\ Writers \subseteq Devices /\ Readers \subseteq Devices
         /\ ADCs \cap (Writers \cup Readers) = {} /\ Writers \cap Readers = {}
         /\ ADCs \cup Writers \cup Readers = Devices
         /\ \A d \in Devices : inits[d] \in Inits
<1>1. Len(inits) \in Nat /\ Devices = 1 .. Len(inits) /\ \A d \in Devices : inits[d] \in Inits
  BY LenProperties, ElementOfSeq DEF Devices
<1>2. IsFiniteSet(Devices)
  BY <1>1, FS_Interval
<1>3. ADCs \subseteq Devices /\ Writers \subseteq Devices /\ Readers \subseteq Devices
  BY DEF ADCs, Writers, Readers, Kind
<1>4. IsFiniteSet(ADCs)
  BY <1>2, <1>3, FS_Subset
<1>5. ADCs \cup Writers \cup Readers = Devices
  BY <1>1, <1>3, NeedIs DEF ADCs, Writers, Readers, Kind
<1>6. ADCs \cap (Writers \cup Readers) = {} /\ Writers \cap Readers = {}
  BY DEF ADCs, Writers, Readers, Kind
<1> QED BY <1>1, <1>2, <1>3, <1>4, <1>5, <1>6

LEMMA HoldersFinite ==
  ASSUME Stocked, NEW i
  PROVE  Holders(i) \subseteq ADCs /\ IsFiniteSet(Holders(i)) /\ IsFiniteSet(ADCs)
<1>1. Holders(i) \subseteq ADCs
  BY DEF Holders
<1>2. IsFiniteSet(ADCs)
  BY DevicesFinite DEF Stocked
<1> QED BY <1>1, <1>2, FS_Subset

\* GetFree gives a block that is not claimed, or the next of a ring that grows.
LEMMA GetFreeIs ==
  ASSUME NEW ring \in Seq(Nat)
  PROVE  /\ GetFree(ring) \in 0 .. Len(ring) + 1
         /\ GetFree(ring) \in 1 .. Len(ring) => ring[GetFree(ring)] = 0
<1>1. Len(ring) \in Nat /\ DOMAIN ring = 1 .. Len(ring)
  BY LenProperties
<1>2. CASE Unclaimed(ring) # {}
  <2>1. Unclaimed(ring) \in SUBSET Nat
    BY <1>1 DEF Unclaimed
  <2>2. \E i \in Unclaimed(ring) : \A j \in Unclaimed(ring) : i <= j
    BY <1>2, <2>1, Least
  <2>3. GetFree(ring) \in Unclaimed(ring)
    BY <1>2, <2>2 DEF GetFree
  <2> QED BY <1>1, <2>3 DEF Unclaimed
<1>3. CASE Unclaimed(ring) = {}
  BY <1>1, <1>3 DEF GetFree
<1> QED BY <1>2, <1>3

\* The step moves no block.
Keeps(w, a) ==
  /\ w \in ADCType /\ w.m_apsReadIdx = a.m_apsReadIdx /\ w.psRead = a.psRead
  /\ w.pc = "extract" <=> a.pc = "extract"
  /\ w.pc = "deleted" <=> a.pc = "deleted"

Still ==
  /\ UNCHANGED <<inits, nCount>> /\ DOMAIN dev' = Devices
  /\ \A d \in ADCs : Keeps(dev'[d], dev[d])
  /\ requests' \in Seq(Request)
  /\ deletePc' = "deleted" => deletePc = "deleted" \/ ADCs = {}
  /\ deletePc' \in {"closed", "deleted"} => pc' \in Ended
  /\ pc' = "terminated" => deletePc' \in {"closed", "deleted"}

LEMMA StillKeeps ==
  ASSUME Stocked, Still
  PROVE  Stocked'
<1>1. /\ inits' = inits /\ nCount' = nCount /\ Devices' = Devices /\ ADCs' = ADCs
      /\ \A d \in ADCs : Keeps(dev'[d], dev[d])
  BY DEF Still, Devices, ADCs, Kind
<1>2. \A i : Holders(i)' = Holders(i)
  BY <1>1 DEF Holders, Keeps
<1>3. \A d \in ADCs : Holding(dev[d])'
  <2> SUFFICES ASSUME NEW d \in ADCs PROVE Holding(dev[d])'
    OBVIOUS
  <2>1. Holding(dev[d]) /\ Keeps(dev'[d], dev[d])
    BY <1>1 DEF Stocked
  <2>2. deletePc' = "deleted" => deletePc = "deleted"
    BY DEF Still
  <2> QED BY <1>1, <2>1, <2>2 DEF Holding, Keeps
<1> QED BY <1>1, <1>2, <1>3 DEF Stocked, Still

\* Work calls DoWork of each device in ds.
LEMMA WorkIs ==
  ASSUME NEW ds, NEW why, NEW failed, NEW outcome,
         Work(ds, why, failed, outcome), UNCHANGED inits
  PROVE  /\ DOMAIN dev' = Devices /\ Devices' = Devices
         /\ \A d \in Devices : dev'[d] = IF d \in ds THEN DoWork(d, why, failed, outcome).dev ELSE dev[d]
<1>1. dev' = [d \in Devices |-> IF d \in ds THEN [e \in ds |-> DoWork(e, why, failed, outcome)][d].dev
                                ELSE dev[d]]
  BY DEF Work
<1>2. \A d \in Devices : dev'[d] = IF d \in ds THEN DoWork(d, why, failed, outcome).dev ELSE dev[d]
  BY <1>1
<1> QED BY <1>1, <1>2 DEF Devices

LEMMA WorkADC ==
  ASSUME Stocked, NEW why \in Reasons, NEW failed, NEW d \in ADCs,
         NEW outcome, NEW w, w = DoWork(d, why, failed, outcome).dev
  PROVE  /\ w \in ADCType /\ w.psRead = dev[d].psRead /\ w.pc = dev[d].pc
         /\ w.llId = dev[d].llId
         /\ w.m_apsReadIdx = IF why = "ePostRead" /\ dev[d].m_eState = "eActive"
                             THEN Append(dev[d].m_apsReadIdx, GetFree(nCount))
                             ELSE dev[d].m_apsReadIdx
         /\ w.m_llId = IF why = "eInactivateState" THEN 0 ELSE dev[d].m_llId
<1>1. inits[d].kind = "ADC" /\ inits[d] \in Inits
  BY DevicesFinite DEF Stocked, ADCs, Kind
<1>2. inits[d].bConfigureADC \in BOOLEAN
  BY <1>1 DEF Inits, MultiInits, PinInits, ADCInits
<1>3. PICK configured \in BOOLEAN :
        w = ADCDoWork(dev[d], why, inits[d].bConfigureADC, configured, GetFree(nCount))
  <2>1. w = ADCDoWork(dev[d], why, inits[d].bConfigureADC, d \in outcome.shown, GetFree(nCount))
    BY <1>1 DEF DoWork, Does
  <2>2. CASE d \in outcome.shown
    <3>1. w = ADCDoWork(dev[d], why, inits[d].bConfigureADC, TRUE, GetFree(nCount))
      BY <2>1, <2>2 DEF ADCDoWork, ADCPostRead, NextConfig
    <3> QED BY <3>1
  <2>3. CASE d \notin outcome.shown
    <3>1. w = ADCDoWork(dev[d], why, inits[d].bConfigureADC, FALSE, GetFree(nCount))
      BY <2>1, <2>3 DEF ADCDoWork, ADCPostRead, NextConfig
    <3> QED BY <3>1
  <2> QED BY <2>2, <2>3
<1>4. GetFree(nCount) \in Nat
  BY GetFreeIs, LenProperties DEF Stocked
<1>5. dev[d] \in ADCType
  BY DEF Stocked, Holding
<1> QED BY <1>2, <1>3, <1>4, <1>5, ADCDoes

LEMMA WorkStill ==
  ASSUME Stocked, NEW ds, NEW why \in Reasons \ {"ePostRead"}, NEW failed, NEW outcome,
         Work(ds, why, failed, outcome), UNCHANGED <<inits, nCount, requests, deletePc>>,
         pc \notin Ended, pc' \notin Ended
  PROVE  Still
<1>1. \A d \in ADCs : Keeps(dev'[d], dev[d])
  <2> SUFFICES ASSUME NEW d \in ADCs PROVE Keeps(dev'[d], dev[d])
    OBVIOUS
  <2>1. PICK w : w = DoWork(d, why, failed, outcome).dev
    OBVIOUS
  <2>2. Keeps(w, dev[d])
    BY <2>1, WorkADC DEF Keeps
  <2>3. Keeps(dev[d], dev[d])
    BY DEF Keeps, Stocked, Holding
  <2>4. dev'[d] = w \/ dev'[d] = dev[d]
    BY <2>1, WorkIs, DevicesFinite DEF Stocked
  <2> QED BY <2>2, <2>3, <2>4
<1> QED BY <1>1, WorkIs DEF Still, Stocked, Ended

\* What clients ask for moves no block.
LEMMA AskStill ==
  ASSUME Stocked, NEW c \in Clients, NEW d \in Devices,
         \/ \E request \in Writes : WriteData(c, d, request)
         \/ Trigger(c, d) \/ TriggerADC(c, d) \/ CancelRead(c, d)
  PROVE  Still
<1>1. UNCHANGED <<inits, nCount, deletePc, pc>>
  BY AskChanges DEF stopVars, threadVars
<1>2. /\ ADCs \cap (Writers \cup Readers) = {} /\ ADCs \subseteq Devices /\ d \in Nat /\ c \in Nat
      /\ Devices' = Devices
  BY <1>1, DevicesFinite, FTDIAssumption DEF Stocked, Clients, Devices
<1>3. requests' \in Seq(Request)
  <2>1. requests \in Seq(Request)
    BY DEF Stocked
  <2>2. CASE CancelRead(c, d)
    BY <2>1, <2>2 DEF CancelRead, clientVars
  <2>3. CASE ~CancelRead(c, d)
    <3>1. PICK pins \in SUBSET Pins :
            requests' = Append(requests, [llId |-> c, nChan |-> d, pins |-> pins])
      <4>1. CASE \E request \in Writes : WriteData(c, d, request)
        <5>1. PICK request \in Writes : WriteData(c, d, request)
          BY <4>1
        <5>2. request.pins \in SUBSET Pins
          BY FTDIAssumption
        <5> QED BY <5>1, <5>2 DEF WriteData, Asked
      <4>2. CASE Trigger(c, d) \/ TriggerADC(c, d)
        BY <4>2 DEF Trigger, TriggerADC, Asked
      <4> QED BY <2>3, <4>1, <4>2
    <3>2. [llId |-> c, nChan |-> d, pins |-> pins] \in Request
      BY <1>2 DEF Request
    <3> QED BY <2>1, <3>1, <3>2, AppendProperties
  <2> QED BY <2>2, <2>3
<1>4. \A e \in ADCs : Keeps(dev[e], dev[e])
  BY DEF Keeps, Stocked, Holding
<1>5. DOMAIN dev' = Devices /\ \A e \in ADCs : Keeps(dev'[e], dev[e])
  <2>0. DOMAIN dev = Devices
    BY DEF Stocked
  <2>1. CASE d \in Writers \cup Readers /\ \E x : dev' = [dev EXCEPT ![d] = x]
    BY <1>2, <1>4, <2>0, <2>1
  <2>2. CASE TriggerADC(c, d)
    <3>1. PICK r : r = Len(requests) + 1
      OBVIOUS
    <3>2. d \in ADCs /\ dev' = [dev EXCEPT ![d] = ADCProcessData(dev[d], r)]
      BY <2>2, <3>1 DEF TriggerADC
    <3>3. r \in Nat /\ dev[d] \in ADCType
      BY <3>1, <3>2, LenProperties DEF Stocked, Holding
    <3>4. Keeps(ADCProcessData(dev[d], r), dev[d])
      <4>1. ADCProcessData(dev[d], r) \in {dev[d], [dev[d] EXCEPT !.m_llId = r]}
        BY DEF ADCProcessData
      <4> QED BY <3>3, <4>1 DEF Keeps, ADCType
    <3> QED BY <1>2, <1>4, <2>0, <3>2, <3>4
  <2>3. CASE \E request \in Writes : WriteData(c, d, request)
    BY <2>1, <2>3 DEF WriteData
  <2>4. CASE Trigger(c, d)
    BY <2>1, <2>4 DEF Trigger
  <2>5. CASE CancelRead(c, d)
    <3>1. d \in Readers
      BY <2>5 DEF CancelRead
    <3> QED BY <2>1, <2>5, <3>1 DEF CancelRead
  <2> QED BY <2>2, <2>3, <2>4, <2>5
<1> QED BY <1>1, <1>2, <1>3, <1>5 DEF Still, Stocked

\* Nor do most steps of the channel's thread.
LEMMA ThreadStill ==
  ASSUME Stocked,
         \/ WakeStop \/ Recover \/ PopUpdate \/ NoMoreUpdates \/ Reset
         \/ PreWrite \/ Write \/ Erase \/ RecoverFails \/ WriteFails
  PROVE  Still
<1> USE DEF clientVars, threadVars, stopVars, Wake, InUpdates, Reasons, Ended
<1>1. CASE Recover
  <2>1. PICK ds : ds = Devices
    OBVIOUS
  <2>2. Work(ds, "eRecover", FALSE, Nothing)
    BY <1>1, <2>1 DEF Recover, Work
  <2> QED BY <1>1, <2>2, WorkStill DEF Recover
<1>2. CASE PopUpdate
  <2>1. PICK ds : ds = {Head(m_asUpdates).nChan}
    OBVIOUS
  <2>2. PICK why \in {"eActivateState", "eInactivateState"} : Work(ds, why, FALSE, Nothing)
    BY <1>2, <2>1 DEF PopUpdate, Work
  <2> QED BY <1>2, <2>2, WorkStill DEF PopUpdate
<1>3. CASE PreWrite
  <2>1. PICK ds : ds = Devices
    OBVIOUS
  <2>2. Work(ds, "ePreWrite", FALSE, Nothing)
    BY <1>3, <2>1 DEF PreWrite, Work
  <2> QED BY <1>3, <2>2, WorkStill DEF PreWrite
<1>4. CASE Write \/ WriteFails
  <2>1. PICK ds : ds = Devices
    OBVIOUS
  <2>2. \E failed \in BOOLEAN : Work(ds, "ePostWrite", failed, Nothing)
    BY <1>4, <2>1 DEF Write, WriteFails, Work
  <2> QED BY <1>4, <2>2, WorkStill DEF Write, WriteFails
<1>5. \A d \in ADCs : Keeps(dev[d], dev[d])
  BY DEF Keeps, Stocked, Holding
<1>6. CASE WakeStop \/ NoMoreUpdates \/ Reset \/ RecoverFails
  <2>1. /\ UNCHANGED <<inits, nCount, requests, dev, deletePc>>
        /\ pc \notin Ended /\ pc' # "terminated"
    BY <1>6 DEF WakeStop, NoMoreUpdates, Reset, RecoverFails
  <2> QED BY <1>5, <2>1 DEF Still, Stocked, Devices
<1>7. CASE Erase
  <2>1. /\ UNCHANGED <<inits, nCount, requests, deletePc>>
        /\ pc \notin Ended /\ pc' \notin Ended /\ DOMAIN dev' = Devices
        /\ \A d \in Devices : inits[d].kind = "ADC" => dev'[d] = dev[d]
    BY <1>7 DEF Erase
  <2>2. \A d \in ADCs : dev'[d] = dev[d]
    BY <2>1 DEF ADCs, Kind
  <2> QED BY <1>5, <2>1, <2>2 DEF Still, Stocked
<1> QED BY <1>1, <1>2, <1>3, <1>4, <1>6, <1>7

LEMMA ADCFlags ==
  ASSUME NEW a \in ADCType
  PROVE  /\ a.pc = "wait" => Keeps([a EXCEPT !.pc = "exited"], a)
         /\ Keeps([a EXCEPT !.due = TRUE], a)
         /\ Keeps([a EXCEPT !.m_hThreadClose = TRUE], a)
<1>1. a.pc = "wait" => Keeps([a EXCEPT !.pc = "exited"], a)
  BY DEF Keeps, ADCType
<1>2. Keeps([a EXCEPT !.due = TRUE], a)
  BY DEF Keeps, ADCType
<1>3. Keeps([a EXCEPT !.m_hThreadClose = TRUE], a)
  BY DEF Keeps, ADCType
<1> QED BY <1>1, <1>2, <1>3

\* Nor those of others that change no queue.
LEMMA OthersStill ==
  ASSUME Stocked,
         \/ \E d \in Devices, on \in BOOLEAN : ActivateOrInactivate(d, on)
         \/ \E c \in Clients : Leave(c)
         \/ Delete \/ StopThread \/ UNCHANGED vars
         \/ \E d \in Devices : ADCSend(d) \/ ADCStop(d) \/ ADCDue(d)
  PROVE  Still
<1> USE DEF clientVars, threadVars, stopVars
<1>1. \A d \in ADCs : Keeps(dev[d], dev[d])
  BY DEF Keeps, Stocked, Holding
<1>2. CASE \E d \in Devices, on \in BOOLEAN : ActivateOrInactivate(d, on)
  BY <1>1, <1>2 DEF ActivateOrInactivate, CommOpen, Still, Stocked, Devices
<1>3. CASE \E c \in Clients : Leave(c)
  BY <1>1, <1>3 DEF Leave, CommOpen, Still, Stocked, Devices
<1>4. CASE UNCHANGED vars
  BY <1>1, <1>4 DEF vars, Still, Stocked, Devices
<1>5. CASE Delete
  BY <1>1, <1>5 DEF Delete, DeleteUnchanged, Still, Stocked, Devices
<1>6. CASE StopThread
  <2>1. /\ UNCHANGED <<inits, nCount, requests>> /\ DOMAIN dev' = Devices /\ pc' \in Ended
        /\ deletePc' = IF ADCs = {} THEN "deleted" ELSE "closed"
        /\ \A d \in ADCs : d \in Devices => dev'[d] = [dev[d] EXCEPT !.m_hThreadClose = TRUE]
    BY <1>6 DEF StopThread, DeleteUnchanged, Ended
  <2>2. \A d \in ADCs : d \in Devices /\ dev[d] \in ADCType
    BY DevicesFinite DEF Stocked, Holding
  <2>3. \A d \in ADCs : Keeps(dev'[d], dev[d])
    BY <2>1, <2>2, ADCFlags
  <2> QED BY <2>1, <2>3 DEF Still, Stocked
<1>7. CASE \E d \in Devices : ADCStop(d) \/ ADCDue(d)
  <2>1. PICK d \in Devices : ADCStop(d) \/ ADCDue(d)
    BY <1>7
  <2>2. /\ UNCHANGED <<inits, nCount, requests, deletePc, pc>> /\ d \in ADCs
        /\ \/ /\ dev[d].pc = "wait" /\ dev' = [dev EXCEPT ![d] = [dev[d] EXCEPT !.pc = "exited"]]
           \/ dev' = [dev EXCEPT ![d] = [dev[d] EXCEPT !.due = TRUE]]
    BY <2>1 DEF ADCStop, ADCStops, ADCDue, ADCUnchanged
  <2>3. dev[d] \in ADCType /\ DOMAIN dev = Devices
    BY <2>2 DEF Stocked, Holding
  <2>4. \E w : dev' = [dev EXCEPT ![d] = w] /\ Keeps(w, dev[d])
    BY <2>2, <2>3, ADCFlags
  <2>5. \A e \in ADCs : Keeps(dev'[e], dev[e])
    BY <1>1, <2>1, <2>3, <2>4, DevicesFinite DEF Stocked
  <2> QED BY <2>2, <2>3, <2>4, <2>5 DEF Still, Stocked
<1>8. CASE \E d \in Devices : ADCSend(d)
  <2>1. UNCHANGED <<inits, nCount, requests, dev, deletePc, pc>>
    BY <1>8 DEF ADCSend, ADCUnchanged
  <2> QED BY <1>1, <2>1 DEF Still, Stocked, Devices
<1> QED BY <1>2, <1>3, <1>4, <1>5, <1>6, <1>7, <1>8

\* The ring with the block that GetFree gives.
LEMMA GrownIs ==
  ASSUME Stocked, NEW g, g = GetFree(nCount), g # 0, NEW ring, ring = Grown(nCount, g)
  PROVE  /\ ring \in Seq(Nat) /\ DOMAIN nCount \subseteq DOMAIN ring
         /\ g \in DOMAIN ring /\ Holders(g) = {}
         /\ \A i \in DOMAIN ring : ring[i] = Cardinality(Holders(i))
         /\ 0 \notin DOMAIN ring
<1>1. /\ nCount \in Seq(Nat) /\ Len(nCount) \in Nat /\ DOMAIN nCount = 1 .. Len(nCount)
      /\ g \in 1 .. Len(nCount) + 1 /\ (g \in 1 .. Len(nCount) => nCount[g] = 0)
  BY GetFreeIs, LenProperties DEF Stocked
<1>2. \A i \in DOMAIN nCount : nCount[i] = Cardinality(Holders(i))
  BY DEF Stocked
<1>3. CASE g \in 1 .. Len(nCount)
  <2>1. ring = nCount
    <3>1. ~(g > Len(nCount))
      BY <1>1, <1>3
    <3> QED BY <3>1 DEF Grown
  <2>2. Holders(g) = {}
    BY <1>1, <1>2, <1>3, HoldersFinite, FS_EmptySet
  <2> QED BY <1>1, <1>2, <1>3, <2>1, <2>2
<1>4. CASE g = Len(nCount) + 1
  <2>1. ring = Append(nCount, 0)
    <3>1. g > Len(nCount)
      BY <1>1, <1>4
    <3> QED BY <3>1 DEF Grown
  <2>2. /\ ring \in Seq(Nat) /\ Len(ring) = Len(nCount) + 1 /\ ring[Len(nCount) + 1] = 0
        /\ \A i \in 1 .. Len(nCount) : ring[i] = nCount[i]
    BY <1>1, <2>1, AppendProperties
  <2>3. DOMAIN ring = 1 .. Len(nCount) + 1
    BY <2>2, LenProperties
  <2>4. g \notin DOMAIN nCount
    BY <1>1, <1>4
  <2>5. Holders(g) = {}
    <3> SUFFICES ASSUME NEW d \in Holders(g) PROVE FALSE
      OBVIOUS
    <3>1. Holding(dev[d])
      BY DEF Holders, Stocked
    <3> QED BY <1>1, <2>4, <3>1 DEF Holders, Holding
  <2>6. \A i \in DOMAIN ring : ring[i] = Cardinality(Holders(i))
    <3> SUFFICES ASSUME NEW i \in DOMAIN ring PROVE ring[i] = Cardinality(Holders(i))
      OBVIOUS
    <3>1. CASE i = g
      BY <1>4, <2>2, <2>5, <3>1, FS_EmptySet
    <3>2. CASE i # g
      <4>1. i \in 1 .. Len(nCount)
        BY <1>1, <1>4, <2>3, <3>2
      <4> QED BY <1>1, <1>2, <2>2, <4>1
    <3> QED BY <3>1, <3>2
  <2> QED BY <1>1, <1>4, <2>2, <2>3, <2>5, <2>6
<1> QED BY <1>1, <1>3, <1>4

\* A read that fails may leave a block nobody wants.
LEMMA ReadFailsStocked ==
  ASSUME Stocked, ReadFails
  PROVE  Stocked'
<1>1. PICK g : g = GetFree(nCount)
  OBVIOUS
<1>2. /\ UNCHANGED <<inits, requests, dev, deletePc>> /\ pc = "read"
      /\ g # 0 /\ nCount' = Grown(nCount, g)
  BY <1>1 DEF ReadFails, clientVars, stopVars
<1>3. Devices' = Devices /\ ADCs' = ADCs /\ \A i : Holders(i)' = Holders(i)
  BY <1>2 DEF Devices, ADCs, Kind, Holders
<1>4. PICK ring : ring = Grown(nCount, g)
  OBVIOUS
<1>5. /\ ring \in Seq(Nat) /\ DOMAIN nCount \subseteq DOMAIN ring
      /\ \A i \in DOMAIN ring : ring[i] = Cardinality(Holders(i))
  BY <1>1, <1>2, <1>4, GrownIs
<1>6. \A d \in ADCs : Holding(dev[d])'
  BY <1>2, <1>3, <1>4, <1>5 DEF Stocked, Holding
<1>7. deletePc \notin {"closed", "deleted"} /\ pc' = "wait"
  BY <1>2 DEF Stocked, Ended, ReadFails
<1> QED BY <1>2, <1>3, <1>4, <1>5, <1>6, <1>7 DEF Stocked

\* A block that was read is claimed by the ADCs that queue it, all the active.
LEMMA ReadStocked ==
  ASSUME Stocked, NEW outcome, ReadPort(outcome)
  PROVE  Stocked'
<1> DEFINE active == {d \in ADCs : ClaimsBlock(dev[d])}
<1>1. PICK g : g = GetFree(nCount)
  OBVIOUS
<1>2. PICK ring : ring = Grown(nCount, g)
  OBVIOUS
<1>3. PICK ds : ds = Devices
  OBVIOUS
<1>4. /\ UNCHANGED <<inits, requests, deletePc>> /\ pc = "read" /\ g # 0
      /\ nCount' = Claimed(ring, g, Cardinality(active))
      /\ Work(ds, "ePostRead", FALSE, outcome) /\ pc' = "erase"
  BY <1>1, <1>2, <1>3 DEF ReadPort, clientVars, stopVars, Work
<1>5. /\ ring \in Seq(Nat) /\ DOMAIN nCount \subseteq DOMAIN ring
      /\ g \in DOMAIN ring /\ Holders(g) = {}
      /\ \A i \in DOMAIN ring : ring[i] = Cardinality(Holders(i))
      /\ 0 \notin DOMAIN ring
  BY <1>1, <1>2, <1>4, GrownIs
<1>6. Devices' = Devices /\ ADCs' = ADCs /\ ADCs \subseteq Devices /\ IsFiniteSet(ADCs)
  BY <1>4, DevicesFinite DEF Devices, ADCs, Kind, Stocked
<1>7. /\ DOMAIN dev' = Devices
      /\ \A d \in ADCs :
           /\ dev'[d] \in ADCType /\ dev'[d].psRead = dev[d].psRead /\ dev'[d].pc = dev[d].pc
           /\ dev'[d].m_apsReadIdx = IF d \in active THEN Append(dev[d].m_apsReadIdx, g)
                                     ELSE dev[d].m_apsReadIdx
  <2>1. DOMAIN dev' = Devices
    BY <1>4, WorkIs
  <2>2. ASSUME NEW d \in ADCs
        PROVE  /\ dev'[d] \in ADCType /\ dev'[d].psRead = dev[d].psRead
               /\ dev'[d].pc = dev[d].pc
               /\ dev'[d].m_apsReadIdx = IF d \in active THEN Append(dev[d].m_apsReadIdx, g)
                                         ELSE dev[d].m_apsReadIdx
    <3>3. PICK why : why = "ePostRead"
      OBVIOUS
    <3>1. PICK w : w = DoWork(d, why, FALSE, outcome).dev
      OBVIOUS
    <3>2. dev'[d] = w
      <4>1. Work(ds, why, FALSE, outcome)
        BY <1>4, <3>3
      <4>2. UNCHANGED inits
        BY <1>4
      <4>3. dev'[d] = IF d \in ds THEN DoWork(d, why, FALSE, outcome).dev ELSE dev[d]
        BY <1>6, <4>1, <4>2, WorkIs
      <4> QED BY <1>3, <1>6, <3>1, <4>3
    <3>4. why \in Reasons
      BY <3>3 DEF Reasons
    <3>5. /\ w \in ADCType /\ w.psRead = dev[d].psRead /\ w.pc = dev[d].pc
          /\ w.m_apsReadIdx = IF dev[d].m_eState = "eActive"
                              THEN Append(dev[d].m_apsReadIdx, g)
                              ELSE dev[d].m_apsReadIdx
      <4>1. PICK failed : failed = FALSE
        OBVIOUS
      <4>2. w = DoWork(d, why, failed, outcome).dev
        BY <3>1, <4>1
      <4>3. /\ w \in ADCType /\ w.psRead = dev[d].psRead /\ w.pc = dev[d].pc
            /\ w.m_apsReadIdx = IF why = "ePostRead" /\ dev[d].m_eState = "eActive"
                                THEN Append(dev[d].m_apsReadIdx, GetFree(nCount))
                                ELSE dev[d].m_apsReadIdx
        BY <3>4, <4>2, WorkADC
      <4> QED BY <1>1, <3>3, <4>3
    <3> QED BY <3>2, <3>5 DEF ClaimsBlock
  <2> QED BY <2>1, <2>2
<1>8. \A d \in ADCs : /\ dev[d].m_apsReadIdx \in Seq(Nat)
                      /\ Len(dev[d].m_apsReadIdx) \in Nat
                      /\ DOMAIN dev[d].m_apsReadIdx = 1 .. Len(dev[d].m_apsReadIdx)
                      /\ \A k \in DOMAIN dev[d].m_apsReadIdx :
                           dev[d].m_apsReadIdx[k] \in DOMAIN nCount
                           /\ dev[d].m_apsReadIdx[k] # g
                      /\ dev[d].psRead # g
  <2> SUFFICES ASSUME NEW d \in ADCs
               PROVE  /\ dev[d].m_apsReadIdx \in Seq(Nat)
                      /\ Len(dev[d].m_apsReadIdx) \in Nat
                      /\ DOMAIN dev[d].m_apsReadIdx = 1 .. Len(dev[d].m_apsReadIdx)
                      /\ \A k \in DOMAIN dev[d].m_apsReadIdx :
                           dev[d].m_apsReadIdx[k] \in DOMAIN nCount
                           /\ dev[d].m_apsReadIdx[k] # g
                      /\ dev[d].psRead # g
    OBVIOUS
  <2>1. Holding(dev[d]) /\ d \notin Holders(g)
    BY <1>5 DEF Stocked
  <2>2. dev[d].m_apsReadIdx \in Seq(Nat)
    BY <2>1 DEF Holding, ADCType
  <2>3. /\ Len(dev[d].m_apsReadIdx) \in Nat
        /\ DOMAIN dev[d].m_apsReadIdx = 1 .. Len(dev[d].m_apsReadIdx)
    BY <2>2, LenProperties
  <2>4. \A k \in DOMAIN dev[d].m_apsReadIdx : dev[d].m_apsReadIdx[k] \in DOMAIN nCount
    BY <2>1 DEF Holding
  <2>5. /\ \A k \in DOMAIN dev[d].m_apsReadIdx : dev[d].m_apsReadIdx[k] # g
        /\ dev[d].psRead # g
    BY <2>1 DEF Holders
  <2> QED BY <2>2, <2>3, <2>4, <2>5
<1>9. \A d \in ADCs :
        /\ d \in active =>
             /\ DOMAIN dev'[d].m_apsReadIdx = 1 .. Len(dev[d].m_apsReadIdx) + 1
             /\ dev'[d].m_apsReadIdx[Len(dev[d].m_apsReadIdx) + 1] = g
             /\ \A k \in DOMAIN dev[d].m_apsReadIdx :
                  dev'[d].m_apsReadIdx[k] = dev[d].m_apsReadIdx[k]
        /\ d \notin active => dev'[d].m_apsReadIdx = dev[d].m_apsReadIdx
  <2> SUFFICES ASSUME NEW d \in ADCs
               PROVE  /\ d \in active =>
                           /\ DOMAIN dev'[d].m_apsReadIdx = 1 .. Len(dev[d].m_apsReadIdx) + 1
                           /\ dev'[d].m_apsReadIdx[Len(dev[d].m_apsReadIdx) + 1] = g
                           /\ \A k \in DOMAIN dev[d].m_apsReadIdx :
                                dev'[d].m_apsReadIdx[k] = dev[d].m_apsReadIdx[k]
                      /\ d \notin active => dev'[d].m_apsReadIdx = dev[d].m_apsReadIdx
    OBVIOUS
  <2>1. PICK q \in Seq(Nat) : q = dev[d].m_apsReadIdx
    BY <1>8
  <2>2. g \in Nat
    BY <1>5, LenProperties
  <2>3. CASE d \in active
    <3>1. dev'[d].m_apsReadIdx = Append(q, g)
      BY <1>7, <2>1, <2>3
    <3>2. /\ Append(q, g) \in Seq(Nat) /\ Len(Append(q, g)) = Len(q) + 1
          /\ \A k \in 1 .. Len(q) : Append(q, g)[k] = q[k]
          /\ Append(q, g)[Len(q) + 1] = g
      BY <2>2, AppendProperties
    <3>3. DOMAIN Append(q, g) = 1 .. Len(q) + 1 /\ DOMAIN q = 1 .. Len(q)
      BY <3>2, LenProperties
    <3> QED BY <2>1, <2>3, <3>1, <3>2, <3>3
  <2>4. CASE d \notin active
    BY <1>7, <2>4
  <2> QED BY <2>3, <2>4
<1>10. Holders(g)' = active /\ \A i \in DOMAIN ring : i # g => Holders(i)' = Holders(i)
  <2>1. \A d \in ADCs : d \in Holders(g)' <=> d \in active
    <3> SUFFICES ASSUME NEW d \in ADCs PROVE d \in Holders(g)' <=> d \in active
      OBVIOUS
    <3>1. CASE d \in active
      <4>1. Len(dev[d].m_apsReadIdx) + 1 \in DOMAIN dev'[d].m_apsReadIdx
        BY <1>8, <1>9, <3>1
      <4>2. d \in Holders(g)'
        BY <1>1, <1>6, <1>9, <3>1, <4>1 DEF Holders
      <4> QED BY <3>1, <4>2
    <3>2. CASE d \notin active
      BY <1>6, <1>7, <1>8, <1>9, <3>2 DEF Holders
    <3> QED BY <3>1, <3>2
  <2>2. ASSUME NEW i \in DOMAIN ring, i # g, NEW d \in ADCs
        PROVE  d \in Holders(i)' <=> d \in Holders(i)
    <3>1. (\E k \in DOMAIN dev'[d].m_apsReadIdx : dev'[d].m_apsReadIdx[k] = i)
            <=> \E k \in DOMAIN dev[d].m_apsReadIdx : dev[d].m_apsReadIdx[k] = i
      <4>1. CASE d \in active
        <5>1. \A k \in DOMAIN dev'[d].m_apsReadIdx :
                k \in DOMAIN dev[d].m_apsReadIdx \/ k = Len(dev[d].m_apsReadIdx) + 1
          BY <1>8, <1>9, <4>1
        <5>2. DOMAIN dev[d].m_apsReadIdx \subseteq DOMAIN dev'[d].m_apsReadIdx
          BY <1>8, <1>9, <4>1
        <5> QED BY <1>9, <2>2, <4>1, <5>1, <5>2
      <4>2. CASE d \notin active
        BY <1>9, <4>2
      <4> QED BY <4>1, <4>2
    <3>2. dev'[d].psRead = dev[d].psRead
      BY <1>7
    <3> QED BY <1>6, <3>1, <3>2 DEF Holders
  <2>3. Holders(g)' \subseteq ADCs /\ active \subseteq ADCs
    BY <1>6 DEF Holders
  <2>4. \A i : Holders(i)' \subseteq ADCs /\ Holders(i) \subseteq ADCs
    BY <1>6 DEF Holders
  <2> HIDE DEF active
  <2> QED BY <2>1, <2>2, <2>3, <2>4
<1>11. /\ nCount' \in Seq(Nat) /\ DOMAIN nCount' = DOMAIN ring
       /\ \A i \in DOMAIN nCount' : nCount'[i] = Cardinality(Holders(i)')
  <2>1. Cardinality(active) \in Nat /\ ring[g] = 0
    <3>1. IsFiniteSet(active)
      BY <1>6, FS_Subset
    <3> QED BY <1>5, <3>1, FS_CardinalityType, FS_EmptySet
  <2> HIDE DEF active
  <2>2. nCount' = [ring EXCEPT ![g] = Cardinality(active)]
    <3>1. PICK n \in Nat : n = Cardinality(active)
      BY <2>1
    <3>2. nCount' = [ring EXCEPT ![g] = ring[g] + n]
      BY <1>4, <1>5, <3>1 DEF Claimed
    <3>3. ring[g] + n = n
      BY <2>1
    <3> QED BY <3>1, <3>2, <3>3
  <2>3. nCount' \in Seq(Nat)
    BY <1>5, <2>1, <2>2, ExceptSeq
  <2>4. DOMAIN nCount' = DOMAIN ring
    BY <2>2
  <2> QED BY <1>5, <1>10, <2>2, <2>3, <2>4
<1>12. \A d \in ADCs : Holding(dev[d])'
  <2> SUFFICES ASSUME NEW d \in ADCs PROVE Holding(dev[d])'
    OBVIOUS
  <2>1. Holding(dev[d]) /\ deletePc' # "deleted" /\ deletePc # "deleted"
    BY <1>4 DEF Stocked, Ended
  <2>2. dev[d].psRead \in DOMAIN nCount' \cup {0}
    BY <1>5, <1>11, <2>1 DEF Holding
  <2>3. dev[d].psRead # g /\ dev'[d].psRead = dev[d].psRead /\ dev'[d].pc = dev[d].pc
    BY <1>7, <1>8
  <2>4. CASE d \notin active
    BY <1>4, <1>5, <1>7, <1>9, <1>11, <2>1, <2>2, <2>3, <2>4 DEF Holding
  <2>5. CASE d \in active
    <3>1. \A k \in DOMAIN dev'[d].m_apsReadIdx :
            \/ /\ k \in DOMAIN dev[d].m_apsReadIdx
               /\ dev'[d].m_apsReadIdx[k] = dev[d].m_apsReadIdx[k]
            \/ k = Len(dev[d].m_apsReadIdx) + 1 /\ dev'[d].m_apsReadIdx[k] = g
      BY <1>8, <1>9, <2>5
    <3>2. \A k \in DOMAIN dev'[d].m_apsReadIdx :
            /\ dev'[d].m_apsReadIdx[k] \in DOMAIN nCount'
            /\ dev'[d].m_apsReadIdx[k] # dev'[d].psRead
      BY <1>5, <1>8, <1>11, <2>1, <2>3, <3>1 DEF Holding
    <3>3. \A k, l \in DOMAIN dev'[d].m_apsReadIdx :
            dev'[d].m_apsReadIdx[k] = dev'[d].m_apsReadIdx[l] => k = l
      BY <1>8, <2>1, <3>1 DEF Holding
    <3> QED BY <1>7, <2>1, <2>2, <2>3, <3>2, <3>3 DEF Holding
  <2> QED BY <2>4, <2>5
<1>13. /\ ADCs' = ADCs /\ Devices' = Devices /\ deletePc' = deletePc
       /\ deletePc \notin {"closed", "deleted"}
  BY <1>4, <1>6 DEF Stocked, Ended
<1> HIDE DEF active
<1> QED BY <1>4, <1>7, <1>11, <1>12, <1>13 DEF Stocked

\* The block an ADC takes off its queue is the one it extracts.
LEMMA TakeStocked ==
  ASSUME Stocked, NEW d \in Devices, ADCTake(d)
  PROVE  Stocked'
<1>1. /\ UNCHANGED <<inits, requests, nCount, deletePc, pc>> /\ d \in ADCs
      /\ dev' = [dev EXCEPT ![d] = ADCWithBlock(dev[d])] /\ dev[d].pc = "wait"
  BY DEF ADCTake, ADCTakesBlock, ADCUnchanged, clientVars, stopVars, threadVars
<1>2. /\ Holding(dev[d]) /\ DOMAIN dev = Devices /\ d \in Devices
      /\ Devices' = Devices /\ ADCs' = ADCs /\ ADCs \subseteq Devices
      /\ \A e \in Devices : dev'[e] = IF e = d THEN ADCWithBlock(dev[d]) ELSE dev[e]
      /\ DOMAIN dev' = Devices
  BY <1>1, DevicesFinite DEF Stocked, Devices, ADCs, Kind
<1>3. PICK a \in ADCType : a = dev[d]
  BY <1>2 DEF Holding
<1>4. CASE a.m_apsReadIdx = <<>>
  <2>1. ADCWithBlock(a) = [a EXCEPT !.m_hProcessData = FALSE]
    BY <1>4 DEF ADCWithBlock
  <2>2. Keeps(ADCWithBlock(a), a)
    BY <2>1 DEF Keeps, ADCType
  <2>3. \A e \in ADCs : Keeps(dev[e], dev[e])
    BY DEF Keeps, Stocked, Holding
  <2>4. \A e \in ADCs : Keeps(dev'[e], dev[e])
    BY <1>2, <1>3, <2>2, <2>3
  <2>5. Still
    BY <1>1, <1>2, <2>4 DEF Still, Stocked
  <2> QED BY <2>5, StillKeeps
<1>5. CASE a.m_apsReadIdx # <<>>
  <2>1. PICK q \in Seq(Nat) : q = a.m_apsReadIdx
    BY DEF ADCType
  <2>2. PICK t : t = Tail(q)
    OBVIOUS
  <2>3. /\ Len(q) \in Nat /\ Len(q) > 0 /\ DOMAIN q = 1 .. Len(q)
        /\ Head(q) = q[1] /\ 1 \in DOMAIN q /\ q[1] \in Nat
        /\ t \in Seq(Nat) /\ DOMAIN t = 1 .. Len(q) - 1
        /\ \A k \in 1 .. Len(q) - 1 : t[k] = q[k + 1]
    <3>1. /\ Len(q) \in Nat /\ Len(q) > 0 /\ DOMAIN q = 1 .. Len(q)
          /\ Head(q) = q[1] /\ 1 \in DOMAIN q /\ Head(q) \in Nat
          /\ Tail(q) \in Seq(Nat) /\ Len(Tail(q)) = Len(q) - 1
          /\ \A k \in 1 .. Len(q) - 1 : Tail(q)[k] = q[k + 1]
      BY <1>5, <2>1, LenProperties, HeadTailProperties, EmptySeq
    <3>2. DOMAIN Tail(q) = 1 .. Len(q) - 1
      BY <3>1, LenProperties
    <3> QED BY <2>2, <3>1, <3>2
  <2>4. PICK w : w = [a EXCEPT !.psRead = q[1], !.m_apsReadIdx = t,
                               !.llId = a.m_llId, !.pc = "extract"]
    OBVIOUS
  <2>5. dev'[d] = w
    BY <1>2, <1>3, <1>5, <2>1, <2>2, <2>3, <2>4 DEF ADCWithBlock
  <2>6. /\ w \in ADCType /\ w.psRead = q[1] /\ w.m_apsReadIdx = t
        /\ w.pc = "extract"
    BY <2>3, <2>4 DEF ADCType
  <2>7. /\ \A k \in DOMAIN q : q[k] \in DOMAIN nCount
        /\ \A k, l \in DOMAIN q : q[k] = q[l] => k = l
        /\ a.psRead = 0 /\ 0 \notin DOMAIN nCount
        /\ deletePc # "deleted"
    <3>1. /\ a.psRead = 0 /\ deletePc # "deleted"
      BY <1>1, <1>2, <1>3 DEF Holding
    <3>2. 0 \notin DOMAIN nCount
      BY LenProperties DEF Stocked
    <3> QED BY <1>2, <1>3, <2>1, <3>1, <3>2 DEF Holding
  <2>8. \A k \in 1 .. Len(q) - 1 : k + 1 \in DOMAIN q /\ k + 1 # 1
    BY <2>3
  <2>9. \A k \in DOMAIN q : k = 1 \/ (k - 1 \in 1 .. Len(q) - 1 /\ (k - 1) + 1 = k)
    BY <2>3
  <2>10. \A i \in DOMAIN nCount : Holders(i)' = Holders(i)
    <3>1. ASSUME NEW i \in DOMAIN nCount
          PROVE  d \in Holders(i)' <=> d \in Holders(i)
      <4>1. d \in Holders(i) <=> \E k \in DOMAIN q : q[k] = i
        BY <1>1, <1>3, <2>1, <2>7 DEF Holders
      <4>2. d \in Holders(i)' <=>
              q[1] = i \/ \E k \in 1 .. Len(q) - 1 : q[k + 1] = i
        <5>1. d \in Holders(i)' <=> q[1] = i \/ \E k \in DOMAIN t : t[k] = i
          BY <1>1, <1>2, <2>5, <2>6 DEF Holders
        <5> QED BY <2>3, <5>1
      <4> QED BY <2>3, <2>8, <2>9, <4>1, <4>2
    <3>2. \A i : \A e \in ADCs : e # d => (e \in Holders(i)' <=> e \in Holders(i))
      BY <1>2 DEF Holders
    <3>3. \A i : Holders(i)' \subseteq ADCs /\ Holders(i) \subseteq ADCs
      BY <1>2 DEF Holders
    <3> SUFFICES ASSUME NEW i \in DOMAIN nCount PROVE Holders(i)' = Holders(i)
      OBVIOUS
    <3>4. \A e \in ADCs : e \in Holders(i)' <=> e \in Holders(i)
      BY <3>1, <3>2
    <3> QED BY <3>3, <3>4
  <2>11. \A e \in ADCs : Holding(dev[e])'
    <3>1. ASSUME NEW e \in ADCs, e # d PROVE Holding(dev[e])'
      BY <1>1, <1>2, <3>1 DEF Holding, Stocked
    <3>2. Holding(dev[d])'
      <4>1. \A k \in DOMAIN w.m_apsReadIdx :
              w.m_apsReadIdx[k] \in DOMAIN nCount /\ w.m_apsReadIdx[k] # w.psRead
        <5> SUFFICES ASSUME NEW k \in DOMAIN t
                     PROVE  t[k] \in DOMAIN nCount /\ t[k] # q[1]
          BY <2>6
        <5>1. PICK l : l = k + 1
          OBVIOUS
        <5>2. t[k] = q[l] /\ l \in DOMAIN q /\ l # 1
          BY <2>3, <2>8, <5>1
        <5>3. q[l] # q[1]
          BY <2>3, <2>7, <5>2
        <5> QED BY <2>7, <5>2, <5>3
      <4>2. \A k, l \in DOMAIN w.m_apsReadIdx :
              w.m_apsReadIdx[k] = w.m_apsReadIdx[l] => k = l
        <5> SUFFICES ASSUME NEW k \in DOMAIN t, NEW l \in DOMAIN t, t[k] = t[l]
                     PROVE  k = l
          BY <2>6
        <5>1. PICK m, n : m = k + 1 /\ n = l + 1
          OBVIOUS
        <5>2. t[k] = q[m] /\ m \in DOMAIN q /\ t[l] = q[n] /\ n \in DOMAIN q
          BY <2>3, <2>8, <5>1
        <5>3. m = n
          BY <2>7, <5>2
        <5> QED BY <2>3, <5>1, <5>3
      <4>3. w.psRead \in DOMAIN nCount /\ w.psRead # 0
        BY <2>3, <2>6, <2>7
      <4> QED BY <1>1, <2>5, <2>6, <2>7, <4>1, <4>2, <4>3 DEF Holding
    <3> QED BY <3>1, <3>2
  <2> QED BY <1>1, <1>2, <2>10, <2>11 DEF Stocked
<1> QED BY <1>4, <1>5

\* The block that was extracted goes back.
LEMMA ExtractStocked ==
  ASSUME Stocked, NEW d \in Devices, ADCExtracted(d)
  PROVE  Stocked'
<1>1. /\ UNCHANGED <<inits, requests, deletePc, pc>> /\ d \in ADCs
      /\ dev' = [dev EXCEPT ![d] = ADCWithoutBlock(dev[d])] /\ dev[d].pc = "extract"
      /\ nCount' = ReleaseIndex(nCount, dev[d].psRead)
  BY DEF ADCExtracted, ADCUnchanged, clientVars, stopVars, threadVars
<1>2. /\ Holding(dev[d]) /\ DOMAIN dev = Devices /\ d \in Devices
      /\ Devices' = Devices /\ ADCs' = ADCs /\ ADCs \subseteq Devices
      /\ \A e \in Devices : dev'[e] = IF e = d THEN ADCWithoutBlock(dev[d]) ELSE dev[e]
      /\ DOMAIN dev' = Devices
  BY <1>1, DevicesFinite DEF Stocked, Devices, ADCs, Kind
<1>3. PICK a \in ADCType : a = dev[d]
  BY <1>2 DEF Holding
<1>4. PICK b : b = a.psRead
  OBVIOUS
<1>5. b \in DOMAIN nCount /\ nCount \in Seq(Nat) /\ DOMAIN nCount = 1 .. Len(nCount)
      /\ 0 \notin DOMAIN nCount
  BY <1>1, <1>2, <1>3, <1>4, LenProperties DEF Holding, Stocked
<1>6. PICK w : w = ADCWithoutBlock(a)
  OBVIOUS
<1>7. /\ w \in ADCType /\ w.psRead = 0 /\ w.pc = "wait" /\ w.m_apsReadIdx = a.m_apsReadIdx
      /\ dev'[d] = w
  <2>1. w \in ADCType /\ w.psRead = 0 /\ w.pc = "wait" /\ w.m_apsReadIdx = a.m_apsReadIdx
    BY <1>6 DEF ADCWithoutBlock, ADCType
  <2> QED BY <1>2, <1>3, <1>6, <2>1
<1>8. /\ \A i \in DOMAIN nCount : i # b => Holders(i)' = Holders(i)
      /\ d \in Holders(b) /\ Holders(b)' = Holders(b) \ {d}
  <2>1. \A k \in DOMAIN a.m_apsReadIdx : a.m_apsReadIdx[k] # b
    BY <1>2, <1>3, <1>4 DEF Holding
  <2>2. \A i \in DOMAIN nCount : i # b => (d \in Holders(i)' <=> d \in Holders(i))
    BY <1>1, <1>2, <1>3, <1>4, <1>5, <1>7 DEF Holders
  <2>3. d \in Holders(b) /\ d \notin Holders(b)'
    BY <1>1, <1>2, <1>3, <1>4, <1>5, <1>7, <2>1 DEF Holders
  <2>4. \A i : \A e \in ADCs : e # d => (e \in Holders(i)' <=> e \in Holders(i))
    BY <1>2 DEF Holders
  <2>5. \A i : Holders(i)' \subseteq ADCs /\ Holders(i) \subseteq ADCs
    BY <1>2 DEF Holders
  <2> QED BY <2>2, <2>3, <2>4, <2>5
<1>9. /\ nCount' \in Seq(Nat) /\ DOMAIN nCount' = DOMAIN nCount
      /\ \A i \in DOMAIN nCount' : nCount'[i] = Cardinality(Holders(i)')
  <2>1. \A i \in DOMAIN nCount : nCount[i] = Cardinality(Holders(i)) /\ nCount[i] \in Nat
    BY <1>5, ElementOfSeq DEF Stocked
  <2>2. PICK n \in Nat : n = Cardinality(Holders(b)')
    <3>1. IsFiniteSet(Holders(b)) /\ Holders(b)' \subseteq Holders(b)
      BY <1>8, HoldersFinite
    <3>2. IsFiniteSet(Holders(b)')
      BY <3>1, FS_Subset
    <3> QED BY <3>2, FS_CardinalityType
  <2>3. n = nCount[b] - 1
    <3>1. IsFiniteSet(Holders(b))
      BY HoldersFinite
    <3>2. Cardinality(Holders(b) \ {d}) = Cardinality(Holders(b)) - 1
      BY <1>8, <3>1, FS_RemoveElement
    <3> QED BY <1>5, <1>8, <2>1, <2>2, <3>2
  <2>4. nCount' = [nCount EXCEPT ![b] = n]
    BY <1>1, <1>3, <1>4, <1>5, <2>3 DEF ReleaseIndex
  <2>5. nCount' \in Seq(Nat)
    BY <1>5, <2>4, ExceptSeq
  <2>6. DOMAIN nCount' = DOMAIN nCount
    BY <2>4
  <2>7. ASSUME NEW i \in DOMAIN nCount PROVE nCount'[i] = Cardinality(Holders(i)')
    <3>1. CASE i = b
      BY <1>5, <2>2, <2>4, <3>1
    <3>2. CASE i # b
      BY <1>8, <2>1, <2>4, <3>2
    <3> QED BY <3>1, <3>2
  <2> QED BY <2>5, <2>6, <2>7
<1>10. \A e \in ADCs : Holding(dev[e])'
  <2>1. ASSUME NEW e \in ADCs, e # d PROVE Holding(dev[e])'
    BY <1>1, <1>2, <1>9, <2>1 DEF Holding, Stocked
  <2>2. Holding(dev[d])'
    <3>1. Holding(a) /\ deletePc' = deletePc /\ DOMAIN nCount' = DOMAIN nCount
      BY <1>1, <1>2, <1>3, <1>9
    <3>2. deletePc # "deleted"
      BY <1>1, <1>3, <3>1 DEF Holding
    <3> QED BY <1>5, <1>7, <3>1, <3>2 DEF Holding
  <2> QED BY <2>1, <2>2
<1> QED BY <1>1, <1>2, <1>9, <1>10 DEF Stocked

\* How often a block is queued is by how many ADCs: each has it once.
Queuing(i) == {d \in ADCs : \E k \in DOMAIN dev[d].m_apsReadIdx : dev[d].m_apsReadIdx[k] = i}

LEMMA QueuedOnce ==
  ASSUME Stocked, NEW i
  PROVE  TimesQueued(i) = Cardinality(Queuing(i)) /\ IsFiniteSet(Queuing(i))
<1> DEFINE Pairs == UNION {{<<d, k>> : k \in {j \in DOMAIN dev[d].m_apsReadIdx :
                                         dev[d].m_apsReadIdx[j] = i}} : d \in ADCs}
           place == [d \in Queuing(i) |->
                       <<d, CHOOSE k \in DOMAIN dev[d].m_apsReadIdx :
                              dev[d].m_apsReadIdx[k] = i>>]
<1>1. IsFiniteSet(Queuing(i))
  <2>1. Queuing(i) \subseteq Holders(i)
    BY DEF Queuing, Holders
  <2> QED BY <2>1, HoldersFinite, FS_Subset
<1>2. \A d \in ADCs : \A k, l \in DOMAIN dev[d].m_apsReadIdx :
        dev[d].m_apsReadIdx[k] = i /\ dev[d].m_apsReadIdx[l] = i => k = l
  BY DEF Stocked, Holding
<1>3. \A d \in Queuing(i) : \A k \in DOMAIN dev[d].m_apsReadIdx :
        dev[d].m_apsReadIdx[k] = i => place[d] = <<d, k>>
  BY <1>2 DEF Queuing
<1>4. \A d \in Queuing(i) : d \in ADCs /\ \E k \in DOMAIN dev[d].m_apsReadIdx :
                              dev[d].m_apsReadIdx[k] = i
  BY DEF Queuing
<1>5. \A x : x \in Pairs <=> \E d \in ADCs : \E k \in DOMAIN dev[d].m_apsReadIdx :
                               dev[d].m_apsReadIdx[k] = i /\ x = <<d, k>>
  OBVIOUS
<1>6. DOMAIN place = Queuing(i) /\ place = [d \in Queuing(i) |-> place[d]]
  OBVIOUS
<1> HIDE DEF Pairs, place
<1>7. place \in [Queuing(i) -> Pairs]
  <2>1. ASSUME NEW d \in Queuing(i) PROVE place[d] \in Pairs
    <3>1. PICK k \in DOMAIN dev[d].m_apsReadIdx : dev[d].m_apsReadIdx[k] = i
      BY <1>4
    <3>2. place[d] = <<d, k>> /\ d \in ADCs
      BY <1>3, <1>4, <3>1
    <3> QED BY <1>5, <3>1, <3>2
  <2> QED BY <1>6, <2>1
<1>8. \A d, e \in Queuing(i) : place[d] = place[e] => d = e
  BY <1>3, <1>4
<1>9. \A x \in Pairs : \E d \in Queuing(i) : place[d] = x
  <2> SUFFICES ASSUME NEW x \in Pairs PROVE \E d \in Queuing(i) : place[d] = x
    OBVIOUS
  <2>1. PICK d \in ADCs : \E k \in DOMAIN dev[d].m_apsReadIdx :
                            dev[d].m_apsReadIdx[k] = i /\ x = <<d, k>>
    BY <1>5
  <2>2. d \in Queuing(i)
    BY <2>1 DEF Queuing
  <2> QED BY <1>3, <2>1, <2>2
<1>10. place \in Bijection(Queuing(i), Pairs)
  <2>1. place \in Injection(Queuing(i), Pairs)
    BY <1>7, <1>8 DEF Injection, IsInjective
  <2>2. place \in Surjection(Queuing(i), Pairs)
    BY <1>7, <1>9 DEF Surjection
  <2> QED BY <2>1, <2>2 DEF Bijection
<1>11. Cardinality(Pairs) = Cardinality(Queuing(i))
  <2>1. ExistsBijection(Queuing(i), Pairs)
    BY <1>10 DEF ExistsBijection
  <2> QED BY <1>1, <2>1, FS_Bijection
<1> QED BY <1>1, <1>11 DEF TimesQueued, Pairs

\* The others that hold it extract it.
LEMMA HoldersAre ==
  ASSUME Stocked, NEW i \in DOMAIN nCount
  PROVE  /\ nCount[i] = TimesQueued(i) + Cardinality({d \in ADCs : dev[d].psRead = i})
         /\ nCount[i] <= Cardinality(ADCs)
         /\ IsFiniteSet({d \in ADCs : dev[d].psRead = i})
<1> DEFINE taking == {d \in ADCs : dev[d].psRead = i}
<1>1. /\ Holders(i) = Queuing(i) \cup taking /\ Queuing(i) \cap taking = {}
      /\ taking \subseteq Holders(i)
  <2>1. \A d \in ADCs : Holding(dev[d])
    BY DEF Stocked
  <2> QED BY <2>1 DEF Holders, Queuing, Holding
<1> HIDE DEF taking
<1>4. IsFiniteSet(Holders(i)) /\ Holders(i) \subseteq ADCs /\ IsFiniteSet(ADCs)
      /\ IsFiniteSet(taking) /\ IsFiniteSet(Queuing(i))
  BY <1>1, HoldersFinite, QueuedOnce, FS_Subset
<1>5. /\ Cardinality(Holders(i)) <= Cardinality(ADCs)
      /\ Cardinality(Holders(i)) = Cardinality(Queuing(i)) + Cardinality(taking)
  <2>1. Cardinality(Holders(i)) =
          Cardinality(Queuing(i)) + Cardinality(taking) - Cardinality(Queuing(i) \cap taking)
    BY <1>1, <1>4, FS_Union
  <2>2. Cardinality(Queuing(i) \cap taking) = 0
    BY <1>1, FS_EmptySet
  <2>3. Cardinality(Queuing(i)) \in Nat /\ Cardinality(taking) \in Nat
    BY <1>4, FS_CardinalityType
  <2>4. Cardinality(Holders(i)) <= Cardinality(ADCs)
    BY <1>4, FS_Subset
  <2> QED BY <2>1, <2>2, <2>3, <2>4
<1>6. nCount[i] = Cardinality(Holders(i)) /\ TimesQueued(i) = Cardinality(Queuing(i))
  BY QueuedOnce DEF Stocked
<1> QED BY <1>4, <1>5, <1>6 DEF taking

\* The destructor gives back what the queues still hold.
LEMMA DeleteStocked ==
  ASSUME Stocked, DeleteDevices
  PROVE  Stocked'
<1>1. /\ UNCHANGED <<inits, requests, pc>> /\ deletePc = "closed" /\ deletePc' = "deleted"
      /\ dev' = [d \in Devices |-> IF d \in ADCs THEN Emptied(dev[d]) ELSE dev[d]]
      /\ nCount' = [i \in DOMAIN nCount |-> nCount[i] - TimesQueued(i)]
  BY DEF DeleteDevices, DeleteUnchanged, clientVars
<1>2. Devices' = Devices /\ ADCs' = ADCs /\ ADCs \subseteq Devices /\ DOMAIN dev' = Devices
  BY <1>1, DevicesFinite DEF Stocked, Devices, ADCs, Kind
<1>3. \A d \in ADCs :
        /\ dev'[d] \in ADCType /\ dev'[d].m_apsReadIdx = <<>>
        /\ dev'[d].pc = "deleted" /\ dev'[d].psRead = dev[d].psRead
  <2> SUFFICES ASSUME NEW d \in ADCs
               PROVE  /\ dev'[d] \in ADCType /\ dev'[d].m_apsReadIdx = <<>>
                      /\ dev'[d].pc = "deleted" /\ dev'[d].psRead = dev[d].psRead
    OBVIOUS
  <2>1. PICK a \in ADCType : a = dev[d]
    BY DEF Stocked, Holding
  <2>3. dev'[d] = Emptied(a)
    BY <1>1, <1>2, <2>1
  <2>4. <<>> \in Seq(Nat)
    BY EmptySeq
  <2> QED BY <2>1, <2>3, <2>4 DEF Emptied, ADCType
<1>4. \A i \in DOMAIN nCount :
        /\ nCount[i] - TimesQueued(i) \in Nat
        /\ nCount[i] - TimesQueued(i) = Cardinality({d \in ADCs : dev[d].psRead = i})
  <2> SUFFICES ASSUME NEW i \in DOMAIN nCount
               PROVE  /\ nCount[i] - TimesQueued(i) \in Nat
                      /\ nCount[i] - TimesQueued(i) =
                           Cardinality({d \in ADCs : dev[d].psRead = i})
    OBVIOUS
  <2>1. PICK n : n = Cardinality({d \in ADCs : dev[d].psRead = i})
    OBVIOUS
  <2>2. nCount[i] = TimesQueued(i) + n /\ n \in Nat
    BY <2>1, HoldersAre, FS_CardinalityType
  <2>3. TimesQueued(i) \in Nat
    BY QueuedOnce, FS_CardinalityType
  <2> QED BY <2>1, <2>2, <2>3
<1>5. nCount' \in Seq(Nat) /\ DOMAIN nCount' = DOMAIN nCount /\ 0 \notin DOMAIN nCount
  <2>1. DOMAIN nCount = 1 .. Len(nCount) /\ Len(nCount) \in Nat
    BY LenProperties DEF Stocked
  <2>2. nCount' \in [1 .. Len(nCount) -> Nat]
    BY <1>1, <1>4, <2>1
  <2>3. nCount' \in Seq(Nat)
    BY <2>1, <2>2, SeqDef
  <2> QED BY <1>1, <2>1, <2>3
<1>6. \A i : Holders(i)' = {d \in ADCs : dev[d].psRead = i}
  BY <1>2, <1>3 DEF Holders
<1>7. \A i \in DOMAIN nCount' : nCount'[i] = Cardinality(Holders(i)')
  BY <1>1, <1>4, <1>5, <1>6
<1>8. \A d \in ADCs : Holding(dev[d])'
  <2> SUFFICES ASSUME NEW d \in ADCs PROVE Holding(dev[d])'
    OBVIOUS
  <2>1. PICK w : w = dev'[d]
    OBVIOUS
  <2>2. /\ w \in ADCType /\ w.m_apsReadIdx = <<>> /\ w.pc = "deleted"
        /\ DOMAIN w.m_apsReadIdx = {} /\ w.psRead = dev[d].psRead
    BY <1>3, <2>1
  <2>3. dev[d].psRead \in DOMAIN nCount' \cup {0}
    <3>1. Holding(dev[d])
      BY DEF Stocked
    <3> QED BY <1>5, <3>1 DEF Holding
  <2> QED BY <2>1, <2>2, <2>3 DEF Holding
<1>9. pc' \in Ended
  BY <1>1 DEF Stocked
<1> QED BY <1>1, <1>2, <1>5, <1>7, <1>8, <1>9 DEF Stocked

LEMMA InitStocked ==
  ASSUME Init
  PROVE  Stocked
<1>1. inits \in Seq(Inits) /\ DOMAIN dev = Devices /\ requests \in Seq(Request)
  BY FTDIAssumption, EmptySeq DEF Init, Devices
<1>2. nCount = NewRing /\ deletePc = "no"
  BY DEF Init
<1>3. nCount \in [1 .. m_nMinElems -> Nat] /\ \A i \in DOMAIN nCount : nCount[i] = 0
      /\ 0 \notin DOMAIN nCount
  BY <1>2, RingAssumption DEF NewRing
<1>4. nCount \in Seq(Nat)
  BY <1>3, RingAssumption, SeqDef
<1>5. \A d \in ADCs : dev[d] = NewADC
  <2>1. \A d \in ADCs : d \in Devices /\ inits[d].kind = "ADC"
    BY DEF ADCs, Kind
  <2> QED BY <2>1 DEF Init
<1>6. NewADC \in ADCType /\ NewADC.m_apsReadIdx = <<>> /\ NewADC.psRead = 0
      /\ NewADC.pc = "wait" /\ DOMAIN NewADC.m_apsReadIdx = {}
  BY EmptySeq DEF NewADC, ADCType
<1>7. \A d \in ADCs : Holding(dev[d])
  BY <1>2, <1>5, <1>6 DEF Holding
<1>8. \A i \in DOMAIN nCount : Holders(i) = {}
  BY <1>3, <1>5, <1>6 DEF Holders
<1>9. \A i \in DOMAIN nCount : nCount[i] = Cardinality(Holders(i))
  BY <1>3, <1>8, FS_EmptySet
<1>10. pc \in {"wait", "none"}
  BY DEF Init
<1> QED BY <1>1, <1>2, <1>4, <1>7, <1>9, <1>10 DEF Stocked

LEMMA NextKeepsStocked ==
  ASSUME Stocked, [Next]_vars
  PROVE  Stocked'
<1>1. CASE ProcessData
  <2>1. CASE \E d \in Devices, on \in BOOLEAN : ActivateOrInactivate(d, on)
    BY <2>1, OthersStill, StillKeeps
  <2>2. CASE \E c \in Clients, d \in Devices :
               \/ \E request \in Writes : WriteData(c, d, request)
               \/ Trigger(c, d) \/ TriggerADC(c, d) \/ CancelRead(c, d)
    BY <2>2, AskStill, StillKeeps
  <2> QED BY <1>1, <2>1, <2>2 DEF ProcessData
<1>2. CASE \/ WakeStop \/ Recover \/ PopUpdate \/ NoMoreUpdates \/ Reset
           \/ PreWrite \/ Write \/ Erase \/ RecoverFails \/ WriteFails
  BY <1>2, ThreadStill, StillKeeps
<1>3. CASE Read \/ \E shown \in SUBSET ucOutput : ReadGarbled(shown)
  BY <1>3, ReadIs, ReadStocked
<1>4. CASE ReadFails
  BY <1>4, ReadFailsStocked
<1>5. CASE Delete \/ StopThread \/ UNCHANGED vars
  BY <1>5, OthersStill, StillKeeps
<1>6. CASE DeleteDevices
  BY <1>6, DeleteStocked
<1>7. CASE \E c \in Clients : Leave(c)
  BY <1>7, OthersStill, StillKeeps
<1>8. CASE \E d \in Devices : ADCThread(d) \/ ADCDue(d)
  <2>1. PICK d \in Devices : ADCThread(d) \/ ADCDue(d)
    BY <1>8
  <2>2. CASE ADCTake(d)
    BY <2>2, TakeStocked
  <2>3. CASE ADCExtracted(d)
    BY <2>3, ExtractStocked
  <2>4. CASE ADCSend(d) \/ ADCStop(d) \/ ADCDue(d)
    BY <2>4, OthersStill, StillKeeps
  <2> QED BY <2>1, <2>2, <2>3, <2>4 DEF ADCThread
<1> QED BY <1>1, <1>2, <1>3, <1>4, <1>5, <1>6, <1>7, <1>8
        DEF Next, ThreadProc, Faults, Deletion

\* However many ADCs share the ring and however far behind their threads are,
\* a block is claimed by exactly those that still want what was read into it,
\* or were terminated while they extracted it.
THEOREM BlocksHeld == Spec => []BlocksKept
<1>1. Stocked => BlocksKept
  <2> SUFFICES ASSUME Stocked, NEW i \in DOMAIN nCount
               PROVE  /\ nCount[i] = TimesQueued(i) +
                                      Cardinality({d \in ADCs : dev[d].psRead = i})
                      /\ nCount[i] <= Cardinality(ADCs)
    BY DEF BlocksKept
  <2> QED BY HoldersAre
<1> QED BY <1>1, InitStocked, NextKeepsStocked, PTL DEF Spec

-----------------------------------------------------------------------------
(* Requests *)

Statuses == {"waiting", "streaming", "ok", "error", "gone", "cancelled", "DEVICE_CLOSING",
             "late", "more", "ALREADY_OPEN", "INACTIVE_DEVICE", "BAD_INPUT_PARAMS"}

\* ids holds the open requests to device d, each once, but for the first n
\* entries: these have their answer and are about to be taken out.
Lists(d, ids, n, reqs, st) ==
  /\ \A k \in DOMAIN ids : ids[k] # 0 =>
       /\ ids[k] \in DOMAIN reqs /\ reqs[ids[k]].nChan = d
       /\ k <= n => st[ids[k]] \in {"ok", "error"}
       /\ ~(k <= n) => st[ids[k]] \in Open
  /\ \A k, l \in DOMAIN ids : ids[k] = ids[l] /\ ids[k] # 0 => k = l
  /\ \A r \in DOMAIN reqs : reqs[r].nChan = d /\ st[r] \in Open =>
       \E k \in DOMAIN ids : ids[k] = r

\* The entries with an answer: those of a device that does not read
\* continuously, between the read and the end of the call.
Answers(d) ==
  IF /\ pc = "erase" /\ d \in Readers /\ ~inits[d].bContinuous
     /\ dev[d].m_eState = "eActive" /\ dev[d].m_bRead
  THEN dev[d].m_nProcessed ELSE 0

Served(d) ==
  /\ dev[d] \in PeriphType /\ dev[d].m_nProcessed <= Len(dev[d].m_allIds)
  /\ \E n : Lists(d, dev[d].m_allIds, n, requests, status)
  /\ pc # "terminated" => Lists(d, dev[d].m_allIds, Answers(d), requests, status)

\* Whoever triggered an ADC waits for data; whom its thread sends it to does
\* too, or was told the end of it.
Triggered(d) ==
  /\ dev[d].m_llId # 0 =>
       /\ dev[d].m_llId \in DOMAIN requests /\ requests[dev[d].m_llId].nChan = d
       /\ status[dev[d].m_llId] \in Open
  /\ dev[d].llId # 0 =>
       /\ dev[d].llId \in DOMAIN requests /\ requests[dev[d].llId].nChan = d
       /\ status[dev[d].llId] \in Open \cup {"DEVICE_CLOSING", "late"}
       /\ dev[d].pc \in {"extract", "deleted"}

Accounted ==
  /\ status \in Seq(Statuses) /\ Len(status) = Len(requests)
  /\ \A r \in DOMAIN requests : requests[r].nChan \in Devices
  /\ \A d \in Writers \cup Readers : Served(d)
  /\ \A d \in ADCs : Triggered(d)

\* A list made of entries of another, with every open one among them.
MadeOf(d, ids, reqs, st, ids2, n2, st2, at) ==
  /\ at \in [DOMAIN ids2 -> DOMAIN ids]
  /\ \A j, l \in DOMAIN ids2 : at[j] = at[l] => j = l
  /\ \A j \in DOMAIN ids2 : ids2[j] # 0 =>
       /\ ids2[j] = ids[at[j]]
       /\ j <= n2 => st2[ids2[j]] \in {"ok", "error"}
       /\ ~(j <= n2) => st2[ids2[j]] \in Open
  /\ \A r \in DOMAIN reqs : reqs[r].nChan = d /\ st2[r] \in Open => st[r] \in Open
  /\ \A k \in DOMAIN ids : ids[k] \in DOMAIN reqs /\ st2[ids[k]] \in Open =>
       \E j \in DOMAIN ids2 : ids2[j] = ids[k]

LEMMA Relist ==
  ASSUME NEW d, NEW ids, NEW n, NEW reqs, NEW st, Lists(d, ids, n, reqs, st),
         NEW ids2, NEW n2, NEW st2, NEW at, MadeOf(d, ids, reqs, st, ids2, n2, st2, at)
  PROVE  Lists(d, ids2, n2, reqs, st2)
<1> USE DEF MadeOf
<1>1. \A j \in DOMAIN ids2 : at[j] \in DOMAIN ids
  OBVIOUS
<1>2. \A j \in DOMAIN ids2 : ids2[j] # 0 =>
        ids2[j] \in DOMAIN reqs /\ reqs[ids2[j]].nChan = d
  BY <1>1 DEF Lists
<1>3. \A j, l \in DOMAIN ids2 : ids2[j] = ids2[l] /\ ids2[j] # 0 => j = l
  BY <1>1 DEF Lists
<1>4. \A r \in DOMAIN reqs : reqs[r].nChan = d /\ st2[r] \in Open =>
        \E j \in DOMAIN ids2 : ids2[j] = r
  <2> SUFFICES ASSUME NEW r \in DOMAIN reqs, reqs[r].nChan = d, st2[r] \in Open
               PROVE  \E j \in DOMAIN ids2 : ids2[j] = r
    OBVIOUS
  <2>1. PICK k \in DOMAIN ids : ids[k] = r
    BY DEF Lists
  <2> QED BY <2>1
<1> QED BY <1>2, <1>3, <1>4 DEF Lists

\* A request refused, or one to another device, is not listed; one that is
\* accepted comes last.
LEMMA NotListed ==
  ASSUME NEW d, NEW ids, NEW n, NEW reqs \in Seq(Request), NEW st \in Seq(Statuses),
         Len(st) = Len(reqs), Lists(d, ids, n, reqs, st),
         NEW request \in Request, NEW answer \in Statuses,
         request.nChan # d \/ answer \notin Open
  PROVE  Lists(d, ids, n, Append(reqs, request), Append(st, answer))
<1>1. PICK reqs2, st2 : reqs2 = Append(reqs, request) /\ st2 = Append(st, answer)
  OBVIOUS
<1>2. /\ Len(reqs) \in Nat /\ DOMAIN reqs = 1 .. Len(reqs)
      /\ DOMAIN reqs2 = 1 .. Len(reqs) + 1
      /\ \A r \in DOMAIN reqs : reqs2[r] = reqs[r] /\ st2[r] = st[r]
      /\ reqs2[Len(reqs) + 1] = request /\ st2[Len(reqs) + 1] = answer
  BY <1>1, AppendProperties, LenProperties
<1>3. \A r \in DOMAIN reqs2 : r \in DOMAIN reqs \/ r = Len(reqs) + 1
  BY <1>2
<1>4. DOMAIN reqs \subseteq DOMAIN reqs2
  BY <1>2
<1>5. Lists(d, ids, n, reqs2, st2)
  BY <1>2, <1>3, <1>4 DEF Lists
<1> QED BY <1>1, <1>5

LEMMA Enlisted ==
  ASSUME NEW d, NEW ids \in Seq(Nat), NEW n \in Nat, n <= Len(ids),
         NEW reqs \in Seq(Request), NEW st \in Seq(Statuses),
         Len(st) = Len(reqs), Lists(d, ids, n, reqs, st),
         NEW request \in Request, request.nChan = d, NEW r, r = Len(reqs) + 1
  PROVE  Lists(d, Append(ids, r), n, Append(reqs, request), Append(st, "waiting"))
<1>1. PICK reqs2, st2, ids2 : /\ reqs2 = Append(reqs, request)
                              /\ st2 = Append(st, "waiting") /\ ids2 = Append(ids, r)
  OBVIOUS
<1>2. /\ Len(reqs) \in Nat /\ DOMAIN reqs = 1 .. Len(reqs) /\ r \in Nat
      /\ DOMAIN reqs2 = 1 .. Len(reqs) + 1
      /\ \A q \in DOMAIN reqs : reqs2[q] = reqs[q] /\ st2[q] = st[q]
      /\ reqs2[r] = request /\ st2[r] = "waiting"
  BY <1>1, AppendProperties, LenProperties DEF Statuses
<1>3. /\ Len(ids) \in Nat /\ DOMAIN ids = 1 .. Len(ids) /\ DOMAIN ids2 = 1 .. Len(ids) + 1
      /\ \A k \in DOMAIN ids : ids2[k] = ids[k]
      /\ ids2[Len(ids) + 1] = r
  BY <1>1, <1>2, AppendProperties, LenProperties
<1>4. /\ \A q \in DOMAIN reqs2 : q \in DOMAIN reqs \/ q = r
      /\ DOMAIN reqs \subseteq DOMAIN reqs2 /\ r \in DOMAIN reqs2 /\ r \notin DOMAIN reqs
  BY <1>2
<1>5. /\ \A k \in DOMAIN ids2 : k \in DOMAIN ids \/ k = Len(ids) + 1
      /\ DOMAIN ids \subseteq DOMAIN ids2 /\ Len(ids) + 1 \in DOMAIN ids2
      /\ ~(Len(ids) + 1 <= n)
  BY <1>3
<1>6. \A k \in DOMAIN ids2 : ids2[k] # 0 =>
        /\ ids2[k] \in DOMAIN reqs2 /\ reqs2[ids2[k]].nChan = d
        /\ k <= n => st2[ids2[k]] \in {"ok", "error"}
        /\ ~(k <= n) => st2[ids2[k]] \in Open
  <2> SUFFICES ASSUME NEW k \in DOMAIN ids2, ids2[k] # 0
               PROVE  /\ ids2[k] \in DOMAIN reqs2 /\ reqs2[ids2[k]].nChan = d
                      /\ k <= n => st2[ids2[k]] \in {"ok", "error"}
                      /\ ~(k <= n) => st2[ids2[k]] \in Open
    OBVIOUS
  <2>1. CASE k \in DOMAIN ids
    BY <1>2, <1>3, <1>4, <2>1 DEF Lists
  <2>2. CASE k = Len(ids) + 1
    BY <1>2, <1>3, <1>4, <1>5, <2>2 DEF Open
  <2> QED BY <1>5, <2>1, <2>2
<1>7. \A k, l \in DOMAIN ids2 : ids2[k] = ids2[l] /\ ids2[k] # 0 => k = l
  <2>1. \A k \in DOMAIN ids : ids[k] # r
    <3>1. r # 0
      BY <1>2, r = Len(reqs) + 1
    <3> QED BY <1>4, <3>1 DEF Lists
  <2> QED BY <1>3, <1>5, <2>1 DEF Lists
<1>8. \A q \in DOMAIN reqs2 : reqs2[q].nChan = d /\ st2[q] \in Open =>
        \E k \in DOMAIN ids2 : ids2[k] = q
  <2> SUFFICES ASSUME NEW q \in DOMAIN reqs2, reqs2[q].nChan = d, st2[q] \in Open
               PROVE  \E k \in DOMAIN ids2 : ids2[k] = q
    OBVIOUS
  <2>1. CASE q = r
    BY <1>3, <1>5, <2>1
  <2>2. CASE q \in DOMAIN reqs
    <3>1. PICK k \in DOMAIN ids : ids[k] = q
      BY <1>2, <2>2 DEF Lists
    <3> QED BY <1>3, <1>5, <3>1
  <2> QED BY <1>4, <2>1, <2>2
<1>9. Lists(d, ids2, n, reqs2, st2)
  BY <1>6, <1>7, <1>8 DEF Lists
<1> QED BY <1>1, <1>9

\* The first m entries are off the list.
Off(ids, m, rest) ==
  /\ rest \in Seq(Nat) /\ m \in Nat /\ m <= Len(ids) /\ Len(rest) = Len(ids) - m
  /\ \A k \in 1 .. Len(ids) - m : rest[k] = ids[m + k]

\* Each of the first m requests is sent the message, and none of them is left.
Served_Off(a, w, sent, m, message) ==
  /\ Off(a.m_allIds, m, w.m_allIds)
  /\ DOMAIN sent = First(a, m) /\ \A r \in DOMAIN sent : sent[r] = message

LEMMA OffIs ==
  ASSUME NEW ids \in Seq(Nat)
  PROVE  /\ Off(ids, 0, ids) /\ Off(ids, Len(ids), <<>>)
         /\ \A m \in Nat : m <= Len(ids) => Off(ids, m, Drop(ids, m))
<1>1. Len(ids) \in Nat
  BY LenProperties
<1>2. Off(ids, 0, ids)
  BY <1>1 DEF Off
<1>3. Off(ids, Len(ids), <<>>)
  BY <1>1, EmptySeq DEF Off
<1>4. \A m \in Nat : m <= Len(ids) => Off(ids, m, Drop(ids, m))
  BY DropIs DEF Off
<1> QED BY <1>2, <1>3, <1>4

LEMMA QuietIs ==
  ASSUME NEW a \in PeriphType, NEW w, w.m_allIds = a.m_allIds, NEW sent, sent = <<>>
  PROVE  Served_Off(a, w, sent, 0, "ok")
<1>1. Off(a.m_allIds, 0, w.m_allIds)
  BY OffIs DEF PeriphType
<1>2. First(a, 0) = {}
  BY DEF First
<1>3. DOMAIN sent = {}
  OBVIOUS
<1> QED BY <1>1, <1>2, <1>3 DEF Served_Off

\* What a call of DoWork of a writing device comes to: its list is left alone,
\* emptied, or cut by what was written.
Prepared(a, w) ==
  \E seq \in SUBSET Pins :
    w = [a EXCEPT !.buff = [data |-> a.data, seq |-> a.seq], !.seq = seq,
                  !.m_bUpdated = FALSE, !.m_bChanged = TRUE,
                  !.m_nProcessed = Everyone(a), !.m_hNext = FALSE]
Cleared(a, w) ==
  \E seq \in SUBSET Pins :
    w = [a EXCEPT !.m_eState = "eInactive", !.m_bUpdated = FALSE, !.m_hNext = FALSE,
                  !.m_allIds = <<>>, !.m_nProcessed = 0, !.m_bChanged = FALSE,
                  !.buff = [data |-> a.buff.data, seq |-> seq]]
CutBack(a, w) ==
  w = [a EXCEPT !.m_allIds = Drop(a.m_allIds, a.m_nProcessed), !.m_nProcessed = 0,
                !.m_bChanged = FALSE]

WriterStep(a, w, sent) ==
  \/ /\ \/ w = a
        \/ \E why : w = Switched(a, why)
        \/ w = [a EXCEPT !.m_bUpdated = TRUE, !.m_hNext = TRUE]
        \/ w = [a EXCEPT !.buff = [data |-> a.buff.data, seq |-> {}]]
        \/ Prepared(a, w)
     /\ sent = <<>>
  \/ Cleared(a, w) /\ sent = Tell(a, Everyone(a), "DEVICE_CLOSING")
  \/ CutBack(a, w) /\ \E message \in {"ok", "error"} : sent = Tell(a, a.m_nProcessed, message)

LEMMA WriterStepIs ==
  ASSUME NEW a \in PeriphType, a.m_nProcessed <= Len(a.m_allIds),
         NEW w, NEW sent, WriterStep(a, w, sent)
  PROVE  /\ w \in PeriphType /\ w.m_nProcessed <= Len(w.m_allIds)
         /\ \E m \in Nat : \E message \in {"ok", "error", "DEVICE_CLOSING"} :
              Served_Off(a, w, sent, m, message)
<1>1. /\ Len(a.m_allIds) \in Nat /\ a.m_nProcessed \in Nat /\ a.m_allIds \in Seq(Nat)
      /\ a.buff \in Outputs_ /\ a.data \in [Pins -> Nat] /\ a.seq \in SUBSET Pins
      /\ a.buff.data \in [Pins -> Nat]
  BY LenProperties DEF PeriphType, Outputs_
<1>2. CASE /\ \/ w = a
              \/ \E why : w = Switched(a, why)
              \/ w = [a EXCEPT !.m_bUpdated = TRUE, !.m_hNext = TRUE]
              \/ w = [a EXCEPT !.buff = [data |-> a.buff.data, seq |-> {}]]
              \/ Prepared(a, w)
           /\ sent = <<>>
  <2>1. w \in PeriphType /\ w.m_allIds = a.m_allIds /\ w.m_nProcessed <= Len(a.m_allIds)
    <3>1. CASE w = a
      BY <3>1
    <3>2. CASE \E why : w = Switched(a, why)
      BY <3>2 DEF Switched, PeriphType
    <3>3. CASE w = [a EXCEPT !.m_bUpdated = TRUE, !.m_hNext = TRUE]
      BY <3>3 DEF PeriphType
    <3>4. CASE w = [a EXCEPT !.buff = [data |-> a.buff.data, seq |-> {}]]
      BY <1>1, <3>4 DEF PeriphType, Outputs_
    <3>5. CASE Prepared(a, w)
      <4>1. PICK seq \in SUBSET Pins :
              w = [a EXCEPT !.buff = [data |-> a.data, seq |-> a.seq], !.seq = seq,
                            !.m_bUpdated = FALSE, !.m_bChanged = TRUE,
                            !.m_nProcessed = Everyone(a), !.m_hNext = FALSE]
        BY <3>5 DEF Prepared
      <4>2. Everyone(a) = Len(a.m_allIds) /\ [data |-> a.data, seq |-> a.seq] \in Outputs_
        BY <1>1 DEF Everyone, Outputs_
      <4>3. PICK n \in Nat, buff \in Outputs_ :
              n = Len(a.m_allIds) /\ buff = [data |-> a.data, seq |-> a.seq]
        BY <1>1, <4>2
      <4>4. w = [a EXCEPT !.buff = buff, !.seq = seq, !.m_bUpdated = FALSE,
                          !.m_bChanged = TRUE, !.m_nProcessed = n, !.m_hNext = FALSE]
        BY <4>1, <4>2, <4>3
      <4>5. w \in PeriphType /\ w.m_allIds = a.m_allIds /\ w.m_nProcessed = n
        BY <4>4 DEF PeriphType
      <4> QED BY <4>3, <4>5
    <3> QED BY <1>2, <3>1, <3>2, <3>3, <3>4, <3>5
  <2> QED BY <1>2, <2>1, QuietIs
<1>3. CASE Cleared(a, w) /\ sent = Tell(a, Everyone(a), "DEVICE_CLOSING")
  <2>1. PICK seq \in SUBSET Pins :
          w = [a EXCEPT !.m_eState = "eInactive", !.m_bUpdated = FALSE, !.m_hNext = FALSE,
                        !.m_allIds = <<>>, !.m_nProcessed = 0, !.m_bChanged = FALSE,
                        !.buff = [data |-> a.buff.data, seq |-> seq]]
    BY <1>3 DEF Cleared
  <2>2. [data |-> a.buff.data, seq |-> seq] \in Outputs_ /\ <<>> \in Seq(Nat)
    BY <1>1, EmptySeq DEF Outputs_
  <2>3. w \in PeriphType /\ w.m_allIds = <<>> /\ w.m_nProcessed = 0
    BY <2>1, <2>2 DEF PeriphType
  <2>4. Len(w.m_allIds) = 0
    BY <2>3, EmptySeq
  <2>5. Off(a.m_allIds, Len(a.m_allIds), w.m_allIds)
    BY <1>1, <2>3, OffIs
  <2>6. Served_Off(a, w, sent, Len(a.m_allIds), "DEVICE_CLOSING")
    BY <1>3, <2>5 DEF Served_Off, Tell, Everyone
  <2> QED BY <1>1, <2>3, <2>4, <2>6
<1>4. CASE CutBack(a, w) /\ \E message \in {"ok", "error"} :
                              sent = Tell(a, a.m_nProcessed, message)
  <2>1. PICK message \in {"ok", "error"} : sent = Tell(a, a.m_nProcessed, message)
    BY <1>4
  <2>2. Off(a.m_allIds, a.m_nProcessed, Drop(a.m_allIds, a.m_nProcessed))
        /\ Drop(a.m_allIds, a.m_nProcessed) \in Seq(Nat)
    BY <1>1, OffIs, DropIs
  <2>3. /\ w \in PeriphType /\ w.m_allIds = Drop(a.m_allIds, a.m_nProcessed)
        /\ w.m_nProcessed = 0
    BY <1>4, <2>2 DEF CutBack, PeriphType
  <2>4. Len(w.m_allIds) \in Nat
    BY <2>2, <2>3, LenProperties
  <2>5. Served_Off(a, w, sent, a.m_nProcessed, message)
    BY <2>1, <2>2, <2>3 DEF Served_Off, Tell
  <2> QED BY <1>1, <2>3, <2>4, <2>5
<1> QED BY <1>2, <1>3, <1>4 DEF WriterStep

LEMMA MultiWDoes ==
  ASSUME NEW a \in PeriphType, NEW why \in Reasons, NEW failed \in BOOLEAN,
         NEW done, done = MultiWDoWork(a, why, failed)
  PROVE  WriterStep(a, done.dev, done.sent)
<1> USE DEF Quiet, Does, WriterStep
<1>1. CASE why \in {"eActivateState", "eInactivateState"}
  BY <1>1 DEF MultiWDoWork
<1>2. CASE why = "eRecover"
  BY <1>2 DEF MultiWDoWork
<1>3. CASE why = "ePreWrite"
  <2>1. CASE a.m_eState = "eInactivateState"
    <3>1. a.buff.seq \in SUBSET Pins /\ a.buff = [data |-> a.buff.data, seq |-> a.buff.seq]
      BY DEF PeriphType, Outputs_
    <3>2. done.dev = [a EXCEPT !.m_eState = "eInactive", !.m_bUpdated = FALSE,
                          !.m_hNext = FALSE, !.m_allIds = <<>>,
                          !.m_nProcessed = 0, !.m_bChanged = FALSE]
          /\ done.sent = Tell(a, Everyone(a), "DEVICE_CLOSING")
      BY <1>3, <2>1 DEF MultiWDoWork
    <3>3. done.dev = [a EXCEPT !.m_eState = "eInactive", !.m_bUpdated = FALSE,
                          !.m_hNext = FALSE, !.m_allIds = <<>>,
                          !.m_nProcessed = 0, !.m_bChanged = FALSE,
                          !.buff = [data |-> a.buff.data, seq |-> a.buff.seq]]
      BY <3>1, <3>2 DEF PeriphType
    <3>4. Cleared(a, done.dev)
      BY <3>1, <3>3 DEF Cleared
    <3> QED BY <3>2, <3>4
  <2>2. CASE a.m_eState = "eActive" /\ a.m_bUpdated
    <3>1. done.dev = [a EXCEPT !.buff = [data |-> a.data, seq |-> a.seq],
                           !.m_bUpdated = FALSE, !.m_bChanged = TRUE,
                           !.m_nProcessed = Everyone(a), !.m_hNext = FALSE]
          /\ done.sent = <<>>
      BY <1>3, <2>2 DEF MultiWDoWork
    <3>2. done.dev = [a EXCEPT !.buff = [data |-> a.data, seq |-> a.seq], !.seq = a.seq,
                           !.m_bUpdated = FALSE, !.m_bChanged = TRUE,
                           !.m_nProcessed = Everyone(a), !.m_hNext = FALSE]
          /\ a.seq \in SUBSET Pins
      BY <3>1 DEF PeriphType
    <3>3. Prepared(a, done.dev)
      BY <3>2 DEF Prepared
    <3> QED BY <3>1, <3>3
  <2>3. CASE a.m_eState # "eInactivateState" /\ ~(a.m_eState = "eActive" /\ a.m_bUpdated)
    BY <1>3, <2>3 DEF MultiWDoWork
  <2> QED BY <2>1, <2>2, <2>3
<1>4. CASE why = "ePostWrite"
  <2>1. CASE a.m_eState = "eActive" /\ a.m_bChanged
    <3>1. CutBack(a, done.dev)
      BY <1>4, <2>1 DEF MultiWDoWork, CutBack, Written
    <3>2. done.sent = Tell(a, a.m_nProcessed, IF failed THEN "error" ELSE "ok")
      BY <1>4, <2>1 DEF MultiWDoWork, Written
    <3>3. \E message \in {"ok", "error"} : done.sent = Tell(a, a.m_nProcessed, message)
      BY <3>2
    <3> QED BY <3>1, <3>3
  <2>2. CASE ~(a.m_eState = "eActive" /\ a.m_bChanged)
    BY <1>4, <2>2 DEF MultiWDoWork
  <2> QED BY <2>1, <2>2
<1>5. CASE why = "ePostRead"
  BY <1>5 DEF MultiWDoWork
<1> QED BY <1>1, <1>2, <1>3, <1>4, <1>5 DEF Reasons

LEMMA PinWDoes ==
  ASSUME NEW a \in PeriphType, NEW why \in Reasons, NEW failed \in BOOLEAN,
         NEW done, done = PinWDoWork(a, why, failed)
  PROVE  WriterStep(a, done.dev, done.sent)
<1> USE DEF Quiet, Does, WriterStep
<1>0. a.buff = [data |-> a.buff.data, seq |-> a.buff.seq]
  BY DEF PeriphType, Outputs_
<1>1. CASE why \in {"eActivateState", "eInactivateState"}
  BY <1>1 DEF PinWDoWork
<1>2. CASE why = "eRecover"
  BY <1>2 DEF PinWDoWork
<1>3. CASE why = "ePreWrite"
  <2>1. CASE a.m_eState = "eInactivateState"
    <3>2. done.dev = [a EXCEPT !.m_eState = "eInactive", !.m_bUpdated = FALSE,
                          !.m_hNext = FALSE, !.m_allIds = <<>>,
                          !.m_nProcessed = 0, !.m_bChanged = FALSE,
                          !.buff.seq = {}]
          /\ done.sent = Tell(a, Everyone(a), "DEVICE_CLOSING")
      BY <1>3, <2>1 DEF PinWDoWork
    <3>3. done.dev = [a EXCEPT !.m_eState = "eInactive", !.m_bUpdated = FALSE,
                          !.m_hNext = FALSE, !.m_allIds = <<>>,
                          !.m_nProcessed = 0, !.m_bChanged = FALSE,
                          !.buff = [data |-> a.buff.data, seq |-> {}]]
      BY <1>0, <3>2 DEF PeriphType
    <3>4. Cleared(a, done.dev)
      BY <3>3 DEF Cleared
    <3> QED BY <3>2, <3>4
  <2>2. CASE a.m_eState = "eActive" /\ a.m_bUpdated
    <3>1. done.dev = [a EXCEPT !.buff = [data |-> a.data, seq |-> a.seq], !.seq = {},
                           !.m_bUpdated = FALSE, !.m_bChanged = TRUE,
                           !.m_nProcessed = Everyone(a), !.m_hNext = FALSE]
          /\ done.sent = <<>>
      BY <1>3, <2>2 DEF PinWDoWork
    <3>3. Prepared(a, done.dev)
      BY <3>1 DEF Prepared
    <3> QED BY <3>1, <3>3
  <2>3. CASE a.m_eState # "eInactivateState" /\ ~(a.m_eState = "eActive" /\ a.m_bUpdated)
    BY <1>3, <2>3 DEF PinWDoWork
  <2> QED BY <2>1, <2>2, <2>3
<1>4. CASE why = "ePostWrite"
  <2>1. CASE a.m_eState = "eActive" /\ a.m_bChanged
    <3>1. done.dev = [a EXCEPT !.buff.seq = {}] /\ done.sent = <<>>
      BY <1>4, <2>1 DEF PinWDoWork
    <3>2. done.dev = [a EXCEPT !.buff = [data |-> a.buff.data, seq |-> {}]]
      BY <1>0, <3>1 DEF PeriphType
    <3> QED BY <3>1, <3>2
  <2>2. CASE ~(a.m_eState = "eActive" /\ a.m_bChanged)
    BY <1>4, <2>2 DEF PinWDoWork
  <2> QED BY <2>1, <2>2
<1>5. CASE why = "ePostRead"
  <2>1. CASE a.m_eState = "eActive" /\ a.m_bChanged
    <3>1. CutBack(a, done.dev)
      BY <1>5, <2>1 DEF PinWDoWork, CutBack, Written
    <3>2. done.sent = Tell(a, a.m_nProcessed, IF failed THEN "error" ELSE "ok")
      BY <1>5, <2>1 DEF PinWDoWork, Written
    <3>3. \E message \in {"ok", "error"} : done.sent = Tell(a, a.m_nProcessed, message)
      BY <3>2
    <3> QED BY <3>1, <3>3
  <2>2. CASE ~(a.m_eState = "eActive" /\ a.m_bChanged)
    BY <1>5, <2>2 DEF PinWDoWork
  <2> QED BY <2>1, <2>2
<1> QED BY <1>1, <1>2, <1>3, <1>4, <1>5 DEF Reasons

\* A reading device answers those it read for, and marks the entries of the
\* clients that are gone.
Replied(bContinuous, a, w, sent) ==
  /\ a.m_eState = "eActive" /\ a.m_bRead
  /\ w = [a EXCEPT !.m_allIds = w.m_allIds]
  /\ w.m_allIds \in Seq(Nat) /\ DOMAIN w.m_allIds = DOMAIN a.m_allIds
  /\ DOMAIN sent = First(a, a.m_nProcessed)
  /\ \A r \in DOMAIN sent :
       sent[r] \in IF bContinuous THEN {"streaming", "gone"} ELSE {"ok", "error"}
  /\ \A k \in DOMAIN a.m_allIds :
       \/ /\ w.m_allIds[k] = a.m_allIds[k]
          /\ k <= a.m_nProcessed /\ a.m_allIds[k] # 0 => sent[a.m_allIds[k]] # "gone"
       \/ /\ w.m_allIds[k] = 0 /\ k <= a.m_nProcessed
          /\ a.m_allIds[k] # 0 => sent[a.m_allIds[k]] \in {"ok", "gone"}

\* The calls after which a reading device's answers are over in a later step.
Ends(why, failed) == why = "ePostRead" \/ (why = "ePostWrite" /\ failed)

ReaderStep(bContinuous, a, why, failed, w, sent) ==
  /\ w \in PeriphType /\ w.m_nProcessed <= Len(w.m_allIds)
  /\ \/ /\ \E m \in Nat : \E message \in {"ok", "DEVICE_CLOSING"} :
             Served_Off(a, w, sent, m, message)
        /\ Ends(why, failed) => ~(w.m_eState = "eActive" /\ w.m_bRead)
     \/ Replied(bContinuous, a, w, sent) /\ Ends(why, failed)

LEMMA FirstIs ==
  ASSUME NEW a \in PeriphType, NEW k \in DOMAIN a.m_allIds, NEW n \in Nat,
         k <= n, a.m_allIds[k] # 0
  PROVE  a.m_allIds[k] \in First(a, n)
<1>1. DOMAIN a.m_allIds = 1 .. Len(a.m_allIds) /\ Len(a.m_allIds) \in Nat
  BY LenProperties DEF PeriphType
<1>2. k \in 1 .. n
  BY <1>1
<1> QED BY <1>2 DEF First

LEMMA ReaderQuiet ==
  ASSUME NEW a \in PeriphType, NEW bContinuous, NEW why, NEW failed,
         NEW w \in PeriphType, w.m_allIds = a.m_allIds, w.m_nProcessed <= Len(a.m_allIds),
         Ends(why, failed) => ~(w.m_eState = "eActive" /\ w.m_bRead),
         NEW sent, sent = <<>>
  PROVE  ReaderStep(bContinuous, a, why, failed, w, sent)
<1>1. Served_Off(a, w, sent, 0, "ok")
  BY QuietIs
<1> QED BY <1>1 DEF ReaderStep

LEMMA ReaderDoes ==
  ASSUME NEW a \in PeriphType, a.m_nProcessed <= Len(a.m_allIds),
         NEW bContinuous \in BOOLEAN, NEW why \in Reasons, NEW failed \in BOOLEAN, NEW lost,
         NEW done, done = MultiRDoWork(bContinuous, a, why, failed, lost)
  PROVE  ReaderStep(bContinuous, a, why, failed, done.dev, done.sent)
<1>0. /\ Len(a.m_allIds) \in Nat /\ a.m_nProcessed \in Nat /\ a.m_allIds \in Seq(Nat)
      /\ DOMAIN a.m_allIds = 1 .. Len(a.m_allIds)
  BY LenProperties DEF PeriphType
<1>1. CASE why \in {"eActivateState", "eInactivateState"}
  <2>1. done = [dev |-> Switched(a, why), sent |-> <<>>]
    BY <1>1 DEF MultiRDoWork, Quiet, Does
  <2>2. PICK w : w = Switched(a, why)
    OBVIOUS
  <2>3. w \in PeriphType /\ w.m_allIds = a.m_allIds /\ w.m_nProcessed = a.m_nProcessed
    BY <2>2 DEF Switched, PeriphType
  <2>4. ~Ends(why, failed)
    BY <1>1 DEF Ends
  <2> QED BY <2>1, <2>2, <2>3, <2>4, ReaderQuiet
<1>2. CASE why = "eRecover"
  <2>1. done = [dev |-> a, sent |-> <<>>]
    BY <1>2 DEF MultiRDoWork, Quiet, Does
  <2>2. ~Ends(why, failed)
    BY <1>2 DEF Ends
  <2> QED BY <2>1, <2>2, ReaderQuiet
<1>3. CASE why = "ePreWrite"
  <2>0. ~Ends(why, failed)
    BY <1>3 DEF Ends
  <2>1. CASE a.m_eState = "eInactivateState"
    <3>1. PICK w : w = [a EXCEPT !.m_eState = "eInactive", !.m_allIds = <<>>,
                          !.m_hNext = FALSE, !.m_nProcessed = 0,
                          !.m_bRead = FALSE]
      OBVIOUS
    <3>2. done = [dev |-> w, sent |-> Tell(a, Everyone(a), "DEVICE_CLOSING")]
      BY <1>3, <2>1, <3>1 DEF MultiRDoWork, Does
    <3>3. <<>> \in Seq(Nat) /\ Len(<<>>) = 0
      BY EmptySeq
    <3>4. w \in PeriphType /\ w.m_allIds = <<>> /\ w.m_nProcessed = 0
      BY <3>1, <3>3 DEF PeriphType
    <3>5. w.m_nProcessed <= Len(w.m_allIds)
      BY <3>3, <3>4
    <3>6. Served_Off(a, w, done.sent, Len(a.m_allIds), "DEVICE_CLOSING")
      <4>1. Off(a.m_allIds, Len(a.m_allIds), w.m_allIds)
        BY <1>0, <3>4, OffIs
      <4> QED BY <3>2, <4>1 DEF Served_Off, Tell, Everyone
    <3> QED BY <1>0, <2>0, <3>2, <3>4, <3>5, <3>6 DEF ReaderStep
  <2>2. CASE a.m_eState = "eActive"
    <3>1. PICK n \in Nat : n = Everyone(a) /\ n = Len(a.m_allIds)
      BY <1>0 DEF Everyone
    <3>2. PICK w : w = [a EXCEPT !.m_nProcessed = n,
                                 !.m_bRead = a.m_bRead \/ a.m_allIds # <<>>]
      OBVIOUS
    <3>3. done = [dev |-> w, sent |-> <<>>]
      BY <1>3, <2>2, <3>1, <3>2 DEF MultiRDoWork, Quiet, Does
    <3>4. w \in PeriphType /\ w.m_allIds = a.m_allIds /\ w.m_nProcessed = n
      <4>1. (a.m_bRead \/ a.m_allIds # <<>>) \in BOOLEAN
        BY DEF PeriphType
      <4> QED BY <3>2, <4>1 DEF PeriphType
    <3> QED BY <1>0, <2>0, <3>1, <3>3, <3>4, ReaderQuiet
  <2>3. CASE a.m_eState \notin {"eActive", "eInactivateState"}
    <3>1. done = [dev |-> a, sent |-> <<>>]
      BY <1>3, <2>3 DEF MultiRDoWork, Quiet, Does
    <3> QED BY <2>0, <3>1, ReaderQuiet
  <2> QED BY <2>1, <2>2, <2>3
<1>4. CASE why = "ePostWrite" /\ ~(a.m_eState = "eActive" /\ a.m_bRead /\ failed)
  <2>1. done = [dev |-> a, sent |-> <<>>]
    BY <1>4 DEF MultiRDoWork, Quiet, Does
  <2>2. Ends(why, failed) => ~(a.m_eState = "eActive" /\ a.m_bRead)
    BY <1>4 DEF Ends
  <2> QED BY <2>1, <2>2, ReaderQuiet
<1>5. CASE why = "ePostWrite" /\ a.m_eState = "eActive" /\ a.m_bRead /\ failed
  <2>1. PICK message : message = IF bContinuous THEN "streaming" ELSE "error"
    OBVIOUS
  <2>2. done = [dev |-> a, sent |-> Tell(a, a.m_nProcessed, message)]
    BY <1>5, <2>1 DEF MultiRDoWork, Does
  <2>3. a = [a EXCEPT !.m_allIds = a.m_allIds]
    BY DEF PeriphType
  <2>4. PICK sent : sent = Tell(a, a.m_nProcessed, message)
    OBVIOUS
  <2>5. DOMAIN sent = First(a, a.m_nProcessed) /\ \A r \in DOMAIN sent : sent[r] = message
    BY <2>4 DEF Tell
  <2>6. message # "gone"
    BY <2>1
  <2>7. \A k \in DOMAIN a.m_allIds :
          k <= a.m_nProcessed /\ a.m_allIds[k] # 0 => sent[a.m_allIds[k]] # "gone"
    BY <1>0, <2>5, <2>6, FirstIs
  <2>8. \A r \in DOMAIN sent :
          sent[r] \in IF bContinuous THEN {"streaming", "gone"} ELSE {"ok", "error"}
    BY <2>1, <2>5
  <2>9. Replied(bContinuous, a, a, sent)
    BY <1>0, <1>5, <2>3, <2>5, <2>7, <2>8 DEF Replied
  <2>10. Ends(why, failed)
    BY <1>5 DEF Ends
  <2> QED BY <2>2, <2>4, <2>9, <2>10 DEF ReaderStep
<1>6. CASE why = "ePostRead" /\ ~(a.m_eState = "eActive" /\ a.m_bRead)
  <2>1. done = [dev |-> a, sent |-> <<>>]
    BY <1>6 DEF MultiRDoWork, Quiet, Does
  <2> QED BY <1>6, <2>1, ReaderQuiet
<1>7. CASE why = "ePostRead" /\ a.m_eState = "eActive" /\ a.m_bRead
  <2>1. PICK n \in Nat : n = a.m_nProcessed
    BY <1>0
  <2>2. PICK ids : ids = [j \in DOMAIN a.m_allIds |->
                            IF j <= n /\ a.m_allIds[j] \in lost THEN 0 ELSE a.m_allIds[j]]
    OBVIOUS
  <2>3. PICK sent : sent = [r \in First(a, n) |->
                              IF ~bContinuous THEN "ok"
                              ELSE IF r \in lost THEN "gone" ELSE "streaming"]
    OBVIOUS
  <2>4. PICK w : w = [a EXCEPT !.m_allIds = ids]
    OBVIOUS
  <2>5. done = [dev |-> w, sent |-> sent]
    BY <1>7, <2>1, <2>2, <2>3, <2>4 DEF MultiRDoWork, Does
  <2>6. ids \in Seq(Nat) /\ Len(ids) = Len(a.m_allIds) /\ DOMAIN ids = DOMAIN a.m_allIds
    <3>1. \A j \in 1 .. Len(a.m_allIds) : a.m_allIds[j] \in Nat
      BY <1>0, ElementOfSeq
    <3>2. ids \in [1 .. Len(a.m_allIds) -> Nat]
      BY <1>0, <2>2, <3>1
    <3>3. ids \in Seq(Nat)
      BY <1>0, <3>2, SeqDef
    <3> QED BY <1>0, <3>2, <3>3, LenProperties
  <2>7. w \in PeriphType /\ w.m_allIds = ids /\ w.m_nProcessed = n
    BY <2>1, <2>4, <2>6 DEF PeriphType
  <2>8. \A r \in DOMAIN sent :
          sent[r] \in IF bContinuous THEN {"streaming", "gone"} ELSE {"ok", "error"}
    BY <2>3
  <2>9. ASSUME NEW k \in DOMAIN a.m_allIds
        PROVE  \/ /\ ids[k] = a.m_allIds[k]
                  /\ k <= n /\ a.m_allIds[k] # 0 => sent[a.m_allIds[k]] # "gone"
               \/ /\ ids[k] = 0 /\ k <= n
                  /\ a.m_allIds[k] # 0 => sent[a.m_allIds[k]] \in {"ok", "gone"}
    <3>1. k <= n /\ a.m_allIds[k] # 0 => a.m_allIds[k] \in First(a, n)
      BY FirstIs
    <3>2. CASE k <= n /\ a.m_allIds[k] \in lost
      BY <2>2, <2>3, <3>1, <3>2
    <3>3. CASE ~(k <= n /\ a.m_allIds[k] \in lost)
      BY <2>2, <2>3, <3>1, <3>3
    <3> QED BY <3>2, <3>3
  <2>10. Replied(bContinuous, a, w, sent)
    <3>1. DOMAIN sent = First(a, a.m_nProcessed)
      BY <2>1, <2>3
    <3>2. w = [a EXCEPT !.m_allIds = w.m_allIds]
      BY <2>4, <2>7
    <3> QED BY <1>7, <2>1, <2>6, <2>7, <2>8, <2>9, <3>1, <3>2 DEF Replied
  <2>11. Ends(why, failed)
    BY <1>7 DEF Ends
  <2> QED BY <1>0, <2>1, <2>5, <2>6, <2>7, <2>10, <2>11 DEF ReaderStep
<1> QED BY <1>1, <1>2, <1>3, <1>4, <1>5, <1>6, <1>7 DEF Reasons

\* The answers sent are to open requests of the device.
Sends(d, sent, reqs, st) ==
  \A r \in DOMAIN sent : r \in DOMAIN reqs /\ reqs[r].nChan = d /\ st[r] \in Open

\* The requests of device d after the answers.
Answered_(d, sent, reqs, st, st2) ==
  \A r \in DOMAIN reqs : reqs[r].nChan = d =>
    st2[r] = IF r \in DOMAIN sent THEN sent[r] ELSE st[r]

LEMMA FirstOpen ==
  ASSUME NEW a \in PeriphType, NEW d, NEW reqs, NEW st,
         Lists(d, a.m_allIds, 0, reqs, st), NEW m \in Nat, m <= Len(a.m_allIds)
  PROVE  /\ \A r \in First(a, m) : r \in DOMAIN reqs /\ reqs[r].nChan = d /\ st[r] \in Open
         /\ \A r \in First(a, m) : \E k \in DOMAIN a.m_allIds : a.m_allIds[k] = r /\ k <= m
<1>1. DOMAIN a.m_allIds = 1 .. Len(a.m_allIds) /\ Len(a.m_allIds) \in Nat
  BY LenProperties DEF PeriphType
<1>2. \A r \in First(a, m) :
        r # 0 /\ \E k \in DOMAIN a.m_allIds : a.m_allIds[k] = r /\ k <= m /\ ~(k <= 0)
  <2> SUFFICES ASSUME NEW r \in First(a, m)
               PROVE  r # 0 /\ \E k \in DOMAIN a.m_allIds :
                                 a.m_allIds[k] = r /\ k <= m /\ ~(k <= 0)
    OBVIOUS
  <2>1. PICK k \in 1 .. m : a.m_allIds[k] = r /\ r # 0
    BY DEF First
  <2>2. k \in DOMAIN a.m_allIds /\ k <= m /\ ~(k <= 0)
    BY <1>1
  <2> QED BY <2>1, <2>2
<1>3. \A r \in First(a, m) : r \in DOMAIN reqs /\ reqs[r].nChan = d /\ st[r] \in Open
  BY <1>2 DEF Lists
<1> QED BY <1>2, <1>3

LEMMA TakenOff ==
  ASSUME NEW a \in PeriphType, NEW d, NEW reqs \in Seq(Request), NEW st,
         Lists(d, a.m_allIds, 0, reqs, st), NEW w, NEW sent, NEW m \in Nat,
         NEW message, message \notin Open,
         Served_Off(a, w, sent, m, message), NEW st2, Answered_(d, sent, reqs, st, st2)
  PROVE  Lists(d, w.m_allIds, 0, reqs, st2) /\ Sends(d, sent, reqs, st)
<1>1. PICK ids \in Seq(Nat), rest \in Seq(Nat) : ids = a.m_allIds /\ rest = w.m_allIds
  BY DEF Served_Off, Off, PeriphType
<1>2. /\ Len(ids) \in Nat /\ DOMAIN ids = 1 .. Len(ids) /\ m <= Len(ids)
      /\ DOMAIN rest = 1 .. Len(ids) - m
      /\ \A j \in DOMAIN rest : rest[j] = ids[m + j]
      /\ 0 \notin DOMAIN reqs
  <2>1. Off(ids, m, rest)
    BY <1>1 DEF Served_Off
  <2>2. /\ Len(ids) \in Nat /\ DOMAIN ids = 1 .. Len(ids)
        /\ DOMAIN rest = 1 .. Len(rest) /\ DOMAIN reqs = 1 .. Len(reqs)
    BY LenProperties
  <2>3. /\ m <= Len(ids) /\ Len(rest) = Len(ids) - m
        /\ \A j \in 1 .. Len(ids) - m : rest[j] = ids[m + j]
    BY <2>1 DEF Off
  <2> QED BY SMTT(30), <2>2, <2>3
<1>3. /\ DOMAIN sent = First(a, m) /\ \A r \in DOMAIN sent : sent[r] = message
      /\ \A r \in DOMAIN sent : \E k \in DOMAIN ids : ids[k] = r /\ k <= m
      /\ Sends(d, sent, reqs, st)
  BY <1>1, <1>2, FirstOpen DEF Served_Off, Sends
<1>4. \A j \in DOMAIN rest : m + j \in DOMAIN ids /\ ~(m + j <= m) /\ ~(m + j <= 0)
  BY SMTT(30), <1>2
<1>5. PICK at \in [DOMAIN rest -> DOMAIN ids] : \A j \in DOMAIN rest : at[j] = m + j
  <2>1. [j \in DOMAIN rest |-> m + j] \in [DOMAIN rest -> DOMAIN ids]
    BY <1>4
  <2> QED BY <2>1
<1>6. \A j, l \in DOMAIN rest : at[j] = at[l] => j = l
  <2>1. \A j, l \in DOMAIN rest : m + j = m + l => j = l
    BY <1>2
  <2> QED BY <1>5, <2>1
<1>7. \A j \in DOMAIN rest : rest[j] # 0 =>
        /\ rest[j] = ids[at[j]]
        /\ j <= 0 => st2[rest[j]] \in {"ok", "error"}
        /\ ~(j <= 0) => st2[rest[j]] \in Open
  <2> SUFFICES ASSUME NEW j \in DOMAIN rest, rest[j] # 0
               PROVE  rest[j] = ids[at[j]] /\ ~(j <= 0) /\ st2[rest[j]] \in Open
    OBVIOUS
  <2>1. rest[j] = ids[at[j]] /\ at[j] \in DOMAIN ids /\ ~(at[j] <= m) /\ ~(at[j] <= 0)
    BY <1>2, <1>4, <1>5
  <2>2. ~(j <= 0)
    BY <1>2
  <2>3. rest[j] \notin DOMAIN sent
    <3> SUFFICES ASSUME rest[j] \in DOMAIN sent PROVE FALSE
      OBVIOUS
    <3>1. PICK k \in DOMAIN ids : ids[k] = rest[j] /\ k <= m
      BY <1>3
    <3>2. k = at[j]
      BY <1>1, <2>1, <3>1 DEF Lists
    <3> QED BY <2>1, <3>1, <3>2
  <2>4. /\ rest[j] \in DOMAIN reqs /\ reqs[rest[j]].nChan = d /\ st[rest[j]] \in Open
    BY <1>1, <2>1 DEF Lists
  <2> QED BY <2>1, <2>2, <2>3, <2>4 DEF Answered_
<1>8. \A r \in DOMAIN reqs : reqs[r].nChan = d /\ st2[r] \in Open => st[r] \in Open
  BY <1>3 DEF Answered_
<1>9. \A k \in DOMAIN ids : ids[k] \in DOMAIN reqs /\ st2[ids[k]] \in Open =>
        \E j \in DOMAIN rest : rest[j] = ids[k]
  <2> SUFFICES ASSUME NEW k \in DOMAIN ids, ids[k] \in DOMAIN reqs, st2[ids[k]] \in Open
               PROVE  \E j \in DOMAIN rest : rest[j] = ids[k]
    OBVIOUS
  <2>1. ids[k] # 0 /\ reqs[ids[k]].nChan = d
    BY <1>1, <1>2 DEF Lists
  <2>2. ~(k <= m)
    <3> SUFFICES ASSUME k <= m PROVE FALSE
      OBVIOUS
    <3>1. ids[k] \in DOMAIN sent
      BY <1>1, <1>3, <2>1, FirstIs
    <3> QED BY <1>3, <2>1, <3>1 DEF Answered_
  <2>3. k - m \in DOMAIN rest /\ m + (k - m) = k
    BY <1>2, <2>2
  <2> QED BY <1>2, <2>3
<1>10. Lists(d, rest, 0, reqs, st2)
  <2>1. PICK z : z = 0
    OBVIOUS
  <2>2. Lists(d, ids, z, reqs, st)
    BY <1>1, <2>1
  <2>3. \A j \in DOMAIN rest : rest[j] # 0 =>
          /\ rest[j] = ids[at[j]]
          /\ j <= z => st2[rest[j]] \in {"ok", "error"}
          /\ ~(j <= z) => st2[rest[j]] \in Open
    BY <1>7, <2>1
  <2>4. MadeOf(d, ids, reqs, st, rest, z, st2, at)
    BY <1>5, <1>6, <1>8, <1>9, <2>3 DEF MadeOf
  <2>5. Lists(d, rest, z, reqs, st2)
    BY <2>2, <2>4, Relist
  <2> QED BY <2>1, <2>5
<1> QED BY <1>1, <1>3, <1>10

LEMMA RepliedLists ==
  ASSUME NEW a \in PeriphType, a.m_nProcessed <= Len(a.m_allIds),
         NEW d, NEW reqs \in Seq(Request), NEW st,
         Lists(d, a.m_allIds, 0, reqs, st), NEW w, NEW sent, NEW bContinuous \in BOOLEAN,
         Replied(bContinuous, a, w, sent), NEW st2, Answered_(d, sent, reqs, st, st2),
         NEW n, n = IF bContinuous THEN 0 ELSE a.m_nProcessed
  PROVE  Lists(d, w.m_allIds, n, reqs, st2) /\ Sends(d, sent, reqs, st)
<1>1. PICK ids \in Seq(Nat), ids2 \in Seq(Nat), m \in Nat :
        ids = a.m_allIds /\ ids2 = w.m_allIds /\ m = a.m_nProcessed
  BY DEF Replied, PeriphType
<1>2. /\ Len(ids) \in Nat /\ DOMAIN ids = 1 .. Len(ids) /\ m <= Len(ids)
      /\ DOMAIN ids2 = DOMAIN ids /\ 0 \notin DOMAIN reqs
  BY <1>1, LenProperties DEF Replied
<1>3. /\ DOMAIN sent = First(a, m)
      /\ \A r \in DOMAIN sent : \E k \in DOMAIN ids : ids[k] = r /\ k <= m
      /\ Sends(d, sent, reqs, st)
      /\ \A r \in DOMAIN sent :
           sent[r] \in IF bContinuous THEN {"streaming", "gone"} ELSE {"ok", "error"}
  <2>1. /\ DOMAIN sent = First(a, m)
        /\ \A r \in DOMAIN sent :
             sent[r] \in IF bContinuous THEN {"streaming", "gone"} ELSE {"ok", "error"}
    BY <1>1 DEF Replied
  <2>2. /\ \A r \in First(a, m) : r \in DOMAIN reqs /\ reqs[r].nChan = d /\ st[r] \in Open
        /\ \A r \in First(a, m) : \E k \in DOMAIN a.m_allIds : a.m_allIds[k] = r /\ k <= m
    <3>1. m <= Len(a.m_allIds) /\ Lists(d, a.m_allIds, 0, reqs, st)
      BY <1>1
    <3> QED BY <3>1, FirstOpen
  <2> QED BY <1>1, <2>1, <2>2 DEF Sends
<1>4. \A k \in DOMAIN ids :
       \/ /\ ids2[k] = ids[k]
          /\ k <= m /\ ids[k] # 0 => sent[ids[k]] # "gone"
       \/ /\ ids2[k] = 0 /\ k <= m
          /\ ids[k] # 0 => sent[ids[k]] \in {"ok", "gone"}
  BY <1>1 DEF Replied
<1>5. \A k \in DOMAIN ids : ids[k] # 0 => (ids[k] \in DOMAIN sent <=> k <= m)
  <2> SUFFICES ASSUME NEW k \in DOMAIN ids, ids[k] # 0
               PROVE  ids[k] \in DOMAIN sent <=> k <= m
    OBVIOUS
  <2>1. k <= m => ids[k] \in DOMAIN sent
    BY <1>1, <1>3, FirstIs
  <2>2. ASSUME ids[k] \in DOMAIN sent PROVE k <= m
    <3>1. PICK l \in DOMAIN ids : ids[l] = ids[k] /\ l <= m
      BY <1>3, <2>2
    <3>2. l = k
      BY <1>1, <3>1 DEF Lists
    <3> QED BY <3>1, <3>2
  <2> QED BY <2>1, <2>2
<1>6. \A k \in DOMAIN ids : ids[k] # 0 =>
        /\ ids[k] \in DOMAIN reqs
        /\ st2[ids[k]] = IF k <= m THEN sent[ids[k]] ELSE st[ids[k]]
        /\ st[ids[k]] \in Open
  <2> SUFFICES ASSUME NEW k \in DOMAIN ids, ids[k] # 0
               PROVE  /\ ids[k] \in DOMAIN reqs
                      /\ st2[ids[k]] = IF k <= m THEN sent[ids[k]] ELSE st[ids[k]]
                      /\ st[ids[k]] \in Open
    OBVIOUS
  <2>1. ~(k <= 0)
    BY <1>2
  <2>2. ids[k] \in DOMAIN reqs /\ reqs[ids[k]].nChan = d /\ st[ids[k]] \in Open
    BY <1>1, <2>1 DEF Lists
  <2> QED BY <1>5, <2>2 DEF Answered_
<1>7. PICK at \in [DOMAIN ids2 -> DOMAIN ids] : \A j \in DOMAIN ids2 : at[j] = j
  <2>1. [j \in DOMAIN ids2 |-> j] \in [DOMAIN ids2 -> DOMAIN ids]
    BY <1>2
  <2> QED BY <2>1
<1>8. \A j, l \in DOMAIN ids2 : at[j] = at[l] => j = l
  BY <1>7
<1>9. \A j \in DOMAIN ids2 : ids2[j] # 0 =>
        /\ ids2[j] = ids[at[j]]
        /\ j <= n => st2[ids2[j]] \in {"ok", "error"}
        /\ ~(j <= n) => st2[ids2[j]] \in Open
  <2> SUFFICES ASSUME NEW j \in DOMAIN ids2, ids2[j] # 0
               PROVE  /\ ids2[j] = ids[at[j]]
                      /\ j <= n => st2[ids2[j]] \in {"ok", "error"}
                      /\ ~(j <= n) => st2[ids2[j]] \in Open
    OBVIOUS
  <2>1. /\ j \in DOMAIN ids /\ ids2[j] = ids[j] /\ at[j] = j
        /\ j <= m => sent[ids[j]] # "gone"
    BY <1>2, <1>4, <1>7
  <2>2. j <= m => sent[ids[j]] \in IF bContinuous THEN {"streaming", "gone"} ELSE {"ok", "error"}
    BY <1>3, <1>5, <2>1
  <2>3. CASE bContinuous
    <3>1. n = 0 /\ ~(j <= 0)
      BY <1>2, <2>1, <2>3
    <3> QED BY <1>6, <2>1, <2>2, <2>3, <3>1 DEF Open
  <2>4. CASE ~bContinuous
    <3>1. n = m
      BY <1>1, <2>4
    <3> QED BY <1>6, <2>1, <2>2, <2>4, <3>1 DEF Open
  <2> QED BY <2>3, <2>4
<1>10. \A r \in DOMAIN reqs : reqs[r].nChan = d /\ st2[r] \in Open => st[r] \in Open
  BY <1>3 DEF Answered_, Sends
<1>11. \A k \in DOMAIN ids : ids[k] \in DOMAIN reqs /\ st2[ids[k]] \in Open =>
        \E j \in DOMAIN ids2 : ids2[j] = ids[k]
  <2> SUFFICES ASSUME NEW k \in DOMAIN ids, ids[k] \in DOMAIN reqs, st2[ids[k]] \in Open
               PROVE  ids2[k] = ids[k]
    BY <1>2
  <2>1. ids[k] # 0
    BY <1>2
  <2>2. CASE ids2[k] = 0 /\ k <= m /\ sent[ids[k]] \in {"ok", "gone"}
    BY <1>6, <2>1, <2>2 DEF Open
  <2> QED BY <1>4, <2>1, <2>2
<1>12. Lists(d, ids2, n, reqs, st2)
  <2>1. PICK z : z = 0
    OBVIOUS
  <2>2. Lists(d, ids, z, reqs, st)
    BY <1>1, <2>1
  <2>3. MadeOf(d, ids, reqs, st, ids2, n, st2, at)
    BY <1>7, <1>8, <1>9, <1>10, <1>11 DEF MadeOf
  <2> QED BY <2>2, <2>3, Relist
<1> QED BY <1>1, <1>3, <1>12

\* Work changes only the answers of the devices it calls.
LEMMA StatusIs ==
  ASSUME Stocked, Accounted, NEW ds, NEW why, NEW failed, NEW outcome,
         Work(ds, why, failed, outcome),
         UNCHANGED <<inits, requests>>
  PROVE  /\ DOMAIN status' = DOMAIN status /\ DOMAIN status = DOMAIN requests
         /\ status' = [r \in DOMAIN status |-> status'[r]]
         /\ \A d \in Devices :
              IF d \in ds THEN Answered_(d, DoWork(d, why, failed, outcome).sent, requests, status, status')
              ELSE \A r \in DOMAIN requests : requests[r].nChan = d => status'[r] = status[r]
<1>1. DOMAIN status = DOMAIN requests
  BY LenProperties DEF Accounted, Stocked
<1>2. PICK done : done = [d \in ds |-> DoWork(d, why, failed, outcome)]
  OBVIOUS
<1>3. status' = [r \in DOMAIN status |->
                  IF requests[r].nChan \in ds /\ r \in DOMAIN done[requests[r].nChan].sent
                  THEN done[requests[r].nChan].sent[r] ELSE status[r]]
  BY <1>2 DEF Work
<1>4. \A d \in ds : done[d] = DoWork(d, why, failed, outcome)
  BY <1>2
<1>5. ASSUME NEW d \in ds
      PROVE  Answered_(d, DoWork(d, why, failed, outcome).sent, requests, status, status')
  BY <1>1, <1>3, <1>4 DEF Answered_
<1>6. \A d : d \notin ds =>
        \A r \in DOMAIN requests : requests[r].nChan = d => status'[r] = status[r]
  BY <1>1, <1>3
<1> HIDE DEF Work
<1> QED BY <1>1, <1>3, <1>5, <1>6

LEMMA SameLists ==
  ASSUME NEW d, NEW ids, NEW n, NEW reqs, NEW st, Lists(d, ids, n, reqs, st), NEW st2,
         \A r \in DOMAIN reqs : reqs[r].nChan = d => st2[r] = st[r]
  PROVE  Lists(d, ids, n, reqs, st2)
BY DEF Lists

\* A call for a digital device: its list and the answers agree again.
LEMMA DeviceWork ==
  ASSUME Stocked, Accounted, pc \notin {"erase", "terminated"}, NEW d \in Writers \cup Readers,
         NEW why \in Reasons, NEW failed \in BOOLEAN, NEW outcome,
         NEW done, done = DoWork(d, why, failed, outcome),
         NEW st2, Answered_(d, done.sent, requests, status, st2),
         NEW w, w = done.dev, NEW n,
         n = IF /\ Ends(why, failed) /\ d \in Readers /\ ~inits[d].bContinuous
                /\ w.m_eState = "eActive" /\ w.m_bRead
             THEN w.m_nProcessed ELSE 0
  PROVE  /\ w \in PeriphType /\ w.m_nProcessed <= Len(w.m_allIds)
         /\ Lists(d, w.m_allIds, n, requests, st2)
         /\ Sends(d, done.sent, requests, status)
         /\ \A r \in DOMAIN done.sent : done.sent[r] \in Statuses
<1>1. PICK a \in PeriphType :
        /\ a = dev[d] /\ a.m_nProcessed <= Len(a.m_allIds)
        /\ Lists(d, a.m_allIds, 0, requests, status)
  <2>1. Served(d) /\ Answers(d) = 0
    BY DEF Accounted, Answers
  <2> QED BY <2>1 DEF Served
<1>2. /\ requests \in Seq(Request) /\ d \in Devices /\ inits[d] \in Inits
      /\ ~(d \in Writers /\ d \in Readers)
  BY DevicesFinite DEF Stocked
<1>3. CASE d \in Writers
  <2>1. WriterStep(a, w, done.sent)
    <3>1. CASE inits[d].kind = "MultiW"
      <4>1. done = MultiWDoWork(a, why, failed)
        BY <1>1, <3>1 DEF DoWork
      <4> QED BY <4>1, MultiWDoes
    <3>2. CASE inits[d].kind = "PinW"
      <4>1. done = PinWDoWork(a, why, failed)
        BY <1>1, <3>2 DEF DoWork
      <4> QED BY <4>1, PinWDoes
    <3> QED BY <1>3, <3>1, <3>2 DEF Writers, Kind
  <2>2. /\ w \in PeriphType /\ w.m_nProcessed <= Len(w.m_allIds)
        /\ \E m \in Nat : \E message \in {"ok", "error", "DEVICE_CLOSING"} :
             Served_Off(a, w, done.sent, m, message)
    BY <1>1, <2>1, WriterStepIs
  <2>3. PICK m \in Nat :  \E message \in {"ok", "error", "DEVICE_CLOSING"} :
                            Served_Off(a, w, done.sent, m, message)
    BY <2>2
  <2>4. PICK message \in {"ok", "error", "DEVICE_CLOSING"} :
               Served_Off(a, w, done.sent, m, message)
    BY <2>3
  <2>5. message \notin Open /\ message \in Statuses
    BY DEF Open, Statuses
  <2>6. Lists(d, w.m_allIds, 0, requests, st2) /\ Sends(d, done.sent, requests, status)
    <3>1. PICK sent : sent = done.sent
      OBVIOUS
    <3>2. Served_Off(a, w, sent, m, message) /\ Answered_(d, sent, requests, status, st2)
      BY <2>4, <3>1
    <3>3. Lists(d, w.m_allIds, 0, requests, st2) /\ Sends(d, sent, requests, status)
      BY <1>1, <1>2, <2>5, <3>2, TakenOff
    <3> QED BY <3>1, <3>3
  <2>7. \A r \in DOMAIN done.sent : done.sent[r] \in Statuses
    BY <2>4, <2>5 DEF Served_Off
  <2>8. n = 0
    BY <1>2, <1>3
  <2> QED BY <2>2, <2>6, <2>7, <2>8
<1>4. CASE d \in Readers
  <2>1. inits[d].kind \in {"MultiR", "PinR"} /\ inits[d].bContinuous \in BOOLEAN
    <3>1. inits[d].kind \in {"MultiR", "PinR"}
      BY <1>4 DEF Readers, Kind
    <3> QED BY <1>2, <3>1 DEF Inits, MultiInits, PinInits, ADCInits
  <2>2. PICK lost : lost = {r \in DOMAIN requests : requests[r].llId \in gone} \cup outcome.refused
    OBVIOUS
  <2>3. PICK bContinuous \in BOOLEAN : bContinuous = inits[d].bContinuous
    BY <2>1
  <2>4. done = MultiRDoWork(bContinuous, a, why, failed, lost)
    BY <1>1, <2>1, <2>2, <2>3 DEF DoWork, PinRDoWork
  <2>5. ReaderStep(bContinuous, a, why, failed, w, done.sent)
    BY <1>1, <2>4, ReaderDoes
  <2>6. PICK sent : sent = done.sent
    OBVIOUS
  <2>7. CASE /\ \E m \in Nat : \E message \in {"ok", "DEVICE_CLOSING"} :
                  Served_Off(a, w, sent, m, message)
             /\ Ends(why, failed) => ~(w.m_eState = "eActive" /\ w.m_bRead)
    <3>1. PICK m \in Nat :  \E message \in {"ok", "DEVICE_CLOSING"} :
                              Served_Off(a, w, sent, m, message)
      BY <2>7
    <3>2. PICK message \in {"ok", "DEVICE_CLOSING"} : Served_Off(a, w, sent, m, message)
      BY <3>1
    <3>3. message \notin Open /\ message \in Statuses
      BY DEF Open, Statuses
    <3>4. Answered_(d, sent, requests, status, st2)
      BY <2>6
    <3>5. Lists(d, w.m_allIds, 0, requests, st2) /\ Sends(d, sent, requests, status)
      BY <1>1, <1>2, <3>2, <3>3, <3>4, TakenOff
    <3>6. \A r \in DOMAIN sent : sent[r] \in Statuses
      BY <3>2, <3>3 DEF Served_Off
    <3>7. n = 0
      BY <2>7
    <3> QED BY <2>5, <2>6, <3>5, <3>6, <3>7 DEF ReaderStep
  <2>8. CASE Replied(bContinuous, a, w, sent) /\ Ends(why, failed)
    <3>1. Answered_(d, sent, requests, status, st2)
      BY <2>6
    <3>2. w \in PeriphType /\ w.m_nProcessed <= Len(w.m_allIds)
      BY <2>5 DEF ReaderStep
    <3>3. w.m_eState = "eActive" /\ w.m_bRead /\ w.m_nProcessed = a.m_nProcessed
      BY <2>8 DEF Replied, PeriphType
    <3>4. n = IF bContinuous THEN 0 ELSE a.m_nProcessed
      BY <1>4, <2>3, <2>8, <3>3
    <3>5. Lists(d, w.m_allIds, n, requests, st2) /\ Sends(d, sent, requests, status)
      BY <1>1, <1>2, <2>8, <3>1, <3>4, RepliedLists
    <3>6. \A r \in DOMAIN sent : sent[r] \in Statuses
      BY <2>8 DEF Replied, Statuses
    <3> QED BY <2>6, <3>2, <3>5, <3>6
  <2> QED BY <2>5, <2>6, <2>7, <2>8 DEF ReaderStep
<1> QED BY <1>3, <1>4

\* Who was answered waited for it.
Awaited == \A r \in DOMAIN status : status'[r] # status[r] => status[r] \in Open

LEMMA WorkAccounts ==
  ASSUME Stocked, Accounted, pc \notin {"erase", "terminated"}, NEW ds, NEW why \in Reasons,
         NEW failed \in BOOLEAN, NEW outcome, Work(ds, why, failed, outcome),
         UNCHANGED <<inits, requests>>,
         pc' = "erase" <=> Ends(why, failed), pc' = "erase" => ds = Devices
  PROVE  Accounted' /\ Awaited
<1>1. /\ Devices' = Devices /\ ADCs' = ADCs /\ Readers' = Readers /\ Writers' = Writers
      /\ ADCs \cup Writers \cup Readers = Devices
      /\ ADCs \cap (Writers \cup Readers) = {}
      /\ ADCs \subseteq Devices /\ Writers \subseteq Devices /\ Readers \subseteq Devices
      /\ \A d \in Devices : inits[d] \in Inits
  BY DevicesFinite DEF Stocked, Devices, ADCs, Readers, Writers, Kind
<1>2. /\ DOMAIN status' = DOMAIN status /\ DOMAIN status = DOMAIN requests
      /\ status' = [r \in DOMAIN status |-> status'[r]]
      /\ \A d \in Devices :
           IF d \in ds THEN Answered_(d, DoWork(d, why, failed, outcome).sent, requests, status, status')
           ELSE \A r \in DOMAIN requests : requests[r].nChan = d => status'[r] = status[r]
  BY StatusIs
<1>3. /\ \A d \in Devices : dev'[d] = IF d \in ds THEN DoWork(d, why, failed, outcome).dev ELSE dev[d]
  BY WorkIs
<1>4. PICK st2 : st2 = status'
  OBVIOUS
<1>5. ASSUME NEW d \in Writers \cup Readers, d \in ds
      PROVE  /\ Served(d)'
             /\ Sends(d, DoWork(d, why, failed, outcome).sent, requests, status)
             /\ \A r \in DOMAIN DoWork(d, why, failed, outcome).sent :
                  DoWork(d, why, failed, outcome).sent[r] \in Statuses
  <2>1. PICK done : done = DoWork(d, why, failed, outcome)
    OBVIOUS
  <2>2. PICK w : w = done.dev
    OBVIOUS
  <2>3. PICK n : n = IF /\ Ends(why, failed) /\ d \in Readers /\ ~inits[d].bContinuous
                        /\ w.m_eState = "eActive" /\ w.m_bRead
                     THEN w.m_nProcessed ELSE 0
    OBVIOUS
  <2>4. Answered_(d, done.sent, requests, status, st2)
    BY <1>1, <1>2, <1>4, <1>5, <2>1
  <2>5. /\ w \in PeriphType /\ w.m_nProcessed <= Len(w.m_allIds)
        /\ Lists(d, w.m_allIds, n, requests, st2)
        /\ Sends(d, done.sent, requests, status)
        /\ \A r \in DOMAIN done.sent : done.sent[r] \in Statuses
    BY <2>1, <2>2, <2>3, <2>4, DeviceWork
  <2>6. dev'[d] = w
    BY <1>1, <1>3, <1>5, <2>1, <2>2
  <2>7. Answers(d)' = n
    BY <1>1, <2>3, <2>6 DEF Answers
  <2>8. Served(d)'
    BY <1>4, <2>5, <2>6, <2>7 DEF Served
  <2> QED BY <2>1, <2>5, <2>8
<1>6. ASSUME NEW d \in Writers \cup Readers, d \notin ds
      PROVE  Served(d)'
  <2>1. Answers(d)' = 0 /\ Answers(d) = 0
    BY <1>1, <1>6 DEF Answers
  <2>2. dev'[d] = dev[d] /\ Served(d)
    BY <1>1, <1>3, <1>6 DEF Accounted
  <2>3. PICK a, z : a = dev[d] /\ z = 0
    OBVIOUS
  <2>4. Lists(d, a.m_allIds, z, requests, status)
    BY <2>1, <2>2, <2>3 DEF Served
  <2>5. \A r \in DOMAIN requests : requests[r].nChan = d => st2[r] = status[r]
    BY <1>1, <1>2, <1>4, <1>6
  <2>6. Lists(d, a.m_allIds, z, requests, st2)
    BY <2>4, <2>5, SameLists
  <2> QED BY <1>4, <2>1, <2>2, <2>3, <2>6 DEF Served
<1>7. ASSUME NEW d \in ADCs, d \in ds
      PROVE  /\ Triggered(d)'
             /\ Sends(d, DoWork(d, why, failed, outcome).sent, requests, status)
             /\ \A r \in DOMAIN DoWork(d, why, failed, outcome).sent :
                  DoWork(d, why, failed, outcome).sent[r] \in Statuses
  <2>1. PICK done : done = DoWork(d, why, failed, outcome)
    OBVIOUS
  <2>2. PICK a, w : a = dev[d] /\ w = done.dev
    OBVIOUS
  <2>3. /\ w.pc = a.pc /\ w.llId = a.llId
        /\ w.m_llId = IF why = "eInactivateState" THEN 0 ELSE a.m_llId
    BY <2>1, <2>2, WorkADC
  <2>4. dev'[d] = w
    BY <1>1, <1>3, <1>7, <2>1, <2>2
  <2>5. done.sent = [r \in ADCTold(a, why) |-> "DEVICE_CLOSING"]
    <3>1. inits[d].kind = "ADC"
      BY DEF ADCs, Kind
    <3> QED BY <2>1, <2>2, <3>1 DEF DoWork, Does
  <2>6. Triggered(d)
    BY DEF Accounted
  <2>7. /\ DOMAIN done.sent = IF why = "eInactivateState" THEN {a.m_llId} \ {0} ELSE {}
        /\ \A r \in DOMAIN done.sent : done.sent[r] = "DEVICE_CLOSING"
    BY <2>5 DEF ADCTold
  <2>8. Answered_(d, done.sent, requests, status, st2)
    BY <1>1, <1>2, <1>4, <1>7, <2>1
  <2>9. Triggered(d)'
    <3>1. w.m_llId # 0 => /\ w.m_llId \in DOMAIN requests /\ requests[w.m_llId].nChan = d
                          /\ st2[w.m_llId] \in Open
      BY <2>2, <2>3, <2>6, <2>7, <2>8 DEF Triggered, Answered_
    <3>2. w.llId # 0 => /\ w.llId \in DOMAIN requests /\ requests[w.llId].nChan = d
                        /\ st2[w.llId] \in Open \cup {"DEVICE_CLOSING", "late"}
                        /\ w.pc \in {"extract", "deleted"}
      BY <2>2, <2>3, <2>6, <2>7, <2>8 DEF Triggered, Answered_
    <3> QED BY <1>4, <2>4, <3>1, <3>2 DEF Triggered
  <2>10. Sends(d, done.sent, requests, status)
    BY <2>2, <2>6, <2>7 DEF Sends, Triggered
  <2>11. \A r \in DOMAIN done.sent : done.sent[r] \in Statuses
    BY <2>7 DEF Statuses
  <2> QED BY <2>1, <2>9, <2>10, <2>11
<1>8. ASSUME NEW d \in ADCs, d \notin ds
      PROVE  Triggered(d)'
  <2>1. dev'[d] = dev[d] /\ Triggered(d)
    BY <1>1, <1>3, <1>8 DEF Accounted
  <2>2. \A r \in DOMAIN requests : requests[r].nChan = d => status'[r] = status[r]
    BY <1>1, <1>2, <1>8
  <2> QED BY <2>1, <2>2 DEF Triggered
<1>9. ASSUME NEW r \in DOMAIN requests
      PROVE  /\ status'[r] \in Statuses
             /\ status'[r] # status[r] => status[r] \in Open
  <2>1. PICK d : d = requests[r].nChan
    OBVIOUS
  <2>2. d \in Devices /\ status[r] \in Statuses
    BY <1>2, <2>1, ElementOfSeq, LenProperties DEF Accounted
  <2>3. CASE d \in ds
    <3>1. PICK sent : sent = DoWork(d, why, failed, outcome).sent
      OBVIOUS
    <3>2. /\ Sends(d, sent, requests, status)
          /\ \A q \in DOMAIN sent : sent[q] \in Statuses
      BY <1>1, <1>5, <1>7, <2>2, <2>3, <3>1
    <3>3. Answered_(d, sent, requests, status, st2)
      BY <1>2, <1>4, <2>2, <2>3, <3>1
    <3>4. st2[r] = IF r \in DOMAIN sent THEN sent[r] ELSE status[r]
      BY <2>1, <3>3 DEF Answered_
    <3> QED BY <1>4, <2>2, <3>2, <3>4 DEF Sends
  <2>4. CASE d \notin ds
    BY <1>2, <2>1, <2>2, <2>4
  <2> QED BY <2>3, <2>4
<1>10. Awaited
  BY <1>2, <1>9 DEF Awaited
<1>11. status' \in Seq(Statuses) /\ Len(status') = Len(requests)
  <2>1. Len(status) \in Nat /\ DOMAIN status = 1 .. Len(status) /\ Len(status) = Len(requests)
    BY LenProperties DEF Accounted
  <2>2. st2 \in [1 .. Len(status) -> Statuses]
    BY <1>2, <1>4, <1>9, <2>1
  <2>3. st2 \in Seq(Statuses)
    BY <2>1, <2>2, SeqDef
  <2> QED BY <1>4, <2>1, <2>2, <2>3, LenProperties
<1>12. \A r \in DOMAIN requests : requests[r].nChan \in Devices
  BY DEF Accounted
<1> QED BY <1>1, <1>5, <1>6, <1>7, <1>8, <1>10, <1>11, <1>12 DEF Accounted

\* What a digital device does with a new request: it lists it, or refuses it.
Adds(a, w, sent, r) ==
  /\ w \in PeriphType /\ w.m_nProcessed = a.m_nProcessed /\ w.m_eState = a.m_eState
  /\ w.m_bRead = a.m_bRead
  /\ \/ /\ w.m_allIds = a.m_allIds /\ DOMAIN sent = {r}
        /\ sent[r] \in {"INACTIVE_DEVICE", "BAD_INPUT_PARAMS", "ALREADY_OPEN"}
     \/ w.m_allIds = Append(a.m_allIds, r) /\ DOMAIN sent = {}

LEMMA MultiWAdds ==
  ASSUME NEW a \in PeriphType, NEW r \in Nat, NEW request \in Writes,
         NEW done, done = MultiWProcessData(a, r, request)
  PROVE  Adds(a, done.dev, done.sent, r)
<1>1. request.pins \in SUBSET Pins /\ request.outOfRange \in BOOLEAN
  BY FTDIAssumption
<1>2. PICK data \in [Pins -> Nat] :
        data = [p \in Pins |-> IF p \in request.pins THEN r ELSE a.data[p]]
  BY DEF PeriphType
<1>3. PICK stored : stored = [a EXCEPT !.data = data]
  OBVIOUS
<1>4. stored = [a EXCEPT !.data = [p \in Pins |-> IF p \in request.pins THEN r ELSE a.data[p]]]
  BY <1>2, <1>3
<1>5. /\ stored \in PeriphType /\ stored.m_allIds = a.m_allIds
      /\ stored.m_nProcessed = a.m_nProcessed /\ stored.m_eState = a.m_eState
      /\ stored.m_bRead = a.m_bRead
  BY <1>3 DEF PeriphType
<1>6. CASE a.m_eState # "eActive"
  <2>1. done = [dev |-> a, sent |-> [q \in {r} |-> "INACTIVE_DEVICE"]]
    BY <1>6 DEF MultiWProcessData, Does
  <2> QED BY <2>1 DEF Adds
<1>7. CASE a.m_eState = "eActive" /\ request.outOfRange
  <2>1. done = [dev |-> stored, sent |-> [q \in {r} |-> "BAD_INPUT_PARAMS"]]
    BY <1>4, <1>7 DEF MultiWProcessData, Does
  <2> QED BY <1>5, <2>1 DEF Adds
<1>8. CASE a.m_eState = "eActive" /\ ~request.outOfRange
  <2>1. PICK ids \in Seq(Nat) : ids = Append(a.m_allIds, r)
    BY AppendProperties DEF PeriphType
  <2>2. PICK w : w = [stored EXCEPT !.m_bUpdated = TRUE, !.m_hNext = TRUE, !.m_allIds = ids]
    OBVIOUS
  <2>3. done = [dev |-> w, sent |-> <<>>]
    BY <1>4, <1>5, <1>8, <2>1, <2>2 DEF MultiWProcessData, Quiet, Does
  <2>4. /\ w \in PeriphType /\ w.m_allIds = ids
        /\ w.m_nProcessed = a.m_nProcessed /\ w.m_eState = a.m_eState
        /\ w.m_bRead = a.m_bRead
    BY <1>5, <2>1, <2>2 DEF PeriphType
  <2> QED BY <2>1, <2>3, <2>4 DEF Adds
<1> QED BY <1>1, <1>6, <1>7, <1>8

LEMMA PinWAdds ==
  ASSUME NEW a \in PeriphType, NEW r \in Nat, NEW request \in Writes,
         NEW done, done = PinWProcessData(a, r, request)
  PROVE  Adds(a, done.dev, done.sent, r)
<1>1. request.pins \in SUBSET Pins /\ request.outOfRange \in BOOLEAN
  BY FTDIAssumption
<1>2. CASE request.outOfRange
  <2>1. done = [dev |-> a, sent |-> [q \in {r} |-> "BAD_INPUT_PARAMS"]]
    BY <1>2 DEF PinWProcessData, Does
  <2> QED BY <2>1 DEF Adds
<1>3. CASE ~request.outOfRange /\ a.m_eState # "eActive"
  <2>1. done = [dev |-> a, sent |-> [q \in {r} |-> "INACTIVE_DEVICE"]]
    BY <1>3 DEF PinWProcessData, Does
  <2> QED BY <2>1 DEF Adds
<1>4. CASE ~request.outOfRange /\ a.m_eState = "eActive"
  <2>1. PICK data \in [Pins -> Nat] :
          data = [p \in Pins |-> IF p \in request.pins THEN r ELSE a.data[p]]
    BY DEF PeriphType
  <2>2. PICK ids \in Seq(Nat) : ids = Append(a.m_allIds, r)
    BY AppendProperties DEF PeriphType
  <2>3. PICK seq \in SUBSET Pins : seq = a.seq \cup request.pins
    BY <1>1 DEF PeriphType
  <2>4. PICK w : w = [a EXCEPT !.data = data, !.seq = seq,
                               !.m_bUpdated = TRUE, !.m_hNext = TRUE, !.m_allIds = ids]
    OBVIOUS
  <2>5. done = [dev |-> w, sent |-> <<>>]
    BY <1>4, <2>1, <2>2, <2>3, <2>4 DEF PinWProcessData, Quiet, Does
  <2>6. /\ w \in PeriphType /\ w.m_allIds = ids
        /\ w.m_nProcessed = a.m_nProcessed /\ w.m_eState = a.m_eState
        /\ w.m_bRead = a.m_bRead
    BY <2>4 DEF PeriphType
  <2> QED BY <2>2, <2>5, <2>6 DEF Adds
<1> QED BY <1>1, <1>2, <1>3, <1>4

LEMMA TriggerAdds ==
  ASSUME NEW a \in PeriphType, NEW r \in Nat, NEW bContinuous \in BOOLEAN, NEW mine,
         NEW done, done = MultiRProcessData(bContinuous, a, r, "eTrigger", mine)
  PROVE  Adds(a, done.dev, done.sent, r)
<1>1. CASE a.m_eState # "eActive"
  <2>1. done = [dev |-> a, sent |-> [q \in {r} |-> "INACTIVE_DEVICE"]]
    BY <1>1 DEF MultiRProcessData, Does
  <2> QED BY <2>1 DEF Adds
<1>2. CASE a.m_eState = "eActive" /\ bContinuous /\ mine # {}
  <2>1. done = [dev |-> a, sent |-> [q \in {r} |-> "ALREADY_OPEN"]]
    BY <1>2 DEF MultiRProcessData, Does
  <2> QED BY <2>1 DEF Adds
<1>3. CASE a.m_eState = "eActive" /\ ~(bContinuous /\ mine # {})
  <2>1. PICK ids \in Seq(Nat) : ids = Append(a.m_allIds, r)
    BY AppendProperties DEF PeriphType
  <2>2. PICK w : w = [a EXCEPT !.m_allIds = ids, !.m_hNext = TRUE]
    OBVIOUS
  <2>3. done = [dev |-> w, sent |-> <<>>]
    BY <1>3, <2>1, <2>2 DEF MultiRProcessData, Quiet, Does
  <2>4. /\ w \in PeriphType /\ w.m_allIds = ids
        /\ w.m_nProcessed = a.m_nProcessed /\ w.m_eState = a.m_eState
        /\ w.m_bRead = a.m_bRead
    BY <2>1, <2>2 DEF PeriphType
  <2> QED BY <2>1, <2>3, <2>4 DEF Adds
<1> QED BY <1>1, <1>2, <1>3

\* A new request, and what was there before.
LEMMA NewRequest ==
  ASSUME Stocked, Accounted, NEW c \in Clients, NEW d \in Devices, NEW pins \in SUBSET Pins,
         NEW request, request = [llId |-> c, nChan |-> d, pins |-> pins],
         NEW answer \in Statuses,
         requests' = Append(requests, request), status' = Append(status, answer)
  PROVE  /\ request \in Request /\ requests \in Seq(Request) /\ Len(status) = Len(requests)
         /\ Len(requests) \in Nat /\ DOMAIN requests = 1 .. Len(requests)
         /\ DOMAIN status = DOMAIN requests
         /\ DOMAIN requests' = 1 .. Len(requests) + 1
         /\ \A q \in DOMAIN requests : requests'[q] = requests[q] /\ status'[q] = status[q]
         /\ requests'[Len(requests) + 1] = request /\ status'[Len(requests) + 1] = answer
         /\ status' \in Seq(Statuses) /\ Len(status') = Len(requests')
         /\ \A q \in DOMAIN requests' : requests'[q].nChan \in Devices
         /\ Awaited
<1>1. request \in Request
  BY DevicesFinite, FTDIAssumption DEF Request, Clients, Stocked
<1>2. /\ requests \in Seq(Request) /\ Len(status) = Len(requests) /\ status \in Seq(Statuses)
      /\ Len(requests) \in Nat /\ DOMAIN requests = 1 .. Len(requests)
      /\ DOMAIN status = DOMAIN requests
  BY LenProperties DEF Stocked, Accounted
<1>3. /\ Len(requests') = Len(requests) + 1 /\ requests' \in Seq(Request)
      /\ \A q \in 1 .. Len(requests) : requests'[q] = requests[q]
      /\ requests'[Len(requests) + 1] = request
  BY <1>1, <1>2, AppendProperties
<1>4. /\ Len(status') = Len(requests) + 1 /\ status' \in Seq(Statuses)
      /\ \A q \in 1 .. Len(requests) : status'[q] = status[q]
      /\ status'[Len(requests) + 1] = answer
  BY <1>2, AppendProperties
<1>5. DOMAIN requests' = 1 .. Len(requests) + 1
  BY <1>3, LenProperties
<1>6. \A q \in DOMAIN requests' : requests'[q].nChan \in Devices
  <2>1. \A q \in DOMAIN requests' : q \in DOMAIN requests \/ q = Len(requests) + 1
    BY <1>2, <1>5
  <2>2. request.nChan \in Devices
    OBVIOUS
  <2> QED BY <1>2, <1>3, <2>1, <2>2 DEF Accounted
<1>7. Awaited
  BY <1>2, <1>4 DEF Awaited
<1> QED BY <1>1, <1>2, <1>3, <1>4, <1>5, <1>6, <1>7

LEMMA AddAccounts ==
  ASSUME Stocked, Accounted, NEW c \in Clients, NEW d \in Writers \cup Readers,
         NEW r, r = Len(requests) + 1, NEW pins \in SUBSET Pins,
         NEW w, NEW sent, Adds(dev[d], w, sent, r), dev' = [dev EXCEPT ![d] = w],
         requests' = Append(requests, [llId |-> c, nChan |-> d, pins |-> pins]),
         status' = Append(status, IF r \in DOMAIN sent THEN sent[r] ELSE "waiting"),
         UNCHANGED <<inits, pc>>, pc # "terminated"
  PROVE  Accounted' /\ Awaited
<1>1. /\ Devices' = Devices /\ ADCs' = ADCs /\ Readers' = Readers /\ Writers' = Writers
      /\ ADCs \cap (Writers \cup Readers) = {} /\ d \in Devices
      /\ DOMAIN dev = Devices /\ ADCs \subseteq Devices
      /\ Writers \subseteq Devices /\ Readers \subseteq Devices
  BY DevicesFinite DEF Stocked, Devices, ADCs, Readers, Writers, Kind
<1>2. PICK request : request = [llId |-> c, nChan |-> d, pins |-> pins]
  OBVIOUS
<1>3. PICK answer : answer = IF r \in DOMAIN sent THEN sent[r] ELSE "waiting"
  OBVIOUS
<1>4. PICK a : a = dev[d]
  OBVIOUS
<1>5. \/ w.m_allIds = a.m_allIds /\ answer \in Statuses \ Open
      \/ w.m_allIds = Append(a.m_allIds, r) /\ answer = "waiting"
  BY <1>3, <1>4 DEF Adds, Statuses, Open
<1>6. answer \in Statuses /\ request.nChan = d
  BY <1>2, <1>5 DEF Statuses
<1>7. /\ request \in Request /\ requests \in Seq(Request) /\ Len(status) = Len(requests)
      /\ Len(requests) \in Nat /\ DOMAIN requests = 1 .. Len(requests)
      /\ DOMAIN status = DOMAIN requests
      /\ DOMAIN requests' = 1 .. Len(requests) + 1
      /\ \A q \in DOMAIN requests : requests'[q] = requests[q] /\ status'[q] = status[q]
      /\ status' \in Seq(Statuses) /\ Len(status') = Len(requests')
      /\ \A q \in DOMAIN requests' : requests'[q].nChan \in Devices
      /\ Awaited
  BY <1>1, <1>2, <1>3, <1>6, NewRequest
<1>8. PICK reqs2, st2 : reqs2 = requests' /\ st2 = status'
  OBVIOUS
<1>9. reqs2 = Append(requests, request) /\ st2 = Append(status, answer)
  BY <1>2, <1>3, <1>8
<1>10. status \in Seq(Statuses)
  BY DEF Accounted
<1>11. ASSUME NEW e \in Writers \cup Readers, e # d
       PROVE  Served(e)'
  <2>1. dev'[e] = dev[e] /\ Served(e)
    BY <1>1, <1>11 DEF Accounted
  <2>2. Answers(e)' = Answers(e)
    BY <1>1, <2>1 DEF Answers
  <2>3. PICK ids, n : ids = dev[e].m_allIds /\ n = Answers(e)
    OBVIOUS
  <2>4. Lists(e, ids, n, requests, status)
    BY <2>1, <2>3 DEF Served
  <2>5. Lists(e, ids, n, reqs2, st2)
    BY <1>6, <1>7, <1>9, <1>10, <1>11, <2>4, NotListed
  <2> QED BY <1>8, <2>1, <2>2, <2>3, <2>5 DEF Served
<1>12. Served(d)'
  <2>1. Served(d) /\ dev'[d] = w
    BY <1>1 DEF Accounted
  <2>2. /\ w \in PeriphType /\ w.m_nProcessed = a.m_nProcessed /\ w.m_eState = a.m_eState
        /\ w.m_bRead = a.m_bRead
    BY <1>4 DEF Adds
  <2>3. Answers(d)' = Answers(d)
    BY <1>1, <1>4, <2>1, <2>2 DEF Answers
  <2>4. PICK n : n = Answers(d)
    OBVIOUS
  <2>5. Lists(d, a.m_allIds, n, requests, status) /\ a \in PeriphType
        /\ a.m_nProcessed <= Len(a.m_allIds)
    BY <1>4, <2>1, <2>4 DEF Served
  <2>6. a.m_allIds \in Seq(Nat) /\ Len(a.m_allIds) \in Nat /\ a.m_nProcessed \in Nat
    BY <2>5, LenProperties DEF PeriphType
  <2>7. n \in Nat /\ n <= Len(a.m_allIds)
    BY <1>4, <2>4, <2>5, <2>6 DEF Answers
  <2>8. CASE w.m_allIds = a.m_allIds /\ answer \in Statuses \ Open
    <3>1. PICK ids : ids = a.m_allIds
      OBVIOUS
    <3>2. Lists(d, ids, n, requests, status) /\ answer \notin Open
      BY <2>5, <2>8, <3>1
    <3>3. Lists(d, ids, n, reqs2, st2)
      BY <1>6, <1>7, <1>9, <1>10, <3>2, NotListed
    <3> QED BY <1>8, <2>1, <2>2, <2>3, <2>4, <2>5, <2>8, <3>1, <3>3 DEF Served
  <2>9. CASE w.m_allIds = Append(a.m_allIds, r) /\ answer = "waiting"
    <3>1. PICK ids \in Seq(Nat) : ids = a.m_allIds
      BY <2>6
    <3>2. Lists(d, ids, n, requests, status)
      BY <2>5, <3>1
    <3>3. Lists(d, Append(ids, r), n, reqs2, st2)
      BY <1>6, <1>7, <1>9, <1>10, <2>7, <2>9, <3>1, <3>2, Enlisted
    <3>4. a.m_nProcessed <= Len(w.m_allIds)
      <4>1. r \in Nat
        BY <1>7
      <4>2. Len(w.m_allIds) = Len(a.m_allIds) + 1
        BY <2>6, <2>9, <4>1, AppendProperties
      <4> QED BY <2>5, <2>6, <4>2
    <3> QED BY <1>8, <2>1, <2>2, <2>3, <2>4, <2>9, <3>1, <3>3, <3>4 DEF Served
  <2> QED BY <1>5, <2>8, <2>9
<1>13. ASSUME NEW e \in ADCs PROVE Triggered(e)'
  <2>1. dev'[e] = dev[e] /\ Triggered(e) /\ DOMAIN requests \subseteq DOMAIN requests'
    BY <1>1, <1>7 DEF Accounted
  <2> QED BY <1>7, <2>1 DEF Triggered
<1> QED BY <1>1, <1>7, <1>11, <1>12, <1>13 DEF Accounted

LEMMA WriteDataAccounts ==
  ASSUME Stocked, Accounted, NEW c \in Clients, NEW d \in Devices, NEW request \in Writes,
         WriteData(c, d, request)
  PROVE  Accounted' /\ Awaited
<1>1. PICK r \in Nat : r = Len(requests) + 1
  BY LenProperties DEF Stocked
<1>2. PICK done : done = IF inits[d].kind = "MultiW" THEN MultiWProcessData(dev[d], r, request)
                         ELSE PinWProcessData(dev[d], r, request)
  OBVIOUS
<1>3. /\ d \in Writers /\ dev' = [dev EXCEPT ![d] = done.dev]
      /\ requests' = Append(requests, [llId |-> c, nChan |-> d, pins |-> request.pins])
      /\ status' = Append(status, IF r \in DOMAIN done.sent THEN done.sent[r] ELSE "waiting")
      /\ UNCHANGED <<inits, pc>> /\ pc # "terminated"
  BY <1>1, <1>2 DEF WriteData, Asked, threadVars, MayAsk, CommOpen, Stocked
<1>4. dev[d] \in PeriphType
  BY <1>3 DEF Accounted, Served
<1>5. Adds(dev[d], done.dev, done.sent, r)
  BY <1>2, <1>4, MultiWAdds, PinWAdds
<1>6. request.pins \in SUBSET Pins
  BY FTDIAssumption
<1>7. PICK w, sent, pins : w = done.dev /\ sent = done.sent /\ pins = request.pins
  OBVIOUS
<1> QED BY <1>1, <1>3, <1>5, <1>6, <1>7, AddAccounts

LEMMA TriggerAccounts ==
  ASSUME Stocked, Accounted, NEW c \in Clients, NEW d \in Devices, Trigger(c, d)
  PROVE  Accounted' /\ Awaited
<1>1. PICK r \in Nat : r = Len(requests) + 1
  BY LenProperties DEF Stocked
<1>2. PICK done : done = ReaderProcessData(d, r, "eTrigger", Mine(c, d))
  OBVIOUS
<1>3. PICK pins \in SUBSET Pins : pins = {}
  OBVIOUS
<1>4. /\ d \in Readers /\ dev' = [dev EXCEPT ![d] = done.dev]
      /\ requests' = Append(requests, [llId |-> c, nChan |-> d, pins |-> pins])
      /\ status' = Append(status, IF r \in DOMAIN done.sent THEN done.sent[r] ELSE "waiting")
      /\ UNCHANGED <<inits, pc>> /\ pc # "terminated"
  BY <1>1, <1>2, <1>3 DEF Trigger, Asked, threadVars, MayAsk, CommOpen, Stocked
<1>5. dev[d] \in PeriphType
  BY <1>4 DEF Accounted, Served
<1>6. Adds(dev[d], done.dev, done.sent, r)
  <2>1. inits[d].kind \in {"MultiR", "PinR"} /\ inits[d] \in Inits
    BY <1>4, DevicesFinite DEF Stocked, Readers, Kind
  <2>2. inits[d].bContinuous \in BOOLEAN
    BY <2>1 DEF Inits, MultiInits, PinInits, ADCInits
  <2>3. PICK bContinuous \in BOOLEAN : bContinuous = inits[d].bContinuous
    BY <2>2
  <2>4. PICK mine : mine = Mine(c, d)
    OBVIOUS
  <2>5. done = MultiRProcessData(bContinuous, dev[d], r, "eTrigger", mine)
    BY <1>2, <2>3, <2>4 DEF ReaderProcessData, PinRProcessData
  <2> QED BY <1>5, <2>5, TriggerAdds
<1>7. PICK w, sent : w = done.dev /\ sent = done.sent
  OBVIOUS
<1> QED BY <1>1, <1>4, <1>6, <1>7, AddAccounts

LEMMA TriggerADCAccounts ==
  ASSUME Stocked, Accounted, NEW c \in Clients, NEW d \in Devices, TriggerADC(c, d)
  PROVE  Accounted' /\ Awaited
<1>1. PICK r \in Nat : r = Len(requests) + 1
  BY LenProperties DEF Stocked
<1>2. PICK error : error = TriggerError(dev[d])
  OBVIOUS
<1>3. PICK pins \in SUBSET Pins : pins = {}
  OBVIOUS
<1>4. PICK request : request = [llId |-> c, nChan |-> d, pins |-> pins]
  OBVIOUS
<1>5. PICK answer : answer = IF error = "none" THEN "waiting" ELSE error
  OBVIOUS
<1>6. error \in {"none", "INACTIVE_DEVICE", "ALREADY_OPEN"}
  BY <1>2 DEF TriggerError
<1>7. answer \in Statuses
  BY <1>5, <1>6 DEF Statuses
<1>8. /\ d \in ADCs /\ dev' = [dev EXCEPT ![d] = ADCProcessData(dev[d], r)]
      /\ requests' = Append(requests, request)
      /\ status' = Append(status, answer)
      /\ UNCHANGED <<inits, pc>> /\ pc # "terminated"
  <2>1. PICK told : told = IF error = "none" THEN <<>> ELSE [q \in {r} |-> error]
    OBVIOUS
  <2>2. /\ d \in ADCs /\ dev' = [dev EXCEPT ![d] = ADCProcessData(dev[d], r)]
        /\ requests' = Append(requests, request)
        /\ status' = Append(status, IF r \in DOMAIN told THEN told[r] ELSE "waiting")
        /\ UNCHANGED <<inits, pc>> /\ pc # "terminated"
    BY <1>1, <1>2, <1>3, <1>4, <2>1 DEF TriggerADC, Asked, threadVars, MayAsk, CommOpen, Stocked
  <2>3. (IF r \in DOMAIN told THEN told[r] ELSE "waiting") = answer
    BY <1>5, <2>1
  <2> QED BY <2>2, <2>3
<1>9. /\ Devices' = Devices /\ ADCs' = ADCs /\ Readers' = Readers /\ Writers' = Writers
      /\ ADCs \cap (Writers \cup Readers) = {}
      /\ DOMAIN dev = Devices /\ ADCs \subseteq Devices
      /\ Writers \subseteq Devices /\ Readers \subseteq Devices
  BY <1>8, DevicesFinite DEF Stocked, Devices, ADCs, Readers, Writers, Kind
<1>10. /\ request \in Request /\ requests \in Seq(Request) /\ Len(status) = Len(requests)
       /\ Len(requests) \in Nat /\ DOMAIN requests = 1 .. Len(requests)
       /\ DOMAIN requests' = 1 .. Len(requests) + 1
       /\ \A q \in DOMAIN requests : requests'[q] = requests[q] /\ status'[q] = status[q]
       /\ requests'[Len(requests) + 1] = request /\ status'[Len(requests) + 1] = answer
       /\ status' \in Seq(Statuses) /\ Len(status') = Len(requests')
       /\ \A q \in DOMAIN requests' : requests'[q].nChan \in Devices
       /\ Awaited
  BY <1>4, <1>7, <1>8, NewRequest
<1>11. PICK reqs2, st2 : reqs2 = requests' /\ st2 = status'
  OBVIOUS
<1>12. reqs2 = Append(requests, request) /\ st2 = Append(status, answer)
  BY <1>8, <1>11
<1>13. ASSUME NEW e \in Writers \cup Readers PROVE Served(e)'
  <2>1. dev'[e] = dev[e] /\ Served(e)
    BY <1>8, <1>9 DEF Accounted
  <2>2. Answers(e)' = Answers(e)
    BY <1>8, <1>9, <2>1 DEF Answers
  <2>3. PICK ids, n : ids = dev[e].m_allIds /\ n = Answers(e)
    OBVIOUS
  <2>4. Lists(e, ids, n, requests, status)
    BY <1>8, <2>1, <2>3 DEF Served
  <2>5. request.nChan # e /\ status \in Seq(Statuses)
    BY <1>4, <1>8, <1>9 DEF Accounted
  <2>6. Lists(e, ids, n, reqs2, st2)
    BY <1>7, <1>10, <1>12, <2>4, <2>5, NotListed
  <2> QED BY <1>11, <2>1, <2>2, <2>3, <2>6 DEF Served
<1>14. ASSUME NEW e \in ADCs PROVE Triggered(e)'
  <2>1. Triggered(e) /\ dev[e] \in ADCType /\ DOMAIN requests \subseteq DOMAIN requests'
    BY <1>10 DEF Accounted, Stocked, Holding
  <2>2. CASE dev'[e] = dev[e]
    BY <1>10, <2>1, <2>2 DEF Triggered
  <2>3. CASE e = d /\ error = "none"
    <3>1. dev'[d] = [dev[d] EXCEPT !.m_llId = r]
      BY <1>2, <1>8, <1>9, <2>3 DEF ADCProcessData
    <3>2. /\ dev'[d].m_llId = r /\ dev'[d].llId = dev[d].llId /\ dev'[d].pc = dev[d].pc
      BY <2>1, <2>3, <3>1 DEF ADCType
    <3>3. r \in DOMAIN requests' /\ requests'[r].nChan = d /\ status'[r] \in Open
      BY <1>1, <1>4, <1>5, <1>10, <2>3 DEF Open
    <3> QED BY <1>10, <2>1, <2>3, <3>2, <3>3 DEF Triggered
  <2>4. e # d \/ error # "none" => dev'[e] = dev[e]
    BY <1>2, <1>8, <1>9 DEF ADCProcessData
  <2> QED BY <2>2, <2>3, <2>4
<1> QED BY <1>9, <1>10, <1>13, <1>14 DEF Accounted

\* Only one who waits, or who was answered but is not taken out yet, can be
\* found by a cancelling.
LEMMA CancelAccounts ==
  ASSUME Stocked, Accounted, NEW c \in Clients, NEW d \in Devices, CancelRead(c, d)
  PROVE  /\ Accounted'
         /\ \A r \in DOMAIN status : status'[r] # status[r] =>
              \/ status[r] \in Open
              \/ pc = "erase" /\ status[r] \in {"ok", "error"} /\ status'[r] = "cancelled"
<1>1. PICK mine : mine = Mine(c, d)
  OBVIOUS
<1>2. PICK done : done = ReaderProcessData(d, 0, "eCancelReadRequest", mine)
  OBVIOUS
<1>3. /\ d \in Readers /\ mine # {} /\ dev' = [dev EXCEPT ![d] = done.dev]
      /\ status' = [r \in DOMAIN status |->
                     IF r \in DOMAIN done.sent THEN done.sent[r] ELSE status[r]]
      /\ UNCHANGED <<inits, requests, pc>> /\ pc # "terminated"
  BY <1>1, <1>2 DEF CancelRead, clientVars, threadVars, MayAsk, CommOpen, Stocked
<1>4. /\ Devices' = Devices /\ ADCs' = ADCs /\ Readers' = Readers /\ Writers' = Writers
      /\ ADCs \cap (Writers \cup Readers) = {}
      /\ DOMAIN dev = Devices /\ ADCs \subseteq Devices
      /\ Writers \subseteq Devices /\ Readers \subseteq Devices
      /\ status \in Seq(Statuses) /\ DOMAIN status = DOMAIN requests
      /\ DOMAIN status = 1 .. Len(status) /\ Len(status) \in Nat
  BY <1>3, DevicesFinite, LenProperties
  DEF Stocked, Devices, ADCs, Readers, Writers, Kind, Accounted
<1>5. PICK a, n : a = dev[d] /\ n = Answers(d)
  OBVIOUS
<1>6. /\ a \in PeriphType /\ a.m_nProcessed <= Len(a.m_allIds)
      /\ Lists(d, a.m_allIds, n, requests, status)
  BY <1>3, <1>5 DEF Accounted, Served
<1>7. PICK ids \in Seq(Nat) : ids = a.m_allIds
  BY <1>6 DEF PeriphType
<1>8. Len(ids) \in Nat /\ DOMAIN ids = 1 .. Len(ids)
  BY LenProperties
<1>9. PICK k \in DOMAIN ids :
        /\ ids[k] # 0
        /\ done = [dev |-> [a EXCEPT !.m_allIds = Cancelled(a.m_allIds, k)],
                   sent |-> [q \in {ids[k]} |-> "cancelled"]]
  <2>1. mine \subseteq DOMAIN ids /\ \A i \in mine : ids[i] # 0
    BY <1>1, <1>5, <1>7 DEF Mine
  <2>2. mine \in SUBSET Nat
    BY <1>8, <2>1
  <2>3. \E i \in mine : \A j \in mine : i <= j
    BY <1>3, <2>2, Least
  <2>4. PICK k : k = CHOOSE i \in mine : \A j \in mine : i <= j
    OBVIOUS
  <2>5. k \in mine
    BY <2>3, <2>4
  <2>6. done = MultiRProcessData(inits[d].bContinuous, a, 0, "eCancelReadRequest", mine)
    BY <1>2, <1>5 DEF ReaderProcessData, PinRProcessData
  <2>7. done = [dev |-> [a EXCEPT !.m_allIds = Cancelled(a.m_allIds, k)],
                sent |-> [q \in {a.m_allIds[k]} |-> "cancelled"]]
    BY <1>3, <2>4, <2>6 DEF MultiRProcessData, Does
  <2> QED BY <1>7, <2>1, <2>5, <2>7
<1>10. PICK ids2 : ids2 = [ids EXCEPT ![k] = 0]
  OBVIOUS
<1>11. PICK w : w = [a EXCEPT !.m_allIds = ids2]
  OBVIOUS
<1>12. /\ ids2 \in Seq(Nat) /\ Len(ids2) = Len(ids) /\ DOMAIN ids2 = DOMAIN ids
       /\ ids2[k] = 0 /\ \A j \in DOMAIN ids : j # k => ids2[j] = ids[j]
  BY <1>8, <1>10, ExceptSeq
<1>13. dev'[d] = w
  BY <1>3, <1>4, <1>7, <1>9, <1>10, <1>11 DEF Cancelled
<1>14. /\ w \in PeriphType /\ w.m_allIds = ids2 /\ w.m_nProcessed = a.m_nProcessed
       /\ w.m_eState = a.m_eState /\ w.m_bRead = a.m_bRead
  BY <1>6, <1>11, <1>12 DEF PeriphType
<1>15. PICK q : q = ids[k]
  OBVIOUS
<1>16. /\ q \in DOMAIN requests /\ requests[q].nChan = d
       /\ k <= n => status[q] \in {"ok", "error"}
       /\ ~(k <= n) => status[q] \in Open
  BY <1>6, <1>7, <1>9, <1>15 DEF Lists
<1>17. PICK st2 : st2 = status'
  OBVIOUS
<1>18. /\ st2[q] = "cancelled" /\ DOMAIN st2 = DOMAIN status
       /\ \A r \in DOMAIN status : r # q => st2[r] = status[r]
       /\ st2 \in Seq(Statuses) /\ Len(st2) = Len(status)
  <2>1. st2 = [status EXCEPT ![q] = "cancelled"]
    BY <1>3, <1>4, <1>9, <1>15, <1>16, <1>17
  <2>2. st2 \in Seq(Statuses) /\ Len(st2) = Len(status)
    <3>1. "cancelled" \in Statuses /\ q \in 1 .. Len(status)
      BY <1>4, <1>16 DEF Statuses
    <3> QED BY <1>4, <2>1, <3>1, ExceptSeq
  <2> QED BY <1>4, <1>16, <2>1, <2>2
<1>19. Lists(d, ids2, n, requests, st2)
  <2>1. PICK at \in [DOMAIN ids2 -> DOMAIN ids] : \A j \in DOMAIN ids2 : at[j] = j
    <3>1. [j \in DOMAIN ids2 |-> j] \in [DOMAIN ids2 -> DOMAIN ids]
      BY <1>12
    <3> QED BY <3>1
  <2>2. \A j \in DOMAIN ids2 : ids2[j] # 0 =>
          /\ ids2[j] = ids[at[j]]
          /\ j <= n => st2[ids2[j]] \in {"ok", "error"}
          /\ ~(j <= n) => st2[ids2[j]] \in Open
    <3> SUFFICES ASSUME NEW j \in DOMAIN ids2, ids2[j] # 0
                 PROVE  /\ ids2[j] = ids[at[j]]
                        /\ j <= n => st2[ids2[j]] \in {"ok", "error"}
                        /\ ~(j <= n) => st2[ids2[j]] \in Open
      OBVIOUS
    <3>1. j # k /\ j \in DOMAIN ids /\ ids2[j] = ids[j] /\ ids[j] # 0
      BY <1>12
    <3>2. /\ ids[j] \in DOMAIN requests /\ ids[j] # q
          /\ j <= n => status[ids[j]] \in {"ok", "error"}
          /\ ~(j <= n) => status[ids[j]] \in Open
      BY <1>6, <1>7, <1>15, <3>1 DEF Lists
    <3>3. st2[ids[j]] = status[ids[j]]
      BY <1>4, <1>18, <3>2
    <3> QED BY <2>1, <3>1, <3>2, <3>3
  <2>3. \A r \in DOMAIN requests : requests[r].nChan = d /\ st2[r] \in Open => status[r] \in Open
    BY <1>4, <1>18 DEF Open
  <2>4. \A j \in DOMAIN ids : ids[j] \in DOMAIN requests /\ st2[ids[j]] \in Open =>
          \E l \in DOMAIN ids2 : ids2[l] = ids[j]
    BY <1>12, <1>15, <1>18 DEF Open
  <2>5. MadeOf(d, ids, requests, status, ids2, n, st2, at)
    BY <2>1, <2>2, <2>3, <2>4 DEF MadeOf
  <2>6. Lists(d, ids, n, requests, status)
    BY <1>6, <1>7
  <2> QED BY <2>5, <2>6, Relist
<1>20. Served(d)'
  <2>1. Answers(d)' = n
    BY <1>3, <1>4, <1>5, <1>13, <1>14 DEF Answers
  <2>2. w.m_nProcessed <= Len(w.m_allIds)
    BY <1>6, <1>7, <1>12, <1>14
  <2> QED BY <1>3, <1>13, <1>14, <1>17, <1>19, <2>1, <2>2 DEF Served
<1>21. \A r \in DOMAIN requests : requests[r].nChan # d => status'[r] = status[r]
  BY <1>4, <1>16, <1>17, <1>18
<1>22. ASSUME NEW e \in Writers \cup Readers, e # d PROVE Served(e)'
  <2>1. dev'[e] = dev[e] /\ Served(e)
    BY <1>3, <1>4, <1>22 DEF Accounted
  <2>2. Answers(e)' = Answers(e)
    BY <1>3, <1>4, <2>1 DEF Answers
  <2>3. PICK l, m : l = dev[e].m_allIds /\ m = Answers(e)
    OBVIOUS
  <2>4. Lists(e, l, m, requests, status)
    BY <1>3, <2>1, <2>3 DEF Served
  <2>5. \A r \in DOMAIN requests : requests[r].nChan = e => st2[r] = status[r]
    BY <1>17, <1>21, <1>22
  <2>6. Lists(e, l, m, requests, st2)
    BY <2>4, <2>5, SameLists
  <2> QED BY <1>3, <1>17, <2>1, <2>2, <2>3, <2>6 DEF Served
<1>23. ASSUME NEW e \in ADCs PROVE Triggered(e)'
  <2>1. dev'[e] = dev[e] /\ Triggered(e) /\ e # d
    BY <1>3, <1>4 DEF Accounted
  <2> QED BY <1>3, <1>21, <2>1 DEF Triggered
<1>24. \A r \in DOMAIN status : status'[r] # status[r] =>
         \/ status[r] \in Open
         \/ pc = "erase" /\ status[r] \in {"ok", "error"} /\ status'[r] = "cancelled"
  <2>1. k <= n => pc = "erase"
    <3>1. pc # "erase" => n = 0
      BY <1>5 DEF Answers
    <3> QED BY <1>8, <3>1
  <2> QED BY <1>16, <1>17, <1>18, <2>1
<1>25. \A r \in DOMAIN requests : requests[r].nChan \in Devices
  BY DEF Accounted
<1>26. status' \in Seq(Statuses) /\ Len(status') = Len(requests')
  BY <1>3, <1>17, <1>18 DEF Accounted
<1> QED BY <1>3, <1>4, <1>20, <1>22, <1>23, <1>24, <1>25, <1>26 DEF Accounted

\* With the answered ones taken off, and the marked ones taken out, the open
\* requests are listed.
LEMMA OffLists ==
  ASSUME NEW d, NEW ids \in Seq(Nat), NEW n, NEW reqs \in Seq(Request), NEW st,
         Lists(d, ids, n, reqs, st), NEW rest, Off(ids, n, rest)
  PROVE  Lists(d, rest, 0, reqs, st)
<1>1. /\ Len(ids) \in Nat /\ DOMAIN ids = 1 .. Len(ids) /\ n \in Nat /\ n <= Len(ids)
      /\ DOMAIN rest = 1 .. Len(ids) - n
      /\ \A j \in DOMAIN rest : rest[j] = ids[n + j]
      /\ 0 \notin DOMAIN reqs
  <2>1. /\ Len(ids) \in Nat /\ DOMAIN ids = 1 .. Len(ids)
        /\ DOMAIN rest = 1 .. Len(rest) /\ DOMAIN reqs = 1 .. Len(reqs)
    BY LenProperties DEF Off
  <2>2. /\ n \in Nat /\ n <= Len(ids) /\ Len(rest) = Len(ids) - n
        /\ \A j \in 1 .. Len(ids) - n : rest[j] = ids[n + j]
    BY DEF Off
  <2> QED BY <2>1, <2>2
<1>2. \A j \in DOMAIN rest : n + j \in DOMAIN ids /\ ~(n + j <= n) /\ ~(j <= 0)
  BY <1>1
<1>3. PICK at \in [DOMAIN rest -> DOMAIN ids] : \A j \in DOMAIN rest : at[j] = n + j
  <2>1. [j \in DOMAIN rest |-> n + j] \in [DOMAIN rest -> DOMAIN ids]
    BY <1>2
  <2> QED BY <2>1
<1>4. \A j, l \in DOMAIN rest : at[j] = at[l] => j = l
  <2>1. \A j, l \in DOMAIN rest : n + j = n + l => j = l
    BY <1>1
  <2> QED BY <1>3, <2>1
<1>5. \A j \in DOMAIN rest : rest[j] # 0 =>
        rest[j] = ids[at[j]] /\ ~(j <= 0) /\ st[rest[j]] \in Open
  BY <1>1, <1>2, <1>3 DEF Lists
<1>6. \A k \in DOMAIN ids : ids[k] \in DOMAIN reqs /\ st[ids[k]] \in Open =>
        \E j \in DOMAIN rest : rest[j] = ids[k]
  <2> SUFFICES ASSUME NEW k \in DOMAIN ids, ids[k] \in DOMAIN reqs, st[ids[k]] \in Open
               PROVE  \E j \in DOMAIN rest : rest[j] = ids[k]
    OBVIOUS
  <2>1. ~(k <= n)
    BY <1>1 DEF Lists, Open
  <2>2. k - n \in DOMAIN rest /\ n + (k - n) = k
    BY <1>1, <2>1
  <2> QED BY <1>1, <2>2
<1>7. PICK none : none = 0
  OBVIOUS
<1>8. MadeOf(d, ids, reqs, st, rest, none, st, at)
  BY <1>3, <1>4, <1>5, <1>6, <1>7 DEF MadeOf
<1>9. Lists(d, rest, none, reqs, st)
  BY <1>8, Relist
<1> QED BY <1>7, <1>9

LEMMA UnmarkedLists ==
  ASSUME NEW d, NEW ids \in Seq(Nat), NEW reqs \in Seq(Request), NEW st,
         Lists(d, ids, 0, reqs, st)
  PROVE  Unmarked(ids) \in Seq(Nat) /\ Lists(d, Unmarked(ids), 0, reqs, st)
<1>1. PICK rest \in Seq(Nat) : rest = Unmarked(ids)
  BY UnmarkedIs
<1>2. /\ DOMAIN ids = 1 .. Len(ids) /\ Len(ids) \in Nat
      /\ DOMAIN rest = 1 .. Len(rest) /\ Len(rest) \in Nat /\ 0 \notin DOMAIN reqs
  BY LenProperties
<1>3. PICK at \in [1 .. Len(rest) -> {k \in DOMAIN ids : ids[k] # 0}] :
        /\ \A n \in 1 .. Len(rest) : rest[n] = ids[at[n]]
        /\ \A m, n \in 1 .. Len(rest) : at[m] = at[n] => m = n
        /\ \A k \in {j \in DOMAIN ids : ids[j] # 0} : \E n \in 1 .. Len(rest) : at[n] = k
  <2>1. PICK at \in [1 .. Len(Unmarked(ids)) -> {k \in DOMAIN ids : ids[k] # 0}] :
          /\ \A n \in 1 .. Len(Unmarked(ids)) : Unmarked(ids)[n] = ids[at[n]]
          /\ \A m, n \in 1 .. Len(Unmarked(ids)) : at[m] = at[n] => m = n
          /\ \A k \in {j \in DOMAIN ids : ids[j] # 0} :
               \E n \in 1 .. Len(Unmarked(ids)) : at[n] = k
    BY UnmarkedIs
  <2>2. Unmarked(ids) = rest
    BY <1>1
  <2>3. at \in [1 .. Len(rest) -> {k \in DOMAIN ids : ids[k] # 0}]
    BY <2>1, <2>2
  <2>4. /\ \A n \in 1 .. Len(rest) : rest[n] = ids[at[n]]
        /\ \A m, n \in 1 .. Len(rest) : at[m] = at[n] => m = n
        /\ \A k \in {j \in DOMAIN ids : ids[j] # 0} : \E n \in 1 .. Len(rest) : at[n] = k
    BY <2>1, <2>2
  <2> QED BY <2>3, <2>4
<1>4. PICK none : none = 0
  OBVIOUS
<1>5. at \in [DOMAIN rest -> DOMAIN ids]
  BY <1>2, <1>3
<1>6. \A j \in DOMAIN rest : rest[j] # 0 =>
        rest[j] = ids[at[j]] /\ ~(j <= none) /\ st[rest[j]] \in Open
  <2>1. \A k \in DOMAIN ids : ~(k <= 0)
    BY <1>2
  <2>2. \A j \in DOMAIN rest : ~(j <= none)
    BY <1>2, <1>4
  <2> QED BY <1>2, <1>3, <1>5, <2>1, <2>2 DEF Lists
<1>7. \A k \in DOMAIN ids : ids[k] \in DOMAIN reqs /\ st[ids[k]] \in Open =>
        \E j \in DOMAIN rest : rest[j] = ids[k]
  <2> SUFFICES ASSUME NEW k \in DOMAIN ids, ids[k] \in DOMAIN reqs
               PROVE  \E j \in DOMAIN rest : rest[j] = ids[k]
    OBVIOUS
  <2>1. ids[k] # 0
    BY <1>2
  <2>2. PICK n \in 1 .. Len(rest) : at[n] = k
    BY <1>3, <2>1
  <2> QED BY <1>2, <1>3, <2>2
<1>8. MadeOf(d, ids, reqs, st, rest, none, st, at)
  BY <1>2, <1>3, <1>5, <1>6, <1>7 DEF MadeOf
<1>9. PICK zero : zero = 0 /\ Lists(d, ids, zero, reqs, st)
  OBVIOUS
<1>10. Lists(d, rest, none, reqs, st)
  BY <1>8, <1>9, Relist
<1> QED BY <1>1, <1>4, <1>10

LEMMA EraseIs ==
  ASSUME NEW a \in PeriphType, a.m_nProcessed <= Len(a.m_allIds),
         NEW bContinuous \in BOOLEAN, NEW failed,
         NEW d, NEW reqs \in Seq(Request), NEW st, NEW n,
         n = IF ~bContinuous /\ a.m_eState = "eActive" /\ a.m_bRead THEN a.m_nProcessed ELSE 0,
         Lists(d, a.m_allIds, n, reqs, st), NEW w, w = MultiRErase(bContinuous, a, failed)
  PROVE  /\ w \in PeriphType /\ w.m_nProcessed <= Len(w.m_allIds)
         /\ Lists(d, w.m_allIds, 0, reqs, st)
<1>1. CASE ~(a.m_eState = "eActive" /\ a.m_bRead)
  BY <1>1 DEF MultiRErase
<1>2. CASE a.m_eState = "eActive" /\ a.m_bRead
  <2>1. PICK ids \in Seq(Nat) : ids = a.m_allIds
    BY DEF PeriphType
  <2>2. PICK rest : rest = IF bContinuous THEN ids ELSE Drop(ids, a.m_nProcessed)
    OBVIOUS
  <2>3. Off(ids, n, rest) /\ rest \in Seq(Nat)
    <3>1. a.m_nProcessed \in Nat
      BY DEF PeriphType
    <3>2. CASE bContinuous
      BY <2>2, <3>2, OffIs
    <3>3. CASE ~bContinuous
      BY <1>2, <2>1, <2>2, <3>1, <3>3, OffIs, DropIs
    <3> QED BY <3>2, <3>3
  <2>4. Lists(d, rest, 0, reqs, st)
    BY <2>1, <2>3, OffLists
  <2>5. PICK kept : kept = IF failed THEN rest ELSE Unmarked(rest)
    OBVIOUS
  <2>6. kept \in Seq(Nat) /\ Lists(d, kept, 0, reqs, st)
    BY <2>3, <2>4, <2>5, UnmarkedLists
  <2>7. PICK more \in BOOLEAN : more = (a.m_hNext /\ rest # <<>>)
    OBVIOUS
  <2>8. PICK m : m = [a EXCEPT !.m_allIds = rest, !.m_bRead = FALSE, !.m_nProcessed = 0,
                               !.m_hNext = more]
    OBVIOUS
  <2>9. /\ m \in PeriphType /\ m.m_allIds = rest /\ m.m_nProcessed = 0
    BY <2>3, <2>8 DEF PeriphType
  <2>10. Answered(bContinuous, a) = m
    BY <2>1, <2>2, <2>7, <2>8 DEF Answered
  <2>11. PICK more2 \in BOOLEAN : more2 = (m.m_hNext /\ kept # <<>>)
    OBVIOUS
  <2>12. w = [m EXCEPT !.m_allIds = kept, !.m_hNext = more2]
    BY <1>2, <2>5, <2>9, <2>10, <2>11 DEF MultiRErase
  <2>13. w \in PeriphType /\ w.m_allIds = kept /\ w.m_nProcessed = 0
    BY <2>6, <2>9, <2>12 DEF PeriphType
  <2>14. Len(kept) \in Nat
    BY <2>6, LenProperties
  <2> QED BY <2>6, <2>13, <2>14
<1> QED BY <1>1, <1>2

LEMMA EraseAccounts ==
  ASSUME Stocked, Accounted, Erase
  PROVE  Accounted' /\ Awaited
<1>1. /\ pc = "erase" /\ pc' = "wait" /\ UNCHANGED <<inits, requests, status>>
      /\ dev' = [d \in Devices |->
           CASE inits[d].kind = "MultiR" -> MultiRErase(inits[d].bContinuous, dev[d], nError)
             [] inits[d].kind = "PinR" -> PinRErase(inits[d].bContinuous, dev[d], nError)
             [] OTHER -> dev[d]]
  BY DEF Erase, clientVars
<1>2. /\ Devices' = Devices /\ ADCs' = ADCs /\ Readers' = Readers /\ Writers' = Writers
      /\ ADCs \cup Writers \cup Readers = Devices
      /\ \A d \in Devices : inits[d] \in Inits
  BY <1>1, DevicesFinite DEF Stocked, Devices, ADCs, Readers, Writers, Kind
<1>3. ASSUME NEW d \in Readers PROVE Served(d)'
  <2>1. inits[d].kind \in {"MultiR", "PinR"} /\ d \in Devices
    BY DEF Readers, Kind
  <2>2. PICK bContinuous \in BOOLEAN : bContinuous = inits[d].bContinuous
    BY <1>2, <2>1 DEF Inits, MultiInits, PinInits, ADCInits
  <2>3. PICK a \in PeriphType : a = dev[d]
    BY DEF Accounted, Served
  <2>4. PICK w : w = MultiRErase(bContinuous, a, nError)
    OBVIOUS
  <2>5. dev'[d] = w
    BY <1>1, <2>1, <2>2, <2>3, <2>4 DEF PinRErase
  <2>6. PICK n : n = Answers(d)
    OBVIOUS
  <2>7. /\ n = IF ~bContinuous /\ a.m_eState = "eActive" /\ a.m_bRead THEN a.m_nProcessed ELSE 0
        /\ Lists(d, a.m_allIds, n, requests, status) /\ a.m_nProcessed <= Len(a.m_allIds)
    BY <1>1, <2>2, <2>3, <2>6 DEF Answers, Accounted, Served
  <2>8. /\ w \in PeriphType /\ w.m_nProcessed <= Len(w.m_allIds)
        /\ Lists(d, w.m_allIds, 0, requests, status)
    BY <2>4, <2>7, EraseIs DEF Stocked
  <2>9. Answers(d)' = 0
    BY <1>1 DEF Answers
  <2> QED BY <1>1, <2>5, <2>8, <2>9 DEF Served
<1>4. ASSUME NEW d \in Writers PROVE Served(d)'
  <2>1. dev'[d] = dev[d] /\ d \notin Readers /\ d \notin Readers'
    BY <1>1, <1>2 DEF Writers, Readers, Kind
  <2>2. Answers(d)' = Answers(d) /\ Served(d)
    BY <2>1 DEF Answers, Accounted
  <2> QED BY <1>1, <2>1, <2>2 DEF Served
<1>5. ASSUME NEW d \in ADCs PROVE Triggered(d)'
  <2>1. dev'[d] = dev[d] /\ Triggered(d)
    BY <1>1, <1>2 DEF ADCs, Kind, Accounted
  <2> QED BY <1>1, <2>1 DEF Triggered
<1> QED BY <1>1, <1>2, <1>3, <1>4, <1>5 DEF Accounted, Awaited

\* A step that answers nobody and leaves the digital devices alone; the thread
\* of an ADC may take note of who triggered it.
Silent ==
  /\ UNCHANGED <<inits, requests, status>>
  /\ pc' # "terminated" => pc # "terminated" /\ ((pc' = "erase") <=> (pc = "erase"))
  /\ \A d \in Writers \cup Readers : dev'[d] = dev[d]
  /\ \A d \in ADCs :
       /\ dev'[d].m_llId = dev[d].m_llId
       /\ dev'[d].llId # 0 =>
            /\ dev'[d].llId \in {dev[d].llId, dev[d].m_llId}
            /\ dev'[d].pc \in {"extract", "deleted"}

LEMMA SilentAccounts ==
  ASSUME Stocked, Accounted, Silent
  PROVE  Accounted' /\ Awaited
<1>1. /\ Devices' = Devices /\ ADCs' = ADCs /\ Readers' = Readers /\ Writers' = Writers
  BY DEF Silent, Devices, ADCs, Readers, Writers, Kind
<1>2. ASSUME NEW d \in Writers \cup Readers PROVE Served(d)'
  <2>1. dev'[d] = dev[d] /\ Served(d)
    BY DEF Silent, Accounted
  <2>2. pc' # "terminated" => pc # "terminated" /\ Answers(d)' = Answers(d)
    BY <1>1, <2>1 DEF Answers, Silent
  <2>3. requests' = requests /\ status' = status
    BY DEF Silent
  <2> QED BY <2>1, <2>2, <2>3 DEF Served
<1>3. ASSUME NEW d \in ADCs PROVE Triggered(d)'
  <2>1. Triggered(d)
    BY DEF Accounted
  <2> QED BY <2>1 DEF Triggered, Silent
<1> QED BY <1>1, <1>2, <1>3 DEF Accounted, Awaited, Silent

LEMMA ThreadSilent ==
  ASSUME Stocked, Accounted, \/ WakeStop \/ NoMoreUpdates \/ Reset \/ RecoverFails \/ ReadFails
                             \/ \E d \in Devices, on \in BOOLEAN : ActivateOrInactivate(d, on)
                             \/ \E c \in Clients : Leave(c)
                             \/ Delete \/ UNCHANGED vars
  PROVE  Silent
<1>1. /\ UNCHANGED <<inits, requests, status, dev>>
      /\ pc' # "terminated" => pc # "terminated" /\ ((pc' = "erase") <=> (pc = "erase"))
  BY DEF WakeStop, NoMoreUpdates, Reset, RecoverFails, ReadFails, ActivateOrInactivate, Leave,
         Delete, DeleteUnchanged, Wake, InUpdates, vars, clientVars, queueVars, eventVars,
         threadVars
<1>2. \A d \in ADCs : dev[d].llId # 0 => dev[d].pc \in {"extract", "deleted"}
  BY DEF Accounted, Triggered
<1> QED BY <1>1, <1>2 DEF Silent

LEMMA ADCSilent ==
  ASSUME Stocked, Accounted, NEW d \in Devices,
         ADCTake(d) \/ ADCExtracted(d) \/ ADCStop(d) \/ ADCDue(d)
  PROVE  Silent
<1>1. /\ UNCHANGED <<inits, requests, status, pc>> /\ d \in ADCs
      /\ dev' = [dev EXCEPT ![d] = dev'[d]]
  BY DEF ADCTake, ADCExtracted, ADCStop, ADCDue, ADCUnchanged, clientVars, threadVars, Stocked
<1>2. /\ DOMAIN dev = Devices /\ ADCs \subseteq Devices /\ Writers \subseteq Devices
      /\ Readers \subseteq Devices /\ ADCs \cap (Writers \cup Readers) = {}
  BY DevicesFinite DEF Stocked
<1>3. \A e \in Devices : e # d => dev'[e] = dev[e]
  BY <1>1, <1>2
<1>4. \A e \in ADCs : dev[e].llId # 0 => dev[e].pc \in {"extract", "deleted"}
  BY DEF Accounted, Triggered
<1>5. dev[d] \in ADCType
  BY <1>1 DEF Stocked, Holding
<1>6. /\ dev'[d].m_llId = dev[d].m_llId
      /\ dev'[d].llId # 0 =>
           /\ dev'[d].llId \in {dev[d].llId, dev[d].m_llId}
           /\ dev'[d].pc \in {"extract", "deleted"}
  <2>1. CASE ADCTake(d)
    <3>1. dev'[d] = ADCWithBlock(dev[d])
      BY <1>1, <1>2, <2>1 DEF ADCTake
    <3>2. CASE dev[d].m_apsReadIdx = <<>>
      <4>1. dev'[d] = [dev[d] EXCEPT !.m_hProcessData = FALSE]
        BY <3>1, <3>2 DEF ADCWithBlock
      <4>2. dev'[d].m_llId = dev[d].m_llId /\ dev'[d].llId = dev[d].llId /\ dev'[d].pc = dev[d].pc
        BY <1>5, <4>1 DEF ADCType
      <4> QED BY <1>1, <1>4, <4>2
    <3>3. CASE dev[d].m_apsReadIdx # <<>>
      <4>1. dev'[d] = [dev[d] EXCEPT !.psRead = Head(dev[d].m_apsReadIdx),
                                     !.m_apsReadIdx = Tail(dev[d].m_apsReadIdx),
                                     !.llId = dev[d].m_llId, !.pc = "extract"]
        BY <3>1, <3>3 DEF ADCWithBlock
      <4>2. /\ dev'[d].m_llId = dev[d].m_llId /\ dev'[d].llId = dev[d].m_llId
            /\ dev'[d].pc = "extract"
        BY <1>5, <4>1 DEF ADCType
      <4> QED BY <4>2
    <3> QED BY <3>2, <3>3
  <2>2. CASE ADCStop(d)
    <3>1. dev'[d] = [dev[d] EXCEPT !.pc = "exited"] /\ dev[d].pc = "wait"
      BY <1>1, <1>2, <2>2 DEF ADCStop, ADCStops
    <3>2. dev'[d].m_llId = dev[d].m_llId /\ dev'[d].llId = dev[d].llId
      BY <1>5, <3>1 DEF ADCType
    <3> QED BY <1>1, <1>4, <3>1, <3>2
  <2>3. CASE ADCDue(d)
    <3>1. dev'[d] = [dev[d] EXCEPT !.due = TRUE]
      BY <1>1, <1>2, <2>3 DEF ADCDue
    <3>2. dev'[d].m_llId = dev[d].m_llId /\ dev'[d].llId = dev[d].llId /\ dev'[d].pc = dev[d].pc
      BY <1>5, <3>1 DEF ADCType
    <3> QED BY <1>1, <1>4, <3>2
  <2>4. CASE ADCExtracted(d)
    <3>1. dev'[d] = [dev[d] EXCEPT !.psRead = 0, !.llId = 0, !.pc = "wait",
                       !.m_hProcessData = dev[d].m_hProcessData /\ dev[d].m_apsReadIdx # <<>>]
      BY <1>1, <1>2, <2>4 DEF ADCExtracted, ADCWithoutBlock
    <3>2. dev'[d].m_llId = dev[d].m_llId /\ dev'[d].llId = 0
      BY <1>5, <3>1 DEF ADCType
    <3> QED BY <3>2
  <2> QED BY <2>1, <2>2, <2>3, <2>4
<1>7. \A e \in Writers \cup Readers : dev'[e] = dev[e]
  BY <1>1, <1>2, <1>3
<1>8. \A e \in ADCs :
        /\ dev'[e].m_llId = dev[e].m_llId
        /\ dev'[e].llId # 0 =>
             /\ dev'[e].llId \in {dev[e].llId, dev[e].m_llId}
             /\ dev'[e].pc \in {"extract", "deleted"}
  BY <1>2, <1>3, <1>4, <1>6
<1> QED BY <1>1, <1>7, <1>8 DEF Silent

LEMMA DeletionSilent ==
  ASSUME Stocked, Accounted, StopThread \/ DeleteDevices
  PROVE  Silent
<1>1. /\ UNCHANGED <<inits, requests, status>>
      /\ pc' # "terminated" => pc # "terminated" /\ ((pc' = "erase") <=> (pc = "erase"))
  BY DEF StopThread, DeleteDevices, DeleteUnchanged, clientVars
<1>2. /\ ADCs \subseteq Devices /\ Writers \subseteq Devices
      /\ Readers \subseteq Devices /\ ADCs \cap (Writers \cup Readers) = {}
  BY DevicesFinite DEF Stocked
<1>3. \A d \in ADCs : /\ dev[d] \in ADCType
                      /\ dev[d].llId # 0 => dev[d].pc \in {"extract", "deleted"}
  BY DEF Accounted, Triggered, Stocked, Holding
<1>4. CASE StopThread
  <2>1. /\ \A d \in ADCs : dev'[d] = [dev[d] EXCEPT !.m_hThreadClose = TRUE]
        /\ \A d \in Writers \cup Readers : dev'[d] = dev[d]
    BY <1>2, <1>4 DEF StopThread
  <2>2. ASSUME NEW d \in ADCs
        PROVE  /\ dev'[d].m_llId = dev[d].m_llId /\ dev'[d].llId = dev[d].llId
               /\ dev'[d].pc = dev[d].pc
    <3>1. PICK w \in ADCType : w = dev[d]
      BY <1>3
    <3>2. [w EXCEPT !.m_hThreadClose = TRUE].m_llId = w.m_llId
      BY DEF ADCType
    <3>3. [w EXCEPT !.m_hThreadClose = TRUE].llId = w.llId
      BY DEF ADCType
    <3>4. [w EXCEPT !.m_hThreadClose = TRUE].pc = w.pc
      BY DEF ADCType
    <3> QED BY <2>1, <3>1, <3>2, <3>3, <3>4
  <2> QED BY <1>1, <1>3, <2>1, <2>2 DEF Silent
<1>5. CASE DeleteDevices
  <2>1. /\ \A d \in ADCs : dev'[d] = [dev[d] EXCEPT !.m_apsReadIdx = <<>>, !.pc = "deleted"]
        /\ \A d \in Writers \cup Readers : dev'[d] = dev[d]
    BY <1>2, <1>5 DEF DeleteDevices, Emptied
  <2>2. ASSUME NEW d \in ADCs
        PROVE  /\ dev'[d].m_llId = dev[d].m_llId /\ dev'[d].llId = dev[d].llId
               /\ dev'[d].pc = "deleted"
    <3>1. PICK a \in ADCType : a = dev[d]
      BY <1>3
    <3>2. dev'[d] = [a EXCEPT !.m_apsReadIdx = <<>>, !.pc = "deleted"]
      BY <2>1, <3>1
    <3> QED BY <3>1, <3>2 DEF ADCType
  <2> QED BY <1>1, <1>3, <2>1, <2>2 DEF Silent
<1> QED BY <1>4, <1>5

\* A packet goes to whom the ADC's thread took note of.
LEMMA SendAccounts ==
  ASSUME Stocked, Accounted, NEW d \in Devices, ADCSend(d)
  PROVE  /\ Accounted'
         /\ \A r \in DOMAIN status : status'[r] # status[r] =>
              \/ status[r] \in Open
              \/ requests[r].nChan \in ADCs /\ dev[requests[r].nChan].llId = r /\ status'[r] = "late"
<1>1. PICK r : r = dev[d].llId
  OBVIOUS
<1>2. /\ UNCHANGED <<inits, requests, dev, pc>> /\ d \in ADCs /\ pc # "terminated"
      /\ r # 0 /\ status' = [status EXCEPT ![r] = DataSent(status[r])]
  BY <1>1 DEF ADCSend, ADCUnchanged, clientVars, threadVars, CommOpen, Stocked
<1>3. /\ Devices' = Devices /\ ADCs' = ADCs /\ Readers' = Readers /\ Writers' = Writers
      /\ ADCs \cap (Writers \cup Readers) = {} /\ DOMAIN dev = Devices
      /\ ADCs \subseteq Devices /\ Writers \subseteq Devices /\ Readers \subseteq Devices
  BY <1>2, DevicesFinite DEF Stocked, Devices, ADCs, Readers, Writers, Kind
<1>4. /\ status \in Seq(Statuses) /\ DOMAIN status = DOMAIN requests
      /\ DOMAIN status = 1 .. Len(status) /\ Len(status) \in Nat
  BY LenProperties DEF Accounted, Stocked
<1>7. PICK answer : answer = DataSent(status[r])
  OBVIOUS
<1>8. /\ r \in DOMAIN requests /\ requests[r].nChan = d
      /\ \/ status[r] \in Open /\ answer = "streaming"
         \/ status[r] \in {"DEVICE_CLOSING", "late"} /\ answer = "late"
  <2>1. /\ r \in DOMAIN requests /\ requests[r].nChan = d
        /\ status[r] \in Open \cup {"DEVICE_CLOSING", "late"}
    BY <1>1, <1>2 DEF Accounted, Triggered
  <2>2. status[r] \in {"waiting", "streaming"} => answer = "streaming"
    BY <1>7 DEF DataSent
  <2>3. status[r] \in {"DEVICE_CLOSING", "late"} => answer = "late"
    BY <1>7 DEF DataSent
  <2> QED BY <2>1, <2>2, <2>3 DEF Open
<1>9. PICK st2 : st2 = status'
  OBVIOUS
<1>10. /\ st2 \in Seq(Statuses) /\ Len(st2) = Len(status) /\ DOMAIN st2 = DOMAIN status
       /\ \A q \in DOMAIN status : q # r => st2[q] = status[q]
       /\ st2[r] = answer
  <2>1. answer \in Statuses /\ r \in 1 .. Len(status)
    BY <1>4, <1>8 DEF Statuses
  <2>2. st2 = [status EXCEPT ![r] = answer]
    BY <1>2, <1>7, <1>9
  <2> QED BY <1>4, <2>1, <2>2, ExceptSeq
<1>11. \A q \in DOMAIN requests : st2[q] # status[q] =>
         /\ q = r /\ requests[q].nChan = d
         /\ \/ status[q] \in Open /\ st2[q] = "streaming"
            \/ status[q] = "DEVICE_CLOSING" /\ st2[q] = "late"
  BY <1>4, <1>8, <1>10
<1>12. ASSUME NEW e \in Writers \cup Readers PROVE Served(e)'
  <2>1. dev'[e] = dev[e] /\ Served(e) /\ e # d
    BY <1>2, <1>3 DEF Accounted
  <2>2. Answers(e)' = Answers(e)
    BY <1>2, <1>3, <2>1 DEF Answers
  <2>3. PICK l, m : l = dev[e].m_allIds /\ m = Answers(e)
    OBVIOUS
  <2>4. Lists(e, l, m, requests, status)
    BY <1>2, <2>1, <2>3 DEF Served
  <2>5. \A q \in DOMAIN requests : requests[q].nChan = e => st2[q] = status[q]
    BY <1>11, <2>1
  <2>6. Lists(e, l, m, requests, st2)
    BY <2>4, <2>5, SameLists
  <2> QED BY <1>2, <1>9, <2>1, <2>2, <2>3, <2>6 DEF Served
<1>13. \A q \in DOMAIN requests : status[q] \in Open => st2[q] \in Open
  BY <1>11 DEF Open
<1>14. ASSUME NEW e \in ADCs PROVE Triggered(e)'
  <2>1. Triggered(e)
    BY DEF Accounted
  <2>2. \A q \in DOMAIN requests :
          status[q] \in Open \cup {"DEVICE_CLOSING", "late"} =>
            st2[q] \in Open \cup {"DEVICE_CLOSING", "late"}
    BY <1>11 DEF Open
  <2> QED BY <1>2, <1>9, <1>13, <2>1, <2>2 DEF Triggered
<1>15. \A q \in DOMAIN status : status'[q] # status[q] =>
         \/ status[q] \in Open
         \/ requests[q].nChan \in ADCs /\ dev[requests[q].nChan].llId = q /\ status'[q] = "late"
  BY <1>1, <1>2, <1>4, <1>9, <1>11
<1>16. status' \in Seq(Statuses) /\ Len(status') = Len(requests')
  BY <1>2, <1>9, <1>10 DEF Accounted
<1>17. \A q \in DOMAIN requests : requests[q].nChan \in Devices
  BY DEF Accounted
<1> QED BY <1>2, <1>3, <1>12, <1>14, <1>15, <1>16, <1>17 DEF Accounted

\* The steps of ThreadProc that call the devices.
LEMMA ThreadAccounts ==
  ASSUME Stocked, Accounted, Recover \/ PopUpdate \/ PreWrite \/ Write \/ WriteFails
                             \/ \E outcome : ReadPort(outcome)
  PROVE  Accounted' /\ Awaited
<1>1. CASE Recover
  <2>1. PICK ds, why, failed, outcome :
          outcome = Nothing /\ ds = Devices /\ why = "eRecover" /\ failed = FALSE
    OBVIOUS
  <2>2. why \in Reasons /\ failed \in BOOLEAN
    BY <2>1 DEF Reasons
  <2>3. /\ Work(ds, why, failed, outcome) /\ UNCHANGED <<inits, requests>>
        /\ pc = "wait" /\ pc' = "updates"
    BY <1>1, <2>1 DEF Recover, Wake, clientVars
  <2> QED BY <2>1, <2>2, <2>3, WorkAccounts DEF Ends
<1>2. CASE PopUpdate
  <2>1. PICK ds, why, failed, outcome :
          /\ outcome = Nothing /\ ds = {Head(m_asUpdates).nChan} /\ failed = FALSE
          /\ why = IF Head(m_asUpdates).on THEN "eActivateState" ELSE "eInactivateState"
    OBVIOUS
  <2>2. why \in Reasons /\ failed \in BOOLEAN
    BY <2>1 DEF Reasons
  <2>3. /\ Work(ds, why, failed, outcome) /\ UNCHANGED <<inits, requests>>
        /\ pc \notin {"erase", "terminated"} /\ pc' = "updates"
    BY <1>2, <2>1 DEF PopUpdate, InUpdates, Wake, clientVars
  <2> QED BY <2>1, <2>2, <2>3, WorkAccounts DEF Ends
<1>3. CASE PreWrite
  <2>1. PICK ds, why, failed, outcome :
          outcome = Nothing /\ ds = Devices /\ why = "ePreWrite" /\ failed = FALSE
    OBVIOUS
  <2>2. why \in Reasons /\ failed \in BOOLEAN
    BY <2>1 DEF Reasons
  <2>3. /\ Work(ds, why, failed, outcome) /\ UNCHANGED <<inits, requests>>
        /\ pc \notin {"erase", "terminated"} /\ pc' = "write"
    BY <1>3, <2>1 DEF PreWrite, Wake, clientVars
  <2> QED BY <2>1, <2>2, <2>3, WorkAccounts DEF Ends
<1>4. CASE Write
  <2>1. PICK ds, why, failed, outcome :
          outcome = Nothing /\ ds = Devices /\ why = "ePostWrite" /\ failed = FALSE
    OBVIOUS
  <2>2. why \in Reasons /\ failed \in BOOLEAN
    BY <2>1 DEF Reasons
  <2>3. /\ Work(ds, why, failed, outcome) /\ UNCHANGED <<inits, requests>>
        /\ pc = "write" /\ pc' = "read"
    BY <1>4, <2>1 DEF Write, clientVars
  <2> QED BY <2>1, <2>2, <2>3, WorkAccounts DEF Ends
<1>5. CASE WriteFails
  <2>1. PICK ds, why, failed, outcome :
          outcome = Nothing /\ ds = Devices /\ why = "ePostWrite" /\ failed = TRUE
    OBVIOUS
  <2>2. why \in Reasons /\ failed \in BOOLEAN
    BY <2>1 DEF Reasons
  <2>3. /\ Work(ds, why, failed, outcome) /\ UNCHANGED <<inits, requests>>
        /\ pc = "write" /\ pc' = "erase"
    BY <1>5, <2>1 DEF WriteFails, clientVars
  <2> QED BY <2>1, <2>2, <2>3, WorkAccounts DEF Ends
<1>6. CASE \E outcome : ReadPort(outcome)
  <2>1. PICK ds, why, failed :
          ds = Devices /\ why = "ePostRead" /\ failed = FALSE
    OBVIOUS
  <2>2. why \in Reasons /\ failed \in BOOLEAN
    BY <2>1 DEF Reasons
  <2>3. PICK outcome : ReadPort(outcome)
    BY <1>6
  <2>4. /\ Work(ds, why, failed, outcome) /\ UNCHANGED <<inits, requests>>
        /\ pc = "read" /\ pc' = "erase"
    BY <2>1, <2>3 DEF ReadPort, clientVars
  <2> QED BY <2>1, <2>2, <2>4, WorkAccounts DEF Ends
<1> QED BY <1>1, <1>2, <1>3, <1>4, <1>5, <1>6

LEMMA InitAccounted ==
  ASSUME Init
  PROVE  Accounted
<1>1. /\ requests = <<>> /\ status = <<>> /\ pc # "erase"
      /\ dev = [d \in Devices |-> IF inits[d].kind = "ADC" THEN NewADC ELSE NewPeriph]
  BY DEF Init
<1>2. status \in Seq(Statuses) /\ Len(status) = Len(requests) /\ DOMAIN requests = {}
  BY <1>1, EmptySeq
<1>3. NewADC.m_llId = 0 /\ NewADC.llId = 0
  BY DEF NewADC
<1>4. /\ NewPeriph \in PeriphType /\ NewPeriph.m_allIds = <<>> /\ NewPeriph.m_nProcessed = 0
  <2>1. PICK none : none = [p \in Pins |-> 0]
    OBVIOUS
  <2>2. none \in [Pins -> Nat] /\ <<>> \in Seq(Nat)
    BY <2>1, EmptySeq
  <2>3. PICK out \in Outputs_ : out = [data |-> none, seq |-> {}]
    BY <2>2 DEF Outputs_
  <2>4. NewPeriph =
          [m_eState |-> "eInactivateState", m_hNext |-> FALSE,
           m_allIds |-> <<>>, m_nProcessed |-> 0,
           m_bUpdated |-> FALSE, m_bChanged |-> FALSE, m_bRead |-> FALSE,
           data |-> none, seq |-> Pins, buff |-> out]
    BY <2>1, <2>3 DEF NewPeriph
  <2> QED BY <2>2, <2>4 DEF PeriphType
<1>5. ASSUME NEW d \in Writers \cup Readers PROVE Served(d)
  <2>1. dev[d] = NewPeriph /\ Answers(d) = 0
    BY <1>1 DEF Writers, Readers, Kind, Answers
  <2>2. Len(dev[d].m_allIds) = 0 /\ DOMAIN dev[d].m_allIds = {}
    BY <1>4, <2>1, EmptySeq
  <2> QED BY <1>2, <1>4, <2>1, <2>2 DEF Served, Lists
<1>6. ASSUME NEW d \in ADCs PROVE Triggered(d)
  <2>1. dev[d] = NewADC
    BY <1>1 DEF ADCs, Kind
  <2> QED BY <1>3, <2>1 DEF Triggered
<1> QED BY <1>2, <1>5, <1>6 DEF Accounted

\* Only these answers are changed by a step.
Answered_Once ==
  \A r \in DOMAIN status : status'[r] # status[r] =>
    \/ status[r] \in Open
    \/ pc = "erase" /\ status[r] \in {"ok", "error"} /\ status'[r] = "cancelled"
    \/ requests[r].nChan \in ADCs /\ dev[requests[r].nChan].llId = r /\ status'[r] = "late"

LEMMA NextKeepsAccounted ==
  ASSUME Stocked, Accounted, [Next]_vars
  PROVE  Accounted' /\ Answered_Once
<1> USE DEF Awaited, Answered_Once
<1>1. CASE ProcessData
  <2>1. CASE \E d \in Devices, on \in BOOLEAN : ActivateOrInactivate(d, on)
    BY <2>1, ThreadSilent, SilentAccounts
  <2>2. CASE \E c \in Clients, d \in Devices :
               \/ \E request \in Writes : WriteData(c, d, request)
               \/ Trigger(c, d) \/ TriggerADC(c, d) \/ CancelRead(c, d)
    BY <2>2, WriteDataAccounts, TriggerAccounts, TriggerADCAccounts, CancelAccounts
  <2> QED BY <1>1, <2>1, <2>2 DEF ProcessData
<1>2. CASE WakeStop \/ NoMoreUpdates \/ Reset \/ RecoverFails \/ ReadFails
  BY <1>2, ThreadSilent, SilentAccounts
<1>3. CASE \/ Recover \/ PopUpdate \/ PreWrite \/ Write \/ WriteFails
           \/ Read \/ \E shown \in SUBSET ucOutput : ReadGarbled(shown)
  BY <1>3, ReadIs, ThreadAccounts
<1>4. CASE Erase
  BY <1>4, EraseAccounts
<1>5. CASE Delete \/ UNCHANGED vars \/ \E c \in Clients : Leave(c)
  BY <1>5, ThreadSilent, SilentAccounts
<1>6. CASE StopThread \/ DeleteDevices
  BY <1>6, DeletionSilent, SilentAccounts
<1>7. CASE \E d \in Devices : ADCThread(d) \/ ADCDue(d)
  <2>1. PICK d \in Devices : ADCThread(d) \/ ADCDue(d)
    BY <1>7
  <2>2. CASE ADCTake(d) \/ ADCExtracted(d) \/ ADCStop(d) \/ ADCDue(d)
    BY <2>2, ADCSilent, SilentAccounts
  <2>3. CASE ADCSend(d)
    BY <2>3, SendAccounts
  <2> QED BY <2>1, <2>2, <2>3 DEF ADCThread
<1> QED BY <1>1, <1>2, <1>3, <1>4, <1>5, <1>6, <1>7
        DEF Next, ThreadProc, Faults, Deletion

\* Whatever the order of requests, cancellings, writes, reads and errors, a
\* request that waits for its device is in the device's list, once, and nobody
\* else is.
THEOREM RequestsListed == Spec => []RequestsAccounted
<1>1. Stocked /\ Accounted => RequestsAccounted
  <2> SUFFICES ASSUME Stocked, Accounted, NEW d \in Writers \cup Readers
               PROVE  /\ \A r \in DOMAIN requests :
                           requests[r].nChan = d /\ status[r] \in Open =>
                             Cardinality({k \in DOMAIN dev[d].m_allIds :
                                            dev[d].m_allIds[k] = r}) = 1
                      /\ pc \notin {"erase", "terminated"} =>
                           \A r \in First(dev[d], Everyone(dev[d])) : status[r] \in Open
    BY DEF RequestsAccounted
  <2>1. PICK a \in PeriphType : a = dev[d]
    BY DEF Accounted, Served
  <2>2. PICK m : Lists(d, a.m_allIds, m, requests, status)
    BY <2>1 DEF Accounted, Served
  <2>3. 0 \notin DOMAIN requests /\ Len(a.m_allIds) \in Nat
    BY <2>1, LenProperties DEF Stocked, PeriphType
  <2>4. ASSUME NEW r \in DOMAIN requests, requests[r].nChan = d, status[r] \in Open
        PROVE  Cardinality({k \in DOMAIN a.m_allIds : a.m_allIds[k] = r}) = 1
    <3>1. PICK k \in DOMAIN a.m_allIds : a.m_allIds[k] = r
      BY <2>2, <2>4 DEF Lists
    <3>2. \A l \in DOMAIN a.m_allIds : a.m_allIds[l] = r => l = k
      BY <2>2, <2>3, <3>1 DEF Lists
    <3>3. {l \in DOMAIN a.m_allIds : a.m_allIds[l] = r} = {k}
      BY <3>1, <3>2
    <3> QED BY <3>3, FS_Singleton
  <2>5. ASSUME pc \notin {"erase", "terminated"}
        PROVE  \A r \in First(a, Everyone(a)) : status[r] \in Open
    <3>1. Answers(d) = 0
      BY <2>5 DEF Answers
    <3>2. Lists(d, a.m_allIds, 0, requests, status)
      BY <2>1, <2>5, <3>1 DEF Accounted, Served
    <3>3. PICK n \in Nat : n = Len(a.m_allIds) /\ n <= Len(a.m_allIds)
      BY <2>3
    <3>4. PICK reqs, st : reqs = requests /\ st = status
      OBVIOUS
    <3>5. Lists(d, a.m_allIds, 0, reqs, st)
      BY <3>2, <3>4
    <3>6. \A r \in First(a, n) : r \in DOMAIN reqs /\ reqs[r].nChan = d /\ st[r] \in Open
      BY <3>3, <3>5, FirstOpen
    <3> QED BY <3>3, <3>4, <3>6 DEF Everyone
  <2> QED BY <2>1, <2>4, <2>5
<1>2. Stocked /\ Accounted /\ [Next]_vars => (Stocked /\ Accounted)'
  BY NextKeepsStocked, NextKeepsAccounted
<1> QED BY <1>1, <1>2, InitStocked, InitAccounted, PTL DEF Spec

\* The thread of an ADC takes note of whom it extracts a block for when it
\* takes the block, and not later.
Noting == \A d \in ADCs : dev'[d].llId \in {0, dev[d].llId, dev[d].m_llId}

LEMMA WorkNotes ==
  ASSUME Stocked, NEW ds, NEW why \in Reasons, NEW failed, NEW outcome,
         Work(ds, why, failed, outcome), UNCHANGED inits
  PROVE  Noting
<1> SUFFICES ASSUME NEW d \in ADCs PROVE dev'[d].llId = dev[d].llId
  BY DEF Noting
<1>1. PICK w : w = DoWork(d, why, failed, outcome).dev
  OBVIOUS
<1>2. w.llId = dev[d].llId
  BY <1>1, WorkADC
<1>3. dev'[d] = w \/ dev'[d] = dev[d]
  BY <1>1, WorkIs, DevicesFinite DEF Stocked
<1> QED BY <1>2, <1>3

LEMMA AskNotes ==
  ASSUME Stocked, NEW c \in Clients, NEW d \in Devices,
         \/ \E request \in Writes : WriteData(c, d, request)
         \/ Trigger(c, d) \/ TriggerADC(c, d) \/ CancelRead(c, d)
  PROVE  Noting
<1>1. /\ DOMAIN dev = Devices /\ ADCs \subseteq Devices
      /\ ADCs \cap (Writers \cup Readers) = {}
  BY DevicesFinite DEF Stocked
<1>2. CASE d \in Writers \cup Readers /\ \E x : dev' = [dev EXCEPT ![d] = x]
  BY <1>1, <1>2 DEF Noting
<1>3. CASE \E request \in Writes : WriteData(c, d, request)
  BY <1>2, <1>3 DEF WriteData
<1>4. CASE Trigger(c, d)
  BY <1>2, <1>4 DEF Trigger
<1>5. CASE CancelRead(c, d)
  BY <1>2, <1>5 DEF CancelRead
<1>6. CASE TriggerADC(c, d)
  <2>1. PICK r : dev' = [dev EXCEPT ![d] = ADCProcessData(dev[d], r)] /\ d \in ADCs
    BY <1>6 DEF TriggerADC
  <2>2. dev[d] \in ADCType
    BY <2>1 DEF Stocked, Holding
  <2>3. ADCProcessData(dev[d], r).llId = dev[d].llId
    BY <2>2 DEF ADCProcessData, ADCType
  <2>4. \A e \in ADCs : dev'[e].llId = dev[e].llId
    BY <1>1, <2>1, <2>3
  <2> QED BY <2>4 DEF Noting
<1> QED BY <1>3, <1>4, <1>5, <1>6

LEMMA NextNotes ==
  ASSUME Stocked, Accounted, [Next]_vars
  PROVE  Noting
<1>1. Silent => Noting
  BY DEF Silent, Noting
<1>2. CASE ProcessData
  <2>1. CASE \E d \in Devices, on \in BOOLEAN : ActivateOrInactivate(d, on)
    BY <1>1, <2>1, ThreadSilent
  <2>2. CASE \E c \in Clients, d \in Devices :
               \/ \E request \in Writes : WriteData(c, d, request)
               \/ Trigger(c, d) \/ TriggerADC(c, d) \/ CancelRead(c, d)
    BY <2>2, AskNotes
  <2> QED BY <1>2, <2>1, <2>2 DEF ProcessData
<1>3. CASE \/ WakeStop \/ NoMoreUpdates \/ Reset \/ RecoverFails \/ ReadFails
           \/ Delete \/ UNCHANGED vars \/ \E c \in Clients : Leave(c)
  BY <1>1, <1>3, ThreadSilent
<1>4. CASE \/ Recover \/ PopUpdate \/ PreWrite \/ Write \/ WriteFails
           \/ Read \/ \E shown \in SUBSET ucOutput : ReadGarbled(shown)
  <2>1. PICK ds, why, failed, outcome : why \in Reasons /\ Work(ds, why, failed, outcome)
    <3>1. CASE Recover
      <4>1. PICK ds, why, failed, outcome :
              /\ ds = Devices /\ failed = FALSE /\ outcome = Nothing
              /\ why = "eRecover"
        OBVIOUS
      <4>2. Work(ds, why, failed, outcome) /\ why \in Reasons
        BY <3>1, <4>1 DEF Recover, Reasons
      <4> QED BY <4>2
    <3>2. CASE PopUpdate
      <4>1. PICK ds, why, failed, outcome :
              /\ ds = {Head(m_asUpdates).nChan} /\ failed = FALSE /\ outcome = Nothing
              /\ why = IF Head(m_asUpdates).on THEN "eActivateState" ELSE "eInactivateState"
        OBVIOUS
      <4>2. Work(ds, why, failed, outcome) /\ why \in Reasons
        BY <3>2, <4>1 DEF PopUpdate, Reasons
      <4> QED BY <4>2
    <3>3. CASE PreWrite
      <4>1. PICK ds, why, failed, outcome :
              /\ ds = Devices /\ failed = FALSE /\ outcome = Nothing
              /\ why = "ePreWrite"
        OBVIOUS
      <4>2. Work(ds, why, failed, outcome) /\ why \in Reasons
        BY <3>3, <4>1 DEF PreWrite, Reasons
      <4> QED BY <4>2
    <3>4. CASE Write
      <4>1. PICK ds, why, failed, outcome :
              /\ ds = Devices /\ failed = FALSE /\ outcome = Nothing
              /\ why = "ePostWrite"
        OBVIOUS
      <4>2. Work(ds, why, failed, outcome) /\ why \in Reasons
        BY <3>4, <4>1 DEF Write, Reasons
      <4> QED BY <4>2
    <3>5. CASE WriteFails
      <4>1. PICK ds, why, failed, outcome :
              /\ ds = Devices /\ failed = TRUE /\ outcome = Nothing
              /\ why = "ePostWrite"
        OBVIOUS
      <4>2. Work(ds, why, failed, outcome) /\ why \in Reasons
        BY <3>5, <4>1 DEF WriteFails, Reasons
      <4> QED BY <4>2
    <3>6. CASE Read \/ \E shown \in SUBSET ucOutput : ReadGarbled(shown)
      <4>1. PICK ds, why, failed : ds = Devices /\ failed = FALSE /\ why = "ePostRead"
        OBVIOUS
      <4>2. PICK outcome : ReadPort(outcome)
        BY <3>6, ReadIs
      <4>3. Work(ds, why, failed, outcome) /\ why \in Reasons
        BY <4>1, <4>2 DEF ReadPort, Reasons
      <4> QED BY <4>3
    <3> QED BY <1>4, <3>1, <3>2, <3>3, <3>4, <3>5, <3>6
  <2>2. inits' = inits
    BY <1>4, ReadIs
    DEF Recover, PopUpdate, PreWrite, Write, WriteFails, ReadPort, clientVars
  <2> QED BY <2>1, <2>2, WorkNotes
<1>5. CASE Erase
  <2>1. \A d \in Devices : inits[d].kind = "ADC" => dev'[d] = dev[d]
    BY <1>5 DEF Erase
  <2> QED BY <2>1 DEF Noting, ADCs, Kind
<1>6. CASE StopThread \/ DeleteDevices
  BY <1>1, <1>6, DeletionSilent
<1>7. CASE \E d \in Devices : ADCThread(d) \/ ADCDue(d)
  <2>1. PICK d \in Devices : ADCThread(d) \/ ADCDue(d)
    BY <1>7
  <2>2. CASE ADCTake(d) \/ ADCExtracted(d) \/ ADCStop(d) \/ ADCDue(d)
    BY <1>1, <2>2, ADCSilent
  <2>3. CASE ADCSend(d)
    BY <2>3 DEF ADCSend, Noting
  <2> QED BY <2>1, <2>2, <2>3 DEF ADCThread
<1> QED BY <1>2, <1>3, <1>4, <1>5, <1>6, <1>7
        DEF Next, ThreadProc, Faults, Deletion

\* However many packets a block gives, whatever the order of inactivations,
\* triggers and errors: an answer stands, but for a cancelling, and for the
\* readings that an ADC's thread has in hand for whom it has noted; and once
\* the thread has that request no longer noted, it never has again.
THEOREM AnswersStand == Spec => AnswersFinal
<1>1. Stocked /\ Accounted /\ [Next]_vars =>
        [\A r \in DOMAIN status : LET d == requests[r].nChan IN
           status[r] \notin Open =>
             \/ /\ status'[r] = status[r]
                /\ d \in ADCs /\ dev[d].llId # r => dev'[d].llId # r
             \/ pc = "erase" /\ status[r] \in {"ok", "error"} /\ status'[r] = "cancelled"
             \/ d \in ADCs /\ dev[d].llId = r /\ status'[r] = "late"]_vars
  <2> SUFFICES ASSUME Stocked, Accounted, [Next]_vars,
                      NEW r \in DOMAIN status, status[r] \notin Open,
                      NEW d, d = requests[r].nChan
               PROVE  \/ /\ status'[r] = status[r]
                         /\ d \in ADCs /\ dev[d].llId # r => dev'[d].llId # r
                      \/ pc = "erase" /\ status[r] \in {"ok", "error"} /\ status'[r] = "cancelled"
                      \/ d \in ADCs /\ dev[d].llId = r /\ status'[r] = "late"
    OBVIOUS
  <2>1. Answered_Once /\ Noting
    BY NextKeepsAccounted, NextNotes
  <2>2. d \in ADCs /\ dev[d].llId # r => dev'[d].llId # r
    <3> SUFFICES ASSUME d \in ADCs, dev[d].llId # r PROVE dev'[d].llId # r
      OBVIOUS
    <3>1. Triggered(d)
      BY DEF Accounted
    <3>2. dev[d].m_llId # r
      <4>1. r # 0
        BY LenProperties DEF Accounted
      <4> QED BY <3>1, <4>1 DEF Triggered
    <3>3. r # 0
      BY LenProperties DEF Accounted
    <3> QED BY <2>1, <3>2, <3>3 DEF Noting
  <2> QED BY <2>1, <2>2 DEF Answered_Once
<1>2. Stocked /\ Accounted /\ [Next]_vars => (Stocked /\ Accounted)'
  BY NextKeepsStocked, NextKeepsAccounted
<1> QED BY <1>1, <1>2, InitStocked, InitAccounted, PTL DEF Spec, AnswersFinal

-----------------------------------------------------------------------------
(* What is written *)

\* What a writing device holds is newer than what it put in the buffer, and
\* that newer than what its outputs show; it holds what the listed requests
\* want, and prepared it for those a write is under way for: without a fault,
\* on pins that still have their sequence to write, or wrote it.
Carried(kind, a, reqs, w, pl, at, f) ==
  /\ w \in [Pins -> Nat] /\ pl \in [Pins -> Nat]
  /\ \A p \in Pins : /\ w[p] <= a.buff.data[p] /\ pl[p] <= a.buff.data[p]
                     /\ a.buff.data[p] <= a.data[p] /\ a.data[p] <= Len(reqs)
  /\ \A k \in DOMAIN a.m_allIds :
       /\ a.m_allIds[k] \in DOMAIN reqs
       /\ \A p \in reqs[a.m_allIds[k]].pins :
            /\ a.data[p] >= a.m_allIds[k]
            /\ k <= a.m_nProcessed => a.buff.data[p] >= a.m_allIds[k]
            /\ f = 0 /\ ~(k <= a.m_nProcessed) => p \in a.seq
            /\ f = 0 /\ k <= a.m_nProcessed /\ at = "write" => p \in a.buff.seq
            /\ f = 0 /\ k <= a.m_nProcessed /\ at = "read" => pl[p] >= a.m_allIds[k]
  /\ kind = "MultiW" => a.seq = Pins
  /\ kind = "PinW" /\ at = "read" => w = a.buff.data

\* Without a fault, a write that was prepared is carried out and answered, by
\* a pin device only after the read, before the thread does anything else.
Pending(kind, a, at, f) ==
  f = 0 => IF a.m_bChanged
           THEN /\ a.m_eState = "eActive"
                /\ at \in {"write", "exited", "terminated"} \/ (kind = "PinW" /\ at = "read")
           ELSE a.m_nProcessed = 0

\* The thread goes on, without a write.
LEMMA CarriedOn ==
  ASSUME NEW a \in PeriphType, NEW kind, NEW reqs, NEW w, NEW pl, NEW at, NEW f,
         Carried(kind, a, reqs, w, pl, at, f), Pending(kind, a, at, f),
         NEW at2, NEW f2 \in Nat, f2 = 0 => f = 0,
         \/ at2 = at \/ at2 \notin {"write", "read"}
         \/ at2 = "write" /\ at \notin {"write", "read", "exited", "terminated"}
  PROVE  Carried(kind, a, reqs, w, pl, at2, f2)
<1>1. CASE at2 = at
  BY <1>1 DEF Carried
<1>2. CASE at2 \notin {"write", "read"}
  BY <1>2 DEF Carried
<1>3. CASE at2 = "write" /\ at \notin {"write", "read", "exited", "terminated"}
  <2>1. f2 = 0 => \A k \in DOMAIN a.m_allIds : ~(k <= a.m_nProcessed)
    <3>1. DOMAIN a.m_allIds = 1 .. Len(a.m_allIds) /\ Len(a.m_allIds) \in Nat
      BY LenProperties DEF PeriphType
    <3>2. f2 = 0 => a.m_nProcessed = 0
      BY <1>3 DEF Pending
    <3> QED BY <3>1, <3>2
  <2> QED BY <1>3, <2>1 DEF Carried
<1> QED BY <1>1, <1>2, <1>3

\* A device whose list, values and preparations are as they were.
LEMMA CarriedSame ==
  ASSUME NEW a \in PeriphType, NEW kind, NEW reqs, NEW w, NEW pl, NEW at, NEW f,
         Carried(kind, a, reqs, w, pl, at, f), NEW b,
         b.m_allIds = a.m_allIds, b.m_nProcessed = a.m_nProcessed,
         b.data = a.data, b.seq = a.seq, b.buff.data = a.buff.data,
         at = "write" => b.buff.seq = a.buff.seq
  PROVE  Carried(kind, b, reqs, w, pl, at, f)
BY DEF Carried

LEMMA CarriedPrepared ==
  ASSUME NEW a \in PeriphType, NEW kind, NEW reqs, NEW w, NEW pl, NEW at, NEW f,
         Carried(kind, a, reqs, w, pl, at, f), Pending(kind, a, at, f),
         at \notin {"write", "read", "exited", "terminated"},
         NEW b, b.m_allIds = a.m_allIds, b.m_nProcessed = Len(a.m_allIds),
         b.data = a.data, b.buff = [data |-> a.data, seq |-> a.seq],
         b.seq = a.seq \/ (kind # "MultiW" /\ b.seq = {}), reqs \in Seq(Request)
  PROVE  Carried(kind, b, reqs, w, pl, "write", f)
<1>1. /\ DOMAIN a.m_allIds = 1 .. Len(a.m_allIds) /\ Len(a.m_allIds) \in Nat
      /\ a.data \in [Pins -> Nat] /\ a.buff.data \in [Pins -> Nat] /\ Len(reqs) \in Nat
  BY LenProperties DEF PeriphType, Outputs_
<1>2. b.buff.data = a.data /\ b.buff.seq = a.seq
  OBVIOUS
<1>3. \A p \in Pins : /\ w[p] <= a.data[p] /\ pl[p] <= a.data[p]
                      /\ a.data[p] <= a.data[p] /\ a.data[p] <= Len(reqs)
  <2>1. \A p \in Pins : w[p] \in Nat /\ pl[p] \in Nat /\ a.data[p] \in Nat /\ a.buff.data[p] \in Nat
    BY <1>1 DEF Carried
  <2> QED BY <2>1 DEF Carried
<1>4. \A k \in DOMAIN a.m_allIds : k <= Len(a.m_allIds)
  BY <1>1
<1>5. f = 0 => \A k \in DOMAIN a.m_allIds : ~(k <= a.m_nProcessed)
  <2>1. f = 0 => a.m_nProcessed = 0
    BY DEF Pending
  <2> QED BY <1>1, <2>1
<1>6. ASSUME NEW k \in DOMAIN b.m_allIds
      PROVE  /\ b.m_allIds[k] \in DOMAIN reqs
             /\ \A p \in reqs[b.m_allIds[k]].pins :
                  /\ b.data[p] >= b.m_allIds[k]
                  /\ b.buff.data[p] >= b.m_allIds[k]
                  /\ k <= b.m_nProcessed
                  /\ f = 0 => p \in b.buff.seq
  BY <1>2, <1>4, <1>5 DEF Carried
<1> QED BY <1>2, <1>3, <1>6 DEF Carried

LEMMA CarriedCleared ==
  ASSUME NEW a, NEW kind, NEW reqs, NEW w, NEW pl, NEW at, NEW f,
         Carried(kind, a, reqs, w, pl, at, f), NEW b,
         b.m_allIds = <<>>, b.data = a.data, b.seq = a.seq, b.buff.data = a.buff.data
  PROVE  Carried(kind, b, reqs, w, pl, at, f)
<1>1. DOMAIN b.m_allIds = {}
  OBVIOUS
<1> QED BY <1>1 DEF Carried

\* The requests carried out are off the list.
LEMMA CarriedCut ==
  ASSUME NEW a \in PeriphType, a.m_nProcessed <= Len(a.m_allIds),
         NEW kind, NEW reqs, NEW w, NEW pl, NEW at, NEW f,
         Carried(kind, a, reqs, w, pl, at, f), NEW b,
         b.m_allIds = Drop(a.m_allIds, a.m_nProcessed), b.m_nProcessed = 0,
         b.data = a.data, b.seq = a.seq, b.buff = a.buff
  PROVE  Carried(kind, b, reqs, w, pl, at, f)
<1>1. PICK ids \in Seq(Nat), n \in Nat : ids = a.m_allIds /\ n = a.m_nProcessed
  BY DEF PeriphType
<1>2. PICK rest \in Seq(Nat) : rest = Drop(ids, n) /\ Off(ids, n, rest)
  BY <1>1, OffIs, DropIs
<1>3. /\ DOMAIN rest = 1 .. Len(ids) - n /\ Len(ids) \in Nat /\ DOMAIN ids = 1 .. Len(ids)
      /\ \A j \in DOMAIN rest : rest[j] = ids[n + j]
  <2>1. /\ Len(ids) \in Nat /\ DOMAIN ids = 1 .. Len(ids) /\ DOMAIN rest = 1 .. Len(rest)
    BY LenProperties
  <2> QED BY <1>2, <2>1 DEF Off
<1>4. \A j \in DOMAIN rest : n + j \in DOMAIN ids /\ ~(n + j <= n) /\ ~(j <= 0)
  BY SMTT(30), <1>3
<1>5. ASSUME NEW j \in DOMAIN rest
      PROVE  /\ rest[j] \in DOMAIN reqs
             /\ \A p \in reqs[rest[j]].pins : a.data[p] >= rest[j] /\ (f = 0 => p \in a.seq)
  <2>1. PICK k : k = n + j /\ k \in DOMAIN ids /\ ~(k <= n) /\ rest[j] = ids[k]
    BY <1>3, <1>4
  <2> QED BY <1>1, <2>1 DEF Carried
<1>6. b.m_allIds = rest
  BY <1>1, <1>2
<1> QED BY <1>4, <1>5, <1>6 DEF Carried

\* The devices' values are clocked out.
Clocks(kind, a, w, pl, w2, pl2) ==
  IF kind = "PinW" \/ a.m_bChanged
  THEN w2 = a.buff.data /\ pl2 = [p \in Pins |-> IF p \in a.buff.seq THEN a.buff.data[p] ELSE pl[p]]
  ELSE w2 = w /\ pl2 = pl

LEMMA CarriedOut ==
  ASSUME NEW a \in PeriphType, a.m_nProcessed <= Len(a.m_allIds),
         NEW kind, NEW reqs \in Seq(Request), NEW w, NEW pl, NEW f,
         Carried(kind, a, reqs, w, pl, "write", f), Pending(kind, a, "write", f),
         NEW w2, NEW pl2, Clocks(kind, a, w, pl, w2, pl2)
  PROVE  /\ Carried(kind, a, reqs, w2, pl2, "read", f)
         /\ \A p \in Pins : w2[p] >= w[p] /\ pl2[p] >= pl[p]
         /\ kind = "PinW" \/ a.m_bChanged => w2 = a.buff.data
<1>1. /\ DOMAIN a.m_allIds = 1 .. Len(a.m_allIds) /\ Len(a.m_allIds) \in Nat
      /\ a.data \in [Pins -> Nat] /\ a.buff.data \in [Pins -> Nat]
      /\ w \in [Pins -> Nat] /\ pl \in [Pins -> Nat]
  BY LenProperties DEF PeriphType, Outputs_, Carried
<1>2. CASE kind = "PinW" \/ a.m_bChanged
  <2>1. /\ w2 = a.buff.data
        /\ pl2 = [p \in Pins |-> IF p \in a.buff.seq THEN a.buff.data[p] ELSE pl[p]]
    BY <1>2 DEF Clocks
  <2>2. w2 \in [Pins -> Nat] /\ pl2 \in [Pins -> Nat]
    BY <1>1, <2>1
  <2>3. \A p \in Pins : /\ a.buff.data[p] <= a.buff.data[p] /\ pl2[p] <= a.buff.data[p]
                        /\ a.buff.data[p] >= w[p] /\ pl2[p] >= pl[p]
    <3>1. \A p \in Pins : /\ w[p] \in Nat /\ pl[p] \in Nat /\ a.buff.data[p] \in Nat
                          /\ w[p] <= a.buff.data[p] /\ pl[p] <= a.buff.data[p]
      BY <1>1 DEF Carried
    <3> QED BY <2>1, <3>1
  <2>4. ASSUME NEW k \in DOMAIN a.m_allIds, NEW p \in reqs[a.m_allIds[k]].pins,
               f = 0, k <= a.m_nProcessed
        PROVE  pl2[p] >= a.m_allIds[k]
    <3>1. p \in Pins
      <4>1. reqs[a.m_allIds[k]] \in Request
        BY ElementOfSeq, LenProperties DEF Carried
      <4> QED BY <4>1 DEF Request
    <3>2. p \in a.buff.seq /\ a.buff.data[p] >= a.m_allIds[k]
      BY <2>4 DEF Carried
    <3> QED BY <2>1, <3>1, <3>2
  <2>5. Carried(kind, a, reqs, w2, pl2, "read", f)
    BY <2>1, <2>2, <2>3, <2>4 DEF Carried
  <2> QED BY <2>1, <2>3, <2>5
<1>3. CASE ~(kind = "PinW" \/ a.m_bChanged)
  <2>1. w2 = w /\ pl2 = pl
    BY <1>3 DEF Clocks
  <2>2. \A p \in Pins : w[p] >= w[p] /\ pl[p] >= pl[p]
    BY <1>1
  <2>3. f = 0 => \A k \in DOMAIN a.m_allIds : ~(k <= a.m_nProcessed)
    <3>1. f = 0 => a.m_nProcessed = 0
      BY <1>3 DEF Pending
    <3> QED BY <1>1, <3>1
  <2>4. Carried(kind, a, reqs, w, pl, "read", f)
    BY <1>3, <2>3 DEF Carried
  <2> QED BY <1>3, <2>1, <2>2, <2>4
<1> QED BY <1>2, <1>3

\* Who is answered has its values on the outputs, and played but for a fault.
OnOutputs(sent, reqs, w, pl, f) ==
  \A r \in DOMAIN sent : sent[r] = "ok" =>
    \A p \in reqs[r].pins : w[p] >= r /\ (pl[p] >= r \/ f > 0)

LEMMA ToldIs ==
  ASSUME NEW a \in PeriphType, a.m_nProcessed <= Len(a.m_allIds), NEW kind,
         NEW reqs, NEW pl, NEW f \in Nat,
         Carried(kind, a, reqs, a.buff.data, pl, "read", f),
         NEW sent, NEW message, sent = Tell(a, a.m_nProcessed, message)
  PROVE  OnOutputs(sent, reqs, a.buff.data, pl, f)
<1>1. DOMAIN sent = First(a, a.m_nProcessed)
  BY DEF Tell
<1>2. ASSUME NEW r \in DOMAIN sent, NEW p \in reqs[r].pins
      PROVE  a.buff.data[p] >= r /\ (pl[p] >= r \/ f > 0)
  <2>1. PICK k \in 1 .. a.m_nProcessed : a.m_allIds[k] = r
    BY <1>1 DEF First
  <2>2. k \in DOMAIN a.m_allIds /\ k <= a.m_nProcessed
    BY <2>1, LenProperties DEF PeriphType
  <2>3. a.buff.data[p] >= r /\ (f = 0 => pl[p] >= r)
    BY <2>1, <2>2 DEF Carried
  <2> QED BY <2>3
<1> QED BY <1>2 DEF OnOutputs

\* When ThreadProc makes which call.
CallAt(why, failed, at, at2, f, f2) ==
  \/ /\ why \in {"eActivateState", "eInactivateState", "eRecover"}
     /\ at \notin {"write", "read", "exited", "terminated"} /\ at2 = "updates" /\ f2 = f
  \/ why = "ePreWrite" /\ at \notin {"write", "read", "exited", "terminated"} /\ at2 = "write" /\ f2 = f
  \/ why = "ePostWrite" /\ ~failed /\ at = "write" /\ at2 = "read" /\ f2 = f
  \/ why = "ePostWrite" /\ failed /\ at = "write" /\ at2 = "erase" /\ f2 = f + 1
  \/ /\ why = "ePostRead" /\ ~failed /\ at = "read" /\ at2 = "erase"
     /\ f2 \in {f, f + 1}

\* The outputs after it.
OutputsAt(why, failed, kind, a, w, pl, w2, pl2) ==
  IF why = "ePostWrite" /\ ~failed THEN Clocks(kind, a, w, pl, w2, pl2) ELSE w2 = w /\ pl2 = pl

LEMMA CallMoves ==
  ASSUME NEW a \in PeriphType, a.m_nProcessed <= Len(a.m_allIds),
         NEW kind, NEW reqs \in Seq(Request), NEW w, NEW pl, NEW at, NEW f \in Nat,
         Carried(kind, a, reqs, w, pl, at, f), Pending(kind, a, at, f),
         NEW why, NEW failed, NEW at2, NEW f2, CallAt(why, failed, at, at2, f, f2),
         NEW w2, NEW pl2, OutputsAt(why, failed, kind, a, w, pl, w2, pl2)
  PROVE  /\ Carried(kind, a, reqs, w2, pl2, at2, f2) /\ f2 \in Nat
         /\ f2 = 0 => f = 0
         /\ \A p \in Pins : w2[p] >= w[p] /\ pl2[p] >= pl[p]
<1>1. f2 \in Nat /\ (f2 = 0 => f = 0)
  BY DEF CallAt
<1>2. CASE why = "ePostWrite" /\ ~failed
  <2>1. at = "write" /\ at2 = "read" /\ f2 = f
    BY <1>2 DEF CallAt
  <2>2. Clocks(kind, a, w, pl, w2, pl2)
    BY <1>2 DEF OutputsAt
  <2> QED BY <1>1, <2>1, <2>2, CarriedOut
<1>3. CASE ~(why = "ePostWrite" /\ ~failed)
  <2>1. w2 = w /\ pl2 = pl
    BY <1>3 DEF OutputsAt
  <2>2. \/ at2 \notin {"write", "read"}
        \/ at2 = "write" /\ at \notin {"write", "read", "exited", "terminated"}
    BY <1>3 DEF CallAt
  <2>3. Carried(kind, a, reqs, w, pl, at2, f2)
    BY <1>1, <2>2, CarriedOn
  <2>4. \A p \in Pins : w[p] >= w[p] /\ pl[p] >= pl[p]
    BY DEF Carried
  <2> QED BY <1>1, <2>1, <2>3, <2>4
<1> QED BY <1>2, <1>3

LEMMA CallGrows ==
  ASSUME NEW a \in PeriphType, a.m_nProcessed <= Len(a.m_allIds),
         NEW kind, NEW reqs \in Seq(Request), NEW w, NEW pl, NEW at, NEW f \in Nat,
         Carried(kind, a, reqs, w, pl, at, f), Pending(kind, a, at, f),
         NEW why, NEW failed, NEW at2, NEW f2, CallAt(why, failed, at, at2, f, f2),
         NEW w2, NEW pl2, OutputsAt(why, failed, kind, a, w, pl, w2, pl2)
  PROVE  \A p \in Pins : w2[p] >= w[p] /\ pl2[p] >= pl[p]
BY CallMoves

Writes_(kind, b, sent, reqs, w, pl, at, f) ==
  Carried(kind, b, reqs, w, pl, at, f) /\ Pending(kind, b, at, f) /\ OnOutputs(sent, reqs, w, pl, f)

LEMMA MultiWWrites ==
  ASSUME NEW a \in PeriphType, a.m_nProcessed <= Len(a.m_allIds),
         NEW kind, kind = "MultiW",
         NEW reqs \in Seq(Request), NEW w, NEW pl, NEW at, NEW f \in Nat,
         Carried(kind, a, reqs, w, pl, at, f), Pending(kind, a, at, f),
         NEW why, NEW failed, NEW at2, NEW f2, CallAt(why, failed, at, at2, f, f2),
         NEW w2, NEW pl2, OutputsAt(why, failed, kind, a, w, pl, w2, pl2),
         NEW done, done = MultiWDoWork(a, why, failed)
  PROVE  Writes_(kind, done.dev, done.sent, reqs, w2, pl2, at2, f2)
<1>1. /\ Carried(kind, a, reqs, w2, pl2, at2, f2) /\ f2 \in Nat
      /\ f2 = 0 => f = 0
  <2>1. Carried(kind, a, reqs, w2, pl2, at2, f2)
    BY CallMoves
  <2>2. f2 \in Nat /\ (f2 = 0 => f = 0)
    BY DEF CallAt
  <2> QED BY <2>1, <2>2
<1>2. PICK b, sent : b = done.dev /\ sent = done.sent
  OBVIOUS
<1>3. ASSUME sent = <<>> PROVE OnOutputs(sent, reqs, w2, pl2, f2)
  BY <1>3 DEF OnOutputs
<1>4. CASE why \in {"eActivateState", "eInactivateState", "eRecover"}
  <2>1. /\ sent = <<>>
        /\ \/ b = a \/ \E state : b = [a EXCEPT !.m_eState = state]
           \/ b = [a EXCEPT !.m_bUpdated = TRUE, !.m_hNext = TRUE]
    BY <1>2, <1>4 DEF MultiWDoWork, Quiet, Does, Switched
  <2>2. /\ b.m_allIds = a.m_allIds /\ b.m_nProcessed = a.m_nProcessed
        /\ b.data = a.data /\ b.seq = a.seq /\ b.buff = a.buff /\ b.m_bChanged = a.m_bChanged
    BY <2>1 DEF PeriphType
  <2>3. Carried(kind, b, reqs, w2, pl2, at2, f2)
    BY <1>1, <2>2, CarriedSame
  <2>4. Pending(kind, b, at2, f2)
    BY <1>1, <1>4, <2>2 DEF Pending, CallAt
  <2> QED BY <1>2, <1>3, <2>1, <2>3, <2>4 DEF Writes_
<1>5. CASE why = "ePreWrite"
  <2>0. at \notin {"write", "read", "exited", "terminated"} /\ at2 = "write" /\ f2 = f /\ w2 = w /\ pl2 = pl
    BY <1>5 DEF CallAt, OutputsAt
  <2>1. CASE a.m_eState = "eInactivateState"
    <3>1. /\ b = [a EXCEPT !.m_eState = "eInactive", !.m_bUpdated = FALSE,
                          !.m_hNext = FALSE, !.m_allIds = <<>>,
                          !.m_nProcessed = 0, !.m_bChanged = FALSE]
          /\ sent = Tell(a, Everyone(a), "DEVICE_CLOSING")
      BY <1>2, <1>5, <2>1 DEF MultiWDoWork, Does
    <3>2. /\ b.m_allIds = <<>> /\ b.data = a.data /\ b.seq = a.seq /\ b.buff = a.buff
          /\ ~b.m_bChanged /\ b.m_nProcessed = 0
      BY <3>1 DEF PeriphType
    <3>3. Carried(kind, b, reqs, w2, pl2, at2, f2)
      BY <1>1, <3>2, CarriedCleared
    <3>4. OnOutputs(sent, reqs, w2, pl2, f2)
      BY <3>1 DEF OnOutputs, Tell
    <3> QED BY <1>2, <3>2, <3>3, <3>4 DEF Writes_, Pending
  <2>2. CASE a.m_eState = "eActive" /\ a.m_bUpdated
    <3>1. /\ b = [a EXCEPT !.buff = [data |-> a.data, seq |-> a.seq],
                           !.m_bUpdated = FALSE, !.m_bChanged = TRUE,
                           !.m_nProcessed = Everyone(a), !.m_hNext = FALSE]
          /\ sent = <<>>
      BY <1>2, <1>5, <2>2 DEF MultiWDoWork, Quiet, Does
    <3>2. /\ b.m_allIds = a.m_allIds /\ b.m_nProcessed = Len(a.m_allIds)
          /\ b.data = a.data /\ b.seq = a.seq /\ b.buff = [data |-> a.data, seq |-> a.seq]
          /\ b.m_eState = "eActive" /\ b.m_bChanged
      BY <2>2, <3>1 DEF PeriphType, Everyone
    <3>3. Carried(kind, b, reqs, w, pl, "write", f)
      BY <2>0, <3>2, CarriedPrepared
    <3> QED BY <1>2, <1>3, <2>0, <3>1, <3>2, <3>3 DEF Writes_, Pending
  <2>3. CASE a.m_eState # "eInactivateState" /\ ~(a.m_eState = "eActive" /\ a.m_bUpdated)
    <3>1. b = a /\ sent = <<>>
      BY <1>2, <1>5, <2>3 DEF MultiWDoWork, Quiet, Does
    <3>2. Pending(kind, a, at2, f2)
      BY <2>0 DEF Pending
    <3> QED BY <1>1, <1>2, <1>3, <3>1, <3>2 DEF Writes_
  <2> QED BY <2>1, <2>2, <2>3
<1>6. CASE why = "ePostWrite" /\ a.m_eState = "eActive" /\ a.m_bChanged
  <2>1. /\ b = [a EXCEPT !.m_allIds = Drop(a.m_allIds, a.m_nProcessed),
                         !.m_nProcessed = 0, !.m_bChanged = FALSE]
        /\ sent = Tell(a, a.m_nProcessed, IF failed THEN "error" ELSE "ok")
    BY <1>2, <1>6 DEF MultiWDoWork, Does, Written
  <2>2. /\ b.m_allIds = Drop(a.m_allIds, a.m_nProcessed) /\ b.m_nProcessed = 0
        /\ b.data = a.data /\ b.seq = a.seq /\ b.buff = a.buff /\ ~b.m_bChanged
    BY <2>1 DEF PeriphType
  <2>3. Carried(kind, b, reqs, w2, pl2, at2, f2)
    BY <1>1, <2>2, CarriedCut
  <2>4. OnOutputs(sent, reqs, w2, pl2, f2)
    <3>1. CASE failed
      BY <2>1, <3>1 DEF OnOutputs, Tell
    <3>2. CASE ~failed
      <4>1. at2 = "read" /\ w2 = a.buff.data
        BY <1>6, <3>2 DEF CallAt, OutputsAt, Clocks
      <4>2. PICK message : message = IF failed THEN "error" ELSE "ok"
        OBVIOUS
      <4>3. Carried(kind, a, reqs, a.buff.data, pl2, "read", f2)
        BY <1>1, <4>1
      <4>4. OnOutputs(sent, reqs, a.buff.data, pl2, f2)
        BY <1>1, <2>1, <4>2, <4>3, ToldIs
      <4> QED BY <4>1, <4>4
    <3> QED BY <3>1, <3>2
  <2> QED BY <1>2, <2>2, <2>3, <2>4 DEF Writes_, Pending
<1>7. CASE \/ why = "ePostWrite" /\ ~(a.m_eState = "eActive" /\ a.m_bChanged)
           \/ why = "ePostRead"
  <2>1. b = a /\ sent = <<>>
    BY <1>2, <1>7 DEF MultiWDoWork, Quiet, Does
  <2>2. Pending(kind, a, at2, f2)
    BY <1>1, <1>7 DEF Pending, CallAt
  <2> QED BY <1>1, <1>2, <1>3, <2>1, <2>2 DEF Writes_
<1> QED BY <1>4, <1>5, <1>6, <1>7 DEF CallAt

\* The pins' sequences are over.
LEMMA Played ==
  ASSUME NEW a \in PeriphType, NEW b, b = [a EXCEPT !.buff.seq = {}]
  PROVE  b = [a EXCEPT !.buff = [data |-> a.buff.data, seq |-> {}]]
<1>1. [a.buff EXCEPT !.seq = {}] = [data |-> a.buff.data, seq |-> {}]
  <2>1. PICK data, seq : a.buff = [data |-> data, seq |-> seq]
    BY DEF PeriphType, Outputs_
  <2>2. a.buff.data = data /\ [a.buff EXCEPT !.seq = {}] = [data |-> data, seq |-> {}]
    BY <2>1
  <2> QED BY <2>1, <2>2
<1> QED BY <1>1

LEMMA ClearedPin ==
  ASSUME NEW a \in PeriphType,
         NEW b, b = [a EXCEPT !.m_eState = "eInactive", !.m_bUpdated = FALSE,
                              !.m_hNext = FALSE, !.m_allIds = <<>>,
                              !.m_nProcessed = 0, !.m_bChanged = FALSE,
                              !.buff.seq = {}]
  PROVE  b = [a EXCEPT !.m_eState = "eInactive", !.m_bUpdated = FALSE,
                       !.m_hNext = FALSE, !.m_allIds = <<>>,
                       !.m_nProcessed = 0, !.m_bChanged = FALSE,
                       !.buff = [data |-> a.buff.data, seq |-> {}]]
<1>1. [a.buff EXCEPT !.seq = {}] = [data |-> a.buff.data, seq |-> {}]
  <2>1. PICK data, seq : a.buff = [data |-> data, seq |-> seq]
    BY DEF PeriphType, Outputs_
  <2>2. a.buff.data = data /\ [a.buff EXCEPT !.seq = {}] = [data |-> data, seq |-> {}]
    BY <2>1
  <2> QED BY <2>1, <2>2
<1> QED BY <1>1

LEMMA PinWWrites ==
  ASSUME NEW a \in PeriphType, a.m_nProcessed <= Len(a.m_allIds),
         NEW kind, kind = "PinW",
         NEW reqs \in Seq(Request), NEW w, NEW pl, NEW at, NEW f \in Nat,
         Carried(kind, a, reqs, w, pl, at, f), Pending(kind, a, at, f),
         NEW why, NEW failed, NEW at2, NEW f2, CallAt(why, failed, at, at2, f, f2),
         NEW w2, NEW pl2, OutputsAt(why, failed, kind, a, w, pl, w2, pl2),
         NEW done, done = PinWDoWork(a, why, failed)
  PROVE  Writes_(kind, done.dev, done.sent, reqs, w2, pl2, at2, f2)
<1>1. /\ Carried(kind, a, reqs, w2, pl2, at2, f2) /\ f2 \in Nat
      /\ f2 = 0 => f = 0
  <2>1. Carried(kind, a, reqs, w2, pl2, at2, f2)
    BY CallMoves
  <2>2. f2 \in Nat /\ (f2 = 0 => f = 0)
    BY DEF CallAt
  <2> QED BY <2>1, <2>2
<1>2. PICK b, sent : b = done.dev /\ sent = done.sent
  OBVIOUS
<1>3. ASSUME sent = <<>> PROVE OnOutputs(sent, reqs, w2, pl2, f2)
  BY <1>3 DEF OnOutputs
<1>4. CASE why \in {"eActivateState", "eInactivateState", "eRecover"}
  <2>1. /\ sent = <<>>
        /\ \/ b = a \/ \E state : b = [a EXCEPT !.m_eState = state]
           \/ b = [a EXCEPT !.m_bUpdated = TRUE, !.m_hNext = TRUE]
    BY <1>2, <1>4 DEF PinWDoWork, Quiet, Does, Switched
  <2>2. /\ b.m_allIds = a.m_allIds /\ b.m_nProcessed = a.m_nProcessed
        /\ b.data = a.data /\ b.seq = a.seq /\ b.buff = a.buff /\ b.m_bChanged = a.m_bChanged
    BY <2>1 DEF PeriphType
  <2>3. Carried(kind, b, reqs, w2, pl2, at2, f2)
    BY <1>1, <2>2, CarriedSame
  <2>4. Pending(kind, b, at2, f2)
    BY <1>1, <1>4, <2>2 DEF Pending, CallAt
  <2> QED BY <1>2, <1>3, <2>1, <2>3, <2>4 DEF Writes_
<1>5. CASE why = "ePreWrite"
  <2>0. at \notin {"write", "read", "exited", "terminated"} /\ at2 = "write" /\ f2 = f /\ w2 = w /\ pl2 = pl
    BY <1>5 DEF CallAt, OutputsAt
  <2>1. CASE a.m_eState = "eInactivateState"
    <3>1. /\ b = [a EXCEPT !.m_eState = "eInactive", !.m_bUpdated = FALSE,
                          !.m_hNext = FALSE, !.m_allIds = <<>>,
                          !.m_nProcessed = 0, !.m_bChanged = FALSE,
                          !.buff.seq = {}]
          /\ sent = Tell(a, Everyone(a), "DEVICE_CLOSING")
      BY <1>2, <1>5, <2>1 DEF PinWDoWork, Does
    <3>2. b = [a EXCEPT !.m_eState = "eInactive", !.m_bUpdated = FALSE,
                          !.m_hNext = FALSE, !.m_allIds = <<>>,
                          !.m_nProcessed = 0, !.m_bChanged = FALSE,
                          !.buff = [data |-> a.buff.data, seq |-> {}]]
      BY <3>1, ClearedPin
    <3>3. /\ b.m_allIds = <<>> /\ b.data = a.data /\ b.seq = a.seq
          /\ b.buff.data = a.buff.data /\ ~b.m_bChanged /\ b.m_nProcessed = 0
      BY <3>2 DEF PeriphType
    <3>4. Carried(kind, b, reqs, w2, pl2, at2, f2)
      BY <1>1, <3>3, CarriedCleared
    <3>5. OnOutputs(sent, reqs, w2, pl2, f2)
      BY <3>1 DEF OnOutputs, Tell
    <3> QED BY <1>2, <3>3, <3>4, <3>5 DEF Writes_, Pending
  <2>2. CASE a.m_eState = "eActive" /\ a.m_bUpdated
    <3>1. /\ b = [a EXCEPT !.buff = [data |-> a.data, seq |-> a.seq], !.seq = {},
                           !.m_bUpdated = FALSE, !.m_bChanged = TRUE,
                           !.m_nProcessed = Everyone(a), !.m_hNext = FALSE]
          /\ sent = <<>>
      BY <1>2, <1>5, <2>2 DEF PinWDoWork, Quiet, Does
    <3>2. /\ b.m_allIds = a.m_allIds /\ b.m_nProcessed = Len(a.m_allIds)
          /\ b.data = a.data /\ b.seq = {} /\ b.buff = [data |-> a.data, seq |-> a.seq]
          /\ b.m_eState = "eActive" /\ b.m_bChanged
      BY <2>2, <3>1 DEF PeriphType, Everyone
    <3>3. Carried(kind, b, reqs, w, pl, "write", f)
      BY <2>0, <3>2, CarriedPrepared
    <3> QED BY <1>2, <1>3, <2>0, <3>1, <3>2, <3>3 DEF Writes_, Pending
  <2>3. CASE a.m_eState # "eInactivateState" /\ ~(a.m_eState = "eActive" /\ a.m_bUpdated)
    <3>1. b = a /\ sent = <<>>
      BY <1>2, <1>5, <2>3 DEF PinWDoWork, Quiet, Does
    <3>2. Pending(kind, a, at2, f2)
      BY <2>0 DEF Pending
    <3> QED BY <1>1, <1>2, <1>3, <3>1, <3>2 DEF Writes_
  <2> QED BY <2>1, <2>2, <2>3
<1>6. CASE why = "ePostWrite" /\ a.m_eState = "eActive" /\ a.m_bChanged
  <2>1. b = [a EXCEPT !.buff.seq = {}] /\ sent = <<>>
    BY <1>2, <1>6 DEF PinWDoWork, Quiet, Does
  <2>2. b = [a EXCEPT !.buff = [data |-> a.buff.data, seq |-> {}]]
    BY <2>1, Played
  <2>3. /\ b.m_allIds = a.m_allIds /\ b.m_nProcessed = a.m_nProcessed /\ b.data = a.data
        /\ b.seq = a.seq /\ b.buff.data = a.buff.data /\ b.m_bChanged = a.m_bChanged
        /\ b.m_eState = a.m_eState
    BY <2>2 DEF PeriphType
  <2>4. at2 # "write"
    BY <1>6 DEF CallAt
  <2>5. Carried(kind, b, reqs, w2, pl2, at2, f2)
    BY <1>1, <2>3, <2>4, CarriedSame
  <2>6. Pending(kind, b, at2, f2)
    BY <1>1, <1>6, <2>3 DEF Pending, CallAt
  <2> QED BY <1>2, <1>3, <2>1, <2>5, <2>6 DEF Writes_
<1>7. CASE why = "ePostRead" /\ a.m_eState = "eActive" /\ a.m_bChanged
  <2>1. /\ b = [a EXCEPT !.m_allIds = Drop(a.m_allIds, a.m_nProcessed),
                         !.m_nProcessed = 0, !.m_bChanged = FALSE]
        /\ sent = Tell(a, a.m_nProcessed, IF failed THEN "error" ELSE "ok")
    BY <1>2, <1>7 DEF PinWDoWork, Does, Written
  <2>2. /\ b.m_allIds = Drop(a.m_allIds, a.m_nProcessed) /\ b.m_nProcessed = 0
        /\ b.data = a.data /\ b.seq = a.seq /\ b.buff = a.buff /\ ~b.m_bChanged
    BY <2>1 DEF PeriphType
  <2>3. Carried(kind, b, reqs, w2, pl2, at2, f2)
    BY <1>1, <2>2, CarriedCut
  <2>4. OnOutputs(sent, reqs, w2, pl2, f2)
    <3>1. at = "read" /\ w2 = w /\ pl2 = pl /\ w = a.buff.data
      BY <1>7 DEF CallAt, OutputsAt, Carried
    <3>5. f > 0 => f2 > 0
      BY <1>7 DEF CallAt
    <3>2. PICK message : message = IF failed THEN "error" ELSE "ok"
      OBVIOUS
    <3>3. Carried(kind, a, reqs, a.buff.data, pl, "read", f)
      BY <3>1
    <3>4. OnOutputs(sent, reqs, a.buff.data, pl, f)
      BY <2>1, <3>2, <3>3, ToldIs
    <3> QED BY <3>1, <3>4, <3>5 DEF OnOutputs
  <2> QED BY <1>2, <2>2, <2>3, <2>4 DEF Writes_, Pending
<1>8. CASE why \in {"ePostWrite", "ePostRead"} /\ ~(a.m_eState = "eActive" /\ a.m_bChanged)
  <2>1. b = a /\ sent = <<>>
    BY <1>2, <1>8 DEF PinWDoWork, Quiet, Does
  <2>2. Pending(kind, a, at2, f2)
    BY <1>1, <1>8 DEF Pending, CallAt
  <2> QED BY <1>1, <1>2, <1>3, <2>1, <2>2 DEF Writes_
<1> QED BY <1>4, <1>5, <1>6, <1>7, <1>8 DEF CallAt

\* More requests.
LEMMA CarriedMore ==
  ASSUME NEW a \in PeriphType, NEW kind, NEW reqs \in Seq(Request), NEW w, NEW pl, NEW at, NEW f,
         Carried(kind, a, reqs, w, pl, at, f),
         NEW reqs2, Len(reqs2) \in Nat, Len(reqs) <= Len(reqs2),
         \A r \in DOMAIN reqs : r \in DOMAIN reqs2 /\ reqs2[r] = reqs[r]
  PROVE  Carried(kind, a, reqs2, w, pl, at, f)
<1>1. \A p \in Pins : a.data[p] <= Len(reqs2)
  <2>1. Len(reqs) \in Nat /\ \A p \in Pins : a.data[p] \in Nat /\ a.data[p] <= Len(reqs)
    BY LenProperties DEF PeriphType, Carried
  <2> QED BY <2>1
<1> QED BY <1>1 DEF Carried

\* What a writing device does with a new request.
Stores(a, b, pins, r) ==
  /\ b.m_nProcessed = a.m_nProcessed /\ b.buff = a.buff
  /\ b.m_bChanged = a.m_bChanged /\ b.m_eState = a.m_eState
  /\ \/ b.data = a.data /\ b.m_allIds = a.m_allIds /\ b.seq = a.seq
     \/ /\ b.data = [p \in Pins |-> IF p \in pins THEN r ELSE a.data[p]]
        /\ b.seq = a.seq \/ b.seq = a.seq \cup pins
        /\ \/ b.m_allIds = a.m_allIds
           \/ b.m_allIds = Append(a.m_allIds, r) /\ pins \subseteq b.seq

LEMMA MultiWStores ==
  ASSUME NEW a \in PeriphType, a.seq = Pins, NEW r \in Nat, NEW request \in Writes,
         NEW done, done = MultiWProcessData(a, r, request)
  PROVE  Stores(a, done.dev, request.pins, r)
<1>1. request.pins \in SUBSET Pins /\ request.outOfRange \in BOOLEAN
  BY FTDIAssumption
<1>2. PICK data : data = [p \in Pins |-> IF p \in request.pins THEN r ELSE a.data[p]]
  OBVIOUS
<1>3. PICK stored : stored = [a EXCEPT !.data = data]
  OBVIOUS
<1>4. stored = [a EXCEPT !.data = [p \in Pins |-> IF p \in request.pins THEN r ELSE a.data[p]]]
  BY <1>2, <1>3
<1>5. CASE a.m_eState # "eActive"
  <2>1. done.dev = a
    BY <1>5 DEF MultiWProcessData, Does
  <2> QED BY <2>1 DEF Stores
<1>6. CASE a.m_eState = "eActive" /\ request.outOfRange
  <2>1. done.dev = stored
    BY <1>4, <1>6 DEF MultiWProcessData, Does
  <2>2. /\ done.dev.data = data /\ done.dev.m_allIds = a.m_allIds /\ done.dev.seq = a.seq
        /\ done.dev.m_nProcessed = a.m_nProcessed /\ done.dev.buff = a.buff
        /\ done.dev.m_bChanged = a.m_bChanged /\ done.dev.m_eState = a.m_eState
    BY <1>3, <2>1 DEF PeriphType
  <2> QED BY <1>2, <2>2 DEF Stores
<1>7. CASE a.m_eState = "eActive" /\ ~request.outOfRange
  <2>1. PICK ids : ids = Append(a.m_allIds, r)
    OBVIOUS
  <2>2. stored.m_allIds = a.m_allIds
    BY <1>3 DEF PeriphType
  <2>3. done.dev = [stored EXCEPT !.m_bUpdated = TRUE, !.m_hNext = TRUE, !.m_allIds = ids]
    BY <1>4, <1>7, <2>1, <2>2 DEF MultiWProcessData, Quiet, Does
  <2>4. done.dev = [a EXCEPT !.data = data, !.m_bUpdated = TRUE, !.m_hNext = TRUE,
                             !.m_allIds = ids]
    BY <1>3, <2>3 DEF PeriphType
  <2>5. /\ done.dev.data = data /\ done.dev.m_allIds = ids /\ done.dev.seq = a.seq
        /\ done.dev.m_nProcessed = a.m_nProcessed /\ done.dev.buff = a.buff
        /\ done.dev.m_bChanged = a.m_bChanged /\ done.dev.m_eState = a.m_eState
    BY <2>4 DEF PeriphType
  <2> QED BY <1>1, <1>2, <2>1, <2>5 DEF Stores
<1> QED BY <1>1, <1>5, <1>6, <1>7

LEMMA PinWStores ==
  ASSUME NEW a \in PeriphType, NEW r \in Nat, NEW request \in Writes,
         NEW done, done = PinWProcessData(a, r, request)
  PROVE  Stores(a, done.dev, request.pins, r)
<1>1. request.pins \in SUBSET Pins /\ request.outOfRange \in BOOLEAN
  BY FTDIAssumption
<1>2. CASE request.outOfRange \/ a.m_eState # "eActive"
  <2>1. done.dev = a
    BY <1>1, <1>2 DEF PinWProcessData, Does
  <2> QED BY <2>1 DEF Stores
<1>3. CASE ~request.outOfRange /\ a.m_eState = "eActive"
  <2>1. PICK data, ids, seq :
          /\ data = [p \in Pins |-> IF p \in request.pins THEN r ELSE a.data[p]]
          /\ ids = Append(a.m_allIds, r) /\ seq = a.seq \cup request.pins
    OBVIOUS
  <2>2. done.dev = [a EXCEPT !.data = data, !.seq = seq,
                             !.m_bUpdated = TRUE, !.m_hNext = TRUE, !.m_allIds = ids]
    BY <1>3, <2>1 DEF PinWProcessData, Quiet, Does
  <2>3. /\ done.dev.data = data /\ done.dev.m_allIds = ids /\ done.dev.seq = seq
        /\ done.dev.m_nProcessed = a.m_nProcessed /\ done.dev.buff = a.buff
        /\ done.dev.m_bChanged = a.m_bChanged /\ done.dev.m_eState = a.m_eState
    BY <2>2 DEF PeriphType
  <2>4. request.pins \subseteq seq
    BY <2>1
  <2> QED BY <2>1, <2>3, <2>4 DEF Stores
<1> QED BY <1>2, <1>3

\* The newest request is newer than all that is held.
LEMMA StoresCarried ==
  ASSUME NEW a \in PeriphType, a.m_nProcessed <= Len(a.m_allIds),
         NEW kind, NEW reqs \in Seq(Request), NEW w, NEW pl, NEW at, NEW f,
         Carried(kind, a, reqs, w, pl, at, f),
         NEW request \in Request, NEW pins \in SUBSET Pins, request.pins = pins,
         NEW reqs2, reqs2 = Append(reqs, request), NEW r, r = Len(reqs) + 1,
         NEW b, Stores(a, b, pins, r)
  PROVE  Carried(kind, b, reqs2, w, pl, at, f)
<1>1. /\ Len(reqs) \in Nat /\ DOMAIN reqs = 1 .. Len(reqs) /\ r \in Nat
      /\ Len(reqs2) = r /\ DOMAIN reqs2 = 1 .. r
      /\ \A q \in DOMAIN reqs : reqs2[q] = reqs[q]
      /\ reqs2[r] = request
  BY AppendProperties, LenProperties
<1>2. /\ \A q \in DOMAIN reqs : q \in DOMAIN reqs2 /\ q <= r /\ q \in Nat
      /\ r \in DOMAIN reqs2
  BY <1>1
<1>3. /\ a.data \in [Pins -> Nat] /\ a.buff.data \in [Pins -> Nat]
      /\ Len(a.m_allIds) \in Nat /\ DOMAIN a.m_allIds = 1 .. Len(a.m_allIds)
      /\ a.m_nProcessed \in Nat /\ a.m_allIds \in Seq(Nat)
  BY LenProperties DEF PeriphType, Outputs_
<1>4. \A p \in Pins : b.data[p] \in Nat /\ b.data[p] >= a.data[p] /\ b.data[p] <= r
  <2>1. \A p \in Pins : a.data[p] \in Nat /\ a.data[p] <= Len(reqs)
    BY <1>3 DEF Carried
  <2>2. \A p \in Pins : b.data[p] = a.data[p] \/ b.data[p] = r
    BY DEF Stores
  <2> QED BY <1>1, <2>1, <2>2
<1>5. \A p \in Pins : /\ w[p] <= b.buff.data[p] /\ pl[p] <= b.buff.data[p]
                      /\ b.buff.data[p] <= b.data[p] /\ b.data[p] <= Len(reqs2)
  <2>1. \A p \in Pins : a.data[p] \in Nat /\ a.buff.data[p] \in Nat /\ a.buff.data[p] <= a.data[p]
    BY <1>3 DEF Carried
  <2>2. \A p \in Pins : b.buff.data[p] <= b.data[p]
    <3>1. b.buff = a.buff
      BY DEF Stores
    <3> QED BY <1>4, <2>1, <3>1
  <2>3. \A p \in Pins : w[p] <= b.buff.data[p] /\ pl[p] <= b.buff.data[p]
    BY DEF Carried, Stores
  <2> QED BY <1>1, <1>4, <2>2, <2>3
<1>6. a.seq \subseteq b.seq /\ (kind = "MultiW" => b.seq = Pins)
  BY DEF Stores, Carried
<1>7. ASSUME NEW k \in DOMAIN a.m_allIds, b.m_allIds[k] = a.m_allIds[k]
      PROVE  /\ b.m_allIds[k] \in DOMAIN reqs2
             /\ \A p \in reqs2[b.m_allIds[k]].pins :
                  /\ b.data[p] >= b.m_allIds[k]
                  /\ k <= b.m_nProcessed => b.buff.data[p] >= b.m_allIds[k]
                  /\ f = 0 /\ ~(k <= b.m_nProcessed) => p \in b.seq
                  /\ f = 0 /\ k <= b.m_nProcessed /\ at = "write" => p \in b.buff.seq
                  /\ f = 0 /\ k <= b.m_nProcessed /\ at = "read" => pl[p] >= b.m_allIds[k]
  <2>1. PICK q : q = a.m_allIds[k]
    OBVIOUS
  <2>2. q \in DOMAIN reqs /\ q \in DOMAIN reqs2 /\ reqs2[q] = reqs[q] /\ q \in Nat
    BY <1>1, <1>2, <2>1 DEF Carried
  <2>3. \A p \in reqs[q].pins : b.data[p] >= q
    <3>1. reqs[q].pins \subseteq Pins
      <4>1. reqs[q] \in Request
        BY <1>1, <2>2, ElementOfSeq
      <4> QED BY <4>1 DEF Request
    <3>2. \A p \in reqs[q].pins : a.data[p] >= q /\ a.data[p] \in Nat
      BY <1>3, <2>1, <3>1 DEF Carried
    <3> QED BY <1>4, <2>2, <3>1, <3>2
  <2>4. b.m_nProcessed = a.m_nProcessed /\ b.buff = a.buff
    BY DEF Stores
  <2>5. \A p \in reqs[q].pins :
          /\ k <= b.m_nProcessed => b.buff.data[p] >= q
          /\ f = 0 /\ ~(k <= b.m_nProcessed) => p \in b.seq
          /\ f = 0 /\ k <= b.m_nProcessed /\ at = "write" => p \in b.buff.seq
          /\ f = 0 /\ k <= b.m_nProcessed /\ at = "read" => pl[p] >= q
    BY <1>6, <2>1, <2>4 DEF Carried
  <2> QED BY <1>7, <2>1, <2>2, <2>3, <2>5
<1>8. CASE b.m_allIds = a.m_allIds
  BY <1>5, <1>6, <1>7, <1>8 DEF Carried, Stores
<1>9. CASE b.m_allIds # a.m_allIds
  <2>1. /\ b.m_allIds = Append(a.m_allIds, r) /\ pins \subseteq b.seq
        /\ b.data = [p \in Pins |-> IF p \in pins THEN r ELSE a.data[p]]
    BY <1>9 DEF Stores
  <2>2. PICK n \in Nat : n = Len(a.m_allIds) + 1
    BY <1>3
  <2>3. /\ DOMAIN b.m_allIds = 1 .. n /\ b.m_allIds[n] = r
        /\ \A k \in DOMAIN a.m_allIds : b.m_allIds[k] = a.m_allIds[k]
    <3>1. /\ Append(a.m_allIds, r) \in Seq(Nat) /\ Len(Append(a.m_allIds, r)) = Len(a.m_allIds) + 1
          /\ \A k \in 1 .. Len(a.m_allIds) : Append(a.m_allIds, r)[k] = a.m_allIds[k]
          /\ Append(a.m_allIds, r)[Len(a.m_allIds) + 1] = r
      BY <1>1, <1>3, AppendProperties
    <3>2. DOMAIN b.m_allIds = 1 .. Len(b.m_allIds)
      BY <2>1, <3>1, LenProperties
    <3> QED BY <1>3, <2>1, <2>2, <3>1, <3>2
  <2>4. \A k \in DOMAIN b.m_allIds : k \in DOMAIN a.m_allIds \/ k = n
    BY <1>3, <2>2, <2>3
  <2>5. ~(n <= b.m_nProcessed)
    BY <1>3, <2>2 DEF Stores
  <2>6. \A p \in pins : b.data[p] >= r /\ p \in b.seq
    BY <1>1, <2>1
  <2>7. /\ b.m_allIds[n] \in DOMAIN reqs2 /\ reqs2[b.m_allIds[n]].pins = pins
    BY <1>1, <1>2, <2>3
  <2> QED BY SMTT(30), <1>5, <1>6, <1>7, <2>3, <2>4, <2>5, <2>6, <2>7 DEF Carried, Stores
<1> QED BY <1>8, <1>9

\* Whoever was answered with success has its values on the outputs.
Done(d) ==
  \A r \in DOMAIN requests : requests[r].nChan = d /\ status[r] = "ok" =>
    \A p \in requests[r].pins : wires[d][p] >= r /\ (played[d][p] >= r \/ nFaults > 0)

Shows(d) ==
  /\ Carried(inits[d].kind, dev[d], requests, wires[d], played[d], pc, nFaults)
  /\ Pending(inits[d].kind, dev[d], pc, nFaults)
  /\ Done(d)

Shown == nFaults \in Nat /\ \A d \in Writers : Shows(d)

\* Answers to new requests only by what is on the outputs.
LEMMA DoneStays ==
  ASSUME Stocked, Shown, NEW d \in Writers, NEW sent,
         \A r \in DOMAIN requests' : requests'[r].nChan = d /\ status'[r] = "ok" =>
           /\ r \in DOMAIN requests /\ requests'[r] = requests[r]
           /\ status[r] = "ok" \/ (r \in DOMAIN sent /\ sent[r] = "ok"),
         OnOutputs(sent, requests, wires'[d], played'[d], nFaults'),
         wires'[d] \in [Pins -> Nat], played'[d] \in [Pins -> Nat],
         \A p \in Pins : wires'[d][p] >= wires[d][p] /\ played'[d][p] >= played[d][p],
         nFaults' \in Nat, nFaults' = 0 => nFaults = 0
  PROVE  Done(d)'
<1> SUFFICES ASSUME NEW r \in DOMAIN requests', requests'[r].nChan = d, status'[r] = "ok",
                    NEW p \in requests'[r].pins
             PROVE  wires'[d][p] >= r /\ (played'[d][p] >= r \/ nFaults' > 0)
  BY DEF Done
<1>1. r \in DOMAIN requests /\ requests'[r] = requests[r]
  OBVIOUS
<1>2. CASE status[r] = "ok"
  <2>1. wires[d][p] >= r /\ (played[d][p] >= r \/ nFaults > 0)
    BY <1>1, <1>2 DEF Shown, Shows, Done
  <2>2. p \in Pins /\ r \in Nat
    <3>1. requests[r] \in Request /\ r \in Nat
      BY <1>1, ElementOfSeq, LenProperties DEF Stocked
    <3> QED BY <1>1, <3>1 DEF Request
  <2>3. wires[d][p] \in Nat /\ played[d][p] \in Nat
    BY <2>2 DEF Shown, Shows, Carried
  <2>4. /\ wires'[d][p] \in Nat /\ played'[d][p] \in Nat
        /\ wires'[d][p] >= wires[d][p] /\ played'[d][p] >= played[d][p]
    BY <2>2
  <2>5. wires'[d][p] >= r
    BY <2>1, <2>2, <2>3, <2>4
  <2>6. nFaults > 0 => nFaults' > 0
    BY DEF Shown
  <2>7. played[d][p] >= r => played'[d][p] >= r
    BY <2>2, <2>3, <2>4
  <2> QED BY <2>1, <2>5, <2>6, <2>7
<1>3. CASE r \in DOMAIN sent /\ sent[r] = "ok"
  BY <1>1, <1>3 DEF OnOutputs
<1> QED BY <1>1, <1>2, <1>3

\* A step that leaves the writing devices and their outputs alone.
Aside ==
  /\ UNCHANGED <<inits, wires, played>> /\ \A d \in Writers : dev'[d] = dev[d]
  /\ Len(requests') \in Nat /\ Len(requests) <= Len(requests')
  /\ \A r \in DOMAIN requests : r \in DOMAIN requests' /\ requests'[r] = requests[r]
  /\ \A r \in DOMAIN requests' : requests'[r].nChan \in Writers /\ status'[r] = "ok" =>
       r \in DOMAIN requests /\ status[r] = "ok"
  /\ nFaults' \in Nat /\ (nFaults' = 0 => nFaults = 0)
  /\ \/ pc' = pc \/ pc' \in Ended
     \/ pc \notin {"write", "read", "exited", "terminated"} /\ pc' \notin {"write", "read"}
     \/ nFaults' > 0 /\ pc' \notin {"write", "read"}

LEMMA AsideShown ==
  ASSUME Stocked, Accounted, Shown, Aside
  PROVE  Shown'
<1>1. UNCHANGED <<inits, wires, played>> /\ Writers' = Writers /\ nFaults' \in Nat
  BY DEF Aside, Writers, Devices, Kind
<1>2. ASSUME NEW d \in Writers PROVE Shows(d)'
  <2>1. PICK a \in PeriphType : a = dev[d] /\ a = dev'[d]
    BY DEF Aside, Accounted, Served
  <2>2. PICK kind, w, pl : kind = inits[d].kind /\ w = wires[d] /\ pl = played[d]
    OBVIOUS
  <2>3. PICK at, at2 : at = pc /\ at2 = pc'
    OBVIOUS
  <2>4. PICK f, f2 \in Nat : f = nFaults /\ f2 = nFaults' /\ (f2 = 0 => f = 0)
    BY DEF Aside, Shown
  <2>5. /\ Carried(kind, a, requests, w, pl, at, f) /\ Pending(kind, a, at, f)
        /\ w \in [Pins -> Nat] /\ pl \in [Pins -> Nat]
    BY <2>1, <2>2, <2>3, <2>4 DEF Shown, Shows, Carried
  <2>6. \/ at2 = at \/ at2 \in Ended
        \/ at \notin {"write", "read", "exited", "terminated"} /\ at2 \notin {"write", "read"}
        \/ f2 > 0 /\ at2 \notin {"write", "read"}
    BY <2>3, <2>4 DEF Aside
  <2>7. Carried(kind, a, requests, w, pl, at2, f2)
    BY <2>4, <2>5, <2>6, CarriedOn DEF Ended
  <2>8. PICK reqs2 : reqs2 = requests'
    OBVIOUS
  <2>9. /\ Len(reqs2) \in Nat /\ Len(requests) <= Len(reqs2)
        /\ \A r \in DOMAIN requests : r \in DOMAIN reqs2 /\ reqs2[r] = requests[r]
    BY <2>8 DEF Aside
  <2>10. Carried(kind, a, reqs2, w, pl, at2, f2)
    BY <2>7, <2>9, CarriedMore DEF Stocked
  <2>11. Pending(kind, a, at2, f2)
    BY <2>4, <2>5, <2>6 DEF Pending, Ended
  <2>12. Done(d)'
    <3>1. PICK sent : sent = <<>>
      OBVIOUS
    <3>2. OnOutputs(sent, requests, wires'[d], played'[d], nFaults')
      BY <3>1 DEF OnOutputs
    <3>3. \A r \in DOMAIN requests' : requests'[r].nChan = d /\ status'[r] = "ok" =>
            /\ r \in DOMAIN requests /\ requests'[r] = requests[r]
            /\ status[r] = "ok" \/ (r \in DOMAIN sent /\ sent[r] = "ok")
      BY DEF Aside
    <3>4. /\ wires'[d] \in [Pins -> Nat] /\ played'[d] \in [Pins -> Nat]
          /\ \A p \in Pins : wires'[d][p] >= wires[d][p] /\ played'[d][p] >= played[d][p]
      BY <1>1, <2>2, <2>5
    <3>5. nFaults' \in Nat /\ (nFaults' = 0 => nFaults = 0)
      BY DEF Aside
    <3> QED BY <3>2, <3>3, <3>4, <3>5, DoneStays
  <2> QED BY <1>1, <2>1, <2>2, <2>3, <2>4, <2>8, <2>10, <2>11, <2>12 DEF Shows
<1> QED BY <1>1, <1>2 DEF Shown

\* A call of ThreadProc's to its devices.
LEMMA WorkShown ==
  ASSUME Stocked, Accounted, Shown, NEW ds, NEW why, NEW failed, NEW outcome,
         Work(ds, why, failed, outcome),
         UNCHANGED <<inits, requests>>, CallAt(why, failed, pc, pc', nFaults, nFaults'),
         ds = Devices \/ why \in {"eActivateState", "eInactivateState"},
         \A d \in Writers : OutputsAt(why, failed, inits[d].kind, dev[d], wires[d], played[d],
                                      wires'[d], played'[d])
  PROVE  Shown'
<1>1. /\ Writers' = Writers /\ Writers \subseteq Devices
      /\ \A d \in Devices : inits[d] \in Inits
  BY DevicesFinite DEF Stocked, Writers, Devices, Kind
<1>2. PICK f \in Nat : f = nFaults
  BY DEF Shown
<1>3. PICK f2 : f2 = nFaults'
  OBVIOUS
<1>4. f2 \in Nat /\ (f2 = 0 => f = 0) /\ CallAt(why, failed, pc, pc', f, f2)
  BY <1>2, <1>3 DEF CallAt
<1>5. PICK at, at2 : at = pc /\ at2 = pc'
  OBVIOUS
<1>6. ASSUME NEW d \in Writers PROVE Shows(d)'
  <2>1. PICK a \in PeriphType : a = dev[d] /\ a.m_nProcessed <= Len(a.m_allIds)
    BY DEF Accounted, Served
  <2>2. PICK kind, w, pl : kind = inits[d].kind /\ w = wires[d] /\ pl = played[d]
    OBVIOUS
  <2>3. PICK w2, pl2 : w2 = wires'[d] /\ pl2 = played'[d]
    OBVIOUS
  <2>4. /\ Carried(kind, a, requests, w, pl, at, f) /\ Pending(kind, a, at, f)
        /\ kind \in {"MultiW", "PinW"}
    BY <1>2, <1>5, <2>1, <2>2 DEF Shown, Shows, Writers, Kind
  <2>5. /\ OutputsAt(why, failed, kind, a, w, pl, w2, pl2)
        /\ CallAt(why, failed, at, at2, f, f2)
    BY <1>4, <1>5, <2>1, <2>2, <2>3
  <2>6. requests \in Seq(Request)
    BY DEF Stocked
  <2>7. Carried(kind, a, requests, w2, pl2, at2, f2)
    BY <2>1, <2>4, <2>5, <2>6, CallMoves
  <2>8. \A p \in Pins : w2[p] >= w[p] /\ pl2[p] >= pl[p]
    BY <2>1, <2>4, <2>5, <2>6, CallGrows
  <2>9. w2 \in [Pins -> Nat] /\ pl2 \in [Pins -> Nat]
    BY <2>7 DEF Carried
  <2>10. PICK done : done = DoWork(d, why, failed, outcome)
    OBVIOUS
  <2>11. PICK b, sent :
           /\ b = (IF d \in ds THEN done.dev ELSE a)
           /\ sent = (IF d \in ds THEN done.sent ELSE <<>>)
    OBVIOUS
  <2>12. dev'[d] = b
    BY <1>1, <2>1, <2>10, <2>11, WorkIs
  <2>13. Writes_(kind, b, sent, requests, w2, pl2, at2, f2)
    <3>1. CASE d \in ds
      <4>1. CASE kind = "MultiW"
        <5>1. done = MultiWDoWork(a, why, failed)
          BY <2>1, <2>2, <2>10, <4>1 DEF DoWork
        <5>2. Writes_(kind, done.dev, done.sent, requests, w2, pl2, at2, f2)
          BY <2>1, <2>4, <2>5, <2>6, <4>1, <5>1, MultiWWrites
        <5> QED BY <2>11, <3>1, <5>2
      <4>2. CASE kind = "PinW"
        <5>1. done = PinWDoWork(a, why, failed)
          BY <2>1, <2>2, <2>10, <4>2 DEF DoWork
        <5>2. Writes_(kind, done.dev, done.sent, requests, w2, pl2, at2, f2)
          BY <2>1, <2>4, <2>5, <2>6, <4>2, <5>1, PinWWrites
        <5> QED BY <2>11, <3>1, <5>2
      <4> QED BY <2>4, <4>1, <4>2
    <3>2. CASE d \notin ds
      <4>1. why \in {"eActivateState", "eInactivateState"} /\ b = a /\ sent = <<>>
        BY <1>1, <2>11, <3>2
      <4>2. at \notin {"write", "read", "exited", "terminated"} /\ at2 = "updates" /\ f2 = f
        BY <2>5, <4>1 DEF CallAt
      <4>3. Pending(kind, a, at2, f2)
        BY <2>4, <4>2 DEF Pending
      <4>4. OnOutputs(sent, requests, w2, pl2, f2)
        BY <4>1 DEF OnOutputs
      <4> QED BY <2>7, <4>1, <4>3, <4>4 DEF Writes_
    <3> QED BY <3>1, <3>2
  <2>14. \A r \in DOMAIN requests : requests[r].nChan = d /\ status'[r] = "ok" =>
           status[r] = "ok" \/ (r \in DOMAIN sent /\ sent[r] = "ok")
    <3>1. IF d \in ds THEN Answered_(d, done.sent, requests, status, status')
          ELSE \A r \in DOMAIN requests : requests[r].nChan = d => status'[r] = status[r]
      BY <1>1, <2>10, StatusIs
    <3>2. CASE d \in ds
      BY <2>11, <3>1, <3>2 DEF Answered_
    <3>3. CASE d \notin ds
      BY <3>1, <3>3
    <3> QED BY <3>2, <3>3
  <2>15. Done(d)'
    <3>1. OnOutputs(sent, requests, wires'[d], played'[d], nFaults')
      BY <1>3, <2>3, <2>13 DEF Writes_
    <3>2. \A r \in DOMAIN requests' : requests'[r].nChan = d /\ status'[r] = "ok" =>
            /\ r \in DOMAIN requests /\ requests'[r] = requests[r]
            /\ status[r] = "ok" \/ (r \in DOMAIN sent /\ sent[r] = "ok")
      BY <2>14
    <3>3. /\ wires'[d] \in [Pins -> Nat] /\ played'[d] \in [Pins -> Nat]
          /\ \A p \in Pins : wires'[d][p] >= wires[d][p] /\ played'[d][p] >= played[d][p]
      BY <2>2, <2>3, <2>8, <2>9
    <3>4. nFaults' \in Nat /\ (nFaults' = 0 => nFaults = 0)
      BY <1>2, <1>3, <1>4
    <3> QED BY <3>1, <3>2, <3>3, <3>4, DoneStays
  <2> QED BY <1>3, <1>5, <2>2, <2>3, <2>12, <2>13, <2>15 DEF Shows, Writes_
<1> QED BY <1>1, <1>3, <1>4, <1>6 DEF Shown

LEMMA SameRequests ==
  ASSUME Stocked, UNCHANGED requests
  PROVE  /\ Len(requests') \in Nat /\ Len(requests) <= Len(requests')
         /\ \A r \in DOMAIN requests : r \in DOMAIN requests' /\ requests'[r] = requests[r]
         /\ DOMAIN requests' = DOMAIN requests
<1>1. Len(requests) \in Nat
  BY LenProperties DEF Stocked
<1> QED BY <1>1

LEMMA OtherAside ==
  ASSUME Stocked, Accounted, Shown,
         \/ WakeStop \/ NoMoreUpdates \/ Reset \/ RecoverFails \/ ReadFails \/ Erase
         \/ \E d \in Devices, on \in BOOLEAN : ActivateOrInactivate(d, on)
         \/ \E c \in Clients : Leave(c)
         \/ Delete \/ StopThread \/ DeleteDevices \/ UNCHANGED vars
  PROVE  Aside
<1>1. UNCHANGED <<inits, wires, played, requests, status>>
  BY DEF WakeStop, NoMoreUpdates, Reset, RecoverFails, ReadFails, Erase, ActivateOrInactivate,
         Leave, Delete, StopThread, DeleteDevices, DeleteUnchanged, vars, clientVars, outputVars
<1>2. nFaults \in Nat
  BY DEF Shown
<1>3. /\ nFaults' \in Nat /\ (nFaults' = 0 => nFaults = 0)
      /\ \/ pc' = pc \/ pc' \in Ended
         \/ pc \notin {"write", "read", "exited", "terminated"} /\ pc' \notin {"write", "read"}
         \/ nFaults' > 0 /\ pc' \notin {"write", "read"}
  <2>1. CASE WakeStop \/ NoMoreUpdates \/ Reset \/ Erase
    BY <1>2, <2>1 DEF WakeStop, NoMoreUpdates, Reset, Erase, InUpdates, Wake, Ended
  <2>2. CASE RecoverFails
    <3>1. nFaults' = nFaults + 1 /\ pc' = pc
      BY <2>2 DEF RecoverFails, threadVars
    <3> QED BY <1>2, <3>1
  <2>4. CASE ReadFails
    <3>1. nFaults' = nFaults + 1 /\ pc' = "wait"
      BY <2>4 DEF ReadFails
    <3> QED BY <1>2, <3>1
  <2>3. CASE \/ \E d \in Devices, on \in BOOLEAN : ActivateOrInactivate(d, on)
             \/ \E c \in Clients : Leave(c)
             \/ Delete \/ StopThread \/ DeleteDevices \/ UNCHANGED vars
    BY <1>2, <2>3 DEF ActivateOrInactivate, Leave, Delete, StopThread, DeleteDevices,
                      DeleteUnchanged, vars, threadVars, Ended
  <2> QED BY <2>1, <2>2, <2>3, <2>4
<1>4. \A d \in Writers : dev'[d] = dev[d]
  <2>1. CASE \/ WakeStop \/ NoMoreUpdates \/ Reset \/ RecoverFails \/ ReadFails
             \/ \E d \in Devices, on \in BOOLEAN : ActivateOrInactivate(d, on)
             \/ \E c \in Clients : Leave(c)
             \/ Delete \/ UNCHANGED vars
    BY <2>1, ThreadSilent DEF Silent
  <2>2. CASE StopThread \/ DeleteDevices
    BY <2>2, DeletionSilent DEF Silent
  <2>3. CASE Erase
    BY <2>3 DEF Erase, Writers, Kind
  <2> QED BY <2>1, <2>2, <2>3
<1> QED BY <1>1, <1>3, <1>4, SameRequests DEF Aside

LEMMA ADCAside ==
  ASSUME Stocked, Accounted, Shown, NEW d \in Devices, ADCThread(d) \/ ADCDue(d)
  PROVE  Aside
<1>1. UNCHANGED <<inits, wires, played, requests, pc, nFaults>>
  BY DEF ADCThread, ADCTake, ADCSend, ADCExtracted, ADCStop, ADCDue, ADCUnchanged, clientVars,
         outputVars, threadVars
<1>2. nFaults \in Nat
  BY DEF Shown
<1>3. CASE ADCTake(d) \/ ADCExtracted(d) \/ ADCStop(d) \/ ADCDue(d)
  BY <1>1, <1>2, <1>3, ADCSilent, SameRequests DEF Aside, Silent
<1>4. CASE ADCSend(d)
  <2>1. PICK r : r = dev[d].llId
    OBVIOUS
  <2>2. /\ d \in ADCs /\ UNCHANGED dev /\ r # 0
        /\ \E answer : status' = [status EXCEPT ![r] = answer]
    BY <1>4, <2>1 DEF ADCSend
  <2>3. /\ ADCs \cap (Writers \cup Readers) = {} /\ DOMAIN dev = Devices
        /\ Writers \subseteq Devices
    BY DevicesFinite DEF Stocked
  <2>4. \A e \in Writers : dev'[e] = dev[e]
    BY <2>2, <2>3
  <2>5. requests[r].nChan = d
    BY <2>1, <2>2 DEF Accounted, Triggered
  <2>6. DOMAIN status = DOMAIN requests
    BY LenProperties DEF Accounted, Stocked
  <2>7. \A q \in DOMAIN requests : requests[q].nChan \in Writers => status'[q] = status[q]
    BY <2>2, <2>3, <2>5, <2>6
  <2> QED BY <1>1, <1>2, <2>4, <2>7, SameRequests DEF Aside
<1> QED BY <1>3, <1>4 DEF ADCThread

\* Requests to the other devices.
LEMMA AskAside ==
  ASSUME Stocked, Accounted, Shown, NEW c \in Clients, NEW d \in Devices,
         Trigger(c, d) \/ TriggerADC(c, d)
  PROVE  Aside
<1>1. PICK request, answer :
        /\ request = [llId |-> c, nChan |-> d, pins |-> {}]
        /\ requests' = Append(requests, request) /\ status' = Append(status, answer)
  BY DEF Trigger, TriggerADC, Asked
<1>2. /\ d \in Readers \cup ADCs /\ dev' = [dev EXCEPT ![d] = dev'[d]]
      /\ UNCHANGED <<inits, wires, played, pc, nFaults>>
  BY DEF Trigger, TriggerADC, Asked, outputVars, threadVars, Stocked
<1>3. /\ ADCs \cap (Writers \cup Readers) = {} /\ Writers \cap Readers = {}
      /\ DOMAIN dev = Devices /\ Writers \subseteq Devices /\ Devices \subseteq Nat
  BY DevicesFinite DEF Stocked
<1>4. \A e \in Writers : dev'[e] = dev[e]
  BY <1>2, <1>3
<1>5. request \in Request
  BY <1>1, <1>3 DEF Request, Clients
<1>6. /\ Len(requests) \in Nat /\ DOMAIN requests = 1 .. Len(requests)
      /\ Len(status) = Len(requests) /\ requests \in Seq(Request) /\ status \in Seq(Statuses)
  BY LenProperties DEF Stocked, Accounted
<1>7. /\ Len(requests') = Len(requests) + 1 /\ DOMAIN requests' = 1 .. Len(requests) + 1
      /\ \A q \in 1 .. Len(requests) : requests'[q] = requests[q]
      /\ requests'[Len(requests) + 1] = request
  <2>1. /\ Len(requests') = Len(requests) + 1 /\ requests' \in Seq(Request)
        /\ \A q \in 1 .. Len(requests) : requests'[q] = requests[q]
        /\ requests'[Len(requests) + 1] = request
    BY <1>1, <1>5, <1>6, AppendProperties
  <2> QED BY <2>1, LenProperties
<1>8. \A q \in 1 .. Len(requests) : status'[q] = status[q]
  BY <1>1, <1>6
<1>9. \A q \in DOMAIN requests' : q \in DOMAIN requests \/ q = Len(requests) + 1
  BY <1>6, <1>7
<1>10. /\ Len(requests') \in Nat /\ Len(requests) <= Len(requests')
       /\ \A r \in DOMAIN requests : r \in DOMAIN requests' /\ requests'[r] = requests[r]
  BY <1>6, <1>7
<1>11. \A r \in DOMAIN requests' : requests'[r].nChan \in Writers /\ status'[r] = "ok" =>
         r \in DOMAIN requests /\ status[r] = "ok"
  BY <1>1, <1>2, <1>3, <1>6, <1>7, <1>8, <1>9
<1>12. nFaults \in Nat
  BY DEF Shown
<1> QED BY <1>2, <1>4, <1>10, <1>11, <1>12 DEF Aside

LEMMA CancelAside ==
  ASSUME Stocked, Accounted, Shown, NEW c \in Clients, NEW d \in Devices, CancelRead(c, d)
  PROVE  Aside
<1>1. PICK done : done = ReaderProcessData(d, 0, "eCancelReadRequest", Mine(c, d))
  OBVIOUS
<1>2. /\ d \in Readers /\ Mine(c, d) # {} /\ dev' = [dev EXCEPT ![d] = done.dev]
      /\ status' = [r \in DOMAIN status |->
                     IF r \in DOMAIN done.sent THEN done.sent[r] ELSE status[r]]
      /\ UNCHANGED <<inits, requests, pc, wires, played, nFaults>>
  BY <1>1 DEF CancelRead, clientVars, threadVars, outputVars
<1>3. \A r \in DOMAIN done.sent : done.sent[r] = "cancelled"
  <2>1. PICK mine, bContinuous : mine = Mine(c, d) /\ bContinuous = inits[d].bContinuous
    OBVIOUS
  <2>2. done = MultiRProcessData(bContinuous, dev[d], 0, "eCancelReadRequest", mine)
    BY <1>1, <2>1 DEF ReaderProcessData, PinRProcessData
  <2> QED BY <1>2, <2>1, <2>2 DEF MultiRProcessData, Does
<1>4. /\ Writers \cap Readers = {} /\ DOMAIN dev = Devices /\ Writers \subseteq Devices
      /\ DOMAIN status = DOMAIN requests
  BY DevicesFinite, LenProperties DEF Stocked, Accounted
<1>5. \A e \in Writers : dev'[e] = dev[e]
  BY <1>2, <1>4
<1>6. \A r \in DOMAIN requests : status'[r] = "ok" => status[r] = "ok"
  BY <1>2, <1>3, <1>4
<1>7. nFaults \in Nat
  BY DEF Shown
<1> QED BY <1>2, <1>5, <1>6, <1>7, SameRequests DEF Aside

\* New data for a device: its outputs show it once it is written.
LEMMA WriteDataShown ==
  ASSUME Stocked, Accounted, Shown, NEW c \in Clients, NEW d \in Devices, NEW request \in Writes,
         WriteData(c, d, request)
  PROVE  Shown'
<1>1. PICK r \in Nat : r = Len(requests) + 1
  BY LenProperties DEF Stocked
<1>2. PICK done : done = IF inits[d].kind = "MultiW" THEN MultiWProcessData(dev[d], r, request)
                         ELSE PinWProcessData(dev[d], r, request)
  OBVIOUS
<1>3. PICK b, sent : b = done.dev /\ sent = done.sent
  OBVIOUS
<1>4. PICK pins \in SUBSET Pins : pins = request.pins
  BY FTDIAssumption
<1>5. PICK asked, answer :
        /\ asked = [llId |-> c, nChan |-> d, pins |-> pins]
        /\ answer = IF r \in DOMAIN sent THEN sent[r] ELSE "waiting"
  OBVIOUS
<1>6. /\ d \in Writers /\ dev' = [dev EXCEPT ![d] = b]
      /\ requests' = Append(requests, asked) /\ status' = Append(status, answer)
      /\ UNCHANGED <<inits, pc, wires, played, nFaults>>
  BY <1>1, <1>2, <1>3, <1>4, <1>5 DEF WriteData, Asked, threadVars, outputVars
<1>7. PICK a \in PeriphType : a = dev[d] /\ a.m_nProcessed <= Len(a.m_allIds)
  BY <1>6 DEF Accounted, Served
<1>8. answer \in Statuses /\ answer # "ok"
  <2>1. Adds(a, done.dev, done.sent, r)
    BY <1>2, <1>7, MultiWAdds, PinWAdds
  <2>2. answer \in {"waiting", "INACTIVE_DEVICE", "BAD_INPUT_PARAMS", "ALREADY_OPEN"}
    BY <1>3, <1>5, <2>1 DEF Adds
  <2> QED BY <2>2 DEF Statuses
<1>9. /\ asked \in Request /\ requests \in Seq(Request) /\ Len(requests) \in Nat
      /\ DOMAIN requests = 1 .. Len(requests) /\ DOMAIN requests' = 1 .. Len(requests) + 1
      /\ \A q \in DOMAIN requests : requests'[q] = requests[q] /\ status'[q] = status[q]
      /\ requests'[Len(requests) + 1] = asked /\ status'[Len(requests) + 1] = answer
  <2>1. /\ asked = [llId |-> c, nChan |-> d, pins |-> pins] /\ answer \in Statuses
        /\ requests' = Append(requests, asked) /\ status' = Append(status, answer)
    BY <1>5, <1>6, <1>8
  <2>2. /\ asked \in Request /\ requests \in Seq(Request) /\ Len(requests) \in Nat
        /\ DOMAIN requests = 1 .. Len(requests) /\ DOMAIN requests' = 1 .. Len(requests) + 1
    BY <2>1, NewRequest
  <2>3. \A q \in DOMAIN requests : requests'[q] = requests[q] /\ status'[q] = status[q]
    BY <2>1, NewRequest
  <2>4. requests'[Len(requests) + 1] = asked /\ status'[Len(requests) + 1] = answer
    BY <2>1, NewRequest
  <2> QED BY <2>2, <2>3, <2>4
<1>10. /\ \A q \in DOMAIN requests : q \in DOMAIN requests'
       /\ \A q \in DOMAIN requests' : q \in DOMAIN requests \/ q = r
       /\ requests'[r] = asked /\ status'[r] = answer
  BY <1>1, <1>9
<1>11. \A q \in DOMAIN requests' : status'[q] = "ok" =>
         q \in DOMAIN requests /\ requests'[q] = requests[q] /\ status[q] = "ok"
  BY <1>8, <1>9, <1>10
<1>12. /\ Writers' = Writers /\ Writers \subseteq Devices /\ DOMAIN dev = Devices
  BY <1>6, DevicesFinite DEF Stocked, Writers, Devices, Kind
<1>13. ASSUME NEW e \in Writers PROVE Shows(e)'
  <2>1. PICK kind, w, pl, at, f :
          /\ kind = inits[e].kind /\ w = wires[e] /\ pl = played[e] /\ at = pc /\ f = nFaults
    OBVIOUS
  <2>2. PICK v \in PeriphType : v = dev[e] /\ v.m_nProcessed <= Len(v.m_allIds)
    BY DEF Accounted, Served
  <2>3. /\ Carried(kind, v, requests, w, pl, at, f) /\ Pending(kind, v, at, f)
        /\ w \in [Pins -> Nat] /\ pl \in [Pins -> Nat] /\ f \in Nat
    BY <2>1, <2>2 DEF Shown, Shows, Carried
  <2>4. PICK reqs2 : reqs2 = requests'
    OBVIOUS
  <2>5. PICK u : u = dev'[e]
    OBVIOUS
  <2>6. Carried(kind, u, reqs2, w, pl, at, f) /\ Pending(kind, u, at, f)
    <3>1. CASE e = d
      <4>1. v = a /\ u = b
        BY <1>6, <1>7, <1>12, <2>2, <2>5, <3>1
      <4>2. Stores(a, b, pins, r)
        <5>1. CASE kind = "MultiW"
          <6>1. a.seq = Pins /\ done = MultiWProcessData(a, r, request)
            BY <1>2, <1>7, <2>1, <2>3, <3>1, <4>1, <5>1 DEF Carried
          <6> QED BY <1>3, <1>4, <6>1, MultiWStores
        <5>2. CASE kind # "MultiW"
          <6>1. done = PinWProcessData(a, r, request)
            BY <1>2, <1>7, <2>1, <3>1, <5>2
          <6> QED BY <1>3, <1>4, <6>1, PinWStores
        <5> QED BY <5>1, <5>2
      <4>3. reqs2 = Append(requests, asked) /\ asked.pins = pins /\ r = Len(requests) + 1
        BY <1>1, <1>5, <1>6, <2>4
      <4>4. Carried(kind, b, reqs2, w, pl, at, f)
        BY <1>7, <1>9, <2>3, <4>1, <4>2, <4>3, StoresCarried
      <4>5. Pending(kind, b, at, f)
        BY <2>3, <4>1, <4>2 DEF Pending, Stores
      <4> QED BY <4>1, <4>4, <4>5
    <3>2. CASE e # d
      <4>1. u = v
        BY <1>6, <1>12, <2>2, <2>5, <3>2
      <4>2. /\ Len(reqs2) \in Nat /\ Len(requests) <= Len(reqs2)
            /\ \A q \in DOMAIN requests : q \in DOMAIN reqs2 /\ reqs2[q] = requests[q]
        <5>1. Len(reqs2) = Len(requests) + 1
          BY <1>6, <1>9, <2>4, AppendProperties
        <5> QED BY <1>9, <1>10, <2>4, <5>1
      <4>3. Carried(kind, v, reqs2, w, pl, at, f)
        BY <1>9, <2>3, <4>2, CarriedMore
      <4> QED BY <2>3, <4>1, <4>3
    <3> QED BY <3>1, <3>2
  <2>7. Done(e)'
    <3>1. PICK none : none = <<>>
      OBVIOUS
    <3>2. OnOutputs(none, requests, wires'[e], played'[e], nFaults')
      BY <3>1 DEF OnOutputs
    <3>3. \A q \in DOMAIN requests' : requests'[q].nChan = e /\ status'[q] = "ok" =>
            /\ q \in DOMAIN requests /\ requests'[q] = requests[q]
            /\ status[q] = "ok" \/ (q \in DOMAIN none /\ none[q] = "ok")
      BY <1>11
    <3>4. /\ wires'[e] \in [Pins -> Nat] /\ played'[e] \in [Pins -> Nat]
          /\ \A p \in Pins : wires'[e][p] >= wires[e][p] /\ played'[e][p] >= played[e][p]
      BY <1>6, <2>1, <2>3
    <3>5. nFaults' \in Nat /\ (nFaults' = 0 => nFaults = 0)
      BY <1>6, <2>1, <2>3
    <3> QED BY <3>2, <3>3, <3>4, <3>5, DoneStays
  <2> QED BY <1>6, <2>1, <2>4, <2>5, <2>6, <2>7 DEF Shows
<1>14. nFaults' \in Nat
  BY <1>6 DEF Shown
<1> QED BY <1>12, <1>13, <1>14 DEF Shown

\* The steps of ThreadProc that call the devices.
LEMMA ThreadShown ==
  ASSUME Stocked, Accounted, Shown,
         \/ Recover \/ PopUpdate \/ PreWrite \/ Write \/ WriteFails
         \/ (\E outcome : ReadPort(outcome)) /\ nFaults' \in {nFaults, nFaults + 1}
  PROVE  Shown'
<1>1. CASE Recover
  <2>1. PICK ds, why, failed, outcome :
          outcome = Nothing /\ ds = Devices /\ why = "eRecover" /\ failed = FALSE
    OBVIOUS
  <2>2. /\ Work(ds, why, failed, outcome) /\ UNCHANGED <<inits, requests, wires, played>>
        /\ pc = "wait" /\ pc' = "updates" /\ nFaults' = nFaults
    BY <1>1, <2>1 DEF Recover, Wake, clientVars, outputVars
  <2>3. CallAt(why, failed, pc, pc', nFaults, nFaults')
    BY <2>1, <2>2 DEF CallAt
  <2>4. \A d \in Writers : OutputsAt(why, failed, inits[d].kind, dev[d], wires[d], played[d],
                                     wires'[d], played'[d])
    BY <2>1, <2>2 DEF OutputsAt
  <2> QED BY <2>1, <2>2, <2>3, <2>4, WorkShown
<1>2. CASE PopUpdate
  <2>1. PICK ds, why, failed, outcome :
          /\ outcome = Nothing /\ ds = {Head(m_asUpdates).nChan} /\ failed = FALSE
          /\ why = IF Head(m_asUpdates).on THEN "eActivateState" ELSE "eInactivateState"
    OBVIOUS
  <2>2. /\ Work(ds, why, failed, outcome) /\ UNCHANGED <<inits, requests, wires, played>>
        /\ pc \in {"wait", "updates"} /\ pc' = "updates" /\ nFaults' = nFaults
        /\ why \in {"eActivateState", "eInactivateState"}
    BY <1>2, <2>1 DEF PopUpdate, InUpdates, Wake, clientVars, outputVars
  <2>3. CallAt(why, failed, pc, pc', nFaults, nFaults')
    BY <2>1, <2>2 DEF CallAt
  <2>4. \A d \in Writers : OutputsAt(why, failed, inits[d].kind, dev[d], wires[d], played[d],
                                     wires'[d], played'[d])
    BY <2>2 DEF OutputsAt
  <2> QED BY <2>2, <2>3, <2>4, WorkShown
<1>3. CASE PreWrite
  <2>1. PICK ds, why, failed, outcome :
          outcome = Nothing /\ ds = Devices /\ why = "ePreWrite" /\ failed = FALSE
    OBVIOUS
  <2>2. /\ Work(ds, why, failed, outcome) /\ UNCHANGED <<inits, requests, wires, played>>
        /\ pc \in {"wait", "prewrite"} /\ pc' = "write" /\ nFaults' = nFaults
    BY <1>3, <2>1 DEF PreWrite, Wake, clientVars, outputVars
  <2>3. CallAt(why, failed, pc, pc', nFaults, nFaults')
    BY <2>1, <2>2 DEF CallAt
  <2>4. \A d \in Writers : OutputsAt(why, failed, inits[d].kind, dev[d], wires[d], played[d],
                                     wires'[d], played'[d])
    BY <2>1, <2>2 DEF OutputsAt
  <2> QED BY <2>1, <2>2, <2>3, <2>4, WorkShown
<1>4. CASE Write
  <2>1. PICK ds, why, failed, outcome :
          outcome = Nothing /\ ds = Devices /\ why = "ePostWrite" /\ failed = FALSE
    OBVIOUS
  <2>2. /\ Work(ds, why, failed, outcome) /\ UNCHANGED <<inits, requests>>
        /\ pc = "write" /\ pc' = "read" /\ nFaults' = nFaults
    BY <1>4, <2>1 DEF Write, clientVars
  <2>3. CallAt(why, failed, pc, pc', nFaults, nFaults')
    BY <2>1, <2>2 DEF CallAt
  <2>4. ASSUME NEW d \in Writers
        PROVE  OutputsAt(why, failed, inits[d].kind, dev[d], wires[d], played[d],
                         wires'[d], played'[d])
    <3>1. d \in Devices /\ inits[d].kind \in {"MultiW", "PinW"}
      BY DEF Writers, Kind
    <3>2. /\ wires'[d] = (IF Clocked(d) THEN dev[d].buff.data ELSE wires[d])
          /\ played'[d] = [p \in Pins |-> IF Clocked(d) /\ p \in dev[d].buff.seq
                                          THEN dev[d].buff.data[p] ELSE played[d][p]]
      BY <1>4, <3>1 DEF Write
    <3>3. played[d] = [p \in Pins |-> played[d][p]]
      <4>1. played[d] \in [Pins -> Nat]
        BY DEF Shown, Shows, Carried
      <4> QED BY <4>1
    <3>4. Clocks(inits[d].kind, dev[d], wires[d], played[d], wires'[d], played'[d])
      <4>1. CASE Clocked(d)
        BY <3>1, <3>2, <4>1 DEF Clocks, Clocked
      <4>2. CASE ~Clocked(d)
        BY <3>1, <3>2, <3>3, <4>2 DEF Clocks, Clocked
      <4> QED BY <4>1, <4>2
    <3> QED BY <2>1, <3>4 DEF OutputsAt
  <2> QED BY <2>1, <2>2, <2>3, <2>4, WorkShown
<1>5. CASE WriteFails
  <2>1. PICK ds, why, failed, outcome :
          outcome = Nothing /\ ds = Devices /\ why = "ePostWrite" /\ failed = TRUE
    OBVIOUS
  <2>2. /\ Work(ds, why, failed, outcome) /\ UNCHANGED <<inits, requests, wires, played>>
        /\ pc = "write" /\ pc' = "erase" /\ nFaults' = nFaults + 1
    BY <1>5, <2>1 DEF WriteFails, clientVars, outputVars
  <2>3. CallAt(why, failed, pc, pc', nFaults, nFaults')
    BY <2>1, <2>2 DEF CallAt
  <2>4. \A d \in Writers : OutputsAt(why, failed, inits[d].kind, dev[d], wires[d], played[d],
                                     wires'[d], played'[d])
    BY <2>1, <2>2 DEF OutputsAt
  <2> QED BY <2>1, <2>2, <2>3, <2>4, WorkShown
<1>6. CASE (\E outcome : ReadPort(outcome)) /\ nFaults' \in {nFaults, nFaults + 1}
  <2>1. PICK ds, why, failed :
          ds = Devices /\ why = "ePostRead" /\ failed = FALSE
    OBVIOUS
  <2>5. PICK outcome : ReadPort(outcome)
    BY <1>6
  <2>2. /\ Work(ds, why, failed, outcome) /\ UNCHANGED <<inits, requests, wires, played>>
        /\ pc = "read" /\ pc' = "erase" /\ nFaults' \in {nFaults, nFaults + 1}
    BY <1>6, <2>1, <2>5 DEF ReadPort, clientVars, outputVars
  <2>3. CallAt(why, failed, pc, pc', nFaults, nFaults')
    BY <2>1, <2>2 DEF CallAt
  <2>4. \A d \in Writers : OutputsAt(why, failed, inits[d].kind, dev[d], wires[d], played[d],
                                     wires'[d], played'[d])
    BY <2>1, <2>2 DEF OutputsAt
  <2> QED BY <2>1, <2>2, <2>3, <2>4, WorkShown
<1> QED BY <1>1, <1>2, <1>3, <1>4, <1>5, <1>6

LEMMA InitShown ==
  ASSUME Init
  PROVE  Shown
<1>1. /\ requests = <<>> /\ nFaults = 0 /\ pc \in {"wait", "none"}
      /\ dev = [d \in Devices |-> IF inits[d].kind = "ADC" THEN NewADC ELSE NewPeriph]
      /\ wires = [d \in Devices |-> [p \in Pins |-> 0]] /\ played = wires
  BY DEF Init
<1>2. Len(requests) = 0 /\ DOMAIN requests = {}
  BY <1>1
<1>3. ASSUME NEW d \in Writers PROVE Shows(d)
  <2>1. PICK a, kind : a = dev[d] /\ kind = inits[d].kind
    OBVIOUS
  <2>2. a = NewPeriph /\ d \in Devices
    BY <1>1, <2>1 DEF Writers, Kind
  <2>3. /\ a.m_allIds = <<>> /\ a.m_nProcessed = 0 /\ ~a.m_bChanged /\ a.seq = Pins
        /\ a.data = [p \in Pins |-> 0] /\ a.buff.data = [p \in Pins |-> 0]
        /\ DOMAIN a.m_allIds = {}
    BY <2>2 DEF NewPeriph
  <2>4. PICK w : w = [p \in Pins |-> 0]
    OBVIOUS
  <2>5. wires[d] = w /\ played[d] = w /\ w \in [Pins -> Nat]
    BY <1>1, <2>2, <2>4
  <2>6. \A p \in Pins : /\ w[p] <= a.buff.data[p] /\ a.buff.data[p] <= a.data[p]
                        /\ a.data[p] <= Len(requests)
    BY <1>2, <2>3, <2>4
  <2>7. Carried(kind, a, requests, w, w, pc, nFaults)
    BY <1>1, <2>3, <2>5, <2>6 DEF Carried
  <2>8. Pending(kind, a, pc, nFaults)
    BY <2>3 DEF Pending
  <2>9. Done(d)
    BY <1>2 DEF Done
  <2> QED BY <2>1, <2>5, <2>7, <2>8, <2>9 DEF Shows
<1> QED BY <1>1, <1>3 DEF Shown

LEMMA NextKeepsShown ==
  ASSUME Stocked, Accounted, Shown, [Next]_vars
  PROVE  Shown'
<1>1. CASE ProcessData
  <2>1. CASE \E d \in Devices, on \in BOOLEAN : ActivateOrInactivate(d, on)
    BY <2>1, OtherAside, AsideShown
  <2>2. CASE \E c \in Clients, d \in Devices :
               \/ \E request \in Writes : WriteData(c, d, request)
               \/ Trigger(c, d) \/ TriggerADC(c, d) \/ CancelRead(c, d)
    BY <2>2, WriteDataShown, AskAside, CancelAside, AsideShown
  <2> QED BY <1>1, <2>1, <2>2 DEF ProcessData
<1>2. CASE WakeStop \/ NoMoreUpdates \/ Reset \/ RecoverFails \/ ReadFails \/ Erase
  BY <1>2, OtherAside, AsideShown
<1>3. CASE \/ Recover \/ PopUpdate \/ PreWrite \/ Write \/ WriteFails
           \/ Read \/ \E shown \in SUBSET ucOutput : ReadGarbled(shown)
  BY <1>3, ReadIs, ThreadShown
<1>4. CASE Delete \/ StopThread \/ DeleteDevices \/ UNCHANGED vars \/ \E c \in Clients : Leave(c)
  BY <1>4, OtherAside, AsideShown
<1>5. CASE \E d \in Devices : ADCThread(d) \/ ADCDue(d)
  BY <1>5, ADCAside, AsideShown
<1> QED BY <1>1, <1>2, <1>3, <1>4, <1>5 DEF Next, ThreadProc, Faults, Deletion

\* Whatever is asked while a write is under way, and however often the port
\* fails, success is answered only to data that is on its outputs, or was
\* followed there by later data; without a fault its whole sequence was.
THEOREM AnswersTrue == Spec => []WrittenWhenAnswered
<1>1. Shown => WrittenWhenAnswered
  BY DEF Shown, Shows, Done, WrittenWhenAnswered
<1>2. Stocked /\ Accounted /\ Shown /\ [Next]_vars => (Stocked /\ Accounted /\ Shown)'
  BY NextKeepsStocked, NextKeepsAccounted, NextKeepsShown
<1> QED BY <1>1, <1>2, InitStocked, InitAccounted, InitShown, PTL DEF Spec
=============================================================================
