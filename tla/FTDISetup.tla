------------------------------ MODULE FTDISetup ------------------------------
(***************************************************************************)
(* How CChannelFTDI's constructor ("ftdi device.cpp") sizes the buffers    *)
(* its devices share, and when it and theirs refuse.                       *)
(*                                                                         *)
(* A device on the channel is the record its client describes it with:     *)
(* SValveInit for the two shift registers, SPinInit for the two pin        *)
(* devices, SADCInit for the ADC, each with its kind.  fUSBBuffToUse is in *)
(* whole percent.  Memory, events and the port are there when asked.       *)
(*                                                                         *)
(* A product of the client's numbers is a DWORD, which wraps.  A register  *)
(* whose size wraps is given a buffer that is too small for it; what       *)
(* becomes of a channel whose buffer is overrun is not modelled.           *)
(***************************************************************************)
EXTENDS Integers, Sequences, FiniteSetsExt

CONSTANTS
  dwPacket,     \* 510 or 62: what one USB packet carries
  dwMaxPacket,  \* FTDI_MAX_BUFF_H or FTDI_MAX_BUFF_L, a multiple of it
  dwSpan        \* 2^32: a DWORD is below it

ASSUME PacketAssumption ==
  /\ dwPacket \in {62, 510} /\ dwMaxPacket \in Nat
  /\ dwMaxPacket % dwPacket = 0 /\ 3 * dwPacket <= dwMaxPacket
  /\ dwSpan \in Nat /\ dwMaxPacket < dwSpan

MultiInits(kind) ==
  [kind : {kind}, dwBoards : Nat, dwClkPerData : Nat, bContinuous : BOOLEAN]
PinInits(kind) ==
  [kind : {kind}, usBytesUsed : Nat, ucActivePins : Nat, bContinuous : BOOLEAN]
ADCInits == [kind : {"ADC"}, fUSBBuffToUse : Nat, bConfigureADC : BOOLEAN]

Inits == MultiInits("MultiW") \cup MultiInits("MultiR") \cup
         PinInits("PinW") \cup PinInits("PinR") \cup ADCInits

MAXIMUM_WAIT_OBJECTS == 64

Larger(m, n) == IF m >= n THEN m ELSE n
CeilDiv(n, d) == (n + d - 1) \div d

DWORD(n) == n % dwSpan

\* What a register's DoWork puts into the buffer: two bytes for each bit and two
\* (reading: six) to latch, each repeated dwClkPerData times.
Bytes(init) ==
  (init.dwBoards * 16 + (IF init.kind = "MultiW" THEN 2 ELSE 6)) * init.dwClkPerData

\* Bytes one write of a device takes, as the constructor works them out.
\* Mutant: the size of a write taken for that of a read.
LatchOnWrite(init) ==
  IF init.kind \in {"MultiW", "MultiR"}
  THEN DWORD((init.dwBoards * 16 + 2) * init.dwClkPerData)
  ELSE IF init.kind = "ADC" THEN dwMaxPacket ELSE init.usBytesUsed
Need(init) ==
  CASE init.kind \in {"MultiW", "MultiR"} -> DWORD(Bytes(init))
    [] init.kind \in {"PinW", "PinR"} -> init.usBytesUsed
    [] init.kind = "ADC" ->
         IF init.fUSBBuffToUse >= 100 THEN dwMaxPacket
         ELSE IF init.fUSBBuffToUse * dwMaxPacket <= 300 * dwPacket
         THEN Larger(90, 3 * dwPacket)
         ELSE LET part == CeilDiv(init.fUSBBuffToUse * dwMaxPacket, 100)
              IN  part - (part % dwPacket)

\* Whole packets: "align to 510/62".
Align(n) == dwPacket * CeilDiv(n, dwPacket)

\* What the channel's largest user needs; every device is told it (dwBuff).
dwMaxWrite(inits) ==
  Align(Max({Need(inits[i]) : i \in DOMAIN inits} \cup {0}))

\* dwMinSizeW and dwMinSizeR of a device: the shift register of a read is
\* sized here once more.
dwMinSize(inits, i) ==
  CASE inits[i].kind = "MultiW" ->
         dwPacket * CeilDiv(DWORD((inits[i].dwBoards * 16 + 2) * inits[i].dwClkPerData),
                            dwPacket)
    [] inits[i].kind = "MultiR" ->
         dwPacket * CeilDiv(DWORD((inits[i].dwBoards * 16 + 6) * inits[i].dwClkPerData),
                            dwPacket)
    [] inits[i].kind \in {"PinW", "PinR"} ->
         dwPacket * CeilDiv(inits[i].usBytesUsed, dwPacket)
    [] inits[i].kind = "ADC" -> dwMaxWrite(inits)

\* What the channel writes and reads at once when every device is active;
\* m_aucTx has this size, and every device fills dwBuff bytes of it.
WriteSize(inits) == Max({dwMinSize(inits, i) : i \in DOMAIN inits} \cup {0})

-----------------------------------------------------------------------------
(* The devices' own constructors *)

MultiWRefuses(init, dwMinSizeW, dwBuff) ==
  \/ dwMinSizeW < DWORD((init.dwBoards * 16 + 2) * init.dwClkPerData)
  \/ dwBuff < dwMinSizeW
  \/ init.dwClkPerData = 0 \/ init.dwBoards = 0

MultiRRefuses(init, dwMinSizeW, dwBuff) ==
  \/ dwMinSizeW < DWORD((init.dwBoards * 16 + 6) * init.dwClkPerData)
  \/ dwBuff < dwMinSizeW
  \/ init.dwClkPerData = 0 \/ init.dwBoards = 0

PinWRefuses(init, dwMinSizeW, dwBuff) ==
  \/ dwMinSizeW < init.usBytesUsed \/ dwBuff < dwMinSizeW
  \/ init.usBytesUsed = 0 \/ init.ucActivePins = 0

PinRRefuses(init, dwMinSizeW, dwBuff) ==
  \/ dwMinSizeW < init.usBytesUsed \/ dwBuff < dwMinSizeW
  \/ init.usBytesUsed = 0 \/ init.ucActivePins = 0

\* Its other parameters are taken for valid.
ADCRefuses(dwMinSizeW, dwBuff) ==
  \/ dwBuff % 510 # 0 /\ dwBuff % 62 # 0
  \/ dwMinSizeW # dwBuff

Refuses(inits, i) ==
  LET w == dwMinSize(inits, i)
      b == dwMaxWrite(inits)
  IN  CASE inits[i].kind = "MultiW" -> MultiWRefuses(inits[i], w, b)
        [] inits[i].kind = "MultiR" -> MultiRRefuses(inits[i], w, b)
        [] inits[i].kind = "PinW" -> PinWRefuses(inits[i], w, b)
        [] inits[i].kind = "PinR" -> PinRRefuses(inits[i], w, b)
        [] inits[i].kind = "ADC" -> ADCRefuses(w, b)

-----------------------------------------------------------------------------
(* The channel's *)

\* One device needs more than the port takes.
TooSmall(inits) ==
  \E i \in DOMAIN inits :
    inits[i].kind # "ADC" /\ Need(inits[i]) > dwMaxPacket

\* The checks after the devices were created.
Unfit(inits) ==
  CASE inits = <<>> -> "NO_CHAN"
    [] Len(inits) + 3 > MAXIMUM_WAIT_OBJECTS -> "NO_SYS_RESOURCE"
    [] WriteSize(inits) > dwMaxPacket \/ WriteSize(inits) = 0 -> "BAD_INPUT_PARAMS"
    [] OTHER -> "none"

\* nError of the constructor.
Setup(inits) ==
  IF TooSmall(inits) THEN "BUFF_TOO_SMALL"
  ELSE IF \E i \in DOMAIN inits : Refuses(inits, i) THEN "BAD_INPUT_PARAMS"
  ELSE Unfit(inits)
=============================================================================
