------------------------------- MODULE MCFTDI -------------------------------
(* Instances of CChannelFTDI small enough for TLC. *)
EXTENDS FTDIProps

Register(kind, clk, cont) ==
  [kind |-> kind, dwBoards |-> 1, dwClkPerData |-> clk, bContinuous |-> cont]
PinDevice(kind, bytes, cont) ==
  [kind |-> kind, usBytesUsed |-> bytes, ucActivePins |-> 1, bContinuous |-> cont]
Converter(percent, configure) ==
  [kind |-> "ADC", fUSBBuffToUse |-> percent, bConfigureADC |-> configure]

\* A register written next to one read, pins written, pins read
\* continuously, an ADC, and a register whose 65538 bytes wrap to 2; and
\* channels that are refused.
Channels ==
  {<<Register("MultiW", 1, FALSE), Register("MultiR", 3, FALSE)>>,
   <<PinDevice("PinW", 3, FALSE)>>, <<PinDevice("PinR", 2, TRUE)>>,
   <<Converter(10, TRUE)>>, <<Register("MultiW", 3641, FALSE)>>,
   <<>>, <<Register("MultiW", 0, FALSE)>>, <<Register("MultiR", 99, FALSE)>>}

\* An ADC alone, for the run that looks at its last answer.
ConverterOnly == {<<Converter(10, TRUE)>>}
NoFaults == [config \in ConverterOnly |-> 0]

\* One call fails where a device is alone, and a second where it reads pins.
Faults_ ==
  [config \in Channels |-> IF Len(config) # 1 THEN 0
                           ELSE IF config[1].kind = "PinR" THEN 2
                           ELSE IF config[1].kind = "MultiW" THEN 0 ELSE 1]

Written_ == {[pins |-> {1, 2}, outOfRange |-> FALSE], [pins |-> {2}, outOfRange |-> TRUE]}
=============================================================================
