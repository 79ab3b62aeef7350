---------------------------- MODULE MCRegisterBus ----------------------------
(* An instance of RegisterBus for TLC: a page of two words, a QA402, and the  *)
(* write URBs that meet every kind of register.                              *)
EXTENDS RegisterBus, TLC

R(r)    == [op |-> "read", reg |-> r, val |-> 0]
W(r, v) == [op |-> "write", reg |-> r, val |-> v]

MCWord     == 0 :> 101 @@ 1 :> 102
MCServed   == "SERIAL_NUMBER" :> 7
MCUnmapped == {"0x40"}

\* The page walk, with a read of the trace that shares the pointer.
Pages == { <<R("CALIBRATION"), R("TRACE_READ")>>, <<R("CALIBRATION")>>,
           <<W("PAGE_SELECT", 16)>>, <<W("PAGE_SELECT", 1), R("CALIBRATION")>> }
\* The way into the bootloader, and the stream it stops.
Magics == { <<W("BOOTLOADER_ENTRY", 8)>>, <<W("BOOTLOADER_ENTRY", 9), R("STREAM_CTRL")>>,
            <<W("BOOTLOADER_ENTRY", 1)>>, <<W("STREAM_CTRL", 5)>> }
\* Stream and I2S control, with values that mean nothing.
Streams == { <<W("STREAM_CTRL", 5)>>, <<W("STREAM_CTRL", 0), R("STREAM_STATUS")>>,
             <<W("STREAM_CTRL", 1), R("STREAM_CTRL")>>, <<W("I2S_CTRL", 2), R("I2S_CTRL")>> }
\* Settings, within and beyond their ranges.
Settings == { <<W("SAMPLE_RATE", 3), R("SAMPLE_RATE")>>, <<W("I2S_CTRL", 1), R("I2S_CTRL")>>,
              <<W("INPUT_GAIN", 9), R("INPUT_GAIN")>>, <<R("0x40"), W("0x40", 3)>> }

\* A few reads and writes with everything workers and clients may do to them,
\* and longer sequences of frames with little else.
Busy(menu) ==
    [conns |-> 2, menu |-> menu, urbs |-> 2, polls |-> 2, unlinks |-> 1, settles |-> 0]
Long(menu) ==
    [conns |-> 1, menu |-> menu, urbs |-> 3, polls |-> 0, unlinks |-> 0, settles |-> 1]
Reads == { <<R("CALIBRATION")>>, <<R("TRACE_READ"), R("CALIBRATION")>> }

\* The latch of the unlock, from one connection to the next.
Latch ==
    [conns |-> 2, menu |-> Magics, urbs |-> 3, polls |-> 0, unlinks |-> 0, settles |-> 0]

MCPlans == {Busy(Reads), Latch} \cup {Long(m) : m \in {Pages, Streams, Settings}}
=============================================================================
