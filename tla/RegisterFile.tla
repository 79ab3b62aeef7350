---------------------------- MODULE RegisterFile -----------------------------
(***************************************************************************)
(* The registers of the analyzer persona (vqa40x-core/src/analyzer.rs): what *)
(* a read returns and changes (`read_value`) and what a write does           *)
(* (`write_value`), as operators on the part of `AState` that registers      *)
(* reach.                                                                  *)
(*                                                                         *)
(* The calibration page is counted in words of four bytes, since every read  *)
(* of it takes one and the pointer starts at 0.  The 500 ms after a stop in  *)
(* which STREAM_STATUS reads 0x40 are a flag, which `Settled` lowers.  The   *)
(* telemetry registers, a function of the time of day, are left out.        *)
(***************************************************************************)
EXTENDS Integers

CONSTANTS
    MaxRate,    \* opts.model.max_rate_index()
    PageSize,   \* words of the calibration page
    Word,       \* what each of them holds
    Served,     \* what the constant registers serve: FIRMWARE_VERSION,
                \* CAPABILITY, CAPABILITY2, SERIAL_NUMBER, TRACE_LEN
    Unmapped,   \* register addresses without a meaning
    Magic1, Magic2

\* The registers the firmware gives a meaning to, but for the constant ones.
Named ==
    {"LINK_KEEPALIVE", "INPUT_GAIN", "OUTPUT_GAIN", "STREAM_CTRL", "SAMPLE_RATE", "I2S_CTRL",
     "I2S_WIDTH", "PAGE_SELECT", "CALIBRATION", "TRACE_READ", "STREAM_STATUS",
     "BOOTLOADER_ENTRY"}
Registers == Named \cup DOMAIN Served \cup Unmapped

ASSUME RegisterAssumption ==
    /\ MaxRate \in Nat
    /\ PageSize \in Nat \ {0}
    /\ DOMAIN Word = 0..(PageSize - 1) /\ \A i \in DOMAIN Word : Word[i] \in Nat
    /\ \A r \in DOMAIN Served : Served[r] \in Nat
    /\ Unmapped \cap (Named \cup DOMAIN Served) = {} /\ Named \cap DOMAIN Served = {}
    /\ Magic1 \in Nat /\ Magic2 \in Nat /\ Magic1 # Magic2

\* Registers that keep the value written, whatever it is.
Plain == {"LINK_KEEPALIVE", "I2S_WIDTH"} \cup Unmapped

FactoryPage == 16
StopStatus == 64

\* AState as Analyzer::new leaves it.
PoweredUp ==
    [plain      |-> [r \in Plain |-> IF r = "I2S_WIDTH" THEN 64 ELSE 0],
     inputGain  |-> 7,
     outputGain |-> 0,
     rate       |-> 0,
     streaming  |-> FALSE,
     i2s        |-> FALSE,
     page       |-> FactoryPage,
     ptr        |-> 0,
     stage      |-> 0,
     stopped    |-> FALSE]

-----------------------------------------------------------------------------
(* read_value *)

Reading(st, r) ==
    CASE r \in Plain          -> st.plain[r]
      [] r \in DOMAIN Served  -> Served[r]
      [] r = "INPUT_GAIN"     -> st.inputGain
      [] r = "OUTPUT_GAIN"    -> st.outputGain
      [] r = "SAMPLE_RATE"    -> st.rate
      [] r = "STREAM_CTRL"    -> IF st.streaming THEN 5 ELSE 0
      [] r = "I2S_CTRL"       -> IF st.i2s THEN 1 ELSE 0
      [] r = "STREAM_STATUS"  -> IF st.stopped THEN StopStatus ELSE 0
      [] r = "TRACE_READ"     -> 0
      [] r = "CALIBRATION"    -> IF st.page = FactoryPage
                                 THEN Word[st.ptr % PageSize] ELSE 0
      [] OTHER                -> 0

\* CALIBRATION and TRACE_READ walk one pointer; only the former wraps it.
AfterRead(st, r) ==
    CASE r = "TRACE_READ"  -> [st EXCEPT !.ptr = @ + 1]
      [] r = "CALIBRATION" -> [st EXCEPT !.ptr = (@ + 1) % PageSize]
      [] OTHER             -> st

-----------------------------------------------------------------------------
(* write_value *)

\* The second magic, armed by the first: the stream goes and the unit reboots.
Unlocks(st, r, v) == r = "BOOTLOADER_ENTRY" /\ v = Magic2 /\ st.stage = 1

\* STREAM_CTRL = 5 starts, 0 stops (also when nothing streams); no other value
\* does anything.
WriteStreamCtrl(st, v) ==
    CASE v = 5 -> [st EXCEPT !.streaming = TRUE]
      [] v = 0 -> [st EXCEPT !.streaming = FALSE, !.stopped = TRUE]
      [] OTHER -> st

WriteI2sCtrl(st, v) ==
    CASE v = 1 -> [st EXCEPT !.i2s = TRUE]
      [] v = 0 -> [st EXCEPT !.i2s = FALSE]
      [] OTHER -> st

\* Mutant of WriteBootloaderEntry: a wrong value leaves the latch armed.
WriteBootloaderEntryLatched(st, v) ==
    CASE v = Magic1                   -> [st EXCEPT !.stage = 1]
      [] v = Magic2 /\ st.stage = 1   -> [st EXCEPT !.stage = 0, !.streaming = FALSE]
      [] OTHER                        -> st

\* The two-magic unlock; anything out of order resets the latch.
WriteBootloaderEntry(st, v) ==
    CASE v = Magic1                   -> [st EXCEPT !.stage = 1]
      [] v = Magic2 /\ st.stage = 1   -> [st EXCEPT !.stage = 0, !.streaming = FALSE]
      [] OTHER                        -> [st EXCEPT !.stage = 0]

\* Mutant of RateOf: the index after the last is let through.
RateOfLoose(v) == IF v > MaxRate + 1 THEN MaxRate ELSE v

\* A sample-rate index beyond those of the model is clamped.
RateOf(v) == IF v > MaxRate THEN MaxRate ELSE v

AfterWrite(st, r, v) ==
    CASE r \in Plain             -> [st EXCEPT !.plain[r] = v]
      [] r = "INPUT_GAIN"        -> [st EXCEPT !.inputGain = v % 8]
      [] r = "OUTPUT_GAIN"       -> [st EXCEPT !.outputGain = v % 4]
      [] r = "SAMPLE_RATE"       -> [st EXCEPT !.rate = RateOf(v)]
      [] r = "STREAM_CTRL"       -> WriteStreamCtrl(st, v)
      [] r = "I2S_CTRL"          -> WriteI2sCtrl(st, v)
      [] r = "PAGE_SELECT"       -> [st EXCEPT !.page = v, !.ptr = 0]
      [] r = "BOOTLOADER_ENTRY"  -> WriteBootloaderEntry(st, v)
      [] OTHER                   -> st

\* 500 ms have passed since the last stop.
Settled(st) == [st EXCEPT !.stopped = FALSE]
=============================================================================
