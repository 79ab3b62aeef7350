----------------------------- MODULE AdcStream ------------------------------
(***************************************************************************)
(* The audio stream of the analyzer persona (vqa40x-core/src/analyzer.rs):  *)
(* register 0x08 starts and stops it, EP2 OUT feeds it DAC samples, EP2 IN   *)
(* returns ADC blocks that loop them back, paced at the sample rate.        *)
(*                                                                         *)
(* Workers of three endpoints meet here: those that run the register writes, *)
(* those of EP2 OUT and those of EP2 IN.  They share the state behind a       *)
(* mutex, locked for one step at a time and never across an await, and the    *)
(* `stream_notify` waiters.  A connection has one EP2 IN worker of its own    *)
(* (vqa40x-usbip/src/lib.rs).  When it ends inside an OUT payload, its        *)
(* worker is not cancelled: it goes on with the URBs of its queue, beside     *)
(* the worker of the next connection.                                      *)
(*                                                                         *)
(* Time is counted in ticks.  `elapsed` is the age of the stream, and it    *)
(* stops counting when every block the bounds allow is due; a sleep is a    *)
(* countdown.  A sample is named by its place in what the host fed to the    *)
(* stream, and 0 is silence.                                                *)
(***************************************************************************)
EXTENDS Integers, Sequences, SequencesExt, FiniteSets

CONSTANTS
    Rates,      \* sample rates, as divisors of SlowTicks
    SlowTicks,  \* ticks a block takes at rate 1
    N,          \* samples of an ADC block
    Latency,    \* opts.latency_samples
    CapFactor,  \* the DAC queue holds at most CapFactor * rate samples
    Grace,      \* ticks an overdue block waits for DAC samples
    MaxConns,   \* bound: connections, one after the other
    MaxBlocks,  \* bound: blocks of one stream
    MaxFed      \* bound: DAC samples of one stream

\* The connections, and the EP2 IN worker of each.
Conns == 1..MaxConns

ASSUME ConstantsAssumption ==
    /\ Rates \subseteq Nat \ {0} /\ 1 \in Rates
    /\ SlowTicks \in Nat /\ \A r \in Rates : SlowTicks % r = 0
    /\ N \in Nat \ {0} /\ Latency \in Nat /\ Grace \in Nat
    /\ CapFactor \in Nat /\ \A r \in Rates : CapFactor * r >= N
    /\ MaxConns \in Nat \ {0} /\ MaxBlocks \in Nat /\ MaxFed \in Nat

VARIABLES
    realtime,   \* opts.realtime
    rate,       \* st.rate_idx
    streaming,  \* st.stream.is_some()
    elapsed,    \* ticks since stream.started
    emitted,    \* stream.emitted, in blocks
    dac,        \* stream.dac
    delay,      \* stream.delay
    overflowed, \* stream.overflowed
    conn,       \* the connection in use
    adc,        \* where in_transfer of each worker stands
    waiter,     \* the `notified` future it awaits or may await
    timer,      \* ticks left of its sleep or of its grace
    linked,     \* its URB is still in `pending`
    block,      \* the block it has produced, of the running stream
    fed,        \* history: samples the stream was fed
    out,        \* history: samples the stream has produced
    got,        \* history: samples the hosts got of it, until a block slipped
    steady,     \* history: the rate has not changed since the stream started
    slot,       \* history: the place its block was timed for; 0 in no running stream
    sharers,    \* history: workers that timed a block for the stream
    mistimed,   \* history: a block was timed for an earlier stream
    gaveUp,     \* history: a block ran out of its grace
    slipped     \* history: a block was lost, or one of an earlier stream was got

streamVars == <<streaming, elapsed, emitted, dac, delay, overflowed, fed, out,
                steady, mistimed, gaveUp>>
adcVars    == <<adc, waiter, timer, linked, block, slot, sharers>>
hostVars   == <<conn, got, slipped>>
vars == <<realtime, rate, streamVars, adcVars, hostVars>>

Awaits == {"wait_start", "pacing", "grace"}
Reading == Awaits \cup {"due", "look", "produce"}
AdcStates == Reading \cup {"idle", "claim", "ended"}
Silence == 0
BlockTicks(r) == SlowTicks \div r
MaxElapsed == MaxBlocks * SlowTicks
Positive(x) == IF x > 0 THEN x ELSE 0

\* The workers inside in_transfer.
Readers == {c \in Conns : adc[c] \in Reading}

\* A stream that has just started; one that is gone keeps these values too.
Fresh ==
    /\ elapsed' = 0 /\ emitted' = 0 /\ dac' = << >> /\ delay' = Latency
    /\ overflowed' = FALSE /\ fed' = 0 /\ out' = << >> /\ got' = << >>
    /\ steady' = TRUE /\ mistimed' = FALSE /\ gaveUp' = FALSE /\ slipped' = FALSE
    /\ slot' = [c \in Conns |-> 0] /\ sharers' = {}
    /\ block' = [c \in Conns |-> << >>]

\* stream_notify.notify_waiters()
Notify ==
    waiter' = [c \in Conns |-> IF waiter[c] = "enabled" THEN "notified" ELSE waiter[c]]

Init ==
    /\ realtime \in BOOLEAN
    /\ rate = 1
    /\ streaming = FALSE /\ elapsed = 0 /\ emitted = 0 /\ dac = << >>
    /\ delay = Latency /\ overflowed = FALSE
    /\ conn = 1
    /\ adc = [c \in Conns |-> "idle"] /\ waiter = [c \in Conns |-> "none"]
    /\ timer = [c \in Conns |-> 0] /\ linked = [c \in Conns |-> TRUE]
    /\ block = [c \in Conns |-> << >>]
    /\ fed = 0 /\ out = << >> /\ got = << >>
    /\ steady = TRUE /\ mistimed = FALSE /\ gaveUp = FALSE /\ slipped = FALSE
    /\ slot = [c \in Conns |-> 0] /\ sharers = {}

-----------------------------------------------------------------------------
(* Register writes: write_value, under the mutex. *)

\* STREAM_CTRL = 5: a write while streaming changes nothing.
StartStream ==
    /\ ~streaming
    /\ streaming' = TRUE /\ Fresh /\ Notify
    /\ UNCHANGED <<realtime, rate, conn, adc, timer, linked>>

\* STREAM_CTRL = 0, streaming or not.
StopStream ==
    /\ streaming' = FALSE /\ Fresh /\ Notify
    /\ UNCHANGED <<realtime, rate, conn, adc, timer, linked>>

\* The second magic of BOOTLOADER_ENTRY drops the stream and wakes nobody.
BootloaderEntry ==
    /\ streaming
    /\ streaming' = FALSE /\ Fresh
    /\ UNCHANGED <<realtime, rate, conn, adc, waiter, timer, linked>>

\* Mutant of SetRate: the rate is not limited to those of the model.
SetRateUnclamped(r) ==
    /\ rate' = r + 1
    /\ steady' = IF streaming THEN FALSE ELSE steady
    /\ UNCHANGED <<realtime, streaming, elapsed, emitted, dac, delay,
                   overflowed, fed, out, mistimed, gaveUp, adcVars, hostVars>>

SetRate(r) ==
    /\ rate' = r
    /\ steady' = IF streaming THEN steady /\ r = rate ELSE steady
    /\ UNCHANGED <<realtime, streaming, elapsed, emitted, dac, delay,
                   overflowed, fed, out, mistimed, gaveUp, adcVars, hostVars>>

-----------------------------------------------------------------------------
(* EP2 OUT: handle_dac_block, under the mutex. *)

\* A block of m samples joins the queue; beyond the cap the oldest are dropped.
\* A block that arrives while nothing streams is dropped.
DacBlock(m) ==
    /\ streaming /\ fed + m <= MaxFed
    /\ LET queue == dac \o [i \in 1..m |-> fed + i]
           surplus == Positive(Len(queue) - CapFactor * rate)
       IN /\ dac' = SubSeq(queue, surplus + 1, Len(queue))
          /\ overflowed' = (overflowed \/ surplus > 0)
    /\ fed' = fed + m
    /\ Notify
    /\ UNCHANGED <<realtime, rate, streaming, elapsed, emitted, delay, out,
                   steady, mistimed, gaveUp, adc, timer, linked, block, slot,
                   sharers, hostVars>>

-----------------------------------------------------------------------------
(* The connections: urb_phase. *)

\* The connection ends and another begins.  Its worker is cancelled (AdcEnds), or
\* goes on.
Reconnect ==
    /\ conn < MaxConns
    /\ conn' = conn + 1
    /\ UNCHANGED <<realtime, rate, streamVars, adcVars, got, slipped>>

\* UNLINK of the URB a worker has in hand.
Unlink ==
    /\ adc[conn] \in Reading \cup {"claim"} /\ linked[conn]
    /\ linked' = [linked EXCEPT ![conn] = FALSE]
    /\ UNCHANGED <<realtime, rate, streamVars, adc, waiter, timer, block, slot,
                   sharers, hostVars>>

-----------------------------------------------------------------------------
(* EP2 IN: spawn_in_worker and in_transfer. *)

\* The transfer is over: worker c goes to `place`.
Leaves(c, place) ==
    /\ adc' = [adc EXCEPT ![c] = place]
    /\ waiter' = [waiter EXCEPT ![c] = "none"]
    /\ timer' = [timer EXCEPT ![c] = 0]
    /\ linked' = [linked EXCEPT ![c] = TRUE]
    /\ block' = [block EXCEPT ![c] = << >>]
    /\ slot' = [slot EXCEPT ![c] = 0]
    /\ UNCHANGED sharers

\* conn_token is cancelled, and the worker drops its transfer and its queue; or its
\* connection is over, and its queue is empty.
AdcEnds(c) ==
    /\ c <= conn /\ adc[c] \in (IF c = conn THEN Awaits ELSE {}) \cup {"idle"}
    /\ Leaves(c, "ended")
    /\ UNCHANGED <<realtime, rate, streamVars, hostVars>>

\* An IN URB, sent now or while its connection lasted: enable the outer waiter
\* before looking for a stream.
AdcStart(c) ==
    /\ c <= conn /\ adc[c] = "idle"
    /\ emitted + Cardinality(Readers) < MaxBlocks
    /\ adc' = [adc EXCEPT ![c] = "due"]
    /\ waiter' = [waiter EXCEPT ![c] = "enabled"]
    /\ UNCHANGED <<realtime, rate, streamVars, timer, linked, block, slot, sharers,
                   hostVars>>

\* Mutant of DueIn: the block is due when it begins.
DueInEarly == Positive(emitted * BlockTicks(rate) - elapsed)

\* Ticks until the next block is complete.
DueIn == Positive((emitted + 1) * BlockTicks(rate) - elapsed)

\* Time the block, or wait for a stream to time it by.
AdcDue(c) ==
    /\ adc[c] = "due"
    /\ IF ~streaming
       THEN /\ adc' = [adc EXCEPT ![c] = "wait_start"]
            /\ UNCHANGED <<waiter, timer, slot, sharers>>
       ELSE /\ adc' = [adc EXCEPT ![c] = "pacing"]
            /\ waiter' = [waiter EXCEPT ![c] = "none"]
            /\ timer' = [timer EXCEPT ![c] = IF realtime THEN DueIn ELSE 0]
            /\ slot' = [slot EXCEPT ![c] = emitted + 1]
            /\ sharers' = sharers \cup {c}
    /\ UNCHANGED <<realtime, rate, streamVars, linked, block, hostVars>>

AdcWoken(c) ==
    /\ adc[c] = "wait_start" /\ waiter[c] = "notified"
    /\ adc' = [adc EXCEPT ![c] = "due"]
    /\ waiter' = [waiter EXCEPT ![c] = "enabled"]
    /\ UNCHANGED <<realtime, rate, streamVars, timer, linked, block, slot, sharers,
                   hostVars>>

\* The block is due; the deadline of the grace is set, the inner waiter enabled.
AdcPaced(c) ==
    /\ adc[c] = "pacing" /\ timer[c] = 0
    /\ adc' = [adc EXCEPT ![c] = "look"]
    /\ waiter' = [waiter EXCEPT ![c] = "enabled"]
    /\ timer' = [timer EXCEPT ![c] = Grace]
    /\ UNCHANGED <<realtime, rate, streamVars, linked, block, slot, sharers, hostVars>>

\* Mutant of Missing: the latency is not counted against the block, and one
\* sample is enough.
MissingAny == IF streaming /\ delay = 0 /\ dac = << >> THEN 1 ELSE 0

\* DAC samples the block still lacks; none when the stream has stopped.
Missing == IF streaming THEN Positive(Positive(N - delay) - Len(dac)) ELSE 0

AdcLook(c) ==
    /\ adc[c] = "look"
    /\ adc' = [adc EXCEPT ![c] =
                  IF Missing = 0 \/ timer[c] = 0 THEN "produce" ELSE "grace"]
    /\ UNCHANGED <<realtime, rate, streamVars, waiter, timer, linked, block, slot,
                   sharers, hostVars>>

\* Mutant of AdcGrace: no deadline, only a wakeup.
AdcGraceForever(c) ==
    /\ adc[c] = "grace" /\ waiter[c] = "notified"
    /\ adc' = [adc EXCEPT ![c] = "look"]
    /\ waiter' = [waiter EXCEPT ![c] = "enabled"]
    /\ UNCHANGED <<realtime, rate, streamVars, timer, linked, block, slot, sharers,
                   hostVars>>

\* select!: woken, or the deadline has passed.
AdcGrace(c) ==
    /\ adc[c] = "grace" /\ (waiter[c] = "notified" \/ timer[c] = 0)
    /\ adc' = [adc EXCEPT ![c] = "look"]
    /\ waiter' = [waiter EXCEPT ![c] = "enabled"]
    /\ UNCHANGED <<realtime, rate, streamVars, timer, linked, block, slot, sharers,
                   hostVars>>

\* Mutant of Block: the newest samples are looped back first.
BlockNewest ==
    LET quiet == IF delay < N THEN delay ELSE N
    IN [i \in 1..N |-> IF i <= quiet \/ i - quiet > Len(dac) THEN Silence
                       ELSE dac[Len(dac) + 1 - (i - quiet)]]

\* produce_adc_block: first the latency, then the queue, silence when it is empty.
Block ==
    LET quiet == IF delay < N THEN delay ELSE N
    IN [i \in 1..N |-> IF i <= quiet \/ i - quiet > Len(dac) THEN Silence
                       ELSE dac[i - quiet]]

AdcProduce(c) ==
    /\ adc[c] = "produce" /\ streaming
    /\ block' = [block EXCEPT ![c] = Block]
    /\ out' = out \o Block
    /\ delay' = Positive(delay - N)
    /\ dac' = SubSeq(dac, Positive(N - delay) + 1, Len(dac))
    /\ emitted' = emitted + 1
    /\ mistimed' = (mistimed \/ slot[c] = 0)
    /\ gaveUp' = (gaveUp \/ (Missing > 0 /\ timer[c] = 0))
    /\ adc' = [adc EXCEPT ![c] = "claim"]
    /\ waiter' = [waiter EXCEPT ![c] = "none"] /\ timer' = [timer EXCEPT ![c] = 0]
    /\ UNCHANGED <<realtime, rate, streaming, elapsed, overflowed, fed, steady, linked,
                   slot, sharers, hostVars>>

\* Stopped while pacing: wait for the next start.
AdcStopped(c) ==
    /\ adc[c] = "produce" /\ ~streaming
    /\ adc' = [adc EXCEPT ![c] = "due"]
    /\ waiter' = [waiter EXCEPT ![c] = "enabled"]
    /\ timer' = [timer EXCEPT ![c] = 0]
    /\ UNCHANGED <<realtime, rate, streamVars, linked, block, slot, sharers, hostVars>>

\* The token of an unlinked URB: the transfer is dropped at an await.
AdcDropped(c) ==
    /\ adc[c] \in Awaits /\ ~linked[c]
    /\ Leaves(c, "idle")
    /\ UNCHANGED <<realtime, rate, streamVars, hostVars>>

\* Whoever removes the URB from `pending` replies: a block produced for an URB
\* that was unlinked is lost, and with it its samples.
AdcClaim(c) ==
    /\ adc[c] = "claim"
    /\ slipped' = (slipped \/ (linked[c] <=> slot[c] = 0))
    /\ got' = IF slipped' THEN << >> ELSE IF linked[c] THEN got \o block[c] ELSE got
    /\ Leaves(c, "idle")
    /\ UNCHANGED <<realtime, rate, streamVars, conn>>

-----------------------------------------------------------------------------
Tick ==
    /\ elapsed' = IF streaming /\ elapsed < MaxElapsed THEN elapsed + 1
                  ELSE elapsed
    /\ timer' = [c \in Conns |-> Positive(timer[c] - 1)]
    /\ UNCHANGED <<realtime, rate, streaming, emitted, dac, delay, overflowed,
                   fed, out, steady, mistimed, gaveUp, adc, waiter, linked, block,
                   slot, sharers, hostVars>>

AdcStep(c) ==
    \/ AdcDue(c) \/ AdcWoken(c) \/ AdcPaced(c) \/ AdcLook(c) \/ AdcGrace(c)
    \/ AdcProduce(c) \/ AdcStopped(c) \/ AdcDropped(c) \/ AdcClaim(c)

Device ==
    \/ StartStream \/ StopStream \/ BootloaderEntry
    \/ \E r \in Rates : SetRate(r)
    \/ \E m \in 1..N : DacBlock(m)

Transport ==
    \/ Reconnect \/ Unlink
    \/ \E c \in Conns : AdcStart(c) \/ AdcEnds(c)

Next == Device \/ Transport \/ Tick \/ \E c \in Conns : AdcStep(c)

\* Time passes and every EP2 IN worker is polled; the host owes nothing.
Fairness == WF_vars(Tick) /\ \A c \in Conns : WF_vars(AdcStep(c))

Spec == Init /\ [][Next]_vars /\ Fairness

-----------------------------------------------------------------------------
(* Properties. *)

TypeOK ==
    /\ realtime \in BOOLEAN /\ rate \in Rates
    /\ streaming \in BOOLEAN
    /\ elapsed \in 0..MaxElapsed /\ emitted \in 0..MaxBlocks
    /\ dac \in Seq(1..MaxFed) /\ delay \in 0..Latency
    /\ overflowed \in BOOLEAN
    /\ conn \in Conns
    /\ adc \in [Conns -> AdcStates]
    /\ waiter \in [Conns -> {"none", "enabled", "notified"}]
    /\ timer \in [Conns -> 0..(MaxElapsed + Grace)]
    /\ linked \in [Conns -> BOOLEAN]
    /\ block \in [Conns -> Seq(0..MaxFed)]
    /\ slot \in [Conns -> 0..MaxBlocks] /\ sharers \in SUBSET Conns
    /\ fed \in 0..MaxFed
    /\ out \in Seq(0..MaxFed) /\ got \in Seq(0..MaxFed)
    /\ steady \in BOOLEAN
    /\ mistimed \in BOOLEAN /\ gaveUp \in BOOLEAN /\ slipped \in BOOLEAN

\* The loopback never reorders or repeats a sample, whatever underruns,
\* overflows and restarts happen and however many workers read: the samples of a
\* stream leave it in the order they were fed to it.
LoopbackInOrder ==
    \A i, j \in 1..Len(out) :
        i < j /\ out[i] # Silence /\ out[j] # Silence => out[i] < out[j]

\* No worker of an earlier connection takes blocks of the stream too.
Alone == \E c \in Conns : sharers \subseteq {c}

\* "Wait (bounded) until the DAC queue covers this block": the host gets back
\* exactly what it fed, delayed by the latency, with no gap and no silence, even
\* though the queue is filled by another task after the block was timed.  Excepted
\* are streams that two workers read, that overflowed, or of which a block ran out
\* of its grace, was timed for an earlier stream, or was lost to an UNLINK.
LoopbackExact ==
    Alone /\ ~mistimed /\ ~gaveUp /\ ~overflowed /\ ~slipped =>
        \A i \in 1..Len(got) : got[i] = Positive(i - Latency)

\* "Paced at the sample rate": blocks timed for their own stream, at an unchanged
\* rate, never run ahead of the clock of the stream; with several workers reading
\* it, not by more than a block for each worker but one.
Paced ==
    realtime /\ streaming /\ steady /\ ~mistimed /\ emitted > 0 =>
        (emitted + 1 - Cardinality(sharers)) * BlockTicks(rate) <= elapsed

\* A streaming host gets its ADC block: pacing, the grace and the wakeups of other
\* tasks never leave a transfer hanging.
AdcAnswered ==
    \A c \in Conns : streaming /\ adc[c] \in Reading ~> ~streaming \/ adc[c] \notin Reading
=============================================================================
