---------------------------- MODULE RegisterPort -----------------------------
(***************************************************************************)
(* What the register bus promises: frames take effect one at a time, in one  *)
(* order; a read is answered with what the writes before it say, and answers  *)
(* leave in the order of their reads.  Nothing is kept but the frames        *)
(* executed: every value is told from them, so the specification says what   *)
(* a register means without the state the code keeps for it.                *)
(***************************************************************************)
EXTENDS Integers, Sequences, FiniteSets

CONSTANTS MaxRate, PageSize, Word, Served, Unmapped, Magic1, Magic2

VARIABLES
    hist,   \* frames executed, and the moments at which a stop grew old
    box,    \* answers not yet taken
    fired   \* the unit was told to reboot

R == INSTANCE RegisterFile

Settle == [op |-> "settle", reg |-> "STREAM_CTRL", val |-> 0]

-----------------------------------------------------------------------------
(* What a history says.  Places are 1..Len(h), and 0 is before them all. *)

Latest(places) == IF places = {} THEN 0 ELSE CHOOSE i \in places : \A j \in places : j <= i

WritesTo(h, r) == {i \in 1..Len(h) : h[i].op = "write" /\ h[i].reg = r}

\* The last value written to r, if any.
Written(h, r, default) ==
    LET i == Latest(WritesTo(h, r)) IN IF i = 0 THEN default ELSE h[i].val

\* The write at place i is the second magic, right after the first.
UnlockedAt(h, i) ==
    /\ i \in WritesTo(h, "BOOTLOADER_ENTRY") /\ h[i].val = Magic2
    /\ LET j == Latest({k \in WritesTo(h, "BOOTLOADER_ENTRY") : k < i})
       IN j # 0 /\ h[j].val = Magic1

Unlocks(h) == {i \in 1..Len(h) : UnlockedAt(h, i)}

Stops(h)  == {i \in WritesTo(h, "STREAM_CTRL") : h[i].val = 0}
Starts(h) == {i \in WritesTo(h, "STREAM_CTRL") : h[i].val = 5}

Streaming(h) == Latest(Starts(h)) > Latest(Stops(h) \cup Unlocks(h))

\* The last value that means something to I2S_CTRL is 1.
I2sOn(h) ==
    LET i == Latest({k \in WritesTo(h, "I2S_CTRL") : h[k].val \in {0, 1}})
    IN i # 0 /\ h[i].val = 1

JustStopped(h) == Latest(Stops(h)) > Latest({i \in 1..Len(h) : h[i].op = "settle"})

\* Words read off the selected page, the trace reads among them.
WordsRead(h) ==
    Cardinality({i \in 1..Len(h) :
        /\ i > Latest(WritesTo(h, "PAGE_SELECT"))
        /\ h[i].op = "read" /\ h[i].reg \in {"CALIBRATION", "TRACE_READ"}})

Answer(h, r) ==
    CASE r \in Unmapped \cup {"LINK_KEEPALIVE"} -> Written(h, r, 0)
      [] r = "I2S_WIDTH"      -> Written(h, r, 64)
      [] r \in DOMAIN Served  -> Served[r]
      [] r = "INPUT_GAIN"     -> Written(h, r, 7) % 8
      [] r = "OUTPUT_GAIN"    -> Written(h, r, 0) % 4
      [] r = "SAMPLE_RATE"    -> LET v == Written(h, r, 0) IN IF v <= MaxRate THEN v ELSE MaxRate
      [] r = "STREAM_CTRL"    -> IF Streaming(h) THEN 5 ELSE 0
      [] r = "I2S_CTRL"       -> IF I2sOn(h) THEN 1 ELSE 0
      [] r = "STREAM_STATUS"  -> IF JustStopped(h) THEN R!StopStatus ELSE 0
      [] r = "CALIBRATION"    -> IF Written(h, "PAGE_SELECT", R!FactoryPage) = R!FactoryPage
                                 THEN Word[WordsRead(h) % PageSize] ELSE 0
      [] OTHER                -> 0

-----------------------------------------------------------------------------
Init == hist = << >> /\ box = << >> /\ fired = 0

ExecuteRead(f) ==
    /\ hist' = Append(hist, f)
    /\ box' = Append(box, Answer(hist, f.reg))
    /\ fired' = fired

\* The reboot is asked for once, by the first unlock.
ExecuteWrite(f) ==
    /\ hist' = Append(hist, f)
    /\ fired' = IF UnlockedAt(hist', Len(hist')) /\ fired = 0 THEN 1 ELSE fired
    /\ box' = box

GrowOld == hist' = Append(hist, Settle) /\ UNCHANGED <<box, fired>>

Take == box # << >> /\ box' = Tail(box) /\ UNCHANGED <<hist, fired>>

\* Any frame may run next: the one that did is the last of hist'.
Next ==
    \/ /\ Len(hist') = Len(hist) + 1
       /\ LET f == hist'[Len(hist')]
          IN  \/ f.op = "read" /\ ExecuteRead(f)
              \/ f.op = "write" /\ ExecuteWrite(f)
              \/ GrowOld
    \/ Take

Spec == Init /\ [][Next]_<<hist, box, fired>>
=============================================================================
