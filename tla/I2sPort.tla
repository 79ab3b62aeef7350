------------------------------- MODULE I2sPort -------------------------------
(***************************************************************************)
(* The front-panel I2S port of the analyzer persona: registers 0x0A and 0x0B *)
(* switch it and choose its frame width, EP3 OUT takes blocks of samples at   *)
(* the I2S rate (vqa40x-core/src/analyzer.rs), and the traffic recorder       *)
(* writes how many frames each block held (vqa40x-usbip/src/record.rs).       *)
(*                                                                         *)
(* Every connection has workers of its own for EP1 OUT and EP3 OUT           *)
(* (vqa40x-usbip/src/lib.rs), and all of them run side by side: those of a    *)
(* connection that ends inside an OUT payload are not cancelled, and go on     *)
(* with their queues beside the workers of the next.  The device reads the     *)
(* width when a block starts; the recorder keeps a width of its own, one per  *)
(* connection, set when a width write completes and read when a block does.  *)
(* A URB that is unlinked while its transfer runs takes effect on the device, *)
(* but it is neither recorded nor answered.                                 *)
(*                                                                         *)
(* A tick is the time one frame takes.  Data are counted in units of four     *)
(* bytes.  Time stops when every frame the bounds allow is due.              *)
(***************************************************************************)
EXTENDS Integers, Sequences, SequencesExt

CONSTANTS
    BlockUnits, \* sizes of the blocks the host sends
    MaxBlocks,  \* bound: blocks sent
    MaxWrites,  \* bound: register writes sent
    MaxConns    \* bound: connections, one after the other

Positive(x) == IF x > 0 THEN x ELSE 0
Largest(S) == CHOOSE x \in S : \A y \in S : y <= x
MaxAge == MaxBlocks * Largest(BlockUnits)

ASSUME ConstantsAssumption ==
    /\ BlockUnits \subseteq Nat \ {0} /\ BlockUnits # {} /\ MaxAge \in Nat
    /\ MaxBlocks \in Nat /\ MaxWrites \in Nat /\ MaxConns \in Nat \ {0}

\* The connections, each with a worker of EP1 OUT and one of EP3 OUT.
Conns == 1..MaxConns

VARIABLES
    realtime,   \* opts.realtime
    running,    \* st.i2s.is_some()
    age,        \* ticks since run.started
    consumed,   \* run.consumed
    width,      \* st.i2s_width
    conn,       \* the connection in use
    recWidth,   \* ConnRecorder.i2s_frame_bytes of each connection, in units
    writes,     \* jobs of its EP1 OUT worker, the current one first
    ep1,        \* where that worker stands
    blocks,     \* jobs of its EP3 OUT worker, the current one first
    ep3,        \* where that worker stands
    timer,      \* ticks left of its sleep
    frames,     \* frames of its block, as the device counted them
    charged,    \* history: its block counts for the current run
    setter,     \* history: the connection whose width the device has; 0 when the
                \*   write was unlinked, or none was made
    sent,       \* history: blocks and writes sent
    accepted,   \* history: frames of the current run's completed blocks
    line        \* history: the last i2s_data line

deviceVars == <<running, age, consumed, width>>
ep1Vars    == <<writes, ep1, recWidth, setter>>
ep3Vars    == <<blocks, ep3, timer, frames, charged, accepted, line>>
vars == <<realtime, deviceVars, ep1Vars, ep3Vars, conn, sent>>

Controls == {[reg |-> "I2S_CTRL", val |-> v] : v \in {0, 1}}
Widths   == {[reg |-> "I2S_WIDTH", val |-> v] : v \in {0, 64}}

\* Mutant of UnitsPerFrame: the bytes of a frame, in no unit.
UnitsPerFrameRaw(v) == IF v = 64 THEN 8 ELSE 4

\* Bit 6 set: 32-bit samples, eight bytes a frame.
UnitsPerFrame(v) == IF v = 64 THEN 2 ELSE 1

NoLine == [frames |-> 0, logged |-> 0, sure |-> FALSE]

Init ==
    /\ realtime \in BOOLEAN
    /\ running = FALSE /\ age = 0 /\ consumed = 0 /\ width = 64
    /\ conn = 1 /\ recWidth = [c \in Conns |-> 2] /\ setter = 0
    /\ writes = [c \in Conns |-> << >>] /\ ep1 = [c \in Conns |-> "idle"]
    /\ blocks = [c \in Conns |-> << >>] /\ ep3 = [c \in Conns |-> "idle"]
    /\ timer = [c \in Conns |-> 0] /\ frames = [c \in Conns |-> 0]
    /\ charged = [c \in Conns |-> FALSE]
    /\ sent = [blocks |-> 0, writes |-> 0] /\ accepted = 0 /\ line = NoLine

Tick ==
    /\ (running /\ age < MaxAge) \/ \E c \in Conns : timer[c] > 0
    /\ age' = IF running THEN age + 1 ELSE age
    /\ timer' = [c \in Conns |-> Positive(timer[c] - 1)]
    /\ UNCHANGED <<realtime, running, consumed, width, ep1Vars, blocks, ep3, frames, charged,
                   accepted, line, conn, sent>>

-----------------------------------------------------------------------------
(* The host, on the connection in use: urb_phase. *)

WritingWidth == \E c \in Conns : \E i \in DOMAIN writes[c] : writes[c][i] \in Widths

\* A block is sure of its width if the width the device has was set, and logged, by
\* its own connection, and no width write of any connection is under way with it.
SubmitBlock(n) ==
    /\ sent.blocks < MaxBlocks
    /\ LET block == [units |-> n, sure |-> setter = conn /\ ~WritingWidth]
       IN blocks' = [blocks EXCEPT ![conn] = Append(@, block)]
    /\ sent' = [sent EXCEPT !.blocks = @ + 1]
    /\ UNCHANGED <<realtime, deviceVars, ep1Vars, ep3, timer, frames, charged, accepted, line, conn>>

Unsure(queue) == [i \in DOMAIN queue |-> [queue[i] EXCEPT !.sure = FALSE]]

SubmitWrite(w) ==
    /\ sent.writes < MaxWrites
    /\ writes' = [writes EXCEPT ![conn] = Append(@, w)]
    /\ blocks' = IF w \in Widths THEN [c \in Conns |-> Unsure(blocks[c])] ELSE blocks
    /\ sent' = [sent EXCEPT !.writes = @ + 1]
    /\ UNCHANGED <<realtime, deviceVars, ep1, recWidth, setter, ep3, timer, frames, charged,
                   accepted, line, conn>>

\* UNLINK of a job that its worker has not taken.
UnlinkQueuedWrite(i) ==
    /\ i \in DOMAIN writes[conn] /\ (i > 1 \/ ep1[conn] = "idle")
    /\ writes' = [writes EXCEPT ![conn] = RemoveAt(@, i)]
    /\ UNCHANGED <<realtime, deviceVars, ep1, recWidth, setter, ep3Vars, conn, sent>>

\* UNLINK of a write in hand: before its transfer, which may run all the same, or
\* between the transfer and the claim.
UnlinkWrite ==
    /\ writes[conn] # << >> /\ ep1[conn] \in {"idle", "record"}
    /\ ep1' = [ep1 EXCEPT ![conn] = IF @ = "idle" THEN "unlinked" ELSE "forget"]
    /\ setter' = IF ep1[conn] = "record" /\ Head(writes[conn]) \in Widths /\ setter = conn
                 THEN 0 ELSE setter
    /\ UNCHANGED <<realtime, deviceVars, writes, recWidth, ep3Vars, conn, sent>>

\* The worker of connection c is done with its block, or has yet to start one.
NoBlock(c) ==
    /\ timer' = [timer EXCEPT ![c] = 0] /\ frames' = [frames EXCEPT ![c] = 0]
    /\ charged' = [charged EXCEPT ![c] = FALSE]

UnlinkQueuedBlock(i) ==
    /\ i \in DOMAIN blocks[conn] /\ (i > 1 \/ ep3[conn] = "idle")
    /\ blocks' = [blocks EXCEPT ![conn] = RemoveAt(@, i)]
    /\ UNCHANGED <<realtime, deviceVars, ep1Vars, ep3, timer, frames, charged, accepted, line,
                   conn, sent>>

\* UNLINK of the block in hand, asleep or not started: what the run was charged for
\* it stays charged.
UnlinkBlock ==
    /\ blocks[conn] # << >> /\ ep3[conn] \in {"idle", "sleep"}
    /\ ep3' = [ep3 EXCEPT ![conn] = IF @ = "idle" THEN "unlinked" ELSE "forget"]
    /\ NoBlock(conn)
    /\ UNCHANGED <<realtime, deviceVars, ep1Vars, blocks, accepted, line, conn, sent>>

\* The connection ends and another begins: the workers are cancelled between two
\* writes, or in a block, before the next connection is served.
Reconnect ==
    /\ conn < MaxConns /\ ep1[conn] \in {"idle", "unlinked"}
    /\ conn' = conn + 1
    /\ writes' = [writes EXCEPT ![conn] = << >>] /\ ep1' = [ep1 EXCEPT ![conn] = "idle"]
    /\ blocks' = [blocks EXCEPT ![conn] = << >>] /\ ep3' = [ep3 EXCEPT ![conn] = "idle"]
    /\ NoBlock(conn)
    /\ UNCHANGED <<realtime, deviceVars, recWidth, setter, accepted, line, sent>>

\* It ends inside an OUT payload: nothing is cancelled.
Vanish ==
    /\ conn < MaxConns
    /\ conn' = conn + 1
    /\ UNCHANGED <<realtime, deviceVars, ep1Vars, ep3Vars, sent>>

-----------------------------------------------------------------------------
(* EP1 OUT: write_value, then the claim and ConnRecorder::out. *)

\* A write has taken effect; one that was unlinked will not be recorded.
Applied(c) == ep1' = [ep1 EXCEPT ![c] = IF @ = "idle" THEN "record" ELSE "forget"]

\* Starting a running port, or stopping a stopped one, changes nothing; a new
\* run counts from zero.  A sleeping block keeps the due time it was given.
WriteControl(c) ==
    /\ ep1[c] \in {"idle", "unlinked"} /\ writes[c] # << >> /\ Head(writes[c]) \in Controls
    /\ running' = (Head(writes[c]).val = 1)
    /\ IF running' = running THEN UNCHANGED <<age, consumed, charged, accepted>>
       ELSE /\ age' = 0 /\ consumed' = 0 /\ accepted' = 0
            /\ charged' = [d \in Conns |-> FALSE]
    /\ Applied(c)
    /\ UNCHANGED <<realtime, width, writes, recWidth, setter, blocks, ep3, timer, frames, line,
                   conn, sent>>

WriteWidth(c) ==
    /\ ep1[c] \in {"idle", "unlinked"} /\ writes[c] # << >> /\ Head(writes[c]) \in Widths
    /\ width' = Head(writes[c]).val
    /\ setter' = IF ep1[c] = "idle" THEN c ELSE 0
    /\ Applied(c)
    /\ UNCHANGED <<realtime, running, age, consumed, writes, recWidth, ep3Vars, conn, sent>>

\* The worker goes on to its next write.
NextWrite(c) ==
    /\ writes' = [writes EXCEPT ![c] = Tail(@)] /\ ep1' = [ep1 EXCEPT ![c] = "idle"]
    /\ UNCHANGED <<realtime, deviceVars, setter, ep3Vars, conn, sent>>

\* Mutant of RecordWrite: only a narrower width is noted.
RecordWriteOnce(c) ==
    /\ ep1[c] = "record"
    /\ recWidth' = IF Head(writes[c]) \in Widths /\ UnitsPerFrame(Head(writes[c]).val) < recWidth[c]
                   THEN [recWidth EXCEPT ![c] = UnitsPerFrame(Head(writes[c]).val)]
                   ELSE recWidth
    /\ NextWrite(c)

RecordWrite(c) ==
    /\ ep1[c] = "record"
    /\ recWidth' = IF Head(writes[c]) \in Widths
                   THEN [recWidth EXCEPT ![c] = UnitsPerFrame(Head(writes[c]).val)]
                   ELSE recWidth
    /\ NextWrite(c)

\* The token of an unlinked write, or the claim that fails.
ForgetWrite(c) ==
    /\ ep1[c] \in {"unlinked", "forget"}
    /\ UNCHANGED recWidth
    /\ NextWrite(c)

-----------------------------------------------------------------------------
(* EP3 OUT: out_transfer, then the claim and ConnRecorder::out. *)

\* Mutant of DueIn: a block is due when its first frame is.
DueInEarly(n) == Positive(consumed - age)

\* Ticks until the run has played the n frames of the next block too.
DueIn(n) == Positive(consumed + n - age)

\* Under the mutex: charge the run for the block and compute when it is due.  A
\* block that arrives while the port is off is taken at once.  One that was unlinked
\* may be charged, and is dropped at the await.
StartBlock(c) ==
    /\ ep3[c] \in {"idle", "unlinked"} /\ blocks[c] # << >>
    /\ LET n == Head(blocks[c]).units \div UnitsPerFrame(width)
           due == IF running /\ realtime THEN DueIn(n) ELSE 0
       IN  /\ consumed' = IF running THEN consumed + n ELSE consumed
           /\ IF ep3[c] = "idle"
              THEN /\ ep3' = [ep3 EXCEPT ![c] = "sleep"]
                   /\ frames' = [frames EXCEPT ![c] = n] /\ timer' = [timer EXCEPT ![c] = due]
                   /\ charged' = [charged EXCEPT ![c] = running]
              ELSE ep3' = [ep3 EXCEPT ![c] = "forget"] /\ UNCHANGED <<frames, timer, charged>>
    /\ UNCHANGED <<realtime, running, age, width, ep1Vars, blocks, accepted, line, conn, sent>>

NextBlock(c) ==
    /\ blocks' = [blocks EXCEPT ![c] = Tail(@)] /\ ep3' = [ep3 EXCEPT ![c] = "idle"]
    /\ NoBlock(c)
    /\ UNCHANGED <<realtime, deviceVars, ep1Vars, conn, sent>>

\* The block is due: its line is written and its URB answered.
CompleteBlock(c) ==
    /\ ep3[c] = "sleep" /\ timer[c] = 0
    /\ line' = [frames |-> frames[c], logged |-> Head(blocks[c]).units \div recWidth[c],
                sure |-> Head(blocks[c]).sure]
    /\ accepted' = IF charged[c] THEN accepted + frames[c] ELSE accepted
    /\ NextBlock(c)

DropBlock(c) ==
    /\ ep3[c] \in {"unlinked", "forget"}
    /\ NextBlock(c)
    /\ UNCHANGED <<accepted, line>>

-----------------------------------------------------------------------------
Host ==
    \/ \E n \in BlockUnits : SubmitBlock(n)
    \/ \E w \in Controls \cup Widths : SubmitWrite(w)
    \/ \E i \in 1..MaxWrites : UnlinkQueuedWrite(i)
    \/ \E i \in 1..MaxBlocks : UnlinkQueuedBlock(i)
    \/ UnlinkWrite \/ UnlinkBlock \/ Reconnect \/ Vanish

RegisterWorker(c) == WriteControl(c) \/ WriteWidth(c) \/ RecordWrite(c) \/ ForgetWrite(c)
BlockWorker(c)    == StartBlock(c) \/ CompleteBlock(c) \/ DropBlock(c)

Next == Tick \/ Host \/ \E c \in Conns : RegisterWorker(c) \/ BlockWorker(c)

Spec == Init /\ [][Next]_vars

-----------------------------------------------------------------------------
(* Properties. *)

TypeOK ==
    /\ realtime \in BOOLEAN /\ running \in BOOLEAN
    /\ age \in Nat /\ consumed \in Nat /\ width \in {0, 64}
    /\ conn \in Conns /\ setter \in {0} \cup Conns
    /\ recWidth \in [Conns -> {1, 2}]
    /\ writes \in [Conns -> Seq(Controls \cup Widths)]
    /\ ep1 \in [Conns -> {"idle", "unlinked", "record", "forget"}]
    /\ blocks \in [Conns -> Seq([units : BlockUnits, sure : BOOLEAN])]
    /\ ep3 \in [Conns -> {"idle", "unlinked", "sleep", "forget"}]
    /\ timer \in [Conns -> Nat] /\ frames \in [Conns -> Nat] /\ charged \in [Conns -> BOOLEAN]
    /\ \A c \in Conns : /\ ep3[c] # "idle" => blocks[c] # << >>
                        /\ ep1[c] # "idle" => writes[c] # << >>
    /\ sent \in [{"blocks", "writes"} -> Nat] /\ accepted \in Nat
    /\ line \in [frames : Nat, logged : Nat, sure : BOOLEAN]

\* "The device accepts blocks at the I2S rate", which is the host's flow control:
\* whatever is unlinked, resized or cut off by a new connection, and however many
\* workers of older connections go on beside it, the frames a run has accepted never
\* exceed the time it has run.
I2sPaced == realtime => accepted <= age

\* "Remember it so EP3 blocks get a correct frame count": the line of a block
\* shows the frames the device counted.  Sure of it are the blocks of a connection
\* that wrote the device's width last, did not unlink that write before it was
\* logged, and had no width write, of any connection, under way with the block.
FramesLogged == line.sure => line.logged = line.frames
=============================================================================
