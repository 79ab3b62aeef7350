---------------------------- MODULE I2sPortProofs ----------------------------
(***************************************************************************)
(* What TLAPS proves of module I2sPort, for any block sizes and any number   *)
(* of blocks, register writes and connections: type correctness, the pacing  *)
(* of the port, and the frame counts of the traffic log.                   *)
(*                                                                         *)
(* I2sPaced speaks of finished blocks.  It is kept because the run has been   *)
(* charged for every one of them, so that the frames of the blocks asleep     *)
(* that fall due by any time t fit, with those accepted, into t.  The frames   *)
(* asleep are counted as a set of pairs, since workers of several connections *)
(* may sleep at once.  FramesLogged is kept because the recorder of the       *)
(* connection that set the width can differ from the device only while its    *)
(* write waits to be recorded, when no block is sure of its width.          *)
(***************************************************************************)
EXTENDS I2sPort, SequenceTheorems, FiniteSetTheorems, TLAPS

Blocks == [units : BlockUnits, sure : BOOLEAN]
Writes == Controls \cup Widths

\* The frames of the charged blocks that sleep, and those that fall due by time t.
Load == {p \in Conns \X Nat : charged[p[1]] /\ p[2] \in 1..frames[p[1]]}
LoadBy(t) == {p \in Load : age + timer[p[1]] <= t}

\* Frames the device has counted, finished or not, are covered by the charge; a
\* block under way sleeps until the clock has caught up with it.
PaceInv ==
    /\ \A c \in Conns : charged[c] => ep3[c] = "sleep" /\ running
    /\ IsFiniteSet(Load)
    /\ realtime =>
         /\ accepted + Cardinality(Load) <= consumed
         /\ \A t \in Nat : t >= age => accepted + Cardinality(LoadBy(t)) <= t

\* The write of a width whose connection has yet to record it.
Unrecorded(c) == ep1[c] = "record" /\ Head(writes[c]) \in Widths

\* The recorder of the connection that set the device's width knows it, or is about
\* to; and a block that is sure was sent when it did.
WidthInv ==
    /\ \A c \in Conns : setter = c =>
           /\ Unrecorded(c) => width = Head(writes[c]).val
           /\ ~Unrecorded(c) => recWidth[c] = UnitsPerFrame(width)
    /\ \A c \in Conns : \A i \in DOMAIN blocks[c] :
           blocks[c][i].sure => setter = c /\ ~WritingWidth

\* So a sure block under way was counted by the width the recorder has.
CountInv ==
    \A c \in Conns :
        ep3[c] = "sleep" /\ blocks[c][1].sure => frames[c] = blocks[c][1].units \div recWidth[c]

IInv == TypeOK /\ PaceInv /\ WidthInv /\ CountInv /\ FramesLogged

-----------------------------------------------------------------------------
(* Frames and their sizes. *)

\* A division by the units of a frame is a natural number.
LEMMA FramesType ==
  ASSUME NEW n \in BlockUnits, NEW w \in {1, 2}
  PROVE  n \div w \in Nat
  BY ConstantsAssumption DEF ConstantsAssumption

\* The units of a frame.
LEMMA UnitsPerFrameType == \A v : UnitsPerFrame(v) \in {1, 2}
  BY DEF UnitsPerFrame

\* Counting one thing sent.
LEMMA SentType ==
  ASSUME NEW s \in [{"blocks", "writes"} -> Nat], NEW k \in {"blocks", "writes"}
  PROVE  [s EXCEPT ![k] = @ + 1] \in [{"blocks", "writes"} -> Nat]
  <1>1. \A j \in {"blocks", "writes"} : [s EXCEPT ![k] = @ + 1][j] \in Nat
    OBVIOUS
  <1> QED BY <1>1

\* Register writes, by kind.
LEMMA WriteKinds ==
  /\ \A w \in Widths : w.val \in {0, 64} /\ w \notin Controls
  /\ \A w \in Controls : w.val \in {0, 1} /\ w \notin Widths
  BY DEF Widths, Controls

\* What is left of a queue, and the first job when it is taken off.
LEMMA QueueTail ==
  ASSUME NEW S, NEW s \in Seq(S), s # << >>
  PROVE  /\ Head(s) \in S /\ Head(s) = s[1] /\ Tail(s) \in Seq(S) /\ 1 \in DOMAIN s
         /\ \A i \in DOMAIN Tail(s) : \E j \in DOMAIN s : Tail(s)[i] = s[j]
  <1>1. /\ Head(s) \in S /\ Tail(s) \in Seq(S) /\ Len(Tail(s)) = Len(s) - 1
        /\ \A i \in 1..Len(Tail(s)) : Tail(s)[i] = s[i + 1]
    BY HeadTailProperties
  <1>2. Len(s) \in Nat \ {0} /\ DOMAIN s = 1..Len(s)
    BY EmptySeq, LenProperties
  <1>3. DOMAIN Tail(s) = 1..Len(Tail(s))
    BY <1>1, LenProperties
  <1>4. ASSUME NEW i \in 1..Len(Tail(s))
        PROVE  i + 1 \in 1..Len(s) /\ Tail(s)[i] = s[i + 1]
    BY <1>1, <1>2
  <1>5. 1 \in DOMAIN s /\ Head(s) = s[1]
    BY <1>2
  <1> QED BY <1>1, <1>2, <1>3, <1>4, <1>5

\* One job more leaves the others where they were.
LEMMA QueueAppended ==
  ASSUME NEW S, NEW s \in Seq(S), NEW x \in S
  PROVE  /\ Append(s, x) \in Seq(S) /\ Append(s, x) # << >>
         /\ s # << >> => Append(s, x)[1] = s[1]
         /\ \A i \in DOMAIN Append(s, x) :
               \/ Append(s, x)[i] = x
               \/ \E j \in DOMAIN s : Append(s, x)[i] = s[j]
         /\ \E i \in DOMAIN Append(s, x) : Append(s, x)[i] = x
  <1>1. /\ Append(s, x) \in Seq(S) /\ Append(s, x) # << >>
        /\ Len(Append(s, x)) = Len(s) + 1
        /\ \A i \in 1..Len(s) : Append(s, x)[i] = s[i]
        /\ Append(s, x)[Len(s) + 1] = x
    BY AppendProperties
  <1>2. Len(s) \in Nat /\ DOMAIN s = 1..Len(s) /\ DOMAIN Append(s, x) = 1..(Len(s) + 1)
    <2>1. Len(s) \in Nat /\ DOMAIN s = 1..Len(s)
      BY LenProperties
    <2>2. DOMAIN Append(s, x) = 1..Len(Append(s, x))
      BY <1>1, LenProperties
    <2> QED BY <1>1, <2>1, <2>2
  <1>3. s # << >> => 1 \in 1..Len(s)
    BY <1>2, EmptySeq
  <1>4. ASSUME NEW i \in 1..(Len(s) + 1)
        PROVE  i = Len(s) + 1 \/ i \in 1..Len(s)
    BY <1>2
  <1>5. Len(s) + 1 \in 1..(Len(s) + 1)
    BY <1>2
  <1> QED BY <1>1, <1>2, <1>3, <1>4, <1>5

\* Taking a job out leaves jobs of the queue, and the first where it was unless it
\* is the one.
LEMMA QueueRemoved ==
  ASSUME NEW S, NEW s \in Seq(S), NEW k \in DOMAIN s
  PROVE  /\ RemoveAt(s, k) \in Seq(S)
         /\ \A i \in DOMAIN RemoveAt(s, k) : \E j \in DOMAIN s : RemoveAt(s, k)[i] = s[j]
         /\ k # 1 => RemoveAt(s, k) # << >> /\ RemoveAt(s, k)[1] = s[1]
  <1> DEFINE n == Len(s)
             p == SubSeq(s, 1, k - 1)
             q == SubSeq(s, k + 1, n)
  <1>1. n \in Nat /\ DOMAIN s = 1..n /\ k \in 1..n /\ \A i \in 1..n : s[i] \in S
    <2>1. n \in Nat /\ DOMAIN s = 1..n
      BY LenProperties
    <2> QED BY <2>1, ElementOfSeq
  <1>2. /\ p \in Seq(S) /\ Len(p) = k - 1
        /\ \A i \in 1..(k - 1) : p[i] = s[i]
    <2>1. \A i \in 1..(k - 1) : s[i] \in S
      BY <1>1
    <2>2. 1 \in Int /\ k - 1 \in Int
      BY <1>1
    <2>3. /\ p \in Seq(S) /\ Len(p) = IF 1 <= k - 1 THEN (k - 1) - 1 + 1 ELSE 0
          /\ \A i \in 1..((k - 1) - 1 + 1) : p[i] = s[1 + i - 1]
      BY <2>1, <2>2, SubSeqProperties
    <2> QED BY <2>3, <1>1
  <1>3. /\ q \in Seq(S) /\ Len(q) = n - k
        /\ \A i \in 1..(n - k) : q[i] = s[k + i]
    <2>1. \A i \in (k + 1)..n : s[i] \in S
      BY <1>1
    <2>2. k + 1 \in Int /\ n \in Int
      BY <1>1
    <2>3. /\ q \in Seq(S) /\ Len(q) = IF k + 1 <= n THEN n - (k + 1) + 1 ELSE 0
          /\ \A i \in 1..(n - (k + 1) + 1) : q[i] = s[k + 1 + i - 1]
      BY <2>1, <2>2, SubSeqProperties
    <2> QED BY <2>3, <1>1
  <1> HIDE DEF p, q
  <1>4. RemoveAt(s, k) = p \o q
    BY DEF RemoveAt, p, q
  <1>5. /\ p \o q \in Seq(S) /\ Len(p \o q) = Len(p) + Len(q)
        /\ \A i \in 1..(Len(p) + Len(q)) :
              (p \o q)[i] = IF i <= Len(p) THEN p[i] ELSE q[i - Len(p)]
    BY <1>2, <1>3, ConcatProperties
  <1>6. DOMAIN (p \o q) = 1..(n - 1) /\ Len(p \o q) = n - 1
    <2>1. DOMAIN (p \o q) = 1..Len(p \o q)
      BY <1>5, LenProperties
    <2>2. Len(p \o q) = (k - 1) + (n - k)
      BY <1>2, <1>3, <1>5
    <2> QED BY <1>1, <2>1, <2>2
  <1>7. ASSUME NEW i \in 1..(n - 1)
        PROVE  (p \o q)[i] = IF i <= k - 1 THEN s[i] ELSE s[i + 1]
    <2>1. CASE i <= k - 1
      BY <2>1, <1>1, <1>2, <1>3, <1>5
    <2> HIDE DEF n
    <2>2. CASE ~(i <= k - 1)
      <3>1. i - (k - 1) \in 1..(n - k) /\ k + (i - (k - 1)) = i + 1
        BY <2>2, <1>1
      <3>2. i \in 1..(Len(p) + Len(q)) /\ ~(i <= Len(p))
        BY <2>2, <1>1, <1>2, <1>3
      <3>3. (p \o q)[i] = q[i - (k - 1)]
        BY <3>2, <1>2, <1>5
      <3>4. q[i - (k - 1)] = s[k + (i - (k - 1))]
        BY <3>1, <1>3
      <3> QED BY <3>1, <3>3, <3>4, <2>2
    <2> QED BY <2>1, <2>2
  <1>8. \A i \in 1..(n - 1) : \E j \in DOMAIN s : (p \o q)[i] = s[j]
    <2> SUFFICES ASSUME NEW i \in 1..(n - 1)
                 PROVE  \E j \in DOMAIN s : (p \o q)[i] = s[j]
      OBVIOUS
    <2>1. i \in DOMAIN s /\ i + 1 \in DOMAIN s
      BY <1>1
    <2> QED BY <2>1, <1>7
  <1>9. k # 1 => p \o q # << >> /\ (p \o q)[1] = s[1]
    <2> SUFFICES ASSUME k # 1
                 PROVE  p \o q # << >> /\ (p \o q)[1] = s[1]
      OBVIOUS
    <2>1. 1 \in 1..(n - 1) /\ 1 <= k - 1
      BY <1>1
    <2> QED BY <2>1, <1>6, <1>7, EmptySeq
  <1> QED BY <1>4, <1>5, <1>6, <1>8, <1>9

\* A queue whose blocks are no longer sure.
LEMMA UnsureQueue ==
  ASSUME NEW s \in Seq(Blocks)
  PROVE  /\ Unsure(s) \in Seq(Blocks)
         /\ s # << >> => Unsure(s) # << >>
         /\ \A i \in DOMAIN Unsure(s) : ~Unsure(s)[i].sure
         /\ s # << >> => 1 \in DOMAIN Unsure(s)
  <1> DEFINE n == Len(s)
  <1>1. n \in Nat /\ DOMAIN s = 1..n /\ \A i \in 1..n : s[i] \in Blocks
    <2>1. n \in Nat /\ DOMAIN s = 1..n
      BY LenProperties
    <2> QED BY <2>1, ElementOfSeq
  <1>2. Unsure(s) = [i \in 1..n |-> [s[i] EXCEPT !.sure = FALSE]]
    BY <1>1 DEF Unsure
  <1>3. \A i \in 1..n : /\ [s[i] EXCEPT !.sure = FALSE] \in Blocks
                        /\ [s[i] EXCEPT !.sure = FALSE].sure = FALSE
    BY <1>1 DEF Blocks
  <1>4. s # << >> => n # 0
    BY EmptySeq
  <1> HIDE DEF n
  <1>5. Unsure(s) \in [1..n -> Blocks] /\ DOMAIN Unsure(s) = 1..n
    BY <1>2, <1>3
  <1>6. Unsure(s) \in Seq(Blocks)
    BY <1>1, <1>5, SeqDef
  <1>7. \A i \in 1..n : ~Unsure(s)[i].sure
    BY <1>2, <1>3
  <1>8. s # << >> => 1 \in 1..n
    BY <1>1, <1>4
  <1>9. Unsure(s) = << >> => DOMAIN Unsure(s) = {}
    OBVIOUS
  <1> QED BY <1>5, <1>6, <1>7, <1>8, <1>9

-----------------------------------------------------------------------------
(* The types. *)

\* The queues and the places of the workers.
LEMMA WorkerTypes ==
  ASSUME TypeOK
  PROVE  \A c \in Conns :
            /\ writes[c] \in Seq(Writes) /\ blocks[c] \in Seq(Blocks)
            /\ recWidth[c] \in {1, 2} /\ timer[c] \in Nat /\ frames[c] \in Nat
            /\ charged[c] \in BOOLEAN
            /\ ep3[c] # "idle" => blocks[c] # << >>
            /\ ep1[c] # "idle" => writes[c] # << >>
  <1> SUFFICES ASSUME NEW c \in Conns
               PROVE  /\ writes[c] \in Seq(Writes) /\ blocks[c] \in Seq(Blocks)
                      /\ recWidth[c] \in {1, 2} /\ timer[c] \in Nat /\ frames[c] \in Nat
                      /\ charged[c] \in BOOLEAN
                      /\ ep3[c] # "idle" => blocks[c] # << >>
                      /\ ep1[c] # "idle" => writes[c] # << >>
    OBVIOUS
  <1>1. writes \in [Conns -> Seq(Writes)] /\ blocks \in [Conns -> Seq(Blocks)]
    BY DEF TypeOK, Writes, Blocks
  <1>2. writes[c] \in Seq(Writes) /\ blocks[c] \in Seq(Blocks)
    BY <1>1
  <1>3. /\ recWidth[c] \in {1, 2} /\ timer[c] \in Nat /\ frames[c] \in Nat
        /\ charged[c] \in BOOLEAN
    BY DEF TypeOK
  <1>4. /\ ep3[c] # "idle" => blocks[c] # << >>
        /\ ep1[c] # "idle" => writes[c] # << >>
    BY DEF TypeOK
  <1> QED BY <1>2, <1>3, <1>4

\* What the host sends and unlinks keeps the types.
LEMMA HostTypes == ASSUME TypeOK, Host PROVE TypeOK'
  <1> USE DEF deviceVars, ep1Vars, ep3Vars
  <1>0. conn \in Conns /\ writes[conn] \in Seq(Writes) /\ blocks[conn] \in Seq(Blocks)
    BY WorkerTypes DEF TypeOK
  <1>1. ASSUME NEW n \in BlockUnits, SubmitBlock(n)
        PROVE  TypeOK'
    <2> DEFINE b == [units |-> n, sure |-> setter = conn /\ ~WritingWidth]
    <2>1. b \in Blocks
      BY DEF Blocks
    <2>2. blocks' = [blocks EXCEPT ![conn] = Append(@, b)]
      BY <1>1 DEF SubmitBlock
    <2> HIDE DEF b
    <2>3. Append(blocks[conn], b) \in Seq(Blocks) /\ Append(blocks[conn], b) # << >>
      BY <1>0, <2>1, QueueAppended
    <2>4. sent' \in [{"blocks", "writes"} -> Nat]
      <3>1. sent' = [sent EXCEPT !["blocks"] = @ + 1]
        BY <1>1 DEF SubmitBlock
      <3> QED BY <3>1, SentType DEF TypeOK
    <2>5. blocks' \in [Conns -> Seq(Blocks)] /\ \A c \in Conns : blocks[c] # << >> => blocks'[c] # << >>
      BY <2>2, <2>3, <1>0 DEF TypeOK, Blocks
    <2> QED BY <1>1, <2>4, <2>5 DEF SubmitBlock, TypeOK, Blocks
  <1>2. ASSUME NEW w \in Writes, SubmitWrite(w)
        PROVE  TypeOK'
    <2>1. Append(writes[conn], w) \in Seq(Writes) /\ Append(writes[conn], w) # << >>
      BY <1>0, QueueAppended
    <2>2. sent' \in [{"blocks", "writes"} -> Nat]
      <3>1. sent' = [sent EXCEPT !["writes"] = @ + 1]
        BY <1>2 DEF SubmitWrite
      <3> QED BY <3>1, SentType DEF TypeOK
    <2>3. /\ writes' \in [Conns -> Seq(Writes)]
          /\ \A c \in Conns : writes[c] # << >> => writes'[c] # << >>
      BY <1>2, <2>1, <1>0 DEF SubmitWrite, TypeOK, Writes
    <2>4. blocks' \in [Conns -> Seq(Blocks)] /\ \A c \in Conns : blocks[c] # << >> => blocks'[c] # << >>
      <3>1. \A c \in Conns : /\ Unsure(blocks[c]) \in Seq(Blocks)
                             /\ blocks[c] # << >> => Unsure(blocks[c]) # << >>
        BY WorkerTypes, UnsureQueue
      <3>2. CASE w \in Widths
        <4>1. blocks' = [c \in Conns |-> Unsure(blocks[c])]
          BY <1>2, <3>2 DEF SubmitWrite
        <4> QED BY <3>1, <4>1
      <3>3. CASE w \notin Widths
        <4>1. blocks' = blocks
          BY <1>2, <3>3 DEF SubmitWrite
        <4>2. blocks \in [Conns -> Seq(Blocks)]
          BY DEF TypeOK, Blocks
        <4> QED BY <4>1, <4>2
      <3> QED BY <3>2, <3>3
    <2>5. /\ \A c \in Conns : /\ ep3'[c] # "idle" => blocks'[c] # << >>
                              /\ ep1'[c] # "idle" => writes'[c] # << >>
      BY <1>2, <2>3, <2>4 DEF SubmitWrite, TypeOK
    <2> QED BY <1>2, <2>2, <2>3, <2>4, <2>5 DEF SubmitWrite, TypeOK, Blocks, Writes
  <1>3. ASSUME NEW i \in 1..MaxWrites, UnlinkQueuedWrite(i)
        PROVE  TypeOK'
    <2>1. /\ RemoveAt(writes[conn], i) \in Seq(Writes)
          /\ i # 1 => RemoveAt(writes[conn], i) # << >>
      BY <1>0, <1>3, QueueRemoved DEF UnlinkQueuedWrite
    <2>2. i > 1 => i # 1
      OBVIOUS
    <2>3. writes' \in [Conns -> Seq(Writes)]
      BY <1>0, <1>3, <2>1 DEF UnlinkQueuedWrite, TypeOK, Writes
    <2>4. \A c \in Conns : ep1'[c] # "idle" => writes'[c] # << >>
      BY <1>0, <1>3, <2>1, <2>2 DEF UnlinkQueuedWrite, TypeOK
    <2> QED BY <1>3, <2>3, <2>4 DEF UnlinkQueuedWrite, TypeOK, Writes
  <1>4. ASSUME NEW i \in 1..MaxBlocks, UnlinkQueuedBlock(i)
        PROVE  TypeOK'
    <2>1. /\ RemoveAt(blocks[conn], i) \in Seq(Blocks)
          /\ i # 1 => RemoveAt(blocks[conn], i) # << >>
      BY <1>0, <1>4, QueueRemoved DEF UnlinkQueuedBlock
    <2>2. i > 1 => i # 1
      OBVIOUS
    <2>3. blocks' \in [Conns -> Seq(Blocks)]
      BY <1>0, <1>4, <2>1 DEF UnlinkQueuedBlock, TypeOK, Blocks
    <2>4. \A c \in Conns : ep3'[c] # "idle" => blocks'[c] # << >>
      BY <1>0, <1>4, <2>1, <2>2 DEF UnlinkQueuedBlock, TypeOK
    <2> QED BY <1>4, <2>3, <2>4 DEF UnlinkQueuedBlock, TypeOK, Blocks
  <1>5. CASE UnlinkWrite
    <2>1. ep1' \in [Conns -> {"idle", "unlinked", "record", "forget"}] /\ setter' \in {0} \cup Conns
      BY <1>5 DEF UnlinkWrite, TypeOK
    <2>2. \A c \in Conns : ep1'[c] # "idle" => writes[c] # << >>
      BY <1>5 DEF UnlinkWrite, TypeOK
    <2> QED BY <1>5, <2>1, <2>2 DEF UnlinkWrite, TypeOK
  <1>6. CASE UnlinkBlock
    <2>1. /\ ep3' \in [Conns -> {"idle", "unlinked", "sleep", "forget"}]
          /\ timer' \in [Conns -> Nat] /\ frames' \in [Conns -> Nat] /\ charged' \in [Conns -> BOOLEAN]
      BY <1>6 DEF UnlinkBlock, NoBlock, TypeOK
    <2>2. \A c \in Conns : ep3'[c] # "idle" => blocks[c] # << >>
      BY <1>6 DEF UnlinkBlock, TypeOK
    <2> QED BY <1>6, <2>1, <2>2 DEF UnlinkBlock, TypeOK
  <1>7. CASE Reconnect
    <2>1. << >> \in Seq(Writes) /\ << >> \in Seq(Blocks)
      BY EmptySeq
    <2>2. conn' \in Conns
      BY <1>7, <1>0, ConstantsAssumption DEF Reconnect, ConstantsAssumption, Conns
    <2>3. /\ timer' \in [Conns -> Nat] /\ frames' \in [Conns -> Nat] /\ charged' \in [Conns -> BOOLEAN]
      BY <1>7 DEF Reconnect, NoBlock, TypeOK
    <2>4. /\ writes' \in [Conns -> Seq(Writes)] /\ blocks' \in [Conns -> Seq(Blocks)]
          /\ ep1' \in [Conns -> {"idle", "unlinked", "record", "forget"}]
          /\ ep3' \in [Conns -> {"idle", "unlinked", "sleep", "forget"}]
      BY <1>7, <2>1 DEF Reconnect, TypeOK, Writes, Blocks
    <2>5. \A c \in Conns : /\ ep3'[c] # "idle" => blocks'[c] # << >>
                           /\ ep1'[c] # "idle" => writes'[c] # << >>
      BY <1>7 DEF Reconnect, TypeOK
    <2> QED BY <1>7, <2>2, <2>3, <2>4, <2>5 DEF Reconnect, TypeOK, Writes, Blocks
  <1>8. CASE Vanish
    <2>1. conn' \in Conns
      BY <1>8, <1>0, ConstantsAssumption DEF Vanish, ConstantsAssumption, Conns
    <2> QED BY <1>8, <2>1 DEF Vanish, TypeOK
  <1> QED BY <1>1, <1>2, <1>3, <1>4, <1>5, <1>6, <1>7, <1>8 DEF Host, Writes

\* A worker of EP1 OUT keeps the types.
LEMMA RegisterTypes ==
  ASSUME TypeOK, NEW c \in Conns, RegisterWorker(c)
  PROVE  TypeOK'
  <1> USE DEF deviceVars, ep1Vars, ep3Vars
  <1>1. CASE WriteControl(c)
    <2>1. age' \in Nat /\ consumed' \in Nat /\ accepted' \in Nat /\ charged' \in [Conns -> BOOLEAN]
      <3>1. CASE running' = running
        <4>1. UNCHANGED <<age, consumed, charged, accepted>>
          BY <1>1, <3>1 DEF WriteControl
        <4> QED BY <4>1 DEF TypeOK
      <3>2. CASE running' # running
        <4>1. /\ age' = 0 /\ consumed' = 0 /\ accepted' = 0
              /\ charged' = [d \in Conns |-> FALSE]
          BY <1>1, <3>2 DEF WriteControl
        <4> QED BY <4>1
      <3> QED BY <3>1, <3>2
    <2>2. ep1' \in [Conns -> {"idle", "unlinked", "record", "forget"}] /\ running' \in BOOLEAN
      BY <1>1 DEF WriteControl, Applied, TypeOK
    <2>3. \A d \in Conns : ep1'[d] # "idle" => writes[d] # << >>
      BY <1>1 DEF WriteControl, Applied, TypeOK
    <2> QED BY <1>1, <2>1, <2>2, <2>3 DEF WriteControl, TypeOK
  <1>2. CASE WriteWidth(c)
    <2>1. width' \in {0, 64}
      BY <1>2, WriteKinds DEF WriteWidth
    <2>2. ep1' \in [Conns -> {"idle", "unlinked", "record", "forget"}] /\ setter' \in {0} \cup Conns
      BY <1>2 DEF WriteWidth, Applied, TypeOK
    <2>3. \A d \in Conns : ep1'[d] # "idle" => writes[d] # << >>
      BY <1>2 DEF WriteWidth, Applied, TypeOK
    <2> QED BY <1>2, <2>1, <2>2, <2>3 DEF WriteWidth, TypeOK
  <1>3. CASE RecordWrite(c) \/ ForgetWrite(c)
    <2>1. writes[c] # << >> /\ writes[c] \in Seq(Writes) /\ NextWrite(c)
      BY <1>3, WorkerTypes DEF RecordWrite, ForgetWrite, TypeOK
    <2>2. Tail(writes[c]) \in Seq(Writes)
      BY <2>1, QueueTail
    <2>3. writes' \in [Conns -> Seq(Writes)] /\ \A d \in Conns : ep1'[d] # "idle" => writes'[d] # << >>
      BY <2>1, <2>2 DEF NextWrite, TypeOK, Writes
    <2>4. recWidth' \in [Conns -> {1, 2}]
      <3> DEFINE v == UnitsPerFrame(Head(writes[c]).val)
      <3>1. recWidth' = recWidth \/ recWidth' = [recWidth EXCEPT ![c] = v]
        BY <1>3 DEF RecordWrite, ForgetWrite
      <3>2. v \in {1, 2}
        BY UnitsPerFrameType
      <3> HIDE DEF v
      <3>3. recWidth \in [Conns -> {1, 2}]
        BY DEF TypeOK
      <3> QED BY <3>1, <3>2, <3>3
    <2>5. ep1' \in [Conns -> {"idle", "unlinked", "record", "forget"}]
      BY <2>1 DEF NextWrite, TypeOK
    <2> QED BY <2>1, <2>3, <2>4, <2>5 DEF NextWrite, TypeOK, Writes
  <1> QED BY <1>1, <1>2, <1>3 DEF RegisterWorker

\* A worker of EP3 OUT keeps the types.
LEMMA BlockTypes ==
  ASSUME TypeOK, NEW c \in Conns, BlockWorker(c)
  PROVE  TypeOK'
  <1> USE DEF deviceVars, ep1Vars
  <1>1. /\ blocks[c] # << >> /\ blocks[c] \in Seq(Blocks) /\ Tail(blocks[c]) \in Seq(Blocks)
        /\ Head(blocks[c]).units \in BlockUnits /\ Head(blocks[c]).sure \in BOOLEAN
    <2>1. blocks[c] # << >> /\ blocks[c] \in Seq(Blocks)
      BY WorkerTypes DEF BlockWorker, StartBlock, CompleteBlock, DropBlock
    <2>2. Head(blocks[c]) \in Blocks /\ Tail(blocks[c]) \in Seq(Blocks)
      BY <2>1, QueueTail
    <2> QED BY <2>1, <2>2 DEF Blocks
  <1>2. CASE StartBlock(c)
    <2> DEFINE n == Head(blocks[c]).units \div UnitsPerFrame(width)
               due == IF running /\ realtime THEN DueIn(n) ELSE 0
    <2>1. n \in Nat
      BY <1>1, UnitsPerFrameType, FramesType
    <2>2. /\ consumed' = IF running THEN consumed + n ELSE consumed
          /\ \/ /\ ep3' = [ep3 EXCEPT ![c] = "sleep"]
                /\ frames' = [frames EXCEPT ![c] = n] /\ timer' = [timer EXCEPT ![c] = due]
                /\ charged' = [charged EXCEPT ![c] = running]
             \/ ep3' = [ep3 EXCEPT ![c] = "forget"] /\ UNCHANGED <<frames, timer, charged>>
      BY <1>2 DEF StartBlock
    <2> HIDE DEF n
    <2>3. due \in Nat /\ consumed' \in Nat
      BY <2>1, <2>2 DEF TypeOK, DueIn, Positive
    <2> HIDE DEF due
    <2>4. /\ timer' \in [Conns -> Nat] /\ frames' \in [Conns -> Nat] /\ charged' \in [Conns -> BOOLEAN]
          /\ ep3' \in [Conns -> {"idle", "unlinked", "sleep", "forget"}]
      <3>1. timer \in [Conns -> Nat] /\ frames \in [Conns -> Nat] /\ charged \in [Conns -> BOOLEAN]
            /\ ep3 \in [Conns -> {"idle", "unlinked", "sleep", "forget"}] /\ running \in BOOLEAN
        BY DEF TypeOK
      <3>2. timer' \in [Conns -> Nat]
        BY <2>2, <2>3, <3>1
      <3>3. frames' \in [Conns -> Nat]
        BY <2>1, <2>2, <3>1
      <3>4. charged' \in [Conns -> BOOLEAN]
        BY <2>2, <3>1
      <3>5. ep3' \in [Conns -> {"idle", "unlinked", "sleep", "forget"}]
        BY <2>2, <3>1
      <3> QED BY <3>2, <3>3, <3>4, <3>5
    <2>5. \A d \in Conns : ep3'[d] # "idle" => blocks[d] # << >>
      <3>1. /\ ep3 \in [Conns -> {"idle", "unlinked", "sleep", "forget"}]
            /\ \A d \in Conns : ep3[d] # "idle" => blocks[d] # << >>
        BY DEF TypeOK
      <3>2. \E s : ep3' = [ep3 EXCEPT ![c] = s]
        BY <2>2
      <3> QED BY <1>1, <3>1, <3>2
    <2>6. UNCHANGED <<realtime, running, age, width, ep1Vars, blocks, accepted, line, conn, sent>>
      BY <1>2 DEF StartBlock
    <2> QED BY <2>3, <2>4, <2>5, <2>6 DEF TypeOK
  <1>3. CASE CompleteBlock(c) \/ DropBlock(c)
    <2>1. NextBlock(c)
      BY <1>3 DEF CompleteBlock, DropBlock
    <2>2. /\ timer' \in [Conns -> Nat] /\ frames' \in [Conns -> Nat] /\ charged' \in [Conns -> BOOLEAN]
      BY <2>1 DEF NextBlock, NoBlock, TypeOK
    <2>3. /\ blocks' \in [Conns -> Seq(Blocks)]
          /\ ep3' \in [Conns -> {"idle", "unlinked", "sleep", "forget"}]
          /\ \A d \in Conns : ep3'[d] # "idle" => blocks'[d] # << >>
      BY <1>1, <2>1 DEF NextBlock, TypeOK, Blocks
    <2>4. line' \in [frames : Nat, logged : Nat, sure : BOOLEAN] /\ accepted' \in Nat
      <3>1. Head(blocks[c]).units \div recWidth[c] \in Nat /\ frames[c] \in Nat
        BY <1>1, FramesType, WorkerTypes
      <3> QED BY <1>1, <1>3, <3>1 DEF CompleteBlock, DropBlock, TypeOK
    <2> QED BY <2>1, <2>2, <2>3, <2>4 DEF NextBlock, TypeOK, Blocks
  <1> QED BY <1>2, <1>3 DEF BlockWorker

\* Every step keeps the types.
LEMMA TypeStep == ASSUME TypeOK, [Next]_vars PROVE TypeOK'
  <1>1. CASE Tick
    <2>1. timer' \in [Conns -> Nat] /\ age' \in Nat
      <3>1. timer \in [Conns -> Nat] /\ age \in Nat
        BY DEF TypeOK
      <3>2. /\ age' = IF running THEN age + 1 ELSE age
            /\ timer' = [c \in Conns |-> Positive(timer[c] - 1)]
        BY <1>1 DEF Tick
      <3>3. \A c \in Conns : Positive(timer[c] - 1) \in Nat
        BY <3>1 DEF Positive
      <3> QED BY <3>1, <3>2, <3>3
    <2> QED BY <1>1, <2>1 DEF Tick, TypeOK, ep1Vars
  <1>2. CASE UNCHANGED vars
    BY <1>2 DEF vars, deviceVars, ep1Vars, ep3Vars, TypeOK
  <1> QED BY <1>1, <1>2, HostTypes, RegisterTypes, BlockTypes DEF Next

-----------------------------------------------------------------------------
(* The pacing. *)

\* The frames of one block, as pairs.
LEMMA BlockFrames ==
  ASSUME NEW c \in Conns, NEW n \in Nat
  PROVE  IsFiniteSet({c} \X (1..n)) /\ Cardinality({c} \X (1..n)) = n
  <1>1. IsFiniteSet({c}) /\ Cardinality({c}) = 1
    BY FS_Singleton
  <1>2. IsFiniteSet(1..n) /\ Cardinality(1..n) = n
    <2>1. IsFiniteSet(1..n) /\ Cardinality(1..n) = IF 1 > n THEN 0 ELSE n - 1 + 1
      BY FS_Interval
    <2> QED BY <2>1
  <1>3. \A S, T : IsFiniteSet(S) /\ IsFiniteSet(T) =>
                /\ IsFiniteSet(S \X T) /\ Cardinality(S \X T) = Cardinality(S) * Cardinality(T)
    BY FS_Product
  <1>4. /\ IsFiniteSet({c} \X (1..n))
        /\ Cardinality({c} \X (1..n)) = Cardinality({c}) * Cardinality(1..n)
    BY <1>1, <1>2, <1>3
  <1>5. Cardinality({c}) * Cardinality(1..n) = n
    BY <1>1, <1>2
  <1> QED BY <1>4, <1>5

\* A part of the frames asleep counts no more than they do.
LEMMA PartOfLoad ==
  ASSUME IsFiniteSet(Load), NEW S, S \subseteq Load
  PROVE  IsFiniteSet(S) /\ Cardinality(S) \in Nat /\ Cardinality(S) <= Cardinality(Load)
  BY FS_Subset, FS_CardinalityType

\* The pacing survives blocks that are given up or wait longer, and a run that
\* goes on.
LEMMA PaceShrinks ==
  ASSUME TypeOK, TypeOK', PaceInv, realtime' = realtime, accepted' = accepted,
         age <= age', consumed <= consumed',
         \A d \in Conns : charged'[d] =>
            /\ charged[d] /\ running' /\ ep3'[d] = "sleep" /\ frames'[d] = frames[d]
            /\ age + timer[d] <= age' + timer'[d]
  PROVE  PaceInv'
  <1>1. Load' \subseteq Load
    BY DEF Load
  <1>2. IsFiniteSet(Load)
    BY DEF PaceInv
  <1>3. IsFiniteSet(Load') /\ Cardinality(Load') \in Nat /\ Cardinality(Load') <= Cardinality(Load)
    BY <1>1, <1>2, PartOfLoad
  <1>4. Cardinality(Load) \in Nat
    BY <1>2, FS_CardinalityType
  <1>5. accepted \in Nat /\ age \in Nat /\ age' \in Nat /\ consumed \in Nat /\ consumed' \in Nat
    BY DEF TypeOK
  <1>6. ASSUME realtime, NEW t \in Nat, t >= age'
        PROVE  accepted + Cardinality(LoadBy(t)') <= t
    <2>1. LoadBy(t)' \subseteq LoadBy(t)
      <3>1. SUFFICES ASSUME NEW p \in LoadBy(t)'
                     PROVE  p \in LoadBy(t)
        OBVIOUS
      <3>2. p \in Load' /\ age' + timer'[p[1]] <= t
        BY <3>1 DEF LoadBy
      <3>3. p[1] \in Conns /\ charged'[p[1]]
        BY <3>2 DEF Load
      <3>4. timer[p[1]] \in Nat /\ timer'[p[1]] \in Nat
        BY <3>3 DEF TypeOK
      <3>5. age + timer[p[1]] <= t
        BY <3>2, <3>3, <3>4, <1>5
      <3> QED BY <3>2, <3>5, <1>1 DEF LoadBy
    <2>2. LoadBy(t) \subseteq Load
      BY DEF LoadBy
    <2>3. IsFiniteSet(LoadBy(t)) /\ Cardinality(LoadBy(t)) \in Nat
      BY <1>2, <2>2, PartOfLoad
    <2>4. /\ Cardinality(LoadBy(t)') \in Nat
          /\ Cardinality(LoadBy(t)') <= Cardinality(LoadBy(t))
      BY <2>1, <2>3, FS_Subset, FS_CardinalityType
    <2>5. t >= age
      BY <1>5, <1>6
    <2>6. accepted + Cardinality(LoadBy(t)) <= t
      BY <1>6, <2>5 DEF PaceInv
    <2> QED BY <2>3, <2>4, <2>6, <1>5
  <1>7. realtime => accepted + Cardinality(Load') <= consumed'
    <2>1. realtime => accepted + Cardinality(Load) <= consumed
      BY DEF PaceInv
    <2> QED BY <2>1, <1>3, <1>4, <1>5
  <1>8. \A d \in Conns : charged'[d] => ep3'[d] = "sleep" /\ running'
    OBVIOUS
  <1> QED BY <1>3, <1>6, <1>7, <1>8 DEF PaceInv

\* A step that touches neither the port nor any block in hand.
LEMMA PaceSame ==
  ASSUME TypeOK, TypeOK', PaceInv,
         UNCHANGED <<realtime, running, age, consumed, accepted, ep3, timer, frames, charged>>
  PROVE  PaceInv'
  <1>1. age \in Nat /\ consumed \in Nat /\ \A d \in Conns : timer[d] \in Nat
    BY DEF TypeOK
  <1>2. \A d \in Conns : charged[d] => ep3[d] = "sleep" /\ running
    BY DEF PaceInv
  <1>3. age <= age' /\ consumed <= consumed'
    BY <1>1
  <1>4. \A d \in Conns : charged'[d] =>
            /\ charged[d] /\ running' /\ ep3'[d] = "sleep" /\ frames'[d] = frames[d]
            /\ age + timer[d] <= age' + timer'[d]
    BY <1>1, <1>2
  <1> QED BY <1>3, <1>4, PaceShrinks

\* A worker that gives its block up.
LEMMA PaceDropped ==
  ASSUME TypeOK, TypeOK', PaceInv, NEW c \in Conns, NoBlock(c),
         \A d \in Conns \ {c} : ep3'[d] = ep3[d],
         UNCHANGED <<realtime, running, age, consumed, accepted>>
  PROVE  PaceInv'
  <1>1. age \in Nat /\ consumed \in Nat /\ \A d \in Conns : timer[d] \in Nat
    BY DEF TypeOK
  <1>2. \A d \in Conns : charged[d] => ep3[d] = "sleep" /\ running
    BY DEF PaceInv
  <1>3. ~charged'[c]
    BY DEF NoBlock, TypeOK
  <1>4. \A d \in Conns \ {c} : /\ charged'[d] = charged[d] /\ frames'[d] = frames[d]
                               /\ timer'[d] = timer[d]
    BY DEF NoBlock, TypeOK
  <1>5. age <= age' /\ consumed <= consumed'
    BY <1>1
  <1>6. ASSUME NEW d \in Conns, charged'[d]
        PROVE  /\ charged[d] /\ running' /\ ep3'[d] = "sleep" /\ frames'[d] = frames[d]
               /\ age + timer[d] <= age' + timer'[d]
    <2>1. d \in Conns \ {c}
      BY <1>3, <1>6
    <2> QED BY <2>1, <1>1, <1>2, <1>4, <1>6
  <1> QED BY <1>5, <1>6, PaceShrinks

\* Time passes for the run and the sleepers alike.
LEMMA PaceTick ==
  ASSUME TypeOK, TypeOK', PaceInv, Tick
  PROVE  PaceInv'
  <1>1. age \in Nat /\ consumed \in Nat /\ \A d \in Conns : timer[d] \in Nat
    BY DEF TypeOK
  <1>2. /\ age' = (IF running THEN age + 1 ELSE age)
        /\ \A d \in Conns : timer'[d] = Positive(timer[d] - 1)
        /\ UNCHANGED <<realtime, running, consumed, accepted, ep3, frames, charged>>
    BY DEF Tick
  <1>3. \A d \in Conns : charged[d] => ep3[d] = "sleep" /\ running
    BY DEF PaceInv
  <1>4. age <= age' /\ consumed <= consumed'
    BY <1>1, <1>2
  <1>5. ASSUME NEW d \in Conns, charged'[d]
        PROVE  /\ charged[d] /\ running' /\ ep3'[d] = "sleep" /\ frames'[d] = frames[d]
               /\ age + timer[d] <= age' + timer'[d]
    <2>1. charged[d] /\ running /\ running' /\ ep3'[d] = "sleep" /\ frames'[d] = frames[d]
      BY <1>2, <1>3, <1>5
    <2>2. age' = age + 1 /\ timer'[d] = Positive(timer[d] - 1) /\ timer[d] \in Nat
      BY <1>1, <1>2, <2>1
    <2>3. age + timer[d] <= age' + timer'[d]
      BY <1>1, <2>2 DEF Positive
    <2> QED BY <2>1, <2>3
  <1> QED BY <1>2, <1>4, <1>5, PaceShrinks

\* A write of the control register: another run counts from nothing.
LEMMA PaceControl ==
  ASSUME TypeOK, TypeOK', PaceInv, NEW c \in Conns, WriteControl(c)
  PROVE  PaceInv'
  <1>1. UNCHANGED <<realtime, ep3, timer, frames>>
    BY DEF WriteControl, ep3Vars
  <1>2. CASE running' = running
    <2>1. UNCHANGED <<age, consumed, charged, accepted>>
      BY <1>2 DEF WriteControl
    <2> QED BY <1>1, <1>2, <2>1, PaceSame
  <1>3. CASE running' # running
    <2>1. /\ age' = 0 /\ consumed' = 0 /\ accepted' = 0
          /\ charged' = [d \in Conns |-> FALSE]
      BY <1>3 DEF WriteControl
    <2>2. Load' = {}
      BY <2>1 DEF Load
    <2>3. \A t \in Nat : LoadBy(t)' = {}
      BY <2>2 DEF LoadBy
    <2>4. IsFiniteSet({}) /\ Cardinality({}) = 0
      BY FS_EmptySet
    <2>5. \A t \in Nat : accepted' + Cardinality(LoadBy(t)') <= t
      BY <2>1, <2>3, <2>4
    <2>6. accepted' + Cardinality(Load') <= consumed' /\ IsFiniteSet(Load')
      BY <2>1, <2>2, <2>4
    <2>7. \A d \in Conns : ~charged'[d]
      BY <2>1
    <2> QED BY <2>5, <2>6, <2>7 DEF PaceInv
  <1> QED BY <1>2, <1>3

\* A block that starts while the port runs is charged, and waits until the run has
\* played it.
LEMMA PaceStarts ==
  ASSUME TypeOK, TypeOK', PaceInv, NEW c \in Conns, NEW n \in Nat,
         ep3[c] = "idle", running, consumed' = consumed + n,
         ep3' = [ep3 EXCEPT ![c] = "sleep"], frames' = [frames EXCEPT ![c] = n],
         charged' = [charged EXCEPT ![c] = TRUE],
         \A d \in Conns \ {c} : timer'[d] = timer[d],
         realtime => age + timer'[c] >= consumed + n,
         UNCHANGED <<realtime, running, age, accepted>>
  PROVE  PaceInv'
  <1> DEFINE K == {c} \X (1..n)
  <1>1. IsFiniteSet(K) /\ Cardinality(K) = n
    BY BlockFrames
  <1>2. IsFiniteSet(Load) /\ Cardinality(Load) \in Nat
    BY FS_CardinalityType DEF PaceInv
  <1>3. ~charged[c]
    BY DEF PaceInv
  <1>4. \A d \in Conns \ {c} : charged'[d] = charged[d] /\ frames'[d] = frames[d]
    BY DEF TypeOK
  <1>5. Load' \subseteq Load \cup K
    <2>1. SUFFICES ASSUME NEW p \in Load'
                   PROVE  p \in Load \cup K
      OBVIOUS
    <2>2. p \in Conns \X Nat /\ charged'[p[1]] /\ p[2] \in 1..frames'[p[1]]
      BY <2>1 DEF Load
    <2>3. CASE p[1] = c
      <3>1. frames'[c] = n
        BY DEF TypeOK
      <3>2. p = <<p[1], p[2]>>
        BY <2>2
      <3> QED BY <2>2, <2>3, <3>1, <3>2
    <2>4. CASE p[1] # c
      <3>1. p[1] \in Conns \ {c}
        BY <2>2, <2>4
      <3> QED BY <2>2, <3>1, <1>4 DEF Load
    <2> QED BY <2>3, <2>4
  <1>6. \A p \in K : p[1] = c
    OBVIOUS
  <1> HIDE DEF K
  <1>7. /\ IsFiniteSet(Load \cup K) /\ Cardinality(Load \cup K) \in Nat
        /\ Cardinality(Load \cup K) <= Cardinality(Load) + n
    <2>1. /\ IsFiniteSet(Load \cup K)
          /\ Cardinality(Load \cup K)
               = Cardinality(Load) + Cardinality(K) - Cardinality(Load \cap K)
      BY <1>1, <1>2, FS_Union
    <2>2. IsFiniteSet(Load \cap K) /\ Cardinality(Load \cap K) \in Nat
      BY <1>2, FS_Subset, FS_CardinalityType
    <2>3. Cardinality(Load \cup K) \in Nat
      BY <2>1, FS_CardinalityType
    <2> QED BY <1>1, <1>2, <2>1, <2>2, <2>3
  <1>8. /\ IsFiniteSet(Load') /\ Cardinality(Load') \in Nat
        /\ Cardinality(Load') <= Cardinality(Load) + n
    <2>1. /\ IsFiniteSet(Load') /\ Cardinality(Load') \in Nat
          /\ Cardinality(Load') <= Cardinality(Load \cup K)
      BY <1>5, <1>7, FS_Subset, FS_CardinalityType
    <2> QED BY <1>2, <1>7, <2>1
  <1>9. accepted \in Nat /\ accepted' = accepted /\ age \in Nat /\ consumed \in Nat
    BY DEF TypeOK
  <1>10. realtime => accepted' + Cardinality(Load') <= consumed'
    <2>1. realtime => accepted + Cardinality(Load) <= consumed
      BY DEF PaceInv
    <2> QED BY <2>1, <1>2, <1>8, <1>9
  <1>11. ASSUME realtime, NEW t \in Nat, t >= age
         PROVE  accepted' + Cardinality(LoadBy(t)') <= t
    <2>1. LoadBy(t)' \subseteq Load'
      BY DEF LoadBy
    <2>2. /\ IsFiniteSet(LoadBy(t)') /\ Cardinality(LoadBy(t)') \in Nat
          /\ Cardinality(LoadBy(t)') <= Cardinality(Load')
      BY <2>1, <1>8, FS_Subset, FS_CardinalityType
    <2>3. CASE t >= consumed + n
      BY <2>2, <2>3, <1>8, <1>9, <1>10, <1>11
    <2>4. CASE t < consumed + n
      <3>1. LoadBy(t)' \subseteq LoadBy(t)
        <4>1. SUFFICES ASSUME NEW p \in LoadBy(t)'
                       PROVE  p \in LoadBy(t)
          OBVIOUS
        <4>2. p \in Load' /\ age' + timer'[p[1]] <= t
          BY <4>1 DEF LoadBy
        <4>3. age' = age /\ age + timer'[c] >= consumed + n /\ timer'[c] \in Nat
          BY <1>11 DEF TypeOK
        <4>4. p[1] # c
          <5>1. SUFFICES ASSUME p[1] = c
                         PROVE  FALSE
            OBVIOUS
          <5>2. age + timer'[c] <= t
            BY <4>2, <4>3, <5>1
          <5> QED BY <5>2, <4>3, <2>4, <1>9
        <4>5. p \in Load
          BY <4>2, <4>4, <1>5, <1>6
        <4>6. p[1] \in Conns \ {c}
          BY <4>4, <4>5 DEF Load
        <4> QED BY <4>2, <4>3, <4>5, <4>6 DEF LoadBy
      <3>2. LoadBy(t) \subseteq Load
        BY DEF LoadBy
      <3>3. IsFiniteSet(LoadBy(t)) /\ Cardinality(LoadBy(t)) \in Nat
        BY <1>2, <3>2, PartOfLoad
      <3>4. Cardinality(LoadBy(t)') <= Cardinality(LoadBy(t))
        BY <3>1, <3>3, FS_Subset
      <3>5. accepted + Cardinality(LoadBy(t)) <= t
        BY <1>11 DEF PaceInv
      <3> QED BY <2>2, <3>3, <3>4, <3>5, <1>9
    <2> QED BY <2>3, <2>4, <1>9
  <1>12. ASSUME NEW d \in Conns, charged'[d]
         PROVE  ep3'[d] = "sleep" /\ running'
    <2>1. CASE d = c
      BY <2>1 DEF TypeOK
    <2>2. CASE d # c
      <3>1. charged[d]
        BY <1>4, <1>12, <2>2
      <3>2. ep3[d] = "sleep" /\ running
        BY <3>1 DEF PaceInv
      <3> QED BY <2>2, <3>2 DEF TypeOK
    <2> QED BY <2>1, <2>2
  <1> QED BY <1>8, <1>9, <1>10, <1>11, <1>12 DEF PaceInv

\* A charged block that is due leaves the frames asleep for those accepted.
LEMMA PaceAccepts ==
  ASSUME TypeOK, TypeOK', PaceInv, NEW c \in Conns, charged[c], timer[c] = 0, NoBlock(c),
         accepted' = accepted + frames[c],
         \A d \in Conns \ {c} : ep3'[d] = ep3[d],
         UNCHANGED <<realtime, running, age, consumed>>
  PROVE  PaceInv'
  <1> DEFINE n == frames[c]
             K == {c} \X (1..n)
  <1>1. n \in Nat
    BY DEF TypeOK
  <1>2. IsFiniteSet(K) /\ Cardinality(K) = n
    BY <1>1, BlockFrames
  <1>3. IsFiniteSet(Load) /\ Cardinality(Load) \in Nat
    BY FS_CardinalityType DEF PaceInv
  <1>4. ~charged'[c]
    BY DEF NoBlock, TypeOK
  <1>5. \A d \in Conns \ {c} : /\ charged'[d] = charged[d] /\ frames'[d] = frames[d]
                               /\ timer'[d] = timer[d]
    BY DEF NoBlock, TypeOK
  <1>6. \A p \in K : /\ p \in Load /\ p[1] = c
    BY <1>1 DEF Load
  <1>7. \A p \in Load' : p \in Load /\ p[1] \in Conns \ {c}
    BY <1>4, <1>5 DEF Load
  <1> HIDE DEF K, n
  <1>8. Load' \subseteq Load \ K /\ K \subseteq Load
    BY <1>6, <1>7
  <1>9. \A S : IsFiniteSet(S) /\ K \subseteq S =>
           /\ IsFiniteSet(S \ K) /\ Cardinality(S \ K) = Cardinality(S) - n
    <2>1. SUFFICES ASSUME NEW S, IsFiniteSet(S), K \subseteq S
                   PROVE  IsFiniteSet(S \ K) /\ Cardinality(S \ K) = Cardinality(S) - n
      OBVIOUS
    <2>2. /\ IsFiniteSet(S \ K)
          /\ Cardinality(S \ K) = Cardinality(S) - Cardinality(S \cap K)
      BY <2>1, FS_Difference
    <2>3. S \cap K = K
      BY <2>1
    <2> QED BY <2>2, <2>3, <1>2
  <1>10. /\ IsFiniteSet(Load') /\ Cardinality(Load') \in Nat
         /\ Cardinality(Load') <= Cardinality(Load) - n
    <2>1. IsFiniteSet(Load \ K) /\ Cardinality(Load \ K) = Cardinality(Load) - n
      BY <1>3, <1>8, <1>9
    <2>2. IsFiniteSet(Load') /\ Cardinality(Load') <= Cardinality(Load \ K)
      BY <1>8, <2>1, FS_Subset
    <2>3. Cardinality(Load') \in Nat
      BY <2>2, FS_CardinalityType
    <2> QED BY <2>1, <2>2, <2>3
  <1>11. /\ accepted \in Nat /\ age \in Nat /\ age' = age /\ consumed \in Nat
         /\ accepted' = accepted + n
    BY DEF TypeOK, n
  <1>12. realtime => accepted' + Cardinality(Load') <= consumed'
    <2>1. realtime => accepted + Cardinality(Load) <= consumed
      BY DEF PaceInv
    <2> QED BY <2>1, <1>1, <1>3, <1>10, <1>11
  <1>13. ASSUME realtime, NEW t \in Nat, t >= age
         PROVE  accepted' + Cardinality(LoadBy(t)') <= t
    <2>1. K \subseteq LoadBy(t)
      BY <1>6, <1>11, <1>13 DEF LoadBy
    <2>2. LoadBy(t)' \subseteq LoadBy(t) \ K
      <3>1. SUFFICES ASSUME NEW p \in LoadBy(t)'
                     PROVE  p \in LoadBy(t) \ K
        OBVIOUS
      <3>2. p \in Load' /\ age' + timer'[p[1]] <= t
        BY <3>1 DEF LoadBy
      <3>3. p \in Load \ K /\ timer'[p[1]] = timer[p[1]]
        BY <3>2, <1>5, <1>7, <1>8
      <3> QED BY <3>2, <3>3, <1>11 DEF LoadBy
    <2>3. LoadBy(t) \subseteq Load
      BY DEF LoadBy
    <2>4. IsFiniteSet(LoadBy(t)) /\ Cardinality(LoadBy(t)) \in Nat
      BY <1>3, <2>3, PartOfLoad
    <2>5. /\ IsFiniteSet(LoadBy(t) \ K) /\ Cardinality(LoadBy(t) \ K) = Cardinality(LoadBy(t)) - n
      BY <2>1, <2>4, <1>9
    <2>6. /\ Cardinality(LoadBy(t)') \in Nat
          /\ Cardinality(LoadBy(t)') <= Cardinality(LoadBy(t)) - n
      BY <2>2, <2>5, FS_Subset, FS_CardinalityType
    <2>7. accepted + Cardinality(LoadBy(t)) <= t
      BY <1>13 DEF PaceInv
    <2> QED BY <2>4, <2>6, <2>7, <1>1, <1>11
  <1>14. ASSUME NEW d \in Conns, charged'[d]
         PROVE  ep3'[d] = "sleep" /\ running'
    <2>1. d \in Conns \ {c} /\ charged[d]
      BY <1>4, <1>5, <1>14
    <2>2. ep3[d] = "sleep" /\ running
      BY <2>1 DEF PaceInv
    <2> QED BY <2>1, <2>2
  <1> QED BY <1>10, <1>11, <1>12, <1>13, <1>14 DEF PaceInv

\* A worker of EP3 OUT keeps the pacing.
LEMMA PaceBlocks ==
  ASSUME TypeOK, TypeOK', PaceInv, NEW c \in Conns, BlockWorker(c)
  PROVE  PaceInv'
  <1>1. /\ realtime \in BOOLEAN /\ running \in BOOLEAN /\ age \in Nat /\ consumed \in Nat
        /\ \A d \in Conns : timer[d] \in Nat
    BY DEF TypeOK
  <1>2. CASE StartBlock(c)
    <2> DEFINE n == Head(blocks[c]).units \div UnitsPerFrame(width)
               due == IF running /\ realtime THEN DueIn(n) ELSE 0
    <2>1. n \in Nat
      <3>1. Head(blocks[c]).units \in BlockUnits
        <4>1. blocks[c] # << >> /\ blocks[c] \in Seq(Blocks)
          BY <1>2, WorkerTypes DEF StartBlock
        <4>2. Head(blocks[c]) \in Blocks
          BY <4>1, QueueTail
        <4> QED BY <4>2 DEF Blocks
      <3> QED BY <3>1, UnitsPerFrameType, FramesType
    <2>2. /\ consumed' = IF running THEN consumed + n ELSE consumed
          /\ \/ /\ ep3[c] = "idle"
                /\ ep3' = [ep3 EXCEPT ![c] = "sleep"]
                /\ frames' = [frames EXCEPT ![c] = n] /\ timer' = [timer EXCEPT ![c] = due]
                /\ charged' = [charged EXCEPT ![c] = running]
             \/ /\ ep3[c] = "unlinked"
                /\ ep3' = [ep3 EXCEPT ![c] = "forget"] /\ UNCHANGED <<frames, timer, charged>>
          /\ UNCHANGED <<realtime, running, age, accepted>>
      BY <1>2 DEF StartBlock
    <2>3. running /\ realtime => age + due >= consumed + n
      BY <1>1, <2>1 DEF DueIn, Positive
    <2> HIDE DEF n, due
    <2>4. age <= age' /\ consumed <= consumed'
      BY <1>1, <2>1, <2>2
    <2>5. CASE ep3[c] = "idle" /\ running
      <3>1. \A d \in Conns \ {c} : timer'[d] = timer[d]
        BY <2>2, <2>5 DEF TypeOK
      <3>2. timer'[c] = due
        BY <2>2, <2>5 DEF TypeOK
      <3>3. charged' = [charged EXCEPT ![c] = TRUE] /\ consumed' = consumed + n
        BY <2>2, <2>5
      <3>4. realtime => age + timer'[c] >= consumed + n
        BY <2>3, <2>5, <3>2
      <3> QED BY <2>1, <2>2, <2>5, <3>1, <3>3, <3>4, PaceStarts
    <2>6. CASE ep3[c] = "idle" /\ ~running
      <3>1. \A d \in Conns : ~charged[d]
        BY <2>6 DEF PaceInv
      <3>2. \A d \in Conns : ~charged'[d]
        BY <2>2, <2>6, <3>1 DEF TypeOK
      <3> QED BY <2>2, <2>4, <3>2, PaceShrinks
    <2>7. CASE ep3[c] = "unlinked"
      <3>1. ep3' = [ep3 EXCEPT ![c] = "forget"] /\ UNCHANGED <<frames, timer, charged>>
        BY <2>2, <2>7
      <3>2. ASSUME NEW d \in Conns, charged'[d]
            PROVE  /\ charged[d] /\ running' /\ ep3'[d] = "sleep" /\ frames'[d] = frames[d]
                   /\ age + timer[d] <= age' + timer'[d]
        <4>1. charged[d] /\ frames'[d] = frames[d] /\ timer'[d] = timer[d] /\ age' = age
          BY <2>2, <3>1, <3>2
        <4>2. ep3[d] = "sleep" /\ running
          BY <4>1 DEF PaceInv
        <4>3. d # c
          BY <2>7, <4>2
        <4>4. ep3'[d] = "sleep"
          BY <3>1, <4>2, <4>3 DEF TypeOK
        <4> QED BY <1>1, <2>2, <4>1, <4>2, <4>4
      <3> QED BY <2>2, <2>4, <3>2, PaceShrinks
    <2> QED BY <2>2, <2>5, <2>6, <2>7, <1>1
  <1>3. CASE CompleteBlock(c) \/ DropBlock(c)
    <2>1. NextBlock(c)
      BY <1>3 DEF CompleteBlock, DropBlock
    <2>2. /\ NoBlock(c) /\ UNCHANGED <<realtime, running, age, consumed>>
          /\ ep3' = [ep3 EXCEPT ![c] = "idle"]
      BY <2>1 DEF NextBlock, deviceVars
    <2>3. \A d \in Conns \ {c} : ep3'[d] = ep3[d]
      BY <2>2 DEF TypeOK
    <2>4. CASE CompleteBlock(c) /\ charged[c]
      <3>1. accepted' = accepted + frames[c] /\ timer[c] = 0
        BY <2>4 DEF CompleteBlock
      <3> QED BY <2>2, <2>3, <2>4, <3>1, PaceAccepts
    <2>5. CASE DropBlock(c) \/ ~charged[c]
      <3>1. accepted' = accepted
        BY <1>3, <2>5 DEF CompleteBlock, DropBlock, PaceInv
      <3> QED BY <2>2, <2>3, <3>1, PaceDropped
    <2> QED BY <1>3, <2>4, <2>5
  <1> QED BY <1>2, <1>3 DEF BlockWorker

\* Every step keeps the pacing.
LEMMA PaceStep == ASSUME TypeOK, TypeOK', PaceInv, [Next]_vars PROVE PaceInv'
  <1> USE DEF deviceVars, ep1Vars, ep3Vars
  <1>1. CASE Host
    <2>1. ASSUME NEW n \in BlockUnits, SubmitBlock(n)
          PROVE  PaceInv'
      BY <2>1, PaceSame DEF SubmitBlock
    <2>2. ASSUME NEW w \in Writes, SubmitWrite(w)
          PROVE  PaceInv'
      BY <2>2, PaceSame DEF SubmitWrite
    <2>3. ASSUME NEW i \in 1..MaxWrites, UnlinkQueuedWrite(i)
          PROVE  PaceInv'
      BY <2>3, PaceSame DEF UnlinkQueuedWrite
    <2>4. ASSUME NEW i \in 1..MaxBlocks, UnlinkQueuedBlock(i)
          PROVE  PaceInv'
      BY <2>4, PaceSame DEF UnlinkQueuedBlock
    <2>5. CASE UnlinkWrite
      BY <2>5, PaceSame DEF UnlinkWrite
    <2>6. CASE UnlinkBlock \/ Reconnect
      <3>1. conn \in Conns
        BY DEF TypeOK
      <3>2. NoBlock(conn) /\ UNCHANGED <<realtime, running, age, consumed, accepted>>
        BY <2>6 DEF UnlinkBlock, Reconnect
      <3>3. \A d \in Conns \ {conn} : ep3'[d] = ep3[d]
        <4>1. \E v : ep3' = [ep3 EXCEPT ![conn] = v]
          BY <2>6 DEF UnlinkBlock, Reconnect
        <4>2. ep3 \in [Conns -> {"idle", "unlinked", "sleep", "forget"}]
          BY DEF TypeOK
        <4> QED BY <4>1, <4>2
      <3> QED BY <3>1, <3>2, <3>3, PaceDropped
    <2>7. CASE Vanish
      BY <2>7, PaceSame DEF Vanish
    <2> QED BY <1>1, <2>1, <2>2, <2>3, <2>4, <2>5, <2>6, <2>7 DEF Host, Writes
  <1>2. ASSUME NEW c \in Conns, RegisterWorker(c)
        PROVE  PaceInv'
    <2>1. CASE WriteControl(c)
      BY <2>1, PaceControl
    <2>2. CASE WriteWidth(c)
      BY <2>2, PaceSame DEF WriteWidth
    <2>3. CASE RecordWrite(c) \/ ForgetWrite(c)
      BY <2>3, PaceSame DEF RecordWrite, ForgetWrite, NextWrite
    <2> QED BY <1>2, <2>1, <2>2, <2>3 DEF RegisterWorker
  <1>3. ASSUME NEW c \in Conns, BlockWorker(c)
        PROVE  PaceInv'
    BY <1>3, PaceBlocks
  <1>4. CASE Tick
    BY <1>4, PaceTick
  <1>5. CASE UNCHANGED vars
    BY <1>5, PaceSame DEF vars
  <1> QED BY <1>1, <1>2, <1>3, <1>4, <1>5 DEF Next

-----------------------------------------------------------------------------
(* The width of the device and of the recorder. *)

\* A sure block is in hand, or waits, only when no width write does.
LEMMA SureBlocks ==
  ASSUME WidthInv, WritingWidth
  PROVE  \A c \in Conns : \A i \in DOMAIN blocks[c] : ~blocks[c][i].sure
  BY DEF WidthInv

\* The first write of a worker that is not idle is one of its queue.
LEMMA FirstWrite ==
  ASSUME TypeOK, NEW c \in Conns, writes[c] # << >>, Head(writes[c]) \in Widths
  PROVE  WritingWidth
  <1>1. 1 \in DOMAIN writes[c] /\ Head(writes[c]) = writes[c][1]
    BY WorkerTypes, QueueTail
  <1> QED BY <1>1 DEF WritingWidth

\* A write of a width that waits to be recorded is under way.
LEMMA UnrecordedWrites ==
  ASSUME TypeOK, NEW c \in Conns, Unrecorded(c)
  PROVE  WritingWidth
  <1>1. writes[c] # << >>
    BY WorkerTypes DEF Unrecorded
  <1> QED BY <1>1, FirstWrite DEF Unrecorded

\* What is said of the recorders, and of the blocks.
Recorders ==
    \A c \in Conns : setter = c =>
        /\ Unrecorded(c) => width = Head(writes[c]).val
        /\ ~Unrecorded(c) => recWidth[c] = UnitsPerFrame(width)
SureOnes == \A c \in Conns : \A i \in DOMAIN blocks[c] :
                blocks[c][i].sure => setter = c /\ ~WritingWidth

\* Together they are the invariant.
LEMMA WidthParts == WidthInv <=> Recorders /\ SureOnes
  BY DEF WidthInv, Recorders, SureOnes

\* The recorders of the setters that stay know what they knew.
LEMMA RecordersKept ==
  ASSUME Recorders, width' = width,
         \A d \in Conns : setter' = d =>
            /\ setter = d /\ recWidth'[d] = recWidth[d]
            /\ Unrecorded(d)' <=> Unrecorded(d)
            /\ Unrecorded(d) => Head(writes[d])' = Head(writes[d])
  PROVE  Recorders'
  <1>1. SUFFICES ASSUME NEW d \in Conns, setter' = d
                 PROVE  /\ Unrecorded(d)' => width' = (Head(writes[d]).val)'
                        /\ ~Unrecorded(d)' => recWidth'[d] = UnitsPerFrame(width')
    BY DEF Recorders
  <1>2. /\ Unrecorded(d) => width = Head(writes[d]).val
        /\ ~Unrecorded(d) => recWidth[d] = UnitsPerFrame(width)
    BY <1>1 DEF Recorders
  <1> QED BY <1>1, <1>2

\* The writes in the queues are some of those that were.
FewerWrites == \A d \in Conns : \A i \in DOMAIN writes'[d] :
                  \E j \in DOMAIN writes[d] : writes'[d][i] = writes[d][j]

\* So are the blocks.
FewerBlocks == \A d \in Conns : \A i \in DOMAIN blocks'[d] :
                  \E j \in DOMAIN blocks[d] : blocks'[d][i] = blocks[d][j]

\* Width writes do not come from nowhere.
LEMMA FewerWidths == FewerWrites => (WritingWidth' => WritingWidth)
  BY DEF FewerWrites, WritingWidth

\* The sure blocks that are left are sure.
LEMMA SureKept ==
  ASSUME SureOnes, FewerBlocks, setter' = setter, WritingWidth' => WritingWidth
  PROVE  SureOnes'
  <1>1. SUFFICES ASSUME NEW d \in Conns, NEW i \in DOMAIN blocks'[d], blocks'[d][i].sure
                 PROVE  setter' = d /\ ~WritingWidth'
    BY DEF SureOnes
  <1>2. PICK j \in DOMAIN blocks[d] : blocks'[d][i] = blocks[d][j]
    BY DEF FewerBlocks
  <1> QED BY <1>1, <1>2 DEF SureOnes

\* While a width write is under way none is.
LEMMA NoneSure ==
  ASSUME SureOnes, WritingWidth, FewerBlocks
  PROVE  SureOnes'
  <1>1. SUFFICES ASSUME NEW d \in Conns, NEW i \in DOMAIN blocks'[d], blocks'[d][i].sure
                 PROVE  FALSE
    BY DEF SureOnes
  <1>2. PICK j \in DOMAIN blocks[d] : blocks'[d][i] = blocks[d][j]
    BY DEF FewerBlocks
  <1> QED BY <1>1, <1>2 DEF SureOnes

\* The blocks that sleep were counted by the width their recorders have.
LEMMA CountKept ==
  ASSUME CountInv,
         \A d \in Conns : ep3'[d] = "sleep" /\ blocks'[d][1].sure =>
            /\ ep3[d] = "sleep" /\ blocks'[d][1] = blocks[d][1]
            /\ frames'[d] = frames[d] /\ recWidth'[d] = recWidth[d]
  PROVE  CountInv'
  BY DEF CountInv

\* What the host sends keeps the widths together.
LEMMA SubmitWidths ==
  ASSUME TypeOK, WidthInv, CountInv,
         (\E n \in BlockUnits : SubmitBlock(n)) \/ (\E w \in Writes : SubmitWrite(w))
  PROVE  WidthInv' /\ CountInv'
  <1> USE DEF deviceVars, ep1Vars, ep3Vars
  <1>0. Recorders /\ SureOnes /\ conn \in Conns
    BY WidthParts DEF TypeOK
  <1>1. ASSUME NEW n \in BlockUnits, SubmitBlock(n)
        PROVE  WidthInv' /\ CountInv'
    <2> DEFINE b == [units |-> n, sure |-> setter = conn /\ ~WritingWidth]
    <2>1. b \in Blocks /\ b.sure = (setter = conn /\ ~WritingWidth)
      BY DEF Blocks
    <2>2. /\ blocks' = [blocks EXCEPT ![conn] = Append(@, b)]
          /\ UNCHANGED <<width, setter, recWidth, writes, ep1, ep3, frames>>
      BY <1>1 DEF SubmitBlock
    <2> HIDE DEF b
    <2>3. WritingWidth' <=> WritingWidth
      BY <2>2 DEF WritingWidth
    <2>4. Recorders'
      BY <1>0, <2>2 DEF Recorders, Unrecorded
    <2>5. /\ blocks'[conn] = Append(blocks[conn], b)
          /\ \A d \in Conns \ {conn} : blocks'[d] = blocks[d]
      BY <1>0, <2>2 DEF TypeOK
    <2>6. blocks[conn] \in Seq(Blocks)
      BY <1>0, WorkerTypes
    <2>7. SureOnes'
      <3>1. SUFFICES ASSUME NEW d \in Conns, NEW i \in DOMAIN blocks'[d], blocks'[d][i].sure
                     PROVE  setter = d /\ ~WritingWidth
        BY <2>2, <2>3 DEF SureOnes
      <3>2. CASE d = conn
        <4>1. blocks'[d][i] = b \/ \E j \in DOMAIN blocks[conn] : blocks'[d][i] = blocks[conn][j]
          BY <2>1, <2>5, <2>6, <3>2, QueueAppended
        <4>2. CASE blocks'[d][i] = b
          BY <2>1, <3>1, <3>2, <4>2
        <4>3. CASE \E j \in DOMAIN blocks[conn] : blocks'[d][i] = blocks[conn][j]
          BY <1>0, <3>1, <3>2, <4>3 DEF SureOnes
        <4> QED BY <4>1, <4>2, <4>3
      <3>3. CASE d # conn
        <4>1. blocks'[d] = blocks[d]
          BY <2>5, <3>3
        <4> QED BY <1>0, <3>1, <4>1 DEF SureOnes
      <3> QED BY <3>2, <3>3
    <2>8. CountInv'
      <3>1. ASSUME NEW d \in Conns, ep3'[d] = "sleep"
            PROVE  ep3[d] = "sleep" /\ blocks'[d][1] = blocks[d][1]
        <4>1. ep3[d] = "sleep" /\ blocks[d] # << >>
          BY <2>2, <3>1, WorkerTypes
        <4>2. CASE d = conn
          BY <2>1, <2>5, <2>6, <4>1, <4>2, QueueAppended
        <4>3. CASE d # conn
          BY <2>5, <4>1, <4>3
        <4> QED BY <4>2, <4>3
      <3> QED BY <2>2, <3>1, CountKept
    <2> QED BY <2>4, <2>7, <2>8, WidthParts, PTL
  <1>2. ASSUME NEW w \in Writes, SubmitWrite(w)
        PROVE  WidthInv' /\ CountInv'
    <2>1. /\ writes' = [writes EXCEPT ![conn] = Append(@, w)]
          /\ UNCHANGED <<width, setter, recWidth, ep1, ep3, frames>>
      BY <1>2 DEF SubmitWrite
    <2>2. /\ writes'[conn] = Append(writes[conn], w)
          /\ \A d \in Conns \ {conn} : writes'[d] = writes[d]
      BY <1>0, <2>1 DEF TypeOK
    <2>3. writes[conn] \in Seq(Writes)
      BY <1>0, WorkerTypes
    <2>4. ASSUME NEW d \in Conns, writes[d] # << >>
          PROVE  Head(writes'[d]) = Head(writes[d])
      <3>1. CASE d = conn
        BY <2>2, <2>3, <2>4, <3>1, QueueAppended
      <3>2. CASE d # conn
        BY <2>2, <3>2
      <3> QED BY <3>1, <3>2
    <2>5. \A d \in Conns : Unrecorded(d)' <=> Unrecorded(d)
      BY <2>1, <2>4, WorkerTypes DEF Unrecorded
    <2>6. \A d \in Conns : Unrecorded(d) => Head(writes[d])' = Head(writes[d])
      BY <2>4, WorkerTypes DEF Unrecorded
    <2>7. Recorders'
      BY <1>0, <2>1, <2>5, <2>6, RecordersKept
    <2>8. CASE w \in Widths
      <3>1. blocks' = [c \in Conns |-> Unsure(blocks[c])]
        BY <1>2, <2>8 DEF SubmitWrite
      <3>2. \A d \in Conns : \A i \in DOMAIN blocks'[d] : ~blocks'[d][i].sure
        BY <3>1, UnsureQueue, WorkerTypes
      <3>3. \A d \in Conns : ep3'[d] = "sleep" => 1 \in DOMAIN blocks'[d]
        BY <2>1, <3>1, UnsureQueue, WorkerTypes
      <3>4. SureOnes'
        BY <3>2 DEF SureOnes
      <3>5. CountInv'
        BY <3>2, <3>3 DEF CountInv
      <3> QED BY <2>7, <3>4, <3>5, WidthParts, PTL
    <2>9. CASE w \notin Widths
      <3>1. blocks' = blocks
        BY <1>2, <2>9 DEF SubmitWrite
      <3>2. WritingWidth' => WritingWidth
        <4>1. SUFFICES ASSUME NEW d \in Conns, NEW i \in DOMAIN writes'[d], writes'[d][i] \in Widths
                       PROVE  \E j \in DOMAIN writes[d] : writes[d][j] \in Widths
          BY DEF WritingWidth
        <4>2. CASE d = conn
          <5>1. \/ writes'[d][i] = w
                \/ \E j \in DOMAIN writes[conn] : writes'[d][i] = writes[conn][j]
            <6>1. writes'[d] = Append(writes[conn], w)
              BY <2>2, <4>2
            <6>2. \A k \in DOMAIN Append(writes[conn], w) :
                    \/ Append(writes[conn], w)[k] = w
                    \/ \E j \in DOMAIN writes[conn] : Append(writes[conn], w)[k] = writes[conn][j]
              BY <2>3, QueueAppended
            <6> QED BY <4>1, <6>1, <6>2
          <5> QED BY <2>9, <4>1, <4>2, <5>1
        <4>3. CASE d # conn
          BY <2>2, <4>1, <4>3
        <4> QED BY <4>2, <4>3
      <3>3. FewerBlocks
        BY <3>1 DEF FewerBlocks
      <3>4. SureOnes'
        BY <1>0, <2>1, <3>2, <3>3, SureKept
      <3>5. CountInv'
        BY <2>1, <3>1, CountKept
      <3> QED BY <2>7, <3>4, <3>5, WidthParts, PTL
    <2> QED BY <2>8, <2>9
  <1> QED BY <1>1, <1>2

\* What the host unlinks or cuts off keeps them together.
LEMMA UnlinkWidths ==
  ASSUME TypeOK, WidthInv, CountInv,
         \/ \E i \in 1..MaxWrites : UnlinkQueuedWrite(i)
         \/ \E i \in 1..MaxBlocks : UnlinkQueuedBlock(i)
         \/ UnlinkWrite \/ UnlinkBlock \/ Reconnect \/ Vanish
  PROVE  WidthInv' /\ CountInv'
  <1> USE DEF deviceVars, ep1Vars, ep3Vars
  <1>0. Recorders /\ SureOnes /\ conn \in Conns
    BY WidthParts DEF TypeOK
  <1>1. ASSUME NEW i \in 1..MaxWrites, UnlinkQueuedWrite(i)
        PROVE  WidthInv' /\ CountInv'
    <2>1. /\ i \in DOMAIN writes[conn] /\ (i # 1 \/ ep1[conn] = "idle")
          /\ writes' = [writes EXCEPT ![conn] = RemoveAt(@, i)]
          /\ UNCHANGED <<width, setter, recWidth, ep1, ep3, frames, blocks>>
      BY <1>1 DEF UnlinkQueuedWrite
    <2>2. /\ writes'[conn] = RemoveAt(writes[conn], i)
          /\ \A d \in Conns \ {conn} : writes'[d] = writes[d]
      BY <1>0, <2>1 DEF TypeOK
    <2>3. writes[conn] \in Seq(Writes)
      BY <1>0, WorkerTypes
    <2>4. FewerWrites
      <3>1. SUFFICES ASSUME NEW d \in Conns, NEW k \in DOMAIN writes'[d]
                     PROVE  \E j \in DOMAIN writes[d] : writes'[d][k] = writes[d][j]
        BY DEF FewerWrites
      <3>2. CASE d = conn
        <4>1. \A m \in DOMAIN RemoveAt(writes[conn], i) :
                \E j \in DOMAIN writes[conn] : RemoveAt(writes[conn], i)[m] = writes[conn][j]
          BY <2>1, <2>3, QueueRemoved
        <4> QED BY <2>2, <3>1, <3>2, <4>1
      <3>3. CASE d # conn
        BY <2>2, <3>1, <3>3
      <3> QED BY <3>2, <3>3
    <2>5. ASSUME NEW d \in Conns, ep1[d] # "idle"
          PROVE  Head(writes'[d]) = Head(writes[d])
      <3>1. CASE d = conn
        <4>1. RemoveAt(writes[conn], i)[1] = writes[conn][1]
          BY <2>1, <2>3, <2>5, <3>1, QueueRemoved
        <4> QED BY <2>2, <3>1, <4>1
      <3>2. CASE d # conn
        BY <2>2, <3>2
      <3> QED BY <3>1, <3>2
    <2>6. ASSUME NEW d \in Conns
          PROVE  /\ Unrecorded(d)' <=> Unrecorded(d)
                 /\ Unrecorded(d) => Head(writes[d])' = Head(writes[d])
      BY <2>1, <2>5 DEF Unrecorded
    <2>7. Recorders'
      BY <1>0, <2>1, <2>6, RecordersKept
    <2>8. SureOnes'
      <3>1. FewerBlocks
        BY <2>1 DEF FewerBlocks
      <3> QED BY <1>0, <2>1, <2>4, <3>1, FewerWidths, SureKept
    <2>9. CountInv'
      BY <2>1, CountKept
    <2> QED BY <2>7, <2>8, <2>9, WidthParts, PTL
  <1>2. ASSUME NEW i \in 1..MaxBlocks, UnlinkQueuedBlock(i)
        PROVE  WidthInv' /\ CountInv'
    <2>1. /\ i \in DOMAIN blocks[conn] /\ (i # 1 \/ ep3[conn] = "idle")
          /\ blocks' = [blocks EXCEPT ![conn] = RemoveAt(@, i)]
          /\ UNCHANGED <<width, setter, recWidth, writes, ep1, ep3, frames>>
      BY <1>2 DEF UnlinkQueuedBlock
    <2>2. /\ blocks'[conn] = RemoveAt(blocks[conn], i)
          /\ \A d \in Conns \ {conn} : blocks'[d] = blocks[d]
      BY <1>0, <2>1 DEF TypeOK
    <2>3. blocks[conn] \in Seq(Blocks)
      BY <1>0, WorkerTypes
    <2>4. FewerBlocks
      <3>1. SUFFICES ASSUME NEW d \in Conns, NEW k \in DOMAIN blocks'[d]
                     PROVE  \E j \in DOMAIN blocks[d] : blocks'[d][k] = blocks[d][j]
        BY DEF FewerBlocks
      <3>2. CASE d = conn
        <4>1. \A m \in DOMAIN RemoveAt(blocks[conn], i) :
                \E j \in DOMAIN blocks[conn] : RemoveAt(blocks[conn], i)[m] = blocks[conn][j]
          BY <2>1, <2>3, QueueRemoved
        <4> QED BY <2>2, <3>1, <3>2, <4>1
      <3>3. CASE d # conn
        BY <2>2, <3>1, <3>3
      <3> QED BY <3>2, <3>3
    <2>5. Recorders'
      BY <1>0, <2>1 DEF Recorders, Unrecorded
    <2>6. SureOnes'
      <3>1. WritingWidth' => WritingWidth
        BY <2>1 DEF WritingWidth
      <3> QED BY <1>0, <2>1, <2>4, <3>1, SureKept
    <2>7. ASSUME NEW d \in Conns, ep3[d] = "sleep"
          PROVE  blocks'[d][1] = blocks[d][1]
      <3>1. CASE d = conn
        <4>1. RemoveAt(blocks[conn], i)[1] = blocks[conn][1]
          BY <2>1, <2>3, <2>7, <3>1, QueueRemoved
        <4> QED BY <2>2, <3>1, <4>1
      <3>2. CASE d # conn
        BY <2>2, <3>2
      <3> QED BY <3>1, <3>2
    <2>8. CountInv'
      BY <2>1, <2>7, CountKept
    <2> QED BY <2>5, <2>6, <2>8, WidthParts, PTL
  <1>3. CASE UnlinkWrite
    <2>1. /\ writes[conn] # << >>
          /\ ep1' = [ep1 EXCEPT ![conn] = IF @ = "idle" THEN "unlinked" ELSE "forget"]
          /\ setter' = IF ep1[conn] = "record" /\ Head(writes[conn]) \in Widths /\ setter = conn
                       THEN 0 ELSE setter
          /\ UNCHANGED <<width, recWidth, writes, ep3, frames, blocks>>
      BY <1>3 DEF UnlinkWrite
    <2>2. ep1'[conn] # "record" /\ \A d \in Conns \ {conn} : ep1'[d] = ep1[d]
      BY <1>0, <2>1 DEF TypeOK
    <2>3. ASSUME NEW d \in Conns, setter' = d
          PROVE  /\ setter = d /\ recWidth'[d] = recWidth[d]
                 /\ Unrecorded(d)' <=> Unrecorded(d)
                 /\ Unrecorded(d) => Head(writes[d])' = Head(writes[d])
      <3>1. setter = d /\ setter' = setter
        BY <2>1, <2>3 DEF Conns
      <3>2. CASE d = conn
        <4>1. ~Unrecorded(d)
          <5>1. SUFFICES ASSUME Unrecorded(d)
                         PROVE  FALSE
            OBVIOUS
          <5>2. setter' = 0
            BY <2>1, <3>1, <3>2, <5>1 DEF Unrecorded
          <5> QED BY <2>3, <5>2 DEF Conns
        <4>2. ~Unrecorded(d)'
          BY <2>2, <3>2 DEF Unrecorded
        <4> QED BY <2>1, <3>1, <3>2, <4>1, <4>2
      <3>3. CASE d # conn
        <4>1. ep1'[d] = ep1[d]
          BY <2>2, <3>3
        <4> QED BY <2>1, <3>1, <4>1 DEF Unrecorded
      <3> QED BY <3>2, <3>3
    <2>4. Recorders'
      BY <1>0, <2>1, <2>3, RecordersKept
    <2>5. FewerBlocks /\ (WritingWidth' => WritingWidth)
      BY <2>1 DEF FewerBlocks, WritingWidth
    <2>6. CASE WritingWidth
      <3>1. SureOnes'
        BY <1>0, <2>5, <2>6, NoneSure
      <3>2. CountInv'
        BY <2>1, CountKept
      <3> QED BY <2>4, <3>1, <3>2, WidthParts, PTL
    <2>7. CASE ~WritingWidth
      <3>1. setter' = setter
        BY <1>0, <2>1, <2>7, FirstWrite
      <3>2. SureOnes'
        BY <1>0, <2>5, <3>1, SureKept
      <3>3. CountInv'
        BY <2>1, CountKept
      <3> QED BY <2>4, <3>2, <3>3, WidthParts, PTL
    <2> QED BY <2>6, <2>7
  <1>4. CASE UnlinkBlock
    <2>1. /\ ep3' = [ep3 EXCEPT ![conn] = IF @ = "idle" THEN "unlinked" ELSE "forget"]
          /\ frames' = [frames EXCEPT ![conn] = 0]
          /\ UNCHANGED <<width, setter, recWidth, writes, ep1, blocks>>
      BY <1>4 DEF UnlinkBlock, NoBlock
    <2>2. ep3'[conn] # "sleep"
      BY <1>0, <2>1 DEF TypeOK
    <2>3. \A d \in Conns \ {conn} : ep3'[d] = ep3[d] /\ frames'[d] = frames[d]
      BY <1>0, <2>1 DEF TypeOK
    <2>4. Recorders'
      BY <1>0, <2>1 DEF Recorders, Unrecorded
    <2>5. SureOnes'
      BY <1>0, <2>1 DEF SureOnes, WritingWidth
    <2>6. CountInv'
      BY <2>1, <2>2, <2>3, CountKept
    <2> QED BY <2>4, <2>5, <2>6, WidthParts, PTL
  <1>5. CASE Reconnect
    <2>1. /\ ep1[conn] \in {"idle", "unlinked"}
          /\ writes' = [writes EXCEPT ![conn] = << >>] /\ ep1' = [ep1 EXCEPT ![conn] = "idle"]
          /\ blocks' = [blocks EXCEPT ![conn] = << >>] /\ ep3' = [ep3 EXCEPT ![conn] = "idle"]
          /\ frames' = [frames EXCEPT ![conn] = 0]
          /\ UNCHANGED <<width, setter, recWidth>>
      BY <1>5 DEF Reconnect, NoBlock
    <2>2. /\ writes'[conn] = << >> /\ ep1'[conn] = "idle"
          /\ \A d \in Conns \ {conn} : writes'[d] = writes[d] /\ ep1'[d] = ep1[d]
      BY <1>0, <2>1 DEF TypeOK
    <2>3. /\ blocks'[conn] = << >> /\ ep3'[conn] = "idle"
          /\ \A d \in Conns \ {conn} : blocks'[d] = blocks[d] /\ ep3'[d] = ep3[d]
      BY <1>0, <2>1 DEF TypeOK
    <2>4. \A d \in Conns \ {conn} : frames'[d] = frames[d]
      BY <1>0, <2>1 DEF TypeOK
    <2>5. DOMAIN << >> = {}
      OBVIOUS
    <2>6. FewerWrites
      BY <2>2, <2>5 DEF FewerWrites
    <2>7. FewerBlocks
      BY <2>3, <2>5 DEF FewerBlocks
    <2>8. ASSUME NEW d \in Conns
          PROVE  /\ Unrecorded(d)' <=> Unrecorded(d)
                 /\ Unrecorded(d) => Head(writes[d])' = Head(writes[d])
      <3>1. CASE d = conn
        <4>1. ~Unrecorded(d) /\ ~Unrecorded(d)'
          BY <2>1, <2>2, <3>1 DEF Unrecorded
        <4> QED BY <3>1, <4>1
      <3>2. CASE d # conn
        <4>1. writes'[d] = writes[d] /\ ep1'[d] = ep1[d]
          BY <2>2, <3>2
        <4> QED BY <4>1 DEF Unrecorded
      <3> QED BY <3>1, <3>2
    <2>9. Recorders'
      BY <1>0, <2>1, <2>8, RecordersKept
    <2>10. SureOnes'
      BY <1>0, <2>1, <2>6, <2>7, FewerWidths, SureKept
    <2>11. CountInv'
      BY <2>1, <2>3, <2>4, CountKept
    <2> QED BY <2>9, <2>10, <2>11, WidthParts, PTL
  <1>6. CASE Vanish
    <2>1. UNCHANGED <<width, setter, recWidth, writes, ep1, ep3, frames, blocks>>
      BY <1>6 DEF Vanish
    <2>2. Recorders' /\ SureOnes'
      BY <1>0, <2>1 DEF Recorders, SureOnes, Unrecorded, WritingWidth
    <2>3. CountInv'
      BY <2>1, CountKept
    <2> QED BY <2>2, <2>3, WidthParts, PTL
  <1> QED BY <1>1, <1>2, <1>3, <1>4, <1>5, <1>6

\* A worker of EP1 OUT keeps them together: the recorder learns the width that its
\* connection has set, and no sure block sees the two apart.
LEMMA RegisterWidths ==
  ASSUME TypeOK, WidthInv, CountInv, NEW c \in Conns, RegisterWorker(c)
  PROVE  WidthInv' /\ CountInv'
  <1> USE DEF deviceVars, ep3Vars
  <1>0. /\ Recorders /\ SureOnes /\ writes[c] # << >>
        /\ writes[c] \in Seq(Writes) /\ Head(writes[c]) \in Writes
    <2>1. writes[c] # << >> /\ writes[c] \in Seq(Writes)
      BY WorkerTypes DEF RegisterWorker, WriteControl, WriteWidth, RecordWrite, ForgetWrite
    <2>2. Head(writes[c]) \in Writes
      BY <2>1, QueueTail
    <2> QED BY <2>1, <2>2, WidthParts
  <1>1. CASE WriteControl(c)
    <2>1. /\ ep1[c] # "record" /\ Head(writes[c]) \notin Widths
          /\ \E v : ep1' = [ep1 EXCEPT ![c] = v]
          /\ UNCHANGED <<width, setter, recWidth, writes, ep3, frames, blocks>>
      BY <1>1, WriteKinds DEF WriteControl, Applied
    <2>2. \A d \in Conns \ {c} : ep1'[d] = ep1[d]
      BY <2>1 DEF TypeOK
    <2>3. ASSUME NEW d \in Conns
          PROVE  /\ Unrecorded(d)' <=> Unrecorded(d)
                 /\ Unrecorded(d) => Head(writes[d])' = Head(writes[d])
      BY <2>1, <2>2 DEF Unrecorded
    <2>4. Recorders'
      BY <1>0, <2>1, <2>3, RecordersKept
    <2>5. SureOnes'
      BY <1>0, <2>1 DEF SureOnes, WritingWidth
    <2>6. CountInv'
      BY <2>1, CountKept
    <2> QED BY <2>4, <2>5, <2>6, WidthParts, PTL
  <1>2. CASE WriteWidth(c)
    <2>1. /\ Head(writes[c]) \in Widths /\ width' = Head(writes[c]).val
          /\ setter' = IF ep1[c] = "idle" THEN c ELSE 0
          /\ ep1' = [ep1 EXCEPT ![c] = IF @ = "idle" THEN "record" ELSE "forget"]
          /\ UNCHANGED <<recWidth, writes, ep3, frames, blocks>>
      BY <1>2 DEF WriteWidth, Applied
    <2>2. WritingWidth
      BY <1>0, <2>1, FirstWrite
    <2>3. SureOnes'
      <3>1. FewerBlocks
        BY <2>1 DEF FewerBlocks
      <3> QED BY <1>0, <2>2, <3>1, NoneSure
    <2>4. CountInv'
      BY <2>1, CountKept
    <2>5. Recorders'
      <3>1. SUFFICES ASSUME NEW d \in Conns, setter' = d
                     PROVE  Unrecorded(d)' /\ width' = (Head(writes[d]).val)'
        BY DEF Recorders
      <3>2. d = c /\ ep1[c] = "idle"
        BY <2>1, <3>1 DEF Conns
      <3>3. ep1'[c] = "record"
        BY <2>1, <3>2 DEF TypeOK
      <3> QED BY <2>1, <3>2, <3>3 DEF Unrecorded
    <2> QED BY <2>3, <2>4, <2>5, WidthParts, PTL
  <1>3. CASE RecordWrite(c) \/ ForgetWrite(c)
    <2>1. /\ writes' = [writes EXCEPT ![c] = Tail(@)] /\ ep1' = [ep1 EXCEPT ![c] = "idle"]
          /\ UNCHANGED <<width, setter, ep3, frames, blocks>>
      BY <1>3 DEF RecordWrite, ForgetWrite, NextWrite
    <2>2. /\ writes'[c] = Tail(writes[c]) /\ ep1'[c] = "idle"
          /\ \A d \in Conns \ {c} : writes'[d] = writes[d] /\ ep1'[d] = ep1[d]
      BY <2>1 DEF TypeOK
    <2>3. FewerWrites
      <3>1. \A i \in DOMAIN Tail(writes[c]) :
               \E j \in DOMAIN writes[c] : Tail(writes[c])[i] = writes[c][j]
        BY <1>0, QueueTail
      <3>2. SUFFICES ASSUME NEW d \in Conns, NEW k \in DOMAIN writes'[d]
                     PROVE  \E j \in DOMAIN writes[d] : writes'[d][k] = writes[d][j]
        BY DEF FewerWrites
      <3>3. CASE d = c
        BY <2>2, <3>1, <3>2, <3>3
      <3>4. CASE d # c
        BY <2>2, <3>2, <3>4
      <3> QED BY <3>3, <3>4
    <2>4. FewerBlocks
      BY <2>1 DEF FewerBlocks
    <2>5. SureOnes'
      BY <1>0, <2>1, <2>3, <2>4, FewerWidths, SureKept
    <2>6. \A d \in Conns \ {c} :
            /\ recWidth'[d] = recWidth[d] /\ (Unrecorded(d)' <=> Unrecorded(d))
            /\ Unrecorded(d) => Head(writes[d])' = Head(writes[d])
      <3>1. SUFFICES ASSUME NEW d \in Conns \ {c}
                     PROVE  /\ recWidth'[d] = recWidth[d] /\ (Unrecorded(d)' <=> Unrecorded(d))
                            /\ Unrecorded(d) => Head(writes[d])' = Head(writes[d])
        OBVIOUS
      <3>2. recWidth'[d] = recWidth[d]
        <4>1. recWidth' = recWidth \/ \E v : recWidth' = [recWidth EXCEPT ![c] = v]
          BY <1>3 DEF RecordWrite, ForgetWrite
        <4> QED BY <4>1 DEF TypeOK
      <3>3. writes'[d] = writes[d] /\ ep1'[d] = ep1[d]
        BY <2>2
      <3> QED BY <3>2, <3>3 DEF Unrecorded
    <2>7. ~Unrecorded(c)'
      BY <2>2 DEF Unrecorded
    <2>8. CASE ~Unrecorded(c)
      <3>1. recWidth' = recWidth
        BY <1>3, <2>8 DEF RecordWrite, ForgetWrite, Unrecorded
      <3>2. ASSUME NEW d \in Conns, setter' = d
            PROVE  /\ setter = d /\ recWidth'[d] = recWidth[d]
                   /\ Unrecorded(d)' <=> Unrecorded(d)
                   /\ Unrecorded(d) => Head(writes[d])' = Head(writes[d])
        BY <2>1, <2>6, <2>7, <2>8, <3>1, <3>2
      <3>3. Recorders'
        BY <1>0, <2>1, <3>2, RecordersKept
      <3>4. CountInv'
        BY <2>1, <3>1, CountKept
      <3> QED BY <2>5, <3>3, <3>4, WidthParts, PTL
    <2>9. CASE Unrecorded(c)
      <3>1. recWidth' = [recWidth EXCEPT ![c] = UnitsPerFrame(Head(writes[c]).val)]
        BY <1>3, <2>9 DEF RecordWrite, ForgetWrite, Unrecorded
      <3>2. recWidth'[c] = UnitsPerFrame(Head(writes[c]).val)
        BY <3>1 DEF TypeOK
      <3>3. Recorders'
        <4>1. SUFFICES ASSUME NEW d \in Conns, setter = d
                       PROVE  /\ Unrecorded(d)' => width = (Head(writes[d]).val)'
                              /\ ~Unrecorded(d)' => recWidth'[d] = UnitsPerFrame(width)
          BY <2>1 DEF Recorders
        <4>2. CASE d = c
          BY <1>0, <2>7, <2>9, <3>2, <4>1, <4>2 DEF Recorders
        <4>3. CASE d # c
          <5>1. /\ recWidth'[d] = recWidth[d] /\ (Unrecorded(d)' <=> Unrecorded(d))
                /\ Unrecorded(d) => Head(writes[d])' = Head(writes[d])
            BY <2>6, <4>3
          <5>2. /\ Unrecorded(d) => width = Head(writes[d]).val
                /\ ~Unrecorded(d) => recWidth[d] = UnitsPerFrame(width)
            <6>1. Recorders
              BY <1>0
            <6> QED BY <4>1, <6>1 DEF Recorders
          <5> QED BY <5>1, <5>2
        <4> QED BY <4>2, <4>3
      <3>4. WritingWidth
        BY <2>9, UnrecordedWrites
      <3>5. CountInv'
        <4>1. SUFFICES ASSUME NEW d \in Conns, ep3[d] = "sleep", blocks[d][1].sure
                       PROVE  FALSE
          BY <2>1 DEF CountInv
        <4>2. blocks[d] # << >> /\ blocks[d] \in Seq(Blocks)
          BY <4>1, WorkerTypes
        <4>3. 1 \in DOMAIN blocks[d]
          BY <4>2, QueueTail
        <4> QED BY <1>0, <3>4, <4>1, <4>3 DEF SureOnes
      <3> QED BY <2>5, <3>3, <3>5, WidthParts, PTL
    <2> QED BY <2>8, <2>9
  <1> QED BY <1>1, <1>2, <1>3 DEF RegisterWorker

\* A worker of EP3 OUT keeps them together: a sure block is counted by the width
\* that its recorder has.
LEMMA BlockWidths ==
  ASSUME TypeOK, WidthInv, CountInv, NEW c \in Conns, BlockWorker(c)
  PROVE  WidthInv' /\ CountInv'
  <1> USE DEF deviceVars, ep1Vars
  <1>0. /\ Recorders /\ SureOnes /\ blocks[c] # << >> /\ blocks[c] \in Seq(Blocks)
        /\ 1 \in DOMAIN blocks[c] /\ Head(blocks[c]) = blocks[c][1]
    <2>1. blocks[c] # << >> /\ blocks[c] \in Seq(Blocks)
      BY WorkerTypes DEF BlockWorker, StartBlock, CompleteBlock, DropBlock
    <2>2. 1 \in DOMAIN blocks[c] /\ Head(blocks[c]) = blocks[c][1]
      BY <2>1, QueueTail
    <2> QED BY <2>1, <2>2, WidthParts
  <1>1. CASE StartBlock(c)
    <2>1. /\ UNCHANGED <<width, setter, recWidth, writes, ep1, blocks>>
          /\ \/ /\ ep3' = [ep3 EXCEPT ![c] = "sleep"]
                /\ frames' = [frames EXCEPT ![c] =
                                Head(blocks[c]).units \div UnitsPerFrame(width)]
             \/ ep3' = [ep3 EXCEPT ![c] = "forget"] /\ UNCHANGED frames
      BY <1>1 DEF StartBlock
    <2>2. Recorders' /\ SureOnes'
      BY <1>0, <2>1 DEF Recorders, SureOnes, Unrecorded, WritingWidth
    <2>3. CountInv'
      <3>1. SUFFICES ASSUME NEW d \in Conns, ep3'[d] = "sleep", blocks[d][1].sure
                     PROVE  frames'[d] = blocks[d][1].units \div recWidth[d]
        BY <2>1 DEF CountInv
      <3>2. CASE d = c
        <4>1. ep3' # [ep3 EXCEPT ![c] = "forget"]
          BY <3>1, <3>2 DEF TypeOK
        <4>2. frames'[c] = blocks[c][1].units \div UnitsPerFrame(width)
          <5>1. frames' = [frames EXCEPT ![c] =
                              Head(blocks[c]).units \div UnitsPerFrame(width)]
            BY <2>1, <4>1
          <5>2. frames'[c] = Head(blocks[c]).units \div UnitsPerFrame(width)
            BY <5>1 DEF TypeOK
          <5> QED BY <1>0, <5>2
        <4>3. setter = c /\ ~WritingWidth
          BY <1>0, <3>1, <3>2 DEF SureOnes
        <4>4. ~Unrecorded(c)
          BY <4>3, UnrecordedWrites
        <4>5. recWidth[c] = UnitsPerFrame(width)
          BY <1>0, <4>3, <4>4 DEF Recorders
        <4> QED BY <3>2, <4>2, <4>5
      <3>3. CASE d # c
        <4>1. ep3'[d] = ep3[d] /\ frames'[d] = frames[d]
          BY <2>1, <3>3 DEF TypeOK
        <4> QED BY <3>1, <4>1 DEF CountInv
      <3> QED BY <3>2, <3>3
    <2> QED BY <2>2, <2>3, WidthParts, PTL
  <1>2. CASE CompleteBlock(c) \/ DropBlock(c)
    <2>1. /\ blocks' = [blocks EXCEPT ![c] = Tail(@)] /\ ep3' = [ep3 EXCEPT ![c] = "idle"]
          /\ frames' = [frames EXCEPT ![c] = 0]
          /\ UNCHANGED <<width, setter, recWidth, writes, ep1>>
      BY <1>2 DEF CompleteBlock, DropBlock, NextBlock, NoBlock
    <2>2. /\ blocks'[c] = Tail(blocks[c]) /\ ep3'[c] = "idle"
          /\ \A d \in Conns \ {c} : blocks'[d] = blocks[d] /\ ep3'[d] = ep3[d]
      BY <2>1 DEF TypeOK
    <2>3. \A d \in Conns \ {c} : frames'[d] = frames[d]
      BY <2>1 DEF TypeOK
    <2>4. FewerBlocks
      <3>1. \A i \in DOMAIN Tail(blocks[c]) :
               \E j \in DOMAIN blocks[c] : Tail(blocks[c])[i] = blocks[c][j]
        BY <1>0, QueueTail
      <3>2. SUFFICES ASSUME NEW d \in Conns, NEW k \in DOMAIN blocks'[d]
                     PROVE  \E j \in DOMAIN blocks[d] : blocks'[d][k] = blocks[d][j]
        BY DEF FewerBlocks
      <3>3. CASE d = c
        BY <2>2, <3>1, <3>2, <3>3
      <3>4. CASE d # c
        BY <2>2, <3>2, <3>4
      <3> QED BY <3>3, <3>4
    <2>5. Recorders'
      BY <1>0, <2>1 DEF Recorders, Unrecorded
    <2>6. SureOnes'
      <3>1. WritingWidth' => WritingWidth
        BY <2>1 DEF WritingWidth
      <3> QED BY <1>0, <2>1, <2>4, <3>1, SureKept
    <2>7. CountInv'
      BY <2>1, <2>2, <2>3, CountKept
    <2> QED BY <2>5, <2>6, <2>7, WidthParts, PTL
  <1> QED BY <1>1, <1>2 DEF BlockWorker

\* Every step keeps the widths together.
LEMMA WidthStep ==
  ASSUME TypeOK, WidthInv, CountInv, [Next]_vars
  PROVE  WidthInv' /\ CountInv'
  <1>1. CASE Tick \/ UNCHANGED vars
    <2>1. UNCHANGED <<width, setter, recWidth, writes, ep1, ep3, frames, blocks>>
      BY <1>1 DEF Tick, vars, deviceVars, ep1Vars, ep3Vars
    <2>2. Recorders' /\ SureOnes'
      BY <2>1, WidthParts DEF Recorders, SureOnes, Unrecorded, WritingWidth
    <2>3. CountInv'
      BY <2>1, CountKept
    <2> QED BY <2>2, <2>3, WidthParts, PTL
  <1>2. CASE Host
    BY <1>2, SubmitWidths, UnlinkWidths DEF Host, Writes
  <1>3. ASSUME NEW c \in Conns, RegisterWorker(c)
        PROVE  WidthInv' /\ CountInv'
    BY <1>3, RegisterWidths
  <1>4. ASSUME NEW c \in Conns, BlockWorker(c)
        PROVE  WidthInv' /\ CountInv'
    BY <1>4, BlockWidths
  <1> QED BY <1>1, <1>2, <1>3, <1>4 DEF Next

-----------------------------------------------------------------------------
\* A line written is right when it is sure.
LEMMA LogStep ==
  ASSUME TypeOK, CountInv, FramesLogged, [Next]_vars
  PROVE  FramesLogged'
  <1> USE DEF deviceVars, ep1Vars, ep3Vars
  <1>1. CASE line' = line
    BY <1>1 DEF FramesLogged
  <1>2. ASSUME NEW c \in Conns, CompleteBlock(c)
        PROVE  FramesLogged'
    <2>1. /\ ep3[c] = "sleep"
          /\ line' = [frames |-> frames[c], logged |-> Head(blocks[c]).units \div recWidth[c],
                      sure |-> Head(blocks[c]).sure]
      BY <1>2 DEF CompleteBlock
    <2>2. Head(blocks[c]) = blocks[c][1]
      <3>1. blocks[c] # << >> /\ blocks[c] \in Seq(Blocks)
        BY <2>1, WorkerTypes
      <3> QED BY <3>1, QueueTail
    <2>3. blocks[c][1].sure => frames[c] = blocks[c][1].units \div recWidth[c]
      BY <2>1 DEF CountInv
    <2> QED BY <2>1, <2>2, <2>3 DEF FramesLogged
  <1>3. Host => line' = line
    BY DEF Host, SubmitBlock, SubmitWrite, UnlinkQueuedWrite, UnlinkQueuedBlock, UnlinkWrite,
           UnlinkBlock, Reconnect, Vanish
  <1>4. \A c \in Conns : RegisterWorker(c) => line' = line
    BY DEF RegisterWorker, WriteControl, WriteWidth, RecordWrite, ForgetWrite, NextWrite
  <1>5. \A c \in Conns : StartBlock(c) \/ DropBlock(c) => line' = line
    BY DEF StartBlock, DropBlock
  <1>6. Tick \/ UNCHANGED vars => line' = line
    BY DEF Tick, vars
  <1> QED BY <1>1, <1>2, <1>3, <1>4, <1>5, <1>6 DEF Next, BlockWorker

-----------------------------------------------------------------------------
(* The inductive invariant. *)

\* It holds at the start.
LEMMA IInvInit == Init => IInv
  <1> SUFFICES ASSUME Init
               PROVE  IInv
    OBVIOUS
  <1>1. TypeOK
    <2>1. << >> \in Seq(Controls \cup Widths) /\ << >> \in Seq([units : BlockUnits, sure : BOOLEAN])
      BY EmptySeq
    <2>2. conn \in Conns
      BY ConstantsAssumption DEF Init, Conns, ConstantsAssumption
    <2>3. /\ writes \in [Conns -> Seq(Controls \cup Widths)]
          /\ blocks \in [Conns -> Seq([units : BlockUnits, sure : BOOLEAN])]
      BY <2>1 DEF Init
    <2>4. sent \in [{"blocks", "writes"} -> Nat]
      BY DEF Init
    <2>5. line \in [frames : Nat, logged : Nat, sure : BOOLEAN]
      BY DEF Init, NoLine
    <2>6. /\ recWidth \in [Conns -> {1, 2}]
          /\ ep1 \in [Conns -> {"idle", "unlinked", "record", "forget"}]
          /\ ep3 \in [Conns -> {"idle", "unlinked", "sleep", "forget"}]
          /\ timer \in [Conns -> Nat] /\ frames \in [Conns -> Nat] /\ charged \in [Conns -> BOOLEAN]
      BY DEF Init
    <2>7. \A c \in Conns : ep3[c] = "idle" /\ ep1[c] = "idle"
      BY DEF Init
    <2> QED BY <2>2, <2>3, <2>4, <2>5, <2>6, <2>7 DEF Init, TypeOK
  <1>2. PaceInv
    <2>1. \A c \in Conns : ~charged[c]
      BY DEF Init
    <2>2. Load = {} /\ \A t \in Nat : LoadBy(t) = {}
      BY <2>1 DEF Load, LoadBy
    <2>3. IsFiniteSet({}) /\ Cardinality({}) = 0
      BY FS_EmptySet
    <2>4. accepted = 0 /\ consumed = 0
      BY DEF Init
    <2> QED BY <2>1, <2>2, <2>3, <2>4 DEF PaceInv
  <1>3. WidthInv
    <2>1. \A c \in Conns : setter # c
      BY DEF Init, Conns
    <2>2. \A c \in Conns : DOMAIN blocks[c] = {}
      BY DEF Init
    <2> QED BY <2>1, <2>2 DEF WidthInv
  <1>4. CountInv
    <2>1. \A c \in Conns : ep3[c] # "sleep"
      BY DEF Init
    <2> QED BY <2>1 DEF CountInv
  <1>5. FramesLogged
    BY DEF Init, NoLine, FramesLogged
  <1> QED BY <1>1, <1>2, <1>3, <1>4, <1>5 DEF IInv

\* Every step keeps it.
LEMMA IInvStep == IInv /\ [Next]_vars => IInv'
  <1> SUFFICES ASSUME IInv, [Next]_vars
               PROVE  IInv'
    OBVIOUS
  <1>1. TypeOK /\ PaceInv /\ WidthInv /\ CountInv /\ FramesLogged
    BY DEF IInv
  <1>2. TypeOK'
    BY <1>1, TypeStep
  <1>3. PaceInv'
    BY <1>1, <1>2, PaceStep
  <1>4. WidthInv' /\ CountInv'
    BY <1>1, WidthStep
  <1>5. FramesLogged'
    BY <1>1, LogStep
  <1> QED BY <1>2, <1>3, <1>4, <1>5 DEF IInv

\* The invariant holds of every reachable state.
THEOREM IInvAlways == Spec => []IInv
  BY IInvInit, IInvStep, PTL DEF Spec

-----------------------------------------------------------------------------
(* The theorems. *)

\* Every variable keeps its type, and a worker that is in the middle of a job has
\* one.
THEOREM TypeCorrect == Spec => []TypeOK
  <1>1. IInv => TypeOK
    BY DEF IInv
  <1> QED BY <1>1, IInvAlways, PTL

\* The port accepts blocks at the I2S rate at most, whatever the host unlinks,
\* restarts or resizes, and however many workers of ended connections go on.
THEOREM PortIsPaced == Spec => []I2sPaced
  <1>1. PaceInv /\ TypeOK => I2sPaced
    <2>1. SUFFICES ASSUME PaceInv, TypeOK, realtime
                   PROVE  accepted <= age
      BY DEF I2sPaced
    <2>2. age \in Nat /\ accepted \in Nat
      BY <2>1 DEF TypeOK
    <2>3. accepted + Cardinality(LoadBy(age)) <= age
      BY <2>1, <2>2 DEF PaceInv
    <2>4. IsFiniteSet(Load) /\ LoadBy(age) \subseteq Load
      BY <2>1 DEF PaceInv, LoadBy
    <2>5. Cardinality(LoadBy(age)) \in Nat
      BY <2>4, PartOfLoad
    <2> QED BY <2>2, <2>3, <2>5
  <1>2. IInv => I2sPaced
    BY <1>1 DEF IInv
  <1> QED BY <1>2, IInvAlways, PTL

\* The log shows the frames the device counted, of every block that is sure: its
\* own connection wrote the device's width last and did not unlink that write
\* before it was logged, and no width write of any connection was under way with
\* the block.
THEOREM LogCountsFrames == Spec => []FramesLogged
  <1>1. IInv => FramesLogged
    BY DEF IInv
  <1> QED BY <1>1, IInvAlways, PTL
=============================================================================
