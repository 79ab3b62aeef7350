-------------------------- MODULE RegisterBusProofs --------------------------
(***************************************************************************)
(* Proofs about RegisterBus, for any registers, plans and number of         *)
(* connections: whose replies a client reads, and that the registers with   *)
(* their queue and workers implement RegisterPort.                          *)
(***************************************************************************)
EXTENDS RegisterBus, SequenceTheorems, FiniteSetTheorems, WellFoundedInduction, TLAPS

-----------------------------------------------------------------------------
(* The register file. *)

States ==
    [plain : [Plain -> Nat], inputGain : 0..7, outputGain : 0..3, rate : 0..MaxRate,
     streaming : BOOLEAN, i2s : BOOLEAN, page : Nat, ptr : Nat, stage : {0, 1},
     stopped : BOOLEAN]

\* A unit that has just been powered up.
LEMMA PoweredUpType == PoweredUp \in States
<1>1. MaxRate \in Nat
  BY RegisterAssumption DEF RegisterAssumption
<1> QED BY <1>1 DEF PoweredUp, States, FactoryPage

\* A remainder by the size of the page is a place in it.
LEMMA PageType ==
    ASSUME NEW i \in Nat PROVE i % PageSize \in 0..(PageSize - 1) /\ i % PageSize \in Nat
<1>1. PageSize \in Nat /\ PageSize > 0
  BY RegisterAssumption DEF RegisterAssumption
<1> QED BY <1>1

\* What a read returns.
LEMMA ReadingType == ASSUME NEW s \in States, NEW r PROVE Reading(s, r) \in Nat
<1>1. \A x \in DOMAIN Served : Served[x] \in Nat
  BY RegisterAssumption DEF RegisterAssumption
<1>2. /\ \A x \in Plain : s.plain[x] \in Nat
      /\ s.inputGain \in Nat /\ s.outputGain \in Nat /\ s.rate \in Nat
  BY RegisterAssumption DEF States, RegisterAssumption
<1>3. Word[s.ptr % PageSize] \in Nat
  <2>1. s.ptr % PageSize \in 0..(PageSize - 1)
    BY PageType DEF States
  <2> QED BY <2>1, RegisterAssumption DEF RegisterAssumption
<1> QED BY <1>1, <1>2, <1>3 DEF Reading, StopStatus

\* What a read leaves.
LEMMA AfterReadType == ASSUME NEW s \in States, NEW r PROVE AfterRead(s, r) \in States
<1>1. (s.ptr + 1) % PageSize \in Nat /\ s.ptr + 1 \in Nat
  BY PageType DEF States
<1>2. [s EXCEPT !.ptr = s.ptr + 1] \in States
  BY <1>1 DEF States
<1>3. [s EXCEPT !.ptr = (s.ptr + 1) % PageSize] \in States
  BY <1>1 DEF States
<1> QED BY <1>2, <1>3 DEF AfterRead

\* What a write leaves.
LEMMA AfterWriteType ==
    ASSUME NEW s \in States, NEW r, NEW v \in Nat PROVE AfterWrite(s, r, v) \in States
<1>1. MaxRate \in Nat
  BY RegisterAssumption DEF RegisterAssumption
<1>2. ASSUME r \in Plain PROVE [s EXCEPT !.plain[r] = v] \in States
  BY <1>2 DEF States
<1>3. [s EXCEPT !.inputGain = v % 8] \in States /\ [s EXCEPT !.outputGain = v % 4] \in States
  BY DEF States
<1>4. [s EXCEPT !.rate = RateOf(v)] \in States
  BY <1>1 DEF States, RateOf
<1>5. WriteStreamCtrl(s, v) \in States
  BY DEF States, WriteStreamCtrl
<1>6. WriteI2sCtrl(s, v) \in States
  BY DEF States, WriteI2sCtrl
<1>7. [s EXCEPT !.page = v, !.ptr = 0] \in States
  BY DEF States
<1>8. WriteBootloaderEntry(s, v) \in States
  BY DEF States, WriteBootloaderEntry
<1> QED BY <1>2, <1>3, <1>4, <1>5, <1>6, <1>7, <1>8 DEF AfterWrite
-----------------------------------------------------------------------------
(* Sequences. *)

\* Removing an element leaves elements of the same set, and the first one in
\* its place unless it is the one.
LEMMA RemoveAtProperties ==
    ASSUME NEW S, NEW s \in Seq(S), NEW k \in 1..Len(s)
    PROVE  /\ RemoveAt(s, k) \in Seq(S)
           /\ k # 1 => RemoveAt(s, k) # << >> /\ Head(RemoveAt(s, k)) = Head(s)
<1> DEFINE n == Len(s)
           p == SubSeq(s, 1, k - 1)
           q == SubSeq(s, k + 1, n)
<1>1. n \in Nat /\ \A i \in 1..n : s[i] \in S
  BY LenProperties, ElementOfSeq
<1>2. p \in Seq(S) /\ (k # 1 => Len(p) = k - 1 /\ p[1] = s[1])
  <2>1. \A i \in 1..(k - 1) : s[i] \in S
    BY <1>1
  <2>2. 1 \in Int /\ k - 1 \in Int
    BY <1>1
  <2>3. /\ p \in Seq(S) /\ Len(p) = IF 1 <= k - 1 THEN (k - 1) - 1 + 1 ELSE 0
        /\ \A i \in 1..((k - 1) - 1 + 1) : p[i] = s[1 + i - 1]
    BY <2>1, <2>2, SubSeqProperties
  <2> QED BY <2>3, <1>1
<1>3. q \in Seq(S) /\ Len(q) \in Nat
  <2>1. \A i \in (k + 1)..n : s[i] \in S
    BY <1>1
  <2>2. k + 1 \in Int /\ n \in Int
    BY <1>1
  <2> QED BY <2>1, <2>2, SubSeqProperties, LenProperties
<1> HIDE DEF p, q
<1>4. RemoveAt(s, k) = p \o q
  BY DEF RemoveAt, p, q
<1>5. /\ p \o q \in Seq(S) /\ Len(p \o q) = Len(p) + Len(q)
      /\ \A i \in 1..(Len(p) + Len(q)) :
            (p \o q)[i] = IF i <= Len(p) THEN p[i] ELSE q[i - Len(p)]
  BY <1>2, <1>3, ConcatProperties
<1>6. ASSUME k # 1 PROVE p \o q # << >> /\ Head(p \o q) = Head(s)
  <2>1. Len(p \o q) > 0 /\ 1 \in 1..(Len(p) + Len(q)) /\ 1 <= Len(p)
    BY <1>1, <1>2, <1>3, <1>5, <1>6
  <2>2. (p \o q)[1] = s[1]
    BY <2>1, <1>2, <1>5, <1>6
  <2>3. p \o q # << >>
    BY <2>1, EmptySeq
  <2>4. \A t : Head(t) = t[1]
    OBVIOUS
  <2> QED BY <2>2, <2>3, <2>4
<1> QED BY <1>4, <1>5, <1>6

\* What appending keeps.
LEMMA AppendKeeps ==
    ASSUME NEW S, NEW s \in Seq(S), NEW e \in S
    PROVE  /\ Append(s, e) \in Seq(S) /\ Append(s, e) # << >>
           /\ Len(Append(s, e)) = Len(s) + 1 /\ Append(s, e)[Len(s) + 1] = e
           /\ \A i \in 1..Len(s) : Append(s, e)[i] = s[i]
           /\ Head(Append(s, e)) = IF s = << >> THEN e ELSE Head(s)
BY AppendProperties, HeadTailAppend

-----------------------------------------------------------------------------
(* The types. *)

(* The types, by the part of the state.  A worker with no URB stands at the    *)
(* first frame of the next, and a poll has a reply in hand just when it is     *)
(* about to claim its URB.                                                  *)
Kinds == {"urbs", "polls", "unlinks", "settles"}
History == Seq([op : {"read", "write", "settle"}, reg : Registers, val : Nat])

FileTypes == st \in States /\ rebooting \in BOOLEAN /\ hist \in History /\ fired \in Nat
ConnTypes ==
    /\ phase \in [Conns -> {"new", "open", "closing", "gone"}]
    /\ cancelled \in [Conns -> BOOLEAN]
Fits ==
    \A c \in Conns : /\ jobs[c] # << >> => next[c] \in 1..Len(Head(jobs[c]))
                     /\ jobs[c] = << >> => next[c] = 1
OutTypes == jobs \in [Conns -> Seq(plan.menu)] /\ next \in [Conns -> Nat \ {0}] /\ Fits
InHand ==
    \A c \in Conns : IF worker[c] = "claim" THEN hand[c] \in Replies ELSE hand[c] = NoReply
InTypes ==
    /\ polls \in [Conns -> Nat]
    /\ worker \in [Conns -> {"idle", "look", "empty", "wait", "claim"}]
    /\ woken \in [Conns -> BOOLEAN] /\ unlinked \in [Conns -> BOOLEAN]
    /\ hand \in [Conns -> Replies \cup {NoReply}]
    /\ InHand
HistTypes ==
    /\ sent \in [Kinds -> Nat] /\ reads \in [Conns -> Nat] /\ got \in [Conns -> Seq(Replies)]
    /\ found \in [Conns -> {"workers", "replies", "nothing"}] /\ tidy \in [Conns -> BOOLEAN]

TypeInv ==
    /\ plan \in Plans /\ replies \in Seq(Replies)
    /\ FileTypes /\ ConnTypes /\ OutTypes /\ InTypes /\ HistTypes

\* They are what TypeOK says, and more.
LEMMA TypeInvOK == TypeInv => TypeOK
BY DEF TypeInv, FileTypes, ConnTypes, OutTypes, Fits, InTypes, HistTypes, TypeOK, States, Kinds,
       History

\* The URBs of a plan.
LEMMA MenuType ==
    ASSUME plan \in Plans, NEW u \in plan.menu
    PROVE  u \in Seq(Frames) /\ u # << >> /\ Len(u) \in Nat \ {0}
<1>1. u \in Seq(Frames) /\ u # << >>
  BY BusAssumption DEF BusAssumption
<1> QED BY <1>1, EmptySeq, Zenon

\* The frame a worker is at.
LEMMA FrameType ==
    ASSUME TypeInv, NEW c \in Conns, jobs[c] # << >>
    PROVE  /\ Head(jobs[c])[next[c]] \in Frames /\ Head(jobs[c]) \in plan.menu
           /\ Tail(jobs[c]) \in Seq(plan.menu)
<1>1. plan \in Plans /\ jobs[c] \in Seq(plan.menu) /\ next[c] \in 1..Len(Head(jobs[c]))
  BY DEF TypeInv, OutTypes, Fits
<1>2. Head(jobs[c]) \in plan.menu /\ Tail(jobs[c]) \in Seq(plan.menu)
  BY <1>1, HeadTailProperties
<1>3. Head(jobs[c]) \in Seq(Frames)
  BY <1>1, <1>2, MenuType
<1> QED BY <1>1, <1>2, <1>3, ElementOfSeq

\* Moving on to the next frame, or the next URB.
LEMMA AdvanceType ==
    ASSUME TypeInv, NEW c \in Conns, jobs[c] # << >>, Advance(c), UNCHANGED plan
    PROVE  OutTypes'
<1>1. /\ next[c] \in Nat \ {0} /\ next[c] \in 1..Len(Head(jobs[c]))
      /\ plan \in Plans /\ jobs \in [Conns -> Seq(plan.menu)] /\ next \in [Conns -> Nat \ {0}]
      /\ \A d \in Conns : /\ jobs[d] # << >> => next[d] \in 1..Len(Head(jobs[d]))
                          /\ jobs[d] = << >> => next[d] = 1
  BY DEF TypeInv, OutTypes, Fits
<1>2. Len(Head(jobs[c])) \in Nat
  BY <1>1, FrameType, MenuType
<1>3. CASE next[c] < Len(Head(jobs[c]))
  <2>1. jobs' = jobs /\ next' = [next EXCEPT ![c] = next[c] + 1]
    BY <1>3 DEF Advance
  <2>2. next[c] + 1 \in 1..Len(Head(jobs[c])) /\ next[c] + 1 \in Nat \ {0}
    BY <1>1, <1>2, <1>3
  <2> QED BY <2>1, <2>2, <1>1 DEF OutTypes, Fits
<1>4. CASE ~(next[c] < Len(Head(jobs[c])))
  <2>1. jobs' = [jobs EXCEPT ![c] = Tail(jobs[c])] /\ next' = [next EXCEPT ![c] = 1]
    BY <1>4 DEF Advance
  <2>2. Tail(jobs[c]) \in Seq(plan.menu)
    BY FrameType
  <2>3. Tail(jobs[c]) # << >> => 1 \in 1..Len(Head(Tail(jobs[c])))
    <3>1. SUFFICES ASSUME Tail(jobs[c]) # << >> PROVE 1 \in 1..Len(Head(Tail(jobs[c])))
      OBVIOUS
    <3>2. Head(Tail(jobs[c])) \in plan.menu
      BY <2>2, <3>1, HeadTailProperties
    <3>3. Len(Head(Tail(jobs[c]))) \in Nat \ {0}
      BY <3>2, <1>1, MenuType, Zenon
    <3>4. \A n \in Nat \ {0} : 1 \in 1..n
      OBVIOUS
    <3> QED BY <3>3, <3>4, Zenon
  <2> QED BY <2>1, <2>2, <2>3, <1>1 DEF OutTypes, Fits
<1> QED BY <1>3, <1>4

\* Counting one thing sent.
LEMMA CountType ==
    ASSUME HistTypes, NEW k \in Kinds, Count(k)
    PROVE  sent' \in [Kinds -> Nat]
BY DEF Count, HistTypes, Kinds

\* A connection that comes or goes.
LEMMA ConnTypesStep ==
    ASSUME TypeInv, NEW c \in Conns, Open(c) \/ End(c) \/ Release(c) \/ WriterFails(c) \/ Vanish(c)
    PROVE  TypeInv'
<1>1. UNCHANGED <<plan, replies, outVars, inVars, fileVars, sent, reads, got, tidy>>
  BY DEF Open, End, Release, WriterFails, Vanish, histVars
<1>2. ConnTypes'
  BY DEF Open, End, Release, WriterFails, Vanish, TypeInv, ConnTypes
<1>3. FileTypes' /\ OutTypes' /\ InTypes'
  BY <1>1 DEF fileVars, outVars, inVars, TypeInv, FileTypes, OutTypes, Fits, InTypes, InHand
<1>4. found' \in [Conns -> {"workers", "replies", "nothing"}]
  BY DEF Open, End, Release, WriterFails, Vanish, TypeInv, HistTypes, histVars
<1>5. HistTypes'
  BY <1>1, <1>4 DEF HistTypes, TypeInv
<1> QED BY <1>1, <1>2, <1>3, <1>5 DEF TypeInv

\* A host that sends an URB, or unlinks one.
LEMMA HostTypesStep ==
    ASSUME TypeInv, NEW c \in Conns,
           \/ \E u \in plan.menu : SubmitOut(c, u)
           \/ SubmitPoll(c)
           \/ \E i \in 1..plan.urbs : UnlinkOut(c, i)
           \/ UnlinkPoll(c)
    PROVE  TypeInv'
<1>1. UNCHANGED <<plan, replies, connVars, fileVars, reads, got, found>>
  BY DEF SubmitOut, SubmitPoll, UnlinkOut, UnlinkPoll
<1>2. FileTypes' /\ ConnTypes'
  BY <1>1 DEF fileVars, connVars, TypeInv, FileTypes, ConnTypes
<1>3. HistTypes'
  <2>1. sent' \in [Kinds -> Nat]
    BY CountType DEF SubmitOut, SubmitPoll, UnlinkOut, UnlinkPoll, Kinds, TypeInv
  <2>2. tidy' \in [Conns -> BOOLEAN]
    BY DEF SubmitOut, SubmitPoll, UnlinkOut, UnlinkPoll, HistTypes, TypeInv
  <2> QED BY <1>1, <2>1, <2>2 DEF HistTypes, TypeInv
<1>4. InTypes'
  <2>1. polls' \in [Conns -> Nat] /\ unlinked' \in [Conns -> BOOLEAN]
    <3>1. polls[c] \in Nat /\ polls[c] + 1 \in Nat /\ (polls[c] > 0 => polls[c] - 1 \in Nat)
      BY DEF TypeInv, InTypes
    <3>2. polls \in [Conns -> Nat] /\ unlinked \in [Conns -> BOOLEAN]
      BY DEF TypeInv, InTypes
    <3>3. \/ polls' = polls
          \/ polls' = [polls EXCEPT ![c] = polls[c] + 1]
          \/ polls[c] > 0 /\ polls' = [polls EXCEPT ![c] = polls[c] - 1]
      BY DEF SubmitOut, SubmitPoll, UnlinkOut, UnlinkPoll, inVars
    <3>4. unlinked' = unlinked \/ unlinked' = [unlinked EXCEPT ![c] = TRUE]
      BY DEF SubmitOut, SubmitPoll, UnlinkOut, UnlinkPoll, inVars
    <3> QED BY <3>1, <3>2, <3>3, <3>4
  <2>2. UNCHANGED <<worker, woken, hand>>
    BY DEF SubmitOut, SubmitPoll, UnlinkOut, UnlinkPoll, inVars
  <2> QED BY <2>1, <2>2 DEF TypeInv, InTypes, InHand
<1>5. /\ plan \in Plans /\ jobs \in [Conns -> Seq(plan.menu)] /\ next \in [Conns -> Nat \ {0}]
      /\ \A d \in Conns : /\ jobs[d] # << >> => next[d] \in 1..Len(Head(jobs[d]))
                          /\ jobs[d] = << >> => next[d] = 1
  BY DEF TypeInv, OutTypes, Fits
<1>6. ASSUME NEW u \in plan.menu, SubmitOut(c, u) PROVE OutTypes'
  <2>1. /\ Append(jobs[c], u) \in Seq(plan.menu) /\ Append(jobs[c], u) # << >>
        /\ Head(Append(jobs[c], u)) = IF jobs[c] = << >> THEN u ELSE Head(jobs[c])
    <3>1. jobs[c] \in Seq(plan.menu)
      BY <1>5
    <3> DEFINE s == jobs[c]  S == plan.menu
    <3>a. s \in Seq(S) /\ u \in S
      BY <3>1
    <3> HIDE DEF s, S
    <3>b. Append(s, u) \in Seq(S) /\ Append(s, u) # << >>
      BY <3>a, AppendKeeps
    <3>2. Append(jobs[c], u) \in Seq(plan.menu) /\ Append(jobs[c], u) # << >>
      BY <3>b DEF s, S
    <3>3. Head(Append(jobs[c], u)) = IF jobs[c] = << >> THEN u ELSE Head(jobs[c])
      BY <3>1, HeadTailAppend
    <3> QED BY <3>2, <3>3, Zenon
  <2>2. Len(u) \in Nat \ {0}
    BY <1>5, MenuType
  <2>3. jobs' = [jobs EXCEPT ![c] = Append(jobs[c], u)] /\ next' = next
    BY <1>6 DEF SubmitOut
  <2>4. jobs' \in [Conns -> Seq(plan.menu)]
    BY <2>1, <2>3, <1>5
  <2>5. jobs'[c] # << >> /\ next'[c] \in 1..Len(Head(jobs'[c]))
    BY <2>1, <2>2, <2>3, <1>5
  <2> QED BY <1>1, <1>5, <2>3, <2>4, <2>5 DEF OutTypes, Fits
<1>7. ASSUME NEW i \in 1..plan.urbs, UnlinkOut(c, i) PROVE OutTypes'
  <2>1. /\ i \in 1..Len(jobs[c]) /\ (i > 1 \/ next[c] = 1) /\ next' = next
        /\ jobs' = [jobs EXCEPT ![c] = RemoveAt(jobs[c], i)] /\ jobs[c] \in Seq(plan.menu)
    BY <1>5, <1>7 DEF UnlinkOut
  <2>2. /\ RemoveAt(jobs[c], i) \in Seq(plan.menu)
        /\ i # 1 => RemoveAt(jobs[c], i) # << >> /\ Head(RemoveAt(jobs[c], i)) = Head(jobs[c])
    BY <2>1, RemoveAtProperties
  <2>3. jobs[c] # << >>
    <3>1. jobs[c] = << >> => Len(jobs[c]) = 0
      BY EmptySeq
    <3> QED BY <2>1, <3>1
  <2>4. /\ RemoveAt(jobs[c], i) # << >> => next[c] \in 1..Len(Head(RemoveAt(jobs[c], i)))
        /\ RemoveAt(jobs[c], i) = << >> => next[c] = 1
    <3>1. CASE i # 1
      BY <2>2, <2>3, <3>1, <1>5
    <3>2. CASE i = 1
      <4>1. next[c] = 1
        BY <2>1, <3>2
      <4>2. RemoveAt(jobs[c], i) # << >> => Head(RemoveAt(jobs[c], i)) \in plan.menu
        BY <2>2, HeadTailProperties
      <4>3. RemoveAt(jobs[c], i) # << >> => Len(Head(RemoveAt(jobs[c], i))) \in Nat \ {0}
        BY <4>2, <1>5, MenuType
      <4> QED BY <4>1, <4>3
    <3> QED BY <3>1, <3>2
  <2>5. jobs' \in [Conns -> Seq(plan.menu)]
    BY <2>1, <2>2, <1>5
  <2>6. jobs'[c] = RemoveAt(jobs[c], i) /\ \A d \in Conns \ {c} : jobs'[d] = jobs[d]
    BY <2>1, <1>5
  <2> HIDE DEF RemoveAt
  <2> QED BY <1>1, <1>5, <2>1, <2>4, <2>5, <2>6 DEF OutTypes, Fits
<1>8. SubmitPoll(c) \/ UnlinkPoll(c) => OutTypes'
  BY <1>5 DEF SubmitPoll, UnlinkPoll, outVars, OutTypes, Fits
<1> QED BY <1>1, <1>2, <1>3, <1>4, <1>6, <1>7, <1>8 DEF TypeInv

\* A frame in the history.
LEMMA HistoryType ==
    ASSUME hist \in History, NEW f \in Frames \cup {Settle}
    PROVE  Append(hist, f) \in History
<1>1. Frames \subseteq [op : {"read", "write", "settle"}, reg : Registers, val : Nat]
  BY DEF Frames
<1>2. Settle \in [op : {"read", "write", "settle"}, reg : Registers, val : Nat]
  <2>1. "STREAM_CTRL" \in Registers
    BY DEF Registers, Named
  <2>2. "settle" \in {"read", "write", "settle"} /\ 0 \in Nat
    OBVIOUS
  <2> QED BY <2>1, <2>2, Zenon DEF Settle
<1> QED BY <1>1, <1>2, AppendKeeps DEF History

\* The worker of EP1 OUT.
LEMMA OutTypesStep ==
    ASSUME TypeInv, NEW c \in Conns, OutWorker(c)
    PROVE  TypeInv'
<1> DEFINE f == Head(jobs[c])[next[c]]
           e == [conn |-> c, n |-> reads[c] + 1, val |-> Reading(st, f.reg)]
<1>1. UNCHANGED <<plan, connVars, polls, worker, unlinked, hand, sent, got, found, tidy>>
  BY DEF OutWorker, RunRead, RunWrite, OutBreaks, inVars, histVars
<1>2. ConnTypes'
  BY <1>1 DEF TypeInv, ConnTypes, connVars
<1>3. InTypes'
  <2>1. woken' \in [Conns -> BOOLEAN]
    BY DEF OutWorker, RunRead, RunWrite, OutBreaks, inVars, NotifyAll, TypeInv, InTypes
  <2> QED BY <1>1, <2>1 DEF TypeInv, InTypes, InHand
<1>4. jobs[c] # << >> /\ f \in Frames /\ f.val \in Nat
  <2>1. jobs[c] # << >>
    BY DEF OutWorker, RunRead, RunWrite, OutBreaks
  <2> QED BY <2>1, FrameType DEF Frames
<1>5. st \in States /\ hist \in History /\ replies \in Seq(Replies) /\ reads \in [Conns -> Nat]
      /\ rebooting \in BOOLEAN /\ fired \in Nat
  BY DEF TypeInv, FileTypes, HistTypes
<1>6. CASE RunRead(c)
  <2>1. e \in Replies
    <3>1. reads[c] + 1 \in Nat /\ Reading(st, f.reg) \in Nat
      BY <1>5, ReadingType
    <3> QED BY <3>1 DEF Replies
  <2>2. /\ st' = AfterRead(st, f.reg) /\ hist' = Append(hist, f) /\ replies' = Append(replies, e)
        /\ reads' = [reads EXCEPT ![c] = reads[c] + 1] /\ UNCHANGED <<rebooting, fired>>
        /\ Advance(c)
    BY <1>6 DEF RunRead
  <2> HIDE DEF f, e
  <2>3. st' \in States /\ hist' \in History
    BY <2>2, <1>4, <1>5, HistoryType, AfterReadType
  <2>4. replies' \in Seq(Replies)
    BY <2>1, <2>2, <1>5, AppendKeeps
  <2>5. HistTypes'
    BY <1>1, <1>5, <2>2 DEF TypeInv, HistTypes
  <2>6. OutTypes'
    BY <1>1, <1>4, <2>2, AdvanceType
  <2>7. FileTypes'
    BY <1>5, <2>2, <2>3 DEF FileTypes
  <2> QED BY <1>1, <1>2, <1>3, <2>4, <2>5, <2>6, <2>7 DEF TypeInv
<1>7. CASE RunWrite(c)
  <2>1. /\ st' = AfterWrite(st, f.reg, f.val) /\ hist' = Append(hist, f)
        /\ rebooting' = (rebooting \/ Unlocks(st, f.reg, f.val))
        /\ fired' = fired + (IF Unlocks(st, f.reg, f.val) /\ ~rebooting THEN 1 ELSE 0)
        /\ Advance(c) /\ UNCHANGED <<replies, reads>>
    BY <1>7 DEF RunWrite, histVars
  <2> HIDE DEF f
  <2>2. st' \in States /\ hist' \in History
    BY <2>1, <1>4, <1>5, HistoryType, AfterWriteType
  <2>3. rebooting' \in BOOLEAN
    BY <2>1
  <2>4. fired' \in Nat
    BY <2>1, <1>5
  <2>5. OutTypes'
    BY <1>1, <1>4, <2>1, AdvanceType
  <2>6. HistTypes'
    BY <1>1, <2>1 DEF TypeInv, HistTypes
  <2> QED BY <1>1, <1>2, <1>3, <1>5, <2>1, <2>2, <2>3, <2>4, <2>5, <2>6 DEF TypeInv, FileTypes
<1>8. CASE OutBreaks(c)
  <2>1. /\ jobs' = [jobs EXCEPT ![c] = << >>] /\ next' = next /\ next[c] = 1
        /\ UNCHANGED <<fileVars, replies, histVars>>
    BY <1>8 DEF OutBreaks
  <2>2. << >> \in Seq(plan.menu)
    BY EmptySeq
  <2>3. /\ jobs \in [Conns -> Seq(plan.menu)] /\ next \in [Conns -> Nat \ {0}]
        /\ \A d \in Conns : /\ jobs[d] # << >> => next[d] \in 1..Len(Head(jobs[d]))
                            /\ jobs[d] = << >> => next[d] = 1
    BY DEF TypeInv, OutTypes, Fits
  <2>4. OutTypes'
    BY <1>1, <2>1, <2>2, <2>3 DEF OutTypes, Fits
  <2>5. FileTypes' /\ HistTypes'
    BY <2>1 DEF TypeInv, FileTypes, fileVars, HistTypes, histVars
  <2> QED BY <1>1, <1>2, <1>3, <2>1, <2>4, <2>5 DEF TypeInv
<1> QED BY <1>6, <1>7, <1>8 DEF OutWorker

\* The worker of EP1 IN.
LEMMA InTypesStep ==
    ASSUME TypeInv, NEW c \in Conns, InWorker(c)
    PROVE  TypeInv'
<1>1. UNCHANGED <<plan, connVars, outVars, fileVars, sent, reads, found, tidy>>
  BY DEF InWorker, PollStarts, PollLooks, PollAwaits, PollWakes, PollCancelled, PollClaims, histVars
<1>2. ConnTypes' /\ OutTypes' /\ FileTypes'
  BY <1>1 DEF TypeInv, connVars, ConnTypes, outVars, OutTypes, Fits, fileVars, FileTypes
<1>3. /\ polls \in [Conns -> Nat]
      /\ worker \in [Conns -> {"idle", "look", "empty", "wait", "claim"}]
      /\ woken \in [Conns -> BOOLEAN] /\ unlinked \in [Conns -> BOOLEAN]
      /\ hand \in [Conns -> Replies \cup {NoReply}] /\ replies \in Seq(Replies)
      /\ \A d \in Conns : IF worker[d] = "claim" THEN hand[d] \in Replies ELSE hand[d] = NoReply
  BY DEF TypeInv, InTypes, InHand
<1>4. got' \in [Conns -> Seq(Replies)]
  <2>1. CASE PollClaims(c)
    <3>1. hand[c] \in Replies /\ got[c] \in Seq(Replies) /\ got \in [Conns -> Seq(Replies)]
      BY <1>3, <2>1 DEF PollClaims, TypeInv, HistTypes
    <3>2. Append(got[c], hand[c]) \in Seq(Replies)
      BY <3>1, AppendKeeps
    <3> QED BY <2>1, <3>1, <3>2 DEF PollClaims
  <2>2. CASE UNCHANGED got
    BY <2>2 DEF TypeInv, HistTypes
  <2> QED BY <2>1, <2>2 DEF InWorker, PollStarts, PollLooks, PollAwaits, PollWakes, PollCancelled,
                            histVars
<1>5. HistTypes'
  BY <1>1, <1>4 DEF HistTypes, TypeInv
<1>6. polls' \in [Conns -> Nat]
  <2>1. polls[c] > 0 => polls[c] - 1 \in Nat
    BY <1>3
  <2>2. \/ polls' = polls
        \/ polls[c] > 0 /\ polls' = [polls EXCEPT ![c] = polls[c] - 1]
        \/ polls' = [polls EXCEPT ![c] = 0]
    BY DEF InWorker, PollStarts, PollLooks, PollAwaits, PollWakes, PollCancelled, PollClaims
  <2> QED BY <1>3, <2>1, <2>2
<1>7. woken' \in [Conns -> BOOLEAN] /\ unlinked' \in [Conns -> BOOLEAN]
  BY <1>3 DEF InWorker, PollStarts, PollLooks, PollAwaits, PollWakes, PollCancelled, PollClaims,
              Forget
<1>8. /\ worker' \in [Conns -> {"idle", "look", "empty", "wait", "claim"}]
      /\ hand' \in [Conns -> Replies \cup {NoReply}] /\ replies' \in Seq(Replies) /\ InHand'
  <2>1. CASE PollLooks(c)
    <3>1. replies # << >> => Head(replies) \in Replies /\ Tail(replies) \in Seq(Replies)
      BY <1>3, HeadTailProperties
    <3>2. CASE replies = << >>
      BY <1>3, <2>1, <3>2 DEF PollLooks, InHand
    <3>3. CASE replies # << >>
      <4>1. /\ worker' = [worker EXCEPT ![c] = "claim"] /\ hand' = [hand EXCEPT ![c] = Head(replies)]
            /\ replies' = Tail(replies)
        BY <2>1, <3>3 DEF PollLooks
      <4> QED BY <1>3, <3>1, <3>3, <4>1 DEF InHand
    <3> QED BY <3>2, <3>3
  <2>2. CASE PollClaims(c)
    BY <1>3, <2>2 DEF PollClaims, InHand
  <2>3. CASE PollStarts(c) \/ PollAwaits(c) \/ PollWakes(c) \/ PollCancelled(c)
    <3>1. UNCHANGED <<hand, replies>> /\ worker[c] # "claim"
      BY <2>3 DEF PollStarts, PollAwaits, PollWakes, PollCancelled
    <3>2. \E w \in {"idle", "look", "wait"} : worker' = [worker EXCEPT ![c] = w]
      BY <2>3 DEF PollStarts, PollAwaits, PollWakes, PollCancelled
    <3> QED BY <1>3, <3>1, <3>2 DEF InHand
  <2> QED BY <2>1, <2>2, <2>3 DEF InWorker
<1> QED BY <1>1, <1>2, <1>3, <1>5, <1>6, <1>7, <1>8 DEF TypeInv, InTypes

\* Every step keeps the types.
LEMMA TypeInvStep ==
    ASSUME TypeInv, [Next]_vars
    PROVE  TypeInv'
<1>1. CASE StopGrowsOld
  <2>1. sent' \in [Kinds -> Nat]
    BY <1>1, CountType DEF StopGrowsOld, Kinds, TypeInv
  <2>2. st' \in States
    BY <1>1 DEF StopGrowsOld, Settled, States, TypeInv, FileTypes
  <2>3. hist' \in History
    BY <1>1, HistoryType DEF StopGrowsOld, TypeInv, FileTypes
  <2>4. UNCHANGED <<plan, connVars, outVars, inVars, rebooting, fired, replies, reads, got, found, tidy>>
    BY <1>1 DEF StopGrowsOld
  <2>5. ConnTypes' /\ OutTypes' /\ InTypes'
    BY <2>4 DEF TypeInv, connVars, ConnTypes, outVars, OutTypes, Fits, inVars, InTypes, InHand
  <2>6. FileTypes' /\ HistTypes'
    BY <2>1, <2>2, <2>3, <2>4 DEF TypeInv, FileTypes, HistTypes
  <2> QED BY <2>4, <2>5, <2>6 DEF TypeInv
<1>2. CASE UNCHANGED vars
  BY <1>2 DEF vars, connVars, outVars, inVars, fileVars, histVars, TypeInv, ConnTypes, OutTypes,
              Fits, InTypes, InHand, FileTypes, HistTypes
<1> QED BY <1>1, <1>2, ConnTypesStep, HostTypesStep, OutTypesStep, InTypesStep DEF Next, Host

\* The types hold in every state, in the form the steps keep.
LEMMA TypeInvAlways == Spec => []TypeInv
<1>1. Init => TypeInv
  <2> SUFFICES ASSUME Init PROVE TypeInv
    OBVIOUS
  <2>2. FileTypes
    BY PoweredUpType, EmptySeq DEF Init, FileTypes, History
  <2>3. ConnTypes
    BY DEF Init, ConnTypes
  <2>4. OutTypes
    BY EmptySeq DEF Init, OutTypes, Fits
  <2>5. InTypes
    BY DEF Init, InTypes, InHand
  <2>6. HistTypes
    BY EmptySeq DEF Init, HistTypes, Kinds
  <2>7. replies \in Seq(Replies)
    BY EmptySeq DEF Init
  <2> QED BY <2>2, <2>3, <2>4, <2>5, <2>6, <2>7 DEF Init, TypeInv
<1>2. TypeInv /\ [Next]_vars => TypeInv'
  BY TypeInvStep
<1> QED BY <1>1, <1>2, PTL DEF Spec

\* TypeOK holds in every state: the registers keep their ranges, every worker
\* stands at a frame of an URB it has, and what waits in the queue or in a hand
\* is the reply to a read of some connection.
THEOREM TypeCorrect == Spec => []TypeOK
BY TypeInvAlways, TypeInvOK, PTL
-----------------------------------------------------------------------------
(* Connections and their workers. *)

\* Connections come one after the other, one that has not come has done nothing,
\* and every reply that waits was asked for by one that came.
Orderly ==
    /\ \A c \in Conns : phase[c] # "new" => \A d \in 1..(c - 1) : phase[d] = "gone"
    /\ \A c \in Conns : phase[c] = "new" =>
          Quiet(c) /\ got[c] = << >> /\ reads[c] = 0 /\ ~unlinked[c]
    /\ \A i \in 1..Len(replies) : phase[replies[i].conn] # "new"

\* How a step changes the phase of a connection, and what it found.
LEMMA PhaseSteps ==
    ASSUME TypeInv, [Next]_vars, NEW c \in Conns
    PROVE  /\ phase'[c] = "new" => phase[c] = "new"
           /\ phase[c] # "new" => phase'[c] # "new" /\ found'[c] = found[c]
           /\ phase[c] = "gone" => phase'[c] = "gone"
           /\ phase[c] = "new" => phase'[c] = "new" \/ Open(c)
           /\ phase'[c] \in {"open", "closing"} => phase[c] \in {"open", "closing"} \/ Open(c)
           /\ phase'[c] = "open" => phase[c] = "open" \/ Open(c)
           /\ tidy'[c] => tidy[c]
<1>1. /\ phase \in [Conns -> {"new", "open", "closing", "gone"}]
      /\ found \in [Conns -> {"workers", "replies", "nothing"}] /\ tidy \in [Conns -> BOOLEAN]
  BY DEF TypeInv, ConnTypes, HistTypes
<1>2. ASSUME NEW d \in Conns, Open(d) \/ End(d) \/ Release(d) \/ WriterFails(d) \/ Vanish(d)
      PROVE  /\ phase[d] # "gone" /\ tidy' = tidy
             /\ \E x \in {"open", "closing", "gone"} : phase' = [phase EXCEPT ![d] = x]
             /\ Open(d) \/ phase'[d] # "open"
             /\ Open(d) \/ phase[d] \in {"open", "closing"}
             /\ found' = found \/ Open(d)
  BY <1>1, <1>2 DEF Open, End, Release, WriterFails, Vanish, histVars
<1>3. ASSUME NEW d \in Conns, Open(d)
      PROVE  phase[d] = "new" /\ \A x \in Conns \ {d} : found'[x] = found[x]
  BY <1>1, <1>3 DEF Open
<1>4. CASE \E d \in Conns : Open(d) \/ End(d) \/ Release(d) \/ WriterFails(d) \/ Vanish(d)
  <2>1. PICK d \in Conns : Open(d) \/ End(d) \/ Release(d) \/ WriterFails(d) \/ Vanish(d)
    BY <1>4
  <2> HIDE DEF Open, End, Release, WriterFails, Vanish
  <2>2. PICK x \in {"open", "closing", "gone"} : phase' = [phase EXCEPT ![d] = x]
    BY <1>2, <2>1
  <2>3. CASE c = d
    BY <1>1, <1>2, <1>3, <2>1, <2>2, <2>3
  <2>4. CASE c # d
    <3>1. phase'[c] = phase[c] /\ found'[c] = found[c] /\ tidy' = tidy
      BY <1>1, <1>2, <1>3, <2>1, <2>2, <2>4
    <3> QED BY <3>1
  <2> QED BY <2>3, <2>4
<1>5. CASE ~ \E d \in Conns : Open(d) \/ End(d) \/ Release(d) \/ WriterFails(d) \/ Vanish(d)
  <2>1. phase' = phase /\ found' = found
    BY <1>5 DEF Next, Host, SubmitOut, SubmitPoll, UnlinkOut, UnlinkPoll, OutWorker, RunRead,
       RunWrite, OutBreaks, InWorker, PollStarts, PollLooks, PollAwaits, PollWakes, PollCancelled,
       PollClaims, StopGrowsOld, vars, connVars, histVars
  <2>2. tidy' = tidy \/ \E d \in Conns : tidy' = [tidy EXCEPT ![d] = FALSE]
    BY <1>5 DEF Next, Host, SubmitOut, SubmitPoll, UnlinkOut, UnlinkPoll, OutWorker, RunRead,
       RunWrite, OutBreaks, InWorker, PollStarts, PollLooks, PollAwaits, PollWakes, PollCancelled,
       PollClaims, StopGrowsOld, vars, connVars, histVars
  <2> QED BY <1>1, <2>1, <2>2
<1> QED BY <1>4, <1>5

\* The workers of a connection that is not open stay at rest.
LEMMA QuietStays ==
    ASSUME TypeInv, [Next]_vars, NEW c \in Conns, Quiet(c), phase[c] # "open"
    PROVE  Quiet(c)' /\ reads'[c] = reads[c] /\ got'[c] = got[c] /\ (unlinked'[c] => unlinked[c])
<1>1. /\ jobs \in [Conns -> Seq(plan.menu)] /\ polls \in [Conns -> Nat] /\ polls[c] = 0
      /\ worker \in [Conns -> {"idle", "look", "empty", "wait", "claim"}]
      /\ reads \in [Conns -> Nat] /\ got \in [Conns -> Seq(Replies)]
      /\ unlinked \in [Conns -> BOOLEAN]
      /\ jobs[c] = << >> /\ worker[c] = "idle"
  BY DEF TypeInv, OutTypes, InTypes, HistTypes, Quiet
<1>2. ASSUME NEW d \in Conns, Host(d) \/ Release(d)
      PROVE  Quiet(c)' /\ reads'[c] = reads[c] /\ got'[c] = got[c] /\ (unlinked'[c] => unlinked[c])
  <2>1. reads' = reads /\ got' = got
    BY <1>2 DEF Host, Open, SubmitOut, SubmitPoll, UnlinkOut, UnlinkPoll, End, Release, WriterFails,
                Vanish, histVars
  <2>2. CASE Open(d) \/ End(d) \/ Release(d) \/ WriterFails(d) \/ Vanish(d)
    <3>1. UNCHANGED <<jobs, polls, worker, unlinked>>
      BY <2>2 DEF Open, End, Release, WriterFails, Vanish, outVars, inVars
    <3> QED BY <1>1, <2>1, <3>1 DEF Quiet
  <2>3. CASE ~(Open(d) \/ End(d) \/ Release(d) \/ WriterFails(d) \/ Vanish(d))
    <3>1. d # c
      BY <1>2, <2>3 DEF Host, SubmitOut, SubmitPoll, UnlinkOut, UnlinkPoll
    <3>2. jobs'[c] = jobs[c] /\ polls'[c] = polls[c] /\ worker' = worker /\ unlinked'[c] = unlinked[c]
      BY <1>1, <1>2, <2>3, <3>1 DEF Host, SubmitOut, SubmitPoll, UnlinkOut, UnlinkPoll, inVars, outVars
    <3> QED BY <1>1, <2>1, <3>2 DEF Quiet
  <2> QED BY <2>2, <2>3
<1>3. ASSUME NEW d \in Conns, OutWorker(d)
      PROVE  Quiet(c)' /\ reads'[c] = reads[c] /\ got'[c] = got[c] /\ (unlinked'[c] => unlinked[c])
  <2>1. jobs[d] # << >> /\ d # c
    BY <1>1, <1>3 DEF OutWorker, RunRead, RunWrite, OutBreaks
  <2>2. jobs'[c] = jobs[c]
    BY <1>1, <1>3, <2>1 DEF OutWorker, RunRead, RunWrite, OutBreaks, Advance
  <2>3. polls' = polls /\ worker' = worker /\ unlinked' = unlinked /\ got' = got /\ reads'[c] = reads[c]
    BY <1>1, <1>3, <2>1 DEF OutWorker, RunRead, RunWrite, OutBreaks, inVars, histVars
  <2> QED BY <1>1, <2>2, <2>3 DEF Quiet
<1>4. ASSUME NEW d \in Conns, InWorker(d)
      PROVE  Quiet(c)' /\ reads'[c] = reads[c] /\ got'[c] = got[c] /\ (unlinked'[c] => unlinked[c])
  <2>1. worker[d] # "idle" \/ polls[d] > 0
    BY <1>4 DEF InWorker, PollStarts, PollLooks, PollAwaits, PollWakes, PollCancelled, PollClaims
  <2>2. d # c
    BY <1>1, <2>1
  <2>3. jobs' = jobs /\ reads' = reads
    BY <1>4 DEF InWorker, PollStarts, PollLooks, PollAwaits, PollWakes, PollCancelled, PollClaims,
                outVars, histVars
  <2>4. polls'[c] = polls[c] /\ worker'[c] = worker[c] /\ unlinked'[c] = unlinked[c] /\ got'[c] = got[c]
    BY <1>1, <1>4, <2>2 DEF InWorker, PollStarts, PollLooks, PollAwaits, PollWakes, PollCancelled,
                            PollClaims, Forget, histVars
  <2> QED BY <1>1, <2>3, <2>4 DEF Quiet
<1>5. CASE StopGrowsOld \/ UNCHANGED vars
  BY <1>1, <1>5 DEF StopGrowsOld, vars, outVars, inVars, histVars, Quiet
<1> QED BY <1>2, <1>3, <1>4, <1>5 DEF Next

\* The queue of replies grows at its end, by the read of a worker, and shrinks at
\* its head, into the hand of one.
LEMMA ReplySteps ==
    ASSUME [Next]_vars
    PROVE  \/ \E c \in Conns : RunRead(c)
           \/ \E c \in Conns : PollLooks(c) /\ replies # << >>
           \/ \E c \in Conns : PollClaims(c)
           \/ /\ UNCHANGED <<replies, hand, got, reads>>
              /\ \A c \in Conns : TypeInv => (worker'[c] = "claim" <=> worker[c] = "claim")
<1>1. ASSUME NEW c \in Conns, PollStarts(c) \/ PollAwaits(c) \/ PollWakes(c) \/ PollCancelled(c)
             \/ (PollLooks(c) /\ replies = << >>), TypeInv
      PROVE  \A d \in Conns : worker'[d] = "claim" <=> worker[d] = "claim"
  <2>1. /\ worker \in [Conns -> {"idle", "look", "empty", "wait", "claim"}] /\ worker[c] # "claim"
        /\ \E w \in {"idle", "look", "empty", "wait"} : worker' = [worker EXCEPT ![c] = w]
    BY <1>1 DEF PollStarts, PollAwaits, PollWakes, PollCancelled, PollLooks, TypeInv, InTypes
  <2> QED BY <2>1
<1>2. ASSUME NEW c \in Conns, PollStarts(c) \/ PollAwaits(c) \/ PollWakes(c) \/ PollCancelled(c)
             \/ (PollLooks(c) /\ replies = << >>)
      PROVE  UNCHANGED <<replies, hand, got, reads>>
  BY <1>2 DEF PollStarts, PollAwaits, PollWakes, PollCancelled, PollLooks, histVars
<1>3. ASSUME NEW c \in Conns, Host(c) \/ Release(c) \/ RunWrite(c) \/ OutBreaks(c)
      PROVE  UNCHANGED <<replies, hand, got, reads, worker>>
  BY <1>3 DEF Host, Open, SubmitOut, SubmitPoll, UnlinkOut, UnlinkPoll, End, Release, WriterFails,
              Vanish, RunWrite, OutBreaks, inVars, histVars
<1>4. StopGrowsOld \/ UNCHANGED vars => UNCHANGED <<replies, hand, got, reads, worker>>
  BY DEF StopGrowsOld, vars, inVars, histVars
<1> QED BY <1>1, <1>2, <1>3, <1>4 DEF Next, OutWorker, InWorker

\* Every step keeps the connections in order.
LEMMA OrderlyStep ==
    ASSUME TypeInv, Orderly, [Next]_vars
    PROVE  Orderly'
<1>1. ASSUME NEW c \in Conns, phase'[c] # "new", NEW d \in 1..(c - 1) PROVE phase'[d] = "gone"
  <2>1. d \in Conns
    BY BusAssumption DEF BusAssumption, Conns
  <2>2. phase[d] = "gone"
    <3>1. CASE phase[c] # "new"
      BY <3>1 DEF Orderly
    <3>2. CASE phase[c] = "new"
      <4>1. Open(c)
        BY <1>1, <3>2, PhaseSteps
      <4> QED BY <4>1 DEF Open
    <3> QED BY <3>1, <3>2
  <2> QED BY <2>1, <2>2, PhaseSteps
<1>2. ASSUME NEW c \in Conns, phase'[c] = "new"
      PROVE  Quiet(c)' /\ got'[c] = << >> /\ reads'[c] = 0 /\ ~unlinked'[c]
  <2>1. phase[c] = "new"
    BY <1>2, PhaseSteps
  <2>2. Quiet(c) /\ got[c] = << >> /\ reads[c] = 0 /\ ~unlinked[c]
    BY <2>1 DEF Orderly
  <2> QED BY <2>1, <2>2, QuietStays
<1>3. \A i \in 1..Len(replies) : replies[i].conn \in Conns
  <2>1. \A i \in 1..Len(replies) : replies[i] \in Replies
    BY ElementOfSeq DEF TypeInv
  <2> QED BY <2>1 DEF Replies
<1>4. ASSUME NEW i \in 1..Len(replies) PROVE phase'[replies[i].conn] # "new"
  BY <1>3, PhaseSteps DEF Orderly
<1>5. replies \in Seq(Replies) /\ Len(replies) \in Nat
  BY LenProperties DEF TypeInv
<1>6. ASSUME NEW i \in 1..Len(replies') PROVE phase'[replies'[i].conn] # "new"
  <2>1. ASSUME NEW c \in Conns, RunRead(c) PROVE phase'[replies'[i].conn] # "new"
    <3> DEFINE e == [conn |-> c, n |-> reads[c] + 1,
                     val |-> Reading(st, Head(jobs[c])[next[c]].reg)]
    <3>1. replies' = Append(replies, e) /\ e.conn = c /\ jobs[c] # << >>
      BY <2>1 DEF RunRead
    <3>2. phase[c] # "new"
      BY <3>1 DEF Orderly, Quiet
    <3> HIDE DEF e
    <3>3. Len(replies') = Len(replies) + 1 /\ replies'[Len(replies) + 1] = e
          /\ \A j \in 1..Len(replies) : replies'[j] = replies[j]
      BY <3>1, <1>5
    <3>4. i \in 1..Len(replies) \/ i = Len(replies) + 1
      BY <3>3, <1>5
    <3> QED BY <3>1, <3>2, <3>3, <3>4, <1>4, PhaseSteps
  <2>2. ASSUME NEW c \in Conns, PollLooks(c), replies # << >> PROVE phase'[replies'[i].conn] # "new"
    <3>1. replies' = Tail(replies)
      BY <2>2 DEF PollLooks
    <3>2. Len(replies') = Len(replies) - 1 /\ replies'[i] = replies[i + 1]
      BY <2>2, <3>1, <1>5, HeadTailProperties
    <3>3. i + 1 \in 1..Len(replies)
      BY <3>2, <1>5
    <3> QED BY <3>2, <3>3, <1>4
  <2>3. CASE UNCHANGED replies
    BY <2>3, <1>4
  <2>4. \A c \in Conns : PollClaims(c) => UNCHANGED replies
    BY DEF PollClaims
  <2> QED BY <2>1, <2>2, <2>3, <2>4, ReplySteps
<1> QED BY <1>1, <1>2, <1>6 DEF Orderly
-----------------------------------------------------------------------------
(* Stale replies. *)

\* A connection that found no worker at work is alone at the persona until it is
\* gone.
Alone(c) == phase[c] \in {"open", "closing"} /\ found[c] # "workers"

OwnRead(c) == \E i \in 1..Len(got[c]) : got[c][i].conn = c

\* What is its own comes after what is not: in the queue, and from what it has
\* read through what is in its hand to the queue.
StaleQueue(c) ==
    /\ \A d \in Conns \ {c} : Quiet(d)
    /\ \A i, j \in 1..Len(replies) : i < j /\ replies[i].conn = c => replies[j].conn = c
    /\ hand[c].conn = c \/ OwnRead(c) => \A j \in 1..Len(replies) : replies[j].conn = c
    /\ worker[c] = "claim" /\ OwnRead(c) => hand[c].conn = c

StaleInv ==
    /\ \A c \in Conns : Alone(c) => StaleQueue(c)
    /\ \A c \in Conns : found[c] # "workers" =>
          \A i, j \in 1..Len(got[c]) : i < j /\ got[c][i].conn = c => got[c][j].conn = c

\* What a read does to the queue.
LEMMA ReadEffect ==
    ASSUME TypeInv, NEW c \in Conns, RunRead(c)
    PROVE  /\ Len(replies') = Len(replies) + 1 /\ Len(replies) \in Nat
           /\ \A i \in 1..Len(replies) : replies'[i] = replies[i]
           /\ replies'[Len(replies) + 1].conn = c
           /\ replies'[Len(replies) + 1].n = reads[c] + 1
           /\ reads' = [reads EXCEPT ![c] = @ + 1]
           /\ UNCHANGED <<hand, got, worker, unlinked, phase, found, tidy>>
<1> DEFINE e == [conn |-> c, n |-> reads[c] + 1,
                 val |-> Reading(st, Head(jobs[c])[next[c]].reg)]
<1>1. replies' = Append(replies, e) /\ e.conn = c /\ e.n = reads[c] + 1
  BY DEF RunRead
<1>2. reads' = [reads EXCEPT ![c] = @ + 1] /\ UNCHANGED <<hand, got, worker, unlinked, phase, found, tidy>>
  BY DEF RunRead, connVars
<1> HIDE DEF e
<1>3. replies \in Seq(Replies) /\ Len(replies) \in Nat
  BY LenProperties DEF TypeInv
<1>4. Len(replies') = Len(replies) + 1 /\ replies'[Len(replies) + 1] = e
      /\ \A j \in 1..Len(replies) : replies'[j] = replies[j]
  BY <1>1, <1>3
<1> QED BY <1>1, <1>2, <1>3, <1>4

\* What a poll that finds a reply does to the queue.
LEMMA LookEffect ==
    ASSUME TypeInv, NEW c \in Conns, PollLooks(c), replies # << >>
    PROVE  /\ Len(replies') = Len(replies) - 1 /\ Len(replies) \in Nat \ {0}
           /\ \A i \in 1..Len(replies') : i + 1 \in 1..Len(replies) /\ replies'[i] = replies[i + 1]
           /\ hand'[c] = replies[1] /\ worker'[c] = "claim" /\ worker[c] = "look"
           /\ \A d \in Conns \ {c} : hand'[d] = hand[d] /\ worker'[d] = worker[d]
           /\ UNCHANGED <<got, reads, unlinked, phase, found, tidy>>
<1>1. /\ replies' = Tail(replies) /\ hand' = [hand EXCEPT ![c] = Head(replies)]
      /\ worker' = [worker EXCEPT ![c] = "claim"] /\ worker[c] = "look"
      /\ UNCHANGED <<got, reads, unlinked, phase, found, tidy>>
  BY DEF PollLooks, connVars, histVars
<1>2. /\ replies \in Seq(Replies) /\ hand \in [Conns -> Replies \cup {NoReply}]
      /\ worker \in [Conns -> {"idle", "look", "empty", "wait", "claim"}]
  BY DEF TypeInv, InTypes
<1>3. Len(replies) \in Nat \ {0} /\ Head(replies) = replies[1]
  BY <1>2, EmptySeq
<1>4. Len(replies') = Len(replies) - 1 /\ \A i \in 1..Len(replies') : replies'[i] = replies[i + 1]
  BY <1>1, <1>2, HeadTailProperties
<1>5. \A i \in 1..Len(replies') : i + 1 \in 1..Len(replies)
  BY <1>3, <1>4
<1> QED BY <1>1, <1>2, <1>3, <1>4, <1>5

\* What a poll that claims its URB does with the reply in its hand.
LEMMA ClaimEffect ==
    ASSUME TypeInv, NEW c \in Conns, PollClaims(c)
    PROVE  /\ hand'[c] = NoReply /\ worker'[c] = "idle" /\ worker[c] = "claim"
           /\ \A d \in Conns \ {c} : hand'[d] = hand[d] /\ worker'[d] = worker[d] /\ got'[d] = got[d]
           /\ Len(got[c]) \in Nat
           /\ phase[c] = "open" /\ ~unlinked[c] =>
                 /\ Len(got'[c]) = Len(got[c]) + 1 /\ got'[c][Len(got[c]) + 1] = hand[c]
                 /\ \A i \in 1..Len(got[c]) : got'[c][i] = got[c][i]
           /\ ~(phase[c] = "open" /\ ~unlinked[c]) => got'[c] = got[c]
           /\ UNCHANGED <<replies, reads, phase, found, tidy>>
<1>1. /\ hand' = [hand EXCEPT ![c] = NoReply] /\ worker' = [worker EXCEPT ![c] = "idle"]
      /\ got' = [got EXCEPT ![c] = IF phase[c] = "open" /\ ~unlinked[c]
                                   THEN Append(@, hand[c]) ELSE @]
      /\ worker[c] = "claim" /\ UNCHANGED <<replies, reads, phase, found, tidy>>
  BY DEF PollClaims, connVars
<1>2. /\ hand \in [Conns -> Replies \cup {NoReply}] /\ got \in [Conns -> Seq(Replies)]
      /\ worker \in [Conns -> {"idle", "look", "empty", "wait", "claim"}] /\ hand[c] \in Replies
  BY <1>1 DEF TypeInv, InTypes, InHand, HistTypes
<1>3. got[c] \in Seq(Replies) /\ Len(got[c]) \in Nat
  BY <1>2, LenProperties
<1>4. ASSUME phase[c] = "open", ~unlinked[c]
      PROVE  /\ Len(got'[c]) = Len(got[c]) + 1 /\ got'[c][Len(got[c]) + 1] = hand[c]
             /\ \A i \in 1..Len(got[c]) : got'[c][i] = got[c][i]
  <2>1. got'[c] = Append(got[c], hand[c])
    BY <1>1, <1>2, <1>4
  <2> QED BY <2>1, <1>2, <1>3, AppendProperties
<1> QED BY <1>1, <1>2, <1>3, <1>4

\* Who works while a connection is alone.
LEMMA AloneWorks ==
    ASSUME TypeInv, NEW c \in Conns, \A d \in Conns \ {c} : Quiet(d)
    PROVE  \A d \in Conns : RunRead(d) \/ PollLooks(d) \/ PollClaims(d) => d = c
BY DEF RunRead, PollLooks, PollClaims, Quiet

\* A connection that comes finds the others at rest, and nothing of its own.
LEMMA OpenAlone ==
    ASSUME TypeInv, Orderly, [Next]_vars, NEW c \in Conns, Open(c), found'[c] # "workers"
    PROVE  /\ \A d \in Conns \ {c} : Quiet(d)'
           /\ \A i \in 1..Len(replies') : replies'[i].conn # c
           /\ hand'[c] = NoReply /\ got'[c] = << >> /\ worker'[c] = "idle"
           /\ reads'[c] = 0 /\ ~unlinked'[c] /\ replies' = replies
           /\ found'[c] = "nothing" => replies = << >>
<1>1. /\ phase[c] = "new" /\ \A d \in 1..(c - 1) : phase[d] = "gone"
      /\ found' = [found EXCEPT ![c] = IF \E d \in 1..(c - 1) : ~Quiet(d) THEN "workers"
                                       ELSE IF replies # << >> THEN "replies" ELSE "nothing"]
      /\ UNCHANGED <<jobs, polls, worker, replies, hand, got, reads, unlinked>>
  BY DEF Open, outVars, inVars
<1>2. found'[c] = IF \E d \in 1..(c - 1) : ~Quiet(d) THEN "workers"
                  ELSE IF replies # << >> THEN "replies" ELSE "nothing"
  BY <1>1 DEF TypeInv, HistTypes
<1>3. ASSUME NEW d \in Conns \ {c} PROVE Quiet(d)'
  <2>1. CASE d < c
    <3>1. d \in 1..(c - 1)
      BY <2>1, BusAssumption DEF BusAssumption, Conns
    <3>2. Quiet(d)
      BY <3>1, <1>2
    <3> QED BY <3>2, <1>1 DEF Quiet
  <2>2. CASE ~(d < c)
    <3>1. c \in 1..(d - 1)
      BY <2>2, BusAssumption DEF BusAssumption, Conns
    <3>2. phase[d] = "new"
      BY <3>1, <1>1 DEF Orderly
    <3> QED BY <3>2, <1>1 DEF Orderly, Quiet
  <2> QED BY <2>1, <2>2
<1>4. Quiet(c) /\ got[c] = << >> /\ reads[c] = 0 /\ ~unlinked[c]
  BY <1>1 DEF Orderly
<1>5. hand[c] = NoReply /\ worker[c] = "idle"
  BY <1>4 DEF Quiet, TypeInv, InTypes, InHand
<1>6. \A i \in 1..Len(replies) : replies[i].conn # c
  BY <1>1 DEF Orderly
<1> QED BY <1>1, <1>2, <1>3, <1>4, <1>5, <1>6

\* A connection that stays alone had the others at rest, and has.
LEMMA AloneStays ==
    ASSUME TypeInv, Orderly, [Next]_vars, NEW c \in Conns, Alone(c)', ~Open(c),
           Alone(c) => \A d \in Conns \ {c} : Quiet(d)
    PROVE  /\ Alone(c) /\ \A d \in Conns \ {c} : Quiet(d)
           /\ \A d \in Conns \ {c} : Quiet(d)'
<1>1. phase[c] \in {"open", "closing"}
  BY PhaseSteps DEF Alone
<1>2. Alone(c)
  BY <1>1, PhaseSteps DEF Alone
<1>3. ASSUME NEW d \in Conns \ {c} PROVE phase[d] # "open"
  <2>1. CASE d < c
    <3>1. d \in 1..(c - 1)
      BY <2>1, BusAssumption DEF BusAssumption, Conns
    <3> QED BY <3>1, <1>1 DEF Orderly
  <2>2. CASE ~(d < c)
    <3>1. c \in 1..(d - 1)
      BY <2>2, BusAssumption DEF BusAssumption, Conns
    <3> QED BY <3>1, <1>1 DEF Orderly
  <2> QED BY <2>1, <2>2
<1> QED BY <1>2, <1>3, QuietStays

\* Every step keeps stale replies first.
LEMMA StaleStep ==
    ASSUME TypeInv, Orderly, StaleInv, [Next]_vars
    PROVE  StaleInv'
<1>1. ASSUME NEW c \in Conns, Alone(c)' PROVE StaleQueue(c)'
  <2>1. CASE Open(c)
    <3>1. found'[c] # "workers" /\ c # 0
      BY <1>1, BusAssumption DEF Alone, BusAssumption, Conns
    <3>2. /\ \A d \in Conns \ {c} : Quiet(d)'
          /\ \A i \in 1..Len(replies') : replies'[i].conn # c
          /\ hand'[c] = NoReply /\ got'[c] = << >> /\ worker'[c] = "idle"
      BY <2>1, <3>1, OpenAlone
    <3>3. ~OwnRead(c)' /\ hand'[c].conn # c
      BY <3>1, <3>2 DEF OwnRead, NoReply
    <3> QED BY <3>2, <3>3 DEF StaleQueue
  <2>2. CASE ~Open(c)
    <3>0. Alone(c) => \A d \in Conns \ {c} : Quiet(d)
      BY DEF StaleInv, StaleQueue
    <3>1. Alone(c) /\ (\A d \in Conns \ {c} : Quiet(d)) /\ \A d \in Conns \ {c} : Quiet(d)'
      BY <1>1, <2>2, <3>0, AloneStays
    <3>2. /\ \A i, j \in 1..Len(replies) : i < j /\ replies[i].conn = c => replies[j].conn = c
          /\ hand[c].conn = c \/ OwnRead(c) => \A j \in 1..Len(replies) : replies[j].conn = c
          /\ worker[c] = "claim" /\ OwnRead(c) => hand[c].conn = c
      BY <3>1 DEF StaleInv, StaleQueue
    <3>3. \A d \in Conns : RunRead(d) \/ PollLooks(d) \/ PollClaims(d) => d = c
      BY <3>1, AloneWorks
    <3>4. CASE RunRead(c)
      <4>1. /\ Len(replies') = Len(replies) + 1 /\ Len(replies) \in Nat
            /\ \A i \in 1..Len(replies) : replies'[i] = replies[i]
            /\ replies'[Len(replies) + 1].conn = c
            /\ UNCHANGED <<hand, got, worker>>
        BY <3>4, ReadEffect
      <4>2. \A i \in 1..Len(replies') : i \in 1..Len(replies) \/ i = Len(replies) + 1
        BY <4>1
      <4>3. \A j \in 1..Len(replies') : j \in 1..Len(replies) => replies'[j] = replies[j]
        BY <4>1
      <4>4. \A i, j \in 1..Len(replies') : i < j /\ replies'[i].conn = c => replies'[j].conn = c
        <5>1. SUFFICES ASSUME NEW i \in 1..Len(replies'), NEW j \in 1..Len(replies'), i < j,
                              replies'[i].conn = c
                       PROVE  replies'[j].conn = c
          OBVIOUS
        <5>2. CASE j = Len(replies) + 1
          BY <5>2, <4>1
        <5>3. CASE j \in 1..Len(replies)
          <6>1. i \in 1..Len(replies)
            BY <5>1, <5>3, <4>1
          <6> QED BY <5>1, <5>3, <6>1, <4>1, <3>2
        <5> QED BY <5>2, <5>3, <4>2
      <4>5. OwnRead(c)' <=> OwnRead(c)
        BY <4>1 DEF OwnRead
      <4>6. hand'[c].conn = c \/ OwnRead(c)' => \A j \in 1..Len(replies') : replies'[j].conn = c
        BY <4>1, <4>2, <4>5, <3>2
      <4> QED BY <3>1, <3>2, <4>1, <4>4, <4>5, <4>6 DEF StaleQueue
    <3>5. CASE PollLooks(c) /\ replies # << >>
      <4>1. /\ Len(replies) \in Nat \ {0}
            /\ \A i \in 1..Len(replies') : i + 1 \in 1..Len(replies) /\ replies'[i] = replies[i + 1]
            /\ hand'[c] = replies[1] /\ UNCHANGED got
        BY <3>5, LookEffect
      <4>2. OwnRead(c)' <=> OwnRead(c)
        BY <4>1 DEF OwnRead
      <4>3. \A i, j \in 1..Len(replies') : i < j /\ replies'[i].conn = c => replies'[j].conn = c
        <5>1. \A i, j \in 1..Len(replies') : i < j => i + 1 < j + 1
          OBVIOUS
        <5> QED BY <5>1, <4>1, <3>2
      <4>4. 1 \in 1..Len(replies) /\ \A i \in 1..Len(replies') : 1 < i + 1
        BY <4>1
      <4>5. hand'[c].conn = c => \A j \in 1..Len(replies') : replies'[j].conn = c
        BY <4>1, <4>4, <3>2
      <4>6. OwnRead(c) => hand'[c].conn = c
        BY <4>1, <4>4, <3>2
      <4> QED BY <3>1, <4>2, <4>3, <4>5, <4>6 DEF StaleQueue
    <3>6. CASE PollClaims(c)
      <4>1. /\ hand'[c] = NoReply /\ worker'[c] = "idle" /\ worker[c] = "claim"
            /\ Len(got[c]) \in Nat
            /\ phase[c] = "open" /\ ~unlinked[c] =>
                  /\ Len(got'[c]) = Len(got[c]) + 1 /\ got'[c][Len(got[c]) + 1] = hand[c]
                  /\ \A i \in 1..Len(got[c]) : got'[c][i] = got[c][i]
            /\ ~(phase[c] = "open" /\ ~unlinked[c]) => got'[c] = got[c]
            /\ UNCHANGED replies
        BY <3>6, ClaimEffect
      <4>2. OwnRead(c)' => OwnRead(c) \/ hand[c].conn = c
        <5>1. \A i \in 1..(Len(got[c]) + 1) : i \in 1..Len(got[c]) \/ i = Len(got[c]) + 1
          BY <4>1
        <5> QED BY <5>1, <4>1 DEF OwnRead
      <4>3. hand'[c].conn # c
        BY <4>1, BusAssumption DEF NoReply, Conns, BusAssumption
      <4> QED BY <3>1, <3>2, <4>1, <4>2, <4>3 DEF StaleQueue
    <3>7. CASE UNCHANGED <<replies, hand, got>> /\ (worker'[c] = "claim" <=> worker[c] = "claim")
      <4>1. OwnRead(c)' <=> OwnRead(c)
        BY <3>7 DEF OwnRead
      <4> QED BY <3>1, <3>2, <3>7, <4>1 DEF StaleQueue
    <3> QED BY <3>3, <3>4, <3>5, <3>6, <3>7, ReplySteps
  <2> QED BY <2>1, <2>2
<1>2. ASSUME NEW c \in Conns, found'[c] # "workers",
             NEW i \in 1..Len(got'[c]), NEW j \in 1..Len(got'[c]), i < j, got'[c][i].conn = c
      PROVE  got'[c][j].conn = c
  <2>1. CASE UNCHANGED got /\ ~Open(c)
    <3>1. CASE phase[c] = "new"
      <4>1. got[c] = << >>
        BY <3>1 DEF Orderly
      <4> QED BY <1>2, <2>1, <4>1
    <3>2. CASE phase[c] # "new"
      <4>1. found[c] # "workers"
        BY <1>2, <3>2, PhaseSteps
      <4> QED BY <1>2, <2>1, <4>1 DEF StaleInv
    <3> QED BY <3>1, <3>2
  <2>2. CASE Open(c)
    <3>1. got'[c] = << >>
      BY <1>2, <2>2, OpenAlone
    <3> QED BY <1>2, <3>1
  <2>3. ASSUME NEW d \in Conns, PollClaims(d), d # c PROVE got'[c][j].conn = c
    <3>1. got'[c] = got[c] /\ found' = found
      BY <2>3, ClaimEffect
    <3> QED BY <1>2, <3>1 DEF StaleInv
  <2>4. CASE PollClaims(c)
    <3>1. /\ worker[c] = "claim" /\ Len(got[c]) \in Nat
          /\ phase[c] = "open" /\ ~unlinked[c] =>
                /\ Len(got'[c]) = Len(got[c]) + 1 /\ got'[c][Len(got[c]) + 1] = hand[c]
                /\ \A k \in 1..Len(got[c]) : got'[c][k] = got[c][k]
          /\ ~(phase[c] = "open" /\ ~unlinked[c]) => got'[c] = got[c]
          /\ UNCHANGED found
      BY <2>4, ClaimEffect
    <3>2. CASE ~(phase[c] = "open" /\ ~unlinked[c])
      BY <1>2, <3>1, <3>2 DEF StaleInv
    <3>3. CASE phase[c] = "open" /\ ~unlinked[c]
      <4>1. i \in 1..Len(got[c]) /\ got'[c][i] = got[c][i]
        BY <1>2, <3>1, <3>3
      <4>2. OwnRead(c)
        BY <1>2, <4>1 DEF OwnRead
      <4>3. hand[c].conn = c
        BY <1>2, <3>1, <3>3, <4>2 DEF StaleInv, Alone, StaleQueue
      <4>4. CASE j = Len(got[c]) + 1
        BY <3>1, <3>3, <4>3, <4>4
      <4>5. CASE j \in 1..Len(got[c])
        BY <1>2, <3>1, <3>3, <4>1, <4>5 DEF StaleInv
      <4>6. j \in 1..Len(got[c]) \/ j = Len(got[c]) + 1
        BY <3>1, <3>3
      <4> QED BY <4>4, <4>5, <4>6
    <3> QED BY <3>2, <3>3
  <2>5. UNCHANGED got \/ \E d \in Conns : PollClaims(d)
    BY ReplySteps, ReadEffect, LookEffect
  <2> QED BY <2>1, <2>2, <2>3, <2>4, <2>5
<1> QED BY <1>1, <1>2 DEF StaleInv

\* Replies that a client left behind reach the next one before any of its own,
\* unless workers of an earlier connection still run when it comes.
THEOREM StaleComesFirst == Spec => []StaleFirst
<1>1. Init => Orderly /\ StaleInv
  <2> SUFFICES ASSUME Init PROVE Orderly /\ StaleInv
    OBVIOUS
  <2>1. \A c \in Conns : phase[c] = "new" /\ Quiet(c) /\ got[c] = << >> /\ reads[c] = 0 /\ ~unlinked[c]
    BY DEF Init, Quiet
  <2>2. replies = << >> /\ Len(<< >>) = 0
    BY DEF Init
  <2> QED BY <2>1, <2>2 DEF Orderly, StaleInv, Alone
<1>2. TypeInv /\ Orderly /\ StaleInv /\ [Next]_vars => (Orderly /\ StaleInv)'
  BY OrderlyStep, StaleStep
<1>3. TypeInv /\ StaleInv => StaleFirst
  <2> SUFFICES ASSUME TypeInv, StaleInv, NEW c \in Conns
               PROVE  DOMAIN got[c] = 1..Len(got[c])
    BY DEF StaleFirst, StaleInv
  <2> QED BY LenProperties DEF TypeInv, HistTypes
<1> QED BY <1>1, <1>2, <1>3, TypeInvAlways, PTL DEF Spec
-----------------------------------------------------------------------------
(* A session that starts clean. *)

\* Replies popped and not yet handed over.
Pending(c) == IF worker[c] = "claim" THEN 1 ELSE 0

\* All the replies of the persona answer reads of c, and none is missing: those
\* its client has, the one in the hand of its worker, those in the queue.
CleanQueue(c) ==
    /\ ~unlinked[c]
    /\ \A i \in 1..Len(got[c]) : got[c][i].conn = c /\ got[c][i].n = i
    /\ worker[c] = "claim" => hand[c].conn = c /\ hand[c].n = Len(got[c]) + 1
    /\ \A i \in 1..Len(replies) :
          replies[i].conn = c /\ replies[i].n = (Len(got[c]) + Pending(c)) + i
    /\ reads[c] = (Len(got[c]) + Pending(c)) + Len(replies)

Clean(c) == found[c] = "nothing" /\ tidy[c] /\ phase[c] = "open"

CleanInv == \A c \in Conns : Clean(c) => CleanQueue(c)

\* Only an UNLINK takes a poll from its worker.
LEMMA UnlinkedSteps ==
    ASSUME TypeInv, [Next]_vars, NEW c \in Conns, ~unlinked[c], tidy'[c]
    PROVE  ~unlinked'[c]
<1>1. unlinked \in [Conns -> BOOLEAN] /\ tidy \in [Conns -> BOOLEAN]
  BY DEF TypeInv, InTypes, HistTypes
<1>2. ASSUME NEW d \in Conns, UnlinkPoll(d) PROVE ~unlinked'[c]
  <2>1. d # c
    BY <1>1, <1>2 DEF UnlinkPoll
  <2>2. unlinked'[c] = unlinked[c]
    BY <1>1, <1>2, <2>1 DEF UnlinkPoll
  <2> QED BY <2>2
<1>3. ASSUME NEW d \in Conns, PollCancelled(d) \/ PollClaims(d) PROVE ~unlinked'[c]
  BY <1>1, <1>3 DEF PollCancelled, PollClaims, Forget
<1>4. ASSUME NEW d \in Conns,
             \/ Open(d) \/ (\E u \in plan.menu : SubmitOut(d, u)) \/ SubmitPoll(d)
             \/ (\E i \in 1..plan.urbs : UnlinkOut(d, i)) \/ End(d) \/ WriterFails(d) \/ Vanish(d)
             \/ Release(d) \/ OutWorker(d) \/ PollStarts(d) \/ PollLooks(d) \/ PollAwaits(d)
             \/ PollWakes(d)
      PROVE  ~unlinked'[c]
  <2>1. unlinked' = unlinked
    BY <1>4 DEF Open, SubmitOut, SubmitPoll, UnlinkOut, End, WriterFails, Vanish, Release,
                OutWorker, RunRead, RunWrite, OutBreaks, PollStarts, PollLooks, PollAwaits,
                PollWakes, inVars
  <2> QED BY <2>1
<1>5. StopGrowsOld \/ UNCHANGED vars => ~unlinked'[c]
  BY DEF StopGrowsOld, vars, inVars
<1> QED BY <1>2, <1>3, <1>4, <1>5 DEF Next, Host, InWorker

\* Every step keeps a clean session clean.
LEMMA CleanStep ==
    ASSUME TypeInv, Orderly, StaleInv, CleanInv, [Next]_vars
    PROVE  CleanInv'
<1> SUFFICES ASSUME NEW c \in Conns, Clean(c)' PROVE CleanQueue(c)'
  BY DEF CleanInv
<1>1. found'[c] = "nothing" /\ tidy'[c] /\ phase'[c] = "open"
  BY DEF Clean
<1>2. CASE Open(c)
  <2>1. /\ got'[c] = << >> /\ worker'[c] = "idle" /\ reads'[c] = 0 /\ ~unlinked'[c]
        /\ replies' = << >>
    BY <1>1, <1>2, OpenAlone
  <2>2. Len(<< >>) = 0 /\ \A i \in 1..0 : FALSE
    OBVIOUS
  <2>3. Pending(c)' = 0
    BY <2>1 DEF Pending
  <2> QED BY <2>1, <2>2, <2>3 DEF CleanQueue
<1>3. CASE ~Open(c)
  <2>1. phase[c] = "open" /\ tidy[c]
    BY <1>1, <1>3, PhaseSteps
  <2>2. found[c] = "nothing"
    BY <1>1, <2>1, PhaseSteps
  <2>3. CleanQueue(c)
    BY <2>1, <2>2 DEF CleanInv, Clean
  <2>4. \A d \in Conns \ {c} : Quiet(d)
    BY <2>1, <2>2 DEF StaleInv, Alone, StaleQueue
  <2>5. ~unlinked[c] /\ ~unlinked'[c]
    BY <1>1, <2>3, UnlinkedSteps DEF CleanQueue
  <2>6. \A d \in Conns : RunRead(d) \/ PollLooks(d) \/ PollClaims(d) => d = c
    BY <2>4, AloneWorks
  <2> DEFINE g == Len(got[c])
             p == Pending(c)
             n == Len(replies)
  <2>7. g \in Nat /\ p \in {0, 1} /\ n \in Nat /\ reads[c] = (g + p) + n
    <3>1. g \in Nat /\ n \in Nat
      BY LenProperties DEF TypeInv, HistTypes
    <3> QED BY <3>1, <2>3 DEF CleanQueue, Pending
  <2>8. /\ \A i \in 1..g : got[c][i].conn = c /\ got[c][i].n = i
        /\ worker[c] = "claim" => hand[c].conn = c /\ hand[c].n = g + 1
        /\ \A i \in 1..n : replies[i].conn = c /\ replies[i].n = (g + p) + i
    BY <2>3 DEF CleanQueue
  <2>9. CASE RunRead(c)
    <3>1. /\ Len(replies') = n + 1
          /\ \A i \in 1..n : replies'[i] = replies[i]
          /\ replies'[n + 1].conn = c /\ replies'[n + 1].n = reads[c] + 1
          /\ reads' = [reads EXCEPT ![c] = @ + 1]
          /\ UNCHANGED <<hand, got, worker>>
      BY <2>9, ReadEffect
    <3>2. reads'[c] = reads[c] + 1
      BY <3>1 DEF TypeInv, HistTypes
    <3>3. Pending(c)' = p
      BY <3>1 DEF Pending
    <3> HIDE DEF g, p, n
    <3>4. reads'[c] = (g + p) + (n + 1) /\ reads[c] + 1 = (g + p) + (n + 1)
      BY <2>7, <3>2
    <3>5. \A i \in 1..(n + 1) : i \in 1..n \/ i = n + 1
      BY <2>7
    <3>6. \A i \in 1..Len(replies') : replies'[i].conn = c /\ replies'[i].n = (g + p) + i
      BY <3>1, <3>4, <3>5, <2>8
    <3> QED BY <3>1, <3>3, <3>4, <3>6, <2>5, <2>8 DEF CleanQueue, g
  <2>10. CASE PollLooks(c) /\ replies # << >>
    <3>1. /\ Len(replies') = n - 1 /\ n \in Nat \ {0}
          /\ \A i \in 1..Len(replies') : i + 1 \in 1..n /\ replies'[i] = replies[i + 1]
          /\ hand'[c] = replies[1] /\ worker'[c] = "claim" /\ worker[c] = "look"
          /\ UNCHANGED <<got, reads>>
      BY <2>10, LookEffect
    <3>2. Pending(c)' = 1 /\ p = 0
      BY <3>1 DEF Pending
    <3> HIDE DEF g, p, n
    <3>3. (g + 1) + Len(replies') = (g + p) + n /\ (g + p) + 1 = g + 1 /\ 1 \in 1..n
      BY <2>7, <3>1, <3>2
    <3>4. hand'[c].conn = c /\ hand'[c].n = g + 1
      BY <2>8, <3>1, <3>3
    <3>5. ASSUME NEW i \in 1..Len(replies')
          PROVE  replies'[i].conn = c /\ replies'[i].n = (g + 1) + i
      <4>1. i + 1 \in 1..n /\ replies'[i] = replies[i + 1] /\ i \in Int
        BY <3>1
      <4>2. (g + p) + (i + 1) = (g + 1) + i
        BY <2>7, <3>2, <4>1
      <4> QED BY <4>1, <4>2, <2>8
    <3>6. reads'[c] = (g + 1) + Len(replies')
      BY <2>7, <3>1, <3>3
    <3> QED BY <3>1, <3>2, <3>4, <3>5, <3>6, <2>5, <2>8 DEF CleanQueue, g
  <2>11. CASE PollClaims(c)
    <3>1. /\ worker'[c] = "idle" /\ worker[c] = "claim"
          /\ Len(got'[c]) = g + 1 /\ got'[c][g + 1] = hand[c]
          /\ \A i \in 1..g : got'[c][i] = got[c][i]
          /\ UNCHANGED <<replies, reads>>
      BY <2>1, <2>5, <2>11, ClaimEffect
    <3>2. Pending(c)' = 0 /\ p = 1
      BY <3>1 DEF Pending
    <3> HIDE DEF g, p, n
    <3>3. \A i \in 1..(g + 1) : i \in 1..g \/ i = g + 1
      BY <2>7
    <3>4. \A i \in 1..Len(got'[c]) : got'[c][i].conn = c /\ got'[c][i].n = i
      BY <2>8, <3>1, <3>3
    <3>5. Len(got'[c]) + Pending(c)' = g + p
      BY <2>7, <3>1, <3>2
    <3> QED BY <3>1, <3>4, <3>5, <2>5, <2>7, <2>8 DEF CleanQueue, n
  <2>12. CASE UNCHANGED <<replies, hand, got, reads>> /\ (worker'[c] = "claim" <=> worker[c] = "claim")
    <3>1. Pending(c)' = Pending(c)
      BY <2>12 DEF Pending
    <3> QED BY <2>3, <2>5, <2>12, <3>1 DEF CleanQueue
  <2> QED BY <2>6, <2>9, <2>10, <2>11, <2>12, ReplySteps
<1> QED BY <1>2, <1>3

\* A client that finds the persona idle, nothing in its queue, and that unlinks
\* nothing reads its own answers only, all of them, in the order of its requests.
THEOREM CleanSessionsRead == Spec => []CleanSession
<1>1. Init => Orderly /\ StaleInv /\ CleanInv
  <2> SUFFICES ASSUME Init PROVE Orderly /\ StaleInv /\ CleanInv
    OBVIOUS
  <2>1. \A c \in Conns : phase[c] = "new" /\ Quiet(c) /\ got[c] = << >> /\ reads[c] = 0 /\ ~unlinked[c]
    BY DEF Init, Quiet
  <2>2. replies = << >> /\ Len(<< >>) = 0
    BY DEF Init
  <2> QED BY <2>1, <2>2 DEF Orderly, StaleInv, Alone, CleanInv, Clean
<1>2. TypeInv /\ Orderly /\ StaleInv /\ CleanInv /\ [Next]_vars => (Orderly /\ StaleInv /\ CleanInv)'
  BY OrderlyStep, StaleStep, CleanStep
<1>3. TypeInv /\ CleanInv => CleanSession
  <2> SUFFICES ASSUME TypeInv, CleanInv, NEW c \in Conns
               PROVE  DOMAIN got[c] = 1..Len(got[c])
    BY DEF CleanSession, CleanInv, Clean, CleanQueue
  <2> QED BY LenProperties DEF TypeInv, HistTypes
<1> QED BY <1>1, <1>2, <1>3, TypeInvAlways, PTL DEF Spec
-----------------------------------------------------------------------------
(* Arithmetic of the pointer into the calibration page. *)

\* A remainder is determined.
LEMMA RemainderUnique ==
    ASSUME NEW p \in Nat \ {0}, NEW q1 \in Int, NEW q2 \in Int, NEW r1 \in 0..(p - 1),
           NEW r2 \in 0..(p - 1), (p * q1) + r1 = (p * q2) + r2
    PROVE  r1 = r2
<1>1. CASE q1 = q2
  BY <1>1
<1>2. CASE q1 < q2
  <2>1. q1 + 1 <= q2
    BY <1>2
  <2>2. p * (q2 - q1) >= p
    BY <2>1
  <2> QED BY <2>2
<1>3. CASE q2 < q1
  <2>1. p * (q1 - q2) >= p
    BY <1>3
  <2> QED BY <2>1
<1> QED BY <1>1, <1>2, <1>3

\* Quotient and remainder.
LEMMA Division ==
    ASSUME NEW p \in Nat \ {0}, NEW a \in Nat
    PROVE  a = (p * (a \div p)) + (a % p) /\ a % p \in 0..(p - 1) /\ (a \div p) \in Int
OBVIOUS

\* One more of two numbers with the same remainder.
LEMMA RemainderSuccessor ==
    ASSUME NEW p \in Nat \ {0}, NEW a \in Nat, NEW b \in Nat, a % p = b % p
    PROVE  (a + 1) % p = (b + 1) % p
<1> DEFINE qa == a \div p
           qb == b \div p
           r  == a % p
           q1 == (a + 1) \div p
           q2 == (b + 1) \div p
           ra == (a + 1) % p
           rb == (b + 1) % p
<1>1. a = (p * qa) + r /\ b = (p * qb) + r /\ r \in 0..(p - 1) /\ qa \in Int /\ qb \in Int
  BY Division
<1>2. /\ a + 1 = (p * q1) + ra /\ q1 \in Int /\ ra \in 0..(p - 1)
      /\ b + 1 = (p * q2) + rb /\ q2 \in Int /\ rb \in 0..(p - 1)
  BY Division
<1> HIDE DEF qa, qb, r, q1, q2, ra, rb
<1>3. (p * (q1 + (qb - qa))) + ra = (p * q2) + rb
  BY <1>1, <1>2
<1>4. q1 + (qb - qa) \in Int
  BY <1>1, <1>2
<1>5. ra = rb
  BY <1>2, <1>3, <1>4, RemainderUnique
<1> QED BY <1>5 DEF ra, rb

\* The remainder of a remainder.
LEMMA RemainderTwice ==
    ASSUME NEW p \in Nat \ {0}, NEW a \in Nat PROVE (a % p) % p = a % p
OBVIOUS

-----------------------------------------------------------------------------
(* The latest of some places of a history. *)

\* A set of places that is not empty has a last one: of the sets of the places
\* after each of its places, a minimal one is empty.
LEMMA Greatest ==
    ASSUME NEW n \in Nat, NEW T \in SUBSET (1..n), T # {}
    PROVE  \E x \in T : \A y \in T : y <= x
<1> DEFINE Above(x) == {y \in T : x < y}
           F == {Above(x) : x \in T}
<1>1. \A x \in T : x \in Int
  OBVIOUS
<1>2. IsFiniteSet(T)
  <2>1. IsFiniteSet(1..n)
    BY FS_Interval
  <2> QED BY <2>1, FS_Subset
<1>3. F \subseteq FiniteSubsetsOf(T) /\ F # {}
  <2>1. \A x \in T : Above(x) \subseteq T /\ IsFiniteSet(Above(x))
    BY <1>2, FS_Subset
  <2> QED BY <2>1 DEF FiniteSubsetsOf
<1>4. IsWellFoundedOn(StrictSubsetOrdering(T), FiniteSubsetsOf(T))
  BY FS_StrictSubsetOrderingWellFounded
<1>5. PICK A \in F : \A B \in F : ~(<<B, A>> \in StrictSubsetOrdering(T))
  BY <1>3, <1>4, WFMin
<1>6. PICK x \in T : A = Above(x)
  BY <1>5
<1>7. ASSUME NEW y \in T, x < y PROVE FALSE
  <2>1. Above(y) \subseteq Above(x) /\ y \in Above(x) /\ y \notin Above(y)
    <3>1. \A z \in T : y < z => x < z
      BY <1>1, <1>7
    <3>2. ~(y < y)
      BY <1>1
    <3> QED BY <1>7, <3>1, <3>2, Zenon
  <2>2. <<Above(y), Above(x)>> \in StrictSubsetOrdering(T)
    BY <2>1 DEF StrictSubsetOrdering
  <2>3. Above(y) \in F
    OBVIOUS
  <2> QED BY <2>2, <2>3, <1>5, <1>6
<1> QED BY <1>1, <1>7

\* The latest of a set of places, and of one with a later place.
LEMMA LatestProperties ==
    ASSUME NEW n \in Nat, NEW T \in SUBSET (1..n)
    PROVE  /\ Port!Latest(T) \in 0..n
           /\ Port!Latest(T) # 0 => Port!Latest(T) \in T
           /\ Port!Latest(T \cup {n + 1}) = n + 1
<1>1. ASSUME T # {} PROVE Port!Latest(T) \in T
  <2>1. \E x \in T : \A y \in T : y <= x
    BY <1>1, Greatest
  <2> QED BY <1>1, <2>1 DEF Port!Latest
<1>2. T = {} => Port!Latest(T) = 0
  BY DEF Port!Latest
<1>3. Port!Latest(T \cup {n + 1}) = n + 1
  <2> DEFINE U == T \cup {n + 1}
  <2>1. n + 1 \in U /\ (\A y \in U : y <= n + 1) /\ (\A y \in U : y \in Int) /\ U # {}
    OBVIOUS
  <2> HIDE DEF U
  <2>2. \A x \in U : (\A y \in U : y <= x) => x = n + 1
    BY <2>1
  <2>3. Port!Latest(U) = n + 1
    BY <2>1, <2>2 DEF Port!Latest
  <2> QED BY <2>3 DEF U
<1>4. CASE T = {}
  BY <1>2, <1>3, <1>4
<1>5. CASE T # {}
  <2>1. Port!Latest(T) \in T /\ T \subseteq 1..n
    BY <1>1, <1>5
  <2>2. \A i \in 1..n : i \in 0..n
    OBVIOUS
  <2> QED BY <2>1, <2>2, <1>3
<1> QED BY <1>4, <1>5

-----------------------------------------------------------------------------
(* What a history says once a frame is appended to it. *)

Wrote(f, r) == f.op = "write" /\ f.reg = r

\* The history with one more frame.
LEMMA AppendHistory ==
    ASSUME NEW h \in History, NEW f \in Frames \cup {Settle}
    PROVE  /\ Len(h) \in Nat /\ Append(h, f) \in History
           /\ Len(Append(h, f)) = Len(h) + 1 /\ Append(h, f)[Len(h) + 1] = f
           /\ \A i \in 1..Len(h) : Append(h, f)[i] = h[i]
           /\ 1..(Len(h) + 1) = (1..Len(h)) \cup {Len(h) + 1}
           /\ f.val \in Nat
<1> DEFINE S == [op : {"read", "write", "settle"}, reg : Registers, val : Nat]
<1>1. f \in S
  BY DEF Frames, Settle, Registers, Named
<1>2. h \in Seq(S)
  BY DEF History
<1>3. f.val \in Nat
  BY <1>1
<1> HIDE DEF S
<1>4. /\ Len(h) \in Nat /\ Append(h, f) \in Seq(S)
      /\ Len(Append(h, f)) = Len(h) + 1 /\ Append(h, f)[Len(h) + 1] = f
      /\ \A i \in 1..Len(h) : Append(h, f)[i] = h[i]
  BY <1>1, <1>2, LenProperties, AppendKeeps
<1>5. 1..(Len(h) + 1) = (1..Len(h)) \cup {Len(h) + 1}
  BY <1>4
<1> QED BY <1>3, <1>4, <1>5 DEF S, History

\* The writes to a register.
LEMMA AppendWrites ==
    ASSUME NEW h \in History, NEW f \in Frames \cup {Settle}, NEW r
    PROVE  /\ Port!WritesTo(h, r) \in SUBSET (1..Len(h))
           /\ Port!WritesTo(Append(h, f), r) =
                 IF Wrote(f, r) THEN Port!WritesTo(h, r) \cup {Len(h) + 1} ELSE Port!WritesTo(h, r)
<1> DEFINE H == Append(h, f)
           n == Len(h)
<1>1. /\ n \in Nat /\ Len(H) = n + 1 /\ H[n + 1] = f /\ \A i \in 1..n : H[i] = h[i]
      /\ 1..(n + 1) = (1..n) \cup {n + 1}
  BY AppendHistory
<1> HIDE DEF H, n
<1>2. Port!WritesTo(h, r) = {i \in 1..n : h[i].op = "write" /\ h[i].reg = r}
  BY DEF Port!WritesTo, n
<1>3. Port!WritesTo(H, r) = {i \in 1..(n + 1) : H[i].op = "write" /\ H[i].reg = r}
  BY <1>1 DEF Port!WritesTo
<1>4. Port!WritesTo(H, r) = IF Wrote(f, r) THEN Port!WritesTo(h, r) \cup {n + 1}
                            ELSE Port!WritesTo(h, r)
  BY <1>1, <1>2, <1>3 DEF Wrote
<1> QED BY <1>2, <1>4 DEF H, n

\* The writes to a register that say one of some values.
Saying(h, r, V) == {i \in Port!WritesTo(h, r) : h[i].val \in V}

\* The same with one more frame.
LEMMA AppendSaying ==
    ASSUME NEW h \in History, NEW f \in Frames \cup {Settle}, NEW r, NEW V
    PROVE  /\ Saying(h, r, V) \in SUBSET (1..Len(h))
           /\ Saying(Append(h, f), r, V) =
                 IF Wrote(f, r) /\ f.val \in V THEN Saying(h, r, V) \cup {Len(h) + 1}
                 ELSE Saying(h, r, V)
<1> DEFINE H == Append(h, f)
           n == Len(h)
           W == Port!WritesTo(h, r)
<1>1. n \in Nat /\ H[n + 1] = f /\ \A i \in 1..n : H[i] = h[i]
  BY AppendHistory
<1>2. W \in SUBSET (1..n) /\ Port!WritesTo(H, r) = IF Wrote(f, r) THEN W \cup {n + 1} ELSE W
  BY AppendWrites
<1> HIDE DEF H, n, W
<1>3. {i \in Port!WritesTo(H, r) : H[i].val \in V} =
         IF Wrote(f, r) /\ f.val \in V THEN {i \in W : h[i].val \in V} \cup {n + 1}
         ELSE {i \in W : h[i].val \in V}
  BY <1>1, <1>2
<1>4. Saying(h, r, V) = {i \in W : h[i].val \in V}
  BY DEF Saying, W
<1>5. Saying(H, r, V) = {i \in Port!WritesTo(H, r) : H[i].val \in V}
  BY DEF Saying
<1> QED BY <1>2, <1>3, <1>4, <1>5 DEF H, n

\* The last value written to a register.
LEMMA AppendWritten ==
    ASSUME NEW h \in History, NEW f \in Frames \cup {Settle}, NEW r, NEW d
    PROVE  Port!Written(Append(h, f), r, d) =
              IF Wrote(f, r) THEN f.val ELSE Port!Written(h, r, d)
<1> DEFINE H == Append(h, f)
           n == Len(h)
           W == Port!WritesTo(h, r)
<1>1. n \in Nat /\ H[n + 1] = f /\ \A i \in 1..n : H[i] = h[i]
  BY AppendHistory
<1>2. W \in SUBSET (1..n) /\ Port!WritesTo(H, r) = IF Wrote(f, r) THEN W \cup {n + 1} ELSE W
  BY AppendWrites
<1> HIDE DEF H, n, W
<1>3. Port!Latest(W) \in 0..n /\ Port!Latest(W \cup {n + 1}) = n + 1
  BY <1>1, <1>2, LatestProperties
<1>4. Port!Written(h, r, d) = IF Port!Latest(W) = 0 THEN d ELSE h[Port!Latest(W)].val
  BY DEF Port!Written, W
<1>5. Port!Written(H, r, d) = IF Port!Latest(Port!WritesTo(H, r)) = 0 THEN d
                              ELSE H[Port!Latest(Port!WritesTo(H, r))].val
  BY DEF Port!Written
<1>6. CASE Wrote(f, r)
  <2>1. Port!Latest(Port!WritesTo(H, r)) = n + 1 /\ n + 1 # 0
    BY <1>1, <1>2, <1>3, <1>6
  <2>2. Port!Written(H, r, d) = f.val
    BY <2>1, <1>1, <1>5
  <2> QED BY <2>2, <1>6 DEF H
<1>7. CASE ~Wrote(f, r)
  <2>1. Port!Latest(W) # 0 => H[Port!Latest(W)] = h[Port!Latest(W)]
    BY <1>1, <1>3
  <2> QED BY <2>1, <1>2, <1>4, <1>5, <1>7 DEF H
<1> QED BY <1>6, <1>7
\* It is a number.
LEMMA WrittenType ==
    ASSUME NEW h \in History, NEW r, NEW d \in Nat PROVE Port!Written(h, r, d) \in Nat
<1> DEFINE S == [op : {"read", "write", "settle"}, reg : Registers, val : Nat]
           j == Port!Latest(Port!WritesTo(h, r))
<1>1. h \in Seq(S) /\ Len(h) \in Nat
  BY LenProperties DEF History
<1>2. Port!WritesTo(h, r) \in SUBSET (1..Len(h))
  BY DEF Port!WritesTo
<1>3. j \in 0..Len(h)
  BY <1>1, <1>2, LatestProperties
<1>4. Port!Written(h, r, d) = IF j = 0 THEN d ELSE h[j].val
  BY DEF Port!Written
<1>5. \A i \in 1..Len(h) : h[i].val \in Nat
  <2>1. \A i \in 1..Len(h) : h[i] \in S
    BY <1>1, ElementOfSeq
  <2> QED BY <2>1
<1> HIDE DEF j
<1> QED BY <1>3, <1>4, <1>5

\* The last write to BOOTLOADER_ENTRY was the first magic.
Armed(h) ==
    LET j == Port!Latest(Port!WritesTo(h, "BOOTLOADER_ENTRY"))
    IN j # 0 /\ h[j].val = Magic1

\* The unlock is armed by the last write to its register alone.
LEMMA AppendArmed ==
    ASSUME NEW h \in History, NEW f \in Frames \cup {Settle}
    PROVE  Armed(Append(h, f)) <=>
              IF Wrote(f, "BOOTLOADER_ENTRY") THEN f.val = Magic1 ELSE Armed(h)
<1> DEFINE H == Append(h, f)
           n == Len(h)
           W == Port!WritesTo(h, "BOOTLOADER_ENTRY")
           j == Port!Latest(W)
           k == Port!Latest(Port!WritesTo(H, "BOOTLOADER_ENTRY"))
<1>1. n \in Nat /\ H[n + 1] = f /\ \A i \in 1..n : H[i] = h[i]
  BY AppendHistory
<1>2. W \in SUBSET (1..n) /\ Port!WritesTo(H, "BOOTLOADER_ENTRY") =
         IF Wrote(f, "BOOTLOADER_ENTRY") THEN W \cup {n + 1} ELSE W
  BY AppendWrites
<1>3. (Armed(h) <=> j # 0 /\ h[j].val = Magic1) /\ (Armed(H) <=> k # 0 /\ H[k].val = Magic1)
  BY DEF Armed
<1> HIDE DEF H, n
<1>4. j \in 0..n /\ k = IF Wrote(f, "BOOTLOADER_ENTRY") THEN n + 1 ELSE j
  BY <1>1, <1>2, LatestProperties
<1> HIDE DEF W, j, k
<1>5. CASE Wrote(f, "BOOTLOADER_ENTRY")
  <2>1. k = n + 1 /\ n + 1 # 0 /\ H[k] = f
    BY <1>1, <1>4, <1>5
  <2> QED BY <2>1, <1>3, <1>5 DEF H
<1>6. CASE ~Wrote(f, "BOOTLOADER_ENTRY")
  <2>1. j # 0 => H[j] = h[j]
    BY <1>1, <1>4
  <2> QED BY <2>1, <1>3, <1>4, <1>6 DEF H
<1> QED BY <1>5, <1>6

\* The places that unlock: a frame unlocks when it is the second magic and the
\* history before it is armed.
LEMMA AppendUnlocks ==
    ASSUME NEW h \in History, NEW f \in Frames \cup {Settle}
    PROVE  /\ Port!Unlocks(h) \in SUBSET (1..Len(h))
           /\ Port!Unlocks(Append(h, f)) =
                 IF Wrote(f, "BOOTLOADER_ENTRY") /\ f.val = Magic2 /\ Armed(h)
                 THEN Port!Unlocks(h) \cup {Len(h) + 1} ELSE Port!Unlocks(h)
           /\ Port!UnlockedAt(Append(h, f), Len(h) + 1) <=>
                 Wrote(f, "BOOTLOADER_ENTRY") /\ f.val = Magic2 /\ Armed(h)
<1> DEFINE H == Append(h, f)
           n == Len(h)
           W == Port!WritesTo(h, "BOOTLOADER_ENTRY")
           X == Port!WritesTo(H, "BOOTLOADER_ENTRY")
           wrote == Wrote(f, "BOOTLOADER_ENTRY")
<1>1. /\ n \in Nat /\ H[n + 1] = f /\ (\A i \in 1..n : H[i] = h[i]) /\ Len(H) = n + 1
      /\ 1..(n + 1) = (1..n) \cup {n + 1}
  BY AppendHistory
<1>2. W \in SUBSET (1..n) /\ X = IF wrote THEN W \cup {n + 1} ELSE W
  BY AppendWrites
<1>3. Armed(h) <=> Port!Latest(W) # 0 /\ h[Port!Latest(W)].val = Magic1
  BY DEF Armed
<1>4. \A i : Port!UnlockedAt(h, i) <=>
         /\ i \in W /\ h[i].val = Magic2
         /\ Port!Latest({k \in W : k < i}) # 0 /\ h[Port!Latest({k \in W : k < i})].val = Magic1
  BY DEF Port!UnlockedAt
<1>5. \A i : Port!UnlockedAt(H, i) <=>
         /\ i \in X /\ H[i].val = Magic2
         /\ Port!Latest({k \in X : k < i}) # 0 /\ H[Port!Latest({k \in X : k < i})].val = Magic1
  BY DEF Port!UnlockedAt
<1>6. Port!Unlocks(h) = {i \in 1..n : Port!UnlockedAt(h, i)}
  BY DEF Port!Unlocks
<1>7. Port!Unlocks(H) = {i \in 1..(n + 1) : Port!UnlockedAt(H, i)}
  BY <1>1 DEF Port!Unlocks
<1> HIDE DEF H, n, W, X, wrote
<1>8. ASSUME NEW i \in 1..n PROVE Port!UnlockedAt(H, i) <=> Port!UnlockedAt(h, i)
  <2>1. {k \in X : k < i} = {k \in W : k < i} /\ (i \in X <=> i \in W)
    BY <1>1, <1>2
  <2>2. {k \in W : k < i} \in SUBSET (1..n)
    BY <1>2
  <2> DEFINE j == Port!Latest({k \in W : k < i})
  <2>3. j \in 0..n
    BY <1>1, <2>2, LatestProperties
  <2>4. (j # 0 => H[j] = h[j]) /\ H[i] = h[i]
    BY <1>1, <2>3
  <2>5. Port!UnlockedAt(h, i) <=> i \in W /\ h[i].val = Magic2 /\ j # 0 /\ h[j].val = Magic1
    BY <1>4
  <2>6. Port!UnlockedAt(H, i) <=> i \in W /\ H[i].val = Magic2 /\ j # 0 /\ H[j].val = Magic1
    BY <1>5, <2>1
  <2> HIDE DEF j
  <2> QED BY <2>4, <2>5, <2>6
<1>9. Port!UnlockedAt(H, n + 1) <=> wrote /\ f.val = Magic2 /\ Armed(h)
  <2>1. n + 1 \in X <=> wrote
    BY <1>1, <1>2
  <2>2. {k \in X : k < n + 1} = W
    <3>1. ~(n + 1 < n + 1) /\ \A k \in 1..n : k < n + 1
      BY <1>1
    <3> QED BY <3>1, <1>2
  <2> DEFINE j == Port!Latest(W)
  <2>3. j \in 0..n
    BY <1>1, <1>2, LatestProperties
  <2>4. j # 0 => H[j] = h[j]
    BY <1>1, <2>3
  <2>5. Port!UnlockedAt(H, n + 1) <=> n + 1 \in X /\ H[n + 1].val = Magic2 /\ j # 0 /\ H[j].val = Magic1
    BY <1>5, <2>2
  <2>6. Armed(h) <=> j # 0 /\ h[j].val = Magic1
    BY <1>3
  <2> HIDE DEF j
  <2> QED BY <1>1, <2>1, <2>4, <2>5, <2>6
<1>10. Port!Unlocks(H) = IF wrote /\ f.val = Magic2 /\ Armed(h) THEN Port!Unlocks(h) \cup {n + 1}
                         ELSE Port!Unlocks(h)
  BY <1>1, <1>6, <1>7, <1>8, <1>9
<1>11. Port!Unlocks(h) \in SUBSET (1..n)
  BY <1>6
<1> QED BY <1>9, <1>10, <1>11 DEF H, n, wrote

\* Which of two sets of places has the later one, once a place is added to one
\* of them.
LEMMA LaterOf ==
    ASSUME NEW n \in Nat, NEW A \in SUBSET (1..n), NEW B \in SUBSET (1..n)
    PROVE  /\ Port!Latest(A \cup {n + 1}) > Port!Latest(B)
           /\ ~(Port!Latest(A) > Port!Latest(B \cup {n + 1}))
<1>1. Port!Latest(A) \in 0..n /\ Port!Latest(B) \in 0..n
  BY LatestProperties
<1>2. Port!Latest(A \cup {n + 1}) = n + 1 /\ Port!Latest(B \cup {n + 1}) = n + 1
  BY LatestProperties
<1> QED BY <1>1, <1>2

\* The stream runs from a start to the next stop or unlock.
LEMMA AppendStreaming ==
    ASSUME NEW h \in History, NEW f \in Frames \cup {Settle}
    PROVE  /\ Wrote(f, "STREAM_CTRL") /\ f.val = 5 => Port!Streaming(Append(h, f))
           /\ \/ Wrote(f, "STREAM_CTRL") /\ f.val = 0
              \/ Wrote(f, "BOOTLOADER_ENTRY") /\ f.val = Magic2 /\ Armed(h)
              => ~Port!Streaming(Append(h, f))
           /\ /\ ~(Wrote(f, "STREAM_CTRL") /\ f.val \in {0, 5})
              /\ ~(Wrote(f, "BOOTLOADER_ENTRY") /\ f.val = Magic2 /\ Armed(h))
              => (Port!Streaming(Append(h, f)) <=> Port!Streaming(h))
<1> DEFINE H == Append(h, f)
           n == Len(h)
           A == Port!Starts(h)
           B == Port!Stops(h)
           U == Port!Unlocks(h)
           starts == Wrote(f, "STREAM_CTRL") /\ f.val = 5
           stops == Wrote(f, "STREAM_CTRL") /\ f.val = 0
           unlocks == Wrote(f, "BOOTLOADER_ENTRY") /\ f.val = Magic2 /\ Armed(h)
<1>1. n \in Nat
  BY AppendHistory
<1>2. A \in SUBSET (1..n) /\ Port!Starts(H) = IF starts THEN A \cup {n + 1} ELSE A
  <2>1. \A x : Port!Starts(x) = Saying(x, "STREAM_CTRL", {5})
    BY DEF Port!Starts, Saying
  <2> QED BY <2>1, AppendSaying
<1>3. B \in SUBSET (1..n) /\ Port!Stops(H) = IF stops THEN B \cup {n + 1} ELSE B
  <2>1. \A x : Port!Stops(x) = Saying(x, "STREAM_CTRL", {0})
    BY DEF Port!Stops, Saying
  <2> QED BY <2>1, AppendSaying
<1>4. U \in SUBSET (1..n) /\ Port!Unlocks(H) = IF unlocks THEN U \cup {n + 1} ELSE U
  BY AppendUnlocks
<1>5. \A x : Port!Streaming(x) <=>
         Port!Latest(Port!Starts(x)) > Port!Latest(Port!Stops(x) \cup Port!Unlocks(x))
  BY DEF Port!Streaming
<1>6. ~(starts /\ stops) /\ ~(starts /\ unlocks)
  BY DEF Wrote
<1>7. Port!Streaming(h) <=> Port!Latest(A) > Port!Latest(B \cup U)
  BY <1>5
<1>8. Port!Streaming(H) <=>
         Port!Latest(Port!Starts(H)) > Port!Latest(Port!Stops(H) \cup Port!Unlocks(H))
  BY <1>5
<1> HIDE DEF H, n, A, B, U
<1>9. B \cup U \in SUBSET (1..n)
  BY <1>3, <1>4
<1>10. CASE starts
  <2>1. Port!Starts(H) = A \cup {n + 1} /\ Port!Stops(H) \cup Port!Unlocks(H) = B \cup U
    BY <1>2, <1>3, <1>4, <1>6, <1>10
  <2>2. Port!Streaming(H)
    BY <2>1, <1>1, <1>2, <1>8, <1>9, LaterOf
  <2> QED BY <2>2, <1>6, <1>10 DEF H
<1>11. CASE stops \/ unlocks
  <2>1. Port!Starts(H) = A /\ Port!Stops(H) \cup Port!Unlocks(H) = (B \cup U) \cup {n + 1}
    BY <1>2, <1>3, <1>4, <1>6, <1>11
  <2>2. ~Port!Streaming(H)
    BY <2>1, <1>1, <1>2, <1>8, <1>9, LaterOf
  <2> QED BY <2>2, <1>6, <1>11 DEF H
<1>12. CASE ~starts /\ ~stops /\ ~unlocks
  <2>1. Port!Streaming(H) <=> Port!Streaming(h)
    BY <1>2, <1>3, <1>4, <1>7, <1>8, <1>12
  <2> QED BY <2>1, <1>12 DEF H
<1> QED BY <1>10, <1>11, <1>12
\* I2S_CTRL: the last value that means something.
LEMMA AppendI2s ==
    ASSUME NEW h \in History, NEW f \in Frames \cup {Settle}
    PROVE  Port!I2sOn(Append(h, f)) <=>
              IF Wrote(f, "I2S_CTRL") /\ f.val \in {0, 1} THEN f.val = 1 ELSE Port!I2sOn(h)
<1> DEFINE H == Append(h, f)
           n == Len(h)
           V == {0, 1}
           W == Saying(h, "I2S_CTRL", V)
           X == Saying(H, "I2S_CTRL", V)
           j == Port!Latest(W)
           k == Port!Latest(X)
           says == Wrote(f, "I2S_CTRL") /\ f.val \in V
<1>1. n \in Nat /\ H[n + 1] = f /\ \A i \in 1..n : H[i] = h[i]
  BY AppendHistory
<1>3. \A x : Port!I2sOn(x) <=> /\ Port!Latest(Saying(x, "I2S_CTRL", V)) # 0
                               /\ x[Port!Latest(Saying(x, "I2S_CTRL", V))].val = 1
  BY DEF Port!I2sOn, Saying
<1> HIDE DEF V
<1>2. W \in SUBSET (1..n) /\ X = IF says THEN W \cup {n + 1} ELSE W
  BY AppendSaying
<1>4. (Port!I2sOn(h) <=> j # 0 /\ h[j].val = 1) /\ (Port!I2sOn(H) <=> k # 0 /\ H[k].val = 1)
  BY <1>3
<1> HIDE DEF H, n, W, X
<1>5. j \in 0..n /\ k = IF says THEN n + 1 ELSE j
  BY <1>1, <1>2, LatestProperties
<1> HIDE DEF j, k
<1>6. CASE says
  <2>1. k = n + 1 /\ n + 1 # 0 /\ H[k] = f
    BY <1>1, <1>5, <1>6
  <2> QED BY <2>1, <1>4, <1>6 DEF H, V
<1>7. CASE ~says
  <2>1. j # 0 => H[j] = h[j]
    BY <1>1, <1>5
  <2> QED BY <2>1, <1>4, <1>5, <1>7 DEF H, V
<1> QED BY <1>6, <1>7

\* The moments at which a stop grew old.
Settles(h) == {i \in 1..Len(h) : h[i].op = "settle"}

\* STREAM_STATUS: a stop, until it grows old.
LEMMA AppendStopped ==
    ASSUME NEW h \in History, NEW f \in Frames \cup {Settle}
    PROVE  /\ Wrote(f, "STREAM_CTRL") /\ f.val = 0 => Port!JustStopped(Append(h, f))
           /\ f.op = "settle" => ~Port!JustStopped(Append(h, f))
           /\ ~(Wrote(f, "STREAM_CTRL") /\ f.val = 0) /\ f.op # "settle"
              => (Port!JustStopped(Append(h, f)) <=> Port!JustStopped(h))
<1> DEFINE H == Append(h, f)
           n == Len(h)
           V == {0}
           A == Saying(h, "STREAM_CTRL", V)
           B == Settles(h)
           stops == Wrote(f, "STREAM_CTRL") /\ f.val = 0
           settles == f.op = "settle"
<1>1. /\ n \in Nat /\ H[n + 1] = f /\ (\A i \in 1..n : H[i] = h[i]) /\ Len(H) = n + 1
      /\ 1..(n + 1) = (1..n) \cup {n + 1}
  BY AppendHistory
<1>3. (\A x : Port!Stops(x) = Saying(x, "STREAM_CTRL", V)) /\ (f.val \in V <=> f.val = 0)
  BY DEF Port!Stops, Saying
<1> HIDE DEF V
<1>2. A \in SUBSET (1..n) /\ Saying(H, "STREAM_CTRL", V) = IF stops THEN A \cup {n + 1} ELSE A
  BY AppendSaying, <1>3
<1>4. \A x : Port!JustStopped(x) <=> Port!Latest(Port!Stops(x)) > Port!Latest(Settles(x))
  BY DEF Port!JustStopped, Settles
<1>5. (Port!JustStopped(h) <=> Port!Latest(A) > Port!Latest(B)) /\
      (Port!JustStopped(H) <=>
         Port!Latest(Saying(H, "STREAM_CTRL", V)) > Port!Latest(Settles(H)))
  BY <1>3, <1>4
<1>6. B = {i \in 1..n : h[i].op = "settle"} /\ Settles(H) = {i \in 1..(n + 1) : H[i].op = "settle"}
  BY <1>1 DEF Settles
<1> HIDE DEF H, n, A, B
<1>7. B \in SUBSET (1..n) /\ Settles(H) = IF settles THEN B \cup {n + 1} ELSE B
  BY <1>1, <1>6
<1>8. ~(stops /\ settles)
  BY DEF Wrote
<1>9. CASE stops
  <2>1. Port!JustStopped(H)
    BY <1>1, <1>2, <1>5, <1>7, <1>8, <1>9, LaterOf
  <2> QED BY <2>1, <1>8, <1>9 DEF H
<1>10. CASE settles
  <2>1. ~Port!JustStopped(H)
    BY <1>1, <1>2, <1>5, <1>7, <1>8, <1>10, LaterOf
  <2> QED BY <2>1, <1>8, <1>10 DEF H
<1>11. CASE ~stops /\ ~settles
  <2>1. Port!JustStopped(H) <=> Port!JustStopped(h)
    BY <1>2, <1>5, <1>7, <1>11
  <2> QED BY <2>1, <1>11 DEF H
<1> QED BY <1>9, <1>10, <1>11

\* The specification of the port counts the elements of a set in the same way.
LEMMA CardinalityInPort == \A S : Port!Cardinality(S) = Cardinality(S)
BY Zenon DEF Port!Cardinality, Cardinality

\* A read that takes a word off the page.
Walks(f) == f.op = "read" /\ f.reg \in {"CALIBRATION", "TRACE_READ"}

\* The words read off the selected page: none when it was selected, and one more
\* with every read that takes one.
LEMMA AppendWords ==
    ASSUME NEW h \in History, NEW f \in Frames \cup {Settle}
    PROVE  /\ Port!WordsRead(h) \in Nat
           /\ Port!WordsRead(Append(h, f)) =
                 IF Wrote(f, "PAGE_SELECT") THEN 0
                 ELSE IF Walks(f) THEN Port!WordsRead(h) + 1 ELSE Port!WordsRead(h)
<1> DEFINE H == Append(h, f)
           n == Len(h)
           W == Port!WritesTo(h, "PAGE_SELECT")
           X == Port!WritesTo(H, "PAGE_SELECT")
           j == Port!Latest(W)
           k == Port!Latest(X)
           R(x, m, i) == {y \in 1..m : y > i /\ Walks(x[y])}
<1>1. /\ n \in Nat /\ H[n + 1] = f /\ (\A i \in 1..n : H[i] = h[i]) /\ Len(H) = n + 1
      /\ 1..(n + 1) = (1..n) \cup {n + 1}
  BY AppendHistory
<1>2. W \in SUBSET (1..n) /\ X = IF Wrote(f, "PAGE_SELECT") THEN W \cup {n + 1} ELSE W
  BY AppendWrites
<1>3. Port!WordsRead(h) = Cardinality(R(h, n, j)) /\ Port!WordsRead(H) = Cardinality(R(H, n + 1, k))
  <2>1. \A x : R(x, Len(x), Port!Latest(Port!WritesTo(x, "PAGE_SELECT"))) =
           {i \in 1..Len(x) : /\ i > Port!Latest(Port!WritesTo(x, "PAGE_SELECT"))
                              /\ x[i].op = "read" /\ x[i].reg \in {"CALIBRATION", "TRACE_READ"}}
    BY DEF Walks
  <2>2. \A x : Port!WordsRead(x) = Cardinality({i \in 1..Len(x) :
                  /\ i > Port!Latest(Port!WritesTo(x, "PAGE_SELECT"))
                  /\ x[i].op = "read" /\ x[i].reg \in {"CALIBRATION", "TRACE_READ"}})
    BY CardinalityInPort DEF Port!WordsRead
  <2>3. \A x : Port!WordsRead(x) = Cardinality(R(x, Len(x), Port!Latest(Port!WritesTo(x, "PAGE_SELECT"))))
    BY <2>1, <2>2, Zenon
  <2> QED BY <2>3, <1>1
<1> HIDE DEF H, n, W, X
<1>4. j \in 0..n /\ k = IF Wrote(f, "PAGE_SELECT") THEN n + 1 ELSE j
  BY <1>1, <1>2, LatestProperties
<1> HIDE DEF j, k
<1>5. IsFiniteSet(R(h, n, j)) /\ n + 1 \notin R(h, n, j)
  <2>1. IsFiniteSet(1..n)
    BY <1>1, FS_Interval
  <2>2. R(h, n, j) \subseteq 1..n /\ n + 1 \notin 1..n
    BY <1>1
  <2> QED BY <2>1, <2>2, FS_Subset
<1>6. Cardinality(R(h, n, j)) \in Nat
  BY <1>5, FS_CardinalityType
<1>7. CASE Wrote(f, "PAGE_SELECT")
  <2>1. R(H, n + 1, k) = {}
    BY <1>1, <1>4, <1>7
  <2>2. Cardinality({}) = 0
    BY FS_EmptySet
  <2> QED BY <2>1, <2>2, <1>3, <1>6, <1>7 DEF H
<1>8. CASE ~Wrote(f, "PAGE_SELECT") /\ Walks(f)
  <2>1. n + 1 > j
    BY <1>1, <1>4
  <2>2. R(H, n + 1, k) = R(h, n, j) \cup {n + 1}
    BY <2>1, <1>1, <1>4, <1>8
  <2>3. Cardinality(R(h, n, j) \cup {n + 1}) = Cardinality(R(h, n, j)) + 1
    BY <1>5, FS_AddElement
  <2> QED BY <2>2, <2>3, <1>3, <1>6, <1>8 DEF H
<1>9. CASE ~Wrote(f, "PAGE_SELECT") /\ ~Walks(f)
  <2>1. R(H, n + 1, k) = R(h, n, j)
    BY <1>1, <1>4, <1>9
  <2> QED BY <2>1, <1>3, <1>6, <1>9 DEF H
<1> QED BY <1>7, <1>8, <1>9
-----------------------------------------------------------------------------
(* The registers say what the history says. *)

\* Registers that keep any value written have no other meaning.
LEMMA PlainApart ==
    \A r \in Plain : /\ r \notin {"INPUT_GAIN", "OUTPUT_GAIN", "STREAM_CTRL", "SAMPLE_RATE",
                                 "I2S_CTRL", "PAGE_SELECT", "CALIBRATION", "TRACE_READ",
                                 "STREAM_STATUS", "BOOTLOADER_ENTRY"}
                     /\ r \notin DOMAIN Served
BY RegisterAssumption DEF RegisterAssumption, Plain, Named

\* What a frame leaves of the registers.
After(s, f) ==
    CASE f.op = "read"   -> AfterRead(s, f.reg)
      [] f.op = "write"  -> AfterWrite(s, f.reg, f.val)
      [] f.op = "settle" -> Settled(s)

\* The same, field by field.
LEMMA FieldsAfter ==
    ASSUME NEW s \in States, NEW f \in Frames \cup {Settle}
    PROVE  LET t == After(s, f) IN
           /\ \A r \in Plain : t.plain[r] = IF Wrote(f, r) THEN f.val ELSE s.plain[r]
           /\ t.inputGain = IF Wrote(f, "INPUT_GAIN") THEN f.val % 8 ELSE s.inputGain
           /\ t.outputGain = IF Wrote(f, "OUTPUT_GAIN") THEN f.val % 4 ELSE s.outputGain
           /\ t.rate = IF Wrote(f, "SAMPLE_RATE") THEN RateOf(f.val) ELSE s.rate
           /\ t.streaming <=> \/ Wrote(f, "STREAM_CTRL") /\ f.val = 5
                              \/ /\ ~(Wrote(f, "STREAM_CTRL") /\ f.val = 0)
                                 /\ ~(Wrote(f, "BOOTLOADER_ENTRY") /\ f.val = Magic2 /\ s.stage = 1)
                                 /\ s.streaming
           /\ t.i2s <=> \/ Wrote(f, "I2S_CTRL") /\ f.val = 1
                        \/ ~(Wrote(f, "I2S_CTRL") /\ f.val = 0) /\ s.i2s
           /\ t.stopped <=> \/ Wrote(f, "STREAM_CTRL") /\ f.val = 0
                            \/ f.op # "settle" /\ s.stopped
           /\ t.page = IF Wrote(f, "PAGE_SELECT") THEN f.val ELSE s.page
           /\ t.ptr = IF Wrote(f, "PAGE_SELECT") THEN 0
                      ELSE IF f.op = "read" /\ f.reg = "CALIBRATION" THEN (s.ptr + 1) % PageSize
                      ELSE IF f.op = "read" /\ f.reg = "TRACE_READ" THEN s.ptr + 1 ELSE s.ptr
           /\ t.stage = IF Wrote(f, "BOOTLOADER_ENTRY") THEN (IF f.val = Magic1 THEN 1 ELSE 0)
                        ELSE s.stage
<1>1. f.op \in {"read", "write", "settle"}
  BY DEF Frames, Settle
<1>2. CASE f.op = "read"
  <2>1. After(s, f) = AfterRead(s, f.reg)
    BY <1>2 DEF After
  <2> QED BY <1>2, <2>1 DEF AfterRead, Wrote, States
<1>3. CASE f.op = "settle"
  <2>1. After(s, f) = Settled(s)
    BY <1>3 DEF After
  <2> QED BY <1>3, <2>1 DEF Settled, Wrote, States
<1>4. CASE f.op = "write"
  <2>1. After(s, f) = AfterWrite(s, f.reg, f.val)
    BY <1>4 DEF After
  <2>2. \A r : Wrote(f, r) <=> f.reg = r
    BY <1>4 DEF Wrote
  <2>3. CASE f.reg \in Plain
    <3>1. After(s, f) = [s EXCEPT !.plain[f.reg] = f.val]
      BY <2>1, <2>3, PlainApart DEF AfterWrite
    <3>2. \A r \in Plain : After(s, f).plain[r] = IF f.reg = r THEN f.val ELSE s.plain[r]
      BY <3>1 DEF States
    <3>3. /\ \A x \in {"INPUT_GAIN", "OUTPUT_GAIN", "STREAM_CTRL", "SAMPLE_RATE", "I2S_CTRL",
                       "PAGE_SELECT", "BOOTLOADER_ENTRY"} : ~Wrote(f, x)
          /\ f.op # "read" /\ f.op # "settle"
      BY <1>4, <2>2, <2>3, PlainApart
    <3>4. LET t == After(s, f) IN
          /\ t.inputGain = s.inputGain /\ t.outputGain = s.outputGain /\ t.rate = s.rate
          /\ (t.streaming <=> s.streaming) /\ (t.i2s <=> s.i2s) /\ (t.stopped <=> s.stopped)
          /\ t.page = s.page /\ t.ptr = s.ptr /\ t.stage = s.stage
      BY <3>1 DEF States
    <3> HIDE DEF After
    <3> QED BY <2>2, <3>2, <3>3, <3>4
  <2>4. CASE f.reg \notin Plain
    <3>0. \A r \in Plain : ~Wrote(f, r)
      BY <2>2, <2>4
    <3>1. CASE f.reg = "INPUT_GAIN"
      <4>1. After(s, f) = [s EXCEPT !.inputGain = f.val % 8]
        BY <2>1, <2>4, <3>1 DEF AfterWrite
      <4> QED BY <1>4, <2>2, <3>0, <3>1, <4>1 DEF States
    <3>2. CASE f.reg = "OUTPUT_GAIN"
      <4>1. After(s, f) = [s EXCEPT !.outputGain = f.val % 4]
        BY <2>1, <2>4, <3>2 DEF AfterWrite
      <4> QED BY <1>4, <2>2, <3>0, <3>2, <4>1 DEF States
    <3>3. CASE f.reg = "SAMPLE_RATE"
      <4>1. After(s, f) = [s EXCEPT !.rate = RateOf(f.val)]
        BY <2>1, <2>4, <3>3 DEF AfterWrite
      <4> QED BY <1>4, <2>2, <3>0, <3>3, <4>1 DEF States
    <3>4. CASE f.reg = "STREAM_CTRL"
      <4>1. After(s, f) = WriteStreamCtrl(s, f.val)
        BY <2>1, <2>4, <3>4 DEF AfterWrite
      <4>2. After(s, f) = CASE f.val = 5 -> [s EXCEPT !.streaming = TRUE]
                            [] f.val = 0 -> [s EXCEPT !.streaming = FALSE, !.stopped = TRUE]
                            [] OTHER     -> s
        BY <4>1 DEF WriteStreamCtrl
      <4>3. CASE f.val = 5
        <5>1. After(s, f) = [s EXCEPT !.streaming = TRUE]
          BY <4>2, <4>3
        <5>2. LET t == After(s, f) IN
              /\ t.streaming /\ t.inputGain = s.inputGain /\ t.outputGain = s.outputGain /\ t.rate = s.rate
              /\ (t.i2s <=> s.i2s) /\ (t.stopped <=> s.stopped) /\ t.page = s.page /\ t.ptr = s.ptr
              /\ t.stage = s.stage /\ t.plain = s.plain
          BY <5>1 DEF States
        <5> HIDE DEF After
        <5>3. /\ Wrote(f, "STREAM_CTRL") /\ f.op # "read" /\ f.op # "settle" /\ f.val = 5
              /\ \A x \in {"INPUT_GAIN", "OUTPUT_GAIN", "STREAM_CTRL", "SAMPLE_RATE", "I2S_CTRL",
                           "PAGE_SELECT", "BOOTLOADER_ENTRY"} : x # "STREAM_CTRL" => ~Wrote(f, x)
          BY <1>4, <2>2, <3>4, <4>3
        <5>4. f.val = 0 => f.val \notin {1, 5}
          OBVIOUS
        <5> QED BY <3>0, <5>2, <5>3, <5>4
      <4>4. CASE f.val = 0
        <5>1. After(s, f) = [s EXCEPT !.streaming = FALSE, !.stopped = TRUE]
          BY <4>2, <4>4
        <5>2. LET t == After(s, f) IN
              /\ ~t.streaming /\ t.stopped /\ t.inputGain = s.inputGain /\ t.outputGain = s.outputGain
              /\ t.rate = s.rate /\ (t.i2s <=> s.i2s) /\ t.page = s.page /\ t.ptr = s.ptr
              /\ t.stage = s.stage /\ t.plain = s.plain
          BY <5>1 DEF States
        <5> HIDE DEF After
        <5>3. /\ Wrote(f, "STREAM_CTRL") /\ f.op # "read" /\ f.op # "settle" /\ f.val = 0
              /\ \A x \in {"INPUT_GAIN", "OUTPUT_GAIN", "STREAM_CTRL", "SAMPLE_RATE", "I2S_CTRL",
                           "PAGE_SELECT", "BOOTLOADER_ENTRY"} : x # "STREAM_CTRL" => ~Wrote(f, x)
          BY <1>4, <2>2, <3>4, <4>4
        <5>4. f.val = 0 => f.val \notin {1, 5}
          OBVIOUS
        <5> QED BY <3>0, <5>2, <5>3, <5>4
      <4>5. CASE f.val \notin {0, 5}
        <5>1. After(s, f) = s
          BY <4>2, <4>5
        <5> QED BY <1>4, <2>2, <3>0, <3>4, <4>5, <5>1
      <4> QED BY <4>3, <4>4, <4>5
    <3>5. CASE f.reg = "I2S_CTRL"
      <4>1. After(s, f) = WriteI2sCtrl(s, f.val)
        BY <2>1, <2>4, <3>5 DEF AfterWrite
      <4>2. After(s, f) = CASE f.val = 1 -> [s EXCEPT !.i2s = TRUE]
                            [] f.val = 0 -> [s EXCEPT !.i2s = FALSE]
                            [] OTHER     -> s
        BY <4>1 DEF WriteI2sCtrl
      <4>3. CASE f.val = 1
        <5>1. After(s, f) = [s EXCEPT !.i2s = TRUE]
          BY <4>2, <4>3
        <5>2. LET t == After(s, f) IN
              /\ t.i2s /\ t.inputGain = s.inputGain /\ t.outputGain = s.outputGain /\ t.rate = s.rate
              /\ (t.streaming <=> s.streaming) /\ (t.stopped <=> s.stopped) /\ t.page = s.page /\ t.ptr = s.ptr
              /\ t.stage = s.stage /\ t.plain = s.plain
          BY <5>1 DEF States
        <5> HIDE DEF After
        <5>3. /\ Wrote(f, "I2S_CTRL") /\ f.op # "read" /\ f.op # "settle" /\ f.val = 1
              /\ \A x \in {"INPUT_GAIN", "OUTPUT_GAIN", "STREAM_CTRL", "SAMPLE_RATE", "I2S_CTRL",
                           "PAGE_SELECT", "BOOTLOADER_ENTRY"} : x # "I2S_CTRL" => ~Wrote(f, x)
          BY <1>4, <2>2, <3>5, <4>3
        <5>4. f.val = 0 => f.val \notin {1, 5}
          OBVIOUS
        <5> QED BY <3>0, <5>2, <5>3, <5>4
      <4>4. CASE f.val = 0
        <5>1. After(s, f) = [s EXCEPT !.i2s = FALSE]
          BY <4>2, <4>4
        <5>2. LET t == After(s, f) IN
              /\ ~t.i2s /\ t.inputGain = s.inputGain /\ t.outputGain = s.outputGain /\ t.rate = s.rate
              /\ (t.streaming <=> s.streaming) /\ (t.stopped <=> s.stopped) /\ t.page = s.page /\ t.ptr = s.ptr
              /\ t.stage = s.stage /\ t.plain = s.plain
          BY <5>1 DEF States
        <5> HIDE DEF After
        <5>3. /\ Wrote(f, "I2S_CTRL") /\ f.op # "read" /\ f.op # "settle" /\ f.val = 0
              /\ \A x \in {"INPUT_GAIN", "OUTPUT_GAIN", "STREAM_CTRL", "SAMPLE_RATE", "I2S_CTRL",
                           "PAGE_SELECT", "BOOTLOADER_ENTRY"} : x # "I2S_CTRL" => ~Wrote(f, x)
          BY <1>4, <2>2, <3>5, <4>4
        <5>4. f.val = 0 => f.val \notin {1, 5}
          OBVIOUS
        <5> QED BY <3>0, <5>2, <5>3, <5>4
      <4>5. CASE f.val \notin {0, 1}
        <5>1. After(s, f) = s
          BY <4>2, <4>5
        <5> QED BY <1>4, <2>2, <3>0, <3>5, <4>5, <5>1
      <4> QED BY <4>3, <4>4, <4>5
    <3>6. CASE f.reg = "PAGE_SELECT"
      <4>1. After(s, f) = [s EXCEPT !.page = f.val, !.ptr = 0]
        BY <2>1, <2>4, <3>6 DEF AfterWrite
      <4> QED BY <1>4, <2>2, <3>0, <3>6, <4>1 DEF States
    <3>7. CASE f.reg = "BOOTLOADER_ENTRY"
      <4>1. After(s, f) = WriteBootloaderEntry(s, f.val)
        BY <2>1, <2>4, <3>7 DEF AfterWrite
      <4>2. Magic1 # Magic2
        BY RegisterAssumption DEF RegisterAssumption
      <4> QED BY <1>4, <2>2, <3>0, <3>7, <4>1, <4>2 DEF States, WriteBootloaderEntry
    <3>8. CASE f.reg \notin {"INPUT_GAIN", "OUTPUT_GAIN", "SAMPLE_RATE", "STREAM_CTRL", "I2S_CTRL",
                             "PAGE_SELECT", "BOOTLOADER_ENTRY"}
      <4>1. After(s, f) = s
        BY <2>1, <2>4, <3>8 DEF AfterWrite
      <4> QED BY <1>4, <2>2, <3>0, <3>8, <4>1
    <3> QED BY <3>1, <3>2, <3>3, <3>4, <3>5, <3>6, <3>7, <3>8
  <2> QED BY <2>3, <2>4
<1> QED BY <1>1, <1>2, <1>3, <1>4

\* What the registers hold is what the history tells.
Told(s, h) ==
    /\ \A r \in Plain : s.plain[r] = Port!Written(h, r, IF r = "I2S_WIDTH" THEN 64 ELSE 0)
    /\ s.inputGain = Port!Written(h, "INPUT_GAIN", 7) % 8
    /\ s.outputGain = Port!Written(h, "OUTPUT_GAIN", 0) % 4
    /\ s.rate = RateOf(Port!Written(h, "SAMPLE_RATE", 0))
    /\ s.streaming <=> Port!Streaming(h)
    /\ s.i2s <=> Port!I2sOn(h)
    /\ s.stopped <=> Port!JustStopped(h)
    /\ s.page = Port!Written(h, "PAGE_SELECT", FactoryPage)
    /\ s.ptr % PageSize = Port!WordsRead(h) % PageSize
    /\ s.stage = 1 <=> Armed(h)

\* Every frame keeps it so.
LEMMA ToldStep ==
    ASSUME NEW s \in States, NEW h \in History, NEW f \in Frames \cup {Settle}, Told(s, h)
    PROVE  Told(After(s, f), Append(h, f))
<1> DEFINE t == After(s, f)
           H == Append(h, f)
<1>1. \A r \in Plain : t.plain[r] = Port!Written(H, r, IF r = "I2S_WIDTH" THEN 64 ELSE 0)
  <2>1. \A r \in Plain : t.plain[r] = IF Wrote(f, r) THEN f.val ELSE s.plain[r]
    BY FieldsAfter
  <2>2. \A r, d : Port!Written(H, r, d) = IF Wrote(f, r) THEN f.val ELSE Port!Written(h, r, d)
    BY AppendWritten
  <2>3. \A r \in Plain : s.plain[r] = Port!Written(h, r, IF r = "I2S_WIDTH" THEN 64 ELSE 0)
    BY DEF Told
  <2> HIDE DEF t, H
  <2> QED BY <2>1, <2>2, <2>3
<1>2. /\ t.inputGain = Port!Written(H, "INPUT_GAIN", 7) % 8
      /\ t.outputGain = Port!Written(H, "OUTPUT_GAIN", 0) % 4
      /\ t.rate = RateOf(Port!Written(H, "SAMPLE_RATE", 0))
      /\ t.page = Port!Written(H, "PAGE_SELECT", FactoryPage)
  <2>1. /\ t.inputGain = IF Wrote(f, "INPUT_GAIN") THEN f.val % 8 ELSE s.inputGain
        /\ t.outputGain = IF Wrote(f, "OUTPUT_GAIN") THEN f.val % 4 ELSE s.outputGain
        /\ t.rate = IF Wrote(f, "SAMPLE_RATE") THEN RateOf(f.val) ELSE s.rate
        /\ t.page = IF Wrote(f, "PAGE_SELECT") THEN f.val ELSE s.page
    BY FieldsAfter
  <2>2. \A r, d : Port!Written(H, r, d) = IF Wrote(f, r) THEN f.val ELSE Port!Written(h, r, d)
    BY AppendWritten
  <2>3. /\ s.inputGain = Port!Written(h, "INPUT_GAIN", 7) % 8
        /\ s.outputGain = Port!Written(h, "OUTPUT_GAIN", 0) % 4
        /\ s.rate = RateOf(Port!Written(h, "SAMPLE_RATE", 0))
        /\ s.page = Port!Written(h, "PAGE_SELECT", FactoryPage)
    BY DEF Told
  <2> HIDE DEF t, H
  <2> QED BY <2>1, <2>2, <2>3
<1>3. (t.streaming <=> Port!Streaming(H)) /\ (t.stage = 1 <=> Armed(H))
  <2>1. /\ t.streaming <=> \/ Wrote(f, "STREAM_CTRL") /\ f.val = 5
                           \/ /\ ~(Wrote(f, "STREAM_CTRL") /\ f.val = 0)
                              /\ ~(Wrote(f, "BOOTLOADER_ENTRY") /\ f.val = Magic2 /\ s.stage = 1)
                              /\ s.streaming
        /\ t.stage = IF Wrote(f, "BOOTLOADER_ENTRY") THEN (IF f.val = Magic1 THEN 1 ELSE 0)
                     ELSE s.stage
    BY FieldsAfter
  <2>2. (s.streaming <=> Port!Streaming(h)) /\ (s.stage = 1 <=> Armed(h))
    BY DEF Told
  <2>3. Armed(H) <=> IF Wrote(f, "BOOTLOADER_ENTRY") THEN f.val = Magic1 ELSE Armed(h)
    BY AppendArmed
  <2>4. /\ Wrote(f, "STREAM_CTRL") /\ f.val = 5 => Port!Streaming(H)
        /\ \/ Wrote(f, "STREAM_CTRL") /\ f.val = 0
           \/ Wrote(f, "BOOTLOADER_ENTRY") /\ f.val = Magic2 /\ Armed(h)
           => ~Port!Streaming(H)
        /\ /\ ~(Wrote(f, "STREAM_CTRL") /\ f.val \in {0, 5})
           /\ ~(Wrote(f, "BOOTLOADER_ENTRY") /\ f.val = Magic2 /\ Armed(h))
           => (Port!Streaming(H) <=> Port!Streaming(h))
    BY AppendStreaming
  <2> HIDE DEF t, H
  <2> QED BY <2>1, <2>2, <2>3, <2>4
<1>4. t.i2s <=> Port!I2sOn(H)
  <2>1. t.i2s <=> \/ Wrote(f, "I2S_CTRL") /\ f.val = 1
                  \/ ~(Wrote(f, "I2S_CTRL") /\ f.val = 0) /\ s.i2s
    BY FieldsAfter
  <2>2. (s.i2s <=> Port!I2sOn(h))
    BY DEF Told
  <2>3. Port!I2sOn(H) <=>
           IF Wrote(f, "I2S_CTRL") /\ f.val \in {0, 1} THEN f.val = 1 ELSE Port!I2sOn(h)
    BY AppendI2s
  <2>4. f.val = 0 => f.val # 1
    OBVIOUS
  <2> HIDE DEF t, H
  <2> QED BY <2>1, <2>2, <2>3, <2>4, Zenon
<1>5. t.stopped <=> Port!JustStopped(H)
  <2>1. t.stopped <=> \/ Wrote(f, "STREAM_CTRL") /\ f.val = 0
                      \/ f.op # "settle" /\ s.stopped
    BY FieldsAfter
  <2>2. (s.stopped <=> Port!JustStopped(h))
    BY DEF Told
  <2>3. /\ Wrote(f, "STREAM_CTRL") /\ f.val = 0 => Port!JustStopped(H)
        /\ f.op = "settle" => ~Port!JustStopped(H)
        /\ ~(Wrote(f, "STREAM_CTRL") /\ f.val = 0) /\ f.op # "settle"
           => (Port!JustStopped(H) <=> Port!JustStopped(h))
    BY AppendStopped
  <2>4. ~(Wrote(f, "STREAM_CTRL") /\ f.op = "settle")
    BY DEF Wrote
  <2> HIDE DEF t, H
  <2> QED BY <2>1, <2>2, <2>3, <2>4, Zenon
<1>6. t.ptr % PageSize = Port!WordsRead(H) % PageSize
  <2> DEFINE w == Port!WordsRead(h)
  <2>1. t.ptr = IF Wrote(f, "PAGE_SELECT") THEN 0
                ELSE IF f.op = "read" /\ f.reg = "CALIBRATION" THEN (s.ptr + 1) % PageSize
                ELSE IF f.op = "read" /\ f.reg = "TRACE_READ" THEN s.ptr + 1 ELSE s.ptr
    BY FieldsAfter
  <2>2. s.ptr % PageSize = w % PageSize /\ s.ptr \in Nat /\ PageSize \in Nat \ {0} /\ s.ptr + 1 \in Nat
    BY RegisterAssumption DEF Told, States, RegisterAssumption
  <2>3. w \in Nat /\ Port!WordsRead(H) = IF Wrote(f, "PAGE_SELECT") THEN 0
                                         ELSE IF Walks(f) THEN w + 1 ELSE w
    BY AppendWords
  <2> HIDE DEF t, H, w
  <2>4. (s.ptr + 1) % PageSize = (w + 1) % PageSize
    BY <2>2, <2>3, RemainderSuccessor
  <2>5. ((s.ptr + 1) % PageSize) % PageSize = (s.ptr + 1) % PageSize
    BY <2>2, RemainderTwice
  <2>6. ~(f.op = "read" /\ Wrote(f, "PAGE_SELECT"))
    BY DEF Wrote
  <2> QED BY <2>1, <2>2, <2>3, <2>4, <2>5, <2>6 DEF Walks
<1> QED BY <1>1, <1>2, <1>3, <1>4, <1>5, <1>6 DEF Told
\* A read returns what the history tells.
LEMMA ReadingTold ==
    ASSUME NEW s \in States, NEW h \in History, NEW r \in Registers, Told(s, h)
    PROVE  Reading(s, r) = Port!Answer(h, r)
<1>1. /\ Named \cap DOMAIN Served = {} /\ Unmapped \cap (Named \cup DOMAIN Served) = {}
      /\ MaxRate \in Nat
  BY RegisterAssumption DEF RegisterAssumption
<1>2. Port!R!FactoryPage = FactoryPage /\ Port!R!StopStatus = StopStatus
  BY DEF Port!R!FactoryPage, Port!R!StopStatus, FactoryPage, StopStatus
<1>3. CASE r \in Unmapped \cup {"LINK_KEEPALIVE"}
  <2>1. r \in Plain /\ r # "I2S_WIDTH"
    BY <1>1, <1>3 DEF Plain, Named
  <2>2. Reading(s, r) = s.plain[r]
    BY <2>1, PlainApart DEF Reading
  <2>3. Port!Answer(h, r) = Port!Written(h, r, 0)
    BY <2>1, <1>3, PlainApart DEF Port!Answer
  <2> QED BY <2>1, <2>2, <2>3 DEF Told
<1>4. CASE r = "I2S_WIDTH"
  <2>1. r \in Plain /\ r \notin Unmapped \cup {"LINK_KEEPALIVE"}
    BY <1>1, <1>4 DEF Plain, Named
  <2>2. Reading(s, r) = s.plain[r]
    BY <2>1, PlainApart DEF Reading
  <2>3. Port!Answer(h, r) = Port!Written(h, r, 64)
    BY <2>1, <1>4, PlainApart DEF Port!Answer
  <2> QED BY <1>4, <2>1, <2>2, <2>3 DEF Told
<1>5. CASE r \in DOMAIN Served
  <2>1. r \notin Plain /\ r \notin Named
    BY <1>1, <1>5, PlainApart
  <2>2. Reading(s, r) = Served[r]
    BY <1>5, <2>1 DEF Reading, Named
  <2>3. Port!Answer(h, r) = Served[r]
    BY <1>5, <2>1 DEF Port!Answer, Named, Plain
  <2> QED BY <2>2, <2>3
<1>6. CASE r \in Named \ {"LINK_KEEPALIVE", "I2S_WIDTH"}
  <2>1. r \notin Plain /\ r \notin DOMAIN Served /\ r \notin Unmapped
    BY <1>1, <1>6 DEF Plain
  <2>2. r \notin Unmapped \cup {"LINK_KEEPALIVE"} /\ r # "I2S_WIDTH"
    BY <1>6, <2>1
  <2>3. CASE r \in {"INPUT_GAIN", "OUTPUT_GAIN"}
    <3>1. /\ r = "INPUT_GAIN" => Reading(s, r) = s.inputGain
          /\ r = "OUTPUT_GAIN" => Reading(s, r) = s.outputGain
      BY <2>1, <2>3 DEF Reading
    <3>2. /\ r = "INPUT_GAIN" => Port!Answer(h, r) = Port!Written(h, r, 7) % 8
          /\ r = "OUTPUT_GAIN" => Port!Answer(h, r) = Port!Written(h, r, 0) % 4
      BY <2>1, <2>2, <2>3 DEF Port!Answer
    <3> QED BY <2>3, <3>1, <3>2 DEF Told
  <2>4. CASE r = "SAMPLE_RATE"
    <3>1. Reading(s, r) = s.rate
      BY <2>1, <2>4 DEF Reading
    <3> DEFINE v == Port!Written(h, r, 0)
    <3>2. Port!Answer(h, r) = IF v <= MaxRate THEN v ELSE MaxRate
      BY <2>1, <2>2, <2>4 DEF Port!Answer
    <3>3. s.rate = IF v > MaxRate THEN MaxRate ELSE v
      BY <2>4 DEF Told, RateOf
    <3>4. v \in Int
      BY <2>4, WrittenType
    <3> HIDE DEF v
    <3> QED BY <1>1, <3>1, <3>2, <3>3, <3>4
  <2>5. CASE r \in {"STREAM_CTRL", "I2S_CTRL", "STREAM_STATUS"}
    <3>1. /\ r = "STREAM_CTRL" => Reading(s, r) = IF s.streaming THEN 5 ELSE 0
          /\ r = "I2S_CTRL" => Reading(s, r) = IF s.i2s THEN 1 ELSE 0
          /\ r = "STREAM_STATUS" => Reading(s, r) = IF s.stopped THEN StopStatus ELSE 0
      BY <2>1, <2>5 DEF Reading
    <3>2. /\ r = "STREAM_CTRL" => Port!Answer(h, r) = IF Port!Streaming(h) THEN 5 ELSE 0
          /\ r = "I2S_CTRL" => Port!Answer(h, r) = IF Port!I2sOn(h) THEN 1 ELSE 0
          /\ r = "STREAM_STATUS" => Port!Answer(h, r) = IF Port!JustStopped(h) THEN StopStatus ELSE 0
      BY <1>2, <2>1, <2>2, <2>5 DEF Port!Answer
    <3>3. /\ s.streaming <=> Port!Streaming(h)
          /\ s.i2s <=> Port!I2sOn(h)
          /\ s.stopped <=> Port!JustStopped(h)
      BY DEF Told
    <3> QED BY <2>5, <3>1, <3>2, <3>3
  <2>6. CASE r = "CALIBRATION"
    <3>1. Reading(s, r) = IF s.page = FactoryPage THEN Word[s.ptr % PageSize] ELSE 0
      BY <2>1, <2>6 DEF Reading
    <3>2. Port!Answer(h, r) = IF Port!Written(h, "PAGE_SELECT", FactoryPage) = FactoryPage
                              THEN Word[Port!WordsRead(h) % PageSize] ELSE 0
      BY <1>2, <2>1, <2>2, <2>6 DEF Port!Answer
    <3> QED BY <3>1, <3>2 DEF Told
  <2>7. CASE r \in {"TRACE_READ", "PAGE_SELECT", "BOOTLOADER_ENTRY"}
    <3>1. Reading(s, r) = 0
      BY <2>1, <2>7 DEF Reading
    <3>2. Port!Answer(h, r) = 0
      BY <2>1, <2>2, <2>7 DEF Port!Answer
    <3> QED BY <3>1, <3>2
  <2> QED BY <1>6, <2>3, <2>4, <2>5, <2>6, <2>7 DEF Named
<1> QED BY <1>3, <1>4, <1>5, <1>6 DEF Registers

-----------------------------------------------------------------------------
(* The register bus implements the register port. *)

ToldInv == Told(st, hist) /\ fired = IF rebooting THEN 1 ELSE 0

\* What the replies hold, when one comes and when one goes.
LEMMA ValuesOf ==
    ASSUME NEW s \in Seq(Replies)
    PROVE  /\ \A e \in Replies : [i \in DOMAIN Append(s, e) |-> Append(s, e)[i].val] =
                                 Append([i \in DOMAIN s |-> s[i].val], e.val)
           /\ s # << >> => /\ [i \in DOMAIN s |-> s[i].val] # << >>
                           /\ [i \in DOMAIN Tail(s) |-> Tail(s)[i].val] =
                                 Tail([i \in DOMAIN s |-> s[i].val])
<1> DEFINE S == Replies
<1>1. s \in Seq(S)
  OBVIOUS
<1> HIDE DEF S
<1>2. \A e \in S : [i \in DOMAIN Append(s, e) |-> Append(s, e)[i].val] =
                   Append([i \in DOMAIN s |-> s[i].val], e.val)
  BY <1>1
<1>3. ASSUME s # << >>
      PROVE  [i \in DOMAIN Tail(s) |-> Tail(s)[i].val] = Tail([i \in DOMAIN s |-> s[i].val])
  BY <1>1, <1>3
<1>4. ASSUME s # << >> PROVE [i \in DOMAIN s |-> s[i].val] # << >>
  BY <1>1, <1>4
<1> QED BY <1>2, <1>3, <1>4 DEF S

\* The frame of the current job runs: the history grows by it.
LEMMA PortRead ==
    ASSUME TypeInv, ToldInv, NEW c \in Conns, RunRead(c)
    PROVE  ToldInv' /\ Port!Next
<1> DEFINE f == Head(jobs[c])[next[c]]
           e == [conn |-> c, n |-> reads[c] + 1, val |-> Reading(st, f.reg)]
<1>1. /\ f.op = "read" /\ replies' = Append(replies, e) /\ st' = AfterRead(st, f.reg)
      /\ hist' = Append(hist, f) /\ rebooting' = rebooting /\ fired' = fired /\ jobs[c] # << >>
  BY DEF RunRead
<1>2. f \in Frames /\ f \in Frames \cup {Settle} /\ f.reg \in Registers
  BY <1>1, FrameType DEF Frames
<1>3. st \in States /\ hist \in History /\ replies \in Seq(Replies) /\ Told(st, hist)
  BY DEF TypeInv, FileTypes, ToldInv
<1>4. e \in Replies /\ e.val = Reading(st, f.reg)
  <2>1. reads[c] + 1 \in Nat /\ Reading(st, f.reg) \in Nat
    BY <1>3, ReadingType DEF TypeInv, HistTypes
  <2> QED BY <2>1 DEF Replies
<1> HIDE DEF f, e
<1>5. Told(st', hist')
  <2>1. After(st, f) = AfterRead(st, f.reg)
    BY <1>1 DEF After
  <2> QED BY <2>1, <1>1, <1>2, <1>3, ToldStep
<1>6. values' = Append(values, Port!Answer(hist, f.reg))
  <2>1. values' = Append(values, e.val)
    BY <1>1, <1>3, <1>4, ValuesOf DEF values
  <2>2. Reading(st, f.reg) = Port!Answer(hist, f.reg)
    BY <1>2, <1>3, ReadingTold
  <2> QED BY <2>1, <2>2, <1>4
<1>7. Port!ExecuteRead(f)
  BY <1>1, <1>6 DEF Port!ExecuteRead
<1>8. Len(hist') = Len(hist) + 1 /\ hist'[Len(hist')] = f
  BY <1>1, <1>2, <1>3, AppendHistory
<1>9. ToldInv'
  BY <1>1, <1>5 DEF ToldInv
<1> QED BY <1>1, <1>7, <1>8, <1>9 DEF Port!Next

\* The same for a write.
LEMMA PortWrite ==
    ASSUME TypeInv, ToldInv, NEW c \in Conns, RunWrite(c)
    PROVE  ToldInv' /\ Port!Next
<1> DEFINE f == Head(jobs[c])[next[c]]
<1>1. /\ f.op = "write" /\ st' = AfterWrite(st, f.reg, f.val)
      /\ rebooting' = (rebooting \/ Unlocks(st, f.reg, f.val))
      /\ fired' = fired + (IF Unlocks(st, f.reg, f.val) /\ ~rebooting THEN 1 ELSE 0)
      /\ hist' = Append(hist, f) /\ replies' = replies /\ jobs[c] # << >>
  BY DEF RunWrite
<1>2. f \in Frames /\ f \in Frames \cup {Settle}
  BY <1>1, FrameType
<1>3. st \in States /\ hist \in History /\ Told(st, hist) /\ rebooting \in BOOLEAN
  BY DEF TypeInv, FileTypes, ToldInv
<1> HIDE DEF f
<1>4. Told(st', hist')
  <2>1. After(st, f) = AfterWrite(st, f.reg, f.val)
    BY <1>1 DEF After
  <2> QED BY <2>1, <1>1, <1>2, <1>3, ToldStep
<1>5. Len(hist') = Len(hist) + 1 /\ hist'[Len(hist')] = f
  BY <1>1, <1>2, <1>3, AppendHistory
<1>6. Port!UnlockedAt(hist', Len(hist')) <=> Unlocks(st, f.reg, f.val)
  <2>1. Port!UnlockedAt(hist', Len(hist')) <=>
           Wrote(f, "BOOTLOADER_ENTRY") /\ f.val = Magic2 /\ Armed(hist)
    BY <1>1, <1>2, <1>3, <1>5, AppendUnlocks
  <2>2. st.stage = 1 <=> Armed(hist)
    BY <1>3 DEF Told
  <2> QED BY <2>1, <2>2, <1>1 DEF Unlocks, Wrote
<1>7. fired = IF rebooting THEN 1 ELSE 0
  BY DEF ToldInv
<1>8. /\ fired' = IF Port!UnlockedAt(hist', Len(hist')) /\ fired = 0 THEN 1 ELSE fired
      /\ fired' = IF rebooting' THEN 1 ELSE 0
  <2>1. CASE Unlocks(st, f.reg, f.val)
    <3>1. rebooting'
      BY <1>1, <2>1
    <3>2. CASE rebooting
      <4>1. fired = 1 /\ fired' = fired + 0
        BY <1>1, <1>7, <3>2
      <4> QED BY <3>1, <4>1, <2>1, <1>6
    <3>3. CASE ~rebooting
      <4>1. fired = 0 /\ fired' = fired + 1
        BY <1>1, <1>7, <2>1, <3>3
      <4> QED BY <3>1, <4>1, <2>1, <1>6
    <3> QED BY <3>2, <3>3
  <2>2. CASE ~Unlocks(st, f.reg, f.val)
    <3>1. (rebooting' <=> rebooting) /\ fired' = fired + 0
      BY <1>1, <2>2
    <3> QED BY <3>1, <2>2, <1>6, <1>7
  <2> QED BY <2>1, <2>2
<1>9. values' = values
  BY <1>1 DEF values
<1>10. Port!ExecuteWrite(f)
  BY <1>1, <1>8, <1>9 DEF Port!ExecuteWrite
<1>11. ToldInv'
  BY <1>4, <1>8 DEF ToldInv
<1> QED BY <1>1, <1>5, <1>10, <1>11 DEF Port!Next

\* The moment a stop grows old.
LEMMA PortSettle ==
    ASSUME TypeInv, ToldInv, StopGrowsOld
    PROVE  ToldInv' /\ Port!Next
<1>1. /\ st' = Settled(st) /\ hist' = Append(hist, Settle) /\ replies' = replies
      /\ rebooting' = rebooting /\ fired' = fired
  BY DEF StopGrowsOld
<1>2. st \in States /\ hist \in History /\ Told(st, hist)
  BY DEF TypeInv, FileTypes, ToldInv
<1>3. After(st, Settle) = Settled(st)
  BY DEF After, Settle
<1>4. Told(st', hist')
  BY <1>1, <1>2, <1>3, ToldStep
<1>5. Len(hist') = Len(hist) + 1
  BY <1>1, <1>2, AppendHistory
<1>6. Port!GrowOld
  BY <1>1 DEF Port!GrowOld, Port!Settle, Settle, values
<1>7. ToldInv'
  BY <1>1, <1>4 DEF ToldInv
<1> QED BY <1>5, <1>6, <1>7 DEF Port!Next

\* Every step is a step of the port, or none.
LEMMA PortStep ==
    ASSUME TypeInv, ToldInv, [Next]_vars
    PROVE  ToldInv' /\ [Port!Next]_<<hist, values, fired>>
<1>1. ASSUME NEW c \in Conns, PollLooks(c), replies # << >>
      PROVE  ToldInv' /\ Port!Next
  <2>1. replies' = Tail(replies) /\ UNCHANGED <<st, rebooting, hist, fired>>
    BY <1>1 DEF PollLooks, fileVars
  <2>2. values # << >> /\ values' = Tail(values)
    <3>1. replies \in Seq(Replies)
      BY DEF TypeInv
    <3> QED BY <3>1, <2>1, <1>1, ValuesOf DEF values
  <2>3. Port!Take
    BY <2>1, <2>2 DEF Port!Take
  <2> QED BY <2>1, <2>3 DEF ToldInv, Port!Next
<1>2. CASE UNCHANGED <<st, rebooting, hist, fired, replies>>
  BY <1>2 DEF ToldInv, values
<1>3. \/ \E c \in Conns : RunRead(c)
      \/ \E c \in Conns : RunWrite(c)
      \/ StopGrowsOld
      \/ \E c \in Conns : PollLooks(c) /\ replies # << >>
      \/ UNCHANGED <<st, rebooting, hist, fired, replies>>
  <2>1. ASSUME NEW c \in Conns, Host(c) \/ Release(c) \/ OutBreaks(c)
        PROVE  UNCHANGED <<st, rebooting, hist, fired, replies>>
    BY <2>1 DEF Host, Open, SubmitOut, SubmitPoll, UnlinkOut, UnlinkPoll, End, Release,
                WriterFails, Vanish, OutBreaks, fileVars
  <2>2. ASSUME NEW c \in Conns, InWorker(c), ~(PollLooks(c) /\ replies # << >>)
        PROVE  UNCHANGED <<st, rebooting, hist, fired, replies>>
    BY <2>2 DEF InWorker, PollStarts, PollLooks, PollAwaits, PollWakes, PollCancelled,
                PollClaims, fileVars
  <2>3. UNCHANGED vars => UNCHANGED <<st, rebooting, hist, fired, replies>>
    BY DEF vars, fileVars
  <2> QED BY <2>1, <2>2, <2>3 DEF Next, OutWorker
<1> QED BY <1>1, <1>2, <1>3, PortRead, PortWrite, PortSettle

\* A unit that has just been powered up holds what an empty history tells.
LEMMA ToldFirst == Told(PoweredUp, << >>)
<1>1. \A r : Port!WritesTo(<< >>, r) = {}
  BY DEF Port!WritesTo
<1>2. Port!Latest({}) = 0
  BY DEF Port!Latest
<1>3. \A r, d : Port!Written(<< >>, r, d) = d
  BY <1>1, <1>2 DEF Port!Written
<1>4. /\ Port!Starts(<< >>) = {} /\ Port!Stops(<< >>) = {} /\ Port!Unlocks(<< >>) = {}
      /\ \A V : Saying(<< >>, "I2S_CTRL", V) = {}
      /\ {i \in 1..Len(<< >>) : << >>[i].op = "settle"} = {}
  BY <1>1 DEF Port!Starts, Port!Stops, Port!Unlocks, Saying
<1>5. ~Port!Streaming(<< >>) /\ ~Port!JustStopped(<< >>)
  <2>1. ~(0 > 0) /\ {} \cup {} = {}
    OBVIOUS
  <2>2. ~Port!Streaming(<< >>)
    BY <1>2, <1>4, <2>1, Zenon DEF Port!Streaming
  <2>3. Port!JustStopped(<< >>) <=>
           Port!Latest(Port!Stops(<< >>)) > Port!Latest({i \in 1..Len(<< >>) : << >>[i].op = "settle"})
    BY Zenon DEF Port!JustStopped
  <2>4. ~Port!JustStopped(<< >>)
    BY <1>2, <1>4, <2>1, <2>3, Zenon
  <2> QED BY <2>2, <2>4
<1>6. ~Port!I2sOn(<< >>) /\ ~Armed(<< >>)
  BY <1>1, <1>2 DEF Port!I2sOn, Armed
<1>7. Port!WordsRead(<< >>) = 0
  <2>1. Port!WordsRead(<< >>) = Cardinality({})
    BY CardinalityInPort DEF Port!WordsRead
  <2> QED BY <2>1, FS_EmptySet
<1>8. 0 % PageSize = 0 /\ RateOf(0) = 0
  BY RegisterAssumption DEF RegisterAssumption, RateOf
<1>9. /\ PoweredUp.inputGain = 7 /\ PoweredUp.outputGain = 0 /\ PoweredUp.rate = 0
      /\ ~PoweredUp.streaming /\ ~PoweredUp.i2s /\ ~PoweredUp.stopped
      /\ PoweredUp.page = FactoryPage /\ PoweredUp.ptr = 0 /\ PoweredUp.stage = 0
      /\ \A r \in Plain : PoweredUp.plain[r] = IF r = "I2S_WIDTH" THEN 64 ELSE 0
  BY DEF PoweredUp
<1>10. 7 % 8 = 7 /\ 0 % 4 = 0
  OBVIOUS
<1> HIDE DEF PoweredUp
<1> QED BY <1>3, <1>5, <1>6, <1>7, <1>8, <1>9, <1>10 DEF Told

\* The register bus keeps the promise of the register port: whichever workers
\* run which frames, a read is answered with what the writes before it say,
\* answers leave in the order of their reads, and the reboot is asked for once.
THEOREM ImplementsRegisterPort == Spec => ImplementsPort
<1>1. Init => ToldInv /\ Port!Init
  <2> SUFFICES ASSUME Init PROVE ToldInv /\ Port!Init
    OBVIOUS
  <2>1. st = PoweredUp /\ hist = << >> /\ ~rebooting /\ fired = 0 /\ replies = << >>
    BY DEF Init
  <2>2. values = << >>
    BY <2>1 DEF values
  <2> QED BY <2>1, <2>2, ToldFirst DEF ToldInv, Port!Init
<1>2. TypeInv /\ ToldInv /\ [Next]_vars => ToldInv' /\ [Port!Next]_<<hist, values, fired>>
  BY PortStep
<1> QED BY <1>1, <1>2, TypeInvAlways, PTL DEF Spec, ImplementsPort, Port!Spec
=============================================================================
