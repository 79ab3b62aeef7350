--------------------------- MODULE AdcStreamProofs ---------------------------
(* Theorems about AdcStream: types, the order and the exactness of the        *)
(* loopback, and its pace, for any rates, block size, latency and bounds.    *)
EXTENDS AdcStream, SequenceTheorems, FiniteSetTheorems, TLAPS

(* Rates and times. *)

\* A block never takes longer than one at rate 1.
LEMMA BlockTicksType ==
    ASSUME NEW r \in Rates
    PROVE  BlockTicks(r) \in Nat /\ BlockTicks(r) <= SlowTicks
<1>1. r \in Nat /\ r > 0 /\ SlowTicks \in Nat
  BY ConstantsAssumption DEF ConstantsAssumption
<1>2. SlowTicks \div r \in Nat /\ SlowTicks \div r <= SlowTicks
  BY <1>1
<1> QED BY <1>2 DEF BlockTicks

\* A product grows with its factors.
LEMMA ProductGrows ==
    ASSUME NEW a \in Nat, NEW b \in Nat, NEW c \in Nat, NEW d \in Nat, a <= c, b <= d
    PROVE  a * b \in Nat /\ a * b <= c * d
<1>1. a * b <= c * b
  OBVIOUS
<1>2. c * b <= c * d
  OBVIOUS
<1>3. a * b \in Nat /\ c * b \in Nat /\ c * d \in Nat
  OBVIOUS
<1> QED BY <1>1, <1>2, <1>3

\* Every block within the bounds is due before time stops.
LEMMA DueInBounds ==
    ASSUME NEW r \in Rates, NEW e \in 0..MaxBlocks
    PROVE  e * BlockTicks(r) \in 0..MaxElapsed
<1>1. MaxBlocks \in Nat /\ SlowTicks \in Nat
  BY ConstantsAssumption DEF ConstantsAssumption
<1>2. e * BlockTicks(r) \in Nat /\ e * BlockTicks(r) <= MaxBlocks * SlowTicks
  BY <1>1, BlockTicksType, ProductGrows
<1>3. MaxBlocks * SlowTicks \in Nat
  BY <1>1
<1> QED BY <1>2, <1>3 DEF MaxElapsed

-----------------------------------------------------------------------------
(* What the two sequences become. *)

\* What a DAC block pushes out of the queue; the silence and the samples an ADC
\* block is made of.
Surplus(m) == Positive(Len(dac) + m - CapFactor * rate)
Quiet == IF delay < N THEN delay ELSE N
Used  == Positive(N - delay)

\* The constants and the state are numbers.
LEMMA Numbers ==
    ASSUME TypeOK
    PROVE  /\ N \in Nat /\ N > 0 /\ MaxFed \in Nat
           /\ Len(dac) \in Nat /\ Len(out) \in Nat /\ delay \in Nat /\ fed \in Nat
<1>1. N \in Nat /\ N > 0 /\ Latency \in Nat /\ MaxFed \in Nat
  BY ConstantsAssumption DEF ConstantsAssumption
<1>2. dac \in Seq(1..MaxFed) /\ out \in Seq(0..MaxFed) /\ delay \in 0..Latency /\ fed \in 0..MaxFed
  BY DEF TypeOK
<1> QED BY <1>1, <1>2

\* The samples are numbers.
LEMMA Samples ==
    ASSUME TypeOK
    PROVE  /\ \A j \in 1..Len(dac) : dac[j] \in 1..MaxFed
           /\ \A i \in 1..Len(out) : out[i] \in 0..MaxFed
<1>1. dac \in Seq(1..MaxFed) /\ out \in Seq(0..MaxFed)
  BY DEF TypeOK
<1>2. \A j \in 1..Len(dac) : dac[j] \in 1..MaxFed
  BY <1>1, ElementOfSeq
<1>3. \A i \in 1..Len(out) : out[i] \in 0..MaxFed
  BY <1>1, ElementOfSeq
<1> QED BY <1>2, <1>3

\* The queue has room for a block, at any rate.
LEMMA CapHoldsBlock ==
    ASSUME TypeOK PROVE CapFactor * rate \in Nat /\ CapFactor * rate >= N
<1>1. CapFactor \in Nat /\ \A r \in Rates : r \in Nat /\ CapFactor * r >= N
  BY ConstantsAssumption DEF ConstantsAssumption
<1>2. rate \in Rates
  BY DEF TypeOK
<1> QED BY <1>1, <1>2

\* Past the end of the first, a concatenation is the second sequence.
LEMMA ConcatTail ==
    ASSUME NEW S, NEW s \in Seq(S), NEW t \in Seq(S),
           NEW x \in Nat, x > Len(s), x \in 1..(Len(s) + Len(t))
    PROVE  (s \o t)[x] = t[x - Len(s)]
<1>1. Len(s) \in Nat /\ Len(t) \in Nat
  BY LenProperties
<1>2. (s \o t)[x] = IF x <= Len(s) THEN s[x] ELSE t[x - Len(s)]
  BY ConcatProperties
<1> QED BY <1>1, <1>2

\* A DAC block takes Surplus(m) samples off the head and appends its own.
LEMMA DacBlockEffect ==
    ASSUME TypeOK, NEW m \in 1..N, DacBlock(m)
    PROVE  /\ Surplus(m) \in Nat /\ fed' = fed + m
           /\ dac' \in Seq(1..MaxFed) /\ Len(dac') = Len(dac) + m - Surplus(m)
           /\ overflowed' = (overflowed \/ Surplus(m) > 0)
           /\ \A j \in 1..Len(dac') :
                 dac'[j] = IF j + Surplus(m) <= Len(dac) THEN dac[j + Surplus(m)]
                           ELSE fed + (j + Surplus(m) - Len(dac))
<1> DEFINE new   == [i \in 1..m |-> fed + i]
           queue == dac \o new
<1>1. m \in Nat /\ m > 0 /\ fed + m <= MaxFed /\ fed \in Nat /\ MaxFed \in Nat
  BY Numbers DEF DacBlock
<1>2. \A i \in 1..m : fed + i \in 1..MaxFed
  BY <1>1
<1>3. new \in Seq(1..MaxFed) /\ Len(new) = m /\ \A i \in 1..m : new[i] = fed + i
  BY <1>1, <1>2
<1>4. dac \in Seq(1..MaxFed)
  BY DEF TypeOK
<1> HIDE DEF new
<1>5. /\ queue \in Seq(1..MaxFed) /\ Len(queue) = Len(dac) + m
      /\ \A i \in 1..(Len(dac) + m) :
            queue[i] = IF i <= Len(dac) THEN dac[i] ELSE new[i - Len(dac)]
  BY <1>3, <1>4, ConcatProperties
<1> HIDE DEF queue
<1>b. Len(queue) = Len(dac) + m
  BY <1>5
<1>c. CapFactor * rate \in Nat /\ Len(dac) \in Nat
  BY CapHoldsBlock, Numbers
<1>6. /\ dac' = SubSeq(queue, Surplus(m) + 1, Len(queue))
      /\ overflowed' = (overflowed \/ Surplus(m) > 0) /\ fed' = fed + m
  <2>1. Surplus(m) = Positive(Len(queue) - CapFactor * rate)
    BY <1>b, <1>c, <1>1, SMT DEF Surplus
  <2> HIDE DEF Surplus
  <2> QED BY <2>1, Zenon DEF DacBlock, new, queue
<1>7. Surplus(m) \in Nat /\ Surplus(m) <= Len(dac) + m
  <2>1. \A c \in Nat : Positive(Len(dac) + m - c) \in Nat /\ Positive(Len(dac) + m - c) <= Len(dac) + m
    BY <1>1, Numbers DEF Positive
  <2> QED BY <2>1, CapHoldsBlock DEF Surplus
<1>8. \A i \in (Surplus(m) + 1)..Len(queue) : queue[i] \in 1..MaxFed
  <2>1. \A i \in (Surplus(m) + 1)..Len(queue) : i \in 1..Len(queue)
    BY <1>7
  <2> QED BY <1>5, <2>1, ElementOfSeq
<1>9. /\ dac' \in Seq(1..MaxFed)
      /\ Len(dac') = IF Surplus(m) + 1 <= Len(queue) THEN Len(queue) - (Surplus(m) + 1) + 1 ELSE 0
      /\ \A i \in 1..(Len(queue) - (Surplus(m) + 1) + 1) :
            dac'[i] = queue[Surplus(m) + 1 + i - 1]
  <2>1. Surplus(m) + 1 \in Int /\ Len(queue) \in Int
    BY <1>1, <1>5, <1>7, Numbers
  <2> QED BY <1>6, <1>8, <2>1, SubSeqProperties
<1>10. Len(dac') = Len(dac) + m - Surplus(m)
  BY <1>5, <1>7, <1>9, <1>1, Numbers
<1>11. ASSUME NEW j \in 1..Len(dac')
       PROVE  dac'[j] = IF j + Surplus(m) <= Len(dac) THEN dac[j + Surplus(m)]
                        ELSE fed + (j + Surplus(m) - Len(dac))
  <2>1. dac'[j] = queue[j + Surplus(m)] /\ j + Surplus(m) \in 1..(Len(dac) + m)
    <3>1. /\ j \in 1..(Len(queue) - (Surplus(m) + 1) + 1)
          /\ Surplus(m) + 1 + j - 1 = j + Surplus(m)
          /\ j + Surplus(m) \in 1..(Len(dac) + m)
      <4>1. \A a, b, c, k \in Nat : c <= a + b /\ k \in 1..(a + b - c) =>
                /\ k \in 1..((a + b) - (c + 1) + 1) /\ c + 1 + k - 1 = k + c
                /\ k + c \in 1..(a + b)
        OBVIOUS
      <4>2. j \in Nat /\ Surplus(m) \in Nat /\ m \in Nat /\ j \in 1..(Len(dac) + m - Surplus(m))
        BY <1>1, <1>7, <1>10, <1>c
      <4> QED BY <4>1, <4>2, <1>b, <1>c, <1>7
    <3> QED BY <1>9, <3>1, Zenon
  <2>2. CASE j + Surplus(m) <= Len(dac)
    BY <2>1, <2>2, <1>5
  <2>3. CASE ~(j + Surplus(m) <= Len(dac))
    <3>1. j + Surplus(m) - Len(dac) \in 1..m
      BY <2>1, <2>3, <1>7, <1>1, Numbers
    <3>2. fed + (j + Surplus(m) - Len(dac)) = new[j + Surplus(m) - Len(dac)]
      BY <3>1, <1>3
    <3>3. queue[j + Surplus(m)] = new[j + Surplus(m) - Len(dac)]
      <4>1. j + Surplus(m) \in 1..(Len(dac) + m)
        BY <2>1
      <4>2. j + Surplus(m) \in Nat /\ j + Surplus(m) > Len(dac)
        BY <4>1, <2>3, <1>c, <1>1, <1>7
      <4>3. Len(new) = m /\ new \in Seq(1..MaxFed)
        BY <1>3
      <4>4. j + Surplus(m) \in 1..(Len(dac) + Len(new))
        BY <4>1, <4>3
      <4>5. queue[j + Surplus(m)] = new[(j + Surplus(m)) - Len(dac)]
        BY <4>2, <4>3, <4>4, <1>4, ConcatTail DEF queue
      <4>6. (j + Surplus(m)) - Len(dac) = j + Surplus(m) - Len(dac)
        BY <1>7, <1>c
      <4> QED BY <4>5, <4>6
    <3> QED BY <2>1, <2>3, <3>2, <3>3, Zenon
  <2> QED BY <2>2, <2>3
<1> QED BY <1>6, <1>7, <1>9, <1>10, <1>11

\* An ADC block is Quiet samples of silence and then the head of the queue, which
\* loses Used samples.
LEMMA ProduceEffect ==
    ASSUME TypeOK, NEW c \in Conns, AdcProduce(c)
    PROVE  /\ out' \in Seq(0..MaxFed) /\ Len(out') = Len(out) + N
           /\ Block \in Seq(0..MaxFed) /\ Len(Block) = N
           /\ \A i \in 1..N : out'[Len(out) + i] = Block[i]
           /\ \A i \in 1..Len(out) : out'[i] = out[i]
           /\ \A i \in 1..N :
                 out'[Len(out) + i] = IF i <= Quiet \/ i - Quiet > Len(dac) THEN Silence
                                      ELSE dac[i - Quiet]
           /\ dac' \in Seq(1..MaxFed) /\ Len(dac') = Positive(Len(dac) - Used)
           /\ \A j \in 1..Len(dac') : dac'[j] = dac[j + Used]
           /\ Quiet \in 0..N /\ Used = N - Quiet
<1>1. Quiet \in 0..N /\ Used = N - Quiet /\ Used \in Nat
  BY Numbers DEF Quiet, Used, Positive
<1>2. Block = [i \in 1..N |-> IF i <= Quiet \/ i - Quiet > Len(dac) THEN Silence
                              ELSE dac[i - Quiet]]
  BY DEF Block, Quiet
<1>3. \A i \in 1..N : (IF i <= Quiet \/ i - Quiet > Len(dac) THEN Silence ELSE dac[i - Quiet])
                          \in 0..MaxFed
  <2>1. 0 \in 0..MaxFed
    BY Numbers
  <2>2. \A i \in 1..N : ~(i <= Quiet \/ i - Quiet > Len(dac)) => i - Quiet \in 1..Len(dac)
    BY <1>1, Numbers
  <2>3. \A x : x \in 1..MaxFed => x \in 0..MaxFed
    BY Numbers
  <2> QED BY <2>1, <2>2, <2>3, Samples DEF Silence
<1>4. Block \in Seq(0..MaxFed) /\ Len(Block) = N
      /\ \A i \in 1..N : Block[i] = IF i <= Quiet \/ i - Quiet > Len(dac) THEN Silence
                                    ELSE dac[i - Quiet]
  BY <1>2, <1>3, Numbers
<1>5. out \in Seq(0..MaxFed) /\ out' = out \o Block
  BY DEF TypeOK, AdcProduce
<1>6. /\ out' \in Seq(0..MaxFed) /\ Len(out') = Len(out) + N
      /\ \A i \in 1..(Len(out) + N) : out'[i] = IF i <= Len(out) THEN out[i] ELSE Block[i - Len(out)]
  BY <1>4, <1>5, ConcatProperties
<1>7. \A i \in 1..Len(out) : out'[i] = out[i]
  BY <1>6, Numbers
<1>8. \A i \in 1..N : out'[Len(out) + i] = Block[i]
  BY <1>6, Numbers
<1>9. dac' = SubSeq(dac, Used + 1, Len(dac))
  BY DEF AdcProduce, Used
<1>10. \A i \in (Used + 1)..Len(dac) : dac[i] \in 1..MaxFed
  BY <1>1, Numbers, Samples
<1>a. Used + 1 \in Int /\ Len(dac) \in Int
  BY <1>1, Numbers
<1>11. /\ dac' \in Seq(1..MaxFed)
       /\ Len(dac') = IF Used + 1 <= Len(dac) THEN Len(dac) - (Used + 1) + 1 ELSE 0
       /\ \A i \in 1..(Len(dac) - (Used + 1) + 1) : dac'[i] = dac[Used + 1 + i - 1]
  BY <1>9, <1>10, <1>a, SubSeqProperties
<1>12. Len(dac') = Positive(Len(dac) - Used)
  BY <1>1, <1>11, Numbers DEF Positive
<1>13. ASSUME NEW j \in 1..Len(dac') PROVE dac'[j] = dac[j + Used]
  <2>1. j \in 1..(Len(dac) - (Used + 1) + 1) /\ Used + 1 + j - 1 = j + Used
    BY <1>1, <1>12, Numbers DEF Positive
  <2> QED BY <1>11, <2>1, Zenon
<1> QED BY <1>1, <1>4, <1>6, <1>7, <1>8, <1>11, <1>12, <1>13

-----------------------------------------------------------------------------
(* The types. *)

\* The connections are finitely many, and so are the workers of any kind.
LEMMA FiniteConns ==
    ASSUME NEW S \in SUBSET Conns
    PROVE  IsFiniteSet(S) /\ Cardinality(S) \in Nat
<1>1. MaxConns \in Nat
  BY ConstantsAssumption DEF ConstantsAssumption
<1>2. IsFiniteSet(Conns)
  BY <1>1, FS_Interval DEF Conns
<1>3. IsFiniteSet(S)
  BY <1>2, FS_Subset
<1> QED BY <1>3, FS_CardinalityType

\* What keeps them: a transfer is only begun for a block within the bounds.
TypeInv == TypeOK /\ emitted + Cardinality(Readers) <= MaxBlocks

\* A worker that reads has a block left to produce.
LEMMA ReaderHasBlock ==
    ASSUME TypeInv, NEW c \in Conns, adc[c] \in Reading
    PROVE  emitted \in Nat /\ emitted < MaxBlocks
<1>1. emitted \in Nat /\ MaxBlocks \in Nat
  BY ConstantsAssumption DEF ConstantsAssumption, TypeInv, TypeOK
<1>2. Readers \in SUBSET Conns /\ c \in Readers
  BY DEF Readers
<1>3. Cardinality(Readers) \in Nat /\ IsFiniteSet(Readers)
  BY <1>2, FiniteConns
<1>4. Cardinality(Readers) # 0
  BY <1>2, <1>3, FS_EmptySet
<1> QED BY <1>1, <1>3, <1>4 DEF TypeInv

\* The ticks to the next block fit the timer.
LEMMA DueInType ==
    ASSUME TypeOK, emitted < MaxBlocks
    PROVE  DueIn \in 0..MaxElapsed
<1>1. emitted + 1 \in 0..MaxBlocks /\ rate \in Rates /\ elapsed \in Nat
  BY ConstantsAssumption DEF TypeOK, ConstantsAssumption
<1>2. (emitted + 1) * BlockTicks(rate) \in 0..MaxElapsed
  BY <1>1, DueInBounds
<1>3. MaxElapsed \in Nat
  BY ConstantsAssumption DEF MaxElapsed, ConstantsAssumption
<1> HIDE DEF MaxElapsed
<1>4. \A x \in 0..MaxElapsed : Positive(x - elapsed) \in 0..MaxElapsed
  BY <1>1, <1>3 DEF Positive
<1> QED BY <1>2, <1>4 DEF DueIn

\* A stream that starts afresh has its types.
LEMMA FreshTypes ==
    ASSUME Fresh
    PROVE  /\ elapsed' \in 0..MaxElapsed /\ emitted' \in 0..MaxBlocks
           /\ dac' \in Seq(1..MaxFed) /\ delay' \in 0..Latency
           /\ overflowed' \in BOOLEAN /\ fed' \in 0..MaxFed
           /\ out' \in Seq(0..MaxFed) /\ got' \in Seq(0..MaxFed)
           /\ steady' \in BOOLEAN /\ mistimed' \in BOOLEAN /\ gaveUp' \in BOOLEAN
           /\ slipped' \in BOOLEAN /\ sharers' \in SUBSET Conns
           /\ slot' \in [Conns -> 0..MaxBlocks] /\ block' \in [Conns -> Seq(0..MaxFed)]
<1>1. MaxBlocks \in Nat /\ SlowTicks \in Nat /\ Latency \in Nat /\ MaxFed \in Nat
  BY ConstantsAssumption DEF ConstantsAssumption
<1>2. MaxElapsed \in Nat
  BY <1>1 DEF MaxElapsed
<1>3. << >> \in Seq(1..MaxFed) /\ << >> \in Seq(0..MaxFed)
  BY EmptySeq
<1>4. 0 \in 0..MaxElapsed /\ 0 \in 0..MaxBlocks /\ 0 \in 0..MaxFed /\ Latency \in 0..Latency
  BY <1>1, <1>2
<1>5. slot' \in [Conns -> 0..MaxBlocks]
  BY <1>4 DEF Fresh
<1>6. block' \in [Conns -> Seq(0..MaxFed)]
  BY <1>3 DEF Fresh
<1> QED BY <1>3, <1>4, <1>5, <1>6 DEF Fresh

\* The ticks of a timer.
Times == 0..(MaxElapsed + Grace)

\* What a timer is set to.
LEMMA TimesFacts ==
    /\ 0 \in Times /\ Grace \in Times
    /\ \A x \in 0..MaxElapsed : x \in Times
    /\ \A x \in Times : Positive(x - 1) \in Times
<1>1. Grace \in Nat /\ MaxElapsed \in Nat
  BY ConstantsAssumption DEF ConstantsAssumption, MaxElapsed
<1>2. \A x \in Times : Positive(x - 1) \in Times
  BY <1>1 DEF Positive, Times
<1> QED BY <1>1, <1>2 DEF Times

\* The variables of the EP2 IN workers have their types.
WorkerTypes ==
    /\ adc \in [Conns -> AdcStates]
    /\ waiter \in [Conns -> {"none", "enabled", "notified"}]
    /\ timer \in [Conns -> Times]
    /\ linked \in [Conns -> BOOLEAN]
    /\ block \in [Conns -> Seq(0..MaxFed)]
    /\ slot \in [Conns -> 0..MaxBlocks] /\ sharers \in SUBSET Conns

\* A transfer that is over leaves the types as they are.
LEMMA LeavesTypes ==
    ASSUME TypeOK, NEW c \in Conns, NEW place \in AdcStates, Leaves(c, place)
    PROVE  WorkerTypes'
<1>1. << >> \in Seq(0..MaxFed) /\ 0 \in 0..MaxBlocks
  BY EmptySeq, ConstantsAssumption DEF ConstantsAssumption
<1>2. adc' \in [Conns -> AdcStates] /\ linked' \in [Conns -> BOOLEAN]
  BY DEF Leaves, TypeOK
<1>3. waiter' \in [Conns -> {"none", "enabled", "notified"}]
  BY DEF Leaves, TypeOK
<1>4. timer' \in [Conns -> Times]
  BY TimesFacts DEF Leaves, TypeOK, Times
<1>5. block' \in [Conns -> Seq(0..MaxFed)] /\ slot' \in [Conns -> 0..MaxBlocks]
  BY <1>1 DEF Leaves, TypeOK
<1>6. sharers' \in SUBSET Conns
  BY DEF Leaves, TypeOK
<1> QED BY <1>2, <1>3, <1>4, <1>5, <1>6 DEF WorkerTypes

\* A step of a worker short of its block leaves the types as they are.
LEMMA WorkerStepTypes ==
    ASSUME TypeInv, NEW c \in Conns,
           \/ AdcStart(c) \/ AdcDue(c) \/ AdcWoken(c) \/ AdcPaced(c) \/ AdcLook(c)
           \/ AdcGrace(c) \/ AdcStopped(c)
    PROVE  WorkerTypes'
<1>a. TypeOK
  BY DEF TypeInv
<1>b. AdcDue(c) => emitted < MaxBlocks /\ DueIn \in Times
  <2>1. AdcDue(c) => emitted < MaxBlocks
    BY ReaderHasBlock DEF AdcDue, Reading
  <2> QED BY <1>a, <2>1, DueInType, TimesFacts
<1> USE DEF TypeInv, TypeOK, WorkerTypes, AdcStates, Reading, Awaits
<1>1. CASE AdcStart(c)
  BY <1>1 DEF AdcStart, Times
<1>2. CASE AdcDue(c)
  <2>1. emitted < MaxBlocks /\ DueIn \in Times
    BY <1>2, <1>b
  <2>2. DueIn \in Times /\ 0 \in Times /\ emitted + 1 \in 0..MaxBlocks
    <3>1. emitted \in Nat /\ MaxBlocks \in Nat
      BY ConstantsAssumption DEF ConstantsAssumption
    <3> QED BY <2>1, <3>1, TimesFacts
  <2>3. (IF realtime THEN DueIn ELSE 0) \in Times
    BY <2>2
  <2>4. timer' \in [Conns -> Times]
    <3>1. timer \in [Conns -> Times]
      BY DEF Times
    <3>2. \/ timer' = timer
          \/ timer' = [timer EXCEPT ![c] = IF realtime THEN DueIn ELSE 0]
      BY <1>2 DEF AdcDue
    <3> HIDE DEF Times
    <3> QED BY <2>3, <3>1, <3>2
  <2>5. slot' \in [Conns -> 0..MaxBlocks] /\ sharers' \in SUBSET Conns
    BY <1>2, <2>2 DEF AdcDue
  <2>6. adc' \in [Conns -> AdcStates]
    BY <1>2 DEF AdcDue
  <2>7. waiter' \in [Conns -> {"none", "enabled", "notified"}]
    BY <1>2 DEF AdcDue
  <2>8. UNCHANGED <<linked, block>>
    BY <1>2 DEF AdcDue
  <2> QED BY <2>4, <2>5, <2>6, <2>7, <2>8
<1>3. CASE AdcWoken(c)
  BY <1>3 DEF AdcWoken, Times
<1>4. CASE AdcPaced(c)
  BY <1>4, TimesFacts DEF AdcPaced, Times
<1>5. CASE AdcLook(c)
  BY <1>5 DEF AdcLook, Times
<1>6. CASE AdcGrace(c)
  BY <1>6 DEF AdcGrace, Times
<1>7. CASE AdcStopped(c)
  BY <1>7, TimesFacts DEF AdcStopped, Times
<1> QED BY <1>1, <1>2, <1>3, <1>4, <1>5, <1>6, <1>7

\* Every step leaves room within the bounds for the blocks that are being read.
LEMMA RoomStep ==
    ASSUME TypeInv, [Next]_vars
    PROVE  emitted' + Cardinality(Readers') <= MaxBlocks
<1>1. /\ emitted \in Nat /\ MaxBlocks \in Nat /\ Readers \in SUBSET Conns
      /\ IsFiniteSet(Readers) /\ Cardinality(Readers) \in Nat
      /\ emitted + Cardinality(Readers) <= MaxBlocks
  BY FiniteConns, ConstantsAssumption DEF TypeInv, TypeOK, Readers, ConstantsAssumption
<1>2. adc \in [Conns -> AdcStates]
  BY DEF TypeInv, TypeOK
<1>3. ASSUME Readers' \subseteq Readers, emitted' \in Nat, emitted' <= emitted
      PROVE  emitted' + Cardinality(Readers') <= MaxBlocks
  <2>1. Cardinality(Readers') <= Cardinality(Readers)
    BY <1>1, <1>3, FS_Subset
  <2>2. Cardinality(Readers') \in Nat
    BY <1>1, <1>3, FiniteConns
  <2> QED BY <1>1, <1>3, <2>1, <2>2
<1>4. CASE StartStream \/ StopStream \/ BootloaderEntry
  <2>1. emitted' = 0 /\ adc' = adc
    BY <1>4 DEF StartStream, StopStream, BootloaderEntry, Fresh
  <2> QED BY <1>1, <1>3, <2>1 DEF Readers
<1>5. CASE \E c \in Conns : AdcStart(c)
  <2>1. PICK c \in Conns : AdcStart(c)
    BY <1>5
  <2>2. /\ adc[c] \notin Reading /\ adc' = [adc EXCEPT ![c] = "due"] /\ emitted' = emitted
        /\ emitted + Cardinality(Readers) < MaxBlocks
    BY <2>1 DEF AdcStart, streamVars, Reading, Awaits
  <2>3. Readers' = Readers \cup {c}
    BY <1>2, <2>2 DEF Readers, Reading, Awaits
  <2>4. c \notin Readers
    BY <2>2 DEF Readers
  <2>5. Cardinality(Readers') = Cardinality(Readers) + 1
    BY <1>1, <2>3, <2>4, FS_AddElement
  <2> QED BY <1>1, <2>2, <2>5
<1>6. CASE \E c \in Conns : AdcProduce(c)
  <2>1. PICK c \in Conns : AdcProduce(c)
    BY <1>6
  <2>2. adc[c] \in Reading /\ adc' = [adc EXCEPT ![c] = "claim"] /\ emitted' = emitted + 1
    BY <2>1 DEF AdcProduce, Reading, Awaits
  <2>3. Readers' = Readers \ {c}
    BY <1>2, <2>2 DEF Readers, Reading, Awaits
  <2>4. c \in Readers
    BY <2>2 DEF Readers
  <2>5. Cardinality(Readers') = Cardinality(Readers) - 1
    BY <1>1, <2>3, <2>4, FS_RemoveElement
  <2> QED BY <1>1, <2>2, <2>5
<1>7. CASE UNCHANGED <<emitted, adc>>
  BY <1>1, <1>3, <1>7 DEF Readers
<1>8. ASSUME NEW c \in Conns,
             \/ AdcDue(c) \/ AdcWoken(c) \/ AdcPaced(c) \/ AdcLook(c) \/ AdcGrace(c)
             \/ AdcStopped(c)
      PROVE  emitted' + Cardinality(Readers') <= MaxBlocks
  <2>1. /\ emitted' = emitted /\ adc[c] \in Reading
        /\ \E place \in Reading : adc' = [adc EXCEPT ![c] = place]
    BY <1>8 DEF AdcDue, AdcWoken, AdcPaced, AdcLook, AdcGrace, AdcStopped, streamVars,
                Reading, Awaits
  <2>2. Readers' = Readers
    BY <1>2, <2>1 DEF Readers
  <2> QED BY <1>1, <1>3, <2>1, <2>2
<1>9. ASSUME NEW c \in Conns, AdcDropped(c) \/ AdcClaim(c) \/ AdcEnds(c)
      PROVE  emitted' + Cardinality(Readers') <= MaxBlocks
  <2>1. /\ emitted' = emitted
        /\ adc' = [adc EXCEPT ![c] = "idle"] \/ adc' = [adc EXCEPT ![c] = "ended"]
    BY <1>9 DEF AdcDropped, AdcClaim, AdcEnds, Leaves, streamVars
  <2>2. Readers' \subseteq Readers
    BY <1>2, <2>1 DEF Readers, Reading, Awaits
  <2> QED BY <1>1, <1>3, <2>1, <2>2
<1>10. \/ StartStream \/ StopStream \/ BootloaderEntry
       \/ \E c \in Conns :
             \/ AdcStart(c) \/ AdcProduce(c) \/ AdcDue(c) \/ AdcWoken(c) \/ AdcPaced(c)
             \/ AdcLook(c) \/ AdcGrace(c) \/ AdcStopped(c) \/ AdcDropped(c) \/ AdcClaim(c)
             \/ AdcEnds(c)
       \/ UNCHANGED <<emitted, adc>>
  BY DEF Next, Device, Transport, AdcStep, SetRate, DacBlock, Reconnect, Unlink, Tick, vars,
         streamVars, adcVars
<1> QED BY <1>4, <1>5, <1>6, <1>7, <1>8, <1>9, <1>10

\* Every step keeps the types.
LEMMA TypeInvStep ==
    ASSUME TypeInv, [Next]_vars
    PROVE  TypeInv'
<1>1. /\ MaxBlocks \in Nat /\ Latency \in Nat /\ Grace \in Nat /\ N \in Nat
      /\ MaxConns \in Nat /\ MaxElapsed \in Nat
  BY ConstantsAssumption DEF ConstantsAssumption, MaxElapsed
<1>2. TypeOK
  BY DEF TypeInv
<1>3. WorkerTypes
  BY <1>2 DEF TypeOK, WorkerTypes, Times
<1>4. SUFFICES TypeOK'
  BY RoomStep DEF TypeInv
<1>5. Notify \/ UNCHANGED waiter => waiter' \in [Conns -> {"none", "enabled", "notified"}]
  BY <1>2 DEF Notify, TypeOK
<1> DEFINE StreamTypes ==
               /\ realtime \in BOOLEAN /\ rate \in Rates
               /\ streaming \in BOOLEAN
               /\ elapsed \in 0..MaxElapsed /\ emitted \in 0..MaxBlocks
               /\ dac \in Seq(1..MaxFed) /\ delay \in 0..Latency
               /\ overflowed \in BOOLEAN
               /\ fed \in 0..MaxFed /\ out \in Seq(0..MaxFed)
               /\ steady \in BOOLEAN /\ mistimed \in BOOLEAN /\ gaveUp \in BOOLEAN
           HostTypes == conn \in Conns /\ got \in Seq(0..MaxFed) /\ slipped \in BOOLEAN
<1>6. StreamTypes /\ HostTypes
  BY <1>2 DEF TypeOK
<1>7. StreamTypes' /\ HostTypes' /\ WorkerTypes' => TypeOK'
  BY DEF TypeOK, WorkerTypes, Times
<1>8. UNCHANGED <<realtime, rate, streamVars>> => StreamTypes'
  BY <1>6 DEF streamVars
<1>9. UNCHANGED hostVars => HostTypes'
  BY <1>6 DEF hostVars
<1>10. UNCHANGED adcVars => WorkerTypes'
  BY <1>3 DEF adcVars, WorkerTypes
<1>11. CASE StartStream \/ StopStream \/ BootloaderEntry
  <2>1. Fresh /\ UNCHANGED <<adc, rate, realtime, timer, linked, conn>>
    BY <1>11 DEF StartStream, StopStream, BootloaderEntry
  <2>2. streaming' \in BOOLEAN /\ waiter' \in [Conns -> {"none", "enabled", "notified"}]
    BY <1>5, <1>11 DEF StartStream, StopStream, BootloaderEntry
  <2>3. HostTypes'
    BY <1>6, <2>1, FreshTypes
  <2>4. StreamTypes'
    BY <1>6, <2>1, <2>2, FreshTypes
  <2>5. WorkerTypes'
    BY <1>3, <2>1, <2>2, FreshTypes DEF WorkerTypes
  <2> QED BY <1>7, <2>3, <2>4, <2>5
<1>12. ASSUME NEW r \in Rates, SetRate(r) PROVE TypeOK'
  <2>1. UNCHANGED <<adcVars, hostVars>>
    BY <1>12 DEF SetRate
  <2>2. StreamTypes'
    BY <1>6, <1>12 DEF SetRate
  <2> QED BY <1>7, <1>9, <1>10, <2>1, <2>2
<1>13. ASSUME NEW m \in 1..N, DacBlock(m) PROVE TypeOK'
  <2>1. dac' \in Seq(1..MaxFed)
    BY <1>2, <1>13, DacBlockEffect
  <2>2. fed' \in 0..MaxFed /\ overflowed' \in BOOLEAN
    BY <1>1, <1>2, <1>13, Numbers DEF DacBlock, TypeOK
  <2>3. /\ UNCHANGED <<realtime, rate, streaming, elapsed, emitted, delay, out,
                       steady, mistimed, gaveUp, adc, timer, linked, block, slot, sharers>>
        /\ UNCHANGED hostVars
    BY <1>13 DEF DacBlock
  <2>4. waiter' \in [Conns -> {"none", "enabled", "notified"}]
    BY <1>5, <1>13 DEF DacBlock
  <2>5. StreamTypes'
    BY <1>6, <2>1, <2>2, <2>3
  <2>6. WorkerTypes'
    BY <1>3, <2>3, <2>4 DEF WorkerTypes
  <2> QED BY <1>7, <1>9, <2>3, <2>5, <2>6
<1>14. CASE Reconnect
  <2>1. conn' \in Conns
    BY <1>1, <1>6, <1>14 DEF Reconnect, Conns
  <2>2. HostTypes'
    BY <1>6, <1>14, <2>1 DEF Reconnect
  <2> QED BY <1>7, <1>8, <1>10, <1>14, <2>2 DEF Reconnect
<1>15. CASE Unlink
  <2>1. WorkerTypes'
    BY <1>3, <1>15 DEF Unlink, WorkerTypes
  <2> QED BY <1>7, <1>8, <1>9, <1>15, <2>1 DEF Unlink
<1>16. ASSUME NEW c \in Conns,
              \/ AdcStart(c) \/ AdcDue(c) \/ AdcWoken(c) \/ AdcPaced(c) \/ AdcLook(c)
              \/ AdcGrace(c) \/ AdcStopped(c)
       PROVE  TypeOK'
  <2>1. UNCHANGED <<realtime, rate, streamVars, hostVars>>
    BY <1>16 DEF AdcStart, AdcDue, AdcWoken, AdcPaced, AdcLook, AdcGrace, AdcStopped
  <2>2. WorkerTypes'
    BY <1>16, WorkerStepTypes
  <2> QED BY <1>7, <1>8, <1>9, <2>1, <2>2
<1>17. ASSUME NEW c \in Conns, AdcDropped(c) \/ AdcEnds(c)
       PROVE  TypeOK'
  <2>1. /\ UNCHANGED <<realtime, rate, streamVars, hostVars>>
        /\ Leaves(c, "idle") \/ Leaves(c, "ended")
    BY <1>17 DEF AdcDropped, AdcEnds
  <2>2. WorkerTypes'
    BY <1>2, <2>1, LeavesTypes DEF AdcStates
  <2> QED BY <1>7, <1>8, <1>9, <2>1, <2>2
<1>18. ASSUME NEW c \in Conns, AdcClaim(c)
       PROVE  TypeOK'
  <2>1. WorkerTypes'
    BY <1>2, <1>18, LeavesTypes DEF AdcStates, AdcClaim
  <2>2. slipped' \in BOOLEAN
    BY <1>6, <1>18 DEF AdcClaim
  <2>3. got' \in Seq(0..MaxFed)
    <3>1. block[c] \in Seq(0..MaxFed)
      BY <1>3 DEF WorkerTypes
    <3>2. got \o block[c] \in Seq(0..MaxFed) /\ << >> \in Seq(0..MaxFed)
      BY <1>6, <3>1, ConcatProperties, EmptySeq
    <3>3. got' = << >> \/ got' = got \o block[c] \/ got' = got
      BY <1>18 DEF AdcClaim
    <3> QED BY <1>6, <3>2, <3>3
  <2>4. UNCHANGED <<realtime, rate, streamVars, conn>>
    BY <1>18 DEF AdcClaim
  <2> QED BY <1>6, <1>7, <1>8, <2>1, <2>2, <2>3, <2>4
<1>19. ASSUME NEW c \in Conns, AdcProduce(c)
       PROVE  TypeOK'
  <2>1. dac' \in Seq(1..MaxFed) /\ out' \in Seq(0..MaxFed) /\ Block \in Seq(0..MaxFed)
    BY <1>2, <1>19, ProduceEffect
  <2>2. delay' \in 0..Latency
    BY <1>1, <1>2, <1>19 DEF AdcProduce, TypeOK, Positive
  <2>3. emitted' \in 0..MaxBlocks
    <3>1. emitted \in Nat /\ emitted < MaxBlocks
      BY <1>19, ReaderHasBlock DEF AdcProduce, Reading
    <3> QED BY <1>1, <1>19, <3>1 DEF AdcProduce
  <2>4. StreamTypes'
    BY <1>6, <1>19, <2>1, <2>2, <2>3 DEF AdcProduce
  <2>5. adc' \in [Conns -> AdcStates] /\ waiter' \in [Conns -> {"none", "enabled", "notified"}]
    BY <1>3, <1>19 DEF AdcProduce, WorkerTypes, AdcStates
  <2>6. timer' \in [Conns -> Times]
    BY <1>3, <1>19, TimesFacts DEF AdcProduce, WorkerTypes
  <2>7. block' \in [Conns -> Seq(0..MaxFed)]
    <3>1. block' = [block EXCEPT ![c] = Block] /\ block \in [Conns -> Seq(0..MaxFed)]
      BY <1>3, <1>19 DEF AdcProduce, WorkerTypes
    <3> QED BY <2>1, <3>1
  <2>8. UNCHANGED <<linked, slot, sharers, hostVars>>
    BY <1>19 DEF AdcProduce
  <2>9. WorkerTypes'
    BY <1>3, <2>5, <2>6, <2>7, <2>8 DEF WorkerTypes
  <2> QED BY <1>7, <1>9, <2>4, <2>8, <2>9
<1>20. CASE Tick
  <2>1. elapsed' \in 0..MaxElapsed
    BY <1>1, <1>6, <1>20 DEF Tick
  <2>2. timer' \in [Conns -> Times]
    BY <1>3, <1>20, TimesFacts DEF Tick, WorkerTypes
  <2>3. /\ UNCHANGED <<realtime, rate, streaming, emitted, dac, delay, overflowed,
                       fed, out, steady, mistimed, gaveUp, adc, waiter, linked, block,
                       slot, sharers, hostVars>>
    BY <1>20 DEF Tick
  <2>4. StreamTypes'
    BY <1>6, <2>1, <2>3
  <2>5. WorkerTypes'
    BY <1>3, <2>2, <2>3 DEF WorkerTypes
  <2> QED BY <1>7, <1>9, <2>3, <2>4, <2>5
<1>21. CASE UNCHANGED vars
  BY <1>7, <1>8, <1>9, <1>10, <1>21 DEF vars
<1> QED BY <1>11, <1>12, <1>13, <1>14, <1>15, <1>16, <1>17, <1>18, <1>19, <1>20, <1>21
        DEF Next, Device, Transport, AdcStep

\* The types hold in every state, in the form the steps keep.
LEMMA TypeInvAlways == Spec => []TypeInv
<1>1. Init => TypeInv
  <2>1. SUFFICES ASSUME Init PROVE TypeInv
    OBVIOUS
  <2>2. /\ MaxBlocks \in Nat /\ Latency \in Nat /\ Grace \in Nat /\ MaxFed \in Nat
        /\ 1 \in Rates /\ MaxConns \in Nat \ {0}
    BY ConstantsAssumption DEF ConstantsAssumption
  <2>3. MaxElapsed \in Nat
    BY ConstantsAssumption DEF MaxElapsed, ConstantsAssumption
  <2>4. << >> \in Seq(1..MaxFed) /\ << >> \in Seq(0..MaxFed)
    BY EmptySeq
  <2>5. 0 \in 0..MaxElapsed /\ 0 \in 0..MaxBlocks /\ 0 \in 0..MaxFed /\ Latency \in 0..Latency
        /\ 0 \in 0..(MaxElapsed + Grace) /\ 1 \in Conns
    BY <2>2, <2>3 DEF Conns
  <2>6. TypeOK
    BY <2>1, <2>2, <2>4, <2>5 DEF Init, TypeOK, AdcStates
  <2>7. Readers = {}
    BY <2>1 DEF Init, Readers, Reading, Awaits
  <2>8. emitted + Cardinality(Readers) <= MaxBlocks
    BY <2>1, <2>2, <2>7, FS_EmptySet DEF Init
  <2> QED BY <2>6, <2>8 DEF TypeInv
<1>2. TypeInv /\ [Next]_vars => TypeInv'
  BY TypeInvStep
<1> QED BY <1>1, <1>2, PTL DEF Spec

\* TypeOK holds in every state: the queue and what was returned hold samples that
\* were fed, the counters stay in their ranges, and a sleep or a grace is never
\* longer than the stream's longest wait, however many workers read.
THEOREM TypeCorrect == Spec => []TypeOK
<1>1. TypeInv => TypeOK
  BY DEF TypeInv
<1> QED BY <1>1, TypeInvAlways, PTL
-----------------------------------------------------------------------------
(* The order of the samples. *)

\* The samples in the queue are ordered, after all that were returned, and none
\* is one the stream was not fed yet.
InOrder ==
    /\ \A i, j \in 1..Len(dac) : i < j => dac[i] < dac[j]
    /\ \A j \in 1..Len(dac) : dac[j] <= fed
    /\ \A i \in 1..Len(out), j \in 1..Len(dac) : out[i] < dac[j]
    /\ \A i \in 1..Len(out) : out[i] <= fed
    /\ LoopbackInOrder

\* A step starts the samples afresh, brings a DAC block, takes an ADC block, or
\* leaves them alone.
LEMMA SampleSteps ==
    ASSUME [Next]_vars
    PROVE  \/ Fresh
           \/ \E m \in 1..N : DacBlock(m)
           \/ \E c \in Conns : AdcProduce(c)
           \/ UNCHANGED <<dac, out, fed, delay, overflowed>>
BY DEF Next, Device, Transport, AdcStep, StartStream, StopStream, BootloaderEntry, SetRate,
       Reconnect, Unlink, AdcStart, AdcEnds, AdcDue, AdcWoken, AdcPaced, AdcLook, AdcGrace,
       AdcStopped, AdcDropped, AdcClaim, Leaves, Tick, vars, streamVars

\* A DAC block keeps the order: its samples are the latest, and the rest of the
\* queue moves up.
LEMMA DacBlockInOrder ==
    ASSUME TypeOK, InOrder, NEW m \in 1..N, DacBlock(m)
    PROVE  InOrder'
<1> DEFINE S == Surplus(m)  L == Len(dac)
<1>1. /\ S \in Nat /\ fed' = fed + m /\ L \in Nat /\ m \in Nat /\ fed \in Nat
      /\ Len(dac') = L + m - S /\ out' = out
  <2>1. L \in Nat /\ fed \in Nat /\ m \in Nat
    BY Numbers
  <2>2. out' = out
    BY DEF DacBlock
  <2>3. S \in Nat /\ fed' = fed + m /\ Len(dac') = L + m - S
    BY DacBlockEffect, Zenon
  <2> QED BY <2>1, <2>2, <2>3
<1>2. \A j \in 1..Len(dac') : dac'[j] = IF j + S <= L THEN dac[j + S] ELSE fed + (j + S - L)
  BY DacBlockEffect
<1>3. /\ \A j \in 1..L : dac[j] \in Nat
      /\ \A i \in 1..Len(out) : out[i] \in Nat
  BY Samples, Numbers
<1> HIDE DEF S, L
<1>4. \A j \in 1..L : dac[j] <= fed
  BY DEF InOrder, L
<1>5. ASSUME NEW j \in 1..Len(dac')
      PROVE  /\ j \in Nat /\ j + S \in 1..(L + m)
             /\ j + S <= L => dac'[j] = dac[j + S] /\ j + S \in 1..L
             /\ ~(j + S <= L) => dac'[j] = fed + (j + S - L) /\ j + S - L \in 1..m
  BY <1>1, <1>2
<1>6. \A i, j \in 1..Len(dac') : i < j => dac'[i] < dac'[j]
  <2>1. SUFFICES ASSUME NEW i \in 1..Len(dac'), NEW j \in 1..Len(dac'), i < j
                 PROVE  dac'[i] < dac'[j]
    OBVIOUS
  <2>2. CASE j + S <= L
    <3>1. i + S <= L /\ i + S < j + S
      BY <2>1, <2>2, <1>1, <1>5
    <3>2. dac'[i] = dac[i + S] /\ dac'[j] = dac[j + S] /\ i + S \in 1..L /\ j + S \in 1..L
      BY <2>2, <3>1, <1>5
    <3> QED BY <3>1, <3>2 DEF InOrder, L
  <2>3. CASE i + S <= L /\ ~(j + S <= L)
    <3>1. dac'[i] = dac[i + S] /\ i + S \in 1..L /\ dac'[j] = fed + (j + S - L) /\ j + S - L \in 1..m
      BY <2>3, <1>5
    <3>2. dac[i + S] \in Nat /\ dac[i + S] <= fed
      BY <3>1, <1>3, <1>4
    <3> QED BY <3>1, <3>2, <1>1
  <2>4. CASE ~(i + S <= L) /\ ~(j + S <= L)
    <3>1. dac'[i] = fed + (i + S - L) /\ dac'[j] = fed + (j + S - L)
      BY <2>4, <1>5
    <3> QED BY <2>1, <3>1, <1>1, <1>5
  <2>5. i + S <= L \/ ~(j + S <= L)
    BY <2>1, <1>1, <1>5
  <2> QED BY <2>2, <2>3, <2>4, <2>5
<1>7. ASSUME NEW j \in 1..Len(dac')
      PROVE  dac'[j] <= fed' /\ \A i \in 1..Len(out') : out'[i] < dac'[j]
  <2>1. CASE j + S <= L
    <3>1. dac'[j] = dac[j + S] /\ j + S \in 1..L
      BY <2>1, <1>5
    <3>2. dac[j + S] \in Nat /\ dac[j + S] <= fed
      BY <3>1, <1>3, <1>4
    <3> QED BY <3>1, <3>2, <1>1 DEF InOrder, L
  <2>2. CASE ~(j + S <= L)
    <3>1. dac'[j] = fed + (j + S - L) /\ j + S - L \in 1..m
      BY <2>2, <1>5
    <3>2. \A i \in 1..Len(out) : out[i] \in Nat /\ out[i] <= fed
      BY <1>3 DEF InOrder
    <3> QED BY <3>1, <3>2, <1>1
  <2> QED BY <2>1, <2>2
<1>8. \A i \in 1..Len(out') : out'[i] <= fed'
  <2>1. \A i \in 1..Len(out) : out[i] \in Nat /\ out[i] <= fed
    BY <1>3 DEF InOrder
  <2> QED BY <1>1, <2>1
<1>9. LoopbackInOrder'
  BY <1>1 DEF InOrder, LoopbackInOrder
<1> QED BY <1>6, <1>7, <1>8, <1>9 DEF InOrder

\* An ADC block keeps the order: it is silence and the head of the queue.
LEMMA ProduceInOrder ==
    ASSUME TypeOK, InOrder, NEW c \in Conns, AdcProduce(c)
    PROVE  InOrder'
<1> DEFINE U == Used  L == Len(dac)  O == Len(out)
<1>1. /\ U \in Nat /\ L \in Nat /\ O \in Nat /\ Quiet \in 0..N /\ U = N - Quiet /\ N \in Nat
      /\ Len(out') = O + N /\ Len(dac') = Positive(L - U) /\ fed' = fed /\ fed \in Nat
  <2>1. L \in Nat /\ O \in Nat /\ N \in Nat /\ fed \in Nat
    BY Numbers
  <2>2. fed' = fed
    BY DEF AdcProduce
  <2>3. Quiet \in 0..N /\ U = N - Quiet /\ Len(out') = O + N /\ Len(dac') = Positive(L - U)
    BY ProduceEffect, Zenon
  <2> HIDE DEF U
  <2> QED BY <2>1, <2>2, <2>3
<1>2. /\ \A j \in 1..L : dac[j] \in Nat /\ dac[j] > 0 /\ dac[j] <= fed
      /\ \A i \in 1..O : out[i] \in Nat /\ out[i] <= fed
      /\ \A i \in 1..O, j \in 1..L : out[i] < dac[j]
      /\ \A i, j \in 1..L : i < j => dac[i] < dac[j]
  BY Samples, Numbers DEF InOrder
<1>3. \A j \in 1..Len(dac') : dac'[j] = dac[j + U]
  BY ProduceEffect
<1>4. /\ \A i \in 1..O : out'[i] = out[i]
      /\ \A i \in 1..N : out'[O + i] = IF i <= Quiet \/ i - Quiet > L THEN 0 ELSE dac[i - Quiet]
  BY ProduceEffect DEF Silence
<1> HIDE DEF U, L, O
<1>5. ASSUME NEW i \in 1..Len(out')
      PROVE  \/ i \in 1..O /\ out'[i] = out[i]
             \/ out'[i] = 0
             \/ \E k \in 1..L : i > O /\ k <= U /\ k = i - O - Quiet /\ out'[i] = dac[k]
  <2>1. CASE i <= O
    BY <2>1, <1>1, <1>4
  <2>2. CASE i > O
    <3>1. i - O \in 1..N /\ O + (i - O) = i
      BY <2>2, <1>1
    <3>2. out'[i] = IF i - O <= Quiet \/ (i - O) - Quiet > L THEN 0 ELSE dac[(i - O) - Quiet]
      BY <3>1, <1>4
    <3>3. CASE i - O <= Quiet \/ (i - O) - Quiet > L
      BY <3>2, <3>3
    <3>4. CASE ~(i - O <= Quiet \/ (i - O) - Quiet > L)
      <4>1. (i - O) - Quiet \in 1..L /\ (i - O) - Quiet <= U
        BY <3>1, <3>4, <1>1
      <4> QED BY <4>1, <2>2, <3>2, <3>4
    <3> QED BY <3>3, <3>4
  <2> QED BY <2>1, <2>2, <1>1
<1>6. ASSUME NEW j \in 1..Len(dac')
      PROVE  j \in Nat /\ j + U \in 1..L /\ j + U > U /\ dac'[j] = dac[j + U]
  BY <1>1, <1>3 DEF Positive
<1>7. ASSUME NEW i \in 1..Len(dac'), NEW j \in 1..Len(dac'), i < j
      PROVE  dac'[i] < dac'[j]
  <2>1. i + U < j + U
    BY <1>6, <1>1, <1>7
  <2> QED BY <2>1, <1>2, <1>6
<1>8. \A j \in 1..Len(dac') : dac'[j] <= fed'
  BY <1>1, <1>2, <1>6
<1>9. ASSUME NEW i \in 1..Len(out')
      PROVE  out'[i] \in Nat /\ out'[i] <= fed' /\ \A j \in 1..Len(dac') : out'[i] < dac'[j]
  <2>1. CASE i \in 1..O /\ out'[i] = out[i]
    BY <2>1, <1>1, <1>2, <1>6
  <2>2. CASE out'[i] = 0
    BY <2>2, <1>1, <1>2, <1>6
  <2>3. CASE \E k \in 1..L : i > O /\ k <= U /\ k = i - O - Quiet /\ out'[i] = dac[k]
    <3>1. PICK k \in 1..L : k <= U /\ out'[i] = dac[k]
      BY <2>3
    <3>2. \A j \in 1..Len(dac') : k < j + U
      BY <3>1, <1>1, <1>6
    <3> QED BY <3>1, <3>2, <1>1, <1>2, <1>6
  <2> QED BY <1>5, <2>1, <2>2, <2>3
<1>10. ASSUME NEW i \in 1..Len(out'), NEW j \in 1..Len(out'), i < j, out'[i] # 0, out'[j] # 0
       PROVE  out'[i] < out'[j]
  <2>1. CASE j \in 1..O /\ out'[j] = out[j]
    <3>1. i \in 1..O
      BY <2>1, <1>10, <1>1
    <3>2. out'[i] = out[i]
      BY <3>1, <1>4
    <3> QED BY <1>10, <2>1, <3>1, <3>2 DEF InOrder, LoopbackInOrder, Silence, O
  <2>2. CASE \E k \in 1..L : j > O /\ k <= U /\ k = j - O - Quiet /\ out'[j] = dac[k]
    <3>1. PICK k \in 1..L : k = j - O - Quiet /\ out'[j] = dac[k]
      BY <2>2
    <3>2. CASE i \in 1..O /\ out'[i] = out[i]
      BY <3>1, <3>2, <1>2
    <3>3. CASE \E h \in 1..L : i > O /\ h <= U /\ h = i - O - Quiet /\ out'[i] = dac[h]
      <4>1. PICK h \in 1..L : h = i - O - Quiet /\ out'[i] = dac[h]
        BY <3>3
      <4>2. h < k
        BY <3>1, <4>1, <1>1, <1>10
      <4> QED BY <3>1, <4>1, <4>2, <1>2
    <3> QED BY <1>5, <1>10, <3>2, <3>3
  <2> QED BY <1>5, <1>10, <2>1, <2>2
<1> QED BY <1>7, <1>8, <1>9, <1>10 DEF InOrder, LoopbackInOrder, Silence

\* Every step keeps the order.
LEMMA InOrderStep ==
    ASSUME TypeOK, InOrder, [Next]_vars
    PROVE  InOrder'
<1>1. CASE Fresh
  <2>1. Len(dac') = 0 /\ Len(out') = 0
    BY <1>1 DEF Fresh
  <2> QED BY <2>1 DEF InOrder, LoopbackInOrder
<1>2. ASSUME NEW m \in 1..N, DacBlock(m) PROVE InOrder'
  BY <1>2, DacBlockInOrder
<1>3. ASSUME NEW c \in Conns, AdcProduce(c) PROVE InOrder'
  BY <1>3, ProduceInOrder
<1>4. CASE UNCHANGED <<dac, out, fed>>
  BY <1>4 DEF InOrder, LoopbackInOrder
<1> QED BY <1>1, <1>2, <1>3, <1>4, SampleSteps

\* The samples of a stream come back in the order they were fed to it, none
\* twice, whatever runs dry, overflows or starts anew in between, and however many
\* workers read.
THEOREM LoopsBackInOrder == Spec => []LoopbackInOrder
<1>1. Init => InOrder
  BY DEF Init, InOrder, LoopbackInOrder
<1>2. TypeOK /\ InOrder /\ [Next]_vars => InOrder'
  BY InOrderStep
<1>3. InOrder => LoopbackInOrder
  BY DEF InOrder
<1> QED BY <1>1, <1>2, <1>3, TypeCorrect, PTL DEF Spec
-----------------------------------------------------------------------------
(* Which blocks are timed, and by whom. *)

\* The steps of a block that was timed: until it is produced, and until it is got.
Pending == {"pacing", "look", "grace", "produce"}

\* A block is timed for the running stream only, and its worker is then one of
\* those that share it.
SlotInv ==
    \A c \in Conns : slot[c] # 0 =>
        streaming /\ c \in sharers /\ adc[c] \in Pending \cup {"claim"}

\* Every step keeps what is known of the places.
LEMMA SlotStep ==
    ASSUME TypeOK, SlotInv, [Next]_vars
    PROVE  SlotInv'
<1>1. /\ adc \in [Conns -> AdcStates] /\ slot \in [Conns -> 0..MaxBlocks]
  BY DEF TypeOK
<1>2. CASE Fresh
  BY <1>2 DEF Fresh, SlotInv
<1>3. CASE UNCHANGED <<streaming, adc, slot, sharers>>
  BY <1>3 DEF SlotInv
<1>4. ASSUME NEW c \in Conns,
             \/ AdcStart(c) \/ AdcWoken(c) \/ AdcPaced(c) \/ AdcLook(c) \/ AdcGrace(c)
             \/ AdcProduce(c) \/ AdcStopped(c)
      PROVE  SlotInv'
  <2>1. /\ UNCHANGED <<streaming, slot, sharers>>
        /\ \E place : /\ adc' = [adc EXCEPT ![c] = place]
                      /\ \/ adc[c] \notin Pending \cup {"claim"}
                         \/ place \in Pending \cup {"claim"}
                         \/ ~streaming
    BY <1>4 DEF AdcStart, AdcWoken, AdcPaced, AdcLook, AdcGrace, AdcProduce, AdcStopped,
                streamVars, Pending
  <2> QED BY <1>1, <2>1 DEF SlotInv
<1>5. ASSUME NEW c \in Conns, AdcDue(c)
      PROVE  SlotInv'
  <2>1. slot[c] = 0
    BY <1>5 DEF SlotInv, AdcDue, Pending
  <2>2. CASE ~streaming
    BY <1>1, <1>5, <2>1, <2>2 DEF SlotInv, AdcDue, streamVars
  <2>3. CASE streaming
    <3>1. /\ adc' = [adc EXCEPT ![c] = "pacing"] /\ slot' = [slot EXCEPT ![c] = emitted + 1]
          /\ sharers' = sharers \cup {c} /\ streaming'
      BY <1>5, <2>3 DEF AdcDue, streamVars
    <3> QED BY <1>1, <3>1 DEF SlotInv, Pending
  <2> QED BY <2>2, <2>3
<1>6. ASSUME NEW c \in Conns, AdcDropped(c) \/ AdcClaim(c) \/ AdcEnds(c)
      PROVE  SlotInv'
  <2>1. /\ UNCHANGED <<streaming, sharers>> /\ slot' = [slot EXCEPT ![c] = 0]
        /\ \E place : adc' = [adc EXCEPT ![c] = place]
    BY <1>6 DEF AdcDropped, AdcClaim, AdcEnds, Leaves, streamVars
  <2> QED BY <1>1, <2>1 DEF SlotInv
<1> QED BY <1>2, <1>3, <1>4, <1>5, <1>6
        DEF Next, Device, Transport, AdcStep, StartStream, StopStream, BootloaderEntry,
            SetRate, DacBlock, Reconnect, Unlink, Tick, vars, streamVars, adcVars

\* A lone worker is the only one with a block timed for the stream.
LEMMA OneAlone ==
    ASSUME SlotInv, Alone, NEW c \in Conns, NEW d \in Conns, slot[c] # 0, slot[d] # 0
    PROVE  c = d
BY DEF SlotInv, Alone

\* But for a fresh stream, sharers only join, and a history that was clean before
\* a step is what makes it clean after.
LEMMA Histories ==
    ASSUME [Next]_vars, ~Fresh
    PROVE  /\ sharers \subseteq sharers'
           /\ Alone' => Alone
           /\ ~mistimed' => ~mistimed
           /\ ~gaveUp' => ~gaveUp
           /\ ~overflowed' => ~overflowed
           /\ ~slipped' => ~slipped
<1>1. UNCHANGED sharers \/ \E c \in Conns : sharers' = sharers \cup {c}
  BY DEF Next, Device, Transport, AdcStep, StartStream, StopStream, BootloaderEntry, SetRate,
         DacBlock, Reconnect, Unlink, AdcStart, AdcEnds, AdcDue, AdcWoken, AdcPaced, AdcLook,
         AdcGrace, AdcProduce, AdcStopped, AdcDropped, AdcClaim, Leaves, Tick, vars, adcVars
<1>2. \/ \E c \in Conns : AdcProduce(c)
      \/ UNCHANGED <<mistimed, gaveUp>>
  BY DEF Next, Device, Transport, AdcStep, StartStream, StopStream, BootloaderEntry, SetRate,
         DacBlock, Reconnect, Unlink, AdcStart, AdcEnds, AdcDue, AdcWoken, AdcPaced, AdcLook,
         AdcGrace, AdcStopped, AdcDropped, AdcClaim, Tick, vars, streamVars
<1>3. (~mistimed' => ~mistimed) /\ (~gaveUp' => ~gaveUp)
  <2>1. ASSUME NEW c \in Conns, AdcProduce(c)
        PROVE  (~mistimed' => ~mistimed) /\ (~gaveUp' => ~gaveUp)
    <3>1. /\ mistimed' = (mistimed \/ slot[c] = 0)
          /\ gaveUp' = (gaveUp \/ (Missing > 0 /\ timer[c] = 0))
      BY <2>1, Zenon DEF AdcProduce
    <3> QED BY <3>1, Zenon
  <2> QED BY <1>2, <2>1
<1>4. \/ \E m \in 1..N : DacBlock(m)
      \/ UNCHANGED overflowed
  BY DEF Next, Device, Transport, AdcStep, StartStream, StopStream, BootloaderEntry, SetRate,
         Reconnect, Unlink, AdcStart, AdcEnds, AdcDue, AdcWoken, AdcPaced, AdcLook,
         AdcGrace, AdcProduce, AdcStopped, AdcDropped, AdcClaim, Tick, vars, streamVars
<1>5. ~overflowed' => ~overflowed
  BY <1>4 DEF DacBlock
<1>6. \/ \E c \in Conns : AdcClaim(c)
      \/ UNCHANGED slipped
  BY DEF Next, Device, Transport, AdcStep, StartStream, StopStream, BootloaderEntry, SetRate,
         DacBlock, Reconnect, Unlink, AdcStart, AdcEnds, AdcDue, AdcWoken, AdcPaced, AdcLook,
         AdcGrace, AdcProduce, AdcStopped, AdcDropped, Tick, vars, hostVars
<1>7. ~slipped' => ~slipped
  BY <1>6 DEF AdcClaim
<1>8. sharers \subseteq sharers'
  BY <1>1
<1>9. Alone' => Alone
  BY <1>8 DEF Alone
<1> QED BY <1>3, <1>5, <1>7, <1>8, <1>9

-----------------------------------------------------------------------------
(* The exactness of the loopback. *)

\* The queue holds what was fed and not returned yet, and what was returned is
\* what was fed, Latency samples late.
InStep ==
    /\ delay = Positive(Latency - Len(out))
    /\ Len(dac) = fed - Positive(Len(out) - Latency)
    /\ \A j \in 1..Len(dac) : dac[j] = Positive(Len(out) - Latency) + j
    /\ \A i \in 1..Len(out) : out[i] = Positive(i - Latency)

\* A DAC block leaves no sample missing that was there: the cap is a block or more.
LEMMA DacBlockMissing ==
    ASSUME TypeOK, NEW m \in 1..N, DacBlock(m), Missing = 0
    PROVE  Missing' = 0
<1>1. /\ N \in Nat /\ Len(dac) \in Nat /\ delay \in Nat /\ m \in Nat /\ m > 0
      /\ CapFactor * rate \in Nat /\ CapFactor * rate >= N
  BY Numbers, CapHoldsBlock
<1>2. streaming' /\ streaming /\ delay' = delay
  BY DEF DacBlock
<1>3. Surplus(m) \in Nat /\ Len(dac') = Len(dac) + m - Surplus(m)
  BY DacBlockEffect, Zenon
<1>4. Len(dac') \in Nat /\ (Len(dac') >= Len(dac) \/ Len(dac') >= N)
  <2> DEFINE c == CapFactor * rate
  <2>1. c \in Nat /\ c >= N
    BY <1>1
  <2>2. Surplus(m) = Positive(Len(dac) + m - c)
    BY DEF Surplus
  <2> HIDE DEF c, Surplus
  <2> QED BY <2>1, <2>2, <1>1, <1>3 DEF Positive
<1>5. Positive(Positive(N - delay) - Len(dac)) = 0
  BY <1>2 DEF Missing
<1>6. Positive(Positive(N - delay) - Len(dac')) = 0
  BY <1>1, <1>4, <1>5 DEF Positive
<1> QED BY <1>2, <1>6 DEF Missing

\* A DAC block that pushes nothing out keeps the loopback in step.
LEMMA DacBlockInStep ==
    ASSUME TypeOK, InStep, NEW m \in 1..N, DacBlock(m), ~overflowed'
    PROVE  InStep'
<1> DEFINE G == Positive(Len(out) - Latency)
<1>1. Len(dac) \in Nat /\ fed \in Nat /\ m \in Nat /\ Len(out) \in Nat /\ Latency \in Nat
  BY Numbers, ConstantsAssumption DEF ConstantsAssumption
<1>2. G \in Nat /\ Len(dac) = fed - G
  BY <1>1 DEF InStep, Positive
<1>3. Surplus(m) = 0
  <2>1. Surplus(m) \in Nat /\ overflowed' = (overflowed \/ Surplus(m) > 0)
    BY DacBlockEffect, Zenon
  <2> HIDE DEF Surplus
  <2>2. ~(Surplus(m) > 0)
    BY <2>1, Zenon
  <2> QED BY <2>1, <2>2
<1>4. Len(dac') = Len(dac) + m /\ fed' = fed + m
  <2>1. Len(dac') = Len(dac) + m - Surplus(m) /\ fed' = fed + m
    BY DacBlockEffect, Zenon
  <2> QED BY <1>1, <1>3, <2>1
<1>5. UNCHANGED <<out, delay>>
  BY DEF DacBlock
<1>6. \A j \in 1..Len(dac) : dac[j] = G + j
  BY DEF InStep
<1> HIDE DEF G
<1>7. \A j \in 1..Len(dac') : dac'[j] = G + j
  <2>1. \A j \in 1..Len(dac') : dac'[j] = IF j + 0 <= Len(dac) THEN dac[j + 0]
                                          ELSE fed + (j + 0 - Len(dac))
    BY DacBlockEffect, <1>3
  <2>2. ASSUME NEW j \in 1..Len(dac')
        PROVE  dac'[j] = G + j
    <3>1. j \in Nat /\ j > 0 /\ j + 0 = j
      BY <1>1, <1>4
    <3>2. dac'[j] = IF j <= Len(dac) THEN dac[j] ELSE fed + (j + 0 - Len(dac))
      BY <2>1, <3>1
    <3>3. CASE j <= Len(dac)
      BY <1>1, <1>6, <3>1, <3>2, <3>3
    <3>4. CASE ~(j <= Len(dac))
      BY <1>1, <1>2, <3>1, <3>2, <3>4
    <3> QED BY <3>3, <3>4
  <2> QED BY <2>2
<1>8. Positive(Len(out') - Latency) = G
  BY <1>5 DEF G
<1>9. Len(dac') = fed' - G
  BY <1>1, <1>2, <1>4
<1> QED BY <1>5, <1>7, <1>8, <1>9 DEF InStep

\* An ADC block that lacks no sample keeps the loopback in step.
LEMMA ProduceInStep ==
    ASSUME TypeOK, InStep, NEW c \in Conns, AdcProduce(c), Missing = 0
    PROVE  InStep'
<1> DEFINE O == Len(out)  L == Len(dac)  Q == Quiet
<1>1. /\ O \in Nat /\ L \in Nat /\ N \in Nat /\ N > 0 /\ Latency \in Nat /\ fed \in Nat
      /\ delay \in Nat
  BY Numbers, ConstantsAssumption DEF ConstantsAssumption
<1>2. Q \in 0..N /\ Used = N - Q /\ Len(out') = O + N /\ Len(dac') = Positive(L - Used)
  BY ProduceEffect, Zenon
<1>3. fed' = fed /\ delay' = Positive(delay - N)
  BY DEF AdcProduce
<1>4. delay = Positive(Latency - O) /\ L = fed - Positive(O - Latency)
  BY DEF InStep
<1>5. Q = IF delay < N THEN delay ELSE N
  BY DEF Quiet
<1>6. Used <= L
  BY <1>1 DEF Missing, AdcProduce, Used, Positive
<1>7. /\ \A i \in 1..O : out'[i] = out[i]
      /\ \A i \in 1..N : out'[O + i] = IF i <= Q \/ i - Q > L THEN 0 ELSE dac[i - Q]
      /\ \A j \in 1..Len(dac') : dac'[j] = dac[j + Used]
  BY ProduceEffect DEF Silence
<1>8. /\ \A j \in 1..L : dac[j] = Positive(O - Latency) + j
      /\ \A i \in 1..O : out[i] = Positive(i - Latency)
  BY DEF InStep
<1> HIDE DEF O, L, Q
<1>9. delay' = Positive(Latency - Len(out'))
  BY <1>1, <1>2, <1>3, <1>4 DEF Positive
<1>10. Positive(Len(out') - Latency) = Positive(O - Latency) + Used
  BY <1>1, <1>2, <1>4, <1>5 DEF Positive
<1>11. Used \in Nat /\ Len(dac') = L - Used /\ Positive(O - Latency) \in Nat
  BY <1>1, <1>2, <1>6 DEF Positive
<1>12. Len(dac') = fed' - Positive(Len(out') - Latency)
  BY <1>1, <1>3, <1>4, <1>10, <1>11
<1>13. ASSUME NEW j \in 1..Len(dac')
       PROVE  dac'[j] = Positive(Len(out') - Latency) + j
  <2>1. j + Used \in 1..L /\ j \in Nat
    BY <1>1, <1>11
  <2>2. dac'[j] = Positive(O - Latency) + (j + Used)
    BY <2>1, <1>7, <1>8
  <2> QED BY <2>1, <2>2, <1>10, <1>11
<1>14. ASSUME NEW i \in 1..Len(out')
       PROVE  out'[i] = Positive(i - Latency)
  <2>1. CASE i <= O
    BY <2>1, <1>1, <1>2, <1>7, <1>8
  <2>2. CASE i > O
    <3> DEFINE k == i - O
    <3>1. k \in 1..N /\ O + k = i /\ i \in Nat
      BY <2>2, <1>1, <1>2
    <3>2. out'[i] = IF k <= Q \/ k - Q > L THEN 0 ELSE dac[k - Q]
      BY <3>1, <1>7
    <3> HIDE DEF k
    <3>3. CASE k <= Q
      <4>1. i <= Latency
        BY <3>1, <3>3, <1>1, <1>4, <1>5 DEF Positive
      <4> QED BY <4>1, <3>1, <3>2, <3>3, <1>1 DEF Positive
    <3>4. CASE ~(k <= Q)
      <4>1. k - Q \in 1..L /\ ~(k - Q > L)
        BY <3>1, <3>4, <1>1, <1>2, <1>6
      <4>2. out'[i] = Positive(O - Latency) + (k - Q)
        BY <4>1, <3>2, <3>4, <1>8
      <4>3. Q = Positive(Latency - O)
        BY <3>1, <3>4, <1>1, <1>4, <1>5 DEF Positive
      <4> QED BY <4>2, <4>3, <3>1, <3>4, <1>1 DEF Positive
    <3> QED BY <3>3, <3>4
  <2> QED BY <2>1, <2>2, <1>1, <1>2
<1> QED BY <1>9, <1>12, <1>13, <1>14 DEF InStep

\* A lone worker produces a block of the running stream with all its samples, or at
\* its deadline.
Enough ==
    Alone /\ ~mistimed => \A c \in Conns :
        adc[c] = "produce" /\ slot[c] # 0 => Missing = 0 \/ timer[c] = 0

\* What the hosts got is what was produced, but for a block that waits for the
\* claim of its URB.
Handed ==
    /\ Len(got) <= Len(out)
    /\ \A i \in 1..Len(got) : got[i] = out[i]
    /\ (\A c \in Conns : ~(adc[c] = "claim" /\ slot[c] # 0)) => Len(got) = Len(out)
    /\ \A c \in Conns : adc[c] = "claim" /\ slot[c] # 0 =>
           /\ Len(block[c]) = N /\ Len(out) = Len(got) + N
           /\ \A i \in 1..N : block[c][i] = out[Len(got) + i]

\* What the exactness rests on: until a block meets its deadline the loopback is in
\* step, and until one slips, the host gets it all.
Exact ==
    /\ Enough
    /\ Alone /\ ~mistimed /\ ~gaveUp /\ ~overflowed => InStep
    /\ Alone /\ ~mistimed /\ ~slipped => Handed

\* Every step keeps the samples of a lone worker's block.
LEMMA EnoughStep ==
    ASSUME TypeOK, SlotInv, Enough, [Next]_vars, ~Fresh
    PROVE  Enough'
<1>1. SUFFICES ASSUME Alone', ~mistimed', NEW c \in Conns, adc'[c] = "produce", slot'[c] # 0
               PROVE  Missing' = 0 \/ timer'[c] = 0
  BY DEF Enough
<1>2. Alone /\ ~mistimed
  BY <1>1, Histories
<1>3. adc \in [Conns -> AdcStates] /\ slot \in [Conns -> 0..MaxBlocks]
      /\ timer \in [Conns -> 0..(MaxElapsed + Grace)]
  BY DEF TypeOK
<1>4. adc[c] = "produce" /\ slot[c] # 0 => Missing = 0 \/ timer[c] = 0
  BY <1>2 DEF Enough
<1>5. ASSUME NEW m \in 1..N, DacBlock(m)
      PROVE  Missing' = 0 \/ timer'[c] = 0
  <2>1. UNCHANGED <<adc, slot, timer>>
    BY <1>5 DEF DacBlock
  <2>2. Missing = 0 => Missing' = 0
    BY <1>5, DacBlockMissing
  <2> QED BY <1>1, <1>4, <2>1, <2>2
<1>6. CASE UNCHANGED <<adc, slot, timer, Missing>>
  BY <1>1, <1>4, <1>6
<1>7. CASE Tick
  <2>1. UNCHANGED <<adc, slot, Missing>> /\ timer' = [d \in Conns |-> Positive(timer[d] - 1)]
    BY <1>7 DEF Tick, Missing
  <2>2. Positive(0 - 1) = 0
    BY DEF Positive
  <2>3. timer[c] = 0 => timer'[c] = 0
    BY <2>1, <2>2
  <2> QED BY <1>1, <1>4, <2>1, <2>3
<1>8. ASSUME NEW d \in Conns,
             \/ AdcStart(d) \/ AdcDue(d) \/ AdcWoken(d) \/ AdcPaced(d) \/ AdcGrace(d)
             \/ AdcStopped(d) \/ AdcDropped(d) \/ AdcClaim(d) \/ AdcEnds(d)
      PROVE  Missing' = 0 \/ timer'[c] = 0
  <2>1. adc'[d] # "produce"
    BY <1>3, <1>8 DEF AdcStart, AdcDue, AdcWoken, AdcPaced, AdcGrace, AdcStopped, AdcDropped,
                      AdcClaim, AdcEnds, Leaves
  <2>2. c # d
    BY <1>1, <2>1
  <2>3. Missing' = Missing
    BY <1>8 DEF AdcStart, AdcDue, AdcWoken, AdcPaced, AdcGrace, AdcStopped, AdcDropped,
                AdcClaim, AdcEnds, streamVars, Missing
  <2>4. adc[c] = adc'[c] /\ slot[c] = slot'[c] /\ timer[c] = timer'[c]
    BY <1>3, <1>8, <2>2 DEF AdcStart, AdcDue, AdcWoken, AdcPaced, AdcGrace, AdcStopped,
                            AdcDropped, AdcClaim, AdcEnds, Leaves
  <2> QED BY <1>1, <1>4, <2>3, <2>4
<1>9. ASSUME NEW d \in Conns, AdcLook(d)
      PROVE  Missing' = 0 \/ timer'[c] = 0
  <2>1. UNCHANGED <<slot, timer, Missing>>
    BY <1>9 DEF AdcLook, streamVars, Missing
  <2>2. CASE c = d
    BY <1>1, <1>3, <1>9, <2>1, <2>2 DEF AdcLook
  <2>3. CASE c # d
    BY <1>1, <1>3, <1>4, <1>9, <2>1, <2>3 DEF AdcLook
  <2> QED BY <2>2, <2>3
<1>10. ASSUME NEW d \in Conns, AdcProduce(d)
       PROVE  Missing' = 0 \/ timer'[c] = 0
  <2>1. slot' = slot /\ adc' = [adc EXCEPT ![d] = "claim"] /\ slot[d] # 0
    BY <1>1, <1>10 DEF AdcProduce
  <2>2. c = d
    BY <1>1, <1>2, <1>10, <2>1, OneAlone
  <2> QED BY <1>1, <1>3, <2>1, <2>2
<1> QED BY <1>5, <1>6, <1>7, <1>8, <1>9, <1>10
        DEF Next, Device, Transport, AdcStep, StartStream, StopStream, BootloaderEntry,
            SetRate, Reconnect, Unlink, Missing, vars, streamVars, adcVars

\* Every step keeps the loopback in step, or breaks one of the conditions.
LEMMA InStepStep ==
    ASSUME TypeOK, SlotInv, Exact, [Next]_vars, ~Fresh
    PROVE  Alone' /\ ~mistimed' /\ ~gaveUp' /\ ~overflowed' => InStep'
<1>1. SUFFICES ASSUME Alone', ~mistimed', ~gaveUp', ~overflowed'
               PROVE  InStep'
  OBVIOUS
<1>2. Alone /\ ~mistimed /\ InStep
  <2>1. Alone /\ ~mistimed /\ ~gaveUp /\ ~overflowed
    BY <1>1, Histories
  <2> QED BY <2>1 DEF Exact
<1>3. ASSUME NEW m \in 1..N, DacBlock(m) PROVE InStep'
  BY <1>1, <1>2, <1>3, DacBlockInStep
<1>4. ASSUME NEW c \in Conns, AdcProduce(c) PROVE InStep'
  <2>1. slot[c] # 0 /\ adc[c] = "produce" /\ streaming
    BY <1>1, <1>4 DEF AdcProduce
  <2>2. Missing \in Nat
    BY <2>1, Numbers DEF Missing, Positive
  <2>3. ~(Missing > 0 /\ timer[c] = 0)
    BY <1>1, <1>4 DEF AdcProduce
  <2>4. Missing = 0 \/ timer[c] = 0
    BY <1>2, <2>1 DEF Exact, Enough
  <2>5. Missing = 0
    BY <2>2, <2>3, <2>4
  <2> QED BY <1>2, <1>4, <2>5, ProduceInStep
<1>5. CASE UNCHANGED <<dac, out, fed, delay, overflowed>>
  BY <1>2, <1>5 DEF InStep
<1> QED BY <1>3, <1>4, <1>5, SampleSteps

\* A block that was produced is handed to the host whose URB it was for.
LEMMA HandedStep ==
    ASSUME TypeOK, SlotInv, Exact, [Next]_vars, ~Fresh
    PROVE  Alone' /\ ~mistimed' /\ ~slipped' => Handed'
<1>1. SUFFICES ASSUME Alone', ~mistimed', ~slipped'
               PROVE  Handed'
  OBVIOUS
<1>2. Alone /\ ~mistimed /\ Handed
  <2>1. Alone /\ ~mistimed /\ ~slipped
    BY <1>1, Histories
  <2> QED BY <2>1 DEF Exact
<1>3. /\ adc \in [Conns -> AdcStates] /\ slot \in [Conns -> 0..MaxBlocks]
      /\ block \in [Conns -> Seq(0..MaxFed)]
      /\ out \in Seq(0..MaxFed) /\ got \in Seq(0..MaxFed)
      /\ Len(out) \in Nat /\ Len(got) \in Nat /\ N \in Nat /\ N > 0
  BY Numbers DEF TypeOK
<1> DEFINE Claims(c) == adc[c] = "claim" /\ slot[c] # 0
           HandedTo(c) == /\ Len(block[c]) = N /\ Len(out) = Len(got) + N
                          /\ \A i \in 1..N : block[c][i] = out[Len(got) + i]
<1>4. ASSUME UNCHANGED <<out, got>>,
             \A c \in Conns : /\ Claims(c)' <=> Claims(c)
                              /\ Claims(c) => block'[c] = block[c]
      PROVE  Handed'
  <2>1. \A c \in Conns : Claims(c)' => HandedTo(c)'
    BY <1>2, <1>4 DEF Handed
  <2>2. (\A c \in Conns : ~Claims(c)') => Len(got') = Len(out')
    BY <1>2, <1>4 DEF Handed
  <2>3. Len(got') <= Len(out') /\ \A i \in 1..Len(got') : got'[i] = out'[i]
    BY <1>2, <1>4 DEF Handed
  <2> HIDE DEF HandedTo
  <2> QED BY <2>1, <2>2, <2>3 DEF Handed, HandedTo
<1>5. CASE UNCHANGED <<out, got, adc, slot, block>>
  BY <1>4, <1>5
<1>6. ASSUME NEW c \in Conns,
             \/ AdcStart(c) \/ AdcDue(c) \/ AdcWoken(c) \/ AdcPaced(c) \/ AdcLook(c)
             \/ AdcGrace(c) \/ AdcStopped(c) \/ AdcDropped(c) \/ AdcEnds(c)
      PROVE  Handed'
  <2>1. /\ adc[c] # "claim"
        /\ \E place : place # "claim" /\ adc' = [adc EXCEPT ![c] = place]
    BY <1>6 DEF AdcStart, AdcDue, AdcWoken, AdcPaced, AdcLook, AdcGrace, AdcStopped,
                AdcDropped, AdcEnds, Awaits, Leaves
  <2>2. \A d \in Conns : d # c => slot'[d] = slot[d] /\ block'[d] = block[d]
    BY <1>3, <1>6 DEF AdcStart, AdcDue, AdcWoken, AdcPaced, AdcLook, AdcGrace, AdcStopped,
                AdcDropped, AdcEnds, Leaves
  <2>3. UNCHANGED <<out, got>>
    BY <1>6 DEF AdcStart, AdcDue, AdcWoken, AdcPaced, AdcLook, AdcGrace, AdcStopped,
                AdcDropped, AdcEnds, streamVars, hostVars
  <2>4. ASSUME NEW d \in Conns
        PROVE  /\ Claims(d)' <=> Claims(d)
               /\ Claims(d) => block'[d] = block[d]
    BY <1>3, <2>1, <2>2
  <2> QED BY <1>4, <2>3, <2>4
<1>7. ASSUME NEW c \in Conns, AdcProduce(c)
      PROVE  Handed'
  <2>1. /\ slot[c] # 0 /\ adc[c] = "produce" /\ slot' = slot /\ got' = got
        /\ adc' = [adc EXCEPT ![c] = "claim"] /\ block' = [block EXCEPT ![c] = Block]
    BY <1>1, <1>7 DEF AdcProduce, hostVars
  <2>2. \A d \in Conns : slot[d] # 0 => d = c
    BY <1>2, <2>1, OneAlone
  <2>3. Len(got) = Len(out)
    BY <1>2, <2>1, <2>2 DEF Handed
  <2>4. /\ Len(out') = Len(out) + N /\ Len(Block) = N
        /\ \A i \in 1..Len(out) : out'[i] = out[i]
        /\ \A i \in 1..N : out'[Len(out) + i] = Block[i]
    BY <1>7, ProduceEffect, Zenon
  <2>5. block'[c] = Block /\ Claims(c)'
    BY <1>3, <2>1
  <2>6. \A d \in Conns : Claims(d)' => d = c
    BY <2>1, <2>2
  <2>7. HandedTo(c)'
    BY <2>1, <2>3, <2>4, <2>5
  <2>8. Len(got') <= Len(out') /\ \A i \in 1..Len(got') : got'[i] = out'[i]
    <3>1. \A i \in 1..Len(got) : got[i] = out[i]
      BY <1>2 DEF Handed
    <3>2. Len(got') = Len(out) /\ got' = got
      BY <2>1, <2>3
    <3>3. \A i \in 1..Len(out) : got'[i] = out'[i]
      BY <2>3, <2>4, <3>1, <3>2
    <3>4. Len(out) <= Len(out')
      BY <1>3, <2>4
    <3> QED BY <3>2, <3>3, <3>4
  <2>9. \A d \in Conns : Claims(d)' => HandedTo(d)'
    <3> HIDE DEF HandedTo, Claims
    <3> QED BY <2>6, <2>7
  <2>10. (\A d \in Conns : ~Claims(d)') => Len(got') = Len(out')
    BY <2>5
  <2> HIDE DEF HandedTo
  <2> QED BY <2>8, <2>9, <2>10 DEF Handed, HandedTo
<1>8. ASSUME NEW c \in Conns, AdcClaim(c)
      PROVE  Handed'
  <2>1. /\ adc[c] = "claim" /\ (linked[c] <=> slot[c] # 0) /\ out' = out
        /\ got' = IF linked[c] THEN got \o block[c] ELSE got
        /\ adc' = [adc EXCEPT ![c] = "idle"] /\ slot' = [slot EXCEPT ![c] = 0]
        /\ block' = [block EXCEPT ![c] = << >>]
    BY <1>1, <1>8 DEF AdcClaim, Leaves, streamVars
  <2>2. CASE slot[c] = 0
    <3>1. got' = got
      BY <2>1, <2>2
    <3>2. ASSUME NEW d \in Conns
          PROVE  /\ Claims(d)' <=> Claims(d)
                 /\ Claims(d) => block'[d] = block[d]
      BY <1>3, <2>1, <2>2
    <3> QED BY <1>4, <2>1, <3>1, <3>2
  <2>3. CASE slot[c] # 0
    <3>1. got' = got \o block[c] /\ HandedTo(c)
      BY <1>2, <2>1, <2>3 DEF Handed
    <3>2. block[c] \in Seq(0..MaxFed)
      BY <1>3
    <3>3. /\ Len(got') = Len(got) + N
          /\ \A i \in 1..(Len(got) + N) : got'[i] = IF i <= Len(got) THEN got[i]
                                                    ELSE block[c][i - Len(got)]
      BY <1>3, <3>1, <3>2, ConcatProperties
    <3>4. \A i \in 1..Len(got) : got[i] = out[i]
      BY <1>2 DEF Handed
    <3>5. \A i \in 1..(Len(got) + N) : got'[i] = out[i]
      <4>1. \A i \in 1..N : block[c][i] = out[Len(got) + i]
        BY <3>1
      <4>2. ASSUME NEW i \in 1..(Len(got) + N), i > Len(got)
            PROVE  got'[i] = out[i]
        <5>1. i - Len(got) \in 1..N /\ Len(got) + (i - Len(got)) = i
          BY <1>3, <4>2
        <5>2. ~(i <= Len(got))
          BY <1>3, <4>2
        <5>3. got'[i] = block[c][i - Len(got)]
          BY <3>3, <5>2
        <5> QED BY <4>1, <5>1, <5>3
      <4>3. ASSUME NEW i \in 1..(Len(got) + N), i <= Len(got)
            PROVE  got'[i] = out[i]
        <5>1. i \in 1..Len(got)
          BY <1>3, <4>3
        <5> QED BY <3>3, <3>4, <4>3, <5>1
      <4> QED BY <1>3, <4>2, <4>3
    <3>6. Len(out') = Len(got') /\ \A i \in 1..Len(got') : got'[i] = out'[i]
      <4>1. Len(out) = Len(got) + N
        BY <3>1
      <4> QED BY <2>1, <3>3, <3>5, <4>1
    <3>7. \A d \in Conns : slot[d] # 0 => d = c
      BY <1>2, <2>3, OneAlone
    <3>8. \A d \in Conns : ~(adc'[d] = "claim" /\ slot'[d] # 0)
      BY <1>3, <2>1, <3>7
    <3>9. Len(got') <= Len(out')
      BY <1>3, <3>3, <3>6
    <3> QED BY <3>6, <3>8, <3>9 DEF Handed
  <2> QED BY <2>2, <2>3
<1>9. \/ UNCHANGED <<out, got, adc, slot, block>>
      \/ \E c \in Conns :
            \/ AdcStart(c) \/ AdcDue(c) \/ AdcWoken(c) \/ AdcPaced(c) \/ AdcLook(c)
            \/ AdcGrace(c) \/ AdcStopped(c) \/ AdcDropped(c) \/ AdcEnds(c)
            \/ AdcProduce(c) \/ AdcClaim(c)
  BY DEF Next, Device, Transport, AdcStep, StartStream, StopStream, BootloaderEntry, SetRate,
         DacBlock, Reconnect, Unlink, Tick, vars, streamVars, adcVars, hostVars
<1> QED BY <1>5, <1>6, <1>7, <1>8, <1>9

\* The latency of a stream that returned nothing yet.
LEMMA NothingYet ==
    ASSUME NEW x \in Nat
    PROVE  Positive(x - 0) = x /\ 0 - Positive(0 - x) = 0
<1>1. x - 0 = x /\ ~(0 - x > 0) /\ 0 - 0 = 0
  OBVIOUS
<1>2. Positive(x - 0) = x
  BY <1>1 DEF Positive
<1>3. Positive(0 - x) = 0
  BY <1>1, Zenon DEF Positive
<1> QED BY <1>1, <1>2, <1>3

\* A stream that has just started, or is gone, is in step.
LEMMA StartsInStep ==
    ASSUME Len(dac) = 0, Len(out) = 0, Len(got) = 0, fed = 0, delay = Latency,
           \A c \in Conns : slot[c] = 0
    PROVE  Exact
<1>1. Latency \in Nat
  BY ConstantsAssumption DEF ConstantsAssumption
<1>2. Positive(Latency - 0) = Latency /\ 0 - Positive(0 - Latency) = 0
  BY <1>1, NothingYet
<1>3. 1..0 = {}
  OBVIOUS
<1>4. InStep
  BY <1>2, <1>3, Zenon DEF InStep
<1>5. Handed
  BY DEF Handed
<1> QED BY <1>4, <1>5 DEF Exact, Enough

\* Every step keeps the loopback exact.
LEMMA ExactStep ==
    ASSUME TypeOK, SlotInv, Exact, [Next]_vars
    PROVE  Exact'
<1>1. CASE Fresh
  <2>1. /\ Len(dac') = 0 /\ Len(out') = 0 /\ Len(got') = 0 /\ fed' = 0 /\ delay' = Latency
        /\ \A c \in Conns : slot'[c] = 0
    BY <1>1 DEF Fresh
  <2>2. (/\ Len(dac) = 0 /\ Len(out) = 0 /\ Len(got) = 0 /\ fed = 0 /\ delay = Latency
         /\ \A c \in Conns : slot[c] = 0)' => Exact'
    BY StartsInStep, PTL
  <2> QED BY <2>1, <2>2
<1>2. CASE ~Fresh
  BY <1>2, EnoughStep, InStepStep, HandedStep DEF Exact
<1> QED BY <1>1, <1>2

\* What is known of the places holds in every state.
LEMMA SlotInvAlways == Spec => []SlotInv
<1>1. Init => SlotInv
  BY DEF Init, SlotInv
<1>2. TypeOK /\ SlotInv /\ [Next]_vars => SlotInv'
  BY SlotStep
<1> QED BY <1>1, <1>2, TypeCorrect, PTL DEF Spec

\* The hosts get back exactly what they fed, Latency samples late, from a stream
\* that one worker reads, as long as the queue never overflows, no block runs out of
\* its grace or outlives the stream it was timed for, and none is lost to an UNLINK:
\* that the queue fills after the block was timed, in another task, costs no sample.
THEOREM LoopsBackExactly == Spec => []LoopbackExact
<1>1. Init => Exact
  <2>1. SUFFICES ASSUME Init PROVE Exact
    OBVIOUS
  <2>2. /\ Len(dac) = 0 /\ Len(out) = 0 /\ Len(got) = 0 /\ fed = 0 /\ delay = Latency
        /\ \A c \in Conns : slot[c] = 0
    BY <2>1 DEF Init
  <2> QED BY <2>2, StartsInStep
<1>2. TypeOK /\ SlotInv /\ Exact /\ [Next]_vars => Exact'
  BY ExactStep
<1>3. TypeOK /\ Exact => LoopbackExact
  <2>1. SUFFICES ASSUME TypeOK, InStep, Handed, NEW i \in 1..Len(got)
                 PROVE  got[i] = Positive(i - Latency)
    BY DEF Exact, LoopbackExact
  <2>2. i \in 1..Len(out)
    <3>1. Len(got) \in Nat /\ Len(out) \in Nat /\ Len(got) <= Len(out)
      BY <2>1 DEF TypeOK, Handed
    <3> QED BY <3>1
  <2> QED BY <2>1, <2>2 DEF InStep, Handed
<1> QED BY <1>1, <1>2, <1>3, TypeCorrect, SlotInvAlways, PTL DEF Spec
-----------------------------------------------------------------------------
(* The pace. *)

\* A block timed for the running stream is due when its sleep ends, and a block
\* past its sleep is due.
DueInTime(c) ==
    realtime /\ steady /\ slot[c] # 0 =>
        /\ adc[c] = "pacing" => slot[c] * BlockTicks(rate) <= elapsed + timer[c]
        /\ adc[c] \in {"look", "grace", "produce"} => slot[c] * BlockTicks(rate) <= elapsed

\* The workers with a block under way that was timed for one of the first m places.
Early(m) == {c \in Conns : adc[c] \in Pending /\ slot[c] \in 1..m}

\* While the clock allows m blocks, no more are out than the workers that share the
\* stream, but one, can have added; those with an early block under way may still
\* add theirs.
Ahead ==
    realtime /\ streaming /\ steady /\ ~mistimed /\ sharers # {} =>
        \A m \in Nat : m <= emitted /\ elapsed < (m + 1) * BlockTicks(rate) =>
            emitted + Cardinality(Early(m)) + 1 <= m + Cardinality(sharers)

\* What the pace rests on.
OnTime ==
    /\ emitted > 0 /\ ~mistimed => sharers # {}
    /\ \A c \in Conns : DueInTime(c)
    /\ Ahead

\* The numbers of the pace.
ClockTypes ==
    /\ elapsed \in Nat /\ emitted \in Nat /\ BlockTicks(rate) \in Nat
    /\ elapsed <= MaxElapsed /\ MaxElapsed \in Nat
    /\ \A c \in Conns : /\ timer[c] \in Nat /\ slot[c] \in Nat
                        /\ slot[c] * BlockTicks(rate) \in 0..MaxElapsed
    /\ IsFiniteSet(sharers) /\ Cardinality(sharers) \in Nat
    /\ \A m \in Nat : Early(m) \in SUBSET Conns /\ Cardinality(Early(m)) \in Nat

\* They follow from the types.
LEMMA Clocks == TypeOK => ClockTypes
<1> SUFFICES ASSUME TypeOK PROVE ClockTypes
  OBVIOUS
<1>1. MaxElapsed \in Nat /\ MaxBlocks \in Nat /\ Grace \in Nat
  BY ConstantsAssumption DEF MaxElapsed, ConstantsAssumption
<1>2. /\ elapsed \in 0..MaxElapsed /\ timer \in [Conns -> 0..(MaxElapsed + Grace)]
      /\ emitted \in 0..MaxBlocks /\ rate \in Rates /\ slot \in [Conns -> 0..MaxBlocks]
      /\ sharers \in SUBSET Conns
  BY DEF TypeOK
<1> HIDE DEF MaxElapsed
<1>3. BlockTicks(rate) \in Nat
  BY <1>2, BlockTicksType
<1>4. \A c \in Conns : slot[c] * BlockTicks(rate) \in 0..MaxElapsed
  <2>1. \A c \in Conns : slot[c] \in 0..MaxBlocks
    BY <1>2
  <2> QED BY <1>2, <2>1, DueInBounds
<1>5. \A c \in Conns : timer[c] \in Nat /\ slot[c] \in Nat
  BY <1>1, <1>2
<1>6. \A m \in Nat : Early(m) \in SUBSET Conns
  BY DEF Early
<1>7. \A m \in Nat : Cardinality(Early(m)) \in Nat
  BY <1>6, FiniteConns
<1>8. IsFiniteSet(sharers) /\ Cardinality(sharers) \in Nat
  BY <1>2, FiniteConns
<1>9. elapsed \in Nat /\ emitted \in Nat /\ elapsed <= MaxElapsed
  BY <1>1, <1>2
<1> QED BY <1>1, <1>3, <1>4, <1>5, <1>6, <1>7, <1>8, <1>9 DEF ClockTypes

\* Every step keeps the blocks under way in time.
LEMMA DueStep ==
    ASSUME TypeOK, SlotInv, [Next]_vars, NEW c \in Conns, DueInTime(c)
    PROVE  DueInTime(c)'
<1> DEFINE Due == slot[c] * BlockTicks(rate)
<1>1. /\ elapsed \in Nat /\ emitted \in Nat /\ BlockTicks(rate) \in Nat
      /\ elapsed <= MaxElapsed /\ MaxElapsed \in Nat
      /\ timer[c] \in Nat /\ slot[c] \in Nat /\ Due \in 0..MaxElapsed
  BY Clocks DEF ClockTypes
<1>2. /\ adc \in [Conns -> AdcStates] /\ slot \in [Conns -> 0..MaxBlocks]
      /\ timer \in [Conns -> 0..(MaxElapsed + Grace)]
  BY DEF TypeOK
<1>3. realtime /\ steady /\ slot[c] # 0 =>
          /\ adc[c] = "pacing" => Due <= elapsed + timer[c]
          /\ adc[c] \in {"look", "grace", "produce"} => Due <= elapsed
  BY DEF DueInTime
<1>4. UNCHANGED <<slot, rate>> => Due' = Due
  BY DEF BlockTicks
<1>5. CASE Fresh
  BY <1>5 DEF Fresh, DueInTime
<1>6. ASSUME NEW r \in Rates, SetRate(r) PROVE DueInTime(c)'
  <2>1. UNCHANGED <<realtime, streaming, elapsed, adc, timer, slot>>
    BY <1>6 DEF SetRate, adcVars
  <2>2. slot[c] # 0 => streaming
    BY DEF SlotInv
  <2>3. streaming /\ steady' => steady /\ rate' = rate
    BY <1>6 DEF SetRate
  <2>4. CASE slot[c] # 0 /\ steady'
    BY <1>3, <1>4, <2>1, <2>2, <2>3, <2>4 DEF DueInTime
  <2> QED BY <2>1, <2>4 DEF DueInTime
<1>7. ASSUME UNCHANGED <<realtime, rate, steady, elapsed>>,
             adc'[c] = adc[c], slot'[c] = slot[c], timer'[c] = timer[c]
      PROVE  DueInTime(c)'
  BY <1>7 DEF DueInTime, BlockTicks
<1>8. CASE UNCHANGED <<realtime, rate, steady, elapsed, adc, slot, timer>>
  BY <1>7, <1>8
<1>9. CASE Tick
  <2>1. /\ UNCHANGED <<realtime, rate, streaming, steady, adc, slot>>
        /\ elapsed' = (IF streaming /\ elapsed < MaxElapsed THEN elapsed + 1 ELSE elapsed)
        /\ timer'[c] = Positive(timer[c] - 1)
    BY <1>9 DEF Tick
  <2>2. slot[c] # 0 => streaming
    BY DEF SlotInv
  <2>3. Due' = Due
    BY <1>4, <2>1
  <2> HIDE DEF Due
  <2>4. slot[c] # 0 /\ Due <= elapsed + timer[c] => Due <= elapsed' + timer'[c]
    BY <1>1, <2>1, <2>2 DEF Positive
  <2>5. Due <= elapsed => Due <= elapsed'
    BY <1>1, <2>1
  <2>6. realtime' /\ steady' /\ slot'[c] # 0 =>
            /\ adc'[c] = "pacing" => Due' <= elapsed' + timer'[c]
            /\ adc'[c] \in {"look", "grace", "produce"} => Due' <= elapsed'
    BY <1>3, <2>1, <2>3, <2>4, <2>5
  <2> QED BY <2>6 DEF DueInTime, Due
<1>10. ASSUME NEW d \in Conns, d # c,
              \/ AdcStart(d) \/ AdcDue(d) \/ AdcWoken(d) \/ AdcPaced(d) \/ AdcLook(d)
              \/ AdcGrace(d) \/ AdcProduce(d) \/ AdcStopped(d) \/ AdcDropped(d)
              \/ AdcClaim(d) \/ AdcEnds(d)
       PROVE  DueInTime(c)'
  <2>1. UNCHANGED <<realtime, rate, steady, elapsed>>
    BY <1>10 DEF AdcStart, AdcDue, AdcWoken, AdcPaced, AdcLook, AdcGrace, AdcProduce,
                 AdcStopped, AdcDropped, AdcClaim, AdcEnds, streamVars
  <2>2. adc'[c] = adc[c] /\ slot'[c] = slot[c] /\ timer'[c] = timer[c]
    BY <1>2, <1>10 DEF AdcStart, AdcDue, AdcWoken, AdcPaced, AdcLook, AdcGrace, AdcProduce,
                 AdcStopped, AdcDropped, AdcClaim, AdcEnds, Leaves
  <2> QED BY <1>7, <2>1, <2>2
<1>11. CASE \/ AdcStart(c) \/ AdcWoken(c) \/ AdcProduce(c) \/ AdcStopped(c) \/ AdcDropped(c)
            \/ AdcClaim(c) \/ AdcEnds(c)
  <2>1. adc'[c] \in {"due", "claim", "idle", "ended"}
    BY <1>2, <1>11 DEF AdcStart, AdcWoken, AdcProduce, AdcStopped, AdcDropped, AdcClaim,
                       AdcEnds, Leaves
  <2> QED BY <2>1 DEF DueInTime
<1>12. CASE AdcDue(c)
  <2>1. CASE ~streaming
    <3>1. adc'[c] = "wait_start"
      BY <1>2, <1>12, <2>1 DEF AdcDue
    <3> QED BY <3>1 DEF DueInTime
  <2>2. CASE streaming /\ realtime
    <3>1. /\ adc'[c] = "pacing" /\ slot'[c] = emitted + 1 /\ timer'[c] = DueIn
          /\ elapsed' = elapsed /\ rate' = rate
      BY <1>2, <1>12, <2>2 DEF AdcDue, streamVars
    <3>2. (emitted + 1) * BlockTicks(rate) <= elapsed + DueIn
      <4> DEFINE x == (emitted + 1) * BlockTicks(rate)
      <4>1. x \in Nat
        BY <1>1
      <4>2. DueIn = Positive(x - elapsed)
        BY DEF DueIn
      <4> HIDE DEF x
      <4>3. x <= elapsed + DueIn
        BY <1>1, <4>1, <4>2 DEF Positive
      <4> QED BY <4>3 DEF x
    <3>3. (slot[c] * BlockTicks(rate))' = (emitted + 1) * BlockTicks(rate)
      BY <3>1 DEF BlockTicks
    <3>4. (slot[c] * BlockTicks(rate) <= elapsed + timer[c])'
      BY <3>1, <3>2, <3>3
    <3> QED BY <3>1, <3>4 DEF DueInTime
  <2>3. CASE ~realtime
    BY <1>12, <2>3 DEF AdcDue, DueInTime
  <2> QED BY <2>1, <2>2, <2>3
<1>13. CASE AdcPaced(c) \/ AdcLook(c) \/ AdcGrace(c)
  <2>1. /\ UNCHANGED <<realtime, rate, steady, elapsed, slot>>
        /\ adc'[c] \in {"look", "grace", "produce"}
        /\ \/ adc[c] = "pacing" /\ timer[c] = 0
           \/ adc[c] \in {"look", "grace", "produce"}
    BY <1>2, <1>13 DEF AdcPaced, AdcLook, AdcGrace, streamVars
  <2>2. Due' = Due
    BY <1>4, <2>1
  <2> HIDE DEF Due
  <2>3. realtime /\ steady /\ slot[c] # 0 => Due <= elapsed
    BY <1>1, <1>3, <2>1
  <2>4. realtime' /\ steady' /\ slot'[c] # 0 => Due' <= elapsed'
    BY <2>1, <2>2, <2>3
  <2> QED BY <2>1, <2>4 DEF DueInTime, Due
<1>14. \/ Fresh
       \/ \E r \in Rates : SetRate(r)
       \/ UNCHANGED <<realtime, rate, steady, elapsed, adc, slot, timer>>
       \/ Tick
       \/ \E d \in Conns :
              \/ AdcStart(d) \/ AdcDue(d) \/ AdcWoken(d) \/ AdcPaced(d) \/ AdcLook(d)
              \/ AdcGrace(d) \/ AdcProduce(d) \/ AdcStopped(d) \/ AdcDropped(d)
              \/ AdcClaim(d) \/ AdcEnds(d)
  BY DEF Next, Device, Transport, AdcStep, StartStream, StopStream, BootloaderEntry,
         DacBlock, Reconnect, Unlink, vars, streamVars, adcVars
<1> QED BY <1>5, <1>6, <1>8, <1>9, <1>10, <1>11, <1>12, <1>13, <1>14

\* A step that takes no block leaves no more workers with an early one under way.
LEMMA EarlyStep ==
    ASSUME TypeOK, SlotInv, [Next]_vars, ~Fresh, NEW m \in Nat, m <= emitted
    PROVE  Early(m)' \subseteq Early(m)
<1>1. /\ adc \in [Conns -> AdcStates] /\ slot \in [Conns -> 0..MaxBlocks] /\ emitted \in Nat
  BY Clocks DEF TypeOK, ClockTypes
<1>2. CASE UNCHANGED <<adc, slot>>
  BY <1>2 DEF Early
<1>3. ASSUME NEW c \in Conns,
             \/ AdcStart(c) \/ AdcWoken(c) \/ AdcPaced(c) \/ AdcLook(c) \/ AdcGrace(c)
             \/ AdcProduce(c) \/ AdcStopped(c)
      PROVE  Early(m)' \subseteq Early(m)
  <2>1. /\ slot' = slot
        /\ \E place : /\ adc' = [adc EXCEPT ![c] = place]
                      /\ adc[c] \in Pending \/ place \notin Pending
    BY <1>3 DEF AdcStart, AdcWoken, AdcPaced, AdcLook, AdcGrace, AdcProduce, AdcStopped, Pending
  <2> QED BY <1>1, <2>1 DEF Early
<1>4. ASSUME NEW c \in Conns, AdcDue(c)
      PROVE  Early(m)' \subseteq Early(m)
  <2>1. \/ /\ slot' = slot
           /\ adc' = [adc EXCEPT ![c] = "wait_start"]
        \/ /\ slot' = [slot EXCEPT ![c] = emitted + 1]
           /\ adc' = [adc EXCEPT ![c] = "pacing"]
    BY <1>4 DEF AdcDue
  <2>2. emitted + 1 \notin 1..m
    BY <1>1
  <2> QED BY <1>1, <2>1, <2>2 DEF Early, Pending
<1>5. ASSUME NEW c \in Conns, AdcDropped(c) \/ AdcClaim(c) \/ AdcEnds(c)
      PROVE  Early(m)' \subseteq Early(m)
  <2>1. /\ slot' = [slot EXCEPT ![c] = 0]
        /\ \E place : place \notin Pending /\ adc' = [adc EXCEPT ![c] = place]
    BY <1>5 DEF AdcDropped, AdcClaim, AdcEnds, Leaves, Pending
  <2> QED BY <1>1, <2>1 DEF Early
<1> QED BY <1>2, <1>3, <1>4, <1>5
        DEF Next, Device, Transport, AdcStep, StartStream, StopStream, BootloaderEntry,
            SetRate, DacBlock, Reconnect, Unlink, Tick, vars, adcVars

\* Every step leaves the stream no further ahead than its sharers can bring it.
LEMMA AheadStep ==
    ASSUME TypeInv, SlotInv, OnTime, [Next]_vars, ~Fresh
    PROVE  Ahead'
<1> DEFINE B == BlockTicks(rate)
<1>1. SUFFICES ASSUME realtime', streaming', steady', ~mistimed', sharers' # {},
                      NEW m \in Nat, m <= emitted', elapsed' < (m + 1) * B'
               PROVE  emitted' + Cardinality(Early(m)') + 1 <= m + Cardinality(sharers')
  BY DEF Ahead
<1>2. TypeOK /\ TypeOK'
  BY TypeInvStep DEF TypeInv
<1>3. /\ elapsed \in Nat /\ emitted \in Nat /\ B \in Nat /\ elapsed' \in Nat
      /\ emitted' \in Nat /\ B' \in Nat
      /\ IsFiniteSet(sharers) /\ Cardinality(sharers) \in Nat
      /\ IsFiniteSet(sharers') /\ Cardinality(sharers') \in Nat
      /\ Early(m) \in SUBSET Conns /\ Cardinality(Early(m)) \in Nat
      /\ Early(m)' \in SUBSET Conns /\ Cardinality(Early(m)') \in Nat
  <2>1. ClockTypes
    BY <1>2, Clocks
  <2>2. ClockTypes'
    BY <1>2, Clocks, PTL
  <2> QED BY <2>1, <2>2 DEF ClockTypes
<1>4. /\ ~mistimed /\ sharers \subseteq sharers'
      /\ streaming /\ steady /\ realtime /\ B' = B
  <2>1. ~mistimed /\ sharers \subseteq sharers'
    BY <1>1, Histories
  <2>2. UNCHANGED <<realtime, rate, steady, streaming>> \/ \E r \in Rates : SetRate(r)
    BY DEF Next, Device, Transport, AdcStep, StartStream, StopStream, BootloaderEntry,
           DacBlock, Reconnect, Unlink, AdcStart, AdcEnds, AdcDue, AdcWoken, AdcPaced, AdcLook,
           AdcGrace, AdcProduce, AdcStopped, AdcDropped, AdcClaim, Tick, vars, streamVars
  <2>3. UNCHANGED <<realtime, streaming>> /\ steady /\ rate' = rate
    BY <1>1, <2>2 DEF SetRate
  <2> QED BY <1>1, <2>1, <2>3 DEF BlockTicks
<1>5. elapsed <= elapsed'
  <2>1. Tick \/ UNCHANGED elapsed
    BY DEF Next, Device, Transport, AdcStep, StartStream, StopStream, BootloaderEntry, SetRate,
           DacBlock, Reconnect, Unlink, AdcStart, AdcEnds, AdcDue, AdcWoken, AdcPaced, AdcLook,
           AdcGrace, AdcProduce, AdcStopped, AdcDropped, AdcClaim, vars, streamVars
  <2> QED BY <1>3, <2>1 DEF Tick
<1>6. Cardinality(sharers) <= Cardinality(sharers')
  BY <1>3, <1>4, FS_Subset
<1>7. (m + 1) * B \in Nat /\ elapsed < (m + 1) * B
  BY <1>1, <1>3, <1>4, <1>5
<1>8. sharers # {} /\ m <= emitted => emitted + Cardinality(Early(m)) + 1 <= m + Cardinality(sharers)
  BY <1>4, <1>7 DEF OnTime, Ahead
<1> HIDE DEF B
<1>9. CASE UNCHANGED emitted
  <2>1. IsFiniteSet(Early(m)) /\ Early(m)' \subseteq Early(m)
    BY <1>1, <1>2, <1>3, <1>9, EarlyStep, FiniteConns
  <2>2. Cardinality(Early(m)') <= Cardinality(Early(m))
    BY <2>1, FS_Subset
  <2>3. CASE sharers # {}
    BY <1>1, <1>3, <1>6, <1>8, <1>9, <2>2, <2>3
  <2>4. CASE sharers = {}
    <3>1. emitted = 0 /\ m = 0
      BY <1>1, <1>3, <1>4, <1>9, <2>4 DEF OnTime
    <3>2. Early(m)' = {}
      BY <3>1 DEF Early
    <3>3. Cardinality(Early(m)') = 0
      BY <3>2, FS_EmptySet
    <3>4. Cardinality(sharers') # 0
      BY <1>1, <1>3, FS_EmptySet
    <3> QED BY <1>3, <1>9, <3>1, <3>3, <3>4
  <2> QED BY <2>3, <2>4
<1>10. ASSUME NEW c \in Conns, AdcProduce(c)
       PROVE  emitted' + Cardinality(Early(m)') + 1 <= m + Cardinality(sharers')
  <2>1. /\ emitted' = emitted + 1 /\ slot' = slot /\ sharers' = sharers /\ slot[c] # 0
        /\ adc[c] = "produce" /\ adc' = [adc EXCEPT ![c] = "claim"]
    BY <1>1, <1>10 DEF AdcProduce
  <2>2. c \in sharers
    BY <2>1 DEF SlotInv
  <2>3. Early(m)' = Early(m) \ {c}
    BY <1>2, <2>1 DEF Early, TypeOK, Pending
  <2>4. CASE m <= emitted
    <3>1. slot[c] * B <= elapsed /\ slot[c] \in Nat
      BY <1>2, <1>4, <2>1, Clocks DEF OnTime, DueInTime, B, ClockTypes
    <3>2. slot[c] \in 1..m
      <4>1. \A s, b, e, k \in Nat : s * b <= e /\ e < (k + 1) * b => s <= k
        <5>1. SUFFICES ASSUME NEW s \in Nat, NEW b \in Nat, NEW e \in Nat, NEW k \in Nat,
                              s * b <= e, e < (k + 1) * b, ~(s <= k)
                       PROVE  FALSE
          OBVIOUS
        <5>2. (k + 1) * b <= s * b
          BY <5>1, ProductGrows
        <5> QED BY <5>1, <5>2
      <4> QED BY <1>3, <1>7, <2>1, <3>1, <4>1
    <3>3. c \in Early(m) /\ IsFiniteSet(Early(m))
      BY <1>3, <2>1, <3>2, FiniteConns DEF Early, Pending
    <3>4. Cardinality(Early(m)') = Cardinality(Early(m)) - 1
      BY <2>3, <3>3, FS_RemoveElement
    <3> QED BY <1>3, <1>8, <2>1, <2>2, <2>4, <3>4
  <2>5. CASE ~(m <= emitted)
    <3>1. m = emitted'
      BY <1>1, <1>3, <2>1, <2>5
    <3>2. Early(m)' \subseteq sharers \ {c} /\ IsFiniteSet(sharers \ {c})
      BY <1>3, <2>3, FS_RemoveElement DEF Early, SlotInv
    <3>3. Cardinality(Early(m)') <= Cardinality(sharers \ {c})
      BY <3>2, FS_Subset
    <3>4. Cardinality(sharers \ {c}) = Cardinality(sharers) - 1
      BY <1>3, <2>2, FS_RemoveElement
    <3> QED BY <1>3, <2>1, <3>1, <3>3, <3>4
  <2> QED BY <2>4, <2>5
<1>11. UNCHANGED emitted \/ \E c \in Conns : AdcProduce(c)
  BY DEF Next, Device, Transport, AdcStep, StartStream, StopStream, BootloaderEntry, SetRate,
         DacBlock, Reconnect, Unlink, AdcStart, AdcEnds, AdcDue, AdcWoken, AdcPaced, AdcLook,
         AdcGrace, AdcStopped, AdcDropped, AdcClaim, Tick, vars, streamVars
<1> QED BY <1>9, <1>10, <1>11

\* Every step keeps the pace.
LEMMA OnTimeStep ==
    ASSUME TypeInv, SlotInv, OnTime, [Next]_vars
    PROVE  OnTime'
<1>1. TypeOK
  BY DEF TypeInv
<1>2. \A c \in Conns : DueInTime(c)'
  BY <1>1, DueStep DEF OnTime
<1>3. CASE Fresh
  <2>1. ~(emitted' > 0) /\ sharers' = {}
    BY <1>3 DEF Fresh
  <2> QED BY <1>2, <2>1 DEF OnTime, Ahead
<1>4. CASE ~Fresh
  <2>1. UNCHANGED emitted \/ \E c \in Conns : AdcProduce(c)
    BY <1>4 DEF Next, Device, Transport, AdcStep, StartStream, StopStream, BootloaderEntry,
           SetRate, DacBlock, Reconnect, Unlink, AdcStart, AdcEnds, AdcDue, AdcWoken, AdcPaced,
           AdcLook, AdcGrace, AdcStopped, AdcDropped, AdcClaim, Tick, vars, streamVars
  <2>2. sharers \subseteq sharers'
    BY <1>4, Histories
  <2>3. ~mistimed' => ~mistimed
    BY <1>4, Histories
  <2>4. ASSUME NEW c \in Conns, AdcProduce(c), ~mistimed' PROVE sharers # {}
    BY <2>4 DEF AdcProduce, SlotInv
  <2>5. emitted' > 0 /\ ~mistimed' => sharers' # {}
    BY <2>1, <2>2, <2>3, <2>4 DEF OnTime
  <2> QED BY <1>2, <1>4, <2>5, AheadStep DEF OnTime
<1> QED BY <1>3, <1>4

\* At an unchanged rate a realtime stream that one worker reads never returns more
\* samples than its clock has counted, as long as no block outlives the stream it was
\* timed for; each further worker that shares the stream may add one block to that,
\* and no more.
THEOREM PacedByTheClock == Spec => []Paced
<1>1. Init => OnTime
  <2>1. SUFFICES ASSUME Init PROVE OnTime
    OBVIOUS
  <2> QED BY <2>1 DEF Init, OnTime, Ahead, DueInTime
<1>2. TypeInv /\ SlotInv /\ OnTime /\ [Next]_vars => OnTime'
  BY OnTimeStep
<1>3. TypeOK /\ OnTime => Paced
  <2>1. SUFFICES ASSUME TypeOK, OnTime, realtime, streaming, steady, ~mistimed, emitted > 0
                 PROVE  (emitted + 1 - Cardinality(sharers)) * BlockTicks(rate) <= elapsed
    BY DEF Paced
  <2> DEFINE s == Cardinality(sharers)  B == BlockTicks(rate)  k == emitted - s
  <2>2. emitted \in Nat /\ elapsed \in Nat /\ B \in Nat /\ s \in Nat /\ IsFiniteSet(sharers)
    BY <2>1, Clocks DEF ClockTypes
  <2>3. sharers # {}
    BY <2>1 DEF OnTime
  <2>4. s >= 1
    <3>1. s # 0
      BY <2>2, <2>3, FS_EmptySet
    <3> QED BY <2>2, <3>1
  <2>5. CASE k \in Nat
    <3>1. k <= emitted
      BY <2>2
    <3>2. Cardinality(Early(k)) \in Nat
      BY <2>1, <2>5, Clocks DEF ClockTypes
    <3>3. elapsed < (k + 1) * B => emitted + Cardinality(Early(k)) + 1 <= k + s
      BY <2>1, <2>3, <2>5, <3>1 DEF OnTime, Ahead
    <3> HIDE DEF s, B
    <3>4. ~(emitted + Cardinality(Early(k)) + 1 <= k + s)
      BY <2>2, <3>2
    <3>5. (k + 1) * B <= elapsed
      BY <2>2, <2>5, <3>3, <3>4
    <3>6. k + 1 = emitted + 1 - s
      BY <2>2
    <3>7. (emitted + 1 - s) * B <= elapsed
      BY <3>5, <3>6
    <3> QED BY <3>7 DEF s, B
  <2>6. CASE k \notin Nat
    <3>1. emitted + 1 - s \in Int /\ emitted + 1 - s <= 0
      BY <2>2, <2>6
    <3> HIDE DEF B, s
    <3>2. \A x \in Int, b \in Nat : x <= 0 => x * b <= 0
      OBVIOUS
    <3>3. (emitted + 1 - s) * B <= 0 /\ (emitted + 1 - s) * B \in Int
      BY <2>2, <3>1, <3>2
    <3>4. (emitted + 1 - s) * B <= elapsed
      BY <2>2, <3>3
    <3> QED BY <3>4 DEF B, s
  <2> QED BY <2>5, <2>6
<1> QED BY <1>1, <1>2, <1>3, TypeCorrect, TypeInvAlways, SlotInvAlways, PTL DEF Spec
=============================================================================
