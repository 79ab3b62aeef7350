--------------------------- MODULE UrbPhaseProofs ---------------------------
(***************************************************************************)
(* Proofs about UrbPhase, for every set of endpoints and every number of    *)
(* URBs: the packets that settle an URB are one, in the order of its        *)
(* endpoint and not lost, and the whole implements UrbService.              *)
(***************************************************************************)
EXTENDS UrbPhase, SequenceTheorems, TLAPS

\* A task in the middle of an URB holds an URB.
Hands ==
    /\ loop \in {"payload", "unlink_hit", "unlink_miss"} => loopUrb \in Urbs
    /\ loop = "payload" => epOf[loopUrb] \in Eps
    /\ \A e \in Eps :
          worker[e] \in {"transfer", "claim", "reply"} => job[e] \in Urbs

TypeInv == TypeOK /\ Hands

\* The first URB that has not left the URB loop: the one whose payload is being
\* read, or the next one the host sends.
Frontier == IF loop = "payload" THEN loopUrb ELSE next

\* The URBs some packet settles.
SettledUrbs ==
    {u \in Urbs : \E i \in 1..Len(sent) : Settles(sent[i]) /\ sent[i].urb = u}

\* `pending` holds dispatched URBs nobody has taken out.
PendingInv ==
    \A u \in pending : verdict[u] = "none" /\ epOf[u] \in Eps /\ u < Frontier

\* A packet that settles an URB was sent by whoever took the URB out.
SentInv ==
    \A i \in 1..Len(sent) :
        /\ sent[i].urb < Frontier
        /\ sent[i].ret = "submit" => verdict[sent[i].urb] = "completed"
        /\ sent[i].ret = "unlinked" => verdict[sent[i].urb] = "unlinked"

\* What the loop is in the middle of.
LoopInv ==
    /\ loop = "payload" => next = loopUrb + 1
    /\ loop \in {"unlink_hit", "unlink_miss"} => loopUrb < Frontier
    /\ loop = "unlink_hit" =>
          verdict[loopUrb] = "unlinked" /\ loopUrb \notin SettledUrbs
    /\ \A u \in Urbs : u >= Frontier => verdict[u] = "none"
    /\ \A u \in tokens : verdict[u] = "unlinked"

\* An endpoint's queue holds URBs of that endpoint.
QueueInv ==
    \A e \in Eps : \A i \in 1..Len(queue[e]) :
        epOf[queue[e][i]] = e /\ queue[e][i] < Frontier

\* What a worker holds; a worker about to reply owns its URB alone.
JobInv ==
    \A e \in Eps :
        /\ worker[e] \in {"transfer", "claim", "reply"} =>
              epOf[job[e]] = e /\ job[e] < Frontier
        /\ worker[e] \notin {"transfer", "claim", "reply"} => job[e] = NoUrb
        /\ worker[e] = "reply" =>
              verdict[job[e]] = "completed" /\ job[e] \notin SettledUrbs

IInv == TypeInv /\ PendingInv /\ SentInv /\ LoopInv /\ QueueInv /\ JobInv

-----------------------------------------------------------------------------
(* Facts about the operators of UrbPhase. *)

\* The packets the tasks send have their type.
LEMMA PacketsTyped ==
    ASSUME NEW u \in Urbs, NEW hit \in BOOLEAN
    PROVE  RetSubmit(u) \in Packets /\ RetUnlink(u, hit) \in Packets
  BY DEF RetSubmit, RetUnlink, Packets

\* tx.send appends one packet or drops it.
LEMMA SendAppends ==
    ASSUME sent \in Seq(Packets), NEW pkt \in Packets, Send(pkt)
    PROVE  /\ sent' \in Seq(Packets)
           /\ \/ sent' = sent
              \/ sent' = Append(sent, pkt)
           /\ Len(sent') >= Len(sent)
           /\ \A i \in 1..Len(sent') :
                 \/ i \in 1..Len(sent) /\ sent'[i] = sent[i]
                 \/ i = Len(sent) + 1 /\ sent'[i] = pkt
<1>1. Len(sent) \in Nat
  BY LenProperties
<1>2. CASE sent' = sent
  BY <1>1, <1>2
<1>3. CASE sent' = Append(sent, pkt)
  <2>1. /\ sent' \in Seq(Packets)
        /\ Len(sent') = Len(sent) + 1
        /\ \A i \in 1..Len(sent) : sent'[i] = sent[i]
        /\ sent'[Len(sent) + 1] = pkt
    BY <1>3, AppendProperties
  <2> QED
    BY <1>1, <1>3, <2>1
<1> QED
  BY <1>2, <1>3 DEF Send

\* The loop hands an URB to a worker.
LEMMA DispatchTyped ==
    ASSUME TypeOK, NEW u \in Urbs, NEW e \in Eps, Dispatch(u, e)
    PROVE  /\ pending' \subseteq Urbs
           /\ queue' \in [Eps -> Seq(Urbs)]
           /\ worker' \in [Eps -> WorkerStates]
           /\ \A d \in Eps :
                 \/ worker'[d] = worker[d]
                 \/ worker[d] = "none" /\ worker'[d] = "recv"
<1>1. queue[e] \in Seq(Urbs)
  BY DEF TypeOK
<1>2. Append(queue[e], u) \in Seq(Urbs)
  BY <1>1, AppendProperties
<1>3. queue' \in [Eps -> Seq(Urbs)]
  BY <1>1, <1>2 DEF TypeOK, Dispatch
<1> QED
  BY <1>3 DEF TypeOK, WorkerStates, Dispatch

-----------------------------------------------------------------------------
(* Every variable keeps its type. *)

\* The initial state has the types.
LEMMA TypeInit == Init => TypeInv
<1> SUFFICES ASSUME Init PROVE TypeInv
  OBVIOUS
<1> USE DEF Init
<1>1. sent \in Seq(Packets) /\ written \in 0..Len(sent)
  BY EmptySeq
<1>2. queue \in [Eps -> Seq(Urbs)]
  BY EmptySeq
<1>3. next \in 1..(MaxSeq + 1)
  BY ConstantsAssumption DEF ConstantsAssumption
<1>4. TypeOK
  BY <1>1, <1>2, <1>3 DEF TypeOK, LoopStates, WorkerStates, NoUrb
<1>5. Hands
  BY DEF Hands
<1> QED
  BY <1>4, <1>5 DEF TypeInv

\* TypeInv is inductive: one step per action.
LEMMA TypeStep == TypeInv /\ [Next]_vars => TypeInv'
<1> SUFFICES ASSUME TypeInv, [Next]_vars PROVE TypeInv'
  OBVIOUS
<1> USE DEF TypeInv
<1>a. MaxSeq \in Nat
  BY ConstantsAssumption DEF ConstantsAssumption
<1>b. Len(sent) \in Nat
  BY LenProperties DEF TypeOK
<1>1. CASE SubmitControl
  <2>1. next \in Urbs /\ RetSubmit(next) \in Packets
    BY <1>1, PacketsTyped DEF SubmitControl
  <2>2. sent' \in Seq(Packets) /\ Len(sent') \in Nat /\ Len(sent') >= Len(sent)
    BY <1>1, <2>1, SendAppends, LenProperties DEF SubmitControl, TypeOK
  <2>3. TypeOK'
    BY <1>a, <1>b, <1>1, <2>1, <2>2
       DEF SubmitControl, TypeOK, workerVars, writerVars, Urbs
  <2>4. Hands'
    BY <1>1 DEF SubmitControl, Hands, workerVars
  <2> QED
    BY <2>3, <2>4
<1>2. ASSUME NEW e \in InEps, SubmitIn(e) PROVE TypeInv'
  <2>1. next \in Urbs /\ e \in Eps
    BY <1>2 DEF SubmitIn, Eps
  <2>2. /\ pending' \subseteq Urbs
        /\ queue' \in [Eps -> Seq(Urbs)]
        /\ worker' \in [Eps -> WorkerStates]
        /\ \A d \in Eps :
              \/ worker'[d] = worker[d]
              \/ worker[d] = "none" /\ worker'[d] = "recv"
    BY <1>2, <2>1, DispatchTyped DEF SubmitIn
  <2>3. TypeOK'
    BY <1>a, <1>2, <2>1, <2>2 DEF SubmitIn, TypeOK, writerVars, Urbs
  <2>4. Hands'
    BY <1>2, <2>2 DEF SubmitIn, Hands
  <2> QED
    BY <2>3, <2>4
<1>3. ASSUME NEW e \in OutEps, SubmitOutHeader(e) PROVE TypeInv'
  <2>1. next \in Urbs /\ e \in Eps
    BY <1>3 DEF SubmitOutHeader, Eps
  <2>2. TypeOK'
    BY <1>a, <1>3, <2>1
       DEF SubmitOutHeader, TypeOK, LoopStates, workerVars, writerVars, Urbs
  <2>3. Hands'
    BY <1>3, <2>1 DEF SubmitOutHeader, Hands, TypeOK, workerVars
  <2> QED
    BY <2>2, <2>3
<1>4. CASE OutPayload
  <2>1. loopUrb \in Urbs /\ epOf[loopUrb] \in Eps
    BY <1>4 DEF OutPayload, Hands
  <2>2. /\ pending' \subseteq Urbs
        /\ queue' \in [Eps -> Seq(Urbs)]
        /\ worker' \in [Eps -> WorkerStates]
        /\ \A d \in Eps :
              \/ worker'[d] = worker[d]
              \/ worker[d] = "none" /\ worker'[d] = "recv"
    BY <1>4, <2>1, DispatchTyped DEF OutPayload
  <2>3. TypeOK'
    BY <1>4, <2>2 DEF OutPayload, TypeOK, LoopStates, writerVars, NoUrb
  <2>4. Hands'
    BY <1>4, <2>2 DEF OutPayload, Hands
  <2> QED
    BY <2>3, <2>4
<1>5. CASE OutPayloadEof
  BY <1>5 DEF OutPayloadEof, TypeOK, Hands, LoopStates, workerVars, writerVars, NoUrb
<1>6. ASSUME NEW u \in Urbs, Unlink(u) PROVE TypeInv'
  <2>1. TypeOK'
    BY <1>6 DEF Unlink, TypeOK, LoopStates, workerVars, writerVars
  <2>2. Hands'
    BY <1>6 DEF Unlink, Hands, workerVars
  <2> QED
    BY <2>1, <2>2
<1>7. CASE UnlinkReply
  <2>1. loopUrb \in Urbs
    BY <1>7 DEF UnlinkReply, Hands
  <2>2. RetUnlink(loopUrb, loop = "unlink_hit") \in Packets
    BY <2>1, PacketsTyped
  <2>3. sent' \in Seq(Packets) /\ Len(sent') \in Nat /\ Len(sent') >= Len(sent)
    BY <1>7, <2>2, SendAppends, LenProperties DEF UnlinkReply, TypeOK
  <2>4. TypeOK'
    BY <1>b, <1>7, <2>1, <2>3
       DEF UnlinkReply, TypeOK, LoopStates, workerVars, writerVars, NoUrb
  <2>5. Hands'
    BY <1>7 DEF UnlinkReply, Hands, workerVars
  <2> QED
    BY <2>4, <2>5
<1>8. CASE Break
  BY <1>8 DEF Break, TypeOK, Hands, LoopStates, workerVars, writerVars
<1>9. CASE Return
  BY <1>9 DEF Return, TypeOK, Hands, LoopStates, workerVars, writerVars
<1>10. ASSUME NEW e \in Eps, Receive(e) PROVE TypeInv'
  <2>1. Head(queue[e]) \in Urbs /\ Tail(queue[e]) \in Seq(Urbs)
    BY <1>10, HeadTailProperties DEF Receive, TypeOK
  <2>2. TypeOK'
    BY <1>10, <2>1 DEF Receive, TypeOK, WorkerStates, loopVars, writerVars
  <2>3. Hands'
    BY <1>10, <2>1 DEF Receive, Hands, TypeOK, loopVars
  <2> QED
    BY <2>2, <2>3
<1>11. ASSUME NEW e \in Eps, QueueClosed(e) PROVE TypeInv'
  BY <1>11 DEF QueueClosed, TypeOK, Hands, WorkerStates, loopVars, writerVars
<1>12. ASSUME NEW e \in Eps, TransferDone(e) PROVE TypeInv'
  BY <1>12 DEF TransferDone, TypeOK, Hands, WorkerStates, loopVars, writerVars
<1>13. ASSUME NEW e \in Eps, Claim(e) PROVE TypeInv'
  <2>1. TypeOK'
    BY <1>13 DEF Claim, TypeOK, Hands, WorkerStates, loopVars, writerVars, NoUrb
  <2>2. Hands'
    BY <1>13 DEF Claim, TypeOK, Hands, loopVars
  <2> QED
    BY <2>1, <2>2
<1>14. ASSUME NEW e \in Eps, Reply(e) PROVE TypeInv'
  <2>1. RetSubmit(job[e]) \in Packets
    BY <1>14, PacketsTyped DEF Reply, Hands
  <2>2. sent' \in Seq(Packets) /\ Len(sent') \in Nat /\ Len(sent') >= Len(sent)
    BY <1>14, <2>1, SendAppends, LenProperties DEF Reply, TypeOK
  <2>3. TypeOK'
    BY <1>b, <1>14, <2>2
       DEF Reply, TypeOK, WorkerStates, loopVars, writerVars, NoUrb
  <2>4. Hands'
    BY <1>14 DEF Reply, Hands, TypeOK, loopVars
  <2> QED
    BY <2>3, <2>4
<1>15. ASSUME NEW e \in Eps, TokenCancelled(e) PROVE TypeInv'
  BY <1>15 DEF TokenCancelled, TypeOK, Hands, WorkerStates, loopVars, writerVars, NoUrb
<1>16. ASSUME NEW e \in Eps, ConnCancelled(e) PROVE TypeInv'
  BY <1>16, EmptySeq
     DEF ConnCancelled, TypeOK, Hands, WorkerStates, loopVars, writerVars, NoUrb
<1>17. CASE WriterStep
  <2>1. written' \in 0..Len(sent)
    BY <1>b, <1>17 DEF WriterStep, WriteOne, WriteFails, WriterDrained, TypeOK, writerVars
  <2> QED
    BY <2>1, <1>17
       DEF WriterStep, WriteOne, WriteFails, WriterDrained, TypeOK, Hands,
           loopVars, workerVars
<1>18. CASE Finished \/ UNCHANGED vars
  BY <1>18 DEF Finished, vars, loopVars, workerVars, writerVars, TypeOK, Hands
<1> QED
  BY <1>1, <1>2, <1>3, <1>4, <1>5, <1>6, <1>7, <1>8, <1>9, <1>10, <1>11,
     <1>12, <1>13, <1>14, <1>15, <1>16, <1>17, <1>18
     DEF Next, LoopStep, WorkerStep, DeviceOrHostEnds, SeesConnCancelled

\* Every variable of the connection always has its type.
THEOREM TypeCorrect == Spec => []TypeOK
<1>1. TypeInv => TypeOK
  BY DEF TypeInv
<1> QED
  BY <1>1, TypeInit, TypeStep, PTL DEF Spec

-----------------------------------------------------------------------------
(* Nobody answers an URB twice. *)

\* What a packet more in the channel changes for the verdicts.
LEMMA SendSettles ==
    ASSUME TypeOK, NEW pkt \in Packets, Send(pkt)
    PROVE  /\ ~Settles(pkt) => SettledUrbs' \subseteq SettledUrbs
           /\ SettledUrbs' \subseteq SettledUrbs \cup {pkt.urb}
  BY SendAppends DEF SettledUrbs, TypeOK

\* SentInv speaks of one packet more.
LEMMA SendKeepsSentInv ==
    ASSUME TypeOK, NEW pkt \in Packets, Send(pkt), SentInv,
           Frontier' >= Frontier, Frontier \in Nat, Frontier' \in Nat,
           \A i \in 1..Len(sent) :
              verdict[sent[i].urb] # "none" => verdict'[sent[i].urb] = verdict[sent[i].urb],
           pkt.urb < Frontier',
           pkt.ret = "submit" => verdict'[pkt.urb] = "completed",
           pkt.ret = "unlinked" => verdict'[pkt.urb] = "unlinked"
    PROVE  SentInv'
<1> SUFFICES ASSUME NEW i \in 1..Len(sent')
             PROVE  /\ sent'[i].urb < Frontier'
                    /\ sent'[i].ret = "submit" => verdict'[sent'[i].urb] = "completed"
                    /\ sent'[i].ret = "unlinked" => verdict'[sent'[i].urb] = "unlinked"
  BY DEF SentInv
<1>1. CASE i \in 1..Len(sent) /\ sent'[i] = sent[i]
  <2>1. sent[i] \in Packets
    BY <1>1, ElementOfSeq DEF TypeOK
  <2> QED
    BY <1>1, <2>1 DEF SentInv, Packets, Urbs
<1>2. CASE sent'[i] = pkt
  BY <1>2
<1> QED
  BY <1>1, <1>2, SendAppends DEF TypeOK

\* The loop hands the URB at the frontier to a worker: its queue grows by that URB.
LEMMA DispatchQueued ==
    ASSUME TypeOK, NEW u \in Urbs, NEW e \in Eps, Dispatch(u, e)
    PROVE  \A d \in Eps : \A i \in 1..Len(queue'[d]) :
              \/ i \in 1..Len(queue[d]) /\ queue'[d][i] = queue[d][i]
              \/ d = e /\ i = Len(queue[d]) + 1 /\ queue'[d][i] = u
<1> SUFFICES ASSUME NEW d \in Eps, NEW i \in 1..Len(queue'[d])
             PROVE  \/ i \in 1..Len(queue[d]) /\ queue'[d][i] = queue[d][i]
                    \/ d = e /\ i = Len(queue[d]) + 1 /\ queue'[d][i] = u
  OBVIOUS
<1>1. queue[d] \in Seq(Urbs) /\ Len(queue[d]) \in Nat
  BY LenProperties DEF TypeOK
<1>2. CASE queue'[d] = queue[d]
  BY <1>2
<1>3. CASE d = e /\ queue'[d] = Append(queue[d], u)
  BY <1>1, <1>3, AppendProperties
<1> QED
  BY <1>2, <1>3 DEF Dispatch, TypeOK

\* IInv holds initially.
LEMMA IInvInit == Init => IInv
<1> SUFFICES ASSUME Init PROVE IInv
  OBVIOUS
<1>1. TypeInv
  BY TypeInit
<1>2. Len(sent) = 0 /\ \A e \in Eps : Len(queue[e]) = 0
  BY DEF Init
<1> QED
  BY <1>1, <1>2 DEF Init, IInv, PendingInv, SentInv, LoopInv, QueueInv, JobInv, Frontier

\* IInv is inductive: one step per action.
LEMMA IInvStep == IInv /\ [Next]_vars => IInv'
<1> SUFFICES ASSUME IInv, [Next]_vars PROVE IInv'
  OBVIOUS
<1>t. TypeInv' /\ TypeOK /\ TypeOK' /\ Hands /\ Hands'
  BY TypeStep DEF IInv, TypeInv
<1>i. PendingInv /\ SentInv /\ LoopInv /\ QueueInv /\ JobInv
  BY DEF IInv
<1>u. NoUrb \notin Urbs /\ \A u \in Urbs : u \in Nat
  BY ConstantsAssumption DEF ConstantsAssumption, Urbs, NoUrb
<1>n. next \in Nat /\ next' \in Nat /\ Frontier \in Nat /\ Frontier' \in Nat
  BY <1>t, <1>u, ConstantsAssumption DEF TypeOK, Hands, Frontier, ConstantsAssumption
<1>s. ASSUME NEW i \in 1..Len(sent)
      PROVE  sent[i] \in Packets /\ sent[i].urb \in Urbs /\ sent[i].urb \in Nat
  <2>1. sent[i] \in Packets
    BY <1>t, ElementOfSeq DEF TypeOK
  <2>2. sent[i].urb \in Urbs
    BY <2>1 DEF Packets
  <2> QED
    BY <1>u, <2>1, <2>2
<1>q. ASSUME NEW e \in Eps, NEW i \in 1..Len(queue[e]) PROVE queue[e][i] \in Urbs /\ queue[e][i] \in Nat
  BY <1>t, <1>u, ElementOfSeq DEF TypeOK
<1>j. ASSUME NEW e \in Eps, worker[e] \in {"transfer", "claim", "reply"}
      PROVE  job[e] \in Urbs /\ job[e] \in Nat
  BY <1>j, <1>t, <1>u DEF Hands
<1>v. \A u \in SettledUrbs : verdict[u] # "none" /\ u < Frontier
  BY <1>i DEF SettledUrbs, Settles, SentInv
<1>1. CASE SubmitControl
  <2>a. next \in Urbs /\ Frontier = next /\ Frontier' = next + 1
    BY <1>1 DEF SubmitControl, Frontier
  <2>b. RetSubmit(next) \in Packets /\ RetSubmit(next).urb = next /\ RetSubmit(next).ret = "submit"
    BY <2>a DEF Packets, RetSubmit
  <2>1. /\ next \in Urbs /\ RetSubmit(next) \in Packets /\ verdict[next] = "none"
        /\ Frontier = next /\ Frontier' = next + 1
    BY <1>n, <1>i, <2>a, <2>b DEF LoopInv
  <2>2. PendingInv'
    BY <1>1, <1>t, <1>i, <1>u, <1>n, <2>1 DEF SubmitControl, PendingInv, TypeOK
  <2>3. SentInv'
    <3>1. /\ Send(RetSubmit(next)) /\ verdict'[next] = "completed"
          /\ \A v \in Urbs : verdict[v] # "none" => verdict'[v] = verdict[v]
      BY <1>1, <1>t, <2>1 DEF SubmitControl, TypeOK
    <3> QED
      BY <1>t, <1>i, <1>n, <1>s, <2>1, <2>b, <3>1, SendKeepsSentInv
  <2>4. SettledUrbs' \subseteq SettledUrbs \cup {next}
    BY <1>1, <1>t, <2>1, SendSettles DEF SubmitControl, RetSubmit
  <2>5. LoopInv'
    BY <1>1, <1>t, <1>i, <1>u, <1>n, <2>1 DEF SubmitControl, LoopInv, TypeOK
  <2>6. QueueInv'
    BY <1>1, <1>t, <1>i, <1>u, <1>n, <1>q, <2>1 DEF SubmitControl, QueueInv, workerVars
  <2>7. JobInv'
    BY <1>1, <1>t, <1>i, <1>j, <1>n, <2>1, <2>4
       DEF SubmitControl, JobInv, workerVars
  <2> QED
    BY <1>t, <2>2, <2>3, <2>5, <2>6, <2>7 DEF IInv
<1>2. ASSUME NEW e \in InEps, SubmitIn(e) PROVE IInv'
  <2>1. /\ next \in Urbs /\ e \in Eps /\ verdict[next] = "none"
        /\ Frontier = next /\ Frontier' = next + 1 /\ epOf'[next] = e
        /\ \A v \in Urbs : v # next => epOf'[v] = epOf[v]
        /\ Dispatch(next, e)
    BY <1>2, <1>t, <1>n, <1>i DEF SubmitIn, Frontier, LoopInv, TypeOK, Hands, Eps
  <2>2. PendingInv'
    BY <1>2, <1>t, <1>i, <1>u, <1>n, <2>1 DEF SubmitIn, Dispatch, PendingInv, TypeOK
  <2>3. SentInv'
    BY <1>2, <1>i, <1>u, <1>n, <1>s, <2>1 DEF SubmitIn, SentInv
  <2>4. LoopInv' /\ SettledUrbs' = SettledUrbs
    BY <1>2, <1>t, <1>i, <1>u, <1>n, <2>1 DEF SubmitIn, LoopInv, TypeOK, SettledUrbs
  <2>5. QueueInv'
    <3> SUFFICES ASSUME NEW d \in Eps, NEW i \in 1..Len(queue'[d])
                 PROVE  epOf'[queue'[d][i]] = d /\ queue'[d][i] < Frontier'
      BY DEF QueueInv
    <3>1. CASE i \in 1..Len(queue[d]) /\ queue'[d][i] = queue[d][i]
      <4>1. queue[d][i] \in Urbs /\ queue[d][i] \in Nat
        BY <1>q, <3>1
      <4>2. epOf[queue[d][i]] = d /\ queue[d][i] < Frontier
        BY <1>i, <3>1 DEF QueueInv
      <4>3. queue[d][i] # next /\ queue[d][i] < Frontier'
        BY <1>n, <2>1, <4>1, <4>2
      <4> QED
        BY <2>1, <3>1, <4>1, <4>2, <4>3
    <3>2. CASE d = e /\ queue'[d][i] = next
      BY <1>n, <2>1, <3>2
    <3> QED
      BY <1>t, <2>1, <3>1, <3>2, DispatchQueued
  <2>6. JobInv'
    BY <1>2, <1>t, <1>i, <1>j, <1>n, <2>1, <2>4
       DEF SubmitIn, Dispatch, JobInv, TypeOK
  <2> QED
    BY <1>t, <2>2, <2>3, <2>4, <2>5, <2>6 DEF IInv
<1>3. ASSUME NEW e \in OutEps, SubmitOutHeader(e) PROVE IInv'
  <2>1. /\ next \in Urbs /\ Frontier = next /\ Frontier' = next
        /\ \A v \in Urbs : v # next => epOf'[v] = epOf[v]
        /\ SettledUrbs' = SettledUrbs
    BY <1>3, <1>t DEF SubmitOutHeader, Frontier, TypeOK, SettledUrbs
  <2>2. PendingInv' /\ SentInv'
    <3>1. \A v \in pending : v \in Urbs /\ v # next
      BY <1>t, <1>i, <1>n, <2>1 DEF PendingInv, TypeOK
    <3>2. PendingInv'
      BY <1>3, <1>t, <1>i, <2>1, <3>1 DEF SubmitOutHeader, PendingInv, TypeOK
    <3>3. SentInv'
      BY <1>3, <1>i, <2>1 DEF SubmitOutHeader, SentInv
    <3> QED
      BY <3>2, <3>3
  <2>3. LoopInv'
    BY <1>3, <1>i, <1>n, <2>1 DEF SubmitOutHeader, LoopInv
  <2>4. QueueInv'
    BY <1>3, <1>i, <1>u, <1>n, <1>q, <2>1 DEF SubmitOutHeader, QueueInv, workerVars
  <2>5. JobInv'
    BY <1>3, <1>t, <1>i, <1>u, <1>n, <2>1 DEF SubmitOutHeader, JobInv, Hands, workerVars
  <2> QED
    BY <1>t, <2>2, <2>3, <2>4, <2>5 DEF IInv
<1>4. CASE OutPayload
  <2>1. /\ loopUrb \in Urbs /\ epOf[loopUrb] \in Eps /\ verdict[loopUrb] = "none"
        /\ Frontier = loopUrb /\ Frontier' = loopUrb + 1 /\ epOf'[loopUrb] = epOf[loopUrb]
        /\ \A v \in Urbs : v # loopUrb => epOf'[v] = epOf[v]
        /\ Dispatch(loopUrb, epOf[loopUrb])
    BY <1>4, <1>t, <1>n, <1>i DEF OutPayload, Frontier, LoopInv, TypeOK, Hands, Eps
  <2>2. PendingInv'
    BY <1>4, <1>t, <1>i, <1>u, <1>n, <2>1 DEF OutPayload, Dispatch, PendingInv, TypeOK
  <2>3. SentInv'
    BY <1>4, <1>i, <1>u, <1>n, <1>s, <2>1 DEF OutPayload, SentInv
  <2>4. LoopInv' /\ SettledUrbs' = SettledUrbs
    BY <1>4, <1>t, <1>i, <1>u, <1>n, <2>1 DEF OutPayload, LoopInv, TypeOK, SettledUrbs
  <2>5. QueueInv'
    <3> SUFFICES ASSUME NEW d \in Eps, NEW i \in 1..Len(queue'[d])
                 PROVE  epOf'[queue'[d][i]] = d /\ queue'[d][i] < Frontier'
      BY DEF QueueInv
    <3>1. CASE i \in 1..Len(queue[d]) /\ queue'[d][i] = queue[d][i]
      <4>1. queue[d][i] \in Urbs /\ queue[d][i] \in Nat
        BY <1>q, <3>1
      <4>2. epOf[queue[d][i]] = d /\ queue[d][i] < Frontier
        BY <1>i, <3>1 DEF QueueInv
      <4>3. queue[d][i] # loopUrb /\ queue[d][i] < Frontier'
        BY <1>n, <2>1, <4>1, <4>2
      <4> QED
        BY <2>1, <3>1, <4>1, <4>2, <4>3
    <3>2. CASE d = epOf[loopUrb] /\ queue'[d][i] = loopUrb
      BY <1>n, <2>1, <3>2
    <3> QED
      BY <1>t, <2>1, <3>1, <3>2, DispatchQueued
  <2>6. JobInv'
    BY <1>4, <1>t, <1>i, <1>j, <1>n, <2>1, <2>4
       DEF OutPayload, Dispatch, JobInv, TypeOK
  <2> QED
    BY <1>t, <2>2, <2>3, <2>4, <2>5, <2>6 DEF IInv
<1>5. CASE OutPayloadEof
  <2>1. Frontier' = Frontier + 1 /\ Frontier' = next /\ SettledUrbs' = SettledUrbs
    BY <1>5, <1>i, <1>n DEF OutPayloadEof, Frontier, LoopInv, SettledUrbs
  <2>2. PendingInv' /\ SentInv'
    BY <1>5, <1>t, <1>i, <1>u, <1>n, <1>s, <2>1
       DEF OutPayloadEof, PendingInv, SentInv, TypeOK
  <2>3. LoopInv'
    BY <1>5, <1>i, <1>u, <1>n, <2>1 DEF OutPayloadEof, LoopInv
  <2>4. QueueInv'
    BY <1>5, <1>i, <1>u, <1>n, <1>q, <2>1 DEF OutPayloadEof, QueueInv, workerVars
  <2>5. JobInv'
    BY <1>5, <1>t, <1>i, <1>u, <1>n, <2>1 DEF OutPayloadEof, JobInv, Hands, workerVars
  <2> QED
    BY <1>t, <2>2, <2>3, <2>4, <2>5 DEF IInv
<1>6. ASSUME NEW u \in Urbs, Unlink(u) PROVE IInv'
  <2>1. u < Frontier /\ Frontier' = Frontier /\ SettledUrbs' = SettledUrbs
    BY <1>6 DEF Unlink, Frontier, SettledUrbs
  <2>2. \A v \in Urbs : verdict[v] # "none" => verdict'[v] = verdict[v]
    BY <1>6, <1>t, <1>i DEF Unlink, PendingInv, TypeOK
  <2>3. PendingInv'
    BY <1>6, <1>t, <1>i, <2>1 DEF Unlink, PendingInv, TypeOK
  <2>4. SentInv'
    BY <1>6, <1>i, <1>s, <2>1, <2>2 DEF Unlink, SentInv
  <2>5. LoopInv'
    BY <1>6, <1>t, <1>i, <1>u, <1>n, <1>v, <2>1, <2>2
       DEF Unlink, PendingInv, LoopInv, TypeOK
  <2>6. QueueInv'
    BY <1>6, <1>i, <2>1 DEF Unlink, QueueInv, workerVars
  <2>7. JobInv'
    BY <1>6, <1>t, <1>i, <2>1, <2>2 DEF Unlink, JobInv, Hands, workerVars
  <2> QED
    BY <1>t, <2>3, <2>4, <2>5, <2>6, <2>7 DEF IInv
<1>7. CASE UnlinkReply
  <2> DEFINE pkt == RetUnlink(loopUrb, loop = "unlink_hit")
  <2>1. loopUrb \in Urbs /\ loopUrb < Frontier /\ Frontier' = Frontier
    BY <1>7, <1>t, <1>i DEF UnlinkReply, Hands, LoopInv, Frontier
  <2>2. /\ pkt \in Packets /\ pkt.urb = loopUrb /\ pkt.ret # "submit"
        /\ Settles(pkt) <=> loop = "unlink_hit"
        /\ pkt.ret = "unlinked" => verdict[loopUrb] = "unlinked"
        /\ Send(pkt)
    BY <1>7, <1>i, <2>1, PacketsTyped DEF UnlinkReply, RetUnlink, Settles, LoopInv
  <2> HIDE DEF pkt
  <2>3. PendingInv'
    BY <1>7, <1>i, <2>1 DEF UnlinkReply, PendingInv
  <2>4. SentInv'
    BY <1>7, <1>t, <1>i, <1>n, <2>1, <2>2, SendKeepsSentInv DEF UnlinkReply
  <2>5. /\ ~Settles(pkt) => SettledUrbs' \subseteq SettledUrbs
        /\ SettledUrbs' \subseteq SettledUrbs \cup {loopUrb}
    BY <1>t, <2>2, SendSettles
  <2>6. LoopInv'
    BY <1>7, <1>i, <2>1 DEF UnlinkReply, LoopInv
  <2>7. QueueInv'
    BY <1>7, <1>i, <2>1 DEF UnlinkReply, QueueInv, workerVars
  <2>8. JobInv'
    BY <1>7, <1>i, <2>1, <2>2, <2>5 DEF UnlinkReply, JobInv, LoopInv, workerVars
  <2> QED
    BY <1>t, <2>3, <2>4, <2>6, <2>7, <2>8 DEF IInv
<1>8. CASE Break
  <2>1. Frontier' = Frontier /\ SettledUrbs' = SettledUrbs
    BY <1>8 DEF Break, Frontier, SettledUrbs
  <2> QED
    BY <1>8, <1>t, <1>i, <2>1
       DEF Break, IInv, PendingInv, SentInv, LoopInv, QueueInv, JobInv, workerVars
<1>9. CASE Return
  <2>1. Frontier' = Frontier /\ SettledUrbs' = SettledUrbs
    BY <1>9 DEF Return, Frontier, SettledUrbs
  <2> QED
    BY <1>9, <1>t, <1>i, <2>1
       DEF Return, IInv, PendingInv, SentInv, LoopInv, QueueInv, JobInv, workerVars
<1>10. ASSUME NEW e \in Eps, Receive(e) PROVE IInv'
  <2>1. Frontier' = Frontier /\ SettledUrbs' = SettledUrbs
    BY <1>10 DEF Receive, Frontier, SettledUrbs, loopVars
  <2>2. PendingInv' /\ SentInv' /\ LoopInv'
    BY <1>10, <1>i, <2>1 DEF Receive, PendingInv, SentInv, LoopInv, loopVars
  <2>3. /\ Len(queue[e]) \in Nat \ {0}
        /\ Head(queue[e]) = queue[e][1]
        /\ Len(Tail(queue[e])) = Len(queue[e]) - 1
        /\ \A i \in 1..Len(Tail(queue[e])) : Tail(queue[e])[i] = queue[e][i + 1]
    BY <1>10, <1>t, HeadTailProperties, EmptySeq DEF Receive, TypeOK
  <2>4. QueueInv'
    <3> SUFFICES ASSUME NEW d \in Eps, NEW i \in 1..Len(queue'[d])
                 PROVE  epOf'[queue'[d][i]] = d /\ queue'[d][i] < Frontier'
      BY DEF QueueInv
    <3>1. CASE d = e
      BY <1>10, <1>t, <1>i, <2>1, <2>3, <3>1 DEF Receive, QueueInv, TypeOK, loopVars
    <3>2. CASE d # e
      BY <1>10, <1>t, <1>i, <2>1, <3>2 DEF Receive, QueueInv, TypeOK, loopVars
    <3> QED
      BY <3>1, <3>2
  <2>5. epOf[Head(queue[e])] = e /\ Head(queue[e]) < Frontier
    BY <1>i, <2>3 DEF QueueInv
  <2>6. JobInv'
    BY <1>10, <1>t, <1>i, <2>1, <2>5 DEF Receive, JobInv, TypeOK, loopVars
  <2> QED
    BY <1>t, <2>2, <2>4, <2>6 DEF IInv
<1>11. ASSUME NEW e \in Eps, QueueClosed(e) PROVE IInv'
  <2>1. Frontier' = Frontier /\ SettledUrbs' = SettledUrbs
    BY <1>11 DEF QueueClosed, Frontier, SettledUrbs, loopVars
  <2>2. PendingInv' /\ SentInv' /\ LoopInv' /\ QueueInv'
    BY <1>11, <1>t, <1>i, <2>1
       DEF QueueClosed, PendingInv, SentInv, LoopInv, QueueInv, loopVars, TypeOK
  <2>3. JobInv'
    BY <1>11, <1>t, <1>i, <2>1 DEF QueueClosed, JobInv, TypeOK, loopVars
  <2> QED
    BY <1>t, <2>2, <2>3 DEF IInv
<1>12. ASSUME NEW e \in Eps, TransferDone(e) PROVE IInv'
  <2>1. Frontier' = Frontier /\ SettledUrbs' = SettledUrbs
    BY <1>12 DEF TransferDone, Frontier, SettledUrbs, loopVars
  <2>2. PendingInv' /\ SentInv' /\ LoopInv' /\ QueueInv'
    BY <1>12, <1>t, <1>i, <2>1
       DEF TransferDone, PendingInv, SentInv, LoopInv, QueueInv, loopVars, TypeOK
  <2>3. JobInv'
    BY <1>12, <1>t, <1>i, <2>1 DEF TransferDone, JobInv, TypeOK, loopVars
  <2> QED
    BY <1>t, <2>2, <2>3 DEF IInv
<1>13. ASSUME NEW e \in Eps, Claim(e) PROVE IInv'
  <2>1. /\ job[e] \in Urbs /\ epOf[job[e]] = e /\ job[e] < Frontier
        /\ Frontier' = Frontier /\ SettledUrbs' = SettledUrbs
    BY <1>13, <1>t, <1>i DEF Claim, Hands, JobInv, Frontier, SettledUrbs, loopVars
  <2>2. \A v \in Urbs : verdict[v] # "none" => verdict'[v] = verdict[v]
    BY <1>13, <1>t, <1>i, <2>1 DEF Claim, PendingInv, TypeOK
  <2>3. PendingInv'
    BY <1>13, <1>t, <1>i, <2>1 DEF Claim, PendingInv, TypeOK, loopVars
  <2>4. SentInv'
    BY <1>13, <1>i, <1>s, <2>1, <2>2 DEF Claim, SentInv
  <2>5. LoopInv'
    BY <1>13, <1>t, <1>i, <1>u, <1>n, <2>1, <2>2
       DEF Claim, LoopInv, Hands, TypeOK, loopVars
  <2>6. QueueInv'
    BY <1>13, <1>i, <2>1 DEF Claim, QueueInv, loopVars
  <2>7. job[e] \in pending => job[e] \notin SettledUrbs
    BY <1>i, <1>v DEF PendingInv
  <2>8. JobInv'
    BY <1>13, <1>t, <1>i, <2>1, <2>2, <2>7 DEF Claim, JobInv, TypeOK, Hands, loopVars
  <2> QED
    BY <1>t, <2>3, <2>4, <2>5, <2>6, <2>8 DEF IInv
<1>14. ASSUME NEW e \in Eps, Reply(e) PROVE IInv'
  <2> DEFINE pkt == RetSubmit(job[e])
  <2>1. /\ job[e] \in Urbs /\ epOf[job[e]] = e /\ job[e] < Frontier
        /\ verdict[job[e]] = "completed" /\ Frontier' = Frontier
    BY <1>14, <1>t, <1>i DEF Reply, Hands, JobInv, Frontier, loopVars
  <2>2. /\ pkt \in Packets /\ pkt.urb = job[e] /\ pkt.ret = "submit"
        /\ Send(pkt)
    BY <1>14, <2>1, PacketsTyped DEF Reply, RetSubmit
  <2> HIDE DEF pkt
  <2>3. PendingInv'
    BY <1>14, <1>i, <2>1 DEF Reply, PendingInv, loopVars
  <2>4. SentInv'
    BY <1>14, <1>t, <1>i, <1>n, <2>1, <2>2, SendKeepsSentInv DEF Reply
  <2>5. SettledUrbs' \subseteq SettledUrbs \cup {job[e]}
    BY <1>t, <2>2, SendSettles
  <2>6. LoopInv'
    BY <1>14, <1>i, <2>1, <2>5 DEF Reply, LoopInv, loopVars
  <2>7. QueueInv'
    BY <1>14, <1>i, <2>1 DEF Reply, QueueInv, loopVars
  <2>8. JobInv'
    BY <1>14, <1>t, <1>i, <2>1, <2>5 DEF Reply, JobInv, TypeOK, loopVars
  <2> QED
    BY <1>t, <2>3, <2>4, <2>6, <2>7, <2>8 DEF IInv
<1>15. ASSUME NEW e \in Eps, TokenCancelled(e) PROVE IInv'
  <2>1. Frontier' = Frontier /\ SettledUrbs' = SettledUrbs
    BY <1>15 DEF TokenCancelled, Frontier, SettledUrbs, loopVars
  <2>2. PendingInv' /\ SentInv' /\ LoopInv' /\ QueueInv'
    BY <1>15, <1>t, <1>i, <2>1
       DEF TokenCancelled, PendingInv, SentInv, LoopInv, QueueInv, loopVars, TypeOK
  <2>3. JobInv'
    BY <1>15, <1>t, <1>i, <2>1 DEF TokenCancelled, JobInv, TypeOK, loopVars
  <2> QED
    BY <1>t, <2>2, <2>3 DEF IInv
<1>16. ASSUME NEW e \in Eps, ConnCancelled(e) PROVE IInv'
  <2>1. Frontier' = Frontier /\ SettledUrbs' = SettledUrbs
    BY <1>16 DEF ConnCancelled, Frontier, SettledUrbs, loopVars
  <2>2. PendingInv' /\ SentInv' /\ LoopInv'
    BY <1>16, <1>i, <2>1 DEF ConnCancelled, PendingInv, SentInv, LoopInv, loopVars
  <2>3. \A d \in Eps : queue'[d] = queue[d] \/ Len(queue'[d]) = 0
    BY <1>16, <1>t DEF ConnCancelled, TypeOK
  <2>4. QueueInv'
    BY <1>16, <1>i, <2>1, <2>3 DEF ConnCancelled, QueueInv, loopVars
  <2>5. JobInv'
    BY <1>16, <1>t, <1>i, <2>1 DEF ConnCancelled, JobInv, TypeOK, loopVars
  <2> QED
    BY <1>t, <2>2, <2>4, <2>5 DEF IInv
<1>17. CASE WriterStep \/ Finished \/ UNCHANGED vars
  <2>1. /\ UNCHANGED <<loopVars, pending, tokens, workerVars, sent, verdict>>
        /\ Frontier' = Frontier /\ SettledUrbs' = SettledUrbs
    BY <1>17
       DEF WriterStep, WriteOne, WriteFails, WriterDrained, Finished, vars, loopVars,
           workerVars, Frontier, SettledUrbs
  <2> QED
    BY <1>t, <1>i, <2>1
       DEF IInv, PendingInv, SentInv, LoopInv, QueueInv, JobInv, loopVars, workerVars
<1> QED
  BY <1>1, <1>2, <1>3, <1>4, <1>5, <1>6, <1>7, <1>8, <1>9, <1>10, <1>11,
     <1>12, <1>13, <1>14, <1>15, <1>16, <1>17
     DEF Next, LoopStep, WorkerStep, DeviceOrHostEnds, SeesConnCancelled

\* IInv holds in every state.
LEMMA Invariant == Spec => []IInv
  BY IInvInit, IInvStep, PTL DEF Spec

\* OneVerdict survives a packet for an URB that none settles yet.
LEMMA SendKeepsOneVerdict ==
    ASSUME TypeOK, NEW pkt \in Packets, Send(pkt), OneVerdict,
           Settles(pkt) => pkt.urb \notin SettledUrbs
    PROVE  OneVerdict'
<1> SUFFICES ASSUME NEW i \in 1..Len(sent'), NEW j \in 1..Len(sent'),
                    Settles(sent'[i]), Settles(sent'[j]), sent'[i].urb = sent'[j].urb
             PROVE  i = j
  BY DEF OneVerdict
<1>1. Len(sent) \in Nat /\ pkt.urb \in Urbs
  BY LenProperties DEF TypeOK, Packets
<1>2. ASSUME NEW k \in 1..Len(sent), Settles(sent[k]), Settles(pkt)
      PROVE  sent[k].urb # pkt.urb
  BY <1>1, <1>2 DEF SettledUrbs
<1>3. /\ \/ i \in 1..Len(sent) /\ sent'[i] = sent[i]
         \/ i = Len(sent) + 1 /\ sent'[i] = pkt
      /\ \/ j \in 1..Len(sent) /\ sent'[j] = sent[j]
         \/ j = Len(sent) + 1 /\ sent'[j] = pkt
  BY SendAppends DEF TypeOK
<1> QED
  BY <1>1, <1>2, <1>3 DEF OneVerdict

\* Which steps send a packet, and that it settles no settled URB.
LEMMA VerdictStep == IInv /\ OneVerdict /\ [Next]_vars => OneVerdict'
<1> SUFFICES ASSUME IInv, OneVerdict, [Next]_vars PROVE OneVerdict'
  OBVIOUS
<1>t. TypeOK /\ Hands /\ SentInv /\ LoopInv /\ JobInv
  BY DEF IInv, TypeInv
<1>u. \A u \in Urbs : u \in Nat
  BY ConstantsAssumption DEF ConstantsAssumption, Urbs
<1>1. CASE SubmitControl
  <2>1. /\ RetSubmit(next) \in Packets /\ Send(RetSubmit(next))
        /\ RetSubmit(next).urb = next
    BY <1>1 DEF SubmitControl, RetSubmit, Packets
  <2>2. next \notin SettledUrbs
    BY <1>1, <1>t, <1>u DEF SubmitControl, SettledUrbs, SentInv, Frontier
  <2> QED
    BY <1>t, <2>1, <2>2, SendKeepsOneVerdict
<1>2. CASE UnlinkReply
  <2> DEFINE pkt == RetUnlink(loopUrb, loop = "unlink_hit")
  <2>1. /\ pkt \in Packets /\ Send(pkt) /\ pkt.urb = loopUrb
        /\ Settles(pkt) => loop = "unlink_hit"
    BY <1>2, <1>t DEF UnlinkReply, RetUnlink, Packets, Hands, Settles
  <2> HIDE DEF pkt
  <2>2. Settles(pkt) => pkt.urb \notin SettledUrbs
    BY <1>t, <2>1 DEF LoopInv
  <2> QED
    BY <1>t, <2>1, <2>2, SendKeepsOneVerdict
<1>3. ASSUME NEW e \in Eps, Reply(e) PROVE OneVerdict'
  <2>1. /\ RetSubmit(job[e]) \in Packets /\ Send(RetSubmit(job[e]))
        /\ RetSubmit(job[e]).urb = job[e]
    BY <1>3, <1>t DEF Reply, RetSubmit, Packets, Hands
  <2>2. job[e] \notin SettledUrbs
    BY <1>3, <1>t DEF Reply, JobInv
  <2> QED
    BY <1>t, <2>1, <2>2, SendKeepsOneVerdict
<1>4. CASE sent' = sent
  BY <1>4 DEF OneVerdict
<1>5. \/ SubmitControl \/ UnlinkReply \/ (\E e \in Eps : Reply(e))
      \/ sent' = sent
  BY DEF Next, LoopStep, WorkerStep, WriterStep, vars, SubmitIn, SubmitOutHeader,
         OutPayload, OutPayloadEof, Unlink, DeviceOrHostEnds, SeesConnCancelled, Break,
         Return, Receive, QueueClosed, TransferDone, Claim, TokenCancelled,
         ConnCancelled, WriteOne, WriteFails, WriterDrained, Finished
<1> QED
  BY <1>1, <1>2, <1>3, <1>4, <1>5

\* However the workers, the URB loop and the writer interleave, an URB is settled
\* at most once: by one RET_SUBMIT, or by one RET_UNLINK -ECONNRESET.
THEOREM AtMostOneVerdict == Spec => []OneVerdict
<1>1. Init => OneVerdict
  BY DEF Init, OneVerdict
<1> QED
  BY <1>1, Invariant, VerdictStep, PTL DEF Spec

-----------------------------------------------------------------------------
(* What was taken back in the queue is never started. *)

\* A worker takes up an URB only while it is pending.
LEMMA StartStep ==
    ASSUME IInv, [Next]_vars, NEW e \in Eps, job'[e] # job[e], job'[e] # NoUrb
    PROVE  verdict[job'[e]] = "none"
<1>t. TypeOK /\ PendingInv
  BY DEF IInv, TypeInv
<1>1. CASE Receive(e)
  BY <1>1, <1>t DEF Receive, TypeOK, PendingInv
<1>2. ASSUME NEW d \in Eps,
             \/ (Receive(d) /\ d # e) \/ Claim(d) \/ Reply(d)
             \/ TokenCancelled(d) \/ ConnCancelled(d)
      PROVE  job'[e] \in {job[e], NoUrb}
  BY <1>2, <1>t DEF Receive, Claim, Reply, TokenCancelled, ConnCancelled, TypeOK
<1>3. CASE job' = job
  BY <1>3
<1>4. \/ job' = job
      \/ \E d \in Eps : \/ Receive(d) \/ Claim(d) \/ Reply(d)
                       \/ TokenCancelled(d) \/ ConnCancelled(d)
  BY DEF Next, LoopStep, WorkerStep, WriterStep, vars, workerVars, SubmitControl,
         SubmitIn, SubmitOutHeader, OutPayload, OutPayloadEof, Unlink, UnlinkReply,
         DeviceOrHostEnds, SeesConnCancelled, Break, Return, QueueClosed,
         TransferDone, WriteOne, WriteFails, WriterDrained, Finished
<1> QED
  BY <1>1, <1>2, <1>3, <1>4

\* The persona never sees a transfer that the host took back while it was queued.
THEOREM UnlinkedNeverStarts == Spec => NeverStartsUnlinked
<1>1. IInv /\ [Next]_vars =>
        [\A e \in Eps : job'[e] # job[e] /\ job'[e] # NoUrb
            => verdict[job'[e]] = "none"]_vars
  BY StartStep
<1> QED
  BY <1>1, Invariant, PTL DEF Spec, NeverStartsUnlinked
-----------------------------------------------------------------------------
(* No URB is left without a task that would answer it. *)

\* A worker ends only when the connection does.
ExitInv == \A e \in Eps : worker[e] = "exited" => connCancelled \/ loop \notin Running

\* Someone has the URB: its endpoint's queue, or the worker before its claim.
Owned(u) ==
    \/ \E i \in 1..Len(queue[epOf[u]]) : queue[epOf[u]][i] = u
    \/ worker[epOf[u]] \in {"transfer", "claim"} /\ job[epOf[u]] = u

\* Dispatch puts the URB in the queue and moves no other.
LEMMA DispatchOwns ==
    ASSUME TypeOK, NEW u \in Urbs, NEW e \in Eps, Dispatch(u, e)
    PROVE  /\ \A d \in Eps : \A i \in 1..Len(queue[d]) :
                 i \in 1..Len(queue'[d]) /\ queue'[d][i] = queue[d][i]
           /\ worker[e] # "exited" => \E i \in 1..Len(queue'[e]) : queue'[e][i] = u
           /\ \A d \in Eps : worker[d] # "none" => worker'[d] = worker[d]
           /\ \A d \in Eps : worker'[d] = "exited" => worker[d] = "exited"
<1>1. \A d \in Eps : queue[d] \in Seq(Urbs) /\ Len(queue[d]) \in Nat
  BY LenProperties DEF TypeOK
<1>2. /\ worker[e] # "exited" => queue'[e] = Append(queue[e], u)
      /\ worker[e] = "exited" => queue'[e] = queue[e]
      /\ \A d \in Eps : d # e => queue'[d] = queue[d]
  BY DEF Dispatch, TypeOK
<1>3. /\ Append(queue[e], u) \in Seq(Urbs)
      /\ Len(Append(queue[e], u)) = Len(queue[e]) + 1
      /\ \A i \in 1..Len(queue[e]) : Append(queue[e], u)[i] = queue[e][i]
      /\ Append(queue[e], u)[Len(queue[e]) + 1] = u
  BY <1>1, AppendProperties
<1>4. ASSUME NEW d \in Eps, NEW i \in 1..Len(queue[d])
      PROVE  i \in 1..Len(queue'[d]) /\ queue'[d][i] = queue[d][i]
  <2>1. CASE d # e \/ worker[e] = "exited"
    <3>1. queue'[d] = queue[d]
      BY <1>2, <2>1
    <3> QED
      BY <3>1
  <2>2. CASE d = e /\ worker[e] # "exited"
    <3>1. queue'[e] = Append(queue[e], u) /\ d = e
      BY <1>2, <2>2
    <3>2. i \in 1..Len(Append(queue[e], u))
      BY <1>1, <1>3, <3>1
    <3> QED
      BY <1>3, <3>1, <3>2
  <2> QED
    BY <2>1, <2>2
<1>5. ASSUME worker[e] # "exited"
      PROVE  \E i \in 1..Len(queue'[e]) : queue'[e][i] = u
  <2>1. queue'[e] = Append(queue[e], u)
    BY <1>2, <1>5
  <2>2. Len(queue[e]) + 1 \in 1..Len(Append(queue[e], u))
    BY <1>1, <1>3
  <2> QED
    BY <1>3, <2>1, <2>2
<1>6. \A d \in Eps : /\ worker[d] # "none" => worker'[d] = worker[d]
                     /\ worker'[d] = "exited" => worker[d] = "exited"
  BY DEF Dispatch, TypeOK
<1> QED
  BY <1>4, <1>5, <1>6

\* The steps that leave the queues, the workers and what is known of them alone,
\* and put nothing into `pending`.
LEMMA OwnedStays ==
    ASSUME NoUrbStranded, pending' \subseteq pending,
           connCancelled => connCancelled',
           \A u \in pending' : epOf'[u] = epOf[u],
           UNCHANGED workerVars
    PROVE  NoUrbStranded'
  BY DEF NoUrbStranded, workerVars

\* Every step keeps each pending URB in somebody's hands.
LEMMA StrandedStep ==
    ASSUME IInv, ExitInv, NoUrbStranded, [Next]_vars
    PROVE  ExitInv' /\ NoUrbStranded'
<1>t. TypeOK /\ Hands /\ PendingInv /\ LoopInv /\ JobInv /\ QueueInv
  BY DEF IInv, TypeInv
<1>q. \A e \in Eps : queue[e] \in Seq(Urbs) /\ Len(queue[e]) \in Nat
  BY <1>t, LenProperties DEF TypeOK
<1>p. ASSUME NEW u \in pending
      PROVE  u \in Urbs /\ epOf[u] \in Eps /\ u < Frontier /\ verdict[u] = "none"
  BY <1>t DEF PendingInv, TypeOK
<1>u. \A u \in Urbs : u \in Nat
  BY ConstantsAssumption DEF ConstantsAssumption, Urbs
<1>n. ASSUME NEW u \in pending, loop # "payload" PROVE u # next
  <2>1. u \in Nat /\ u < next
    BY <1>p, <1>u, <1>n DEF Frontier
  <2> QED
    BY <2>1
<1>1. CASE SubmitControl \/ UnlinkReply \/ OutPayloadEof \/ Return
  BY <1>1, <1>t, OwnedStays
     DEF SubmitControl, UnlinkReply, OutPayloadEof, Return, ExitInv, workerVars,
         Running
<1>2. CASE Break
  BY <1>2, OwnedStays DEF Break, ExitInv, workerVars
<1>3. ASSUME NEW e \in InEps, SubmitIn(e) PROVE ExitInv' /\ NoUrbStranded'
  <2>1. /\ next \in Urbs /\ e \in Eps /\ Dispatch(next, e) /\ loop = "header"
        /\ loop' = loop /\ connCancelled' = connCancelled /\ job' = job
        /\ epOf'[next] = e
        /\ \A v \in Urbs : v # next => epOf'[v] = epOf[v]
        /\ pending' = pending \cup {next}
    BY <1>3, <1>t DEF SubmitIn, Dispatch, TypeOK, Eps
  <2>2. ExitInv'
    BY <1>t, <2>1, DispatchOwns DEF ExitInv
  <2>3. ASSUME NEW u \in pending' PROVE connCancelled' \/ Owned(u)'
    <3>1. CASE u = next
      BY <1>t, <2>1, <3>1, DispatchOwns DEF ExitInv, Running, Owned
    <3>2. CASE u # next
      <4>1. u \in pending /\ epOf[u] \in Eps /\ epOf'[u] = epOf[u]
        BY <1>p, <2>1, <2>3, <3>2
      <4>2. connCancelled \/ Owned(u)
        BY <4>1 DEF NoUrbStranded, Owned
      <4> QED
        BY <1>t, <2>1, <4>1, <4>2, DispatchOwns DEF Owned
    <3> QED
      BY <3>1, <3>2
  <2> QED
    BY <2>2, <2>3 DEF NoUrbStranded, Owned
<1>4. ASSUME NEW e \in OutEps, SubmitOutHeader(e) PROVE ExitInv' /\ NoUrbStranded'
  <2>1. \A u \in pending : epOf'[u] = epOf[u]
    BY <1>4, <1>t, <1>p, <1>n DEF SubmitOutHeader, TypeOK
  <2> QED
    BY <1>4, <2>1, OwnedStays DEF SubmitOutHeader, ExitInv, workerVars, Running
<1>5. CASE OutPayload
  <2> DEFINE e == epOf[loopUrb]
  <2>1. /\ loopUrb \in Urbs /\ e \in Eps /\ Dispatch(loopUrb, e)
        /\ loop \in Running /\ loop' \in Running /\ connCancelled' = connCancelled
        /\ job' = job /\ epOf' = epOf
        /\ pending' = pending \cup {loopUrb}
    BY <1>5, <1>t DEF OutPayload, Dispatch, Hands, Running
  <2> HIDE DEF e
  <2>2. ExitInv'
    BY <1>t, <2>1, DispatchOwns DEF ExitInv
  <2>3. ASSUME NEW u \in pending' PROVE connCancelled' \/ Owned(u)'
    <3>1. CASE u = loopUrb
      BY <1>t, <2>1, <3>1, DispatchOwns DEF ExitInv, Owned, e
    <3>2. CASE u # loopUrb
      <4>1. u \in pending /\ epOf[u] \in Eps /\ epOf'[u] = epOf[u]
        BY <1>p, <2>1, <2>3, <3>2
      <4>2. connCancelled \/ Owned(u)
        BY <4>1 DEF NoUrbStranded, Owned
      <4> QED
        BY <1>t, <2>1, <4>1, <4>2, DispatchOwns DEF Owned
    <3> QED
      BY <3>1, <3>2
  <2> QED
    BY <2>2, <2>3 DEF NoUrbStranded, Owned
<1>6. ASSUME NEW e \in Eps, Receive(e) PROVE ExitInv' /\ NoUrbStranded'
  <2>1. /\ queue[e] # << >> /\ worker[e] = "recv"
        /\ queue' = [queue EXCEPT ![e] = Tail(queue[e])]
        /\ UNCHANGED <<loop, epOf, pending, connCancelled>>
        /\ \A d \in Eps : d # e => worker'[d] = worker[d] /\ job'[d] = job[d]
        /\ worker'[e] \in {"transfer", "recv"}
        /\ Head(queue[e]) \in pending => worker'[e] = "transfer" /\ job'[e] = Head(queue[e])
    BY <1>6, <1>t DEF Receive, TypeOK, loopVars
  <2>2. ExitInv'
    BY <2>1 DEF ExitInv
  <2>3. ASSUME NEW u \in pending PROVE connCancelled \/ Owned(u)'
    <3>1. connCancelled \/ Owned(u)
      BY <2>3 DEF NoUrbStranded, Owned
    <3>2. CASE epOf[u] # e
      BY <1>p, <1>t, <2>1, <3>1, <3>2 DEF Owned, TypeOK
    <3>3. ASSUME epOf[u] = e, NEW i \in 1..Len(queue[e]), queue[e][i] = u
          PROVE  Owned(u)'
      <4>1. CASE i = 1
        BY <2>1, <2>3, <3>3, <4>1 DEF Owned
      <4>2. CASE i # 1
        <5>1. i - 1 \in 1..Len(Tail(queue[e])) /\ Tail(queue[e])[i - 1] = u
          BY <1>q, <2>1, <3>3, <4>2
        <5>2. queue'[e] = Tail(queue[e]) /\ epOf'[u] = e
          BY <1>t, <2>1, <3>3 DEF TypeOK
        <5> QED
          BY <5>1, <5>2 DEF Owned
      <4> QED
        BY <4>1, <4>2
    <3> QED
      BY <2>1, <3>1, <3>2, <3>3 DEF Owned
  <2> QED
    BY <2>1, <2>2, <2>3 DEF NoUrbStranded, Owned
<1>7. ASSUME NEW e \in Eps, QueueClosed(e) PROVE ExitInv' /\ NoUrbStranded'
  <2>1. /\ worker[e] = "recv" /\ Len(queue[e]) = 0 /\ loop \notin Running
        /\ UNCHANGED <<loop, epOf, pending, connCancelled, queue, job>>
        /\ worker' = [worker EXCEPT ![e] = "exited"]
    BY <1>7 DEF QueueClosed, loopVars
  <2>2. ASSUME NEW u \in pending PROVE connCancelled \/ Owned(u)'
    BY <1>t, <1>p, <2>1, <2>2 DEF NoUrbStranded, Owned, TypeOK
  <2> QED
    BY <1>t, <2>1, <2>2 DEF ExitInv, NoUrbStranded, Owned, TypeOK
<1>8. ASSUME NEW e \in Eps, TransferDone(e) PROVE ExitInv' /\ NoUrbStranded'
  BY <1>8, <1>t, <1>p DEF TransferDone, ExitInv, NoUrbStranded, TypeOK, loopVars
<1>9. ASSUME NEW e \in Eps, Claim(e) \/ Reply(e) \/ TokenCancelled(e)
      PROVE  ExitInv' /\ NoUrbStranded'
  <2>1. /\ UNCHANGED <<loop, epOf, connCancelled, queue>>
        /\ pending' \subseteq pending
        /\ \A d \in Eps : d # e => worker'[d] = worker[d] /\ job'[d] = job[d]
        /\ worker'[e] # "exited"
    BY <1>9, <1>t DEF Claim, Reply, TokenCancelled, TypeOK, loopVars
  <2>2. worker[e] \in {"transfer", "claim"} => job[e] \notin pending'
    BY <1>9, <1>t DEF Claim, Reply, TokenCancelled, LoopInv, PendingInv
  <2>3. ASSUME NEW u \in pending' PROVE connCancelled \/ Owned(u)'
    <3>1. u \in pending /\ (connCancelled \/ Owned(u)) /\ epOf[u] \in Eps
      BY <1>p, <2>1, <2>3 DEF NoUrbStranded, Owned
    <3> QED
      BY <2>1, <2>2, <2>3, <3>1 DEF Owned
  <2> QED
    BY <2>1, <2>3 DEF ExitInv, NoUrbStranded, Owned
<1>10. ASSUME NEW e \in Eps, ConnCancelled(e) PROVE ExitInv' /\ NoUrbStranded'
  BY <1>10, <1>t DEF ConnCancelled, ExitInv, NoUrbStranded, TypeOK, loopVars
<1>11. CASE WriterStep \/ Finished \/ UNCHANGED vars
  <2>1. /\ UNCHANGED <<loopVars, pending, workerVars>>
        /\ connCancelled => connCancelled'
    BY <1>11 DEF WriterStep, WriteOne, WriteFails, WriterDrained, Finished, vars
  <2>2. NoUrbStranded'
    BY <2>1, OwnedStays DEF loopVars
  <2>3. ExitInv'
    BY <2>1 DEF ExitInv, loopVars, workerVars
  <2> QED
    BY <2>2, <2>3
<1>12. ASSUME NEW u \in Urbs, Unlink(u) PROVE ExitInv' /\ NoUrbStranded'
  BY <1>12, OwnedStays DEF Unlink, ExitInv, workerVars, Running
<1> QED
  BY <1>1, <1>2, <1>3, <1>4, <1>5, <1>6, <1>7, <1>8, <1>9, <1>10, <1>11, <1>12
     DEF Next, LoopStep, WorkerStep, DeviceOrHostEnds, SeesConnCancelled

\* Until the connection is cancelled, every URB that waits for its answer is in
\* its endpoint's queue or in its worker's hands, for any number of endpoints.
THEOREM NobodyStranded == Spec => []NoUrbStranded
<1>1. Init => ExitInv /\ NoUrbStranded
  BY DEF Init, ExitInv, NoUrbStranded
<1>2. IInv /\ ExitInv /\ NoUrbStranded /\ [Next]_vars => ExitInv' /\ NoUrbStranded'
  BY StrandedStep
<1> QED
  BY <1>1, <1>2, Invariant, PTL DEF Spec
-----------------------------------------------------------------------------
(* The answers of an endpoint keep the order of its URBs. *)

\* URB u comes before all that the worker of e has in hand or in its queue.
Precedes(u, e) ==
    /\ \A i \in 1..Len(queue[e]) : u < queue[e][i]
    /\ job[e] # NoUrb => u < job[e]

\* The queue of an endpoint is in the order of submission ...
QueueSorted ==
    \A e \in Eps : \A i, j \in 1..Len(queue[e]) : i < j => queue[e][i] < queue[e][j]

\* ... the URB its worker holds is older ...
JobFirst ==
    \A e \in Eps : job[e] # NoUrb =>
        \A i \in 1..Len(queue[e]) : job[e] < queue[e][i]

\* ... and the URBs it has answered are older still.
SentFirst ==
    \A k \in 1..Len(sent) : sent[k].ret = "submit" =>
        \A e \in Eps : epOf[sent[k].urb] = e => Precedes(sent[k].urb, e)

\* An URB the loop has not read yet has no endpoint.
UnreadInv == \A u \in Urbs : u >= next => epOf[u] = NoEp

OrderInv == QueueSorted /\ JobFirst /\ SentFirst /\ UnreadInv

\* A dispatched URB is the newest of all, so it may go to the end of a queue.
LEMMA DispatchOrder ==
    ASSUME TypeOK, QueueInv, JobInv, Hands, QueueSorted, JobFirst,
           NEW u \in Urbs, u = Frontier, NEW e \in Eps, Dispatch(u, e), job' = job
    PROVE  /\ QueueSorted' /\ JobFirst'
           /\ \A v \in Urbs : \A d \in Eps :
                 v < u /\ Precedes(v, d) => Precedes(v, d)'
<1>n. u \in Nat /\ \A v \in Urbs : v \in Nat
  BY ConstantsAssumption DEF ConstantsAssumption, Urbs
<1>q. \A d \in Eps : /\ queue[d] \in Seq(Urbs) /\ Len(queue[d]) \in Nat
                     /\ \A i \in 1..Len(queue[d]) : queue[d][i] \in Nat
  BY <1>n, LenProperties, ElementOfSeq DEF TypeOK
<1>1. /\ worker[e] # "exited" => queue'[e] = Append(queue[e], u)
      /\ worker[e] = "exited" => queue'[e] = queue[e]
      /\ \A d \in Eps : d # e => queue'[d] = queue[d]
  BY DEF Dispatch, TypeOK
<1>2. /\ Len(Append(queue[e], u)) = Len(queue[e]) + 1
      /\ \A i \in 1..Len(queue[e]) : Append(queue[e], u)[i] = queue[e][i]
      /\ Append(queue[e], u)[Len(queue[e]) + 1] = u
  BY <1>q, AppendProperties
<1>3. \A d \in Eps : \A i \in 1..Len(queue[d]) : queue[d][i] < u
  BY DEF QueueInv
<1>4. ASSUME NEW d \in Eps, job[d] # NoUrb PROVE job[d] \in Nat /\ job[d] < u
  BY <1>4, <1>n DEF JobInv, Hands
<1>5. ASSUME NEW d \in Eps
      PROVE  /\ \A i, j \in 1..Len(queue'[d]) : i < j => queue'[d][i] < queue'[d][j]
             /\ job'[d] # NoUrb => \A i \in 1..Len(queue'[d]) : job'[d] < queue'[d][i]
             /\ \A v \in Urbs : v < u /\ Precedes(v, d) => Precedes(v, d)'
  <2>1. CASE d # e \/ worker[e] = "exited"
    <3>1. queue'[d] = queue[d]
      BY <1>1, <2>1
    <3> QED
      BY <3>1 DEF QueueSorted, JobFirst, Precedes
  <2>2. CASE d = e /\ worker[e] # "exited"
    <3>1. queue'[d] = Append(queue[e], u) /\ d = e
      BY <1>1, <2>2
    <3>2. /\ Len(queue'[d]) = Len(queue[d]) + 1 /\ Len(queue[d]) \in Nat
          /\ \A i \in 1..Len(queue[d]) : queue'[d][i] = queue[d][i]
          /\ queue'[d][Len(queue[d]) + 1] = u
      BY <1>2, <1>q, <3>1
    <3>3. ASSUME NEW i \in 1..Len(queue'[d]), NEW j \in 1..Len(queue'[d]), i < j
          PROVE  queue'[d][i] < queue'[d][j]
      <4>1. i \in 1..Len(queue[d]) /\ queue'[d][i] = queue[d][i]
        BY <3>2, <3>3
      <4>2. CASE j \in 1..Len(queue[d])
        <5>1. queue'[d][j] = queue[d][j]
          BY <3>2, <4>2
        <5> QED
          BY <3>3, <4>1, <4>2, <5>1 DEF QueueSorted
      <4>3. CASE j = Len(queue[d]) + 1
        BY <1>3, <3>2, <4>1, <4>3
      <4> QED
        BY <3>2, <4>2, <4>3
    <3>4. ASSUME NEW v, v < u, \A i \in 1..Len(queue[d]) : v < queue[d][i]
          PROVE  \A i \in 1..Len(queue'[d]) : v < queue'[d][i]
      BY <3>2, <3>4
    <3>5. job'[d] # NoUrb => \A i \in 1..Len(queue'[d]) : job'[d] < queue'[d][i]
      BY <1>4, <3>4 DEF JobFirst
    <3>6. ASSUME NEW v \in Urbs, v < u, Precedes(v, d) PROVE Precedes(v, d)'
      BY <3>4, <3>6 DEF Precedes
    <3> QED
      BY <3>3, <3>5, <3>6
  <2> QED
    BY <2>1, <2>2
<1> QED
  BY <1>5 DEF QueueSorted, JobFirst

\* A step that sends nothing and gives no answered URB another endpoint keeps
\* the order of the answers.
LEMMA NothingSent ==
    ASSUME EndpointOrder, sent' = sent,
           \A k \in 1..Len(sent) : epOf'[sent[k].urb] = epOf[sent[k].urb]
    PROVE  EndpointOrder'
  BY DEF EndpointOrder

\* Sending the answer of an URB that no answer of its endpoint is newer than.
LEMMA SendKeepsOrder ==
    ASSUME EndpointOrder, sent \in Seq(Packets), NEW pkt \in Packets, Send(pkt),
           epOf' = epOf,
           pkt.ret = "submit" =>
              \A k \in 1..Len(sent) :
                 sent[k].ret = "submit" /\ epOf[sent[k].urb] = epOf[pkt.urb]
                    => sent[k].urb < pkt.urb
    PROVE  EndpointOrder'
<1>n. Len(sent) \in Nat /\ Len(sent') \in Nat
  BY SendAppends, LenProperties
<1>1. \A k \in 1..Len(sent') :
         \/ k \in 1..Len(sent) /\ sent'[k] = sent[k]
         \/ k = Len(sent) + 1 /\ sent'[k] = pkt
  BY SendAppends
<1> SUFFICES ASSUME NEW i \in 1..Len(sent'), NEW j \in 1..Len(sent'),
                    sent'[i].ret = "submit", sent'[j].ret = "submit",
                    epOf[sent'[i].urb] = epOf[sent'[j].urb], i < j
             PROVE  sent'[i].urb < sent'[j].urb
  BY DEF EndpointOrder
<1>2. i \in 1..Len(sent) /\ sent'[i] = sent[i]
  BY <1>n, <1>1
<1>3. CASE j \in 1..Len(sent) /\ sent'[j] = sent[j]
  BY <1>2, <1>3 DEF EndpointOrder
<1>4. CASE sent'[j] = pkt
  BY <1>2, <1>4
<1> QED
  BY <1>1, <1>3, <1>4

\* A packet more, of an URB that precedes what its endpoint still has.
LEMMA SendKeepsSentFirst ==
    ASSUME SentFirst, sent \in Seq(Packets), NEW pkt \in Packets, Send(pkt),
           epOf' = epOf,
           \A u \in Urbs : \A d \in Eps : Precedes(u, d) => Precedes(u, d)',
           pkt.ret = "submit" =>
              \A d \in Eps : epOf[pkt.urb] = d => Precedes(pkt.urb, d)'
    PROVE  SentFirst'
<1> SUFFICES ASSUME NEW k \in 1..Len(sent'), sent'[k].ret = "submit", NEW d \in Eps,
                    epOf[sent'[k].urb] = d, NEW u, u = sent'[k].urb
             PROVE  Precedes(u, d)'
  BY DEF SentFirst, Precedes
<1>1. CASE k \in 1..Len(sent) /\ sent'[k] = sent[k]
  <2>1. sent[k] \in Packets
    BY <1>1, ElementOfSeq
  <2>2. u \in Urbs /\ Precedes(u, d)
    BY <1>1, <2>1 DEF SentFirst, Packets
  <2> QED
    BY <2>2
<1>2. CASE sent'[k] = pkt
  BY <1>2 DEF Precedes
<1> QED
  BY <1>1, <1>2, SendAppends

\* The order of the answers is inductive.
LEMMA OrderStep ==
    ASSUME IInv, OrderInv, EndpointOrder, [Next]_vars
    PROVE  OrderInv' /\ EndpointOrder'
<1>t. TypeOK /\ Hands /\ PendingInv /\ LoopInv /\ SentInv /\ JobInv /\ QueueInv
  BY DEF IInv, TypeInv
<1>o. QueueSorted /\ JobFirst /\ SentFirst /\ UnreadInv
  BY DEF OrderInv
<1>a. MaxSeq \in Nat /\ NoEp \notin Eps
  BY ConstantsAssumption DEF ConstantsAssumption
<1>n. next \in Nat /\ \A v \in Urbs : v \in Nat
  BY <1>a, <1>t DEF TypeOK, Urbs
<1>s. \A k \in 1..Len(sent) : sent[k] \in Packets /\ sent[k].urb \in Urbs
  <2>1. sent \in Seq(Packets)
    BY <1>t DEF TypeOK
  <2>2. \A k \in 1..Len(sent) : sent[k] \in Packets
    BY <2>1, ElementOfSeq
  <2> QED
    BY <2>2 DEF Packets
<1>q. \A e \in Eps : /\ queue[e] \in Seq(Urbs) /\ Len(queue[e]) \in Nat
                     /\ \A i \in 1..Len(queue[e]) : queue[e][i] \in Urbs
  BY <1>t, LenProperties, ElementOfSeq DEF TypeOK
<1>1. CASE SubmitControl
  <2>1. /\ next \in Urbs /\ RetSubmit(next) \in Packets /\ Send(RetSubmit(next))
        /\ RetSubmit(next).urb = next /\ Frontier = next /\ next' = next + 1
        /\ UNCHANGED <<epOf, queue, job>>
    BY <1>1, PacketsTyped DEF SubmitControl, RetSubmit, Frontier, workerVars
  <2>2. EndpointOrder'
    BY <1>t, <2>1, SendKeepsOrder DEF SentInv, TypeOK
  <2>3. epOf[next] \notin Eps
    BY <1>a, <1>n, <1>o, <2>1 DEF UnreadInv
  <2>4. SentFirst'
    <3>1. sent \in Seq(Packets)
      BY <1>t DEF TypeOK
    <3>2. \A u \in Urbs : \A d \in Eps : Precedes(u, d) => Precedes(u, d)'
      BY <2>1 DEF Precedes
    <3>3. \A d \in Eps : epOf[RetSubmit(next).urb] # d
      BY <2>1, <2>3
    <3> QED
      BY <1>o, <2>1, <3>1, <3>2, <3>3, SendKeepsSentFirst
  <2>5. QueueSorted' /\ JobFirst' /\ UnreadInv'
    BY <1>n, <1>o, <2>1 DEF QueueSorted, JobFirst, UnreadInv
  <2> QED
    BY <2>2, <2>4, <2>5 DEF OrderInv
<1>2. ASSUME NEW e \in InEps, SubmitIn(e) PROVE OrderInv' /\ EndpointOrder'
  <2>1. /\ next \in Urbs /\ Frontier = next /\ next' = next + 1 /\ e \in Eps
        /\ Dispatch(next, e) /\ job' = job /\ sent' = sent
        /\ \A v \in Urbs : v # next => epOf'[v] = epOf[v]
    BY <1>2, <1>t DEF SubmitIn, Frontier, Eps, TypeOK
  <2>2. /\ QueueSorted' /\ JobFirst'
        /\ \A v \in Urbs : \A d \in Eps :
              v < next /\ Precedes(v, d) => Precedes(v, d)'
    BY <1>t, <1>o, <2>1, DispatchOrder
  <2>3. \A k \in 1..Len(sent) :
           sent[k].urb < next /\ epOf'[sent[k].urb] = epOf[sent[k].urb]
    <3>1. \A k \in 1..Len(sent) : sent[k].urb < next
      BY <1>t, <2>1 DEF SentInv
    <3>2. \A k \in 1..Len(sent) : sent[k].urb \in Urbs /\ sent[k].urb # next
      BY <1>n, <1>s, <3>1
    <3> QED
      BY <2>1, <3>1, <3>2
  <2>4. SentFirst'
    <3> SUFFICES ASSUME NEW k \in 1..Len(sent), sent[k].ret = "submit", NEW d \in Eps,
                        epOf[sent[k].urb] = d
                 PROVE  Precedes(sent[k].urb, d)'
      BY <2>1, <2>3 DEF SentFirst, Precedes
    <3>1. Precedes(sent[k].urb, d)
      BY <1>o DEF SentFirst
    <3> QED
      BY <1>s, <2>1, <2>2, <2>3, <3>1 DEF Precedes
  <2>5. UnreadInv'
    BY <1>n, <1>o, <2>1 DEF UnreadInv
  <2> QED
    BY <2>1, <2>2, <2>3, <2>4, <2>5, NothingSent DEF OrderInv
<1>3. ASSUME NEW e \in OutEps, SubmitOutHeader(e) PROVE OrderInv' /\ EndpointOrder'
  <2>1. /\ next \in Urbs /\ Frontier = next /\ next' = next + 1
        /\ UNCHANGED <<queue, job, sent>>
        /\ \A v \in Urbs : v # next => epOf'[v] = epOf[v]
    BY <1>3, <1>t DEF SubmitOutHeader, Frontier, TypeOK, workerVars
  <2>2. \A k \in 1..Len(sent) :
           sent[k].urb < next /\ epOf'[sent[k].urb] = epOf[sent[k].urb]
    <3>1. \A k \in 1..Len(sent) : sent[k].urb < next
      BY <1>t, <2>1 DEF SentInv
    <3>2. \A k \in 1..Len(sent) : sent[k].urb \in Urbs /\ sent[k].urb # next
      BY <1>n, <1>s, <3>1
    <3> QED
      BY <2>1, <3>1, <3>2
  <2>3. QueueSorted' /\ JobFirst' /\ SentFirst'
    BY <1>o, <2>1, <2>2 DEF QueueSorted, JobFirst, SentFirst, Precedes
  <2>4. UnreadInv'
    BY <1>n, <1>o, <2>1 DEF UnreadInv
  <2> QED
    BY <2>1, <2>2, <2>3, <2>4, NothingSent DEF OrderInv
<1>4. CASE OutPayload
  <2> DEFINE e == epOf[loopUrb]
  <2>1. /\ loopUrb \in Urbs /\ e \in Eps /\ Dispatch(loopUrb, e)
        /\ Frontier = loopUrb /\ UNCHANGED <<job, sent, epOf, next>>
    BY <1>4, <1>t DEF OutPayload, Hands, Frontier
  <2> HIDE DEF e
  <2>2. /\ QueueSorted' /\ JobFirst'
        /\ \A v \in Urbs : \A d \in Eps :
              v < loopUrb /\ Precedes(v, d) => Precedes(v, d)'
    BY <1>t, <1>o, <2>1, DispatchOrder
  <2>3. SentFirst'
    <3> SUFFICES ASSUME NEW k \in 1..Len(sent), sent[k].ret = "submit", NEW d \in Eps,
                        epOf[sent[k].urb] = d
                 PROVE  Precedes(sent[k].urb, d)'
      BY <2>1 DEF SentFirst, Precedes
    <3>1. Precedes(sent[k].urb, d) /\ sent[k].urb < loopUrb
      BY <1>o, <1>t, <2>1 DEF SentFirst, SentInv
    <3> QED
      BY <1>s, <2>1, <2>2, <3>1 DEF Precedes
  <2> QED
    BY <1>o, <2>1, <2>2, <2>3, NothingSent DEF OrderInv, UnreadInv
<1>5. CASE UnlinkReply
  <2> DEFINE pkt == RetUnlink(loopUrb, loop = "unlink_hit")
  <2>1. /\ loopUrb \in Urbs /\ pkt \in Packets /\ pkt.ret # "submit" /\ Send(pkt)
        /\ UNCHANGED <<epOf, queue, job, next>>
    BY <1>5, <1>t, PacketsTyped DEF UnlinkReply, Hands, RetUnlink, workerVars
  <2> HIDE DEF pkt
  <2>2. EndpointOrder'
    BY <1>t, <2>1, SendKeepsOrder DEF TypeOK
  <2>3. SentFirst'
    <3>1. sent \in Seq(Packets)
      BY <1>t DEF TypeOK
    <3>2. \A u \in Urbs : \A d \in Eps : Precedes(u, d) => Precedes(u, d)'
      BY <2>1 DEF Precedes
    <3> QED
      BY <1>o, <2>1, <3>1, <3>2, SendKeepsSentFirst
  <2>4. QueueSorted' /\ JobFirst' /\ UnreadInv'
    BY <1>o, <2>1 DEF QueueSorted, JobFirst, UnreadInv
  <2> QED
    BY <2>2, <2>3, <2>4 DEF OrderInv
<1>6. ASSUME NEW e \in Eps, Receive(e) PROVE OrderInv' /\ EndpointOrder'
  <2>1. /\ UNCHANGED <<sent, epOf, next>> /\ job[e] = NoUrb
        /\ \A d \in Eps : d # e => queue'[d] = queue[d] /\ job'[d] = job[d]
        /\ queue'[e] = Tail(queue[e])
        /\ job'[e] # NoUrb => job'[e] = queue[e][1]
    BY <1>6, <1>t DEF Receive, TypeOK, loopVars, JobInv
  <2>2. /\ Len(queue[e]) \in Nat \ {0}
        /\ Len(Tail(queue[e])) = Len(queue[e]) - 1
        /\ \A i \in 1..Len(Tail(queue[e])) : Tail(queue[e])[i] = queue[e][i + 1]
    BY <1>6, <1>q, HeadTailProperties, EmptySeq DEF Receive
  <2>3. \A i \in 1..Len(queue'[e]) :
           /\ queue'[e][i] = queue[e][i + 1]
           /\ i + 1 \in 1..Len(queue[e]) /\ 1 \in 1..Len(queue[e]) /\ 1 < i + 1
    BY <2>1, <2>2
  <2>4. QueueSorted'
    <3> SUFFICES ASSUME NEW d \in Eps, NEW i \in 1..Len(queue'[d]),
                        NEW j \in 1..Len(queue'[d]), i < j
                 PROVE  queue'[d][i] < queue'[d][j]
      BY DEF QueueSorted
    <3>1. CASE d # e
      BY <1>o, <2>1, <3>1 DEF QueueSorted
    <3>2. CASE d = e
      <4>1. i + 1 < j + 1
        BY <2>1, <2>2, <3>2
      <4> QED
        BY <1>o, <2>3, <3>2, <4>1 DEF QueueSorted
    <3> QED
      BY <3>1, <3>2
  <2>5. JobFirst'
    <3> SUFFICES ASSUME NEW d \in Eps, job'[d] # NoUrb, NEW i \in 1..Len(queue'[d])
                 PROVE  job'[d] < queue'[d][i]
      BY DEF JobFirst
    <3>1. CASE d # e
      BY <1>o, <2>1, <3>1 DEF JobFirst
    <3>2. CASE d = e
      BY <1>o, <2>1, <2>3, <3>2 DEF QueueSorted
    <3> QED
      BY <3>1, <3>2
  <2>6. SentFirst'
    <3> SUFFICES ASSUME NEW k \in 1..Len(sent), sent[k].ret = "submit", NEW d \in Eps,
                        epOf[sent[k].urb] = d
                 PROVE  Precedes(sent[k].urb, d)'
      BY <2>1 DEF SentFirst, Precedes
    <3>1. Precedes(sent[k].urb, d)
      BY <1>o DEF SentFirst
    <3>2. CASE d # e
      BY <2>1, <3>1, <3>2 DEF Precedes
    <3>3. CASE d = e
      <4>1. \A i \in 1..Len(queue'[e]) : sent[k].urb < queue'[e][i]
        BY <2>3, <3>1, <3>3 DEF Precedes
      <4>2. job'[e] # NoUrb => sent[k].urb < job'[e]
        BY <2>1, <2>2, <3>1, <3>3 DEF Precedes
      <4> QED
        BY <2>1, <3>3, <4>1, <4>2 DEF Precedes
    <3> QED
      BY <3>2, <3>3
  <2> QED
    BY <1>o, <2>1, <2>4, <2>5, <2>6, NothingSent DEF OrderInv, UnreadInv
<1>7. ASSUME NEW e \in Eps, Reply(e) PROVE OrderInv' /\ EndpointOrder'
  <2>1. /\ job[e] \in Urbs /\ epOf[job[e]] = e /\ job[e] # NoUrb
        /\ Send(RetSubmit(job[e]))
        /\ UNCHANGED <<epOf, queue, next>>
        /\ job' = [job EXCEPT ![e] = NoUrb]
    BY <1>7, <1>t, <1>a DEF Reply, Hands, JobInv, loopVars, Urbs, NoUrb
  <2> DEFINE pkt == RetSubmit(job[e])
  <2>2. pkt \in Packets /\ pkt.urb = job[e] /\ Send(pkt) /\ sent \in Seq(Packets)
    BY <1>t, <2>1, PacketsTyped DEF RetSubmit, TypeOK
  <2> HIDE DEF pkt
  <2>3. \A d \in Eps : job'[d] # NoUrb => job'[d] = job[d] /\ d # e
    BY <1>t, <2>1 DEF TypeOK
  <2>4. EndpointOrder'
    BY <1>o, <2>1, <2>2, SendKeepsOrder DEF SentFirst, Precedes
  <2>5. \A u \in Urbs : \A d \in Eps : Precedes(u, d) => Precedes(u, d)'
    BY <2>1, <2>3 DEF Precedes
  <2>6. SentFirst'
    <3>1. ASSUME NEW u, u = job[e] PROVE Precedes(u, e)'
      BY <1>o, <2>1, <2>3, <3>1 DEF JobFirst, Precedes
    <3>2. \A d \in Eps : epOf[pkt.urb] = d => d = e
      BY <2>1, <2>2
    <3> QED
      BY <1>o, <2>1, <2>2, <2>5, <3>1, <3>2, SendKeepsSentFirst DEF Precedes
  <2>7. QueueSorted' /\ JobFirst' /\ UnreadInv'
    BY <1>o, <2>1, <2>3 DEF QueueSorted, JobFirst, UnreadInv
  <2> QED
    BY <2>4, <2>6, <2>7 DEF OrderInv
<1>8. ASSUME NEW e \in Eps, TokenCancelled(e) \/ ConnCancelled(e) \/ Claim(e)
      PROVE  OrderInv' /\ EndpointOrder'
  <2>1. /\ UNCHANGED <<sent, epOf, next>>
        /\ \A d \in Eps : /\ queue'[d] = queue[d] \/ queue'[d] = << >>
                          /\ job'[d] # NoUrb => job'[d] = job[d]
    BY <1>8, <1>t DEF TokenCancelled, ConnCancelled, Claim, TypeOK, loopVars
  <2>2. \A d \in Eps : \A i \in 1..Len(queue'[d]) :
           i \in 1..Len(queue[d]) /\ queue'[d] = queue[d]
    BY <2>1, EmptySeq
  <2>3. QueueSorted' /\ JobFirst'
    BY <1>o, <2>1, <2>2 DEF QueueSorted, JobFirst
  <2>4. SentFirst'
    BY <1>o, <2>1, <2>2 DEF SentFirst, Precedes
  <2> QED
    BY <1>o, <2>1, <2>3, <2>4, NothingSent DEF OrderInv, UnreadInv
<1>9. CASE UNCHANGED <<sent, epOf, next, queue, job>>
  BY <1>9, <1>o, NothingSent
     DEF OrderInv, QueueSorted, JobFirst, SentFirst, Precedes, UnreadInv
<1>10. ASSUME NEW u \in Urbs, Unlink(u) PROVE UNCHANGED <<sent, epOf, next, queue, job>>
  BY <1>10 DEF Unlink, workerVars
<1>11. CASE OutPayloadEof \/ Break \/ Return \/ WriterStep \/ Finished \/ UNCHANGED vars
  BY <1>9, <1>11
     DEF OutPayloadEof, Break, Return, WriterStep, WriteOne, WriteFails, WriterDrained,
         Finished, vars, loopVars, workerVars
<1>12. ASSUME NEW e \in Eps, QueueClosed(e) \/ TransferDone(e)
       PROVE  UNCHANGED <<sent, epOf, next, queue, job>>
  BY <1>12 DEF QueueClosed, TransferDone, loopVars
<1> QED
  BY <1>1, <1>2, <1>3, <1>4, <1>5, <1>6, <1>7, <1>8, <1>9, <1>10, <1>11, <1>12
     DEF Next, LoopStep, WorkerStep, DeviceOrHostEnds, SeesConnCancelled

\* The RET_SUBMITs of an endpoint leave in the order of its CMD_SUBMITs, for any
\* number of endpoints and URBs.
THEOREM AnswersInOrder == Spec => []EndpointOrder
<1>1. Init => OrderInv /\ EndpointOrder
  BY EmptySeq
     DEF Init, OrderInv, QueueSorted, JobFirst, SentFirst, UnreadInv, EndpointOrder
<1>2. IInv /\ OrderInv /\ EndpointOrder /\ [Next]_vars => OrderInv' /\ EndpointOrder'
  BY OrderStep
<1> QED
  BY <1>1, <1>2, Invariant, PTL DEF Spec
-----------------------------------------------------------------------------
(* A writer that drained its channel has written every answer. *)

\* An URB somebody took out has its packet, or is with the one about to send it,
\* or the socket is lost.
AnsweredInv ==
    \A u \in Urbs : verdict[u] # "none" =>
        \/ writer = "failed"
        \/ u \in SettledUrbs
        \/ loop = "unlink_hit" /\ loopUrb = u
        \/ \E e \in Eps : worker[e] = "reply" /\ job[e] = u

\* The writer is done only when no task is left that could send.
DoneInv ==
    writer = "done" =>
        /\ loop \notin Running
        /\ \A e \in Eps : worker[e] \in {"none", "exited"}
        /\ written = Len(sent)

\* What is sent stays sent; a running writer takes the packet.
LEMMA SendSettlesUrb ==
    ASSUME sent \in Seq(Packets), NEW pkt \in Packets, Send(pkt)
    PROVE  /\ SettledUrbs \subseteq SettledUrbs'
           /\ writer = "running" /\ Settles(pkt) => pkt.urb \in SettledUrbs'
<1>1. Len(sent) \in Nat
  BY LenProperties
<1>2. CASE sent' = sent /\ writer # "running"
  BY <1>2 DEF SettledUrbs
<1>3. CASE sent' = Append(sent, pkt)
  <2>1. /\ Len(sent') = Len(sent) + 1 /\ sent'[Len(sent) + 1] = pkt
        /\ \A i \in 1..Len(sent) : sent'[i] = sent[i]
    BY <1>3, AppendProperties
  <2>2. Len(sent) + 1 \in 1..Len(sent') /\ 1..Len(sent) \subseteq 1..Len(sent')
    BY <1>1, <2>1
  <2>3. pkt.urb \in Urbs
    BY DEF Packets
  <2> QED
    BY <2>1, <2>2, <2>3 DEF SettledUrbs
<1> QED
  BY <1>2, <1>3 DEF Send

\* The invariant of a clean end is inductive.
LEMMA CleanStep ==
    ASSUME IInv, AnsweredInv, DoneInv, [Next]_vars
    PROVE  AnsweredInv' /\ DoneInv'
<1>t. TypeOK /\ Hands /\ JobInv /\ sent \in Seq(Packets)
  BY DEF IInv, TypeInv, TypeOK
<1>1. CASE SubmitControl
  <2>1. /\ next \in Urbs /\ RetSubmit(next) \in Packets /\ Send(RetSubmit(next))
        /\ RetSubmit(next).urb = next /\ Settles(RetSubmit(next))
    BY <1>1, PacketsTyped DEF SubmitControl, RetSubmit, Settles
  <2>2. SettledUrbs \subseteq SettledUrbs' /\ (writer = "running" => next \in SettledUrbs')
    BY <1>t, <2>1, SendSettlesUrb
  <2>3. writer # "done" /\ UNCHANGED <<loop, loopUrb, worker, job, writer>>
    BY <1>1 DEF SubmitControl, DoneInv, Running, workerVars, writerVars
  <2>4. \A u \in Urbs : u # next => verdict'[u] = verdict[u]
    BY <1>1, <1>t DEF SubmitControl, TypeOK
  <2> QED
    BY <1>t, <2>2, <2>3, <2>4 DEF AnsweredInv, DoneInv, TypeOK
<1>2. CASE UnlinkReply
  <2> DEFINE pkt == RetUnlink(loopUrb, loop = "unlink_hit")
  <2>1. /\ loopUrb \in Urbs /\ pkt \in Packets /\ pkt.urb = loopUrb /\ Send(pkt)
        /\ loop = "unlink_hit" => Settles(pkt)
    BY <1>2, <1>t, PacketsTyped DEF UnlinkReply, Hands, RetUnlink, Settles
  <2> HIDE DEF pkt
  <2>2. /\ SettledUrbs \subseteq SettledUrbs'
        /\ writer = "running" /\ loop = "unlink_hit" => loopUrb \in SettledUrbs'
    BY <1>t, <2>1, SendSettlesUrb
  <2>3. writer # "done" /\ UNCHANGED <<verdict, worker, job, writer>>
    BY <1>2 DEF UnlinkReply, DoneInv, Running, workerVars, writerVars
  <2> QED
    BY <1>t, <2>2, <2>3 DEF AnsweredInv, DoneInv, TypeOK
<1>3. ASSUME NEW e \in Eps, Reply(e) PROVE AnsweredInv' /\ DoneInv'
  <2> DEFINE pkt == RetSubmit(job[e])
  <2>1. /\ job[e] \in Urbs /\ pkt \in Packets /\ pkt.urb = job[e] /\ Send(pkt)
        /\ Settles(pkt)
    BY <1>3, <1>t, PacketsTyped DEF Reply, Hands, RetSubmit, Settles
  <2> HIDE DEF pkt
  <2>2. SettledUrbs \subseteq SettledUrbs' /\ (writer = "running" => job[e] \in SettledUrbs')
    BY <1>t, <2>1, SendSettlesUrb
  <2>3. writer # "done" /\ UNCHANGED <<verdict, loop, loopUrb, writer>>
    BY <1>3 DEF Reply, DoneInv, loopVars, writerVars
  <2>4. \A d \in Eps : d # e => worker'[d] = worker[d] /\ job'[d] = job[d]
    BY <1>3, <1>t DEF Reply, TypeOK
  <2>5. writer = "failed" \/ job[e] \in SettledUrbs'
    BY <1>t, <2>2, <2>3 DEF TypeOK
  <2>6. ASSUME NEW v \in Urbs, verdict[v] # "none"
        PROVE  \/ writer = "failed" \/ v \in SettledUrbs'
               \/ loop = "unlink_hit" /\ loopUrb = v
               \/ \E d \in Eps : worker'[d] = "reply" /\ job'[d] = v
    BY <2>2, <2>4, <2>5, <2>6 DEF AnsweredInv
  <2> QED
    BY <2>3, <2>6 DEF AnsweredInv, DoneInv
<1>s. ASSUME sent' = sent PROVE SettledUrbs' = SettledUrbs
  BY <1>s DEF SettledUrbs
<1>d. ASSUME NEW u \in Urbs, NEW e \in Eps, Dispatch(u, e), loop \in Running,
             loop # "unlink_hit", UNCHANGED <<job, sent, writer, verdict>>
      PROVE  AnsweredInv' /\ DoneInv'
  <2>1. \A d \in Eps : worker[d] = "reply" => worker'[d] = "reply"
    BY <1>d, <1>t DEF Dispatch, TypeOK
  <2>2. writer # "done" /\ writer' # "done"
    BY <1>d DEF DoneInv
  <2> QED
    BY <1>d, <1>s, <2>1, <2>2 DEF AnsweredInv, DoneInv
<1>4. ASSUME NEW e \in InEps, SubmitIn(e) PROVE AnsweredInv' /\ DoneInv'
  BY <1>4, <1>d DEF SubmitIn, Eps, Running, writerVars
<1>5. CASE OutPayload
  BY <1>5, <1>d, <1>t DEF OutPayload, Hands, Running, writerVars
<1>6. CASE (\E e \in OutEps : SubmitOutHeader(e)) \/ OutPayloadEof \/ Break \/ Return
  <2>1. /\ UNCHANGED <<worker, job, sent, written, writer, verdict>>
        /\ loop # "unlink_hit"
        /\ loop \notin Running => loop' \notin Running
    BY <1>6 DEF SubmitOutHeader, OutPayloadEof, Break, Return, Running, workerVars,
                writerVars
  <2> QED
    BY <1>s, <2>1 DEF AnsweredInv, DoneInv
<1>7. ASSUME NEW u \in Urbs, Unlink(u) PROVE AnsweredInv' /\ DoneInv'
  <2>1. /\ UNCHANGED <<worker, job, sent, writer>> /\ loop = "header"
        /\ \A v \in Urbs : \/ verdict'[v] = verdict[v]
                           \/ v = u /\ loop' = "unlink_hit" /\ loopUrb' = u
    BY <1>7, <1>t DEF Unlink, TypeOK, workerVars, writerVars
  <2>2. writer # "done"
    BY <2>1 DEF DoneInv, Running
  <2> QED
    BY <1>s, <2>1, <2>2 DEF AnsweredInv, DoneInv
<1>8. ASSUME NEW e \in Eps, Claim(e) PROVE AnsweredInv' /\ DoneInv'
  <2>1. /\ UNCHANGED <<loop, loopUrb, sent, writer>> /\ worker[e] = "claim"
        /\ \A d \in Eps : d # e => worker'[d] = worker[d] /\ job'[d] = job[d]
        /\ \A v \in Urbs : \/ verdict'[v] = verdict[v]
                           \/ v = job[e] /\ worker'[e] = "reply" /\ job'[e] = v
    BY <1>8, <1>t DEF Claim, TypeOK, loopVars, writerVars
  <2>2. writer # "done"
    BY <2>1 DEF DoneInv
  <2>3. ASSUME NEW v \in Urbs, verdict'[v] # "none"
        PROVE  \/ writer' = "failed" \/ v \in SettledUrbs'
               \/ loop' = "unlink_hit" /\ loopUrb' = v
               \/ \E d \in Eps : worker'[d] = "reply" /\ job'[d] = v
    <3>1. CASE verdict'[v] = verdict[v]
      <4>1. \A d \in Eps : worker[d] = "reply" => worker'[d] = "reply" /\ job'[d] = job[d]
        BY <2>1
      <4> QED
        BY <1>s, <2>1, <2>3, <3>1, <4>1 DEF AnsweredInv
    <3>2. CASE v = job[e] /\ worker'[e] = "reply" /\ job'[e] = v
      BY <3>2
    <3> QED
      BY <2>1, <3>1, <3>2
  <2> QED
    BY <2>1, <2>2, <2>3 DEF AnsweredInv, DoneInv
<1>9. ASSUME NEW e \in Eps, \/ Receive(e) \/ QueueClosed(e) \/ TransferDone(e)
                            \/ TokenCancelled(e) \/ ConnCancelled(e)
      PROVE  AnsweredInv' /\ DoneInv'
  <2>1. /\ UNCHANGED <<loop, loopUrb, sent, writer, verdict>>
        /\ worker[e] \in {"recv", "transfer"}
        /\ \A d \in Eps : d # e => worker'[d] = worker[d] /\ job'[d] = job[d]
    BY <1>9, <1>t DEF Receive, QueueClosed, TransferDone, TokenCancelled, ConnCancelled,
                      TypeOK, loopVars, writerVars
  <2>2. writer # "done"
    BY <2>1 DEF DoneInv
  <2>3. \A d \in Eps : worker[d] = "reply" => worker'[d] = "reply" /\ job'[d] = job[d]
    BY <2>1
  <2> QED
    BY <1>s, <2>1, <2>2, <2>3 DEF AnsweredInv, DoneInv
<1>10. CASE WriterStep \/ Finished \/ UNCHANGED vars
  <2>1. /\ UNCHANGED <<loop, loopUrb, worker, job, sent, verdict>>
        /\ writer = "failed" => writer' = "failed"
        /\ writer' = "done" => \/ writer = "done" /\ written' = written
                               \/ /\ loop \notin Running /\ written' = Len(sent)
                                  /\ \A e \in Eps : worker[e] \in {"none", "exited"}
    BY <1>10 DEF WriterStep, WriteOne, WriteFails, WriterDrained, Finished, vars,
                 loopVars, workerVars, writerVars
  <2> QED
    BY <1>s, <2>1 DEF AnsweredInv, DoneInv
<1> QED
  BY <1>1, <1>2, <1>3, <1>4, <1>5, <1>6, <1>7, <1>8, <1>9, <1>10
     DEF Next, LoopStep, WorkerStep, DeviceOrHostEnds, SeesConnCancelled

\* When urb_phase returns behind a writer that drained its channel, no worker is
\* left and every URB that was completed or unlinked has its packet on the socket.
THEOREM CleanEndLosesNothing == Spec => []CleanReturn
<1>1. Init => AnsweredInv /\ DoneInv
  BY DEF Init, AnsweredInv, DoneInv
<1>2. IInv /\ AnsweredInv /\ DoneInv /\ [Next]_vars => AnsweredInv' /\ DoneInv'
  BY CleanStep
<1>3. IInv /\ AnsweredInv /\ DoneInv => CleanReturn
  BY DEF AnsweredInv, DoneInv, CleanReturn, SettledUrbs, Running
<1> QED
  BY <1>1, <1>2, <1>3, Invariant, PTL DEF Spec
-----------------------------------------------------------------------------
(* The connection implements UrbService. *)

\* Every URB the running loop has finished reading is pending or was taken out.
ReadInv ==
    loop \in Running => \A u \in Urbs : u < Frontier => u \in pending \/ verdict[u] # "none"

\* The invariant the refinement rests on.
ServiceInv ==
    /\ IInv /\ ExitInv /\ NoUrbStranded /\ OrderInv /\ EndpointOrder /\ ReadInv

\* Endpoint e has URB u in its queue or in its worker's hands.
Holds(e, u) == u = job[e] \/ \E i \in DOMAIN queue[e] : queue[e][i] = u

\* What the abstract queue of an endpoint holds, before and after a step.
LEMMA WaitingOf ==
    ASSUME NEW e \in Eps, NEW u
    PROVE  /\ u \in Waiting[e] <=> u \in pending /\ Holds(e, u)
           /\ u \in Waiting'[e] <=> u \in pending' /\ Holds(e, u)'
  BY DEF Waiting, Holds

\* What the abstract status of an URB is, before and after a step.
LEMMA StatusOf ==
    ASSUME TypeOK, NEW u \in Urbs
    PROVE  /\ u \in pending => Status[u] = "waiting"
           /\ u \notin pending /\ verdict[u] = "none" => Status[u] = "new"
           /\ u \notin pending /\ verdict[u] # "none" =>
                 Status[u] = verdict[u] /\ Status[u] # "new"
           /\ u \in pending' => Status'[u] = "waiting"
           /\ u \notin pending' /\ verdict'[u] = "none" => Status'[u] = "new"
           /\ u \notin pending' /\ verdict'[u] # "none" => Status'[u] = verdict'[u]
           /\ (u \in pending' <=> u \in pending) /\ verdict'[u] = verdict[u] =>
                 Status'[u] = Status[u]
  BY DEF Status, TypeOK

\* Abstract queues are sets of pending URBs that differ when an element does.
LEMMA WaitingSame ==
    ASSUME NEW e \in Eps,
           \A u : u \in pending' /\ Holds(e, u)' <=> u \in pending /\ Holds(e, u)
    PROVE  Waiting'[e] = Waiting[e]
<1>1. \A u : u \in Waiting'[e] <=> u \in Waiting[e]
  BY WaitingOf
<1> QED
  BY <1>1

\* A step that moves pending URBs only within their endpoint is invisible.
LEMMA Invisible ==
    ASSUME TypeOK, UNCHANGED <<pending, verdict, connCancelled>>,
           \A e \in Eps : \A u \in pending : Holds(e, u)' <=> Holds(e, u)
    PROVE  UNCHANGED <<Status, Waiting, ~connCancelled>>
<1>1. Status' = Status
  BY DEF Status
<1>2. \A e \in Eps : Waiting'[e] = Waiting[e]
  BY WaitingSame
<1>3. Waiting' = Waiting
  BY <1>2 DEF Waiting
<1> QED
  BY <1>1, <1>3

\* Dispatch appends to one queue or to none.
LEMMA DispatchHolds ==
    ASSUME TypeOK, NEW u \in Urbs, NEW e \in Eps, Dispatch(u, e), job' = job,
           NEW d \in Eps, NEW v
    PROVE  Holds(d, v)' <=> Holds(d, v) \/ (d = e /\ worker[e] # "exited" /\ v = u)
<1>1. queue[e] \in Seq(Urbs) /\ Len(queue[e]) \in Nat
  BY LenProperties DEF TypeOK
<1>2. CASE d # e \/ worker[e] = "exited"
  <2>1. queue'[d] = queue[d]
    BY <1>2 DEF Dispatch, TypeOK
  <2> QED
    BY <1>2, <2>1 DEF Holds
<1>3. CASE d = e /\ worker[e] # "exited"
  <2>1. queue'[d] = Append(queue[e], u)
    BY <1>3 DEF Dispatch, TypeOK
  <2>2. /\ DOMAIN queue[e] = 1..Len(queue[e])
        /\ DOMAIN queue'[d] = 1..(Len(queue[e]) + 1)
        /\ \A i \in 1..Len(queue[e]) : queue'[d][i] = queue[e][i]
        /\ queue'[d][Len(queue[e]) + 1] = u
    BY <1>1, <2>1, AppendProperties, LenProperties
  <2>3. \A i : i \in 1..(Len(queue[e]) + 1) <=>
                  i \in 1..Len(queue[e]) \/ i = Len(queue[e]) + 1
    BY <1>1
  <2> QED
    BY <1>3, <2>2, <2>3 DEF Holds
<1> QED
  BY <1>2, <1>3

\* The URB at the frontier has just arrived.
LEMMA FrontierArrives ==
    ASSUME IInv, ReadInv, loop \in Running, Frontier \in Urbs
    PROVE  /\ Frontier \notin pending /\ verdict[Frontier] = "none"
           /\ \A e \in Eps : ~Holds(e, Frontier)
           /\ Service!Arrives(Frontier)
<1>t. TypeOK /\ Hands /\ PendingInv /\ LoopInv /\ QueueInv /\ JobInv
  BY DEF IInv, TypeInv
<1>u. \A u \in Urbs : u \in Nat /\ u # NoUrb
  BY ConstantsAssumption DEF ConstantsAssumption, Urbs, NoUrb
<1>1. Frontier \notin pending /\ verdict[Frontier] = "none"
  BY <1>t, <1>u DEF PendingInv, LoopInv
<1>2. ASSUME NEW e \in Eps, Holds(e, Frontier) PROVE FALSE
  <2>1. CASE Frontier = job[e]
    BY <1>t, <1>u, <2>1 DEF JobInv
  <2>2. ASSUME NEW i \in DOMAIN queue[e], queue[e][i] = Frontier PROVE FALSE
    <3>1. queue[e] \in Seq(Urbs)
      BY <1>t DEF TypeOK
    <3>2. DOMAIN queue[e] = 1..Len(queue[e])
      BY <3>1, LenProperties
    <3> QED
      BY <1>t, <1>u, <2>2, <3>2 DEF QueueInv
  <2> QED
    BY <1>2, <2>1, <2>2 DEF Holds
<1>3. ASSUME NEW v \in Urbs, v < Frontier PROVE Status[v] # "new"
  <2>1. v \in pending \/ verdict[v] # "none"
    BY <1>3 DEF ReadInv
  <2>2. CASE v \in pending
    <3>1. Status[v] = "waiting"
      BY <1>t, <2>2, StatusOf
    <3> QED
      BY <3>1
  <2>3. CASE v \notin pending /\ verdict[v] # "none"
    BY <1>t, <2>3, StatusOf
  <2> QED
    BY <2>1, <2>2, <2>3
<1>4. Status[Frontier] = "new"
  BY <1>t, <1>1, StatusOf
<1> QED
  BY <1>1, <1>2, <1>3, <1>4 DEF Service!Arrives, Service!Urbs, Urbs

\* Status after a step that decides one URB.
LEMMA StatusUpdate ==
    ASSUME TypeOK, NEW u \in Urbs, NEW s, Status'[u] = s,
           \A v \in Urbs : v # u =>
              (v \in pending' <=> v \in pending) /\ verdict'[v] = verdict[v]
    PROVE  Status' = [Status EXCEPT ![u] = s]
<1>1. \A v \in Urbs : v # u => Status'[v] = Status[v]
  BY StatusOf
<1>2. /\ Status = [v \in Urbs |-> Status[v]]
      /\ Status' = [v \in Urbs |-> Status'[v]]
  BY DEF Status
<1>3. \A v \in Urbs : Status'[v] = [Status EXCEPT ![u] = s][v]
  BY <1>1, <1>2
<1>4. [Status EXCEPT ![u] = s] = [v \in Urbs |-> [Status EXCEPT ![u] = s][v]]
  BY <1>2
<1> QED
  BY <1>2, <1>3, <1>4

\* Waiting after a step that changes it at one endpoint.
LEMMA WaitingUpdate ==
    ASSUME NEW e \in Eps, NEW S, Waiting'[e] = S,
           \A d \in Eps : d # e => Waiting'[d] = Waiting[d]
    PROVE  Waiting' = [Waiting EXCEPT ![e] = S]
<1>1. /\ Waiting = [d \in Eps |-> Waiting[d]]
      /\ Waiting' = [d \in Eps |-> Waiting'[d]]
  BY DEF Waiting
<1> QED
  BY <1>1

\* Handing the frontier URB to its worker is the arrival UrbService describes; a
\* worker that has ended drops it, and then the connection is no longer open.
LEMMA DispatchAccepts ==
    ASSUME ServiceInv, loop \in Running, Frontier \in Urbs, NEW e \in Eps,
           Dispatch(Frontier, e), UNCHANGED <<job, verdict, connCancelled>>
    PROVE  Service!Accept(Frontier, e)
<1> DEFINE u == Frontier
<1>t. TypeOK /\ IInv /\ ExitInv /\ ReadInv
  BY DEF ServiceInv, IInv, TypeInv
<1>1. /\ u \notin pending /\ Service!Arrives(u) /\ u \in Urbs
      /\ \A d \in Eps : ~Holds(d, u)
  BY <1>t, FrontierArrives
<1>2. pending' = pending \cup {u} /\ Dispatch(u, e)
  BY DEF Dispatch
<1> HIDE DEF u
<1>3. Status' = [Status EXCEPT ![u] = "waiting"]
  <2>1. Status'[u] = "waiting"
    BY <1>t, <1>1, <1>2, StatusOf
  <2> QED
    BY <1>t, <1>1, <1>2, <2>1, StatusUpdate
<1>4. \A d \in Eps : \A v :
        Holds(d, v)' <=> Holds(d, v) \/ (d = e /\ worker[e] # "exited" /\ v = u)
  BY <1>t, <1>1, <1>2, DispatchHolds
<1>5. CASE worker[e] = "exited"
  <2>1. connCancelled
    BY <1>t, <1>5 DEF ExitInv
  <2>2. \A d \in Eps : Waiting'[d] = Waiting[d]
    BY <1>1, <1>2, <1>4, <1>5, WaitingSame
  <2>3. Waiting' = Waiting
    BY <2>2 DEF Waiting
  <2> QED
    BY <1>1, <1>3, <2>1, <2>3 DEF Service!Accept, u
<1>6. CASE worker[e] # "exited"
  <2>1. \A d \in Eps : d # e => Waiting'[d] = Waiting[d]
    BY <1>1, <1>2, <1>4, WaitingSame
  <2>2. \A v : v \in Waiting'[e] <=> v \in Waiting[e] \/ v = u
    BY <1>1, <1>2, <1>4, <1>6, WaitingOf
  <2>3. Waiting'[e] = Waiting[e] \cup {u}
    BY <2>2
  <2>4. Waiting' = [Waiting EXCEPT ![e] = Waiting[e] \cup {u}]
    BY <2>1, <2>3, WaitingUpdate
  <2> QED
    BY <1>1, <1>3, <2>4 DEF Service!Accept, u
<1> QED
  BY <1>5, <1>6

\* A step of the URB loop that dispatches the frontier URB.
LEMMA DispatchServes ==
    ASSUME ServiceInv,
           (\E e \in InEps : SubmitIn(e)) \/ OutPayload
    PROVE  Service!Next
<1>t. TypeOK /\ Hands
  BY DEF ServiceInv, IInv, TypeInv
<1>1. ASSUME NEW e \in InEps, SubmitIn(e) PROVE Service!Next
  <2>1. /\ e \in Eps /\ loop \in Running /\ Frontier = next /\ Frontier \in Urbs
        /\ Dispatch(Frontier, e) /\ UNCHANGED <<job, verdict, connCancelled>>
    BY <1>1 DEF SubmitIn, Frontier, Running, Eps
  <2>2. Service!Accept(Frontier, e)
    BY <2>1, DispatchAccepts
  <2> QED
    BY <2>1, <2>2 DEF Service!Next, Service!Eps, Service!Urbs, Eps, Urbs
<1>2. CASE OutPayload
  <2> DEFINE e == epOf[loopUrb]
  <2>1. /\ e \in Eps /\ loop \in Running /\ Frontier = loopUrb /\ Frontier \in Urbs
        /\ Dispatch(Frontier, e) /\ UNCHANGED <<job, verdict, connCancelled>>
    BY <1>2, <1>t DEF OutPayload, Frontier, Running, Hands
  <2> HIDE DEF e
  <2>2. Service!Accept(Frontier, e)
    BY <2>1, DispatchAccepts
  <2> QED
    BY <2>1, <2>2 DEF Service!Next, Service!Eps, Service!Urbs, Eps, Urbs
<1> QED
  BY <1>1, <1>2

\* Endpoint 0 is answered within the step that reads the URB.
LEMMA ControlServes ==
    ASSUME ServiceInv, SubmitControl
    PROVE  Service!Control(next) /\ next \in Urbs
<1>t. TypeOK /\ IInv /\ ReadInv
  BY DEF ServiceInv, IInv, TypeInv
<1>1. loop \in Running /\ Frontier = next /\ next \in Urbs
  BY DEF SubmitControl, Running, Frontier
<1>2. next \notin pending /\ Service!Arrives(next)
  BY <1>t, <1>1, FrontierArrives
<1>3. /\ UNCHANGED <<pending, connCancelled, queue, job>>
      /\ verdict' = [verdict EXCEPT ![next] = "completed"]
  BY DEF SubmitControl, workerVars
<1>4. Status'[next] = "completed"
  BY <1>t, <1>1, <1>2, <1>3, StatusOf DEF TypeOK
<1>5. Status' = [Status EXCEPT ![next] = "completed"]
  BY <1>t, <1>1, <1>3, <1>4, StatusUpdate DEF TypeOK
<1>6. Waiting' = Waiting
  BY <1>3 DEF Waiting
<1> QED
  BY <1>1, <1>2, <1>3, <1>5, <1>6 DEF Service!Control

\* An unlink that finds its URB takes back that one; another changes nothing.
LEMMA UnlinkServes ==
    ASSUME ServiceInv, NEW u \in Urbs, Unlink(u)
    PROVE  Service!TakeBack(u) \/ UNCHANGED <<Status, Waiting, ~connCancelled>>
<1>t. TypeOK
  BY DEF ServiceInv, IInv, TypeInv
<1>1. /\ UNCHANGED <<connCancelled, queue, job>>
      /\ pending' = pending \ {u}
  BY DEF Unlink, workerVars
<1>h. \A e \in Eps : \A v : Holds(e, v)' <=> Holds(e, v)
  BY <1>1 DEF Holds
<1>2. CASE u \in pending
  <2>1. verdict' = [verdict EXCEPT ![u] = "unlinked"]
    BY <1>2 DEF Unlink
  <2>2. Status[u] = "waiting" /\ Status'[u] = "unlinked"
    BY <1>t, <1>1, <1>2, <2>1, StatusOf DEF TypeOK
  <2>3. Status' = [Status EXCEPT ![u] = "unlinked"]
    BY <1>t, <1>1, <2>1, <2>2, StatusUpdate DEF TypeOK
  <2>4. ASSUME NEW e \in Eps PROVE Waiting'[e] = Waiting[e] \ {u}
    <3>1. \A v : v \in Waiting'[e] <=> v \in Waiting[e] /\ v # u
      BY <1>1, <1>h, WaitingOf
    <3> QED
      BY <3>1
  <2>5. Waiting' = [e \in Eps |-> Waiting[e] \ {u}]
    <3>1. Waiting' = [e \in Eps |-> Waiting'[e]]
      BY DEF Waiting
    <3> QED
      BY <2>4, <3>1
  <2> QED
    BY <1>1, <2>2, <2>3, <2>5 DEF Service!TakeBack, Service!Eps, Eps
<1>3. CASE u \notin pending
  <2>1. UNCHANGED <<pending, verdict>>
    BY <1>1, <1>3 DEF Unlink
  <2> QED
    BY <1>t, <1>1, <1>h, <2>1, Invisible
<1> QED
  BY <1>2, <1>3

\* A claim that finds its URB completes the oldest its endpoint owes; a claim
\* that comes too late changes nothing.
LEMMA ClaimServes ==
    ASSUME ServiceInv, NEW e \in Eps, Claim(e)
    PROVE  \/ job[e] \in Urbs /\ Service!Complete(job[e], e)
           \/ UNCHANGED <<Status, Waiting, ~connCancelled>>
<1>t. TypeOK /\ Hands /\ PendingInv /\ QueueInv /\ JobInv /\ JobFirst
  BY DEF ServiceInv, IInv, TypeInv, OrderInv
<1>u. NoUrb \notin Urbs /\ \A v \in Urbs : v \in Nat
  BY ConstantsAssumption DEF ConstantsAssumption, Urbs, NoUrb
<1>1. /\ UNCHANGED <<connCancelled, queue>> /\ worker[e] = "claim"
      /\ pending' = pending \ {job[e]}
      /\ job[e] \in Urbs /\ epOf[job[e]] = e
  BY <1>t DEF Claim, Hands, JobInv
<1>q. \A d \in Eps : /\ queue[d] \in Seq(Urbs)
                     /\ DOMAIN queue[d] = 1..Len(queue[d])
  BY <1>t, LenProperties DEF TypeOK
<1>2. CASE job[e] \in pending
  <2>1. /\ verdict' = [verdict EXCEPT ![job[e]] = "completed"] /\ job' = job
    BY <1>2 DEF Claim
  <2>2. Status'[job[e]] = "completed"
    BY <1>t, <1>1, <2>1, StatusOf DEF TypeOK
  <2>3. Status' = [Status EXCEPT ![job[e]] = "completed"]
    BY <1>t, <1>1, <2>1, <2>2, StatusUpdate DEF TypeOK
  <2>h. \A d \in Eps : \A v : Holds(d, v)' <=> Holds(d, v)
    BY <1>1, <2>1 DEF Holds
  <2>4. ASSUME NEW d \in Eps, d # e PROVE ~Holds(d, job[e])
    <3>1. job[d] # job[e]
      BY <1>t, <1>u, <1>1, <2>4 DEF JobInv
    <3>2. \A i \in DOMAIN queue[d] : queue[d][i] # job[e]
      BY <1>t, <1>q, <1>1, <2>4 DEF QueueInv
    <3> QED
      BY <3>1, <3>2 DEF Holds
  <2>5. \A d \in Eps : d # e => Waiting'[d] = Waiting[d]
    BY <1>1, <2>h, <2>4, WaitingSame
  <2>6. Waiting'[e] = Waiting[e] \ {job[e]}
    <3>1. \A v : v \in Waiting'[e] <=> v \in Waiting[e] /\ v # job[e]
      BY <1>1, <2>h, WaitingOf
    <3> QED
      BY <3>1
  <2>7. Service!Oldest(job[e], e)
    <3>1. job[e] \in Waiting[e]
      BY <1>2, WaitingOf DEF Holds
    <3>2. ASSUME NEW v \in Waiting[e] PROVE job[e] <= v
      <4>1. Holds(e, v)
        BY <3>2, WaitingOf
      <4>2. CASE v = job[e]
        BY <1>1, <1>u, <4>2
      <4>3. ASSUME NEW i \in DOMAIN queue[e], queue[e][i] = v PROVE job[e] <= v
        <5>1. i \in 1..Len(queue[e]) /\ v \in Urbs
          BY <1>q, <4>3, ElementOfSeq
        <5>2. job[e] < v
          BY <1>t, <1>u, <1>1, <4>3, <5>1 DEF JobFirst
        <5> QED
          BY <1>1, <1>u, <5>1, <5>2
      <4> QED
        BY <4>1, <4>2, <4>3 DEF Holds
    <3> QED
      BY <3>1, <3>2 DEF Service!Oldest
  <2>8. Waiting' = [Waiting EXCEPT ![e] = Waiting[e] \ {job[e]}]
    BY <2>5, <2>6, WaitingUpdate
  <2> QED
    BY <1>1, <2>3, <2>7, <2>8 DEF Service!Complete
<1>3. CASE job[e] \notin pending
  <2>1. /\ UNCHANGED <<pending, verdict>>
        /\ job' = [job EXCEPT ![e] = NoUrb]
    BY <1>1, <1>3 DEF Claim
  <2>2. \A d \in Eps : \A v \in pending : Holds(d, v)' <=> Holds(d, v)
    BY <1>t, <1>u, <1>1, <1>3, <2>1 DEF Holds, TypeOK
  <2> QED
    BY <1>t, <1>1, <2>1, <2>2, Invisible
<1> QED
  BY <1>2, <1>3

\* A worker that takes a job from its queue still holds it.
LEMMA ReceiveInvisible ==
    ASSUME ServiceInv, NEW e \in Eps, Receive(e)
    PROVE  UNCHANGED <<Status, Waiting, ~connCancelled>>
<1>t. TypeOK /\ JobInv
  BY DEF ServiceInv, IInv, TypeInv
<1>u. NoUrb \notin Urbs
  BY ConstantsAssumption DEF ConstantsAssumption, Urbs, NoUrb
<1>1. /\ UNCHANGED <<pending, verdict, connCancelled>> /\ job[e] = NoUrb
      /\ queue[e] # << >> /\ queue'[e] = Tail(queue[e])
      /\ \A d \in Eps : d # e => queue'[d] = queue[d] /\ job'[d] = job[d]
      /\ \/ Head(queue[e]) \in pending /\ job'[e] = Head(queue[e])
         \/ Head(queue[e]) \notin pending /\ job'[e] = NoUrb
  BY <1>t DEF Receive, TypeOK, JobInv, loopVars
<1>2. /\ queue[e] \in Seq(Urbs) /\ Len(queue[e]) \in Nat \ {0}
      /\ Head(queue[e]) = queue[e][1]
      /\ Tail(queue[e]) \in Seq(Urbs)
      /\ Len(Tail(queue[e])) = Len(queue[e]) - 1
      /\ \A i \in 1..Len(Tail(queue[e])) : Tail(queue[e])[i] = queue[e][i + 1]
  <2>1. queue[e] \in Seq(Urbs)
    BY <1>t DEF TypeOK
  <2> QED
    BY <1>1, <2>1, HeadTailProperties, EmptySeq
<1>3. DOMAIN queue[e] = 1..Len(queue[e]) /\ DOMAIN Tail(queue[e]) = 1..Len(Tail(queue[e]))
  BY <1>2, LenProperties
<1>4. ASSUME NEW v \in pending PROVE Holds(e, v)' <=> Holds(e, v)
  <2>0. v # NoUrb
    BY <1>t, <1>u, <1>4 DEF TypeOK
  <2>1. ASSUME Holds(e, v) PROVE Holds(e, v)'
    <3>1. PICK i \in 1..Len(queue[e]) : queue[e][i] = v
      BY <1>1, <1>3, <2>0, <2>1 DEF Holds
    <3>2. CASE i = 1
      BY <1>1, <1>2, <1>4, <3>1, <3>2 DEF Holds
    <3>3. CASE i # 1
      <4>1. i - 1 \in 1..Len(Tail(queue[e])) /\ (i - 1) + 1 = i
        BY <1>2, <3>3
      <4>2. Tail(queue[e])[i - 1] = v
        BY <1>2, <3>1, <4>1
      <4> QED
        BY <1>1, <1>3, <4>1, <4>2 DEF Holds
    <3> QED
      BY <3>2, <3>3
  <2>2. ASSUME Holds(e, v)' PROVE Holds(e, v)
    <3>1. CASE v = job'[e]
      <4>1. 1 \in DOMAIN queue[e] /\ queue[e][1] = v
        BY <1>1, <1>2, <1>3, <2>0, <3>1
      <4> QED
        BY <4>1 DEF Holds
    <3>2. ASSUME NEW i \in DOMAIN queue'[e], queue'[e][i] = v PROVE Holds(e, v)
      <4>1. i \in 1..Len(Tail(queue[e])) /\ Tail(queue[e])[i] = v
        BY <1>1, <1>3, <3>2
      <4>2. i + 1 \in 1..Len(queue[e]) /\ queue[e][i + 1] = v
        BY <1>2, <4>1
      <4> QED
        BY <1>3, <4>2 DEF Holds
    <3> QED
      BY <2>2, <3>1, <3>2 DEF Holds
  <2> QED
    BY <2>1, <2>2
<1>5. ASSUME NEW d \in Eps, NEW v \in pending PROVE Holds(d, v)' <=> Holds(d, v)
  <2>1. CASE d = e
    BY <1>4, <2>1
  <2>2. CASE d # e
    BY <1>1, <2>2 DEF Holds
  <2> QED
    BY <2>1, <2>2
<1> QED
  BY <1>t, <1>1, <1>5, Invisible

\* A worker that lets go of an URB somebody has taken out is invisible.
LEMMA LetGoInvisible ==
    ASSUME ServiceInv, NEW e \in Eps, Reply(e) \/ TokenCancelled(e)
    PROVE  UNCHANGED <<Status, Waiting, ~connCancelled>>
<1>t. TypeOK /\ PendingInv /\ LoopInv /\ JobInv
  BY DEF ServiceInv, IInv, TypeInv
<1>u. NoUrb \notin Urbs
  BY ConstantsAssumption DEF ConstantsAssumption, Urbs, NoUrb
<1>1. /\ UNCHANGED <<pending, verdict, connCancelled, queue>>
      /\ job' = [job EXCEPT ![e] = NoUrb]
  BY DEF Reply, TokenCancelled
<1>2. job[e] \notin pending
  BY <1>t DEF Reply, TokenCancelled, JobInv, LoopInv, PendingInv
<1>3. \A d \in Eps : \A v \in pending : Holds(d, v)' <=> Holds(d, v)
  BY <1>t, <1>u, <1>1, <1>2 DEF Holds, TypeOK
<1> QED
  BY <1>t, <1>1, <1>3, Invisible

\* A worker that ends in the middle of a transfer drops what its endpoint owes.
LEMMA ConnCancelledDrops ==
    ASSUME ServiceInv, NEW e \in Eps, ConnCancelled(e)
    PROVE  Service!Drop(e)
<1>t. TypeOK
  BY DEF ServiceInv, IInv, TypeInv
<1>u. NoUrb \notin Urbs
  BY ConstantsAssumption DEF ConstantsAssumption, Urbs, NoUrb
<1>1. /\ UNCHANGED <<pending, verdict, connCancelled>> /\ connCancelled
      /\ job'[e] = NoUrb /\ queue'[e] = << >>
      /\ \A d \in Eps : d # e => queue'[d] = queue[d] /\ job'[d] = job[d]
  BY <1>t DEF ConnCancelled, TypeOK
<1>2. Status' = Status
  BY <1>1 DEF Status
<1>3. \A v : v \notin Waiting'[e]
  <2>1. \A v \in pending' : ~Holds(e, v)'
    BY <1>t, <1>u, <1>1 DEF Holds, TypeOK
  <2> QED
    BY <2>1, WaitingOf
<1>4. Waiting'[e] = {}
  BY <1>3
<1>5. \A d \in Eps : d # e => Waiting'[d] = Waiting[d]
  BY <1>1, WaitingSame DEF Holds
<1>6. Waiting' = [Waiting EXCEPT ![e] = {}]
  BY <1>4, <1>5, WaitingUpdate
<1> QED
  BY <1>1, <1>2, <1>6 DEF Service!Drop

\* Cancelling the connection closes the service, once.
LEMMA CancelCloses ==
    ASSUME ServiceInv, UNCHANGED <<pending, verdict, queue, job>>, connCancelled'
    PROVE  Service!Close \/ UNCHANGED <<Status, Waiting, ~connCancelled>>
<1>1. Status' = Status /\ Waiting' = Waiting
  BY DEF Status, Waiting
<1>2. (~connCancelled)' = FALSE
  OBVIOUS
<1>3. CASE connCancelled
  BY <1>1, <1>2, <1>3
<1>4. CASE ~connCancelled
  BY <1>1, <1>2, <1>4 DEF Service!Close
<1> QED
  BY <1>3, <1>4

\* Every step of the connection is a step of the service or leaves it unchanged.
LEMMA ServiceStep ==
    ASSUME ServiceInv, [Next]_vars
    PROVE  Service!Next \/ UNCHANGED <<Status, Waiting, ~connCancelled>>
<1>e. Service!Eps = Eps /\ Service!Urbs = Urbs
  BY DEF Service!Eps, Service!Urbs, Eps, Urbs
<1>t. TypeOK
  BY DEF ServiceInv, IInv, TypeInv
<1>1. CASE SubmitControl
  BY <1>1, <1>e, ControlServes DEF Service!Next
<1>2. CASE (\E e \in InEps : SubmitIn(e)) \/ OutPayload
  BY <1>2, DispatchServes
<1>3. ASSUME NEW u \in Urbs, Unlink(u)
      PROVE  Service!Next \/ UNCHANGED <<Status, Waiting, ~connCancelled>>
  BY <1>3, <1>e, UnlinkServes DEF Service!Next
<1>4. ASSUME NEW e \in Eps, Claim(e)
      PROVE  Service!Next \/ UNCHANGED <<Status, Waiting, ~connCancelled>>
  BY <1>4, <1>e, ClaimServes DEF Service!Next
<1>5. ASSUME NEW e \in Eps, Receive(e)
      PROVE  UNCHANGED <<Status, Waiting, ~connCancelled>>
  BY <1>5, ReceiveInvisible
<1>6. ASSUME NEW e \in Eps, Reply(e) \/ TokenCancelled(e)
      PROVE  UNCHANGED <<Status, Waiting, ~connCancelled>>
  BY <1>6, LetGoInvisible
<1>7. ASSUME NEW e \in Eps, ConnCancelled(e) PROVE Service!Next
  BY <1>7, <1>e, ConnCancelledDrops DEF Service!Next
<1>8. CASE Break \/ WriteFails
  <2>1. UNCHANGED <<pending, verdict, queue, job>> /\ connCancelled'
    BY <1>8 DEF Break, WriteFails, workerVars
  <2> QED
    BY <2>1, CancelCloses DEF Service!Next
<1>9. CASE UNCHANGED <<pending, verdict, connCancelled, queue, job>>
  <2>1. \A e \in Eps : \A u \in pending : Holds(e, u)' <=> Holds(e, u)
    BY <1>9 DEF Holds
  <2> QED
    BY <1>9, <1>t, <2>1, Invisible
<1>10. CASE \/ \E e \in OutEps : SubmitOutHeader(e)
            \/ OutPayloadEof \/ UnlinkReply \/ Return
            \/ \E e \in Eps : QueueClosed(e) \/ TransferDone(e)
            \/ WriteOne \/ WriterDrained \/ Finished \/ UNCHANGED vars
  BY <1>9, <1>10
     DEF SubmitOutHeader, OutPayloadEof, UnlinkReply, Return, QueueClosed, TransferDone,
         WriteOne, WriterDrained, Finished, vars, workerVars
<1> QED
  BY <1>1, <1>2, <1>3, <1>4, <1>5, <1>6, <1>7, <1>8, <1>10
     DEF Next, LoopStep, WorkerStep, WriterStep, DeviceOrHostEnds, SeesConnCancelled

\* What the loop has read and nobody has taken out stays in `pending`.
LEMMA ReadStep ==
    ASSUME IInv, ReadInv, [Next]_vars
    PROVE  ReadInv'
<1>t. TypeOK /\ Hands /\ LoopInv
  BY DEF IInv, TypeInv
<1>u. next \in Nat /\ \A u \in Urbs : u \in Nat
  BY <1>t, ConstantsAssumption DEF TypeOK, ConstantsAssumption, Urbs
<1>1. CASE SubmitControl
  BY <1>1, <1>t, <1>u DEF SubmitControl, ReadInv, Frontier, Running, TypeOK
<1>2. ASSUME NEW e \in InEps, SubmitIn(e) PROVE ReadInv'
  BY <1>2, <1>t, <1>u DEF SubmitIn, Dispatch, ReadInv, Frontier, Running
<1>3. ASSUME NEW e \in OutEps, SubmitOutHeader(e) PROVE ReadInv'
  BY <1>3, <1>t, <1>u DEF SubmitOutHeader, ReadInv, Frontier, Running
<1>4. CASE OutPayload
  BY <1>4, <1>t, <1>u DEF OutPayload, Dispatch, ReadInv, Frontier, Running, LoopInv, Hands
<1>5. ASSUME NEW u \in Urbs, Unlink(u) PROVE ReadInv'
  BY <1>5, <1>t, <1>u DEF Unlink, ReadInv, Frontier, Running, TypeOK
<1>6. ASSUME NEW e \in Eps, Claim(e) PROVE ReadInv'
  BY <1>6, <1>t, <1>u DEF Claim, ReadInv, Frontier, Running, TypeOK, loopVars, Hands
<1>7. CASE UnlinkReply
  BY <1>7 DEF UnlinkReply, ReadInv, Frontier, Running
<1>8. CASE OutPayloadEof \/ Break \/ Return
  BY <1>8 DEF OutPayloadEof, Break, Return, ReadInv, Running
<1>9. CASE UNCHANGED <<loop, loopUrb, next, pending, verdict>>
  BY <1>9 DEF ReadInv, Frontier
<1>10. CASE \/ \E e \in Eps : \/ Receive(e) \/ QueueClosed(e) \/ TransferDone(e)
                              \/ Reply(e) \/ TokenCancelled(e) \/ ConnCancelled(e)
            \/ WriterStep \/ Finished \/ UNCHANGED vars
  BY <1>9, <1>10
     DEF Receive, QueueClosed, TransferDone, Reply, TokenCancelled, ConnCancelled,
         WriterStep, WriteOne, WriteFails, WriterDrained, Finished, vars, loopVars
<1> QED
  BY <1>1, <1>2, <1>3, <1>4, <1>5, <1>6, <1>7, <1>8, <1>10
     DEF Next, LoopStep, WorkerStep, DeviceOrHostEnds, SeesConnCancelled

\* The connection, with its tasks, locks and channels, is an implementation of the
\* service: for any number of endpoints and URBs, an endpoint completes the oldest
\* URB it owes, an unlink takes back one URB and disturbs no other, and nothing is
\* dropped while the connection is open.
THEOREM ImplementsUrbService == Spec => ImplementsService
<1>1. Init => ServiceInv /\ Service!Init
  <2> SUFFICES ASSUME Init PROVE ServiceInv /\ Service!Init
    OBVIOUS
  <2>1. IInv
    BY IInvInit
  <2>2. ExitInv /\ NoUrbStranded
    BY DEF Init, ExitInv, NoUrbStranded
  <2>3. OrderInv /\ EndpointOrder
    BY EmptySeq
       DEF Init, OrderInv, QueueSorted, JobFirst, SentFirst, UnreadInv, EndpointOrder
  <2>4. ReadInv
    BY DEF Init, ReadInv, Frontier, Urbs
  <2>5. Status = [u \in Service!Urbs |-> "new"]
    BY DEF Init, Status, Service!Urbs, Urbs
  <2>6. Waiting = [e \in Service!Eps |-> {}]
    BY DEF Init, Waiting, Service!Eps, Eps
  <2>7. (~connCancelled) = TRUE
    BY DEF Init
  <2> QED
    BY <2>1, <2>2, <2>3, <2>4, <2>5, <2>6, <2>7 DEF ServiceInv, Service!Init
<1>2. ServiceInv /\ [Next]_vars => ServiceInv'
  BY IInvStep, StrandedStep, OrderStep, ReadStep DEF ServiceInv
<1>3. ServiceInv /\ [Next]_vars => [Service!Next]_<<Status, Waiting, ~connCancelled>>
  BY ServiceStep
<1> QED
  BY <1>1, <1>2, <1>3, PTL DEF Spec, ImplementsService, Service!Spec, Service!vars
=============================================================================
