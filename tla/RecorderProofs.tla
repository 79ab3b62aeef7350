--------------------------- MODULE RecorderProofs ---------------------------
(***************************************************************************)
(* Theorems about Recorder, for any number of read requests, polls and       *)
(* unlinks.                                                                *)
(***************************************************************************)
EXTENDS Recorder, SequenceTheorems, TLAPS

AllPlaces == {"idle", "in_req", "dispatch", "unlink", "detach", "ended", "transfer", "claim",
              "pop", "push", "stamp", "emit", "reply"}

\* Which URBs the tasks hold: without it TypeOK is not inductive, for a poll
\* enters the queue, and a request the pairing FIFO, from the hands of a task.
HoldInv ==
    /\ pc \in [Tasks -> AllPlaces]
    /\ pc["loop"] \in {"in_req", "dispatch"} => urb["loop"] \in {"in"} \X Polls
    /\ pc["out"] # "idle" => urb["out"] \in {"out"} \X Reads
    /\ pc["in"] # "idle" => urb["in"] \in {"in"} \X Polls

\* Moving one task leaves the others where they are.
LEMMA GotoEffect ==
    ASSUME HoldInv, \A s \in Tasks : pc[s] \in Places[s],
           NEW t \in Tasks, NEW p \in Places[t], Goto(t, p)
    PROVE  /\ pc' \in [Tasks -> AllPlaces]
           /\ pc'[t] = p
           /\ \A s \in Tasks \ {t} : pc'[s] = pc[s]
           /\ \A s \in Tasks : pc'[s] \in Places[s]
<1>1. p \in AllPlaces
  BY DEF Tasks, Places, AllPlaces
<1>2. pc' = [pc EXCEPT ![t] = p] /\ pc \in [Tasks -> AllPlaces]
  BY DEF Goto, HoldInv
<1>3. /\ pc' \in [Tasks -> AllPlaces]
      /\ pc'[t] = p
      /\ \A s \in Tasks \ {t} : pc'[s] = pc[s]
  BY <1>1, <1>2
<1> QED
  BY <1>3

\* The two steps of writing a line keep the types of the log.
LEMMA StampTypes ==
    ASSUME TypeOK, NEW t \in Tasks, Stamp(t)
    PROVE  seq' \in Nat /\ file' \in Seq(Lines) /\ stampOf' \in [Tasks -> Nat]
BY DEF TypeOK, Stamp

\* Writing a line keeps the types of the file and of what was held.
LEMMA EmitTypes ==
    ASSUME TypeOK, NEW t \in Tasks, NEW kind \in Kinds, NEW value \in Reads \cup {Nobody},
           NEW reg \in Reads \cup {Nobody}, Emit(t, kind, value, reg)
    PROVE  seq' \in Nat /\ file' \in Seq(Lines) /\ stampOf' \in [Tasks -> Nat]
<1> DEFINE line == Line(stampOf[t], kind, urb[t], value, reg)
<1>1. stampOf[t] \in Nat /\ urb[t] \in Urbs \cup {NoUrb}
  BY DEF TypeOK
<1>2. line \in Lines
  BY <1>1 DEF Line, Lines
<1>3. Append(file, line) \in Seq(Lines)
  BY <1>2, AppendProperties DEF TypeOK
<1>4. [stampOf EXCEPT ![t] = 0] \in [Tasks -> Nat]
  BY DEF TypeOK
<1> QED
  BY <1>3, <1>4 DEF Emit, TypeOK

\* What a task moves the queues by stays what the queue holds.
LEMMA QueueTypes ==
    ASSUME NEW S, NEW s \in Seq(S)
    PROVE  /\ \A e \in S : Append(s, e) \in Seq(S)
           /\ s # << >> => Head(s) \in S /\ Tail(s) \in Seq(S)
BY AppendProperties, HeadTailProperties

\* URBs by number.
LEMMA UrbTypes ==
    /\ \A i \in Reads : <<"out", i>> \in Urbs /\ <<"out", i>> \in {"out"} \X Reads
    /\ \A i \in Polls : <<"in", i>> \in Urbs /\ <<"in", i>> \in {"in"} \X Polls
    /\ \A u \in {"out"} \X Reads : u[2] \in Reads /\ u = <<"out", u[2]>> /\ u \in Urbs
    /\ \A u \in {"in"} \X Polls : u[2] \in Polls /\ u = <<"in", u[2]>> /\ u \in Urbs
BY DEF Urbs

TypeInv == TypeOK /\ HoldInv

\* The tasks and where they may stand.
LEMMA PlacesOf ==
    /\ "loop" \in Tasks /\ "out" \in Tasks /\ "in" \in Tasks
    /\ Places["loop"] = {"idle", "in_req", "dispatch", "unlink", "detach", "ended"}
    /\ Places["out"] = {"idle", "claim", "push", "stamp", "emit", "reply"}
    /\ Places["in"] = {"idle", "transfer", "claim", "pop", "stamp", "emit", "reply"}
BY DEF Tasks, Places

\* The three parts of the type invariant that a step may disturb, by themselves.
BusTypes ==
    /\ pending \subseteq Urbs /\ answered \subseteq Urbs /\ unlinked \subseteq Urbs
    /\ outQueue \in Seq(Reads) /\ inQueue \in Seq(Polls)
    /\ replies \in Seq(Reads) /\ pendingReads \in Seq(Reads)
LogTypes ==
    seq \in Nat /\ file \in Seq(Lines) /\ stampOf \in [Tasks -> Nat]
TaskTypes ==
    /\ \A t \in Tasks : pc[t] \in Places[t]
    /\ urb \in [Tasks -> Urbs \cup {NoUrb}]
    /\ reply \in Reads \cup {Nobody} /\ pair \in Reads \cup {Nobody}
HostTypes ==
    polite \in BOOLEAN /\ reads \in 0..MaxReads /\ polls \in 0..MaxPolls

\* TypeInv in parts.
LEMMA TypeParts ==
    TypeInv <=> HostTypes /\ BusTypes /\ LogTypes /\ TaskTypes /\ HoldInv
BY DEF TypeInv, TypeOK, HostTypes, BusTypes, LogTypes, TaskTypes

\* The initial state has the types.
LEMMA InitTypes == ASSUME Init PROVE TypeInv
<1>1. <<Line(1, "attach", NoUrb, Nobody, Nobody)>> \in Seq(Lines)
  <2>1. Line(1, "attach", NoUrb, Nobody, Nobody) \in Lines
    BY DEF Line, Lines, Kinds
  <2> QED BY <2>1
<1>2. HostTypes /\ BusTypes /\ LogTypes
  BY <1>1, ConstantsAssumption, EmptySeq DEF Init, HostTypes, BusTypes, LogTypes, ConstantsAssumption
<1>3. TaskTypes /\ HoldInv
  BY DEF Init, TaskTypes, HoldInv, Tasks, Places, AllPlaces
<1> QED BY <1>2, <1>3, TypeParts

\* The loop keeps the types: one step per place of its line.
LEMMA LoopTypes == ASSUME TypeInv, Loop PROVE TypeInv'
<1>0. TypeOK /\ HostTypes /\ BusTypes /\ LogTypes /\ TaskTypes /\ HoldInv
  BY TypeParts DEF TypeInv
<1>1. CASE SubmitRead
  <2>1. HostTypes' /\ BusTypes'
    BY <1>1, <1>0, UrbTypes, QueueTypes, ConstantsAssumption DEF SubmitRead, hostVars, busVars, HostTypes, BusTypes, Reads, Polls, Urbs, ConstantsAssumption
  <2>2. LogTypes'
    BY <1>1, <1>0 DEF SubmitRead, LogTypes, logVars
  <2>3. TaskTypes' /\ HoldInv'
    BY <1>1, <1>0 DEF SubmitRead, TaskTypes, HoldInv
  <2> QED BY <2>1, <2>2, <2>3 DEF TypeInv, TypeOK, HostTypes, BusTypes, LogTypes, TaskTypes
<1>2. CASE SubmitPoll
  <2>0. polls + 1 \in Polls /\ <<"in", polls + 1>> \in {"in"} \X Polls
    BY <1>2, <1>0, ConstantsAssumption DEF SubmitPoll, HostTypes, Polls, ConstantsAssumption
  <2>1. HostTypes' /\ BusTypes'
    BY <1>2, <1>0, ConstantsAssumption DEF SubmitPoll, hostVars, busVars, HostTypes, BusTypes, Reads, Polls, Urbs, ConstantsAssumption
  <2>2. LogTypes'
    BY <1>2, <1>0, StampTypes, PlacesOf DEF SubmitPoll, LogTypes
  <2>3. /\ pc' \in [Tasks -> AllPlaces] /\ \A s \in Tasks : pc'[s] \in Places[s]
        /\ \A s \in Tasks \ {"loop"} : pc'[s] = pc[s]
        /\ pc'["loop"] = "in_req"
    BY <1>2, <1>0, GotoEffect, PlacesOf DEF SubmitPoll, TaskTypes
  <2>4. /\ urb' \in [Tasks -> Urbs \cup {NoUrb}] /\ reply' \in Reads \cup {Nobody}
        /\ pair' \in Reads \cup {Nobody}
    BY <2>0, <1>2, <1>0, UrbTypes, PlacesOf DEF SubmitPoll, TaskTypes, Polls, HostTypes
  <2>5. HoldInv'
    BY <2>0, <1>2, <1>0, <2>3, PlacesOf, UrbTypes DEF SubmitPoll, HoldInv, TaskTypes, Polls, HostTypes
  <2> QED BY <2>1, <2>2, <2>3, <2>4, <2>5 DEF TypeInv, TypeOK, HostTypes, BusTypes, LogTypes, TaskTypes
<1>3. CASE InReqEmit
  <2>1. HostTypes' /\ BusTypes'
    BY <1>3, <1>0 DEF InReqEmit, hostVars, busVars, HostTypes, BusTypes
  <2>2. LogTypes'
    BY <1>3, <1>0, EmitTypes, PlacesOf DEF InReqEmit, LogTypes, Kinds, TaskTypes, Nobody
  <2>3. /\ pc' \in [Tasks -> AllPlaces] /\ \A s \in Tasks : pc'[s] \in Places[s]
        /\ \A s \in Tasks \ {"loop"} : pc'[s] = pc[s]
        /\ pc'["loop"] = "dispatch"
    BY <1>3, <1>0, GotoEffect, PlacesOf DEF InReqEmit, TaskTypes
  <2>4. /\ urb' \in [Tasks -> Urbs \cup {NoUrb}] /\ reply' \in Reads \cup {Nobody}
        /\ pair' \in Reads \cup {Nobody}
    BY <1>3, <1>0, UrbTypes, PlacesOf DEF InReqEmit, TaskTypes
  <2>5. HoldInv'
    BY <1>3, <1>0, <2>3, PlacesOf, UrbTypes DEF InReqEmit, HoldInv, TaskTypes
  <2> QED BY <2>1, <2>2, <2>3, <2>4, <2>5 DEF TypeInv, TypeOK, HostTypes, BusTypes, LogTypes, TaskTypes
<1>4. CASE DispatchPoll
  <2>1. HostTypes' /\ BusTypes'
    BY <1>4, <1>0, UrbTypes, QueueTypes DEF DispatchPoll, hostVars, busVars, HostTypes, BusTypes, HoldInv
  <2>2. LogTypes'
    BY <1>4, <1>0 DEF DispatchPoll, LogTypes, logVars
  <2>3. /\ pc' \in [Tasks -> AllPlaces] /\ \A s \in Tasks : pc'[s] \in Places[s]
        /\ \A s \in Tasks \ {"loop"} : pc'[s] = pc[s]
        /\ pc'["loop"] = "idle"
    BY <1>4, <1>0, GotoEffect, PlacesOf DEF DispatchPoll, TaskTypes
  <2>4. /\ urb' \in [Tasks -> Urbs \cup {NoUrb}] /\ reply' \in Reads \cup {Nobody}
        /\ pair' \in Reads \cup {Nobody}
    BY <1>4, <1>0, UrbTypes, PlacesOf, QueueTypes DEF DispatchPoll, TaskTypes, BusTypes
  <2>5. HoldInv'
    BY <1>4, <1>0, <2>3, PlacesOf, UrbTypes, QueueTypes DEF DispatchPoll, HoldInv, TaskTypes, BusTypes
  <2> QED BY <2>1, <2>2, <2>3, <2>4, <2>5 DEF TypeInv, TypeOK, HostTypes, BusTypes, LogTypes, TaskTypes
<1>5. ASSUME NEW u \in Urbs, Unlink(u) PROVE TypeInv'
  <2>1. HostTypes' /\ BusTypes'
    BY <1>5, <1>0 DEF Unlink, hostVars, busVars, HostTypes, BusTypes
  <2>2. LogTypes'
    BY <1>5, <1>0, StampTypes, PlacesOf DEF Unlink, LogTypes
  <2>3. /\ pc' \in [Tasks -> AllPlaces] /\ \A s \in Tasks : pc'[s] \in Places[s]
        /\ \A s \in Tasks \ {"loop"} : pc'[s] = pc[s]
        /\ pc'["loop"] = "unlink"
    BY <1>5, <1>0, GotoEffect, PlacesOf DEF Unlink, TaskTypes
  <2>4. /\ urb' \in [Tasks -> Urbs \cup {NoUrb}] /\ reply' \in Reads \cup {Nobody}
        /\ pair' \in Reads \cup {Nobody}
    BY <1>5, <1>0, UrbTypes, PlacesOf, QueueTypes DEF Unlink, TaskTypes
  <2>5. HoldInv'
    BY <1>5, <1>0, <2>3, PlacesOf, UrbTypes DEF Unlink, HoldInv, TaskTypes
  <2> QED BY <2>1, <2>2, <2>3, <2>4, <2>5 DEF TypeInv, TypeOK, HostTypes, BusTypes, LogTypes, TaskTypes
<1>6. CASE UnlinkEmit
  <2>1. HostTypes' /\ BusTypes'
    BY <1>6, <1>0 DEF UnlinkEmit, hostVars, busVars, HostTypes, BusTypes
  <2>2. LogTypes'
    BY <1>6, <1>0, EmitTypes, PlacesOf DEF UnlinkEmit, LogTypes, Kinds, TaskTypes, Nobody
  <2>3. /\ pc' \in [Tasks -> AllPlaces] /\ \A s \in Tasks : pc'[s] \in Places[s]
        /\ \A s \in Tasks \ {"loop"} : pc'[s] = pc[s]
        /\ pc'["loop"] = "idle"
    BY <1>6, <1>0, GotoEffect, PlacesOf DEF UnlinkEmit, TaskTypes
  <2>4. /\ urb' \in [Tasks -> Urbs \cup {NoUrb}] /\ reply' \in Reads \cup {Nobody}
        /\ pair' \in Reads \cup {Nobody}
    BY <1>6, <1>0, UrbTypes, PlacesOf DEF UnlinkEmit, TaskTypes
  <2>5. HoldInv'
    BY <1>6, <1>0, <2>3, PlacesOf, UrbTypes DEF UnlinkEmit, HoldInv, TaskTypes
  <2> QED BY <2>1, <2>2, <2>3, <2>4, <2>5 DEF TypeInv, TypeOK, HostTypes, BusTypes, LogTypes, TaskTypes
<1>7. CASE Detach
  <2>1. HostTypes' /\ BusTypes'
    BY <1>7, <1>0 DEF Detach, hostVars, busVars, HostTypes, BusTypes
  <2>2. LogTypes'
    BY <1>7, <1>0, StampTypes, PlacesOf DEF Detach, LogTypes
  <2>3. /\ pc' \in [Tasks -> AllPlaces] /\ \A s \in Tasks : pc'[s] \in Places[s]
        /\ \A s \in Tasks \ {"loop"} : pc'[s] = pc[s]
        /\ pc'["loop"] = "detach"
    BY <1>7, <1>0, GotoEffect, PlacesOf DEF Detach, TaskTypes
  <2>4. /\ urb' \in [Tasks -> Urbs \cup {NoUrb}] /\ reply' \in Reads \cup {Nobody}
        /\ pair' \in Reads \cup {Nobody}
    BY <1>7, <1>0, UrbTypes, PlacesOf DEF Detach, TaskTypes
  <2>5. HoldInv'
    BY <1>7, <1>0, <2>3, PlacesOf, UrbTypes DEF Detach, HoldInv, TaskTypes
  <2> QED BY <2>1, <2>2, <2>3, <2>4, <2>5 DEF TypeInv, TypeOK, HostTypes, BusTypes, LogTypes, TaskTypes
<1>8. CASE DetachEmit
  <2>1. HostTypes' /\ BusTypes'
    BY <1>8, <1>0 DEF DetachEmit, hostVars, busVars, HostTypes, BusTypes
  <2>2. LogTypes'
    BY <1>8, <1>0, EmitTypes, PlacesOf DEF DetachEmit, LogTypes, Kinds, TaskTypes, Nobody
  <2>3. /\ pc' \in [Tasks -> AllPlaces] /\ \A s \in Tasks : pc'[s] \in Places[s]
        /\ \A s \in Tasks \ {"loop"} : pc'[s] = pc[s]
        /\ pc'["loop"] = "ended"
    BY <1>8, <1>0, GotoEffect, PlacesOf DEF DetachEmit, TaskTypes
  <2>4. /\ urb' \in [Tasks -> Urbs \cup {NoUrb}] /\ reply' \in Reads \cup {Nobody}
        /\ pair' \in Reads \cup {Nobody}
    BY <1>8, <1>0, UrbTypes, PlacesOf DEF DetachEmit, TaskTypes
  <2>5. HoldInv'
    BY <1>8, <1>0, <2>3, PlacesOf, UrbTypes DEF DetachEmit, HoldInv, TaskTypes
  <2> QED BY <2>1, <2>2, <2>3, <2>4, <2>5 DEF TypeInv, TypeOK, HostTypes, BusTypes, LogTypes, TaskTypes
<1> QED BY <1>1, <1>2, <1>3, <1>4, <1>5, <1>6, <1>7, <1>8 DEF Loop

\* The OUT worker keeps the types.
LEMMA OutWorkerTypes == ASSUME TypeInv, OutWorker PROVE TypeInv'
<1>0. TypeOK /\ HostTypes /\ BusTypes /\ LogTypes /\ TaskTypes /\ HoldInv
  BY TypeParts DEF TypeInv
<1>1. CASE OutTransfer
  <2>0. /\ Head(outQueue) \in Reads /\ Tail(outQueue) \in Seq(Reads)
        /\ Append(replies, Head(outQueue)) \in Seq(Reads)
    BY <1>1, <1>0, QueueTypes DEF OutTransfer, BusTypes
  <2>1. HostTypes' /\ BusTypes'
    BY <2>0, <1>1, <1>0 DEF OutTransfer, hostVars, busVars, HostTypes, BusTypes
  <2>2. LogTypes'
    BY <1>1, <1>0 DEF OutTransfer, LogTypes, logVars
  <2>3. /\ pc' \in [Tasks -> AllPlaces] /\ \A s \in Tasks : pc'[s] \in Places[s]
        /\ \A s \in Tasks \ {"out"} : pc'[s] = pc[s]
        /\ pc'["out"] = "claim" \/ (urb' = urb /\ pc' = pc)
    BY <1>1, <1>0, GotoEffect, PlacesOf DEF OutTransfer, TaskTypes, HoldInv
  <2>4. /\ urb' \in [Tasks -> Urbs \cup {NoUrb}] /\ reply' \in Reads \cup {Nobody}
        /\ pair' \in Reads \cup {Nobody}
    BY <2>0, <1>1, <1>0, UrbTypes, PlacesOf DEF OutTransfer, TaskTypes, BusTypes
  <2>5. HoldInv'
    BY <2>0, <1>1, <1>0, <2>3, PlacesOf, UrbTypes, QueueTypes DEF OutTransfer, HoldInv, TaskTypes, BusTypes
  <2> QED BY <2>1, <2>2, <2>3, <2>4, <2>5 DEF TypeInv, TypeOK, HostTypes, BusTypes, LogTypes, TaskTypes
<1>2. CASE OutClaim
  <2>1. HostTypes' /\ BusTypes'
    BY <1>2, <1>0 DEF OutClaim, hostVars, busVars, HostTypes, BusTypes
  <2>2. LogTypes'
    BY <1>2, <1>0 DEF OutClaim, LogTypes, logVars
  <2>3. /\ pc' \in [Tasks -> AllPlaces] /\ \A s \in Tasks : pc'[s] \in Places[s]
        /\ \A s \in Tasks \ {"out"} : pc'[s] = pc[s]
        /\ pc'["out"] = "push" \/ pc'["out"] = "idle"
    BY <1>2, <1>0, GotoEffect, PlacesOf DEF OutClaim, TaskTypes
  <2>4. /\ urb' \in [Tasks -> Urbs \cup {NoUrb}] /\ reply' \in Reads \cup {Nobody}
        /\ pair' \in Reads \cup {Nobody}
    BY <1>2, <1>0, UrbTypes, PlacesOf DEF OutClaim, TaskTypes
  <2>5. HoldInv'
    BY <1>2, <1>0, <2>3, PlacesOf, UrbTypes DEF OutClaim, HoldInv, TaskTypes
  <2> QED BY <2>1, <2>2, <2>3, <2>4, <2>5 DEF TypeInv, TypeOK, HostTypes, BusTypes, LogTypes, TaskTypes
<1>3. CASE OutPush
  <2>1. HostTypes' /\ BusTypes'
    BY <1>3, <1>0, UrbTypes, QueueTypes DEF OutPush, hostVars, busVars, HostTypes, BusTypes, HoldInv
  <2>2. LogTypes'
    BY <1>3, <1>0 DEF OutPush, LogTypes, logVars
  <2>3. /\ pc' \in [Tasks -> AllPlaces] /\ \A s \in Tasks : pc'[s] \in Places[s]
        /\ \A s \in Tasks \ {"out"} : pc'[s] = pc[s]
        /\ pc'["out"] = "stamp"
    BY <1>3, <1>0, GotoEffect, PlacesOf DEF OutPush, TaskTypes
  <2>4. /\ urb' \in [Tasks -> Urbs \cup {NoUrb}] /\ reply' \in Reads \cup {Nobody}
        /\ pair' \in Reads \cup {Nobody}
    BY <1>3, <1>0, UrbTypes, PlacesOf, QueueTypes DEF OutPush, TaskTypes, BusTypes
  <2>5. HoldInv'
    BY <1>3, <1>0, <2>3, PlacesOf, UrbTypes, QueueTypes DEF OutPush, HoldInv, TaskTypes, BusTypes
  <2> QED BY <2>1, <2>2, <2>3, <2>4, <2>5 DEF TypeInv, TypeOK, HostTypes, BusTypes, LogTypes, TaskTypes
<1>4. CASE OutStamp
  <2>1. HostTypes' /\ BusTypes'
    BY <1>4, <1>0 DEF OutStamp, hostVars, busVars, HostTypes, BusTypes
  <2>2. LogTypes'
    BY <1>4, <1>0, StampTypes, PlacesOf DEF OutStamp, LogTypes
  <2>3. /\ pc' \in [Tasks -> AllPlaces] /\ \A s \in Tasks : pc'[s] \in Places[s]
        /\ \A s \in Tasks \ {"out"} : pc'[s] = pc[s]
        /\ pc'["out"] = "emit"
    BY <1>4, <1>0, GotoEffect, PlacesOf DEF OutStamp, TaskTypes
  <2>4. /\ urb' \in [Tasks -> Urbs \cup {NoUrb}] /\ reply' \in Reads \cup {Nobody}
        /\ pair' \in Reads \cup {Nobody}
    BY <1>4, <1>0, UrbTypes, PlacesOf DEF OutStamp, TaskTypes
  <2>5. HoldInv'
    BY <1>4, <1>0, <2>3, PlacesOf, UrbTypes DEF OutStamp, HoldInv, TaskTypes
  <2> QED BY <2>1, <2>2, <2>3, <2>4, <2>5 DEF TypeInv, TypeOK, HostTypes, BusTypes, LogTypes, TaskTypes
<1>5. CASE OutEmit
  <2>1. HostTypes' /\ BusTypes'
    BY <1>5, <1>0 DEF OutEmit, hostVars, busVars, HostTypes, BusTypes
  <2>2. LogTypes'
    BY <1>5, <1>0, EmitTypes, PlacesOf DEF OutEmit, LogTypes, Kinds, TaskTypes, Nobody
  <2>3. /\ pc' \in [Tasks -> AllPlaces] /\ \A s \in Tasks : pc'[s] \in Places[s]
        /\ \A s \in Tasks \ {"out"} : pc'[s] = pc[s]
        /\ pc'["out"] = "reply"
    BY <1>5, <1>0, GotoEffect, PlacesOf DEF OutEmit, TaskTypes
  <2>4. /\ urb' \in [Tasks -> Urbs \cup {NoUrb}] /\ reply' \in Reads \cup {Nobody}
        /\ pair' \in Reads \cup {Nobody}
    BY <1>5, <1>0, UrbTypes, PlacesOf DEF OutEmit, TaskTypes
  <2>5. HoldInv'
    BY <1>5, <1>0, <2>3, PlacesOf, UrbTypes DEF OutEmit, HoldInv, TaskTypes
  <2> QED BY <2>1, <2>2, <2>3, <2>4, <2>5 DEF TypeInv, TypeOK, HostTypes, BusTypes, LogTypes, TaskTypes
<1>6. CASE OutReply
  <2>1. HostTypes' /\ BusTypes'
    BY <1>6, <1>0, UrbTypes, QueueTypes DEF OutReply, hostVars, busVars, HostTypes, BusTypes, HoldInv
  <2>2. LogTypes'
    BY <1>6, <1>0 DEF OutReply, LogTypes, logVars
  <2>3. /\ pc' \in [Tasks -> AllPlaces] /\ \A s \in Tasks : pc'[s] \in Places[s]
        /\ \A s \in Tasks \ {"out"} : pc'[s] = pc[s]
        /\ pc'["out"] = "idle"
    BY <1>6, <1>0, GotoEffect, PlacesOf DEF OutReply, TaskTypes
  <2>4. /\ urb' \in [Tasks -> Urbs \cup {NoUrb}] /\ reply' \in Reads \cup {Nobody}
        /\ pair' \in Reads \cup {Nobody}
    BY <1>6, <1>0, UrbTypes, PlacesOf DEF OutReply, TaskTypes
  <2>5. HoldInv'
    BY <1>6, <1>0, <2>3, PlacesOf, UrbTypes DEF OutReply, HoldInv, TaskTypes
  <2> QED BY <2>1, <2>2, <2>3, <2>4, <2>5 DEF TypeInv, TypeOK, HostTypes, BusTypes, LogTypes, TaskTypes
<1> QED BY <1>1, <1>2, <1>3, <1>4, <1>5, <1>6 DEF OutWorker

\* The IN worker keeps the types.
LEMMA InWorkerTypes == ASSUME TypeInv, InWorker PROVE TypeInv'
<1>0. TypeOK /\ HostTypes /\ BusTypes /\ LogTypes /\ TaskTypes /\ HoldInv
  BY TypeParts DEF TypeInv
<1>1. CASE InStart
  <2>0. Head(inQueue) \in Polls /\ Tail(inQueue) \in Seq(Polls)
    BY <1>1, <1>0, QueueTypes DEF InStart, BusTypes
  <2>1. HostTypes' /\ BusTypes'
    BY <2>0, <1>1, <1>0 DEF InStart, hostVars, busVars, HostTypes, BusTypes
  <2>2. LogTypes'
    BY <1>1, <1>0 DEF InStart, LogTypes, logVars
  <2>3. /\ pc' \in [Tasks -> AllPlaces] /\ \A s \in Tasks : pc'[s] \in Places[s]
        /\ \A s \in Tasks \ {"in"} : pc'[s] = pc[s]
        /\ pc'["in"] = "transfer" \/ (urb' = urb /\ pc' = pc)
    BY <1>1, <1>0, GotoEffect, PlacesOf DEF InStart, TaskTypes, HoldInv
  <2>4. /\ urb' \in [Tasks -> Urbs \cup {NoUrb}] /\ reply' \in Reads \cup {Nobody}
        /\ pair' \in Reads \cup {Nobody}
    BY <2>0, <1>1, <1>0, UrbTypes, PlacesOf DEF InStart, TaskTypes, BusTypes
  <2>5. HoldInv'
    BY <2>0, <1>1, <1>0, <2>3, PlacesOf, UrbTypes, QueueTypes DEF InStart, HoldInv, TaskTypes, BusTypes
  <2> QED BY <2>1, <2>2, <2>3, <2>4, <2>5 DEF TypeInv, TypeOK, HostTypes, BusTypes, LogTypes, TaskTypes
<1>2. CASE InTransfer
  <2>1. HostTypes' /\ BusTypes'
    BY <1>2, <1>0, UrbTypes, QueueTypes DEF InTransfer, hostVars, busVars, HostTypes, BusTypes
  <2>2. LogTypes'
    BY <1>2, <1>0 DEF InTransfer, LogTypes, logVars
  <2>3. /\ pc' \in [Tasks -> AllPlaces] /\ \A s \in Tasks : pc'[s] \in Places[s]
        /\ \A s \in Tasks \ {"in"} : pc'[s] = pc[s]
        /\ pc'["in"] = "claim"
    BY <1>2, <1>0, GotoEffect, PlacesOf DEF InTransfer, TaskTypes
  <2>4. /\ urb' \in [Tasks -> Urbs \cup {NoUrb}] /\ reply' \in Reads \cup {Nobody}
        /\ pair' \in Reads \cup {Nobody}
    BY <1>2, <1>0, UrbTypes, PlacesOf, QueueTypes DEF InTransfer, TaskTypes, BusTypes
  <2>5. HoldInv'
    BY <1>2, <1>0, <2>3, PlacesOf, UrbTypes, QueueTypes DEF InTransfer, HoldInv, TaskTypes, BusTypes
  <2> QED BY <2>1, <2>2, <2>3, <2>4, <2>5 DEF TypeInv, TypeOK, HostTypes, BusTypes, LogTypes, TaskTypes
<1>3. CASE InCancelled
  <2>1. HostTypes' /\ BusTypes'
    BY <1>3, <1>0 DEF InCancelled, hostVars, busVars, HostTypes, BusTypes
  <2>2. LogTypes'
    BY <1>3, <1>0 DEF InCancelled, LogTypes, logVars
  <2>3. /\ pc' \in [Tasks -> AllPlaces] /\ \A s \in Tasks : pc'[s] \in Places[s]
        /\ \A s \in Tasks \ {"in"} : pc'[s] = pc[s]
        /\ pc'["in"] = "idle"
    BY <1>3, <1>0, GotoEffect, PlacesOf DEF InCancelled, TaskTypes
  <2>4. /\ urb' \in [Tasks -> Urbs \cup {NoUrb}] /\ reply' \in Reads \cup {Nobody}
        /\ pair' \in Reads \cup {Nobody}
    BY <1>3, <1>0, UrbTypes, PlacesOf DEF InCancelled, TaskTypes
  <2>5. HoldInv'
    BY <1>3, <1>0, <2>3, PlacesOf, UrbTypes DEF InCancelled, HoldInv, TaskTypes
  <2> QED BY <2>1, <2>2, <2>3, <2>4, <2>5 DEF TypeInv, TypeOK, HostTypes, BusTypes, LogTypes, TaskTypes
<1>4. CASE InClaim
  <2>1. HostTypes' /\ BusTypes'
    BY <1>4, <1>0 DEF InClaim, hostVars, busVars, HostTypes, BusTypes
  <2>2. LogTypes'
    BY <1>4, <1>0 DEF InClaim, LogTypes, logVars
  <2>3. /\ pc' \in [Tasks -> AllPlaces] /\ \A s \in Tasks : pc'[s] \in Places[s]
        /\ \A s \in Tasks \ {"in"} : pc'[s] = pc[s]
        /\ pc'["in"] = "pop" \/ pc'["in"] = "idle"
    BY <1>4, <1>0, GotoEffect, PlacesOf DEF InClaim, TaskTypes
  <2>4. /\ urb' \in [Tasks -> Urbs \cup {NoUrb}] /\ reply' \in Reads \cup {Nobody}
        /\ pair' \in Reads \cup {Nobody}
    BY <1>4, <1>0, UrbTypes, PlacesOf DEF InClaim, TaskTypes
  <2>5. HoldInv'
    BY <1>4, <1>0, <2>3, PlacesOf, UrbTypes DEF InClaim, HoldInv, TaskTypes
  <2> QED BY <2>1, <2>2, <2>3, <2>4, <2>5 DEF TypeInv, TypeOK, HostTypes, BusTypes, LogTypes, TaskTypes
<1>5. CASE InPop
  <2>0. pendingReads # << >> =>
          Head(pendingReads) \in Reads /\ Tail(pendingReads) \in Seq(Reads)
    BY <1>5, <1>0, QueueTypes DEF BusTypes
  <2>1. HostTypes' /\ BusTypes'
    BY <2>0, <1>5, <1>0 DEF InPop, hostVars, busVars, HostTypes, BusTypes
  <2>2. LogTypes'
    BY <1>5, <1>0 DEF InPop, LogTypes, logVars
  <2>3. /\ pc' \in [Tasks -> AllPlaces] /\ \A s \in Tasks : pc'[s] \in Places[s]
        /\ \A s \in Tasks \ {"in"} : pc'[s] = pc[s]
        /\ pc'["in"] = "stamp"
    BY <1>5, <1>0, GotoEffect, PlacesOf DEF InPop, TaskTypes
  <2>4. /\ urb' \in [Tasks -> Urbs \cup {NoUrb}] /\ reply' \in Reads \cup {Nobody}
        /\ pair' \in Reads \cup {Nobody}
    BY <2>0, <1>5, <1>0, UrbTypes, PlacesOf, QueueTypes DEF InPop, TaskTypes, BusTypes
  <2>5. HoldInv'
    BY <1>5, <1>0, <2>3, PlacesOf, UrbTypes, QueueTypes DEF InPop, HoldInv, TaskTypes, BusTypes
  <2> QED BY <2>1, <2>2, <2>3, <2>4, <2>5 DEF TypeInv, TypeOK, HostTypes, BusTypes, LogTypes, TaskTypes
<1>6. CASE InStamp
  <2>1. HostTypes' /\ BusTypes'
    BY <1>6, <1>0 DEF InStamp, hostVars, busVars, HostTypes, BusTypes
  <2>2. LogTypes'
    BY <1>6, <1>0, StampTypes, PlacesOf DEF InStamp, LogTypes
  <2>3. /\ pc' \in [Tasks -> AllPlaces] /\ \A s \in Tasks : pc'[s] \in Places[s]
        /\ \A s \in Tasks \ {"in"} : pc'[s] = pc[s]
        /\ pc'["in"] = "emit"
    BY <1>6, <1>0, GotoEffect, PlacesOf DEF InStamp, TaskTypes
  <2>4. /\ urb' \in [Tasks -> Urbs \cup {NoUrb}] /\ reply' \in Reads \cup {Nobody}
        /\ pair' \in Reads \cup {Nobody}
    BY <1>6, <1>0, UrbTypes, PlacesOf DEF InStamp, TaskTypes
  <2>5. HoldInv'
    BY <1>6, <1>0, <2>3, PlacesOf, UrbTypes DEF InStamp, HoldInv, TaskTypes
  <2> QED BY <2>1, <2>2, <2>3, <2>4, <2>5 DEF TypeInv, TypeOK, HostTypes, BusTypes, LogTypes, TaskTypes
<1>7. CASE InEmit
  <2>1. HostTypes' /\ BusTypes'
    BY <1>7, <1>0 DEF InEmit, hostVars, busVars, HostTypes, BusTypes
  <2>2. LogTypes'
    BY <1>7, <1>0, EmitTypes, PlacesOf DEF InEmit, LogTypes, Kinds, TaskTypes, Nobody
  <2>3. /\ pc' \in [Tasks -> AllPlaces] /\ \A s \in Tasks : pc'[s] \in Places[s]
        /\ \A s \in Tasks \ {"in"} : pc'[s] = pc[s]
        /\ pc'["in"] = "reply"
    BY <1>7, <1>0, GotoEffect, PlacesOf DEF InEmit, TaskTypes
  <2>4. /\ urb' \in [Tasks -> Urbs \cup {NoUrb}] /\ reply' \in Reads \cup {Nobody}
        /\ pair' \in Reads \cup {Nobody}
    BY <1>7, <1>0, UrbTypes, PlacesOf DEF InEmit, TaskTypes
  <2>5. HoldInv'
    BY <1>7, <1>0, <2>3, PlacesOf, UrbTypes DEF InEmit, HoldInv, TaskTypes
  <2> QED BY <2>1, <2>2, <2>3, <2>4, <2>5 DEF TypeInv, TypeOK, HostTypes, BusTypes, LogTypes, TaskTypes
<1>8. CASE InReply
  <2>1. HostTypes' /\ BusTypes'
    BY <1>8, <1>0, UrbTypes, QueueTypes DEF InReply, hostVars, busVars, HostTypes, BusTypes, HoldInv
  <2>2. LogTypes'
    BY <1>8, <1>0 DEF InReply, LogTypes, logVars
  <2>3. /\ pc' \in [Tasks -> AllPlaces] /\ \A s \in Tasks : pc'[s] \in Places[s]
        /\ \A s \in Tasks \ {"in"} : pc'[s] = pc[s]
        /\ pc'["in"] = "idle"
    BY <1>8, <1>0, GotoEffect, PlacesOf DEF InReply, TaskTypes
  <2>4. /\ urb' \in [Tasks -> Urbs \cup {NoUrb}] /\ reply' \in Reads \cup {Nobody}
        /\ pair' \in Reads \cup {Nobody}
    BY <1>8, <1>0, UrbTypes, PlacesOf DEF InReply, TaskTypes
  <2>5. HoldInv'
    BY <1>8, <1>0, <2>3, PlacesOf, UrbTypes DEF InReply, HoldInv, TaskTypes
  <2> QED BY <2>1, <2>2, <2>3, <2>4, <2>5 DEF TypeInv, TypeOK, HostTypes, BusTypes, LogTypes, TaskTypes
<1> QED BY <1>1, <1>2, <1>3, <1>4, <1>5, <1>6, <1>7, <1>8 DEF InWorker

\* The type invariant is kept by every step.
LEMMA TypeStep == ASSUME TypeInv, [Next]_vars PROVE TypeInv'
<1>1. CASE Next
  BY <1>1, LoopTypes, OutWorkerTypes, InWorkerTypes DEF Next
<1>2. CASE UNCHANGED vars
  BY <1>2 DEF vars, hostVars, busVars, logVars, TypeInv, TypeOK, HoldInv
<1> QED BY <1>1, <1>2

\* Recorder.TypeOK holds: every variable of the log and of its three tasks keeps
\* its type, for any number of reads, polls and unlinks.
THEOREM TypeCorrect == Spec => []TypeOK
<1>1. Init => TypeInv
  BY InitTypes
<1>2. TypeInv /\ [Next]_vars => TypeInv'
  BY TypeStep
<1>3. TypeInv => TypeOK
  BY DEF TypeInv
<1> QED BY <1>1, <1>2, <1>3, PTL DEF Spec

-----------------------------------------------------------------------------
(* Numbers and lines. *)

\* Where a task holds a number whose line it has not written.
EmitPlaces == [loop |-> {"in_req", "unlink", "detach"}, out |-> {"emit"}, in |-> {"emit"}]

\* Neither the lines nor the tasks have a number that was not given out, and a
\* task has one just where it is about to write.
StampInv ==
    /\ \A t \in Tasks : stampOf[t] # 0 <=> pc[t] \in EmitPlaces[t]
    /\ \A t \in Tasks : stampOf[t] <= seq
    /\ \A i \in 1..Len(file) : file[i].n <= seq

\* Where each task stands when it holds a number.
LEMMA EmitPlacesOf ==
    /\ EmitPlaces["loop"] = {"in_req", "unlink", "detach"}
    /\ EmitPlaces["out"] = {"emit"} /\ EmitPlaces["in"] = {"emit"}
BY DEF EmitPlaces

\* The lines each task writes.
KindsOf == [loop |-> {"in_req", "unlink", "detach"}, out |-> {"reg_read_req"}, in |-> {"reg_read"}]

\* Each task writes lines of its own kinds.
LEMMA KindsOfTasks ==
    /\ KindsOf["loop"] = {"in_req", "unlink", "detach"}
    /\ KindsOf["out"] = {"reg_read_req"} /\ KindsOf["in"] = {"reg_read"}
BY DEF KindsOf

\* The ways a step can touch the log.
Silent ==
    /\ UNCHANGED logVars
    /\ \A t \in Tasks : pc'[t] \in EmitPlaces[t] <=> pc[t] \in EmitPlaces[t]
Numbers(t) ==
    /\ Stamp(t) /\ pc[t] \notin EmitPlaces[t] /\ pc'[t] \in EmitPlaces[t]
    /\ \A s \in Tasks \ {t} : pc'[s] = pc[s]
Writes(t, kind, value, reg) ==
    /\ Emit(t, kind, value, reg) /\ pc[t] \in EmitPlaces[t] /\ pc'[t] \notin EmitPlaces[t]
    /\ \A s \in Tasks \ {t} : pc'[s] = pc[s]
LogStep ==
    \/ Silent
    \/ \E t \in Tasks : Numbers(t)
    \/ \E t \in Tasks : \E kind \in KindsOf[t], value, reg \in Reads \cup {Nobody} :
         Writes(t, kind, value, reg)

\* Every step of a task is one of them.
LEMMA StepsOfTheLog == ASSUME TypeInv, Next PROVE LogStep
<1>0. TypeOK /\ HoldInv
  BY DEF TypeInv
<1>1. CASE SubmitRead
  BY <1>1 DEF SubmitRead, LogStep, Silent
<1>2. CASE SubmitPoll
  <2> Numbers("loop")
    BY <1>2, <1>0, PlacesOf, EmitPlacesOf DEF SubmitPoll, Goto, HoldInv, Numbers
  <2> QED BY PlacesOf DEF LogStep
<1>3. CASE InReqEmit
  <2>1. Writes("loop", "in_req", Nobody, Nobody)
    BY <1>3, <1>0, PlacesOf, EmitPlacesOf DEF InReqEmit, Goto, HoldInv, Writes
  <2>2. "in_req" \in KindsOf["loop"] /\ Nobody \in Reads \cup {Nobody} /\ Nobody \in Reads \cup {Nobody}
    BY <1>0, KindsOfTasks DEF TypeOK
  <2> QED BY <2>1, <2>2, PlacesOf DEF LogStep
<1>4. CASE DispatchPoll
  BY <1>4, <1>0, PlacesOf, EmitPlacesOf DEF DispatchPoll, Goto, Tasks, HoldInv, LogStep, Silent
<1>5. ASSUME NEW u \in Urbs, Unlink(u) PROVE LogStep
  <2> Numbers("loop")
    BY <1>5, <1>0, PlacesOf, EmitPlacesOf DEF Unlink, Goto, HoldInv, Numbers
  <2> QED BY PlacesOf DEF LogStep
<1>6. CASE UnlinkEmit
  <2>1. Writes("loop", "unlink", Nobody, Nobody)
    BY <1>6, <1>0, PlacesOf, EmitPlacesOf DEF UnlinkEmit, Goto, HoldInv, Writes
  <2>2. "unlink" \in KindsOf["loop"] /\ Nobody \in Reads \cup {Nobody} /\ Nobody \in Reads \cup {Nobody}
    BY <1>0, KindsOfTasks DEF TypeOK
  <2> QED BY <2>1, <2>2, PlacesOf DEF LogStep
<1>7. CASE Detach
  <2> Numbers("loop")
    BY <1>7, <1>0, PlacesOf, EmitPlacesOf DEF Detach, Goto, HoldInv, Numbers
  <2> QED BY PlacesOf DEF LogStep
<1>8. CASE DetachEmit
  <2>1. Writes("loop", "detach", Nobody, Nobody)
    BY <1>8, <1>0, PlacesOf, EmitPlacesOf DEF DetachEmit, Goto, HoldInv, Writes
  <2>2. "detach" \in KindsOf["loop"] /\ Nobody \in Reads \cup {Nobody} /\ Nobody \in Reads \cup {Nobody}
    BY <1>0, KindsOfTasks DEF TypeOK
  <2> QED BY <2>1, <2>2, PlacesOf DEF LogStep
<1>9. CASE OutTransfer
  BY <1>9, <1>0, PlacesOf, EmitPlacesOf DEF OutTransfer, Goto, Tasks, HoldInv, LogStep, Silent
<1>10. CASE OutClaim
  BY <1>10, <1>0, PlacesOf, EmitPlacesOf DEF OutClaim, Goto, Tasks, HoldInv, LogStep, Silent
<1>11. CASE OutPush
  BY <1>11, <1>0, PlacesOf, EmitPlacesOf DEF OutPush, Goto, Tasks, HoldInv, LogStep, Silent
<1>12. CASE OutStamp
  <2> Numbers("out")
    BY <1>12, <1>0, PlacesOf, EmitPlacesOf DEF OutStamp, Goto, HoldInv, Numbers
  <2> QED BY PlacesOf DEF LogStep
<1>13. CASE OutEmit
  <2>1. Writes("out", "reg_read_req", Nobody, Nobody)
    BY <1>13, <1>0, PlacesOf, EmitPlacesOf DEF OutEmit, Goto, HoldInv, Writes
  <2>2. "reg_read_req" \in KindsOf["out"] /\ Nobody \in Reads \cup {Nobody} /\ Nobody \in Reads \cup {Nobody}
    BY <1>0, KindsOfTasks DEF TypeOK
  <2> QED BY <2>1, <2>2, PlacesOf DEF LogStep
<1>14. CASE OutReply
  BY <1>14, <1>0, PlacesOf, EmitPlacesOf DEF OutReply, Goto, Tasks, HoldInv, LogStep, Silent
<1>15. CASE InStart
  BY <1>15, <1>0, PlacesOf, EmitPlacesOf DEF InStart, Goto, Tasks, HoldInv, LogStep, Silent
<1>16. CASE InTransfer
  BY <1>16, <1>0, PlacesOf, EmitPlacesOf DEF InTransfer, Goto, Tasks, HoldInv, LogStep, Silent
<1>17. CASE InCancelled
  BY <1>17, <1>0, PlacesOf, EmitPlacesOf DEF InCancelled, Goto, Tasks, HoldInv, LogStep, Silent
<1>18. CASE InClaim
  BY <1>18, <1>0, PlacesOf, EmitPlacesOf DEF InClaim, Goto, Tasks, HoldInv, LogStep, Silent
<1>19. CASE InPop
  BY <1>19, <1>0, PlacesOf, EmitPlacesOf DEF InPop, Goto, Tasks, HoldInv, LogStep, Silent
<1>20. CASE InStamp
  <2> Numbers("in")
    BY <1>20, <1>0, PlacesOf, EmitPlacesOf DEF InStamp, Goto, HoldInv, Numbers
  <2> QED BY PlacesOf DEF LogStep
<1>21. CASE InEmit
  <2>1. Writes("in", "reg_read", reply, pair)
    BY <1>21, <1>0, PlacesOf, EmitPlacesOf DEF InEmit, Goto, HoldInv, Writes
  <2>2. "reg_read" \in KindsOf["in"] /\ reply \in Reads \cup {Nobody} /\ pair \in Reads \cup {Nobody}
    BY <1>0, KindsOfTasks DEF TypeOK
  <2> QED BY <2>1, <2>2, PlacesOf DEF LogStep
<1>22. CASE InReply
  BY <1>22, <1>0, PlacesOf, EmitPlacesOf DEF InReply, Goto, Tasks, HoldInv, LogStep, Silent
<1> QED BY <1>1, <1>2, <1>3, <1>4, <1>5, <1>6, <1>7, <1>8, <1>9, <1>10, <1>11, <1>12, <1>13, <1>14, <1>15, <1>16, <1>17, <1>18, <1>19, <1>20, <1>21, <1>22 DEF Next, Loop, OutWorker, InWorker

\* The lines written stay; a new one comes last.
LEMMA FileGrows ==
    ASSUME TypeInv, NEW t \in Tasks, NEW kind, NEW value, NEW reg, Emit(t, kind, value, reg)
    PROVE  /\ Len(file) \in Nat /\ Len(file') = Len(file) + 1
           /\ \A i \in 1..Len(file) : file'[i] = file[i]
           /\ file'[Len(file) + 1] = Line(stampOf[t], kind, urb[t], value, reg)
<1>1. file \in Seq(Lines)
  BY DEF TypeInv, TypeOK
<1>2. file \in Seq(Lines \cup {Line(stampOf[t], kind, urb[t], value, reg)})
  BY <1>1
<1> QED BY <1>2, AppendProperties, LenProperties DEF Emit

\* Some line has number n, or some task holds it; and the number of both.
Present(n) ==
    (\E i \in 1..Len(file) : file[i].n = n) \/ (\E t \in Tasks : stampOf[t] # 0 /\ stampOf[t] = n)
Held(t) == IF stampOf[t] # 0 THEN 1 ELSE 0

\* NoLostLine, in the words of the lemmas below.
LEMMA NoLostLineSays ==
    NoLostLine <=> /\ \A n \in 1..seq : Present(n)
                   /\ Len(file) + Held("loop") + Held("out") + Held("in") = seq
BY DEF NoLostLine, Present, Held, Tasks

\* A step of the log keeps its numbering, and no number is lost by it.
LEMMA LogKept ==
    ASSUME TypeInv, StampInv, NoLostLine, LogStep
    PROVE  StampInv' /\ NoLostLine'
<1>1. CASE Silent
  BY <1>1 DEF Silent, logVars, StampInv, NoLostLine
<1>2. ASSUME NEW t \in Tasks, Numbers(t) PROVE StampInv' /\ NoLostLine'
  <2>1. /\ stampOf' = [stampOf EXCEPT ![t] = seq + 1] /\ seq' = seq + 1 /\ file' = file
        /\ stampOf \in [Tasks -> Nat] /\ seq \in Nat /\ file \in Seq(Lines)
    BY <1>2 DEF Numbers, Stamp, TypeInv, TypeOK
  <2>2. stampOf[t] = 0
    BY <1>2 DEF Numbers, StampInv
  <2>3. StampInv'
    <3>1. \A i \in 1..Len(file) : file[i] \in Lines
      BY <2>1, ElementOfSeq
    <3>2. \A i \in 1..Len(file) : file[i].n \in Nat
      BY <3>1 DEF Lines
    <3> QED BY <1>2, <2>1, <3>2 DEF StampInv, Numbers
  <2>4. \A n \in 1..seq' : Present(n)'
    <3>1. ASSUME NEW n \in 1..seq PROVE Present(n)'
      BY <2>1, <2>2, <3>1, NoLostLineSays DEF Present
    <3>2. ASSUME NEW n \in Nat, n = seq + 1 PROVE Present(n)'
      <4>1. stampOf'[t] = n /\ n # 0
        BY <2>1, <3>2
      <4> QED BY <4>1 DEF Present
    <3> QED BY <2>1, <3>1, <3>2
  <2>5. (Len(file) + Held("loop") + Held("out") + Held("in") = seq)'
    <3>1. Held(t) = 0 /\ Held(t)' = 1 /\ \A s \in Tasks \ {t} : Held(s)' = Held(s)
      BY <2>1, <2>2 DEF Held
    <3>2. Len(file) + Held("loop") + Held("out") + Held("in") = seq /\ Len(file) \in Nat
      BY NoLostLineSays, <2>1, LenProperties
    <3>3. t \in {"loop", "out", "in"}
      BY DEF Tasks
    <3> HIDE DEF Held
    <3>4. Held("loop") \in {0, 1} /\ Held("out") \in {0, 1} /\ Held("in") \in {0, 1}
      BY DEF Held
    <3> QED BY <2>1, <3>1, <3>2, <3>3, <3>4 DEF Tasks
  <2> QED BY <2>3, <2>4, <2>5 DEF NoLostLine, Present, Held, Tasks
<1>3. ASSUME NEW t \in Tasks, NEW kind \in KindsOf[t], NEW value \in Reads \cup {Nobody},
             NEW reg \in Reads \cup {Nobody}, Writes(t, kind, value, reg)
      PROVE  StampInv' /\ NoLostLine'
  <2>1. /\ stampOf' = [stampOf EXCEPT ![t] = 0] /\ seq' = seq
        /\ stampOf \in [Tasks -> Nat] /\ seq \in Nat
    BY <1>3 DEF Writes, Emit, TypeInv, TypeOK
  <2>2. stampOf[t] # 0 /\ stampOf[t] <= seq
    BY <1>3 DEF Writes, StampInv
  <2>3. /\ Len(file) \in Nat /\ Len(file') = Len(file) + 1
        /\ \A i \in 1..Len(file) : file'[i] = file[i]
        /\ file'[Len(file) + 1].n = stampOf[t]
    <3>1. Emit(t, kind, value, reg)
      BY <1>3 DEF Writes
    <3>2. Line(stampOf[t], kind, urb[t], value, reg).n = stampOf[t]
      BY DEF Line
    <3> QED BY <3>1, <3>2, FileGrows
  <2>4. StampInv'
    <3>1. \A s \in Tasks : stampOf'[s] # 0 <=> pc'[s] \in EmitPlaces[s]
      BY <1>3, <2>1, <2>2 DEF StampInv, Writes
    <3>2. \A s \in Tasks : stampOf'[s] <= seq'
      BY <2>1, <2>2 DEF StampInv
    <3>3. ASSUME NEW i \in 1..Len(file') PROVE file'[i].n <= seq'
      <4>1. i \in 1..Len(file) \/ i = Len(file) + 1
        BY <2>3
      <4> QED BY <4>1, <2>1, <2>2, <2>3 DEF StampInv
    <3> QED BY <3>1, <3>2, <3>3 DEF StampInv
  <2>5. \A n \in 1..seq' : Present(n)'
    <3>1. ASSUME NEW n \in 1..seq PROVE Present(n)'
      <4>1. Present(n)
        BY NoLostLineSays
      <4>2. CASE n = stampOf[t]
        <5>1. Len(file) + 1 \in 1..Len(file')
          BY <2>3
        <5> QED BY <5>1, <4>2, <2>3 DEF Present
      <4>3. CASE \E i \in 1..Len(file) : file[i].n = n
        <5>1. \A i \in 1..Len(file) : i \in 1..Len(file')
          BY <2>3
        <5> QED BY <5>1, <4>3, <2>3 DEF Present
      <4>4. CASE \E s \in Tasks \ {t} : stampOf[s] # 0 /\ stampOf[s] = n
        BY <4>4, <2>1 DEF Present
      <4> QED BY <4>1, <4>2, <4>3, <4>4 DEF Present
    <3> QED BY <2>1, <3>1
  <2>6. (Len(file) + Held("loop") + Held("out") + Held("in") = seq)'
    <3>1. Held(t) = 1 /\ Held(t)' = 0 /\ \A s \in Tasks \ {t} : Held(s)' = Held(s)
      BY <2>1, <2>2 DEF Held
    <3>2. Len(file) + Held("loop") + Held("out") + Held("in") = seq
      BY NoLostLineSays
    <3>3. t \in {"loop", "out", "in"}
      BY DEF Tasks
    <3>4. Held("loop") \in {0, 1} /\ Held("out") \in {0, 1} /\ Held("in") \in {0, 1}
      BY DEF Held
    <3> QED BY <2>1, <2>3, <3>1, <3>2, <3>3, <3>4 DEF Tasks
  <2> QED BY <2>4, <2>5, <2>6 DEF NoLostLine, Present, Held, Tasks
<1> QED BY <1>1, <1>2, <1>3 DEF LogStep

\* The numbering holds of the empty log.
LEMMA LogInit == ASSUME Init PROVE StampInv /\ NoLostLine
<1>1. /\ Len(file) = 1 /\ file[1] = Line(1, "attach", NoUrb, Nobody, Nobody) /\ seq = 1
      /\ \A t \in Tasks : stampOf[t] = 0 /\ pc[t] = "idle"
  BY DEF Init
<1>2. file[1].n = 1
  BY <1>1 DEF Line
<1>3. StampInv
  BY <1>1, <1>2, EmitPlacesOf DEF StampInv, Tasks
<1>4. \A n \in 1..seq : Present(n)
  BY <1>1, <1>2 DEF Present
<1>5. Len(file) + Held("loop") + Held("out") + Held("in") = seq
  BY <1>1 DEF Held, Tasks
<1> QED BY <1>3, <1>4, <1>5, NoLostLineSays

LogInv == TypeInv /\ StampInv /\ NoLostLine

\* LogInv is inductive.
LEMMA LogInvStep == ASSUME LogInv, [Next]_vars PROVE LogInv'
<1>1. TypeInv'
  BY TypeStep DEF LogInv
<1>2. CASE Next
  BY <1>1, <1>2, StepsOfTheLog, LogKept DEF LogInv
<1>3. CASE UNCHANGED vars
  BY <1>1, <1>3 DEF vars, logVars, LogInv, StampInv, NoLostLine
<1> QED BY <1>2, <1>3

\* Recorder.NoLostLine holds: however the tasks interleave between taking a number
\* and writing its line, no number is lost and none is used twice.
THEOREM NumbersAreContiguous == Spec => []NoLostLine
<1>1. Init => LogInv
  BY InitTypes, LogInit DEF LogInv
<1>2. LogInv /\ [Next]_vars => LogInv'
  BY LogInvStep
<1>3. LogInv => NoLostLine
  BY DEF LogInv
<1> QED BY <1>1, <1>2, <1>3, PTL DEF Spec


-----------------------------------------------------------------------------
(* What is in the log before something else happens. *)

\* The line of a finished transfer, and the in_req line of a poll.
Logged(u) ==
    \E i \in 1..Len(file) :
        file[i].urb = u /\ file[i].kind = IF u[1] = "out" THEN "reg_read_req" ELSE "reg_read"
InReq(u) == \E i \in 1..Len(file) : file[i].urb = u /\ file[i].kind = "in_req"

\* A worker that is about to answer has written the line.
AnswerInv ==
    /\ \A u \in answered : Logged(u)
    /\ \A t \in {"out", "in"} : pc[t] = "reply" => Logged(urb[t])

\* A poll gets to the queue, and to its worker, behind its in_req line; the worker
\* numbers the reply above that.
PollInv ==
    /\ pc["loop"] = "dispatch" => InReq(urb["loop"])
    /\ \A k \in 1..Len(inQueue) : InReq(<<"in", inQueue[k]>>)
    /\ pc["in"] # "idle" => InReq(urb["in"])
    /\ pc["in"] = "emit" =>
         \E i \in 1..Len(file) : /\ file[i].urb = urb["in"] /\ file[i].kind = "in_req"
                                 /\ file[i].n < stampOf["in"]

\* The number the loop holds is above those of its earlier lines.
LoopInv ==
    stampOf["loop"] # 0 =>
        \A i \in 1..Len(file) : file[i].kind \in {"attach", "in_req", "unlink"} =>
            file[i].n < stampOf["loop"]

CauseInv == LogInv /\ AnswerInv /\ PollInv /\ LoopInv /\ CausalOrder

\* No step takes a line out of the file.
LEMMA FileStays ==
    ASSUME TypeInv, LogStep
    PROVE  \A i \in 1..Len(file) : i \in 1..Len(file') /\ file'[i] = file[i]
<1>1. CASE file' = file
  BY <1>1
<1>2. ASSUME NEW t \in Tasks, NEW kind \in KindsOf[t], NEW value \in Reads \cup {Nobody},
             NEW reg \in Reads \cup {Nobody}, Writes(t, kind, value, reg)
      PROVE  \A i \in 1..Len(file) : i \in 1..Len(file') /\ file'[i] = file[i]
  <2>1. Emit(t, kind, value, reg)
    BY <1>2 DEF Writes
  <2>2. /\ Len(file) \in Nat /\ Len(file') = Len(file) + 1
        /\ \A i \in 1..Len(file) : file'[i] = file[i]
    BY <2>1, FileGrows
  <2> QED BY <2>2
<1> QED BY <1>1, <1>2 DEF LogStep, Silent, Numbers, Stamp, logVars

\* What is said of a line that is in the file stays true.
LEMMA LinesStay ==
    ASSUME TypeInv, LogStep, NEW u
    PROVE  /\ Logged(u) => \E i \in 1..Len(file') : /\ file'[i].urb = u
              /\ file'[i].kind = IF u[1] = "out" THEN "reg_read_req" ELSE "reg_read"
           /\ InReq(u) => \E i \in 1..Len(file') : file'[i].urb = u /\ file'[i].kind = "in_req"
BY FileStays DEF Logged, InReq

\* What most steps leave as it is.
AnswersKept ==
    /\ answered' = answered
    /\ \A t \in {"out", "in"} : pc'[t] = "reply" => pc[t] = "reply" /\ urb'[t] = urb[t]
PollsKept ==
    /\ inQueue' = inQueue
    /\ pc'["loop"] = "dispatch" => pc["loop"] = "dispatch" /\ urb'["loop"] = urb["loop"]
    /\ pc'["in"] # "idle" => pc["in"] # "idle" /\ urb'["in"] = urb["in"]
    /\ pc'["in"] = "emit" => pc["in"] = "emit" /\ stampOf'["in"] = stampOf["in"]
Kept ==
    /\ OutEmit \/ OutReply \/ InEmit \/ InReply \/ AnswersKept
    /\ InReqEmit \/ DispatchPoll \/ InStart \/ InStamp \/ PollsKept

\* Every step is one of the loop, of an answer, or of a poll, as far as causes go.
LEMMA StepsOfTheTasks == ASSUME TypeInv, Next PROVE Kept
<1>0. TypeOK /\ HoldInv
  BY DEF TypeInv
<1>1. CASE SubmitRead
  BY <1>1, <1>0, PlacesOf DEF SubmitRead, busVars, logVars, HoldInv, TypeOK, Kept, AnswersKept, PollsKept
<1>2. CASE SubmitPoll
  BY <1>2, <1>0, PlacesOf DEF SubmitPoll, Goto, Stamp, busVars, logVars, HoldInv, TypeOK, Kept, AnswersKept, PollsKept
<1>3. CASE InReqEmit
  BY <1>3, <1>0, PlacesOf DEF InReqEmit, Goto, Emit, busVars, logVars, HoldInv, TypeOK, Kept, AnswersKept, PollsKept
<1>4. CASE DispatchPoll
  BY <1>4, <1>0, PlacesOf DEF DispatchPoll, Goto, busVars, logVars, HoldInv, TypeOK, Kept, AnswersKept, PollsKept
<1>5. ASSUME NEW u \in Urbs, Unlink(u) PROVE Kept
  BY <1>5, <1>0, PlacesOf DEF Unlink, Goto, Stamp, busVars, logVars, HoldInv, TypeOK, Kept, AnswersKept, PollsKept
<1>6. CASE UnlinkEmit
  BY <1>6, <1>0, PlacesOf DEF UnlinkEmit, Goto, Emit, busVars, logVars, HoldInv, TypeOK, Kept, AnswersKept, PollsKept
<1>7. CASE Detach
  BY <1>7, <1>0, PlacesOf DEF Detach, Goto, Stamp, busVars, logVars, HoldInv, TypeOK, Kept, AnswersKept, PollsKept
<1>8. CASE DetachEmit
  BY <1>8, <1>0, PlacesOf DEF DetachEmit, Goto, Emit, busVars, logVars, HoldInv, TypeOK, Kept, AnswersKept, PollsKept
<1>9. CASE OutTransfer
  BY <1>9, <1>0, PlacesOf DEF OutTransfer, Goto, busVars, logVars, HoldInv, TypeOK, Kept, AnswersKept, PollsKept
<1>10. CASE OutClaim
  BY <1>10, <1>0, PlacesOf DEF OutClaim, Goto, busVars, logVars, HoldInv, TypeOK, Kept, AnswersKept, PollsKept
<1>11. CASE OutPush
  BY <1>11, <1>0, PlacesOf DEF OutPush, Goto, busVars, logVars, HoldInv, TypeOK, Kept, AnswersKept, PollsKept
<1>12. CASE OutStamp
  BY <1>12, <1>0, PlacesOf DEF OutStamp, Goto, Stamp, busVars, logVars, HoldInv, TypeOK, Kept, AnswersKept, PollsKept
<1>13. CASE OutEmit
  BY <1>13, <1>0, PlacesOf DEF OutEmit, Goto, Emit, busVars, logVars, HoldInv, TypeOK, Kept, AnswersKept, PollsKept
<1>14. CASE OutReply
  BY <1>14, <1>0, PlacesOf DEF OutReply, Goto, busVars, logVars, HoldInv, TypeOK, Kept, AnswersKept, PollsKept
<1>15. CASE InStart
  BY <1>15, <1>0, PlacesOf DEF InStart, Goto, busVars, logVars, HoldInv, TypeOK, Kept, AnswersKept, PollsKept
<1>16. CASE InTransfer
  BY <1>16, <1>0, PlacesOf DEF InTransfer, Goto, busVars, logVars, HoldInv, TypeOK, Kept, AnswersKept, PollsKept
<1>17. CASE InCancelled
  BY <1>17, <1>0, PlacesOf DEF InCancelled, Goto, busVars, logVars, HoldInv, TypeOK, Kept, AnswersKept, PollsKept
<1>18. CASE InClaim
  BY <1>18, <1>0, PlacesOf DEF InClaim, Goto, busVars, logVars, HoldInv, TypeOK, Kept, AnswersKept, PollsKept
<1>19. CASE InPop
  BY <1>19, <1>0, PlacesOf DEF InPop, Goto, busVars, logVars, HoldInv, TypeOK, Kept, AnswersKept, PollsKept
<1>20. CASE InStamp
  BY <1>20, <1>0, PlacesOf DEF InStamp, Goto, Stamp, busVars, logVars, HoldInv, TypeOK, Kept, AnswersKept, PollsKept
<1>21. CASE InEmit
  BY <1>21, <1>0, PlacesOf DEF InEmit, Goto, Emit, busVars, logVars, HoldInv, TypeOK, Kept, AnswersKept, PollsKept
<1>22. CASE InReply
  BY <1>22, <1>0, PlacesOf DEF InReply, Goto, busVars, logVars, HoldInv, TypeOK, Kept, AnswersKept, PollsKept
<1> QED BY <1>1, <1>2, <1>3, <1>4, <1>5, <1>6, <1>7, <1>8, <1>9, <1>10, <1>11, <1>12, <1>13, <1>14, <1>15, <1>16, <1>17, <1>18, <1>19, <1>20, <1>21, <1>22 DEF Next, Loop, OutWorker, InWorker

\* A step that writes the line of an URB, and one that lets it stay.
LEMMA NewLine ==
    ASSUME TypeInv, NEW t \in Tasks, NEW kind, NEW value, NEW reg, Emit(t, kind, value, reg)
    PROVE  \E i \in 1..Len(file') : /\ file'[i].urb = urb[t] /\ file'[i].kind = kind
                                    /\ file'[i].n = stampOf[t]
<1>1. /\ Len(file) \in Nat /\ Len(file') = Len(file) + 1
      /\ file'[Len(file) + 1] = Line(stampOf[t], kind, urb[t], value, reg)
  BY FileGrows
<1>2. Len(file) + 1 \in 1..Len(file')
  BY <1>1
<1> QED BY <1>1, <1>2 DEF Line

\* An answer given by a step has its line in the file.
LEMMA AnswerStep ==
    ASSUME TypeInv, LogStep, Kept, AnswerInv
    PROVE  AnswerInv'
<1>0. /\ "out" \in Tasks /\ "in" \in Tasks /\ pc \in [Tasks -> AllPlaces]
      /\ pc["out"] # "idle" => urb["out"] \in Urbs /\ urb["out"][1] = "out"
      /\ pc["in"] # "idle" => urb["in"] \in Urbs /\ urb["in"][1] = "in"
  BY PlacesOf, UrbTypes DEF TypeInv, HoldInv
<1>1. \A u : Logged(u) => Logged(u)'
  BY LinesStay DEF Logged
<1>2. CASE AnswersKept
  BY <1>1, <1>2 DEF AnswersKept, AnswerInv
<1>3. CASE OutEmit
  <2>1. urb' = urb /\ answered' = answered /\ pc' = [pc EXCEPT !["out"] = "reply"] /\ pc["out"] = "emit"
    BY <1>3 DEF OutEmit, Goto
  <2>2. Logged(urb["out"])'
    <3>1. Emit("out", "reg_read_req", Nobody, Nobody)
      BY <1>3 DEF OutEmit
    <3> QED BY <3>1, <1>0, <2>1, NewLine DEF Logged
  <2> QED BY <1>0, <1>1, <2>1, <2>2 DEF AnswerInv
<1>4. CASE InEmit
  <2>1. urb' = urb /\ answered' = answered /\ pc' = [pc EXCEPT !["in"] = "reply"] /\ pc["in"] = "emit"
    BY <1>4 DEF InEmit, Goto
  <2>2. Logged(urb["in"])'
    <3>1. Emit("in", "reg_read", reply, pair)
      BY <1>4 DEF InEmit
    <3> QED BY <3>1, <1>0, <2>1, NewLine DEF Logged
  <2> QED BY <1>0, <1>1, <2>1, <2>2 DEF AnswerInv
<1>5. CASE OutReply
  <2>1. /\ urb' = urb /\ answered' = answered \cup {urb["out"]}
        /\ pc' = [pc EXCEPT !["out"] = "idle"] /\ pc["out"] = "reply"
    BY <1>5 DEF OutReply, Goto
  <2> QED BY <1>0, <1>1, <2>1 DEF AnswerInv
<1>6. CASE InReply
  <2>1. /\ urb' = urb /\ answered' = answered \cup {urb["in"]}
        /\ pc' = [pc EXCEPT !["in"] = "idle"] /\ pc["in"] = "reply"
    BY <1>6 DEF InReply, Goto
  <2> QED BY <1>0, <1>1, <2>1 DEF AnswerInv
<1> QED BY <1>2, <1>3, <1>4, <1>5, <1>6 DEF Kept

\* The numbers in the file are natural.
LEMMA LineNumbers == ASSUME TypeInv PROVE \A i \in 1..Len(file) : file[i].n \in Nat
<1>1. \A i \in 1..Len(file) : file[i] \in Lines
  BY ElementOfSeq DEF TypeInv, TypeOK
<1> QED BY <1>1 DEF Lines

\* The line of a poll answered by a step is numbered above the line of the poll.
LEMMA PollStep ==
    ASSUME TypeInv, StampInv, LogStep, Kept, PollInv
    PROVE  PollInv'
<1>0. /\ "loop" \in Tasks /\ "in" \in Tasks /\ pc \in [Tasks -> AllPlaces]
      /\ inQueue \in Seq(Polls) /\ urb \in [Tasks -> Urbs \cup {NoUrb}]
      /\ stampOf \in [Tasks -> Nat] /\ seq \in Nat
  BY PlacesOf DEF TypeInv, TypeOK, HoldInv
<1>1. \A u : InReq(u) => InReq(u)'
  BY LinesStay DEF InReq
<1>2. CASE PollsKept
  <2>1. pc'["in"] = "emit" =>
          \E i \in 1..Len(file') : /\ file'[i].urb = urb'["in"] /\ file'[i].kind = "in_req"
                                   /\ file'[i].n < stampOf'["in"]
    BY <1>2, FileStays DEF PollsKept, PollInv
  <2>2. pc'["loop"] = "dispatch" => InReq(urb["loop"]) /\ urb'["loop"] = urb["loop"]
    BY <1>2 DEF PollsKept, PollInv
  <2>3. pc'["in"] # "idle" => InReq(urb["in"]) /\ urb'["in"] = urb["in"]
    BY <1>2 DEF PollsKept, PollInv
  <2>4. (\A k \in 1..Len(inQueue) : InReq(<<"in", inQueue[k]>>))'
    <3>1. inQueue' = inQueue /\ \A k \in 1..Len(inQueue) : InReq(<<"in", inQueue[k]>>)
      BY <1>2 DEF PollsKept, PollInv
    <3> QED BY <3>1, FileStays DEF InReq
  <2>5. (pc["loop"] = "dispatch" => InReq(urb["loop"]))'
    BY <2>2, FileStays DEF InReq
  <2>6. (pc["in"] # "idle" => InReq(urb["in"]))'
    BY <2>3, FileStays DEF InReq
  <2> QED BY <2>1, <2>4, <2>5, <2>6 DEF PollInv
<1>3. CASE InReqEmit
  <2>1. /\ urb' = urb /\ inQueue' = inQueue /\ pc["loop"] = "in_req"
        /\ pc' = [pc EXCEPT !["loop"] = "dispatch"]
        /\ stampOf' = [stampOf EXCEPT !["loop"] = 0]
    BY <1>3 DEF InReqEmit, Goto, Emit, busVars
  <2>2. InReq(urb["loop"])'
    <3>1. Emit("loop", "in_req", Nobody, Nobody)
      BY <1>3 DEF InReqEmit
    <3> QED BY <3>1, <1>0, <2>1, NewLine DEF InReq
  <2>3. pc'["in"] = pc["in"] /\ stampOf'["in"] = stampOf["in"]
    BY <1>0, <2>1
  <2>4. pc'["in"] = "emit" =>
          \E i \in 1..Len(file') : /\ file'[i].urb = urb'["in"] /\ file'[i].kind = "in_req"
                                   /\ file'[i].n < stampOf'["in"]
    BY <2>1, <2>3, FileStays DEF PollInv
  <2> QED BY <1>0, <1>1, <2>1, <2>2, <2>3, <2>4 DEF PollInv
<1>4. CASE DispatchPoll
  <2>1. /\ urb' = [urb EXCEPT !["loop"] = NoUrb] /\ inQueue' = Append(inQueue, urb["loop"][2])
        /\ pc["loop"] = "dispatch" /\ pc' = [pc EXCEPT !["loop"] = "idle"]
        /\ file' = file /\ stampOf' = stampOf
    BY <1>4 DEF DispatchPoll, Goto, logVars
  <2>2. urb["loop"] = <<"in", urb["loop"][2]>> /\ urb["loop"][2] \in Polls
    BY <2>1, UrbTypes DEF TypeInv, HoldInv
  <2>3. /\ Len(inQueue') = Len(inQueue) + 1 /\ Len(inQueue) \in Nat
        /\ \A k \in 1..Len(inQueue) : inQueue'[k] = inQueue[k]
        /\ inQueue'[Len(inQueue) + 1] = urb["loop"][2]
    BY <1>0, <2>1, <2>2, AppendProperties, LenProperties
  <2>4. (\A k \in 1..Len(inQueue) : InReq(<<"in", inQueue[k]>>))'
    <3>1. ASSUME NEW k \in 1..Len(inQueue') PROVE InReq(<<"in", inQueue'[k]>>)
      <4>1. k \in 1..Len(inQueue) \/ k = Len(inQueue) + 1
        BY <2>3
      <4> QED BY <4>1, <2>1, <2>2, <2>3 DEF PollInv
    <3> QED BY <3>1, <2>1 DEF InReq
  <2>5. pc'["in"] = pc["in"] /\ urb'["in"] = urb["in"] /\ pc'["loop"] = "idle"
    BY <1>0, <2>1
  <2>6. (pc["in"] # "idle" => InReq(urb["in"]))'
    BY <2>1, <2>5 DEF PollInv, InReq
  <2>7. (pc["in"] = "emit" =>
          \E i \in 1..Len(file) : /\ file[i].urb = urb["in"] /\ file[i].kind = "in_req"
                                  /\ file[i].n < stampOf["in"])'
    BY <2>1, <2>5 DEF PollInv
  <2> QED BY <2>4, <2>5, <2>6, <2>7 DEF PollInv
<1>5. CASE InStart
  <2>1. /\ inQueue # << >> /\ inQueue' = Tail(inQueue) /\ file' = file /\ stampOf' = stampOf
        /\ pc["in"] = "idle"
        /\ \/ urb' = [urb EXCEPT !["in"] = <<"in", Head(inQueue)>>] /\ pc' = [pc EXCEPT !["in"] = "transfer"]
           \/ urb' = urb /\ pc' = pc
    BY <1>5 DEF InStart, Goto, logVars
  <2>2. /\ Len(inQueue) \in Nat \ {0} /\ Head(inQueue) = inQueue[1]
        /\ Len(inQueue') = Len(inQueue) - 1
        /\ \A k \in 1..Len(inQueue') : inQueue'[k] = inQueue[k + 1]
    BY <1>0, <2>1, HeadTailProperties, EmptySeq, LenProperties
  <2>3. \A k \in 1..Len(inQueue') : InReq(<<"in", inQueue'[k]>>)
    BY <2>2 DEF PollInv
  <2>4. InReq(<<"in", Head(inQueue)>>)
    BY <2>2 DEF PollInv
  <2>5. pc'["loop"] = pc["loop"] /\ urb'["loop"] = urb["loop"]
    BY <1>0, <2>1
  <2>6. pc'["in"] # "idle" => pc'["in"] = "transfer" /\ urb'["in"] = <<"in", Head(inQueue)>>
    BY <1>0, <2>1
  <2> QED BY <2>1, <2>3, <2>4, <2>5, <2>6 DEF PollInv, InReq
<1>6. CASE InStamp
  <2>1. /\ urb' = urb /\ inQueue' = inQueue /\ file' = file /\ pc["in"] = "stamp"
        /\ pc' = [pc EXCEPT !["in"] = "emit"] /\ stampOf' = [stampOf EXCEPT !["in"] = seq + 1]
    BY <1>6 DEF InStamp, Goto, Stamp, busVars
  <2>2. stampOf'["in"] = seq + 1 /\ pc'["loop"] = pc["loop"] /\ pc'["in"] = "emit"
    BY <1>0, <2>1
  <2>3. \A i \in 1..Len(file) : file[i].n < seq + 1
    BY <1>0, LineNumbers DEF StampInv
  <2>4. PICK i \in 1..Len(file) : file[i].urb = urb["in"] /\ file[i].kind = "in_req"
    BY <2>1 DEF PollInv, InReq
  <2> QED BY <2>1, <2>2, <2>3, <2>4 DEF PollInv, InReq
<1> QED BY <1>2, <1>3, <1>4, <1>5, <1>6 DEF Kept

\* What the loop writes is numbered above its earlier lines.
LEMMA LoopStep ==
    ASSUME TypeInv, StampInv, LogStep, LoopInv
    PROVE  LoopInv'
<1>0. stampOf \in [Tasks -> Nat] /\ seq \in Nat /\ "loop" \in Tasks
  BY PlacesOf DEF TypeInv, TypeOK
<1>1. CASE Silent
  BY <1>1 DEF Silent, logVars, LoopInv
<1>2. ASSUME NEW t \in Tasks, Numbers(t) PROVE LoopInv'
  <2>1. stampOf' = [stampOf EXCEPT ![t] = seq + 1] /\ file' = file
    BY <1>2 DEF Numbers, Stamp
  <2>2. \A i \in 1..Len(file) : file[i].n < seq + 1
    BY <1>0, LineNumbers DEF StampInv
  <2> QED BY <1>0, <2>1, <2>2 DEF LoopInv
<1>3. ASSUME NEW t \in Tasks, NEW kind \in KindsOf[t], NEW value \in Reads \cup {Nobody},
             NEW reg \in Reads \cup {Nobody}, Writes(t, kind, value, reg)
      PROVE  LoopInv'
  <2>1. Emit(t, kind, value, reg) /\ stampOf' = [stampOf EXCEPT ![t] = 0]
    BY <1>3 DEF Writes, Emit
  <2>2. CASE t = "loop"
    BY <1>0, <2>1, <2>2 DEF LoopInv
  <2>3. CASE t # "loop"
    <3>1. kind \notin {"attach", "in_req", "unlink"} /\ stampOf'["loop"] = stampOf["loop"]
      BY <1>0, <2>1, <2>3, KindsOfTasks DEF Tasks
    <3>2. /\ Len(file) \in Nat /\ Len(file') = Len(file) + 1
          /\ \A i \in 1..Len(file) : file'[i] = file[i]
          /\ file'[Len(file) + 1] = Line(stampOf[t], kind, urb[t], value, reg)
      BY <2>1, FileGrows
    <3>4. file'[Len(file) + 1].kind = kind
      BY <3>2 DEF Line
    <3>3. \A i \in 1..Len(file') : i \in 1..Len(file) \/ i = Len(file) + 1
      BY <3>2
    <3> QED BY <3>1, <3>2, <3>3, <3>4 DEF LoopInv
  <2> QED BY <2>2, <2>3
<1> QED BY <1>1, <1>2, <1>3 DEF LogStep

\* A line is caused by earlier ones, by the place it takes in the file.
CausedAt(i) ==
    /\ file[i].kind = "reg_read" =>
         \E j \in 1..(i - 1) : /\ file[j].kind = "in_req" /\ file[j].urb = file[i].urb
                               /\ file[j].n < file[i].n
    /\ file[i].kind \in {"in_req", "unlink", "detach"} =>
         \A j \in 1..(i - 1) : file[j].kind \in {"attach", "in_req", "unlink"} =>
             file[j].n < file[i].n

\* CausalOrder, line by line.
LEMMA CausalOrderSays == CausalOrder <=> \A i \in 1..Len(file) : CausedAt(i)
BY DEF CausalOrder, CausedAt

\* No step writes a line before the one it depends on.
LEMMA CauseStep ==
    ASSUME TypeInv, StampInv, LogStep, PollInv, LoopInv, CausalOrder
    PROVE  CausalOrder'
<1>1. CASE file' = file
  BY <1>1 DEF CausalOrder
<1>2. ASSUME NEW t \in Tasks, NEW kind \in KindsOf[t], NEW value \in Reads \cup {Nobody},
             NEW reg \in Reads \cup {Nobody}, Writes(t, kind, value, reg)
      PROVE  CausalOrder'
  <2>1. Emit(t, kind, value, reg) /\ pc[t] \in EmitPlaces[t] /\ stampOf[t] # 0
    BY <1>2 DEF Writes, StampInv
  <2>2. /\ Len(file) \in Nat /\ Len(file') = Len(file) + 1
        /\ \A i \in 1..Len(file) : file'[i] = file[i]
        /\ file'[Len(file) + 1] = Line(stampOf[t], kind, urb[t], value, reg)
    BY <2>1, FileGrows
  <2>3. ASSUME NEW i \in 1..Len(file) PROVE CausedAt(i)'
    <3>1. i \in Nat /\ \A j \in 1..(i - 1) : j \in 1..Len(file)
      BY <2>2
    <3>2. file'[i] = file[i] /\ \A j \in 1..(i - 1) : file'[j] = file[j]
      BY <3>1, <2>2
    <3>3. CausedAt(i)
      BY CausalOrderSays
    <3> QED BY <3>2, <3>3 DEF CausedAt
  <2>4. ASSUME NEW i, i = Len(file) + 1 PROVE CausedAt(i)'
    <3>1. i - 1 = Len(file) /\ \A j \in 1..(i - 1) : j \in 1..Len(file) /\ file'[j] = file[j]
      BY <2>2, <2>4
    <3>2. file'[i].kind = kind /\ file'[i].urb = urb[t] /\ file'[i].n = stampOf[t]
      BY <2>2, <2>4 DEF Line
    <3>3. CASE t = "loop"
      <4>1. kind # "reg_read"
        BY <3>3, KindsOfTasks
      <4>2. \A j \in 1..(i - 1) : file'[j].kind \in {"attach", "in_req", "unlink"} =>
               file'[j].n < stampOf[t]
        BY <3>1, <3>3, <2>1 DEF LoopInv
      <4> QED BY <3>2, <4>1, <4>2 DEF CausedAt
    <3>4. CASE t = "in"
      <4>1. kind = "reg_read" /\ pc["in"] = "emit"
        BY <3>4, <2>1, KindsOfTasks, EmitPlacesOf
      <4>2. PICK j \in 1..Len(file) : /\ file[j].urb = urb["in"] /\ file[j].kind = "in_req"
                                      /\ file[j].n < stampOf["in"]
        BY <4>1 DEF PollInv
      <4>3. j \in 1..(i - 1) /\ file'[j] = file[j]
        BY <3>1, <4>2
      <4> QED BY <3>2, <3>4, <4>1, <4>2, <4>3 DEF CausedAt
    <3>5. CASE t = "out"
      <4>1. kind = "reg_read_req"
        BY <3>5, KindsOfTasks
      <4> QED BY <3>2, <4>1 DEF CausedAt
    <3> QED BY <3>3, <3>4, <3>5 DEF Tasks
  <2>5. \A i \in 1..Len(file') : i \in 1..Len(file) \/ i = Len(file) + 1
    BY <2>2
  <2>6. (\A i \in 1..Len(file) : CausedAt(i))'
    BY <2>3, <2>4, <2>5
  <2> QED BY <2>6 DEF CausalOrder, CausedAt
<1> QED BY <1>1, <1>2 DEF LogStep, Silent, Numbers, Stamp, logVars

\* The invariant of the causes holds of the empty log.
LEMMA CauseInit == ASSUME Init PROVE CauseInv
<1>1. LogInv
  BY InitTypes, LogInit DEF LogInv
<1>2. /\ Len(file) = 1 /\ file[1] = Line(1, "attach", NoUrb, Nobody, Nobody) /\ Len(inQueue) = 0
      /\ answered = {} /\ \A t \in Tasks : stampOf[t] = 0 /\ pc[t] = "idle"
  BY DEF Init
<1>3. AnswerInv /\ PollInv /\ LoopInv
  BY <1>2, PlacesOf DEF AnswerInv, PollInv, LoopInv
<1>4. CausalOrder
  BY <1>2 DEF CausalOrder, Line
<1> QED BY <1>1, <1>3, <1>4 DEF CauseInv

\* CauseInv is inductive.
LEMMA CauseInvStep == ASSUME CauseInv, [Next]_vars PROVE CauseInv'
<1>1. LogInv'
  BY LogInvStep DEF CauseInv
<1>2. CASE Next
  <2>1. TypeInv /\ StampInv /\ AnswerInv /\ PollInv /\ LoopInv /\ CausalOrder
    BY DEF CauseInv, LogInv
  <2>2. LogStep /\ Kept
    BY <1>2, <2>1, StepsOfTheLog, StepsOfTheTasks
  <2>3. AnswerInv' /\ PollInv' /\ LoopInv' /\ CausalOrder'
    BY <2>1, <2>2, AnswerStep, PollStep, LoopStep, CauseStep
  <2> QED BY <1>1, <2>3 DEF CauseInv
<1>3. CASE UNCHANGED vars
  <2>1. /\ file' = file /\ pc' = pc /\ urb' = urb /\ stampOf' = stampOf
        /\ inQueue' = inQueue /\ answered' = answered
    BY <1>3 DEF vars, logVars, busVars
  <2>2. AnswerInv' /\ PollInv'
    BY <2>1 DEF CauseInv, AnswerInv, PollInv, Logged, InReq
  <2>3. LoopInv' /\ CausalOrder'
    BY <2>1 DEF CauseInv, LoopInv, CausalOrder
  <2> QED BY <1>1, <2>2, <2>3 DEF CauseInv
<1> QED BY <1>2, <1>3

\* Recorder.AnswerIsLogged holds: an answer the writer has been handed is in the
\* file already.
THEOREM LoggedBeforeAnswered == Spec => []AnswerIsLogged
<1>1. Init => CauseInv
  BY CauseInit
<1>2. CauseInv /\ [Next]_vars => CauseInv'
  BY CauseInvStep
<1>3. CauseInv => AnswerIsLogged
  BY DEF CauseInv, AnswerInv, AnswerIsLogged, Logged
<1> QED BY <1>1, <1>2, <1>3, PTL DEF Spec

\* Recorder.CausalOrder holds: lines may overtake one another, but none the line
\* it depends on.
THEOREM CausesComeFirst == Spec => []CausalOrder
<1>1. Init => CauseInv
  BY CauseInit
<1>2. CauseInv /\ [Next]_vars => CauseInv'
  BY CauseInvStep
<1>3. CauseInv => CausalOrder
  BY DEF CauseInv
<1> QED BY <1>1, <1>2, <1>3, PTL DEF Spec
-----------------------------------------------------------------------------
(* Requests and replies in pairs. *)

\* How far a polite host's requests have come: transferred by the OUT worker,
\* their reply taken by a poll, remembered for pairing, paired; and how many
\* polls the IN worker has taken up.
Transferred == reads - Len(outQueue)
Taken == Transferred - Len(replies)
Remembered == Transferred - IF pc["out"] \in {"claim", "push"} THEN 1 ELSE 0
Paired == Remembered - Len(pendingReads)
Started == polls - Len(inQueue) - IF pc["loop"] \in {"in_req", "dispatch"} THEN 1 ELSE 0

\* Requests go through in order and none is taken back.
RequestInv ==
    /\ \A i \in 1..Len(outQueue) :
          outQueue[i] = Transferred + i /\ <<"out", outQueue[i]>> \in pending
    /\ \A i \in 1..Len(replies) : replies[i] = Taken + i
    /\ \A i \in 1..Len(pendingReads) : pendingReads[i] = Paired + i
    /\ pc["out"] # "idle" => urb["out"] = <<"out", Transferred>>
    /\ pc["out"] = "claim" => urb["out"] \in pending

\* The reply in the IN worker's hand is the last one taken, and it is paired, in
\* order, before it is written.
HandInv ==
    /\ Paired = Taken - IF pc["in"] \in {"claim", "pop"} THEN 1 ELSE 0
    /\ pc["in"] \in {"transfer", "claim"} => urb["in"] \in pending
    /\ pc["in"] \in {"claim", "pop", "stamp", "emit"} => reply = Taken
    /\ pc["in"] \in {"stamp", "emit"} => pair = reply

\* There are no more polls than requests remembered, and no more replies taken
\* than polls taken up.
PollBound ==
    /\ \A j \in Reads : <<"out", j>> \in answered => j <= Remembered
    /\ polls <= Remembered
    /\ Taken <= Started - IF pc["in"] = "transfer" THEN 1 ELSE 0

PairInv == polite => RequestInv /\ HandInv /\ PollBound /\ FifoPairs

\* Where a step may find the tasks, and the lengths of their queues.
LEMMA PairTypes ==
    ASSUME TypeInv
    PROVE  /\ reads \in Nat /\ polls \in Nat /\ "loop" \in Tasks /\ "out" \in Tasks /\ "in" \in Tasks
           /\ pc \in [Tasks -> AllPlaces] /\ urb \in [Tasks -> Urbs \cup {NoUrb}]
           /\ outQueue \in Seq(Reads) /\ inQueue \in Seq(Polls)
           /\ replies \in Seq(Reads) /\ pendingReads \in Seq(Reads)
           /\ Len(outQueue) \in Nat /\ Len(inQueue) \in Nat
           /\ Len(replies) \in Nat /\ Len(pendingReads) \in Nat
           /\ Transferred \in Int /\ Taken \in Int /\ Remembered \in Int
           /\ Paired \in Int /\ Started \in Int
<1>1. /\ reads \in Nat /\ polls \in Nat
      /\ pc \in [Tasks -> AllPlaces] /\ urb \in [Tasks -> Urbs \cup {NoUrb}]
      /\ outQueue \in Seq(Reads) /\ inQueue \in Seq(Polls)
      /\ replies \in Seq(Reads) /\ pendingReads \in Seq(Reads)
  BY ConstantsAssumption DEF ConstantsAssumption, TypeInv, TypeOK, HoldInv
<1>2. /\ Len(outQueue) \in Nat /\ Len(inQueue) \in Nat
      /\ Len(replies) \in Nat /\ Len(pendingReads) \in Nat
  BY <1>1, LenProperties
<1>3. Transferred \in Int /\ Taken \in Int
  BY <1>1, <1>2 DEF Transferred, Taken
<1>4. Remembered \in Int
  BY <1>3 DEF Remembered
<1>5. Paired \in Int /\ Started \in Int
  BY <1>1, <1>2, <1>4 DEF Paired, Started
<1> QED BY <1>1, <1>2, <1>3, <1>4, <1>5, PlacesOf

\* A queue after an element joined it.
LEMMA QueueGrows ==
    ASSUME NEW S, NEW s \in Seq(S), NEW e \in S
    PROVE  /\ Len(s) \in Nat /\ Len(Append(s, e)) = Len(s) + 1
           /\ \A i \in 1..Len(s) : Append(s, e)[i] = s[i]
           /\ Append(s, e)[Len(s) + 1] = e
BY AppendProperties, LenProperties

\* A queue after its first element left it.
LEMMA QueueShrinks ==
    ASSUME NEW S, NEW s \in Seq(S), s # << >>
    PROVE  /\ Len(s) \in Nat \ {0} /\ Len(Tail(s)) = Len(s) - 1 /\ Head(s) = s[1]
           /\ \A i \in 1..(Len(s) - 1) : Tail(s)[i] = s[i + 1]
BY HeadTailProperties, EmptySeq, LenProperties

\* No step of a polite host's connection loses the pairing.
LEMMA PairStep ==
    ASSUME TypeInv, polite, RequestInv, HandInv, PollBound, Next
    PROVE  RequestInv' /\ HandInv' /\ PollBound'
<1>0. /\ reads \in Nat /\ polls \in Nat /\ "loop" \in Tasks /\ "out" \in Tasks /\ "in" \in Tasks
      /\ pc \in [Tasks -> AllPlaces] /\ urb \in [Tasks -> Urbs \cup {NoUrb}]
      /\ outQueue \in Seq(Reads) /\ inQueue \in Seq(Polls)
      /\ replies \in Seq(Reads) /\ pendingReads \in Seq(Reads)
      /\ Len(outQueue) \in Nat /\ Len(inQueue) \in Nat
      /\ Len(replies) \in Nat /\ Len(pendingReads) \in Nat
      /\ Transferred \in Int /\ Taken \in Int /\ Remembered \in Int
      /\ Paired \in Int /\ Started \in Int
  BY PairTypes
<1>h. HoldInv /\ answered \subseteq Urbs /\ \A j \in Reads : j \in Int
  BY DEF TypeInv, TypeOK, Reads
<1>1. CASE SubmitRead
  <2>1. /\ pc'["loop"] = pc["loop"] /\ pc'["out"] = pc["out"] /\ pc'["in"] = pc["in"]
        /\ urb'["out"] = urb["out"] /\ urb'["in"] = urb["in"]
        /\ reads' = reads + 1 /\ pending' = pending \cup {<<"out", reads + 1>>}
        /\ outQueue' = Append(outQueue, reads + 1)
        /\ UNCHANGED <<polls, inQueue, replies, pendingReads, reply, pair, answered>>
    BY <1>1, <1>0 DEF SubmitRead, Goto, hostVars, busVars
  <2>2. reads + 1 \in Reads
    BY <1>1, <1>0, ConstantsAssumption DEF SubmitRead, Reads, ConstantsAssumption
  <2>3. /\ Len(outQueue') = Len(outQueue) + 1 /\ outQueue'[Len(outQueue) + 1] = reads + 1
        /\ \A i \in 1..Len(outQueue) : outQueue'[i] = outQueue[i]
    BY <2>1, <2>2, <1>0, QueueGrows
  <2>4. Transferred + Len(outQueue) = reads
    BY <1>0 DEF Transferred
  <2>5. \A i \in 1..Len(outQueue') : i \in 1..Len(outQueue) \/ i = Len(outQueue) + 1
    BY <2>3, <1>0
  <2>6. \A i \in 1..Len(outQueue') : outQueue'[i] = Transferred + i /\ <<"out", outQueue'[i]>> \in pending'
    BY <2>1, <2>3, <2>4, <2>5, <1>0 DEF RequestInv
  <2>7. /\ Transferred' = Transferred /\ Taken' = Taken /\ Remembered' = Remembered
        /\ Paired' = Paired /\ Started' = Started
    BY <2>1, <2>3, <1>0 DEF Transferred, Taken, Remembered, Paired, Started
  <2>8. RequestInv'
    BY <2>1, <2>6, <2>7, <1>0 DEF RequestInv
  <2>9. HandInv'
    BY <2>1, <2>7, <1>0 DEF HandInv
  <2>10. PollBound'
    BY <2>1, <2>7, <1>0 DEF PollBound
  <2> QED BY <2>8, <2>9, <2>10
<1>2. CASE SubmitPoll
  <2>1. /\ pc["loop"] = "idle" /\ pc'["loop"] = "in_req" /\ pc'["out"] = pc["out"] /\ pc'["in"] = pc["in"]
        /\ urb'["out"] = urb["out"] /\ urb'["in"] = urb["in"]
        /\ polls' = polls + 1
        /\ UNCHANGED <<reads, pending, outQueue, inQueue, replies, pendingReads, reply, pair,
                       answered>>
    BY <1>2, <1>0 DEF SubmitPoll, Goto, hostVars, busVars
  <2>2. <<"out", polls + 1>> \in answered
    BY <1>2, <1>0 DEF SubmitPoll
  <2>3. polls + 1 \in Reads
    BY <2>2, <1>h DEF Urbs
  <2>4. /\ Transferred' = Transferred /\ Taken' = Taken /\ Remembered' = Remembered
        /\ Paired' = Paired /\ Started' = Started
    BY <2>1, <1>0 DEF Transferred, Taken, Remembered, Paired, Started
  <2>5. RequestInv'
    BY <2>1, <2>4, <1>0 DEF RequestInv
  <2>6. HandInv'
    BY <2>1, <2>4, <1>0 DEF HandInv
  <2>7. PollBound'
    BY <2>1, <2>2, <2>3, <2>4, <1>0, <1>h DEF PollBound
  <2> QED BY <2>5, <2>6, <2>7
<1>3. CASE InReqEmit
  <2>1. /\ pc["loop"] = "in_req" /\ pc'["loop"] = "dispatch" /\ pc'["out"] = pc["out"] /\ pc'["in"] = pc["in"]
        /\ urb'["out"] = urb["out"] /\ urb'["in"] = urb["in"]
        /\ UNCHANGED <<reads, polls, pending, outQueue, inQueue, replies, pendingReads, reply,
                       pair, answered>>
    BY <1>3, <1>0 DEF InReqEmit, Goto, hostVars, busVars
  <2>2. /\ Transferred' = Transferred /\ Taken' = Taken /\ Remembered' = Remembered
        /\ Paired' = Paired /\ Started' = Started
    BY <2>1, <1>0 DEF Transferred, Taken, Remembered, Paired, Started
  <2>3. RequestInv'
    BY <2>1, <2>2, <1>0 DEF RequestInv
  <2>4. HandInv'
    BY <2>1, <2>2, <1>0 DEF HandInv
  <2>5. PollBound'
    BY <2>1, <2>2, <1>0 DEF PollBound
  <2> QED BY <2>3, <2>4, <2>5
<1>4. CASE DispatchPoll
  <2>1. /\ pc["loop"] = "dispatch" /\ pc'["loop"] = "idle" /\ pc'["out"] = pc["out"] /\ pc'["in"] = pc["in"]
        /\ urb'["out"] = urb["out"] /\ urb'["in"] = urb["in"]
        /\ pending' = pending \cup {urb["loop"]} /\ inQueue' = Append(inQueue, urb["loop"][2])
        /\ UNCHANGED <<reads, polls, outQueue, replies, pendingReads, reply, pair, answered>>
    BY <1>4, <1>0 DEF DispatchPoll, Goto, hostVars, busVars
  <2>2. urb["loop"][2] \in Polls
    BY <2>1, <1>h, UrbTypes DEF HoldInv
  <2>3. Len(inQueue') = Len(inQueue) + 1
    BY <2>1, <2>2, <1>0, QueueGrows
  <2>4. /\ Transferred' = Transferred /\ Taken' = Taken /\ Remembered' = Remembered
        /\ Paired' = Paired /\ Started' = Started
    BY <2>1, <2>3, <1>0 DEF Transferred, Taken, Remembered, Paired, Started
  <2>5. RequestInv'
    BY <2>1, <2>4, <1>0 DEF RequestInv
  <2>6. HandInv'
    BY <2>1, <2>4, <1>0 DEF HandInv
  <2>7. PollBound'
    BY <2>1, <2>4, <1>0 DEF PollBound
  <2> QED BY <2>5, <2>6, <2>7
<1>5. CASE UnlinkEmit
  <2>1. /\ pc["loop"] = "unlink" /\ pc'["loop"] = "idle" /\ pc'["out"] = pc["out"] /\ pc'["in"] = pc["in"]
        /\ urb'["out"] = urb["out"] /\ urb'["in"] = urb["in"]
        /\ UNCHANGED <<reads, polls, pending, outQueue, inQueue, replies, pendingReads, reply,
                       pair, answered>>
    BY <1>5, <1>0 DEF UnlinkEmit, Goto, hostVars, busVars
  <2>2. /\ Transferred' = Transferred /\ Taken' = Taken /\ Remembered' = Remembered
        /\ Paired' = Paired /\ Started' = Started
    BY <2>1, <1>0 DEF Transferred, Taken, Remembered, Paired, Started
  <2>3. RequestInv'
    BY <2>1, <2>2, <1>0 DEF RequestInv
  <2>4. HandInv'
    BY <2>1, <2>2, <1>0 DEF HandInv
  <2>5. PollBound'
    BY <2>1, <2>2, <1>0 DEF PollBound
  <2> QED BY <2>3, <2>4, <2>5
<1>6. CASE Detach
  <2>1. /\ pc["loop"] = "idle" /\ pc'["loop"] = "detach" /\ pc'["out"] = pc["out"] /\ pc'["in"] = pc["in"]
        /\ urb'["out"] = urb["out"] /\ urb'["in"] = urb["in"]
        /\ UNCHANGED <<reads, polls, pending, outQueue, inQueue, replies, pendingReads, reply,
                       pair, answered>>
    BY <1>6, <1>0 DEF Detach, Goto, hostVars, busVars
  <2>2. /\ Transferred' = Transferred /\ Taken' = Taken /\ Remembered' = Remembered
        /\ Paired' = Paired /\ Started' = Started
    BY <2>1, <1>0 DEF Transferred, Taken, Remembered, Paired, Started
  <2>3. RequestInv'
    BY <2>1, <2>2, <1>0 DEF RequestInv
  <2>4. HandInv'
    BY <2>1, <2>2, <1>0 DEF HandInv
  <2>5. PollBound'
    BY <2>1, <2>2, <1>0 DEF PollBound
  <2> QED BY <2>3, <2>4, <2>5
<1>7. CASE DetachEmit
  <2>1. /\ pc["loop"] = "detach" /\ pc'["loop"] = "ended" /\ pc'["out"] = pc["out"] /\ pc'["in"] = pc["in"]
        /\ urb'["out"] = urb["out"] /\ urb'["in"] = urb["in"]
        /\ UNCHANGED <<reads, polls, pending, outQueue, inQueue, replies, pendingReads, reply,
                       pair, answered>>
    BY <1>7, <1>0 DEF DetachEmit, Goto, hostVars, busVars
  <2>2. /\ Transferred' = Transferred /\ Taken' = Taken /\ Remembered' = Remembered
        /\ Paired' = Paired /\ Started' = Started
    BY <2>1, <1>0 DEF Transferred, Taken, Remembered, Paired, Started
  <2>3. RequestInv'
    BY <2>1, <2>2, <1>0 DEF RequestInv
  <2>4. HandInv'
    BY <2>1, <2>2, <1>0 DEF HandInv
  <2>5. PollBound'
    BY <2>1, <2>2, <1>0 DEF PollBound
  <2> QED BY <2>3, <2>4, <2>5
<1>8. CASE OutTransfer
  <2>1. outQueue # << >>
    BY <1>8 DEF OutTransfer
  <2>2. /\ Len(outQueue) # 0 /\ Head(outQueue) = outQueue[1] /\ Len(Tail(outQueue)) = Len(outQueue) - 1
        /\ \A i \in 1..(Len(outQueue) - 1) : Tail(outQueue)[i] = outQueue[i + 1]
    BY <2>1, <1>0, QueueShrinks
  <2>3. Head(outQueue) = Transferred + 1 /\ <<"out", Head(outQueue)>> \in pending /\ Head(outQueue) \in Reads
    BY <2>1, <2>2, <1>0, QueueTypes DEF RequestInv
  <2>4. /\ pc["out"] = "idle" /\ pc'["out"] = "claim" /\ pc'["loop"] = pc["loop"] /\ pc'["in"] = pc["in"]
        /\ urb'["out"] = <<"out", Head(outQueue)>> /\ urb'["in"] = urb["in"]
        /\ outQueue' = Tail(outQueue) /\ replies' = Append(replies, Head(outQueue))
        /\ UNCHANGED <<reads, polls, pending, inQueue, pendingReads, reply, pair, answered>>
    BY <1>8, <2>3, <1>0 DEF OutTransfer, Goto, hostVars, busVars
  <2>5. /\ Len(outQueue') = Len(outQueue) - 1 /\ Len(replies') = Len(replies) + 1
        /\ \A i \in 1..Len(outQueue') : outQueue'[i] = outQueue[i + 1]
    BY <2>2, <2>3, <2>4, <1>0, QueueGrows
  <2>6. /\ replies'[Len(replies) + 1] = Transferred + 1
        /\ \A i \in 1..Len(replies) : replies'[i] = replies[i]
    BY <2>3, <2>4, <1>0, QueueGrows
  <2>7. /\ Taken + Len(replies) = Transferred /\ (\A i \in 1..Len(replies) : replies[i] = Taken + i)
        /\ \A i \in 1..Len(replies') : i \in 1..Len(replies) \/ i = Len(replies) + 1
    BY <2>5, <1>0 DEF Taken, RequestInv
  <2>8. \A i \in 1..Len(replies') : replies'[i] = Taken + i
    BY <2>6, <2>7, <1>0
  <2>9. \A i \in 1..Len(outQueue') : i + 1 \in 1..Len(outQueue)
    BY <2>5, <1>0
  <2>10. \A i \in 1..Len(outQueue') : /\ outQueue'[i] = (Transferred + 1) + i
                                      /\ <<"out", outQueue'[i]>> \in pending
    BY <2>5, <2>9, <1>0 DEF RequestInv
  <2>11. /\ reads' = reads /\ polls' = polls /\ pc'["loop"] = pc["loop"] /\ pc["out"] = "idle" /\ pc'["out"] = "claim"
        /\ Len(outQueue') = Len(outQueue) - 1 /\ Len(inQueue') = Len(inQueue)
        /\ Len(replies') = Len(replies) + 1 /\ Len(pendingReads') = Len(pendingReads)
    BY <2>4, <2>5
  <2>12. /\ Transferred' = Transferred + 1 /\ Taken' = Taken /\ Remembered' = Remembered
        /\ Paired' = Paired /\ Started' = Started
    BY <2>11, <1>0 DEF Transferred, Taken, Remembered, Paired, Started
  <2>13. RequestInv'
    BY <2>3, <2>4, <2>8, <2>10, <2>12, <1>0 DEF RequestInv
  <2>14. HandInv'
    BY <2>4, <2>12, <1>0 DEF HandInv
  <2>15. PollBound'
    BY <2>4, <2>12, <1>0 DEF PollBound
  <2> QED BY <2>13, <2>14, <2>15
<1>9. CASE OutClaim
  <2>1. pc["out"] = "claim" /\ urb["out"] \in pending /\ urb["out"] = <<"out", Transferred>>
    BY <1>9 DEF OutClaim, RequestInv
  <2>2. \A i \in 1..Len(outQueue) : <<"out", outQueue[i]>> # urb["out"]
    BY <2>1, <1>0 DEF RequestInv
  <2>3. pc["in"] # "idle" => urb["in"] # urb["out"]
    BY <2>1, <1>h, UrbTypes DEF HoldInv
  <2>4. /\ pc["out"] = "claim" /\ pc'["out"] = "push" /\ pc'["loop"] = pc["loop"] /\ pc'["in"] = pc["in"]
        /\ urb'["out"] = urb["out"] /\ urb'["in"] = urb["in"]
        /\ pending' = pending \ {urb["out"]}
        /\ UNCHANGED <<reads, polls, outQueue, inQueue, replies, pendingReads, reply, pair,
                       answered>>
    BY <1>9, <2>1, <2>2, <2>3, <1>0 DEF OutClaim, Goto, hostVars, busVars
  <2>5. /\ Transferred' = Transferred /\ Taken' = Taken /\ Remembered' = Remembered
        /\ Paired' = Paired /\ Started' = Started
    BY <2>1, <2>4, <1>0 DEF Transferred, Taken, Remembered, Paired, Started
  <2>6. RequestInv'
    BY <2>1, <2>2, <2>4, <2>5, <1>0 DEF RequestInv
  <2>7. HandInv'
    BY <2>3, <2>4, <2>5, <1>0 DEF HandInv
  <2>8. PollBound'
    BY <2>4, <2>5, <1>0 DEF PollBound
  <2> QED BY <2>6, <2>7, <2>8
<1>10. CASE OutPush
  <2>1. /\ pc["out"] = "push" /\ pc'["out"] = "stamp" /\ pc'["loop"] = pc["loop"] /\ pc'["in"] = pc["in"]
        /\ urb'["out"] = urb["out"] /\ urb'["in"] = urb["in"]
        /\ pendingReads' = Append(pendingReads, urb["out"][2])
        /\ UNCHANGED <<reads, polls, pending, outQueue, inQueue, replies, reply, pair, answered>>
    BY <1>10, <1>0 DEF OutPush, Goto, hostVars, busVars
  <2>2. urb["out"] = <<"out", Transferred>> /\ Transferred \in Reads
    BY <2>1, <1>h, UrbTypes DEF RequestInv, HoldInv
  <2>3. /\ Len(pendingReads') = Len(pendingReads) + 1
        /\ pendingReads'[Len(pendingReads) + 1] = Transferred
        /\ \A i \in 1..Len(pendingReads) : pendingReads'[i] = pendingReads[i]
    BY <2>1, <2>2, <1>0, QueueGrows
  <2>4. Paired + Len(pendingReads) = Transferred - 1
    BY <2>1, <1>0 DEF Paired, Remembered
  <2>5. \A i \in 1..Len(pendingReads') : i \in 1..Len(pendingReads) \/ i = Len(pendingReads) + 1
    BY <2>3, <1>0
  <2>6. \A i \in 1..Len(pendingReads') : pendingReads'[i] = Paired + i
    BY <2>3, <2>4, <2>5, <1>0 DEF RequestInv
  <2>7. /\ Transferred' = Transferred /\ Taken' = Taken /\ Remembered' = Remembered + 1
        /\ Paired' = Paired /\ Started' = Started
    BY <2>1, <2>3, <1>0 DEF Transferred, Taken, Remembered, Paired, Started
  <2>8. RequestInv'
    BY <2>1, <2>2, <2>6, <2>7, <1>0 DEF RequestInv
  <2>9. HandInv'
    BY <2>1, <2>7, <1>0 DEF HandInv
  <2>10. PollBound'
    BY <2>1, <2>7, <1>0, <1>h DEF PollBound
  <2> QED BY <2>8, <2>9, <2>10
<1>11. CASE OutStamp
  <2>1. /\ pc["out"] = "stamp" /\ pc'["out"] = "emit" /\ pc'["loop"] = pc["loop"] /\ pc'["in"] = pc["in"]
        /\ urb'["out"] = urb["out"] /\ urb'["in"] = urb["in"]
        /\ UNCHANGED <<reads, polls, pending, outQueue, inQueue, replies, pendingReads, reply,
                       pair, answered>>
    BY <1>11, <1>0 DEF OutStamp, Goto, hostVars, busVars
  <2>2. /\ Transferred' = Transferred /\ Taken' = Taken /\ Remembered' = Remembered
        /\ Paired' = Paired /\ Started' = Started
    BY <2>1, <1>0 DEF Transferred, Taken, Remembered, Paired, Started
  <2>3. RequestInv'
    BY <2>1, <2>2, <1>0 DEF RequestInv
  <2>4. HandInv'
    BY <2>1, <2>2, <1>0 DEF HandInv
  <2>5. PollBound'
    BY <2>1, <2>2, <1>0 DEF PollBound
  <2> QED BY <2>3, <2>4, <2>5
<1>12. CASE OutEmit
  <2>1. /\ pc["out"] = "emit" /\ pc'["out"] = "reply" /\ pc'["loop"] = pc["loop"] /\ pc'["in"] = pc["in"]
        /\ urb'["out"] = urb["out"] /\ urb'["in"] = urb["in"]
        /\ UNCHANGED <<reads, polls, pending, outQueue, inQueue, replies, pendingReads, reply,
                       pair, answered>>
    BY <1>12, <1>0 DEF OutEmit, Goto, hostVars, busVars
  <2>2. /\ Transferred' = Transferred /\ Taken' = Taken /\ Remembered' = Remembered
        /\ Paired' = Paired /\ Started' = Started
    BY <2>1, <1>0 DEF Transferred, Taken, Remembered, Paired, Started
  <2>3. RequestInv'
    BY <2>1, <2>2, <1>0 DEF RequestInv
  <2>4. HandInv'
    BY <2>1, <2>2, <1>0 DEF HandInv
  <2>5. PollBound'
    BY <2>1, <2>2, <1>0 DEF PollBound
  <2> QED BY <2>3, <2>4, <2>5
<1>13. CASE OutReply
  <2>1. /\ pc["out"] = "reply" /\ pc'["out"] = "idle" /\ pc'["loop"] = pc["loop"] /\ pc'["in"] = pc["in"]
        /\ urb'["out"] = urb["out"] /\ urb'["in"] = urb["in"]
        /\ answered' = answered \cup {urb["out"]}
        /\ UNCHANGED <<reads, polls, pending, outQueue, inQueue, replies, pendingReads, reply,
                       pair>>
    BY <1>13, <1>0 DEF OutReply, Goto, hostVars, busVars
  <2>2. urb["out"] = <<"out", Transferred>> /\ Remembered = Transferred
    BY <2>1, <1>0 DEF RequestInv, Remembered
  <2>3. /\ Transferred' = Transferred /\ Taken' = Taken /\ Remembered' = Remembered
        /\ Paired' = Paired /\ Started' = Started
    BY <2>1, <1>0 DEF Transferred, Taken, Remembered, Paired, Started
  <2>4. RequestInv'
    BY <2>1, <2>3, <1>0 DEF RequestInv
  <2>5. HandInv'
    BY <2>1, <2>3, <1>0 DEF HandInv
  <2>6. PollBound'
    BY <2>1, <2>2, <2>3, <1>0 DEF PollBound
  <2> QED BY <2>4, <2>5, <2>6
<1>14. CASE InStart
  <2>1. inQueue # << >> /\ pc["in"] = "idle" /\ inQueue' = Tail(inQueue)
    BY <1>14 DEF InStart
  <2>2. Len(inQueue) # 0 /\ Len(inQueue') = Len(inQueue) - 1
    BY <2>1, <1>0, QueueShrinks
  <2>3. /\ pc'["loop"] = pc["loop"] /\ pc'["out"] = pc["out"] /\ urb'["out"] = urb["out"]
        /\ reads' = reads /\ polls' = polls /\ pending' = pending /\ outQueue' = outQueue
        /\ replies' = replies /\ pendingReads' = pendingReads /\ reply' = reply
        /\ pair' = pair /\ answered' = answered
        /\ \/ pc'["in"] = "transfer" /\ urb'["in"] \in pending
           \/ pc'["in"] = "idle"
    BY <1>14, <1>0 DEF InStart, Goto, hostVars
  <2>4. /\ Transferred' = Transferred /\ Taken' = Taken /\ Remembered' = Remembered
        /\ Paired' = Paired /\ Started' = Started + 1
    BY <2>2, <2>3, <1>0 DEF Transferred, Taken, Remembered, Paired, Started
  <2>5. RequestInv'
    BY <2>3, <2>4, <1>0 DEF RequestInv
  <2>6. HandInv'
    BY <2>1, <2>3, <2>4, <1>0 DEF HandInv
  <2>7. PollBound'
    BY <2>1, <2>3, <2>4, <1>0 DEF PollBound
  <2> QED BY <2>5, <2>6, <2>7
<1>15. CASE InTransfer
  <2>1. /\ pc["in"] = "transfer" /\ pc'["in"] = "claim" /\ pc'["loop"] = pc["loop"] /\ pc'["out"] = pc["out"]
        /\ urb'["out"] = urb["out"] /\ urb'["in"] = urb["in"]
        /\ reply' = Head(replies) /\ replies' = Tail(replies)
        /\ UNCHANGED <<reads, polls, pending, outQueue, inQueue, pendingReads, pair, answered>>
    BY <1>15, <1>0 DEF InTransfer, Goto, hostVars, busVars
  <2>2. replies # << >>
    BY <1>15 DEF InTransfer
  <2>3. /\ Len(replies) # 0 /\ Len(replies') = Len(replies) - 1 /\ reply' = replies[1]
        /\ \A i \in 1..Len(replies') : replies'[i] = replies[i + 1]
    BY <2>1, <2>2, <1>0, QueueShrinks
  <2>4. \A i \in 1..Len(replies') : i + 1 \in 1..Len(replies)
    BY <2>3, <1>0
  <2>5. /\ \A i \in 1..Len(replies') : replies'[i] = (Taken + 1) + i
        /\ reply' = Taken + 1
    BY <2>3, <2>4, <1>0 DEF RequestInv
  <2>6. /\ Transferred' = Transferred /\ Taken' = Taken + 1 /\ Remembered' = Remembered
        /\ Paired' = Paired /\ Started' = Started
    BY <2>1, <2>3, <1>0 DEF Transferred, Taken, Remembered, Paired, Started
  <2>7. RequestInv'
    BY <2>1, <2>5, <2>6, <1>0 DEF RequestInv
  <2>8. HandInv'
    BY <2>1, <2>5, <2>6, <1>0 DEF HandInv
  <2>9. PollBound'
    BY <2>1, <2>6, <1>0 DEF PollBound
  <2> QED BY <2>7, <2>8, <2>9
<1>16. CASE InCancelled
  BY <1>16 DEF InCancelled, HandInv
<1>17. CASE InClaim
  <2>1. pc["in"] = "claim" /\ urb["in"] \in pending /\ urb["in"] \in {"in"} \X Polls
    BY <1>17, <1>h DEF InClaim, HandInv, HoldInv
  <2>2. \A j : <<"out", j>> # urb["in"]
    BY <2>1, UrbTypes
  <2>3. pc["out"] = "claim" => urb["out"] # urb["in"]
    BY <2>2 DEF RequestInv
  <2>4. /\ pc["in"] = "claim" /\ pc'["in"] = "pop" /\ pc'["loop"] = pc["loop"] /\ pc'["out"] = pc["out"]
        /\ urb'["out"] = urb["out"] /\ urb'["in"] = urb["in"]
        /\ pending' = pending \ {urb["in"]}
        /\ UNCHANGED <<reads, polls, outQueue, inQueue, replies, pendingReads, reply, pair,
                       answered>>
    BY <1>17, <2>1, <2>2, <2>3, <1>0 DEF InClaim, Goto, hostVars, busVars
  <2>5. /\ Transferred' = Transferred /\ Taken' = Taken /\ Remembered' = Remembered
        /\ Paired' = Paired /\ Started' = Started
    BY <2>4, <1>0 DEF Transferred, Taken, Remembered, Paired, Started
  <2>6. RequestInv'
    BY <2>1, <2>2, <2>3, <2>4, <2>5, <1>0 DEF RequestInv
  <2>7. HandInv'
    BY <2>1, <2>4, <2>5, <1>0 DEF HandInv
  <2>8. PollBound'
    BY <2>4, <2>5, <1>0 DEF PollBound
  <2> QED BY <2>6, <2>7, <2>8
<1>18. CASE InPop
  <2>1. pc["in"] = "pop"
    BY <1>18 DEF InPop
  <2>2. /\ Len(pendingReads) = Remembered - Taken + 1 /\ Taken <= polls /\ polls <= Remembered
        /\ Paired = Taken - 1
    BY <2>1, <1>0 DEF Paired, HandInv, PollBound, Started
  <2>3. pendingReads # << >>
    BY <2>2, <1>0, EmptySeq
  <2>4. /\ Len(Tail(pendingReads)) = Len(pendingReads) - 1 /\ Head(pendingReads) = Taken
        /\ \A i \in 1..(Len(pendingReads) - 1) : Tail(pendingReads)[i] = (Paired + 1) + i
    BY <2>2, <2>3, <1>0, QueueShrinks DEF RequestInv
  <2>5. /\ pc["in"] = "pop" /\ pc'["in"] = "stamp" /\ pc'["loop"] = pc["loop"] /\ pc'["out"] = pc["out"]
        /\ urb'["out"] = urb["out"] /\ urb'["in"] = urb["in"]
        /\ pendingReads' = Tail(pendingReads) /\ pair' = Head(pendingReads)
        /\ UNCHANGED <<reads, polls, pending, outQueue, inQueue, replies, reply, answered>>
    BY <1>18, <2>3, <1>0 DEF InPop, Goto, hostVars, busVars
  <2>6. /\ reads' = reads /\ polls' = polls /\ pc'["loop"] = pc["loop"] /\ pc["out"] = pc'["out"]
        /\ Len(outQueue') = Len(outQueue) /\ Len(inQueue') = Len(inQueue)
        /\ Len(replies') = Len(replies) /\ Len(pendingReads') = Len(pendingReads) - 1
    BY <2>4, <2>5
  <2>7. /\ Transferred' = Transferred /\ Taken' = Taken /\ Remembered' = Remembered
        /\ Paired' = Paired + 1 /\ Started' = Started
    BY <2>6, <1>0 DEF Transferred, Taken, Remembered, Paired, Started
  <2>8. RequestInv'
    BY <2>4, <2>5, <2>7, <1>0 DEF RequestInv
  <2>9. HandInv'
    BY <2>2, <2>4, <2>5, <2>7, <1>0 DEF HandInv
  <2>10. PollBound'
    BY <2>5, <2>7, <1>0 DEF PollBound
  <2> QED BY <2>8, <2>9, <2>10
<1>19. CASE InStamp
  <2>1. /\ pc["in"] = "stamp" /\ pc'["in"] = "emit" /\ pc'["loop"] = pc["loop"] /\ pc'["out"] = pc["out"]
        /\ urb'["out"] = urb["out"] /\ urb'["in"] = urb["in"]
        /\ UNCHANGED <<reads, polls, pending, outQueue, inQueue, replies, pendingReads, reply,
                       pair, answered>>
    BY <1>19, <1>0 DEF InStamp, Goto, hostVars, busVars
  <2>2. /\ Transferred' = Transferred /\ Taken' = Taken /\ Remembered' = Remembered
        /\ Paired' = Paired /\ Started' = Started
    BY <2>1, <1>0 DEF Transferred, Taken, Remembered, Paired, Started
  <2>3. RequestInv'
    BY <2>1, <2>2, <1>0 DEF RequestInv
  <2>4. HandInv'
    BY <2>1, <2>2, <1>0 DEF HandInv
  <2>5. PollBound'
    BY <2>1, <2>2, <1>0 DEF PollBound
  <2> QED BY <2>3, <2>4, <2>5
<1>20. CASE InEmit
  <2>1. /\ pc["in"] = "emit" /\ pc'["in"] = "reply" /\ pc'["loop"] = pc["loop"] /\ pc'["out"] = pc["out"]
        /\ urb'["out"] = urb["out"] /\ urb'["in"] = urb["in"]
        /\ UNCHANGED <<reads, polls, pending, outQueue, inQueue, replies, pendingReads, reply,
                       pair, answered>>
    BY <1>20, <1>0 DEF InEmit, Goto, hostVars, busVars
  <2>2. /\ Transferred' = Transferred /\ Taken' = Taken /\ Remembered' = Remembered
        /\ Paired' = Paired /\ Started' = Started
    BY <2>1, <1>0 DEF Transferred, Taken, Remembered, Paired, Started
  <2>3. RequestInv'
    BY <2>1, <2>2, <1>0 DEF RequestInv
  <2>4. HandInv'
    BY <2>1, <2>2, <1>0 DEF HandInv
  <2>5. PollBound'
    BY <2>1, <2>2, <1>0 DEF PollBound
  <2> QED BY <2>3, <2>4, <2>5
<1>21. CASE InReply
  <2>1. /\ pc["in"] = "reply" /\ pc'["in"] = "idle" /\ pc'["loop"] = pc["loop"] /\ pc'["out"] = pc["out"]
        /\ urb'["out"] = urb["out"] /\ urb'["in"] = urb["in"]
        /\ answered' = answered \cup {urb["in"]}
        /\ UNCHANGED <<reads, polls, pending, outQueue, inQueue, replies, pendingReads, reply,
                       pair>>
    BY <1>21, <1>0 DEF InReply, Goto, hostVars, busVars
  <2>2. urb["in"] \in {"in"} \X Polls
    BY <2>1, <1>h DEF HoldInv
  <2>3. \A j : <<"out", j>> \in answered' => <<"out", j>> \in answered
    BY <2>1, <2>2, UrbTypes
  <2>4. /\ Transferred' = Transferred /\ Taken' = Taken /\ Remembered' = Remembered
        /\ Paired' = Paired /\ Started' = Started
    BY <2>1, <1>0 DEF Transferred, Taken, Remembered, Paired, Started
  <2>5. RequestInv'
    BY <2>1, <2>4, <1>0 DEF RequestInv
  <2>6. HandInv'
    BY <2>1, <2>4, <1>0 DEF HandInv
  <2>7. PollBound'
    BY <2>1, <2>3, <2>4, <1>0 DEF PollBound
  <2> QED BY <2>5, <2>6, <2>7
<1>u. ASSUME NEW u \in Urbs, Unlink(u) PROVE FALSE
  BY <1>u DEF Unlink
<1> QED BY <1>1, <1>2, <1>3, <1>4, <1>5, <1>6, <1>7, <1>8, <1>9, <1>10, 
  <1>11, <1>12, <1>13, <1>14, <1>15, <1>16, <1>17, <1>18, <1>19, <1>20, <1>21, <1>u
  DEF Next, Loop, OutWorker, InWorker

\* A line that names a register is written by InEmit only.
LEMMA FifoStep == ASSUME TypeInv, HandInv, FifoPairs, Next PROVE FifoPairs'
<1>1. CASE file' = file
  BY <1>1 DEF FifoPairs
<1>2. ASSUME NEW t \in Tasks, NEW kind, NEW value, NEW reg, Emit(t, kind, value, reg),
             kind = "reg_read" => value = reg
      PROVE  FifoPairs'
  <2>1. /\ Len(file) \in Nat /\ Len(file') = Len(file) + 1
        /\ \A i \in 1..Len(file) : file'[i] = file[i]
        /\ file'[Len(file) + 1] = Line(stampOf[t], kind, urb[t], value, reg)
    BY <1>2, FileGrows
  <2>2. \A i \in 1..Len(file') : i \in 1..Len(file) \/ i = Len(file) + 1
    BY <2>1
  <2> QED BY <1>2, <2>1, <2>2 DEF FifoPairs, Line
<1>3. CASE InReqEmit
  BY <1>3, <1>2, PlacesOf DEF InReqEmit
<1>4. CASE UnlinkEmit
  BY <1>4, <1>2, PlacesOf DEF UnlinkEmit
<1>5. CASE DetachEmit
  BY <1>5, <1>2, PlacesOf DEF DetachEmit
<1>6. CASE OutEmit
  BY <1>6, <1>2, PlacesOf DEF OutEmit
<1>7. CASE InEmit
  BY <1>7, <1>2, PlacesOf DEF InEmit, HandInv
<1>8. CASE SubmitRead \/ SubmitPoll \/ DispatchPoll \/ (\E u \in Urbs : Unlink(u)) \/ Detach
  BY <1>8, <1>1 DEF SubmitRead, SubmitPoll, DispatchPoll, Unlink, Detach, Stamp, logVars
<1>9. CASE OutTransfer \/ OutClaim \/ OutPush \/ OutStamp \/ OutReply
  BY <1>9, <1>1 DEF OutTransfer, OutClaim, OutPush, OutStamp, OutReply, Stamp, logVars
<1>10. CASE InStart \/ InTransfer \/ InCancelled \/ InClaim \/ InPop \/ InStamp \/ InReply
  BY <1>10, <1>1 DEF InStart, InTransfer, InCancelled, InClaim, InPop, InStamp, InReply, Stamp, logVars
<1> QED BY <1>3, <1>4, <1>5, <1>6, <1>7, <1>8, <1>9, <1>10 DEF Next, Loop, OutWorker, InWorker

\* A host does not change its manners.
LEMMA PoliteStays == ASSUME Next PROVE polite' = polite
<1>1. CASE Loop
  BY <1>1 DEF Loop, hostVars, SubmitRead, SubmitPoll, InReqEmit, DispatchPoll, Unlink, UnlinkEmit,
     Detach, DetachEmit
<1>2. CASE OutWorker
  BY <1>2 DEF OutWorker, hostVars, OutTransfer, OutClaim, OutPush, OutStamp, OutEmit, OutReply
<1>3. CASE InWorker
  BY <1>3 DEF InWorker, hostVars, InStart, InTransfer, InCancelled, InClaim, InPop, InStamp, InEmit, InReply
<1> QED BY <1>1, <1>2, <1>3 DEF Next

\* PairInv holds of a connection just attached.
LEMMA PairInit == ASSUME Init PROVE PairInv
<1>1. /\ reads = 0 /\ polls = 0 /\ Len(outQueue) = 0 /\ Len(inQueue) = 0 /\ Len(replies) = 0
      /\ Len(pendingReads) = 0 /\ answered = {}
      /\ pc["loop"] = "idle" /\ pc["out"] = "idle" /\ pc["in"] = "idle"
  BY PlacesOf DEF Init
<1>0. /\ (IF pc["out"] \in {"claim", "push"} THEN 1 ELSE 0) = 0
      /\ (IF pc["loop"] \in {"in_req", "dispatch"} THEN 1 ELSE 0) = 0
      /\ (IF pc["in"] \in {"claim", "pop"} THEN 1 ELSE 0) = 0
  BY <1>1
<1>2. /\ Transferred = 0 /\ Taken = 0 /\ Remembered = 0 /\ Paired = 0 /\ Started = 0
  <2>1. Transferred = 0
    BY <1>1 DEF Transferred
  <2>2. Taken = 0 - 0 /\ Remembered = 0 - 0
    BY <1>0, <1>1, <2>1 DEF Taken, Remembered
  <2>3. Paired = 0 - 0 - 0 /\ Started = 0 - 0 - 0
    BY <1>0, <1>1, <2>2 DEF Paired, Started
  <2> QED BY <2>1, <2>2, <2>3
<1>3. FifoPairs
  BY DEF Init, FifoPairs, Line
<1>4. RequestInv
  BY <1>1, <1>2 DEF RequestInv
<1>5. HandInv
  <2>1. Paired = Taken - IF pc["in"] \in {"claim", "pop"} THEN 1 ELSE 0
    <3>1. Paired = 0 - 0 /\ Taken = 0
      BY <1>2
    <3> QED BY <1>0, <3>1
  <2> QED BY <1>1, <2>1 DEF HandInv
<1>6. PollBound
  BY <1>1, <1>2 DEF PollBound
<1> QED BY <1>3, <1>4, <1>5, <1>6 DEF PairInv

\* PairInv is inductive beside the types.
LEMMA PairInvStep == ASSUME TypeInv, PairInv, [Next]_vars PROVE PairInv'
<1>1. CASE Next
  <2> SUFFICES ASSUME polite' PROVE (RequestInv /\ HandInv /\ PollBound /\ FifoPairs)'
    BY DEF PairInv
  <2>1. polite
    BY <1>1, PoliteStays
  <2> QED BY <1>1, <2>1, PairStep, FifoStep DEF PairInv
<1>2. CASE UNCHANGED vars
  BY <1>2 DEF vars, hostVars, busVars, logVars, PairInv, RequestInv, HandInv, PollBound, FifoPairs,
     Transferred, Taken, Remembered, Paired, Started
<1> QED BY <1>1, <1>2

\* Recorder.PoliteHostPairs holds: for a host that polls only for reads it has
\* seen answered and unlinks nothing, every reg_read line names the register of the
\* request its value answers, however the three tasks interleave.
THEOREM PoliteHostsPair == Spec => []PoliteHostPairs
<1>1. Init => TypeInv /\ PairInv
  BY InitTypes, PairInit
<1>2. TypeInv /\ PairInv /\ [Next]_vars => (TypeInv /\ PairInv)'
  BY TypeStep, PairInvStep
<1>3. PairInv => PoliteHostPairs
  BY DEF PairInv, PoliteHostPairs
<1> QED BY <1>1, <1>2, <1>3, PTL DEF Spec
=============================================================================
