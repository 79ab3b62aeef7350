------------------------------ MODULE Recorder ------------------------------
(***************************************************************************)
(* The traffic log (vqa40x-usbip/src/record.rs) as three tasks of one       *)
(* connection write it: the URB loop, the worker of EP1 OUT, which carries  *)
(* register read requests, and the worker of EP1 IN, which carries their    *)
(* replies (vqa40x-usbip/src/lib.rs).                                       *)
(*                                                                         *)
(* A line takes its number first (`stamp`) and is written later, under the  *)
(* file's lock (`emit`).  Read requests are remembered in `pending_reads`   *)
(* when the OUT transfer is recorded and forgotten when a reply is.         *)
(*                                                                         *)
(* Read requests and polls (IN URBs) are numbered in the order the host     *)
(* submits them; a reply carries the number of the request it answers,      *)
(* which the code does not see.                                            *)
(***************************************************************************)
EXTENDS Integers, Sequences, FiniteSets

CONSTANTS
    MaxReads,   \* bound: register read requests the host sends
    MaxPolls,   \* bound: IN URBs the host submits
    MaxUnlinks  \* bound: UNLINKs it sends

ASSUME ConstantsAssumption ==
    MaxReads \in Nat /\ MaxPolls \in Nat /\ MaxUnlinks \in Nat

Reads == 1..MaxReads
Polls == 1..MaxPolls
Nobody == 0
Tasks == {"loop", "out", "in"}

VARIABLES
    polite,     \* the host polls only for reads whose request is answered,
                \* and unlinks nothing
    reads,      \* read requests submitted
    polls,      \* IN URBs submitted
    unlinked,   \* URBs an UNLINK has been read for
    pending,    \* URBs in the `pending` map: <<"out", i>> or <<"in", j>>
    outQueue, inQueue,  \* jobs of the two workers
    replies,    \* the analyzer's reply queue
    pendingReads,       \* ConnRecorder.pending_reads
    seq,        \* Recorder.seq
    file,       \* the lines written
    pc,         \* where each task stands
    urb,        \* the URB each task handles
    reply,      \* the reply the IN worker holds
    pair,       \* the request the IN worker paired it with
    stampOf,    \* the number of the line each task is about to write
    answered    \* URBs whose RET_SUBMIT was handed to the writer

hostVars == <<polite, reads, polls, unlinked>>
busVars  == <<pending, outQueue, inQueue, replies>>
logVars  == <<seq, file, stampOf>>
vars == <<hostVars, busVars, pendingReads, logVars, pc, urb, reply, pair, answered>>

NoUrb == <<"none", 0>>
Urbs  == ({"out"} \X Reads) \cup ({"in"} \X Polls)
Kinds == {"attach", "in_req", "unlink", "reg_read_req", "reg_read", "detach"}

\* A line: its number, kind and seq, the reply whose value a reg_read shows and
\* the request whose register it names.
Line(n, kind, u, value, reg) ==
    [n |-> n, kind |-> kind, urb |-> u, value |-> value, reg |-> reg]

\* The connection is attached and its attach line written.
Init ==
    /\ polite \in BOOLEAN
    /\ reads = 0 /\ polls = 0 /\ unlinked = {}
    /\ pending = {} /\ outQueue = << >> /\ inQueue = << >>
    /\ replies = << >> /\ pendingReads = << >>
    /\ seq = 1
    /\ file = <<Line(1, "attach", NoUrb, Nobody, Nobody)>>
    /\ pc = [t \in Tasks |-> "idle"]
    /\ urb = [t \in Tasks |-> NoUrb]
    /\ reply = Nobody /\ pair = Nobody
    /\ stampOf = [t \in Tasks |-> 0]
    /\ answered = {}

Goto(t, place) == pc' = [pc EXCEPT ![t] = place]

-----------------------------------------------------------------------------
(* Writing a line: ConnRecorder::line takes a number, Recorder::emit writes. *)

\* Mutant of Stamp: the number is the line count of the file.
StampByLength(t) ==
    /\ seq' = Len(file) + 1
    /\ stampOf' = [stampOf EXCEPT ![t] = Len(file) + 1]
    /\ file' = file

Stamp(t) ==
    /\ seq' = seq + 1
    /\ stampOf' = [stampOf EXCEPT ![t] = seq + 1]
    /\ file' = file

Emit(t, kind, value, reg) ==
    /\ file' = Append(file, Line(stampOf[t], kind, urb[t], value, reg))
    /\ stampOf' = [stampOf EXCEPT ![t] = 0]
    /\ seq' = seq

-----------------------------------------------------------------------------
(* The URB loop. *)

\* A read request (an OUT URB of one register frame): no line yet.
SubmitRead ==
    /\ pc["loop"] = "idle" /\ reads < MaxReads
    /\ reads' = reads + 1
    /\ pending' = pending \cup {<<"out", reads + 1>>}
    /\ outQueue' = Append(outQueue, reads + 1)
    /\ UNCHANGED <<polite, polls, unlinked, inQueue, replies, pendingReads, logVars, pc, urb,
                   reply, pair, answered>>

\* Mutant of SubmitPoll: the URB is dispatched before it is recorded.
SubmitPollDispatches ==
    /\ pc["loop"] = "idle" /\ polls < MaxPolls
    /\ polite => \A j \in 1..(polls + 1) : <<"out", j>> \in answered
    /\ polls' = polls + 1
    /\ pending' = pending \cup {<<"in", polls + 1>>}
    /\ inQueue' = Append(inQueue, polls + 1)
    /\ urb' = [urb EXCEPT !["loop"] = <<"in", polls + 1>>]
    /\ Stamp("loop") /\ Goto("loop", "in_req")
    /\ UNCHANGED <<polite, reads, unlinked, outQueue, replies, pendingReads, reply, pair, answered>>

\* An IN URB: in_req is recorded, then the URB is dispatched.
SubmitPoll ==
    /\ pc["loop"] = "idle" /\ polls < MaxPolls
    /\ polite => \A j \in 1..(polls + 1) : <<"out", j>> \in answered
    /\ polls' = polls + 1
    /\ urb' = [urb EXCEPT !["loop"] = <<"in", polls + 1>>]
    /\ Stamp("loop") /\ Goto("loop", "in_req")
    /\ UNCHANGED <<polite, reads, unlinked, busVars, pendingReads, reply, pair, answered>>

InReqEmit ==
    /\ pc["loop"] = "in_req"
    /\ Emit("loop", "in_req", Nobody, Nobody) /\ Goto("loop", "dispatch")
    /\ UNCHANGED <<hostVars, busVars, pendingReads, urb, reply, pair, answered>>

DispatchPoll ==
    /\ pc["loop"] = "dispatch"
    /\ pending' = pending \cup {urb["loop"]}
    /\ inQueue' = Append(inQueue, urb["loop"][2])
    /\ urb' = [urb EXCEPT !["loop"] = NoUrb]
    /\ Goto("loop", "idle")
    /\ UNCHANGED <<hostVars, outQueue, replies, pendingReads, logVars, reply, pair,
                   answered>>

\* UNLINK: the victim leaves `pending`, if it is still there, then the outcome
\* is recorded.
Unlink(u) ==
    /\ pc["loop"] = "idle" /\ ~polite
    /\ u[2] <= IF u[1] = "out" THEN reads ELSE polls
    /\ u \notin unlinked /\ Cardinality(unlinked) < MaxUnlinks
    /\ unlinked' = unlinked \cup {u}
    /\ pending' = pending \ {u}
    /\ urb' = [urb EXCEPT !["loop"] = u]
    /\ Stamp("loop") /\ Goto("loop", "unlink")
    /\ UNCHANGED <<polite, reads, polls, outQueue, inQueue, replies, pendingReads, reply, pair,
                   answered>>

UnlinkEmit ==
    /\ pc["loop"] = "unlink"
    /\ Emit("loop", "unlink", Nobody, Nobody) /\ Goto("loop", "idle")
    /\ urb' = [urb EXCEPT !["loop"] = NoUrb]
    /\ UNCHANGED <<hostVars, busVars, pendingReads, reply, pair, answered>>

\* The connection ends; the workers finish what they are in the middle of.
Detach ==
    /\ pc["loop"] = "idle"
    /\ Stamp("loop") /\ Goto("loop", "detach")
    /\ UNCHANGED <<hostVars, busVars, pendingReads, urb, reply, pair, answered>>

DetachEmit ==
    /\ pc["loop"] = "detach"
    /\ Emit("loop", "detach", Nobody, Nobody) /\ Goto("loop", "ended")
    /\ UNCHANGED <<hostVars, busVars, pendingReads, urb, reply, pair, answered>>

-----------------------------------------------------------------------------
(* The EP1 OUT worker. *)

\* The next request, unless it was unlinked: the analyzer queues the reply.
OutTransfer ==
    /\ pc["out"] = "idle" /\ outQueue # << >>
    /\ outQueue' = Tail(outQueue)
    /\ IF <<"out", Head(outQueue)>> \in pending
       THEN /\ replies' = Append(replies, Head(outQueue))
            /\ urb' = [urb EXCEPT !["out"] = <<"out", Head(outQueue)>>]
            /\ Goto("out", "claim")
       ELSE UNCHANGED <<replies, urb, pc>>
    /\ UNCHANGED <<hostVars, pending, inQueue, pendingReads, logVars, reply, pair,
                   answered>>

\* Mutant of OutClaim: a request that lost its URB is recorded all the same,
\* under no URB.
OutClaimForgets ==
    /\ pc["out"] = "claim"
    /\ pending' = pending \ {urb["out"]}
    /\ Goto("out", IF urb["out"] \in pending THEN "push" ELSE "pop")
    /\ UNCHANGED <<hostVars, outQueue, inQueue, replies, pendingReads, logVars, urb,
                   reply, pair, answered>>

\* Completion takes the URB out of `pending`, or finds that UNLINK has.
OutClaim ==
    /\ pc["out"] = "claim"
    /\ pending' = pending \ {urb["out"]}
    /\ Goto("out", IF urb["out"] \in pending THEN "push" ELSE "idle")
    /\ UNCHANGED <<hostVars, outQueue, inQueue, replies, pendingReads, logVars, urb,
                   reply, pair, answered>>

\* Mutant of OutPush: the newest request is paired first.
OutPushFront ==
    /\ pc["out"] = "push"
    /\ pendingReads' = <<urb["out"][2]>> \o pendingReads
    /\ Goto("out", "stamp")
    /\ UNCHANGED <<hostVars, busVars, logVars, urb, reply, pair, answered>>

\* ConnRecorder::out: remember the request ...
OutPush ==
    /\ pc["out"] = "push"
    /\ pendingReads' = Append(pendingReads, urb["out"][2])
    /\ Goto("out", "stamp")
    /\ UNCHANGED <<hostVars, busVars, logVars, urb, reply, pair, answered>>

OutStamp ==
    /\ pc["out"] = "stamp"
    /\ Stamp("out") /\ Goto("out", "emit")
    /\ UNCHANGED <<hostVars, busVars, pendingReads, urb, reply, pair, answered>>

OutEmit ==
    /\ pc["out"] = "emit"
    /\ Emit("out", "reg_read_req", Nobody, Nobody) /\ Goto("out", "reply")
    /\ UNCHANGED <<hostVars, busVars, pendingReads, urb, reply, pair, answered>>

\* ... and only then is the RET_SUBMIT handed to the writer.
OutReply ==
    /\ pc["out"] = "reply"
    /\ answered' = answered \cup {urb["out"]}
    /\ Goto("out", "idle")
    /\ UNCHANGED <<hostVars, busVars, pendingReads, logVars, urb, reply, pair>>

-----------------------------------------------------------------------------
(* The EP1 IN worker. *)

\* The next poll, unless it was unlinked, takes a reply off the analyzer's queue.
InStart ==
    /\ pc["in"] = "idle" /\ inQueue # << >>
    /\ inQueue' = Tail(inQueue)
    /\ IF <<"in", Head(inQueue)>> \in pending
       THEN /\ urb' = [urb EXCEPT !["in"] = <<"in", Head(inQueue)>>]
            /\ Goto("in", "transfer")
       ELSE UNCHANGED <<urb, pc>>
    /\ UNCHANGED <<hostVars, pending, outQueue, replies, pendingReads, logVars, reply,
                   pair, answered>>

InTransfer ==
    /\ pc["in"] = "transfer" /\ replies # << >>
    /\ reply' = Head(replies) /\ replies' = Tail(replies)
    /\ Goto("in", "claim")
    /\ UNCHANGED <<hostVars, pending, outQueue, inQueue, pendingReads, logVars, urb,
                   pair, answered>>

\* The poll's token is cancelled while no reply has come.
InCancelled ==
    /\ pc["in"] = "transfer" /\ urb["in"] \notin pending
    /\ Goto("in", "idle")
    /\ UNCHANGED <<hostVars, busVars, pendingReads, logVars, urb, reply, pair,
                   answered>>

InClaim ==
    /\ pc["in"] = "claim"
    /\ pending' = pending \ {urb["in"]}
    /\ Goto("in", IF urb["in"] \in pending THEN "pop" ELSE "idle")
    /\ UNCHANGED <<hostVars, outQueue, inQueue, replies, pendingReads, logVars, urb,
                   reply, pair, answered>>

\* ConnRecorder::in_result: pair the reply with the oldest remembered request.
InPop ==
    /\ pc["in"] = "pop"
    /\ IF pendingReads = << >>
       THEN pair' = Nobody /\ pendingReads' = << >>
       ELSE pair' = Head(pendingReads) /\ pendingReads' = Tail(pendingReads)
    /\ Goto("in", "stamp")
    /\ UNCHANGED <<hostVars, busVars, logVars, urb, reply, answered>>

\* Mutant of InStamp: the answer is handed over before its line is written.
InStampReplies ==
    /\ pc["in"] = "stamp"
    /\ Stamp("in") /\ Goto("in", "emit")
    /\ answered' = answered \cup {urb["in"]}
    /\ UNCHANGED <<hostVars, busVars, pendingReads, urb, reply, pair>>

InStamp ==
    /\ pc["in"] = "stamp"
    /\ Stamp("in") /\ Goto("in", "emit")
    /\ UNCHANGED <<hostVars, busVars, pendingReads, urb, reply, pair, answered>>

\* The line names the register of the paired request; the value is the reply's.
InEmit ==
    /\ pc["in"] = "emit"
    /\ Emit("in", "reg_read", reply, pair) /\ Goto("in", "reply")
    /\ UNCHANGED <<hostVars, busVars, pendingReads, urb, reply, pair, answered>>

InReply ==
    /\ pc["in"] = "reply"
    /\ answered' = answered \cup {urb["in"]}
    /\ Goto("in", "idle")
    /\ UNCHANGED <<hostVars, busVars, pendingReads, logVars, urb, reply, pair>>

-----------------------------------------------------------------------------
Loop ==
    \/ SubmitRead \/ SubmitPoll \/ InReqEmit \/ DispatchPoll
    \/ \E u \in Urbs : Unlink(u)
    \/ UnlinkEmit \/ Detach \/ DetachEmit

OutWorker == OutTransfer \/ OutClaim \/ OutPush \/ OutStamp \/ OutEmit \/ OutReply

InWorker ==
    \/ InStart \/ InTransfer \/ InCancelled \/ InClaim \/ InPop \/ InStamp
    \/ InEmit \/ InReply

Next == Loop \/ OutWorker \/ InWorker

Spec == Init /\ [][Next]_vars

-----------------------------------------------------------------------------
(* Properties. *)

Lines == [n : Nat, kind : Kinds, urb : Urbs \cup {NoUrb},
          value : Reads \cup {Nobody}, reg : Reads \cup {Nobody}]
Places == [loop |-> {"idle", "in_req", "dispatch", "unlink", "detach", "ended"},
           out  |-> {"idle", "claim", "push", "stamp", "emit", "reply"},
           in   |-> {"idle", "transfer", "claim", "pop", "stamp", "emit", "reply"}]

TypeOK ==
    /\ polite \in BOOLEAN
    /\ reads \in 0..MaxReads /\ polls \in 0..MaxPolls
    /\ pending \subseteq Urbs /\ unlinked \subseteq Urbs
    /\ outQueue \in Seq(Reads) /\ inQueue \in Seq(Polls)
    /\ replies \in Seq(Reads) /\ pendingReads \in Seq(Reads)
    /\ seq \in Nat /\ file \in Seq(Lines)
    /\ \A t \in Tasks : pc[t] \in Places[t]
    /\ urb \in [Tasks -> Urbs \cup {NoUrb}]
    /\ reply \in Reads \cup {Nobody} /\ pair \in Reads \cup {Nobody}
    /\ stampOf \in [Tasks -> Nat]
    /\ answered \subseteq Urbs

\* "Sequence numbers are contiguous from 1 (no lost lines)": whichever way the
\* three tasks interleave between taking a number and writing the line, every
\* number up to the last is on one line or in one task's hands, and on no other.
NoLostLine ==
    LET inHand == {t \in Tasks : stampOf[t] # 0}
    IN  /\ \A n \in 1..seq : \/ \E i \in 1..Len(file) : file[i].n = n
                             \/ \E t \in inHand : stampOf[t] = n
        /\ Len(file) + (IF "loop" \in inHand THEN 1 ELSE 0)
              + (IF "out" \in inHand THEN 1 ELSE 0)
              + (IF "in" \in inHand THEN 1 ELSE 0) = seq

\* The log "captures everything the device answers": an answer that reaches the
\* writer is already in the file, so it survives a crash of the server.
AnswerIsLogged ==
    \A u \in answered : \E i \in 1..Len(file) :
        /\ file[i].urb = u
        /\ file[i].kind = IF u[1] = "out" THEN "reg_read_req" ELSE "reg_read"

\* The device answers in order, so a FIFO pairs requests and replies: every
\* reg_read line names the register of the request its value answers.
FifoPairs ==
    \A i \in 1..Len(file) : file[i].kind = "reg_read" =>
        file[i].reg = file[i].value

\* It does for a host that polls only for requests it has seen answered and that
\* unlinks nothing (the tests' client).
PoliteHostPairs == polite => FifoPairs

\* The numbers are taken before the file is locked, so lines may be written out of
\* their order.  What depends on another line does not overtake it: a reply
\* follows the in_req of its poll in the file and in number, the detach line
\* follows every in_req, and each task's own lines are in order.
CausalOrder ==
    \A i \in 1..Len(file) :
        /\ file[i].kind = "reg_read" =>
             \E j \in 1..(i - 1) : /\ file[j].kind = "in_req" /\ file[j].urb = file[i].urb
                                   /\ file[j].n < file[i].n
        /\ file[i].kind \in {"in_req", "unlink", "detach"} =>
             \A j \in 1..(i - 1) : file[j].kind \in {"attach", "in_req", "unlink"} =>
                 file[j].n < file[i].n
=============================================================================
