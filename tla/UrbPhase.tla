------------------------------ MODULE UrbPhase ------------------------------
(***************************************************************************)
(* One attached USB/IP connection: vqa40x-usbip/src/lib.rs, `urb_phase`,    *)
(* with the tasks it spawns.                                               *)
(*                                                                         *)
(*   - the URB loop reads CMD_SUBMIT and CMD_UNLINK from the socket;        *)
(*   - one FIFO worker per endpoint runs the transfers on the persona;      *)
(*   - the writer task sends RET packets in the order they were queued.     *)
(*                                                                         *)
(* They share `pending`, the map from seqnum to cancellation token, which   *)
(* decides who answers an URB, and `conn_token`, cancelled when the         *)
(* connection ends.  Every lock acquisition and every await is a step of    *)
(* its own, so steps of the tasks interleave as the threads of the tokio    *)
(* runtime do.                                                             *)
(*                                                                         *)
(* The host numbers its CMD_SUBMITs in increasing order and unlinks an URB  *)
(* at most once (what the Linux vhci driver does).  An UNLINK may have left *)
(* the host long before the loop reads it, so it may name any URB the loop  *)
(* has read.                                                               *)
(***************************************************************************)
EXTENDS Integers, Sequences, FiniteSets

CONSTANTS
    InEps,      \* endpoints polled by the host (0x81, 0x82, 0x83)
    OutEps,     \* endpoints written by the host (0x01, 0x02, 0x03)
    ReadyEps,   \* endpoints whose transfers always finish
    MaxSeq,     \* bound: number of CMD_SUBMITs the host sends
    MaxUnlinks  \* bound: number of CMD_UNLINKs it sends

Eps  == InEps \cup OutEps
Urbs == 1..MaxSeq
NoEp == "ep0"    \* endpoint of an URB handled inline, or not read yet
NoUrb == 0

ASSUME ConstantsAssumption ==
    /\ MaxSeq \in Nat /\ MaxUnlinks \in Nat
    /\ InEps \cap OutEps = {}
    /\ ReadyEps \subseteq Eps
    /\ NoEp \notin Eps

VARIABLES
    loop,           \* where the URB loop stands
    loopUrb,        \* the URB whose payload or UNLINK the loop is handling
    next,           \* seqnum of the host's next CMD_SUBMIT
    epOf,           \* endpoint each URB was submitted to
    unlinkAsked,    \* URBs an UNLINK has been read for
    pending,        \* keys of the `pending` map
    tokens,         \* URBs whose own cancellation token is cancelled
    connCancelled,  \* conn_token
    queue,          \* job channel of each worker
    worker,         \* where each worker stands
    job,            \* the URB each worker holds
    sent,           \* every RET packet handed to the writer, in order
    written,        \* how many of them are on the socket
    writer,         \* the writer task
    verdict         \* history: who took each URB out of `pending`

loopVars   == <<loop, loopUrb, next, epOf, unlinkAsked>>
workerVars == <<queue, worker, job>>
writerVars == <<written, writer>>
vars == <<loopVars, pending, tokens, connCancelled, workerVars, sent,
          writerVars, verdict>>

LoopStates   == {"header", "payload", "unlink_hit", "unlink_miss",
                 "draining", "returned", "abandoned"}
WorkerStates == {"none", "recv", "transfer", "claim", "reply", "exited"}
Running == {"header", "payload", "unlink_hit", "unlink_miss"}

\* A RET packet: RET_SUBMIT answers the URB itself; RET_UNLINK names here the
\* URB the UNLINK was for, with the status ECONNRESET or OK.
RetSubmit(u)       == [ret |-> "submit", urb |-> u]
RetUnlink(u, hit)  == [ret |-> IF hit THEN "unlinked" ELSE "unlink_late",
                       urb |-> u]
Packets == [ret : {"submit", "unlinked", "unlink_late"}, urb : Urbs]

\* tx.send: the packet is dropped when the writer has gone.
Send(pkt) == sent' = IF writer = "running" THEN Append(sent, pkt) ELSE sent

Init ==
    /\ loop = "header"
    /\ loopUrb = NoUrb
    /\ next = 1
    /\ epOf = [u \in Urbs |-> NoEp]
    /\ unlinkAsked = {}
    /\ pending = {}
    /\ tokens = {}
    /\ connCancelled = FALSE
    /\ queue = [e \in Eps |-> << >>]
    /\ worker = [e \in Eps |-> "none"]
    /\ job = [e \in Eps |-> NoUrb]
    /\ sent = << >>
    /\ written = 0
    /\ writer = "running"
    /\ verdict = [u \in Urbs |-> "none"]

-----------------------------------------------------------------------------
(* The URB loop. *)

\* Mutant of Dispatch: a busy worker does not take the job.
DispatchDropsWhenBusy(u, e) ==
    /\ pending' = pending \cup {u}
    /\ queue' = [queue EXCEPT ![e] = IF worker[e] \notin {"none", "recv"} THEN @
                                     ELSE Append(@, u)]
    /\ worker' = [worker EXCEPT ![e] = IF @ = "none" THEN "recv" ELSE @]

\* Register the URB in `pending` and hand it to its endpoint's worker, which is
\* spawned on the first use of the endpoint; the send fails, unnoticed, when the
\* worker has ended.
Dispatch(u, e) ==
    /\ pending' = pending \cup {u}
    /\ queue' = [queue EXCEPT ![e] = IF worker[e] = "exited" THEN @
                                     ELSE Append(@, u)]
    /\ worker' = [worker EXCEPT ![e] = IF @ = "none" THEN "recv" ELSE @]

\* CMD_SUBMIT on endpoint 0: handled inline, answered before the next header.  A
\* payload it may have is read in the same step; a socket that ends inside one
\* has the effect OutPayloadEof shows for the other endpoints.
SubmitControl ==
    /\ loop = "header" /\ next \in Urbs
    /\ next' = next + 1
    /\ verdict' = [verdict EXCEPT ![next] = "completed"]
    /\ Send(RetSubmit(next))
    /\ UNCHANGED <<loop, loopUrb, epOf, unlinkAsked, pending, tokens,
                   connCancelled, workerVars, writerVars>>

\* CMD_SUBMIT of an IN transfer.
SubmitIn(e) ==
    /\ loop = "header" /\ next \in Urbs
    /\ next' = next + 1
    /\ epOf' = [epOf EXCEPT ![next] = e]
    /\ Dispatch(next, e)
    /\ UNCHANGED <<loop, loopUrb, unlinkAsked, tokens, connCancelled, job,
                   sent, writerVars, verdict>>

\* The header of an OUT transfer: the payload is read next, and nothing else
\* (no reboot, no cancellation) is waited for meanwhile.
SubmitOutHeader(e) ==
    /\ loop = "header" /\ next \in Urbs
    /\ loop' = "payload" /\ loopUrb' = next
    /\ next' = next + 1
    /\ epOf' = [epOf EXCEPT ![next] = e]
    /\ UNCHANGED <<unlinkAsked, pending, tokens, connCancelled, workerVars,
                   sent, writerVars, verdict>>

OutPayload ==
    /\ loop = "payload"
    /\ Dispatch(loopUrb, epOf[loopUrb])
    /\ loop' = "header" /\ loopUrb' = NoUrb
    /\ UNCHANGED <<next, epOf, unlinkAsked, tokens, connCancelled, job, sent,
                   writerVars, verdict>>

\* The socket ends inside a payload: `?` leaves urb_phase without cancelling
\* conn_token and without waiting for the writer; the senders are dropped.
OutPayloadEof ==
    /\ loop = "payload"
    /\ loop' = "abandoned" /\ loopUrb' = NoUrb
    /\ UNCHANGED <<next, epOf, unlinkAsked, pending, tokens, connCancelled,
                   workerVars, sent, writerVars, verdict>>

\* Mutant of Unlink: it takes back every URB of the victim's endpoint.
UnlinkFlushesEndpoint(u) ==
    /\ loop = "header"
    /\ u < next /\ u \notin unlinkAsked /\ Cardinality(unlinkAsked) < MaxUnlinks
    /\ unlinkAsked' = unlinkAsked \cup {u}
    /\ loopUrb' = u
    /\ IF u \in pending
       THEN /\ loop' = "unlink_hit"
            /\ verdict' = [verdict EXCEPT ![u] = "unlinked"]
       ELSE /\ loop' = "unlink_miss"
            /\ verdict' = verdict
    /\ pending' = {v \in pending : epOf[v] # epOf[u]}
    /\ UNCHANGED <<next, epOf, tokens, connCancelled, workerVars, sent,
                   writerVars>>

\* CMD_UNLINK: take the victim out of `pending`, if it is there ...
Unlink(u) ==
    /\ loop = "header"
    /\ u < next /\ u \notin unlinkAsked /\ Cardinality(unlinkAsked) < MaxUnlinks
    /\ unlinkAsked' = unlinkAsked \cup {u}
    /\ loopUrb' = u
    /\ IF u \in pending
       THEN /\ loop' = "unlink_hit"
            /\ verdict' = [verdict EXCEPT ![u] = "unlinked"]
       ELSE /\ loop' = "unlink_miss"
            /\ verdict' = verdict
    /\ pending' = pending \ {u}
    /\ UNCHANGED <<next, epOf, tokens, connCancelled, workerVars, sent,
                   writerVars>>

\* ... then cancel its token and answer -ECONNRESET, or answer 0.
UnlinkReply ==
    /\ loop \in {"unlink_hit", "unlink_miss"}
    /\ tokens' = IF loop = "unlink_hit" THEN tokens \cup {loopUrb} ELSE tokens
    /\ Send(RetUnlink(loopUrb, loop = "unlink_hit"))
    /\ loop' = "header" /\ loopUrb' = NoUrb
    /\ UNCHANGED <<next, epOf, unlinkAsked, pending, connCancelled, workerVars,
                   writerVars, verdict>>

\* Mutant of Break: the break does not cancel conn_token.
BreakWithoutCancel ==
    /\ loop = "header"
    /\ loop' = "draining"
    /\ UNCHANGED <<loopUrb, next, epOf, unlinkAsked, pending, tokens,
                   connCancelled, workerVars, sent, writerVars, verdict>>

\* The loop breaks: cancel conn_token, drop the job senders and tx.
Break ==
    /\ loop = "header"
    /\ loop' = "draining"
    /\ connCancelled' = TRUE
    /\ UNCHANGED <<loopUrb, next, epOf, unlinkAsked, pending, tokens,
                   workerVars, sent, writerVars, verdict>>

\* Because the device rebooted, the host detached or sent an unknown command.
DeviceOrHostEnds == Break

\* Because the writer cancelled conn_token.
SeesConnCancelled == connCancelled /\ Break

\* The writer task has ended: urb_phase returns and the import is released.
Return ==
    /\ loop = "draining" /\ writer # "running"
    /\ loop' = "returned"
    /\ UNCHANGED <<loopUrb, next, epOf, unlinkAsked, pending, tokens,
                   connCancelled, workerVars, sent, writerVars, verdict>>

-----------------------------------------------------------------------------
(* The endpoint workers. *)

\* Mutant of Receive: the newest job first.
ReceiveNewest(e) ==
    /\ worker[e] = "recv" /\ queue[e] # << >>
    /\ LET u == queue[e][Len(queue[e])]
       IN /\ queue' = [queue EXCEPT ![e] = SubSeq(@, 1, Len(@) - 1)]
          /\ IF u \in pending
             THEN /\ worker' = [worker EXCEPT ![e] = "transfer"]
                  /\ job' = [job EXCEPT ![e] = u]
             ELSE UNCHANGED <<worker, job>>
    /\ UNCHANGED <<loopVars, pending, tokens, connCancelled, sent, writerVars,
                   verdict>>

\* Mutant of Receive: a queued job is started without a look at `pending`.
ReceiveUnchecked(e) ==
    /\ worker[e] = "recv" /\ queue[e] # << >>
    /\ queue' = [queue EXCEPT ![e] = Tail(@)]
    /\ worker' = [worker EXCEPT ![e] = "transfer"]
    /\ job' = [job EXCEPT ![e] = Head(queue[e])]
    /\ UNCHANGED <<loopVars, pending, tokens, connCancelled, sent, writerVars,
                   verdict>>

\* Take the next job; skip it when it was unlinked while it was queued.
Receive(e) ==
    /\ worker[e] = "recv" /\ queue[e] # << >>
    /\ queue' = [queue EXCEPT ![e] = Tail(@)]
    /\ IF Head(queue[e]) \in pending
       THEN /\ worker' = [worker EXCEPT ![e] = "transfer"]
            /\ job' = [job EXCEPT ![e] = Head(queue[e])]
       ELSE UNCHANGED <<worker, job>>
    /\ UNCHANGED <<loopVars, pending, tokens, connCancelled, sent, writerVars,
                   verdict>>

\* recv returns None: the loop has dropped the sender and the queue is empty.
QueueClosed(e) ==
    /\ worker[e] = "recv" /\ queue[e] = << >> /\ loop \notin Running
    /\ worker' = [worker EXCEPT ![e] = "exited"]
    /\ UNCHANGED <<loopVars, pending, tokens, connCancelled, queue, job, sent,
                   writerVars, verdict>>

\* select!: the persona finished the transfer.
TransferDone(e) ==
    /\ worker[e] = "transfer"
    /\ worker' = [worker EXCEPT ![e] = "claim"]
    /\ UNCHANGED <<loopVars, pending, tokens, connCancelled, queue, job, sent,
                   writerVars, verdict>>

\* Mutant of Claim: a finished transfer replies, still pending or not.
ClaimAlways(e) ==
    /\ worker[e] = "claim"
    /\ pending' = pending \ {job[e]}
    /\ worker' = [worker EXCEPT ![e] = "reply"]
    /\ verdict' = [verdict EXCEPT ![job[e]] = "completed"]
    /\ UNCHANGED <<loopVars, tokens, connCancelled, queue, job, sent, writerVars>>

\* Whoever removes the seqnum from the map replies.
Claim(e) ==
    /\ worker[e] = "claim"
    /\ pending' = pending \ {job[e]}
    /\ IF job[e] \in pending
       THEN /\ worker' = [worker EXCEPT ![e] = "reply"]
            /\ verdict' = [verdict EXCEPT ![job[e]] = "completed"]
            /\ job' = job
       ELSE /\ worker' = [worker EXCEPT ![e] = "recv"]
            /\ verdict' = verdict
            /\ job' = [job EXCEPT ![e] = NoUrb]
    /\ UNCHANGED <<loopVars, tokens, connCancelled, queue, sent, writerVars>>

Reply(e) ==
    /\ worker[e] = "reply"
    /\ Send(RetSubmit(job[e]))
    /\ worker' = [worker EXCEPT ![e] = "recv"]
    /\ job' = [job EXCEPT ![e] = NoUrb]
    /\ UNCHANGED <<loopVars, pending, tokens, connCancelled, queue, writerVars,
                   verdict>>

\* Mutant of TokenCancelled: `break` for `continue`, the worker ends.
TokenCancelledBreaks(e) ==
    /\ worker[e] = "transfer" /\ job[e] \in tokens
    /\ worker' = [worker EXCEPT ![e] = "exited"]
    /\ job' = [job EXCEPT ![e] = NoUrb]
    /\ queue' = [queue EXCEPT ![e] = << >>]
    /\ UNCHANGED <<loopVars, pending, tokens, connCancelled, sent, writerVars,
                   verdict>>

\* select!: this URB's token was cancelled; the transfer is dropped.
TokenCancelled(e) ==
    /\ worker[e] = "transfer" /\ job[e] \in tokens
    /\ worker' = [worker EXCEPT ![e] = "recv"]
    /\ job' = [job EXCEPT ![e] = NoUrb]
    /\ UNCHANGED <<loopVars, pending, tokens, connCancelled, queue, sent,
                   writerVars, verdict>>

\* select!: conn_token was cancelled; the worker ends and its queue with it.
ConnCancelled(e) ==
    /\ worker[e] = "transfer" /\ connCancelled
    /\ worker' = [worker EXCEPT ![e] = "exited"]
    /\ job' = [job EXCEPT ![e] = NoUrb]
    /\ queue' = [queue EXCEPT ![e] = << >>]
    /\ UNCHANGED <<loopVars, pending, tokens, connCancelled, sent, writerVars,
                   verdict>>

-----------------------------------------------------------------------------
(* The writer task. *)

\* Mutant of WriteOne: the position runs past the queue.
WriteTwo ==
    /\ writer = "running" /\ written < Len(sent)
    /\ written' = written + 2
    /\ UNCHANGED <<loopVars, pending, tokens, connCancelled, workerVars, sent,
                   writer, verdict>>

WriteOne ==
    /\ writer = "running" /\ written < Len(sent)
    /\ written' = written + 1
    /\ UNCHANGED <<loopVars, pending, tokens, connCancelled, workerVars, sent,
                   writer, verdict>>

\* write_all fails: cancel conn_token and stop; later packets are dropped.
WriteFails ==
    /\ writer = "running" /\ written < Len(sent)
    /\ writer' = "failed"
    /\ connCancelled' = TRUE
    /\ UNCHANGED <<loopVars, pending, tokens, workerVars, sent, written,
                   verdict>>

\* Mutant of WriterDrained: the writer does not wait for the workers.
WriterDrainedEarly ==
    /\ writer = "running" /\ written = Len(sent)
    /\ loop \notin Running
    /\ writer' = "done"
    /\ UNCHANGED <<loopVars, pending, tokens, connCancelled, workerVars, sent,
                   written, verdict>>

\* rx.recv returns None: the loop and every worker have dropped their sender.
WriterDrained ==
    /\ writer = "running" /\ written = Len(sent)
    /\ loop \notin Running
    /\ \A e \in Eps : worker[e] \in {"none", "exited"}
    /\ writer' = "done"
    /\ UNCHANGED <<loopVars, pending, tokens, connCancelled, workerVars, sent,
                   written, verdict>>

-----------------------------------------------------------------------------
(* Nothing is left to do: urb_phase has returned and its tasks have ended. *)
Finished ==
    /\ loop \in {"returned", "abandoned"}
    /\ writer # "running"
    /\ \A e \in Eps : worker[e] \in {"none", "exited"}
    /\ UNCHANGED vars

LoopStep ==
    \/ SubmitControl
    \/ \E e \in InEps : SubmitIn(e)
    \/ \E e \in OutEps : SubmitOutHeader(e)
    \/ OutPayload
    \/ OutPayloadEof
    \/ \E u \in Urbs : Unlink(u)
    \/ UnlinkReply
    \/ DeviceOrHostEnds
    \/ SeesConnCancelled
    \/ Return

WorkerStep(e) ==
    \/ Receive(e)
    \/ QueueClosed(e)
    \/ Claim(e)
    \/ Reply(e)
    \/ TokenCancelled(e)
    \/ ConnCancelled(e)

WriterStep == WriteOne \/ WriteFails \/ WriterDrained

Next ==
    \/ LoopStep
    \/ \E e \in Eps : WorkerStep(e) \/ TransferDone(e)
    \/ WriterStep
    \/ Finished

\* A runnable task is polled again.  A transfer finishes only on the ready
\* endpoints; the host need not send, detach or unlink anything, but finishes
\* a payload it has begun or loses the connection.
Fairness ==
    /\ WF_vars(UnlinkReply)
    /\ WF_vars(OutPayload \/ OutPayloadEof)
    /\ WF_vars(SeesConnCancelled)
    /\ WF_vars(Return)
    /\ \A e \in Eps : WF_vars(WorkerStep(e))
    /\ \A e \in ReadyEps : WF_vars(TransferDone(e))
    /\ WF_vars(WriterStep)

Spec == Init /\ [][Next]_vars /\ Fairness

-----------------------------------------------------------------------------
(* Properties. *)

TypeOK ==
    /\ loop \in LoopStates
    /\ loopUrb \in Urbs \cup {NoUrb}
    /\ next \in 1..(MaxSeq + 1)
    /\ epOf \in [Urbs -> Eps \cup {NoEp}]
    /\ unlinkAsked \subseteq Urbs
    /\ pending \subseteq Urbs
    /\ tokens \subseteq Urbs
    /\ connCancelled \in BOOLEAN
    /\ queue \in [Eps -> Seq(Urbs)]
    /\ worker \in [Eps -> WorkerStates]
    /\ job \in [Eps -> Urbs \cup {NoUrb}]
    /\ sent \in Seq(Packets)
    /\ written \in 0..Len(sent)
    /\ writer \in {"running", "failed", "done"}
    /\ verdict \in [Urbs -> {"none", "completed", "unlinked"}]

\* A packet that settles its URB: after RET_UNLINK 0 the host still relies on
\* the RET_SUBMIT.
Settles(pkt) == pkt.ret \in {"submit", "unlinked"}

\* "Whoever removes the seqnum from the map replies": completion and unlink race,
\* and each URB is settled at most once, by one RET_SUBMIT or by one RET_UNLINK
\* -ECONNRESET, whichever way the two tasks interleave.
OneVerdict ==
    \A i, j \in 1..Len(sent) :
        /\ Settles(sent[i]) /\ Settles(sent[j])
        /\ sent[i].urb = sent[j].urb
        => i = j

\* "Completions keep submission order per endpoint": two RET_SUBMITs of one
\* endpoint leave in the order of their CMD_SUBMITs.
EndpointOrder ==
    \A i, j \in 1..Len(sent) :
        /\ sent[i].ret = "submit" /\ sent[j].ret = "submit"
        /\ epOf[sent[i].urb] = epOf[sent[j].urb]
        /\ i < j
        => sent[i].urb < sent[j].urb

\* Until the connection is cancelled, every URB in `pending` is in the hands of
\* its endpoint's worker or in that worker's queue: no URB is left with nobody
\* who would answer it.
NoUrbStranded ==
    \A u \in pending :
        \/ connCancelled
        \/ \E i \in 1..Len(queue[epOf[u]]) : queue[epOf[u]][i] = u
        \/ worker[epOf[u]] \in {"transfer", "claim"} /\ job[epOf[u]] = u

\* A clean end (the writer drained its channel) loses no answer: every URB that
\* was taken out of `pending` has its packet on the socket, and no worker is
\* left that could touch the persona after the import is released.
CleanReturn ==
    loop = "returned" /\ writer = "done" =>
        /\ \A e \in Eps : worker[e] \in {"none", "exited"}
        /\ \A u \in Urbs : verdict[u] # "none" =>
              \E i \in 1..written : Settles(sent[i]) /\ sent[i].urb = u

\* An URB that was unlinked while it waited behind others is never started:
\* the persona sees no transfer the host has taken back beforehand.
NeverStartsUnlinked ==
    [][\A e \in Eps : job'[e] # job[e] /\ job'[e] # NoUrb
            => verdict[job'[e]] = "none"]_vars

OnTheWire(u) == \E i \in 1..written : Settles(sent[i]) /\ sent[i].urb = u

\* Every URB handed to a worker of an endpoint whose transfers finish is
\* answered on the socket, unless the connection ends.
Answered ==
    \A u \in Urbs :
        u \in pending /\ epOf[u] \in ReadyEps
            ~> OnTheWire(u) \/ connCancelled \/ loop \notin Running

\* When the loop breaks, the writer waits for the workers, they wait for
\* conn_token, and urb_phase returns: the import is released and every worker
\* ends, the ones blocked in a transfer that never finishes included.
Detaches ==
    loop = "draining"
        ~> loop = "returned" /\ \A e \in Eps : worker[e] \in {"none", "exited"}

\* What UsbBackend::in_transfer says of the transport: it cancels a blocked
\* transfer on disconnect.
DisconnectCancels ==
    loop \in {"returned", "abandoned"}
        ~> \A e \in Eps : worker[e] # "transfer"

-----------------------------------------------------------------------------
(* The connection implements the service UrbService describes. *)

Status == [u \in Urbs |-> IF u \in pending THEN "waiting"
                          ELSE IF verdict[u] = "none" THEN "new"
                          ELSE verdict[u]]

\* The URBs an endpoint still owes the host an answer for.
Waiting == [e \in Eps |-> {u \in pending :
    u = job[e] \/ \E i \in DOMAIN queue[e] : queue[e][i] = u}]

Service == INSTANCE UrbService WITH
    status <- Status, waiting <- Waiting, open <- ~connCancelled

\* Every step of the tasks is a step of the service or leaves it unchanged: an
\* URB completes only when it is the oldest one its endpoint owes, an unlink
\* takes back one URB and disturbs no other, and nothing is dropped while the
\* connection is open.
ImplementsService == Service!Spec
=============================================================================
