----------------------------- MODULE RegisterBus -----------------------------
(***************************************************************************)
(* The register bus of the analyzer persona as successive connections use it *)
(* (vqa40x-core/src/analyzer.rs behind the workers of vqa40x-usbip/src/       *)
(* lib.rs).  A connection has a worker for EP1 OUT, which runs the frames of  *)
(* a write URB one by one, each under the persona's mutex, and a worker for  *)
(* EP1 IN, whose poll waits for the next reply.  The persona outlives the    *)
(* connections: registers, replies and the boot latch stay as they are when   *)
(* a client leaves, and so may the workers of a client that vanished inside  *)
(* a packet.                                                              *)
(*                                                                         *)
(* A reply carries the connection whose read it answers and the read's       *)
(* number there, which the code does not see.                               *)
(***************************************************************************)
EXTENDS RegisterFile, Sequences, SequencesExt, FiniteSets

CONSTANTS
    MaxConns,   \* bound: connections, one after the other, of any plan
    Plans       \* bounds: what the hosts may send, by behaviour

Conns == 1..MaxConns
Frames == [op : {"read", "write"}, reg : Registers, val : Nat]

\* A plan: how many hosts connect, the write URBs (sequences of frames) they
\* choose from, how many of them, of polls and of UNLINKs they send in all, and
\* how often a stop may grow old.
ASSUME BusAssumption ==
    /\ MaxConns \in Nat
    /\ \A p \in Plans :
         /\ \A u \in p.menu : u \in Seq(Frames) /\ u # << >>
         /\ p.conns \in 0..MaxConns /\ p.urbs \in Nat /\ p.polls \in Nat /\ p.unlinks \in Nat /\ p.settles \in Nat

VARIABLES
    plan,       \* what the hosts may send
    st,         \* AState, as far as registers reach it
    replies,    \* st.replies
    rebooting,  \* Analyzer.rebooting
    phase,      \* where each connection stands
    cancelled,  \* its conn_token is cancelled
    jobs,       \* write URBs of its EP1 OUT worker, the current one first
    next,       \* the frame of the current one to run; 1 before it starts
    polls,      \* polls queued for its EP1 IN worker
    worker,     \* where that worker stands
    woken,      \* its `notified` future was notified since it was enabled
    unlinked,   \* the poll it works on has lost its URB to an UNLINK
    hand,       \* the reply it has popped
    sent,       \* history: what the hosts have sent, for the bounds
    reads,      \* history: reads run for each connection
    got,        \* history: replies handed to each client while connected
    found,      \* history: how each connection found the persona
    tidy,       \* history: it has unlinked nothing
    hist,       \* history: frames run
    fired       \* history: EnterBootloader events sent

connVars == <<phase, cancelled>>
outVars  == <<jobs, next>>
inVars   == <<polls, worker, woken, unlinked, hand>>
fileVars == <<st, rebooting, hist, fired>>
histVars == <<sent, reads, got, found, tidy>>
vars == <<plan, connVars, outVars, inVars, fileVars, replies, histVars>>

NoReply == [conn |-> 0, n |-> 0, val |-> 0]
Settle  == [op |-> "settle", reg |-> "STREAM_CTRL", val |-> 0]

\* The workers of a connection have nothing left to do.
Quiet(c) == jobs[c] = << >> /\ polls[c] = 0 /\ worker[c] = "idle"

Init ==
    /\ plan \in Plans
    /\ st = PoweredUp /\ replies = << >> /\ rebooting = FALSE
    /\ phase = [c \in Conns |-> "new"] /\ cancelled = [c \in Conns |-> FALSE]
    /\ jobs = [c \in Conns |-> << >>] /\ next = [c \in Conns |-> 1]
    /\ polls = [c \in Conns |-> 0] /\ worker = [c \in Conns |-> "idle"]
    /\ woken = [c \in Conns |-> FALSE] /\ unlinked = [c \in Conns |-> FALSE]
    /\ hand = [c \in Conns |-> NoReply]
    /\ sent = [urbs |-> 0, polls |-> 0, unlinks |-> 0, settles |-> 0]
    /\ reads = [c \in Conns |-> 0] /\ got = [c \in Conns |-> << >>]
    /\ found = [c \in Conns |-> "nothing"] /\ tidy = [c \in Conns |-> TRUE]
    /\ hist = << >> /\ fired = 0

Count(what) == sent[what] < plan[what] /\ sent' = [sent EXCEPT ![what] = @ + 1]

-----------------------------------------------------------------------------
(* The connection: handle_connection and urb_phase. *)

\* One client at a time: the import of the last one was released.
Open(c) ==
    /\ phase[c] = "new" /\ c <= plan.conns /\ \A d \in 1..(c - 1) : phase[d] = "gone"
    /\ phase' = [phase EXCEPT ![c] = "open"]
    /\ found' = [found EXCEPT ![c] =
           IF \E d \in 1..(c - 1) : ~Quiet(d) THEN "workers"
           ELSE IF replies # << >> THEN "replies" ELSE "nothing"]
    /\ UNCHANGED <<plan, cancelled, outVars, inVars, fileVars, replies, sent, reads, got, tidy>>

SubmitOut(c, u) ==
    /\ phase[c] = "open" /\ Count("urbs")
    /\ jobs' = [jobs EXCEPT ![c] = Append(@, u)]
    /\ UNCHANGED <<plan, connVars, next, inVars, fileVars, replies, reads, got, found, tidy>>

SubmitPoll(c) ==
    /\ phase[c] = "open" /\ Count("polls")
    /\ polls' = [polls EXCEPT ![c] = @ + 1]
    /\ UNCHANGED <<plan, connVars, outVars, worker, woken, unlinked, hand, fileVars, replies, reads,
                   got, found, tidy>>

\* A write URB is unlinked before its worker reaches it; one that is running
\* runs to its end all the same.
UnlinkOut(c, i) ==
    /\ phase[c] = "open" /\ Count("unlinks")
    /\ i \in 1..Len(jobs[c]) /\ (i > 1 \/ next[c] = 1)
    /\ jobs' = [jobs EXCEPT ![c] = RemoveAt(@, i)]
    /\ tidy' = [tidy EXCEPT ![c] = FALSE]
    /\ UNCHANGED <<plan, connVars, next, inVars, fileVars, replies, reads, got, found>>

\* A poll is unlinked, in its queue or in its worker's hands.
UnlinkPoll(c) ==
    /\ phase[c] = "open" /\ Count("unlinks")
    /\ \/ /\ polls[c] > 0
          /\ polls' = [polls EXCEPT ![c] = @ - 1]
          /\ unlinked' = unlinked
       \/ /\ worker[c] # "idle" /\ ~unlinked[c]
          /\ unlinked' = [unlinked EXCEPT ![c] = TRUE]
          /\ polls' = polls
    /\ tidy' = [tidy EXCEPT ![c] = FALSE]
    /\ UNCHANGED <<plan, connVars, outVars, worker, woken, hand, fileVars, replies, reads, got,
                   found>>

\* The client detaches or the unit reboots: the workers are cancelled, and the
\* writer's end waits for theirs.
End(c) ==
    /\ phase[c] = "open"
    /\ phase' = [phase EXCEPT ![c] = "closing"]
    /\ cancelled' = [cancelled EXCEPT ![c] = TRUE]
    /\ UNCHANGED <<plan, outVars, inVars, fileVars, replies, histVars>>

Release(c) ==
    /\ phase[c] = "closing" /\ Quiet(c)
    /\ phase' = [phase EXCEPT ![c] = "gone"]
    /\ UNCHANGED <<plan, cancelled, outVars, inVars, fileVars, replies, histVars>>

\* The writer fails and is gone: nobody waits for the cancelled workers.
WriterFails(c) ==
    /\ phase[c] = "open"
    /\ phase' = [phase EXCEPT ![c] = "gone"]
    /\ cancelled' = [cancelled EXCEPT ![c] = TRUE]
    /\ UNCHANGED <<plan, outVars, inVars, fileVars, replies, histVars>>

\* The socket ends inside a payload: urb_phase returns by `?` and cancels
\* nothing.  The workers go through the jobs they have.
Vanish(c) ==
    /\ phase[c] = "open"
    /\ phase' = [phase EXCEPT ![c] = "gone"]
    /\ UNCHANGED <<plan, cancelled, outVars, inVars, fileVars, replies, histVars>>

-----------------------------------------------------------------------------
(* EP1 OUT: handle_frame, under the mutex. *)

\* Mutant of NotifyAll: waiters are registered by their await, not by `enable`.
NotifyAwaiting == woken' = [d \in Conns |-> woken[d] \/ worker[d] = "wait"]

\* reg_notify.notify_waiters(): every enabled waiter, awaited or not.
NotifyAll == woken' = [d \in Conns |-> woken[d] \/ worker[d] \in {"look", "empty", "wait"}]

\* The next frame of the URB, or the next URB: out_transfer does not await.
Advance(c) ==
    IF next[c] < Len(Head(jobs[c]))
    THEN next' = [next EXCEPT ![c] = @ + 1] /\ jobs' = jobs
    ELSE next' = [next EXCEPT ![c] = 1] /\ jobs' = [jobs EXCEPT ![c] = Tail(@)]

\* Mutant of RunRead: the newest reply is served first.
RunReadFront(c) ==
    /\ jobs[c] # << >>
    /\ LET f == Head(jobs[c])[next[c]]
       IN  /\ f.op = "read"
           /\ replies' = <<[conn |-> c, n |-> reads[c] + 1, val |-> Reading(st, f.reg)]>>
                             \o replies
           /\ st' = AfterRead(st, f.reg)
           /\ hist' = Append(hist, f)
    /\ reads' = [reads EXCEPT ![c] = @ + 1]
    /\ NotifyAll /\ Advance(c)
    /\ UNCHANGED <<plan, connVars, polls, worker, unlinked, hand, rebooting, fired, sent,
                   got, found, tidy>>

RunRead(c) ==
    /\ jobs[c] # << >>
    /\ LET f == Head(jobs[c])[next[c]]
       IN  /\ f.op = "read"
           /\ replies' = Append(replies,
                  [conn |-> c, n |-> reads[c] + 1, val |-> Reading(st, f.reg)])
           /\ st' = AfterRead(st, f.reg)
           /\ hist' = Append(hist, f)
    /\ reads' = [reads EXCEPT ![c] = @ + 1]
    /\ NotifyAll /\ Advance(c)
    /\ UNCHANGED <<plan, connVars, polls, worker, unlinked, hand, rebooting, fired, sent,
                   got, found, tidy>>

RunWrite(c) ==
    /\ jobs[c] # << >>
    /\ LET f == Head(jobs[c])[next[c]]
       IN  /\ f.op = "write"
           /\ st' = AfterWrite(st, f.reg, f.val)
           /\ rebooting' = (rebooting \/ Unlocks(st, f.reg, f.val))
           /\ fired' = fired + (IF Unlocks(st, f.reg, f.val) /\ ~rebooting THEN 1 ELSE 0)
           /\ hist' = Append(hist, f)
    /\ Advance(c)
    /\ UNCHANGED <<plan, connVars, inVars, replies, histVars>>

\* The worker looks at its tokens before an URB and finds conn_token cancelled.
OutBreaks(c) ==
    /\ cancelled[c] /\ jobs[c] # << >> /\ next[c] = 1
    /\ jobs' = [jobs EXCEPT ![c] = << >>]
    /\ UNCHANGED <<plan, connVars, next, inVars, fileVars, replies, histVars>>

\* Half a second has passed since STREAM_CTRL was last written 0.
StopGrowsOld ==
    /\ st.stopped /\ Count("settles")
    /\ st' = Settled(st) /\ hist' = Append(hist, Settle)
    /\ UNCHANGED <<plan, connVars, outVars, inVars, rebooting, fired, replies, reads, got,
                   found, tidy>>

-----------------------------------------------------------------------------
(* EP1 IN: in_transfer and spawn_in_worker. *)

\* The waiter and the token of a poll are gone with it.
Forget(c) ==
    /\ woken' = [woken EXCEPT ![c] = FALSE]
    /\ unlinked' = [unlinked EXCEPT ![c] = FALSE]

\* The next poll: its waiter is enabled before the queue is looked at.
PollStarts(c) ==
    /\ worker[c] = "idle" /\ polls[c] > 0
    /\ polls' = [polls EXCEPT ![c] = @ - 1]
    /\ worker' = [worker EXCEPT ![c] = "look"]
    /\ UNCHANGED <<plan, connVars, outVars, woken, unlinked, hand, fileVars, replies, histVars>>

\* Mutant of PollLooks: the reply stays in the queue until it is claimed.
PollPeeks(c) ==
    /\ worker[c] = "look"
    /\ IF replies = << >>
       THEN worker' = [worker EXCEPT ![c] = "empty"] /\ hand' = hand
       ELSE /\ worker' = [worker EXCEPT ![c] = "claim"]
            /\ hand' = [hand EXCEPT ![c] = Head(replies)]
    /\ UNCHANGED <<plan, connVars, outVars, polls, woken, unlinked, fileVars, replies, histVars>>

PollLooks(c) ==
    /\ worker[c] = "look"
    /\ IF replies = << >>
       THEN worker' = [worker EXCEPT ![c] = "empty"] /\ UNCHANGED <<replies, hand>>
       ELSE /\ worker' = [worker EXCEPT ![c] = "claim"]
            /\ hand' = [hand EXCEPT ![c] = Head(replies)] /\ replies' = Tail(replies)
    /\ UNCHANGED <<plan, connVars, outVars, polls, woken, unlinked, fileVars, histVars>>

\* The lock is released; only now does the transfer await its waiter.
PollAwaits(c) ==
    /\ worker[c] = "empty"
    /\ worker' = [worker EXCEPT ![c] = "wait"]
    /\ UNCHANGED <<plan, connVars, outVars, polls, woken, unlinked, hand, fileVars, replies,
                   histVars>>

\* Notified: enable a new waiter and look again.
PollWakes(c) ==
    /\ worker[c] = "wait" /\ woken[c]
    /\ worker' = [worker EXCEPT ![c] = "look"]
    /\ woken' = [woken EXCEPT ![c] = FALSE]
    /\ UNCHANGED <<plan, connVars, outVars, polls, unlinked, hand, fileVars, replies, histVars>>

\* The poll is cancelled where it could have waited; conn_token ends the worker.
PollCancelled(c) ==
    /\ worker[c] \in {"look", "wait"} /\ (unlinked[c] \/ cancelled[c])
    /\ worker' = [worker EXCEPT ![c] = "idle"]
    /\ \/ unlinked[c] /\ polls' = polls
       \/ cancelled[c] /\ polls' = [polls EXCEPT ![c] = 0]
    /\ Forget(c)
    /\ UNCHANGED <<plan, connVars, outVars, hand, fileVars, replies, histVars>>

\* The reply goes out if UNLINK has not taken the URB, and is lost otherwise.
PollClaims(c) ==
    /\ worker[c] = "claim"
    /\ worker' = [worker EXCEPT ![c] = "idle"]
    /\ hand' = [hand EXCEPT ![c] = NoReply]
    /\ got' = [got EXCEPT ![c] = IF phase[c] = "open" /\ ~unlinked[c]
                                 THEN Append(@, hand[c]) ELSE @]
    /\ Forget(c)
    /\ UNCHANGED <<plan, connVars, outVars, polls, fileVars, replies, sent, reads, found,
                   tidy>>

-----------------------------------------------------------------------------
Host(c) ==
    \/ Open(c)
    \/ \E u \in plan.menu : SubmitOut(c, u)
    \/ SubmitPoll(c)
    \/ \E i \in 1..plan.urbs : UnlinkOut(c, i)
    \/ UnlinkPoll(c)
    \/ End(c) \/ WriterFails(c) \/ Vanish(c)

OutWorker(c) == RunRead(c) \/ RunWrite(c) \/ OutBreaks(c)
InWorker(c) ==
    \/ PollStarts(c) \/ PollLooks(c) \/ PollAwaits(c) \/ PollWakes(c)
    \/ PollCancelled(c) \/ PollClaims(c)

Next ==
    \/ StopGrowsOld
    \/ \E c \in Conns : Host(c) \/ Release(c) \/ OutWorker(c) \/ InWorker(c)

\* The tasks of the runtime run on; what clients do is theirs to choose.
Fairness == \A c \in Conns : WF_vars(OutWorker(c)) /\ WF_vars(InWorker(c)) /\ WF_vars(Release(c))

Spec == Init /\ [][Next]_vars /\ Fairness

-----------------------------------------------------------------------------
(* Properties. *)

Replies == [conn : Conns, n : Nat, val : Nat]

TypeOK ==
    /\ st \in [plain : [Plain -> Nat], inputGain : 0..7, outputGain : 0..3, rate : 0..MaxRate,
               streaming : BOOLEAN, i2s : BOOLEAN, page : Nat, ptr : Nat, stage : {0, 1},
               stopped : BOOLEAN]
    /\ replies \in Seq(Replies) /\ rebooting \in BOOLEAN
    /\ phase \in [Conns -> {"new", "open", "closing", "gone"}]
    /\ cancelled \in [Conns -> BOOLEAN]
    /\ plan \in Plans /\ jobs \in [Conns -> Seq(plan.menu)]
    /\ next \in [Conns -> Nat \ {0}]
    /\ \A c \in Conns : jobs[c] # << >> => next[c] \in 1..Len(Head(jobs[c]))
    /\ polls \in [Conns -> Nat]
    /\ worker \in [Conns -> {"idle", "look", "empty", "wait", "claim"}]
    /\ woken \in [Conns -> BOOLEAN] /\ unlinked \in [Conns -> BOOLEAN]
    /\ hand \in [Conns -> Replies \cup {NoReply}]
    /\ sent \in [{"urbs", "polls", "unlinks", "settles"} -> Nat]
    /\ reads \in [Conns -> Nat] /\ got \in [Conns -> Seq(Replies)]
    /\ found \in [Conns -> {"workers", "replies", "nothing"}] /\ tidy \in [Conns -> BOOLEAN]
    /\ hist \in Seq([op : {"read", "write", "settle"}, reg : Registers, val : Nat])
    /\ fired \in Nat

\* Whichever workers run which frames, a reply holds what the writes before its
\* read say, replies leave in the order of their reads, and the unit is told to
\* reboot once, by the two magics in a row (RegisterPort).
values == [i \in DOMAIN replies |-> replies[i].val]
Port == INSTANCE RegisterPort WITH box <- values
ImplementsPort == Port!Spec

\* Replies outlive the connection that asked for them.  A client that finds no
\* worker of an earlier one at work reads what earlier clients left behind before
\* any answer of its own, so draining EP1 IN first is enough to tell them apart.
StaleFirst ==
    \A c \in Conns : found[c] # "workers" =>
        \A i, j \in DOMAIN got[c] : i < j /\ got[c][i].conn = c => got[c][j].conn = c

\* A client that finds the persona idle and unlinks nothing reads its own
\* answers only, all of them, in the order of its requests.
CleanSession ==
    \A c \in Conns : found[c] = "nothing" /\ tidy[c] /\ phase[c] = "open" =>
        \A i \in DOMAIN got[c] : got[c][i].conn = c /\ got[c][i].n = i

\* A reply waiting in the queue while a poll waits for one: somebody takes it.
PollServed ==
    \A c \in Conns :
        worker[c] = "wait" /\ replies # << >> ~> worker[c] # "wait" \/ replies = << >>
=============================================================================
