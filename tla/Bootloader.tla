----------------------------- MODULE Bootloader -----------------------------
(***************************************************************************)
(* The bootloader persona (vqa40x-core/src/bootloader.rs) and the tasks     *)
(* that call it at once:                                                   *)
(*                                                                         *)
(*   - the worker of the OUT endpoint, which sleeps the simulated flash     *)
(*     time before it hands a data report over;                            *)
(*   - the worker of the IN endpoint, which waits for a response;           *)
(*   - the URB loop, which serves SET_REPORT and GET_REPORT inline.         *)
(*                                                                         *)
(* They share `st` behind a mutex, so each critical section is one step,    *)
(* and the `in_notify` waiter.                                             *)
(*                                                                         *)
(* A host flashes file after file.  It cuts a file into reports of Chunk    *)
(* units; the last report carries what is left or is padded.  A single-path *)
(* host sends everything either to the OUT endpoint or by SET_REPORT (what  *)
(* hidapi does); a "mixed" host uses both and also sends beyond the end.    *)
(* A host that loses patience unlinks its outstanding reports, the last one *)
(* first, and sends no more of that file.                                  *)
(***************************************************************************)
EXTENDS Integers, Sequences, SequencesExt, FiniteSets

CONSTANTS
    Sizes,      \* sizes a ReceiveSbFile may announce, in units
    MaxSize,    \* the largest of them
    Chunk,      \* units a data report carries
    SigAt,      \* the unit of an SB2.1 image that holds "STMP" (0x14..0x17)
    Paced,      \* opts.flash_secs > 0
    MaxCommands,    \* bound: reports other than data the host sends
    MaxQueued       \* bound: reports it sends ahead of the OUT worker

ASSUME ConstantsAssumption ==
    /\ MaxSize \in Nat /\ Sizes \subseteq 0..MaxSize
    /\ Chunk \in Nat \ {0} /\ SigAt \in Nat \ {0}
    /\ Paced \in BOOLEAN
    /\ MaxCommands \in Nat /\ MaxQueued \in Nat

Files == 1..MaxCommands
NoFile == 0
MaxUnits == MaxSize + Chunk

VARIABLES
    phase,      \* st.phase
    transfer,   \* the file of the last ReceiveSbFile: `expected` is its size
    image,      \* Receiving: the units received
    paced,      \* st.per_report is not zero
    responses,  \* st.responses
    waiter,     \* the `notified` future of the IN transfer
    events,     \* what was sent to the simulator
    outQueue,   \* reports whose OUT URB the worker has not taken
    outWorker,  \* where out_transfer stands
    outReport,  \* its report
    inWorker,   \* where in_transfer stands
    inReport,   \* the response it popped
    path,       \* how the host sends reports
    file,       \* the file the host is flashing
    pos,        \* units of it the host has sent
    files,      \* size and validity of each file
    unlinked,   \* files a report of which was unlinked
    extra,      \* Reset, unknown and malformed reports sent
    verdicts,   \* history: the responses queued after a last byte
    heard,      \* history: files whose verdict the host has read
    lost        \* history: or lost, popped for an IN URB unlinked meanwhile

stVars   == <<phase, transfer, image, paced>>
reportVars == <<stVars, responses, waiter, events, verdicts>>
outVars  == <<outQueue, outWorker, outReport>>
inVars   == <<inWorker, inReport>>
hostVars == <<path, file, pos, files, unlinked, extra>>
vars == <<reportVars, outVars, inVars, hostVars, heard, lost>>

\* A unit of an image is named by its file and its place there.
Units == Files \X (1..MaxUnits)

\* OUT reports; `malformed` stands for all that handle_report ignores.
ReceiveSbFile(f) == [kind |-> "receive", file |-> f, from |-> 0, len |-> 0]
Data(f, from, n) == [kind |-> "data", file |-> f, from |-> from, len |-> n]
Plain(k)         == [kind |-> k, file |-> NoFile, from |-> 0, len |-> 0]
NoReport == Plain("none")
Plains  == {"reset", "unknown", "malformed"}
Reports == [kind : {"receive", "data", "none"} \cup Plains,
            file : Files \cup {NoFile}, from : 0..MaxUnits, len : 0..Chunk]

\* Responses.  `answers` says what a response is for: on the wire the first
\* answer to a ReceiveSbFile and the success after its last byte are equal.
Generic(s, a, f) == [status |-> s, answers |-> a, file |-> f]
NoResponse == Generic("none", "none", NoFile)
Responses == [status  : {"success", "signature", "unknown_command", "none"},
              answers : {"receive", "last_byte", "reset", "unknown", "none"},
              file    : Files \cup {NoFile}]
Decided(r) == IF r.answers = "last_byte" THEN {r.file} ELSE {}

FlashCompleted(img) == [event |-> "FlashCompleted", image |-> img]
BootloaderReset     == [event |-> "BootloaderReset", image |-> << >>]

Init ==
    /\ phase = "Idle" /\ transfer = NoFile /\ image = << >> /\ paced = FALSE
    /\ responses = << >> /\ waiter = "none" /\ events = << >>
    /\ outQueue = << >> /\ outWorker = "idle" /\ outReport = NoReport
    /\ inWorker = "idle" /\ inReport = NoResponse
    /\ path \in {"out", "control", "mixed"}
    /\ file = NoFile /\ pos = 0 /\ unlinked = {} /\ extra = 0
    /\ files = [f \in Files |-> [size |-> 0, good |-> FALSE]]
    /\ verdicts = << >> /\ heard = {} /\ lost = {}

-----------------------------------------------------------------------------
(* handle_report, under the mutex. *)

\* Mutant of QueueResponse: the IN transfer is not woken.
QueueResponseSilently(r) ==
    /\ responses' = Append(responses, r)
    /\ waiter' = waiter
    /\ verdicts' = IF r.answers = "last_byte" THEN Append(verdicts, r) ELSE verdicts

\* queue_response: push, and wake the IN transfer if its waiter is enabled.
QueueResponse(r) ==
    /\ responses' = Append(responses, r)
    /\ waiter' = IF waiter = "enabled" THEN "notified" ELSE waiter
    /\ verdicts' = IF r.answers = "last_byte" THEN Append(verdicts, r) ELSE verdicts

\* Mutant of HandleReceive: what is left of the last image is kept.
HandleReceiveKeepsImage(r) ==
    /\ r.kind = "receive"
    /\ phase' = "Receiving" /\ transfer' = r.file
    /\ paced' = Paced
    /\ QueueResponse(Generic("success", "receive", r.file))
    /\ UNCHANGED <<image, events>>

\* A new transfer starts from any phase.
HandleReceive(r) ==
    /\ r.kind = "receive"
    /\ phase' = "Receiving" /\ transfer' = r.file /\ image' = << >>
    /\ paced' = Paced
    /\ QueueResponse(Generic("success", "receive", r.file))
    /\ UNCHANGED events

HandleReset(r) ==
    /\ r.kind = "reset"
    /\ QueueResponse(Generic("success", "reset", NoFile))
    /\ events' = Append(events, BootloaderReset)
    /\ UNCHANGED stVars

HandleUnknown(r) ==
    /\ r.kind = "unknown"
    /\ QueueResponse(Generic("unknown_command", "unknown", NoFile))
    /\ UNCHANGED <<stVars, events>>

\* The image with the payload appended.
Extended(r) == image \o [i \in 1..r.len |-> <<r.file, r.from + i>>]

LooksSb2(img) ==
    /\ Len(img) >= SigAt
    /\ \E f \in Files : files[f].good /\ img[SigAt] = <<f, SigAt>>

\* Mutant of HandleData: the phase is not left after the last byte.
HandleDataStays(r) ==
    /\ r.kind = "data" /\ phase = "Receiving"
    /\ LET expected == files[transfer].size
           whole == SubSeq(Extended(r), 1, expected)
       IN IF Len(Extended(r)) < expected
          THEN /\ image' = Extended(r)
               /\ UNCHANGED <<responses, waiter, verdicts, events>>
          ELSE /\ image' = << >>
               /\ IF LooksSb2(whole)
                  THEN /\ QueueResponse(Generic("success", "last_byte", transfer))
                       /\ events' = Append(events, FlashCompleted(whole))
                  ELSE /\ QueueResponse(Generic("signature", "last_byte", transfer))
                       /\ UNCHANGED events
    /\ UNCHANGED <<phase, transfer, paced>>

\* Mutant of HandleData: the image is neither cut to its size nor taken.
HandleDataUncut(r) ==
    /\ r.kind = "data" /\ phase = "Receiving"
    /\ image' = Extended(r)
    /\ IF Len(image') < files[transfer].size
       THEN UNCHANGED <<phase, responses, waiter, verdicts, events>>
       ELSE IF LooksSb2(image')
       THEN /\ phase' = "Done"
            /\ QueueResponse(Generic("success", "last_byte", transfer))
            /\ events' = Append(events, FlashCompleted(image'))
       ELSE /\ phase' = "Idle"
            /\ QueueResponse(Generic("signature", "last_byte", transfer))
            /\ UNCHANGED events
    /\ UNCHANGED <<transfer, paced>>

\* A data report within a transfer; the last one decides its outcome.
HandleData(r) ==
    /\ r.kind = "data" /\ phase = "Receiving"
    /\ LET expected == files[transfer].size
           whole == SubSeq(Extended(r), 1, expected)
       IN IF Len(Extended(r)) < expected
          THEN /\ image' = Extended(r)
               /\ UNCHANGED <<phase, responses, waiter, verdicts, events>>
          ELSE /\ image' = << >>
               /\ IF LooksSb2(whole)
                  THEN /\ phase' = "Done"
                       /\ QueueResponse(Generic("success", "last_byte", transfer))
                       /\ events' = Append(events, FlashCompleted(whole))
                  ELSE /\ phase' = "Idle"
                       /\ QueueResponse(Generic("signature", "last_byte", transfer))
                       /\ UNCHANGED events
    /\ UNCHANGED <<transfer, paced>>

Ignored(r) ==
    /\ r.kind = "malformed" \/ (r.kind = "data" /\ phase # "Receiving")
    /\ UNCHANGED reportVars

HandleReport(r) ==
    \/ HandleReceive(r) \/ HandleReset(r) \/ HandleUnknown(r)
    \/ HandleData(r) \/ Ignored(r)

-----------------------------------------------------------------------------
(* The host sends a report: to the OUT endpoint, where it queues behind the
   others, or by SET_REPORT, handled before the URB loop goes on. *)

SendOut(r) ==
    /\ path \in {"out", "mixed"} /\ Len(outQueue) < MaxQueued
    /\ outQueue' = Append(outQueue, r)
    /\ UNCHANGED <<reportVars, outWorker, outReport>>

SetReport(r) ==
    /\ path \in {"control", "mixed"}
    /\ HandleReport(r)
    /\ UNCHANGED outVars

SendReport(r) == SendOut(r) \/ SetReport(r)

StartFile(n, good) ==
    /\ file + extra < MaxCommands /\ (good => n >= SigAt)
    /\ file' = file + 1 /\ pos' = 0
    /\ files' = [files EXCEPT ![file + 1] = [size |-> n, good |-> good]]
    /\ SendReport(ReceiveSbFile(file + 1))
    /\ UNCHANGED <<inVars, path, unlinked, extra, heard, lost>>

SendData(n) ==
    /\ file # NoFile /\ file \notin unlinked
    /\ pos < IF path = "mixed" THEN MaxSize ELSE files[file].size
    /\ n \in {Chunk, files[file].size - pos}
    /\ pos' = pos + n
    /\ SendReport(Data(file, pos, n))
    /\ UNCHANGED <<inVars, path, file, files, unlinked, extra, heard, lost>>

SendPlain(k) ==
    /\ file + extra < MaxCommands
    /\ extra' = extra + 1
    /\ SendReport(Plain(k))
    /\ UNCHANGED <<inVars, path, file, pos, files, unlinked, heard, lost>>

-----------------------------------------------------------------------------
(* out_transfer, run by the worker of the OUT endpoint. *)

\* Read per_report; a data report of a paced flash sleeps, without the mutex.
OutStart ==
    /\ outWorker = "idle" /\ outQueue # << >>
    /\ outReport' = Head(outQueue) /\ outQueue' = Tail(outQueue)
    /\ outWorker' = IF Head(outQueue).kind = "data" /\ paced THEN "sleeping"
                    ELSE "awake"
    /\ UNCHANGED <<reportVars, inVars, hostVars, heard, lost>>

OutSlept ==
    /\ outWorker = "sleeping"
    /\ outWorker' = "awake"
    /\ UNCHANGED <<reportVars, outQueue, outReport, inVars, hostVars, heard,
                   lost>>

OutHandle ==
    /\ outWorker = "awake"
    /\ HandleReport(outReport)
    /\ outWorker' = "idle" /\ outReport' = NoReport
    /\ UNCHANGED <<outQueue, inVars, hostVars, heard, lost>>

\* The host unlinks the report that is asleep: the transfer is dropped ...
OutUnlinked ==
    /\ outWorker = "sleeping" /\ outQueue = << >>
    /\ outWorker' = "idle" /\ outReport' = NoReport
    /\ unlinked' = unlinked \cup {outReport.file}
    /\ UNCHANGED <<reportVars, outQueue, inVars, path, file, pos, files, extra,
                   heard, lost>>

\* ... or one that the worker has not taken yet: it will be skipped.
QueuedUnlinked ==
    /\ outQueue # << >>
    /\ outQueue' = Front(outQueue)
    /\ unlinked' = unlinked \cup {Last(outQueue).file}
    /\ UNCHANGED <<reportVars, outWorker, outReport, inVars, path, file, pos,
                   files, extra, heard, lost>>

-----------------------------------------------------------------------------
(* in_transfer, run by the worker of the IN endpoint. *)

\* An IN URB: create and enable the waiter before looking.
InStart ==
    /\ inWorker = "idle"
    /\ inWorker' = "check" /\ waiter' = "enabled"
    /\ UNCHANGED <<stVars, responses, events, verdicts, inReport, outVars, hostVars,
                   heard, lost>>

InCheck ==
    /\ inWorker = "check"
    /\ IF responses # << >>
       THEN /\ inReport' = Head(responses) /\ responses' = Tail(responses)
            /\ inWorker' = "popped" /\ waiter' = "none"
       ELSE /\ inWorker' = "wait"
            /\ UNCHANGED <<inReport, responses, waiter>>
    /\ UNCHANGED <<stVars, events, verdicts, outVars, hostVars, heard, lost>>

\* The wait is over: loop, with a new waiter.
InWake ==
    /\ inWorker = "wait" /\ waiter = "notified"
    /\ inWorker' = "check" /\ waiter' = "enabled"
    /\ UNCHANGED <<stVars, responses, events, verdicts, inReport, outVars, hostVars,
                   heard, lost>>

InReply ==
    /\ inWorker = "popped"
    /\ heard' = heard \cup Decided(inReport)
    /\ inWorker' = "idle" /\ inReport' = NoResponse
    /\ UNCHANGED <<reportVars, outVars, hostVars, lost>>

\* The host unlinks the IN URB while it waits ...
InUnlinked ==
    /\ inWorker = "wait"
    /\ inWorker' = "idle" /\ waiter' = "none"
    /\ UNCHANGED <<stVars, responses, events, verdicts, inReport, outVars, hostVars,
                   heard, lost>>

\* ... or after the pop: the URB is not the worker's to answer any more, and the
\* response goes with it.
InUnlinkedLate ==
    /\ inWorker = "popped"
    /\ lost' = lost \cup Decided(inReport)
    /\ inWorker' = "idle" /\ inReport' = NoResponse
    /\ UNCHANGED <<reportVars, outVars, hostVars, heard>>

\* GET_REPORT: a response if there is one, else zeros.
GetReport ==
    /\ IF responses # << >>
       THEN /\ heard' = heard \cup Decided(Head(responses))
            /\ responses' = Tail(responses)
       ELSE UNCHANGED <<heard, responses>>
    /\ UNCHANGED <<stVars, waiter, events, verdicts, outVars, inVars, hostVars, lost>>

-----------------------------------------------------------------------------
Host ==
    \/ \E n \in Sizes, good \in BOOLEAN : StartFile(n, good)
    \/ \E n \in 1..Chunk : SendData(n)
    \/ \E k \in Plains : SendPlain(k)
    \/ OutUnlinked
    \/ QueuedUnlinked
    \/ InUnlinked
    \/ InUnlinkedLate
    \/ GetReport

OutStep == OutStart \/ OutSlept \/ OutHandle
InStep  == InCheck \/ InWake \/ InReply

Next == Host \/ OutStep \/ InStart \/ InStep

\* The workers go on, and the host keeps an IN URB outstanding; it need not
\* send, unlink or ask for anything else.
Fairness == WF_vars(OutStep) /\ WF_vars(InStart) /\ WF_vars(InStep)

Spec == Init /\ [][Next]_vars /\ Fairness

-----------------------------------------------------------------------------
(* Properties. *)

TypeOK ==
    /\ phase \in {"Idle", "Receiving", "Done"}
    /\ transfer \in Files \cup {NoFile}
    /\ image \in Seq(Units) /\ Len(image) <= MaxSize
    /\ paced \in BOOLEAN
    /\ responses \in Seq(Responses) /\ verdicts \in Seq(Responses)
    /\ waiter \in {"none", "enabled", "notified"}
    /\ \A i \in 1..Len(events) :
          /\ events[i].event \in {"FlashCompleted", "BootloaderReset"}
          /\ events[i].image \in Seq(Units)
    /\ outQueue \in Seq(Reports) /\ outReport \in Reports
    /\ outWorker \in {"idle", "sleeping", "awake"}
    /\ inWorker \in {"idle", "check", "wait", "popped"}
    /\ inReport \in Responses
    /\ path \in {"out", "control", "mixed"}
    /\ file \in 0..MaxCommands /\ pos \in 0..MaxUnits
    /\ files \in [Files -> [size : Sizes \cup {0}, good : BOOLEAN]]
    /\ unlinked \subseteq Files \cup {NoFile}
    /\ extra \in 0..MaxCommands
    /\ heard \subseteq Files /\ lost \subseteq Files

Successes == {i \in 1..Len(verdicts) : verdicts[i].status = "success"}
Flashes == {i \in 1..Len(events) : events[i].event = "FlashCompleted"}

\* A transfer is decided at most once, and the simulator is told of as many
\* flashes as were answered with success: data reports after the last byte, a
\* new transfer in the middle of another and reports by two paths at once
\* neither flash again nor answer again.
OneVerdict ==
    /\ \A i, j \in 1..Len(verdicts) :
          verdicts[i].file = verdicts[j].file => i = j
    /\ Cardinality(Flashes) = Cardinality(Successes)

\* What a single-path host flashes is one valid file, whole and in order: no
\* unit is missing, repeated or left over from a file given up before, even
\* when the host has unlinked reports that the pacing kept outstanding.
WholeImage ==
    path # "mixed" =>
        \A i \in Flashes :
            \E f \in Files :
                /\ files[f].good
                /\ events[i].image = [k \in 1..files[f].size |-> <<f, k>>]

\* The mutex and the waiter do not lose a response: a host that has sent a whole
\* file and taken nothing back reads the verdict, unless it starts another file
\* or unlinks the very IN URB that had the verdict.
HostLearnsOutcome ==
    \A f \in Files :
        /\ path # "mixed" /\ file = f /\ f \notin unlinked
        /\ files[f].size > 0 /\ pos >= files[f].size
        ~> \/ file # f \/ f \in unlinked
           \/ f \in heard \cup lost

\* Whatever the two workers, the URB loop and unlinks do to each other's reports,
\* the persona asks the simulator for what module Simulator has it ask: one flash
\* for a transfer that was begun and not decided before, and every Reset.
Persona == INSTANCE PersonaEvents WITH
    receiving <- phase = "Receiving",
    settled   <- phase = "Done",
    asked     <- [i \in DOMAIN events |-> events[i].event]
ImplementsPersona == Persona!Spec
=============================================================================
