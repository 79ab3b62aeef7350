-------------------------- MODULE BootloaderProofs --------------------------
(***************************************************************************)
(* Theorems about Bootloader, for any sizes of files and reports and any      *)
(* number of commands.                                                     *)
(***************************************************************************)
EXTENDS Bootloader, SequenceTheorems, FiniteSetTheorems, TLAPS

-----------------------------------------------------------------------------
(* The requests made of the simulator. *)

\* `events` is a sequence, whatever its images hold.
EventsInv == \E S : events \in Seq(S)

\* What the simulator sees of it.
Asked == [i \in DOMAIN events |-> events[i].event]

\* A new request comes after those already made.
LEMMA AskedGrows ==
    ASSUME EventsInv, NEW e, events' = Append(events, e)
    PROVE  EventsInv' /\ Asked' = Append(Asked, e.event)
<1>1. PICK S : events \in Seq(S)
  BY DEF EventsInv
<1>2. events \in Seq(S \cup {e})
  BY <1>1
<1>3. /\ events' \in Seq(S \cup {e}) /\ Len(events') = Len(events) + 1 /\ Len(events) \in Nat
      /\ \A i \in 1..Len(events) : events'[i] = events[i]
      /\ events'[Len(events) + 1] = e
  BY <1>2, AppendProperties, LenProperties
<1>4. /\ DOMAIN events = 1..Len(events)
      /\ DOMAIN events' = 1..(Len(events) + 1)
  BY <1>2, <1>3, LenProperties
<1> DEFINE A == [i \in 1..Len(events) |-> events[i].event]
           T == {events[i].event : i \in 1..Len(events)} \cup {e.event}
<1>5. Asked = A
  BY <1>4 DEF Asked
<1>6. A \in Seq(T) /\ Len(A) = Len(events)
  BY <1>3, LenProperties
<1>7. /\ Append(A, e.event) \in Seq(T) /\ Len(Append(A, e.event)) = Len(events) + 1
      /\ \A i \in 1..Len(events) : Append(A, e.event)[i] = A[i]
      /\ Append(A, e.event)[Len(events) + 1] = e.event
  BY <1>6, AppendProperties
<1>8. Asked' = [i \in 1..(Len(events) + 1) |-> events'[i].event]
  BY <1>4 DEF Asked
<1>9. /\ DOMAIN Append(A, e.event) = 1..(Len(events) + 1)
      /\ Append(A, e.event) = [i \in DOMAIN Append(A, e.event) |-> Append(A, e.event)[i]]
  BY <1>7, LenProperties
<1>10. \A i \in 1..(Len(events) + 1) : i \in 1..Len(events) \/ i = Len(events) + 1
  BY <1>3
<1>11. \A i \in 1..(Len(events) + 1) : events'[i].event = Append(A, e.event)[i]
  BY <1>3, <1>7, <1>10
<1>12. Asked' = Append(A, e.event)
  BY <1>8, <1>9, <1>11
<1> QED BY <1>3, <1>5, <1>12 DEF EventsInv

\* Handling a report is a step of PersonaEvents, or none.
LEMMA HandleReportImplements ==
    ASSUME EventsInv, NEW r, HandleReport(r)
    PROVE  /\ EventsInv'
           /\ Persona!Next \/ UNCHANGED <<phase = "Receiving", phase = "Done", Asked>>
<1> USE DEF Persona!Next, Persona!ReceiveSbFile, Persona!ImageComplete, Persona!ImageRejected,
            Persona!ResetCommand
<1>1. CASE HandleReceive(r)
  BY <1>1 DEF HandleReceive, EventsInv
<1>2. CASE HandleReset(r)
  <2>1. EventsInv' /\ Asked' = Append(Asked, "BootloaderReset") /\ phase' = phase
    BY <1>2, AskedGrows DEF HandleReset, BootloaderReset, stVars
  <2> QED BY <2>1 DEF Asked
<1>3. CASE HandleUnknown(r)
  BY <1>3 DEF HandleUnknown, stVars, EventsInv, Asked
<1>4. CASE HandleData(r)
  <2> DEFINE whole == SubSeq(Extended(r), 1, files[transfer].size)
  <2>1. CASE phase' = phase /\ events' = events
    BY <2>1 DEF EventsInv, Asked
  <2>2. CASE phase' = "Idle" /\ events' = events
    BY <1>4, <2>2 DEF HandleData, EventsInv, Asked
  <2>3. CASE phase' = "Done" /\ events' = Append(events, FlashCompleted(whole))
    <3>1. EventsInv' /\ Asked' = Append(Asked, "FlashCompleted") /\ phase = "Receiving"
      BY <1>4, <2>3, AskedGrows DEF FlashCompleted, HandleData
    <3> QED BY <2>3, <3>1 DEF Asked
  <2> QED BY <1>4, <2>1, <2>2, <2>3 DEF HandleData
<1>5. CASE Ignored(r)
  BY <1>5 DEF Ignored, reportVars, stVars, EventsInv, Asked
<1> QED BY <1>1, <1>2, <1>3, <1>4, <1>5 DEF HandleReport

\* Every other step leaves what the simulator sees alone.
LEMMA StepImplements ==
    ASSUME EventsInv, [Next]_vars
    PROVE  /\ EventsInv'
           /\ Persona!Next \/ UNCHANGED <<phase = "Receiving", phase = "Done", Asked>>
<1>1. CASE phase' = phase /\ events' = events
  BY <1>1 DEF EventsInv, Asked
<1>2. ASSUME NEW r, HandleReport(r)
      PROVE  /\ EventsInv'
             /\ Persona!Next \/ UNCHANGED <<phase = "Receiving", phase = "Done", Asked>>
  BY <1>2, HandleReportImplements
<1>3. (phase' = phase /\ events' = events) \/ \E r : HandleReport(r)
  <2> USE DEF reportVars, stVars
  <2>1. ASSUME NEW n \in Sizes, NEW good \in BOOLEAN, StartFile(n, good)
        PROVE  (phase' = phase /\ events' = events) \/ \E r : HandleReport(r)
    BY <2>1 DEF StartFile, SendReport, SendOut, SetReport
  <2>2. ASSUME NEW n \in 1..Chunk, SendData(n)
        PROVE  (phase' = phase /\ events' = events) \/ \E r : HandleReport(r)
    BY <2>2 DEF SendData, SendReport, SendOut, SetReport
  <2>3. ASSUME NEW k \in Plains, SendPlain(k)
        PROVE  (phase' = phase /\ events' = events) \/ \E r : HandleReport(r)
    BY <2>3 DEF SendPlain, SendReport, SendOut, SetReport
  <2>4. CASE OutHandle
    BY <2>4 DEF OutHandle
  <2>5. CASE OutUnlinked \/ QueuedUnlinked \/ InUnlinked \/ InUnlinkedLate \/ GetReport
    BY <2>5 DEF OutUnlinked, QueuedUnlinked, InUnlinked, InUnlinkedLate, GetReport
  <2>6. CASE OutStart \/ OutSlept
    BY <2>6 DEF OutStart, OutSlept
  <2>7. CASE InStart \/ InStep
    BY <2>7 DEF InStart, InStep, InCheck, InWake, InReply
  <2>8. CASE UNCHANGED vars
    BY <2>8 DEF vars
  <2> QED BY <2>1, <2>2, <2>3, <2>4, <2>5, <2>6, <2>7, <2>8 DEF Next, Host, OutStep
<1> QED BY <1>1, <1>2, <1>3

\* Bootloader.ImplementsPersona holds: whatever workers, URB loop and unlinks do to
\* each other's reports, what the simulator is asked for is what PersonaEvents
\* allows.
THEOREM BootloaderImplementsPersona == Spec => ImplementsPersona
<1>1. Init => EventsInv /\ Persona!Init
  BY EmptySeq DEF Init, EventsInv, Persona!Init
<1>2. EventsInv /\ [Next]_vars =>
        EventsInv' /\ [Persona!Next]_<<phase = "Receiving", phase = "Done", Asked>>
  BY StepImplements
<1> QED BY <1>1, <1>2, PTL DEF Spec, ImplementsPersona, Persona!Spec, Asked

-----------------------------------------------------------------------------
(* Types. *)

\* Reports as hosts build them: a file where the code looks at it, and no unit
\* beyond the bound.
OkReports == {r \in Reports : /\ r.kind \in {"receive", "data"} => r.file \in Files
                              /\ r.from + r.len <= MaxUnits}
\* Responses, which name a file where a verdict is read off them.
OkResponses == {x \in Responses : x.answers = "last_byte" => x.file \in Files}
EventTypes == [event : {"FlashCompleted", "BootloaderReset"}, image : Seq(Units)]

\* TypeOK with what its parts need of one another.
ReportTypes ==
    /\ phase \in {"Idle", "Receiving", "Done"} /\ paced \in BOOLEAN
    /\ transfer \in Files \cup {NoFile}
    /\ phase = "Receiving" => transfer \in Files
    /\ image \in Seq(Units) /\ Len(image) <= MaxSize
    /\ responses \in Seq(OkResponses) /\ verdicts \in Seq(OkResponses)
    /\ waiter \in {"none", "enabled", "notified"}
    /\ events \in Seq(EventTypes)
WorkerTypes ==
    /\ outQueue \in Seq(OkReports) /\ outReport \in OkReports
    /\ outWorker \in {"idle", "sleeping", "awake"}
    /\ inWorker \in {"idle", "check", "wait", "popped"}
    /\ inReport \in OkResponses
HostTypes ==
    /\ path \in {"out", "control", "mixed"}
    /\ file \in 0..MaxCommands /\ pos \in 0..MaxUnits
    /\ files \in [Files -> [size : Sizes \cup {0}, good : BOOLEAN]]
    /\ unlinked \subseteq Files \cup {NoFile}
    /\ extra \in 0..MaxCommands
    /\ heard \subseteq Files /\ lost \subseteq Files
TypeInv == ReportTypes /\ WorkerTypes /\ HostTypes

\* The constants are numbers.
LEMMA BoundsAreNatural ==
    /\ MaxSize \in Nat /\ Chunk \in Nat \ {0} /\ MaxUnits \in Nat /\ MaxUnits = MaxSize + Chunk
    /\ MaxCommands \in Nat /\ Files = 1..MaxCommands
    /\ \A n \in Sizes : n \in 0..MaxSize
    /\ NoFile = 0 /\ NoFile \notin Files
BY ConstantsAssumption DEF ConstantsAssumption, MaxUnits, Files, NoFile

\* The reports and responses the program builds.
LEMMA ReportsBuilt ==
    /\ \A f \in Files : ReceiveSbFile(f) \in OkReports
    /\ \A k \in Plains : Plain(k) \in OkReports
    /\ NoReport \in OkReports
    /\ \A f \in Files, p \in 0..MaxUnits, n \in 0..Chunk :
         p + n <= MaxUnits => Data(f, p, n) \in OkReports
<1> USE BoundsAreNatural
<1>1. \A f \in Files : ReceiveSbFile(f) \in OkReports
  BY DEF ReceiveSbFile, OkReports, Reports
<1>2. \A k \in Plains : Plain(k) \in OkReports
  BY DEF Plain, OkReports, Reports, Plains
<1>3. NoReport \in OkReports
  BY DEF NoReport, Plain, OkReports, Reports, Plains
<1>4. \A f \in Files, p \in 0..MaxUnits, n \in 0..Chunk :
         p + n <= MaxUnits => Data(f, p, n) \in OkReports
  BY DEF Data, OkReports, Reports
<1> QED BY <1>1, <1>2, <1>3, <1>4

\* The responses the program builds have their type.
LEMMA ResponsesBuilt ==
    /\ \A f \in Files : /\ Generic("success", "receive", f) \in OkResponses
                         /\ Generic("success", "last_byte", f) \in OkResponses
                         /\ Generic("signature", "last_byte", f) \in OkResponses
    /\ Generic("success", "reset", NoFile) \in OkResponses
    /\ Generic("unknown_command", "unknown", NoFile) \in OkResponses
    /\ NoResponse \in OkResponses
    /\ \A x \in OkResponses : Decided(x) \subseteq Files
BY DEF Generic, OkResponses, Responses, NoResponse, Decided

\* A queued response keeps the types of both queues and the waiter.
LEMMA QueueResponseTypes ==
    ASSUME ReportTypes, NEW x \in OkResponses, QueueResponse(x)
    PROVE  /\ responses' \in Seq(OkResponses) /\ verdicts' \in Seq(OkResponses)
           /\ waiter' \in {"none", "enabled", "notified"}
<1>1. Append(responses, x) \in Seq(OkResponses) /\ Append(verdicts, x) \in Seq(OkResponses)
  BY AppendProperties DEF ReportTypes
<1> QED BY <1>1 DEF QueueResponse, ReportTypes

\* What a data report makes of the image.
LEMMA ExtendedTypes ==
    ASSUME ReportTypes, NEW r \in OkReports, r.kind = "data"
    PROVE  /\ Extended(r) \in Seq(Units) /\ Len(Extended(r)) \in Nat
           /\ \A n \in Nat : n <= Len(Extended(r)) => SubSeq(Extended(r), 1, n) \in Seq(Units)
<1>1. r.file \in Files /\ r.from \in Nat /\ r.len \in Nat /\ r.from + r.len <= MaxUnits
  BY BoundsAreNatural DEF OkReports, Reports
<1> DEFINE new == [i \in 1..r.len |-> <<r.file, r.from + i>>]
<1>2. \A i \in 1..r.len : r.from + i \in 1..MaxUnits
  BY <1>1, BoundsAreNatural
<1>3. \A i \in 1..r.len : <<r.file, r.from + i>> \in Units
  BY <1>1, <1>2 DEF Units
<1>4. new \in Seq(Units)
  BY <1>1, <1>3
<1>5. Extended(r) \in Seq(Units) /\ Len(Extended(r)) \in Nat
  BY <1>4, ConcatProperties, LenProperties DEF Extended, ReportTypes
<1>6. ASSUME NEW n \in Nat, n <= Len(Extended(r)) PROVE SubSeq(Extended(r), 1, n) \in Seq(Units)
  <2>1. \A i \in 1..n : Extended(r)[i] \in Units
    BY <1>5, <1>6, ElementOfSeq
  <2> QED BY <2>1, SubSeqProperties
<1> QED BY <1>5, <1>6

\* Handling a report keeps the types, one step per arm of handle_report.
LEMMA HandleReportTypes ==
    ASSUME TypeInv, files' \in [Files -> [size : Sizes \cup {0}, good : BOOLEAN]],
           NEW r \in OkReports, HandleReport(r)
    PROVE  ReportTypes'
<1> USE DEF TypeInv
<1>1. CASE HandleReceive(r)
  <2>1. r.file \in Files
    BY <1>1 DEF HandleReceive, OkReports
  <2>2. QueueResponse(Generic("success", "receive", r.file))
    BY <1>1 DEF HandleReceive
  <2>3. /\ responses' \in Seq(OkResponses) /\ verdicts' \in Seq(OkResponses)
        /\ waiter' \in {"none", "enabled", "notified"}
    BY <2>1, <2>2, ResponsesBuilt, QueueResponseTypes
  <2>4. paced' \in BOOLEAN
    BY <1>1, ConstantsAssumption DEF HandleReceive, ConstantsAssumption
  <2>5. image' \in Seq(Units) /\ Len(image') <= MaxSize
    BY <1>1, BoundsAreNatural, EmptySeq DEF HandleReceive
  <2> QED BY <1>1, <2>1, <2>3, <2>4, <2>5 DEF HandleReceive, ReportTypes
<1>2. CASE HandleReset(r)
  <2>1. /\ responses' \in Seq(OkResponses) /\ verdicts' \in Seq(OkResponses)
        /\ waiter' \in {"none", "enabled", "notified"}
    BY <1>2, ResponsesBuilt, QueueResponseTypes DEF HandleReset
  <2>2. BootloaderReset \in EventTypes
    BY EmptySeq DEF BootloaderReset, EventTypes
  <2>3. events' \in Seq(EventTypes)
    BY <1>2, <2>2, AppendProperties DEF HandleReset, ReportTypes
  <2> QED BY <1>2, <2>1, <2>3 DEF HandleReset, stVars, ReportTypes
<1>3. CASE HandleUnknown(r)
  <2>1. /\ responses' \in Seq(OkResponses) /\ verdicts' \in Seq(OkResponses)
        /\ waiter' \in {"none", "enabled", "notified"}
    BY <1>3, ResponsesBuilt, QueueResponseTypes DEF HandleUnknown
  <2> QED BY <1>3, <2>1 DEF HandleUnknown, stVars, ReportTypes
<1>4. CASE HandleData(r)
  <2> DEFINE expected == files[transfer].size
             whole == SubSeq(Extended(r), 1, expected)
  <2>1. transfer \in Files /\ expected \in Nat /\ expected <= MaxSize
    <3>1. transfer \in Files
      BY <1>4 DEF HandleData, ReportTypes
    <3>2. files[transfer] \in [size : Sizes \cup {0}, good : BOOLEAN]
      BY <3>1 DEF HostTypes
    <3>3. expected \in Sizes \cup {0}
      BY <3>2
    <3> QED BY <3>1, <3>3, BoundsAreNatural
  <2>2. /\ Extended(r) \in Seq(Units) /\ Len(Extended(r)) \in Nat
        /\ expected <= Len(Extended(r)) => whole \in Seq(Units)
    BY <1>4, <2>1, ExtendedTypes DEF HandleData
  <2>3. CASE Len(Extended(r)) < expected
    <3>1. image' = Extended(r) /\ UNCHANGED <<phase, transfer, paced, responses, waiter, verdicts, events>>
      BY <1>4, <2>3 DEF HandleData
    <3>2. image' \in Seq(Units) /\ Len(image') <= MaxSize
      BY <2>1, <2>2, <2>3, <3>1, BoundsAreNatural
    <3> QED BY <3>1, <3>2 DEF ReportTypes
  <2>4. CASE expected <= Len(Extended(r)) /\ LooksSb2(whole)
    <3>1. /\ phase' = "Done" /\ image' = << >> /\ transfer' = transfer /\ paced' = paced
          /\ QueueResponse(Generic("success", "last_byte", transfer))
          /\ events' = Append(events, FlashCompleted(whole))
      BY <1>4, <2>1, <2>2, <2>4 DEF HandleData
    <3>2. /\ responses' \in Seq(OkResponses) /\ verdicts' \in Seq(OkResponses)
          /\ waiter' \in {"none", "enabled", "notified"}
      BY <2>1, <3>1, ResponsesBuilt, QueueResponseTypes
    <3>3. FlashCompleted(whole) \in EventTypes
      BY <2>2, <2>4 DEF FlashCompleted, EventTypes
    <3>4. events' \in Seq(EventTypes)
      BY <3>1, <3>3, AppendProperties DEF ReportTypes
    <3>5. image' \in Seq(Units) /\ Len(image') <= MaxSize
      BY <3>1, BoundsAreNatural, EmptySeq
    <3> QED BY <3>1, <3>2, <3>4, <3>5 DEF ReportTypes
  <2>5. CASE expected <= Len(Extended(r)) /\ ~LooksSb2(whole)
    <3>1. /\ phase' = "Idle" /\ image' = << >> /\ transfer' = transfer /\ paced' = paced
          /\ QueueResponse(Generic("signature", "last_byte", transfer)) /\ events' = events
      BY <1>4, <2>1, <2>2, <2>5 DEF HandleData
    <3>2. /\ responses' \in Seq(OkResponses) /\ verdicts' \in Seq(OkResponses)
          /\ waiter' \in {"none", "enabled", "notified"}
      BY <2>1, <3>1, ResponsesBuilt, QueueResponseTypes
    <3>3. image' \in Seq(Units) /\ Len(image') <= MaxSize
      BY <3>1, BoundsAreNatural, EmptySeq
    <3> QED BY <3>1, <3>2, <3>3 DEF ReportTypes
  <2> QED BY <2>1, <2>2, <2>3, <2>4, <2>5
<1>5. CASE Ignored(r)
  BY <1>5 DEF Ignored, reportVars, stVars, ReportTypes
<1> QED BY <1>1, <1>2, <1>3, <1>4, <1>5 DEF HandleReport

\* Sending a report, by whichever path.
LEMMA SendReportTypes ==
    ASSUME TypeInv, files' \in [Files -> [size : Sizes \cup {0}, good : BOOLEAN]],
           NEW r \in OkReports, SendReport(r), UNCHANGED inVars
    PROVE  ReportTypes' /\ WorkerTypes'
<1>1. CASE SendOut(r)
  <2>1. outQueue' \in Seq(OkReports)
    BY <1>1, AppendProperties DEF SendOut, TypeInv, WorkerTypes
  <2>2. ReportTypes'
    BY <1>1 DEF SendOut, TypeInv, ReportTypes, reportVars, stVars
  <2> QED BY <1>1, <2>1, <2>2 DEF SendOut, TypeInv, WorkerTypes, inVars
<1>2. CASE SetReport(r)
  <2>1. ReportTypes'
    BY <1>2, HandleReportTypes DEF SetReport
  <2> QED BY <1>2, <2>1 DEF SetReport, TypeInv, WorkerTypes, outVars, inVars
<1> QED BY <1>1, <1>2 DEF SendReport

\* The initial state has the types.
LEMMA TypeInit == ASSUME Init PROVE TypeInv
<1>0. /\ << >> \in Seq(Units) /\ << >> \in Seq(OkResponses) /\ << >> \in Seq(EventTypes)
      /\ Len(<< >>) = 0 /\ 0 <= MaxSize
  BY BoundsAreNatural, EmptySeq
<1>1. ReportTypes
  BY <1>0 DEF Init, ReportTypes
<1>2. WorkerTypes
  BY ReportsBuilt, ResponsesBuilt, EmptySeq DEF Init, WorkerTypes
<1>3. HostTypes
  BY BoundsAreNatural DEF Init, HostTypes
<1> QED BY <1>1, <1>2, <1>3 DEF TypeInv

\* What a host sends has its type.
LEMMA HostSends ==
    ASSUME TypeInv,
           \/ \E n \in Sizes, good \in BOOLEAN : StartFile(n, good)
           \/ \E n \in 1..Chunk : SendData(n)
           \/ \E k \in Plains : SendPlain(k)
    PROVE  TypeInv'
<1>0. files \in [Files -> [size : Sizes \cup {0}, good : BOOLEAN]] /\ pos \in Nat
  BY DEF TypeInv, HostTypes
<1>1. ASSUME NEW n \in Sizes, NEW good \in BOOLEAN, StartFile(n, good) PROVE TypeInv'
  <2>1. file + 1 \in Files /\ file' = file + 1 /\ file' \in 0..MaxCommands
    BY <1>1, BoundsAreNatural DEF StartFile, TypeInv, HostTypes
  <2>2. files' \in [Files -> [size : Sizes \cup {0}, good : BOOLEAN]]
    BY <1>0, <1>1 DEF StartFile
  <2>3. ReportTypes' /\ WorkerTypes'
    BY <1>1, <2>1, <2>2, ReportsBuilt, SendReportTypes DEF StartFile
  <2>4. pos' \in 0..MaxUnits
    BY <1>1, BoundsAreNatural DEF StartFile
  <2> QED BY <1>1, <2>1, <2>2, <2>3, <2>4 DEF StartFile, TypeInv, HostTypes
<1>2. ASSUME NEW n \in 1..Chunk, SendData(n) PROVE TypeInv'
  <2>1. file \in Files /\ file' = file /\ files' = files
    BY <1>2, BoundsAreNatural DEF SendData, TypeInv, HostTypes
  <2>2. files[file].size \in Nat /\ files[file].size <= MaxSize
    <3>1. files[file].size \in Sizes \cup {0}
      BY <1>0, <2>1
    <3> QED BY <3>1, BoundsAreNatural
  <2>3. pos \in 0..MaxUnits /\ pos + n <= MaxUnits /\ pos' = pos + n /\ n \in 0..Chunk
    BY <1>0, <1>2, <2>2, BoundsAreNatural DEF SendData
  <2>4. Data(file, pos, n) \in OkReports
    BY <2>1, <2>3, ReportsBuilt
  <2>5. ReportTypes' /\ WorkerTypes'
    BY <1>0, <1>2, <2>1, <2>4, SendReportTypes DEF SendData
  <2>6. pos' \in 0..MaxUnits
    BY <1>0, <2>3
  <2> QED BY <1>2, <2>1, <2>5, <2>6 DEF SendData, TypeInv, HostTypes
<1>3. ASSUME NEW k \in Plains, SendPlain(k) PROVE TypeInv'
  <2>1. extra' \in 0..MaxCommands
    BY <1>3, BoundsAreNatural DEF SendPlain, TypeInv, HostTypes
  <2>2. ReportTypes' /\ WorkerTypes'
    BY <1>0, <1>3, ReportsBuilt, SendReportTypes DEF SendPlain
  <2> QED BY <1>3, <2>1, <2>2 DEF SendPlain, TypeInv, HostTypes
<1> QED BY <1>1, <1>2, <1>3

\* What the worker takes off the queue, and what an unlink leaves of it.
LEMMA QueueParts ==
    ASSUME NEW S, NEW q \in Seq(S), q # << >>
    PROVE  /\ Head(q) \in S /\ Head(q) = q[1] /\ Tail(q) \in Seq(S)
           /\ Len(q) \in Nat \ {0} /\ Len(Tail(q)) = Len(q) - 1
           /\ \A i \in 1..Len(Tail(q)) : i + 1 \in 1..Len(q) /\ Tail(q)[i] = q[i + 1]
           /\ Last(q) \in S /\ Front(q) \in Seq(S) /\ Len(Front(q)) = Len(q) - 1
           /\ \A i \in 1..Len(Front(q)) : i \in 1..Len(q) /\ Front(q)[i] = q[i]
<1>1. Len(q) \in Nat \ {0}
  BY EmptySeq
<1>2. /\ Head(q) \in S /\ Head(q) = q[1] /\ Tail(q) \in Seq(S) /\ Len(Tail(q)) = Len(q) - 1
      /\ \A i \in 1..Len(Tail(q)) : Tail(q)[i] = q[i + 1]
  BY HeadTailProperties
<1>3. Last(q) \in S
  BY <1>1, ElementOfSeq DEF Last
<1> DEFINE n == Len(q) - 1
<1>4. \A i \in 1..n : q[i] \in S
  BY <1>1, ElementOfSeq
<1>5. /\ Front(q) \in Seq(S) /\ Len(Front(q)) = IF 1 <= n THEN n - 1 + 1 ELSE 0
      /\ \A i \in 1..(n - 1 + 1) : Front(q)[i] = q[1 + i - 1]
  BY <1>1, <1>4, SubSeqProperties DEF Front
<1> HIDE DEF n
<1>6. n \in Nat /\ n = Len(q) - 1
  BY <1>1 DEF n
<1>7. Len(Front(q)) = n /\ \A i \in 1..n : Front(q)[i] = q[i]
  <2>1. n - 1 + 1 = n /\ \A i \in 1..n : 1 + i - 1 = i
    BY <1>6
  <2>2. Len(Front(q)) = n
    BY <1>5, <1>6
  <2>3. ASSUME NEW i \in 1..n PROVE Front(q)[i] = q[i]
    <3>1. i \in 1..(n - 1 + 1) /\ 1 + i - 1 = i
      BY <2>1
    <3> QED BY <3>1, <1>5
  <2> QED BY <2>2, <2>3
<1>8. \A i \in 1..n : i \in 1..Len(q) /\ i + 1 \in 1..Len(q)
  BY <1>1, <1>6
<1> QED BY <1>1, <1>2, <1>3, <1>5, <1>6, <1>7, <1>8

\* The OUT worker keeps the types.
LEMMA WorkersStep ==
    ASSUME TypeInv, OutStep \/ OutUnlinked \/ QueuedUnlinked
    PROVE  TypeInv'
<1> USE DEF TypeInv
<1>1. CASE OutStart
  <2>1. Head(outQueue) \in OkReports /\ Tail(outQueue) \in Seq(OkReports)
    BY <1>1, QueueParts DEF OutStart, WorkerTypes
  <2>2. WorkerTypes'
    BY <1>1, <2>1 DEF OutStart, WorkerTypes, inVars
  <2>3. ReportTypes' /\ HostTypes'
    BY <1>1 DEF OutStart, ReportTypes, HostTypes, reportVars, stVars, hostVars
  <2> QED BY <2>2, <2>3
<1>2. CASE OutSlept
  <2>1. ReportTypes' /\ HostTypes'
    BY <1>2 DEF OutSlept, ReportTypes, HostTypes, reportVars, stVars, hostVars
  <2> QED BY <1>2, <2>1 DEF OutSlept, WorkerTypes, inVars
<1>3. CASE OutHandle
  <2>1. outReport \in OkReports /\ HandleReport(outReport)
    BY <1>3 DEF OutHandle, WorkerTypes
  <2>2. HostTypes'
    BY <1>3 DEF OutHandle, HostTypes, hostVars
  <2>3. ReportTypes'
    BY <2>1, <2>2, HandleReportTypes DEF HostTypes
  <2> QED BY <1>3, <2>2, <2>3, ReportsBuilt DEF OutHandle, WorkerTypes, inVars
<1>4. CASE OutUnlinked
  <2>1. outReport.file \in Files \cup {NoFile}
    BY DEF WorkerTypes, OkReports, Reports
  <2>2. ReportTypes' /\ HostTypes'
    BY <1>4, <2>1 DEF OutUnlinked, ReportTypes, HostTypes, reportVars, stVars
  <2> QED BY <1>4, <2>2, ReportsBuilt DEF OutUnlinked, WorkerTypes, inVars
<1>5. CASE QueuedUnlinked
  <2>1. Last(outQueue) \in OkReports /\ Front(outQueue) \in Seq(OkReports)
    BY <1>5, QueueParts DEF QueuedUnlinked, WorkerTypes
  <2>2. Last(outQueue).file \in Files \cup {NoFile}
    BY <2>1 DEF OkReports, Reports
  <2>3. ReportTypes' /\ HostTypes'
    BY <1>5, <2>2 DEF QueuedUnlinked, ReportTypes, HostTypes, reportVars, stVars
  <2> QED BY <1>5, <2>1, <2>3 DEF QueuedUnlinked, WorkerTypes, inVars
<1> QED BY <1>1, <1>2, <1>3, <1>4, <1>5 DEF OutStep

\* The IN worker keeps the types.
LEMMA ReaderStep ==
    ASSUME TypeInv, InStart \/ InStep \/ InUnlinked \/ InUnlinkedLate \/ GetReport
    PROVE  TypeInv'
<1> USE DEF TypeInv
<1>0. /\ responses # << >> => Head(responses) \in OkResponses /\ Tail(responses) \in Seq(OkResponses)
      /\ inReport \in OkResponses
  BY QueueParts DEF ReportTypes, WorkerTypes
<1>1. CASE InStart
  BY <1>1 DEF InStart, ReportTypes, WorkerTypes, HostTypes, stVars, outVars, hostVars
<1>2. CASE InCheck
  <2>1. ReportTypes'
    BY <1>0, <1>2 DEF InCheck, ReportTypes, stVars
  <2>2. WorkerTypes' /\ HostTypes'
    BY <1>0, <1>2 DEF InCheck, WorkerTypes, HostTypes, outVars, hostVars
  <2> QED BY <2>1, <2>2
<1>3. CASE InWake
  BY <1>3 DEF InWake, ReportTypes, WorkerTypes, HostTypes, stVars, outVars, hostVars
<1>4. CASE InReply
  <2>1. Decided(inReport) \subseteq Files
    BY <1>0, ResponsesBuilt
  <2> QED BY <1>4, <2>1, ResponsesBuilt
        DEF InReply, ReportTypes, WorkerTypes, HostTypes, reportVars, stVars, outVars, hostVars
<1>5. CASE InUnlinked
  BY <1>5 DEF InUnlinked, ReportTypes, WorkerTypes, HostTypes, stVars, outVars, hostVars
<1>6. CASE InUnlinkedLate
  <2>1. Decided(inReport) \subseteq Files
    BY <1>0, ResponsesBuilt
  <2> QED BY <1>6, <2>1, ResponsesBuilt
        DEF InUnlinkedLate, ReportTypes, WorkerTypes, HostTypes, reportVars, stVars, outVars, hostVars
<1>7. CASE GetReport
  <2>1. responses # << >> => Decided(Head(responses)) \subseteq Files
    BY <1>0, ResponsesBuilt
  <2>2. ReportTypes' /\ HostTypes'
    BY <1>0, <1>7, <2>1 DEF GetReport, ReportTypes, HostTypes, stVars, hostVars
  <2> QED BY <1>7, <2>2 DEF GetReport, WorkerTypes, outVars, inVars
<1> QED BY <1>1, <1>2, <1>3, <1>4, <1>5, <1>6, <1>7 DEF InStep

\* TypeInv is inductive.
LEMMA TypeStep == ASSUME TypeInv, [Next]_vars PROVE TypeInv'
<1>1. CASE Next
  BY <1>1, HostSends, WorkersStep, ReaderStep DEF Next, Host
<1>2. CASE UNCHANGED vars
  BY <1>2 DEF vars, TypeInv, ReportTypes, WorkerTypes, HostTypes, reportVars, stVars, outVars,
              inVars, hostVars
<1> QED BY <1>1, <1>2

\* TypeInv is at least TypeOK.
LEMMA TypeInvGivesTypeOK == TypeInv => TypeOK
<1> SUFFICES ASSUME TypeInv PROVE TypeOK
  OBVIOUS
<1>1. OkReports \subseteq Reports /\ OkResponses \subseteq Responses
  BY DEF OkReports, OkResponses
<1>2. outQueue \in Seq(Reports) /\ responses \in Seq(Responses) /\ verdicts \in Seq(Responses)
  BY <1>1, SeqMonotonic DEF TypeInv, ReportTypes, WorkerTypes
<1>3. \A i \in 1..Len(events) : events[i] \in EventTypes
  BY ElementOfSeq DEF TypeInv, ReportTypes
<1>4. \A i \in 1..Len(events) : /\ events[i].event \in {"FlashCompleted", "BootloaderReset"}
                                 /\ events[i].image \in Seq(Units)
  BY <1>3 DEF EventTypes
<1> QED BY <1>1, <1>2, <1>4 DEF TypeInv, ReportTypes, WorkerTypes, HostTypes, TypeOK

\* Bootloader.TypeOK holds, in particular an image never grows beyond the size its
\* file announced.
THEOREM TypeCorrect == Spec => []TypeOK
<1>1. Init => TypeInv
  BY TypeInit
<1>2. TypeInv /\ [Next]_vars => TypeInv'
  BY TypeStep
<1> QED BY <1>1, <1>2, TypeInvGivesTypeOK, PTL DEF Spec

-----------------------------------------------------------------------------
(* One verdict for a file. *)

\* A ReceiveSbFile for f is on its way to the persona; f has been decided.
Asks(r, f) == r.kind = "receive" /\ r.file = f
Pending(f) == Asks(outReport, f) \/ \E i \in 1..Len(outQueue) : Asks(outQueue[i], f)
Judged(f) == \E i \in 1..Len(verdicts) : verdicts[i].file = f

\* A file is asked for once.
QueueInv ==
    /\ \A i, j \in 1..Len(outQueue) :
          outQueue[i].kind = "receive" /\ outQueue[j].kind = "receive"
            /\ outQueue[i].file = outQueue[j].file => i = j
    /\ \A i \in 1..Len(outQueue) :
          outQueue[i].kind = "receive" => ~Asks(outReport, outQueue[i].file)

\* It is under way, being received, or decided, and never two of them.
FileInv ==
    /\ transfer <= file
    /\ \A f : Pending(f) => f <= file /\ f # transfer /\ ~Judged(f)
    /\ \A i \in 1..Len(verdicts) : verdicts[i].file <= file
    /\ phase = "Receiving" => ~Judged(transfer)
    /\ \A i, j \in 1..Len(verdicts) : verdicts[i].file = verdicts[j].file => i = j

CountInv ==
    IsFiniteSet(Flashes) /\ IsFiniteSet(Successes) /\ Cardinality(Flashes) = Cardinality(Successes)

\* What handling a report means for verdicts and flashes.
Stays == transfer' = transfer /\ phase' = phase /\ verdicts' = verdicts
Begins(r) ==
    /\ r.kind = "receive" /\ transfer' = r.file /\ verdicts' = verdicts /\ events' = events
Decides(x) ==
    /\ phase = "Receiving" /\ phase' # "Receiving" /\ transfer' = transfer
    /\ verdicts' = Append(verdicts, x) /\ x.file = transfer
    /\ \/ x.status = "success" /\ \E img : events' = Append(events, FlashCompleted(img))
       \/ x.status # "success" /\ events' = events

\* What handling a report may ask for and decide.
LEMMA HandlingReports ==
    ASSUME TypeInv, NEW r, HandleReport(r)
    PROVE  \/ Stays /\ events' \in {events, Append(events, BootloaderReset)}
           \/ Begins(r)
           \/ \E x \in OkResponses : Decides(x)
<1>1. CASE HandleReceive(r)
  BY <1>1 DEF HandleReceive, QueueResponse, Generic, Begins
<1>2. CASE HandleReset(r)
  BY <1>2 DEF HandleReset, QueueResponse, Generic, Stays, stVars
<1>3. CASE HandleUnknown(r)
  BY <1>3 DEF HandleUnknown, QueueResponse, Generic, Stays, stVars
<1>4. CASE HandleData(r)
  <2> DEFINE whole == SubSeq(Extended(r), 1, files[transfer].size)
  <2>1. transfer \in Files /\ phase = "Receiving" /\ transfer' = transfer
    BY <1>4 DEF HandleData, TypeInv, ReportTypes
  <2>2. CASE UNCHANGED <<phase, responses, waiter, verdicts, events>>
    BY <2>1, <2>2 DEF Stays
  <2>3. CASE /\ phase' = "Done" /\ QueueResponse(Generic("success", "last_byte", transfer))
             /\ events' = Append(events, FlashCompleted(whole))
    <3> DEFINE x == Generic("success", "last_byte", transfer)
    <3>1. x \in OkResponses /\ x.file = transfer /\ x.answers = "last_byte" /\ x.status = "success"
      BY <2>1, ResponsesBuilt DEF Generic
    <3>2. Decides(x)
      BY <2>1, <2>3, <3>1 DEF QueueResponse, Decides
    <3> QED BY <3>1, <3>2
  <2>4. CASE /\ phase' = "Idle" /\ QueueResponse(Generic("signature", "last_byte", transfer))
             /\ events' = events
    <3> DEFINE x == Generic("signature", "last_byte", transfer)
    <3>1. x \in OkResponses /\ x.file = transfer /\ x.answers = "last_byte" /\ x.status = "signature"
      BY <2>1, ResponsesBuilt DEF Generic
    <3>2. Decides(x)
      BY <2>1, <2>4, <3>1 DEF QueueResponse, Decides
    <3> QED BY <3>1, <3>2
  <2> QED BY <1>4, <2>2, <2>3, <2>4 DEF HandleData
<1>5. CASE Ignored(r)
  BY <1>5 DEF Ignored, reportVars, stVars, Stays
<1> QED BY <1>1, <1>2, <1>3, <1>4, <1>5 DEF HandleReport

\* A verdict comes after those already given.
LEMMA VerdictsGrow ==
    ASSUME TypeInv, NEW x \in OkResponses, verdicts' = Append(verdicts, x)
    PROVE  /\ Len(verdicts) \in Nat /\ Len(verdicts') = Len(verdicts) + 1
           /\ \A i \in 1..Len(verdicts) : verdicts'[i] = verdicts[i]
           /\ verdicts'[Len(verdicts) + 1] = x
           /\ \A i \in 1..Len(verdicts') : i \in 1..Len(verdicts) \/ i = Len(verdicts) + 1
<1>1. verdicts \in Seq(OkResponses)
  BY DEF TypeInv, ReportTypes
<1>2. /\ Len(verdicts) \in Nat /\ Len(verdicts') = Len(verdicts) + 1
      /\ \A i \in 1..Len(verdicts) : verdicts'[i] = verdicts[i]
      /\ verdicts'[Len(verdicts) + 1] = x
  BY <1>1, AppendProperties, LenProperties
<1> QED BY <1>2

\* A handled report keeps FileInv if the file it asks for is a new one.
LEMMA FilesAfterReport ==
    ASSUME TypeInv, FileInv, NEW r \in OkReports, HandleReport(r),
           file' \in Nat, file <= file',
           \A f : Pending(f)' => Pending(f),
           r.kind = "receive" => r.file <= file' /\ ~Judged(r.file),
           \A f : Asks(r, f) => ~Pending(f)'
    PROVE  FileInv'
<1>0. file \in Nat /\ transfer \in Nat
  BY BoundsAreNatural DEF TypeInv, HostTypes, ReportTypes
<1>v. \A i \in 1..Len(verdicts) : verdicts[i].file \in Nat
  <2>1. \A i \in 1..Len(verdicts) : verdicts[i] \in OkResponses
    BY ElementOfSeq DEF TypeInv, ReportTypes
  <2> QED BY <2>1, BoundsAreNatural DEF OkResponses, Responses
<1>p. \A f : Pending(f)' => f <= file' /\ f # transfer /\ ~Judged(f)
  <2>1. ASSUME NEW f, Pending(f)' PROVE f <= file' /\ f # transfer /\ ~Judged(f)
    <3>1. Pending(f) /\ f <= file /\ f # transfer /\ ~Judged(f)
      BY <2>1 DEF FileInv
    <3>2. f \in Nat
      <4>1. outReport \in OkReports /\ \A i \in 1..Len(outQueue) : outQueue[i] \in OkReports
        BY ElementOfSeq DEF TypeInv, WorkerTypes
      <4>2. \A q \in OkReports : q.file \in Nat
        BY BoundsAreNatural DEF OkReports, Reports
      <4> QED BY <3>1, <4>1, <4>2 DEF Pending, Asks
    <3> QED BY <1>0, <3>1, <3>2
  <2> QED BY <2>1
<1>1. CASE Stays
  <2>1. \A f : Judged(f)' <=> Judged(f)
    BY <1>1 DEF Stays, Judged
  <2>2. transfer' <= file' /\ \A i \in 1..Len(verdicts') : verdicts'[i].file <= file'
    BY <1>0, <1>v, <1>1 DEF Stays, FileInv
  <2>3. \A i, j \in 1..Len(verdicts') : verdicts'[i].file = verdicts'[j].file => i = j
    BY <1>1 DEF Stays, FileInv
  <2>4. (phase = "Receiving" => ~Judged(transfer))'
    BY <1>1 DEF Stays, FileInv, Judged
  <2>5. \A f : Pending(f)' => f <= file' /\ f # transfer' /\ ~Judged(f)'
    BY <1>p, <1>1, <2>1 DEF Stays
  <2> QED BY <2>2, <2>3, <2>4, <2>5 DEF FileInv
<1>2. CASE Begins(r)
  <2>1. \A f : Judged(f)' <=> Judged(f)
    BY <1>2 DEF Begins, Judged
  <2>2. transfer' <= file' /\ \A i \in 1..Len(verdicts') : verdicts'[i].file <= file'
    BY <1>0, <1>v, <1>2 DEF Begins, FileInv
  <2>3. \A i, j \in 1..Len(verdicts') : verdicts'[i].file = verdicts'[j].file => i = j
    BY <1>2 DEF Begins, FileInv
  <2>4. (phase = "Receiving" => ~Judged(transfer))'
    BY <1>2 DEF Begins, Judged
  <2>5. \A f : Pending(f)' => f <= file' /\ f # transfer' /\ ~Judged(f)'
    BY <1>p, <1>2, <2>1 DEF Begins, Asks
  <2> QED BY <2>2, <2>3, <2>4, <2>5 DEF FileInv
<1>3. ASSUME NEW x \in OkResponses, Decides(x) PROVE FileInv'
  <2>1. /\ Len(verdicts) \in Nat /\ Len(verdicts') = Len(verdicts) + 1
        /\ \A i \in 1..Len(verdicts) : verdicts'[i] = verdicts[i]
        /\ verdicts'[Len(verdicts) + 1] = x
        /\ \A i \in 1..Len(verdicts') : i \in 1..Len(verdicts) \/ i = Len(verdicts) + 1
    BY <1>3, VerdictsGrow DEF Decides
  <2>2. /\ x.file = transfer /\ transfer' = transfer /\ ~Judged(transfer) /\ transfer <= file
        /\ phase' # "Receiving"
    BY <1>3 DEF Decides, FileInv
  <2>3. \A f : Judged(f)' => Judged(f) \/ f = transfer
    BY <2>1, <2>2 DEF Judged
  <2>4. transfer' <= file' /\ \A i \in 1..Len(verdicts') : verdicts'[i].file <= file'
    BY <1>0, <1>v, <2>1, <2>2 DEF FileInv
  <2>5. \A i, j \in 1..Len(verdicts') : verdicts'[i].file = verdicts'[j].file => i = j
    BY <2>1, <2>2 DEF FileInv, Judged
  <2>6. \A f : Pending(f)' => f <= file' /\ f # transfer' /\ ~Judged(f)'
    BY <1>p, <2>2, <2>3
  <2> QED BY <2>2, <2>4, <2>5, <2>6 DEF FileInv
<1> QED BY <1>1, <1>2, <1>3, HandlingReports

\* Flashes and successes, one more or as they were.
LEMMA FlashesGrow ==
    ASSUME TypeInv, IsFiniteSet(Flashes), NEW e, events' = Append(events, e)
    PROVE  /\ IsFiniteSet(Flashes')
           /\ e.event = "FlashCompleted" => Cardinality(Flashes') = Cardinality(Flashes) + 1
           /\ e.event # "FlashCompleted" => Flashes' = Flashes
<1> DEFINE n == Len(events)
<1>1. events \in Seq(EventTypes \cup {e})
  <2>1. EventTypes \subseteq EventTypes \cup {e}
    OBVIOUS
  <2> QED BY <2>1, SeqMonotonic DEF TypeInv, ReportTypes
<1>2. /\ n \in Nat /\ Len(events') = n + 1 /\ \A i \in 1..n : events'[i] = events[i]
      /\ events'[n + 1] = e
  BY <1>1, AppendProperties, LenProperties
<1>3. \A i : i \in 1..(n + 1) <=> i \in 1..n \/ i = n + 1
  BY <1>2
<1>4. n + 1 \notin Flashes
  BY <1>2 DEF Flashes
<1>5. e.event = "FlashCompleted" => Flashes' = Flashes \cup {n + 1}
  BY <1>2, <1>3 DEF Flashes
<1>6. e.event # "FlashCompleted" => Flashes' = Flashes
  BY <1>2, <1>3 DEF Flashes
<1> QED BY <1>4, <1>5, <1>6, FS_AddElement

\* Successes, one more or as they were.
LEMMA SuccessesGrow ==
    ASSUME TypeInv, IsFiniteSet(Successes), NEW x \in OkResponses, verdicts' = Append(verdicts, x)
    PROVE  /\ IsFiniteSet(Successes')
           /\ x.status = "success" => Cardinality(Successes') = Cardinality(Successes) + 1
           /\ x.status # "success" => Successes' = Successes
<1> DEFINE n == Len(verdicts)
<1>2. /\ n \in Nat /\ Len(verdicts') = n + 1 /\ \A i \in 1..n : verdicts'[i] = verdicts[i]
      /\ verdicts'[n + 1] = x
  BY VerdictsGrow
<1>3. \A i : i \in 1..(n + 1) <=> i \in 1..n \/ i = n + 1
  BY <1>2
<1>4. n + 1 \notin Successes
  BY <1>2 DEF Successes
<1>5. x.status = "success" => Successes' = Successes \cup {n + 1}
  BY <1>2, <1>3 DEF Successes
<1>6. x.status # "success" => Successes' = Successes
  BY <1>2, <1>3 DEF Successes
<1> QED BY <1>4, <1>5, <1>6, FS_AddElement

\* A handled report leaves as many flashes as successes.
LEMMA CountAfterReport ==
    ASSUME TypeInv, CountInv, NEW r, HandleReport(r)
    PROVE  CountInv'
<1>1. CASE Stays /\ events' \in {events, Append(events, BootloaderReset)}
  <2>1. Successes' = Successes
    BY <1>1 DEF Stays, Successes
  <2>2. CASE events' = events
    BY <2>1, <2>2 DEF Flashes, CountInv
  <2>3. CASE events' = Append(events, BootloaderReset)
    <3>1. BootloaderReset.event # "FlashCompleted"
      BY DEF BootloaderReset
    <3>2. Flashes' = Flashes
      BY <2>3, <3>1, FlashesGrow DEF CountInv
    <3> QED BY <2>1, <3>2 DEF CountInv
  <2> QED BY <1>1, <2>2, <2>3
<1>2. CASE Begins(r)
  BY <1>2 DEF Begins, CountInv, Flashes, Successes
<1>3. ASSUME NEW x \in OkResponses, Decides(x) PROVE CountInv'
  <2>1. verdicts' = Append(verdicts, x)
    BY <1>3 DEF Decides
  <2>2. CASE x.status # "success" /\ events' = events
    <3>1. Successes' = Successes
      BY <2>1, <2>2, SuccessesGrow DEF CountInv
    <3>2. Flashes' = Flashes
      BY <2>2 DEF Flashes
    <3> QED BY <3>1, <3>2 DEF CountInv
  <2>3. ASSUME x.status = "success", NEW img, events' = Append(events, FlashCompleted(img))
        PROVE  CountInv'
    <3>1. IsFiniteSet(Successes') /\ Cardinality(Successes') = Cardinality(Successes) + 1
      BY <2>1, <2>3, SuccessesGrow DEF CountInv
    <3>2. FlashCompleted(img).event = "FlashCompleted"
      BY DEF FlashCompleted
    <3>3. IsFiniteSet(Flashes') /\ Cardinality(Flashes') = Cardinality(Flashes) + 1
      BY <2>3, <3>2, FlashesGrow DEF CountInv
    <3> QED BY <3>1, <3>3 DEF CountInv
  <2> QED BY <1>3, <2>2, <2>3 DEF Decides
<1> QED BY <1>1, <1>2, <1>3, HandlingReports

VerdictInv == TypeInv /\ QueueInv /\ FileInv /\ CountInv

\* The host sends a report about no file that is known, or none at all.
LEMMA VerdictsAfterSend ==
    ASSUME VerdictInv, TypeInv', NEW r \in OkReports, SendReport(r),
           \/ file' = file /\ r.kind # "receive"
           \/ file' = file + 1 /\ r.kind = "receive" /\ r.file = file + 1
    PROVE  VerdictInv'
<1> USE DEF VerdictInv
<1>0. file \in Nat /\ file' \in Nat /\ file <= file'
  BY BoundsAreNatural DEF TypeInv, HostTypes
<1>1. r.kind = "receive" => r.file = file' /\ ~Pending(r.file) /\ ~Judged(r.file)
  BY <1>0 DEF FileInv, Judged
<1>2. CASE SendOut(r)
  <2>1. /\ outQueue' = Append(outQueue, r) /\ outReport' = outReport
        /\ UNCHANGED <<verdicts, transfer, phase, events>>
    BY <1>2 DEF SendOut, reportVars, stVars
  <2>2. /\ Len(outQueue) \in Nat /\ Len(outQueue') = Len(outQueue) + 1
        /\ \A i \in 1..Len(outQueue) : outQueue'[i] = outQueue[i]
        /\ outQueue'[Len(outQueue) + 1] = r
        /\ \A i \in 1..Len(outQueue') : i \in 1..Len(outQueue) \/ i = Len(outQueue) + 1
    <3>1. outQueue \in Seq(OkReports)
      BY DEF TypeInv, WorkerTypes
    <3>2. /\ Len(outQueue) \in Nat /\ Len(outQueue') = Len(outQueue) + 1
          /\ \A i \in 1..Len(outQueue) : outQueue'[i] = outQueue[i]
          /\ outQueue'[Len(outQueue) + 1] = r
      BY <2>1, <3>1, AppendProperties, LenProperties
    <3> QED BY <3>2
  <2>3. \A f : Pending(f)' => Pending(f) \/ Asks(r, f)
    BY <2>1, <2>2 DEF Pending
  <2>4. QueueInv'
    BY <1>1, <2>1, <2>2 DEF QueueInv, Pending, Asks
  <2>5. \A f : Judged(f)' <=> Judged(f)
    BY <2>1 DEF Judged
  <2>6. transfer <= file' /\ transfer <= file
    BY <1>0, BoundsAreNatural DEF FileInv, TypeInv, ReportTypes
  <2>7. \A i \in 1..Len(verdicts) : verdicts[i].file <= file'
    <3>1. \A i \in 1..Len(verdicts) : verdicts[i] \in OkResponses
      BY ElementOfSeq DEF TypeInv, ReportTypes
    <3>2. \A i \in 1..Len(verdicts) : verdicts[i].file \in Nat
      BY <3>1, BoundsAreNatural DEF OkResponses, Responses
    <3> QED BY <1>0, <3>2 DEF FileInv
  <2>8. \A f : Pending(f) => f <= file' /\ f # transfer /\ ~Judged(f)
    <3>1. \A q \in OkReports : q.file \in Nat
      BY BoundsAreNatural DEF OkReports, Reports
    <3>2. outReport \in OkReports /\ \A i \in 1..Len(outQueue) : outQueue[i] \in OkReports
      BY ElementOfSeq DEF TypeInv, WorkerTypes
    <3>3. \A f : Pending(f) => f \in Nat
      BY <3>1, <3>2 DEF Pending, Asks
    <3> QED BY <1>0, <3>3 DEF FileInv
  <2>9. \A f : Asks(r, f) => f <= file' /\ f # transfer /\ ~Judged(f)
    <3>1. r.kind = "receive" => file' = file + 1 /\ r.file = file + 1 /\ transfer \in Nat
      BY BoundsAreNatural DEF TypeInv, ReportTypes
    <3> QED BY <1>0, <1>1, <2>6, <3>1 DEF Asks
  <2>10. \A f : Pending(f)' => f <= file' /\ f # transfer' /\ ~Judged(f)'
    BY <2>1, <2>3, <2>5, <2>8, <2>9
  <2>11. (phase = "Receiving" => ~Judged(transfer))'
    BY <2>1 DEF FileInv, Judged
  <2>12. transfer' <= file' /\ \A i \in 1..Len(verdicts') : verdicts'[i].file <= file'
    BY <2>1, <2>6, <2>7
  <2>13. \A i, j \in 1..Len(verdicts') : verdicts'[i].file = verdicts'[j].file => i = j
    BY <2>1 DEF FileInv
  <2>14. FileInv'
    BY <2>10, <2>11, <2>12, <2>13 DEF FileInv
  <2>15. CountInv'
    BY <2>1 DEF CountInv, Flashes, Successes
  <2> QED BY <2>4, <2>14, <2>15
<1>3. CASE SetReport(r)
  <2>1. HandleReport(r) /\ outQueue' = outQueue /\ outReport' = outReport
    BY <1>3 DEF SetReport, outVars
  <2>2. \A f : Pending(f)' <=> Pending(f)
    BY <2>1 DEF Pending
  <2>3. FileInv'
    BY <1>0, <1>1, <2>1, <2>2, FilesAfterReport DEF Asks
  <2>4. CountInv'
    BY <2>1, CountAfterReport
  <2> QED BY <2>1, <2>3, <2>4 DEF QueueInv
<1> QED BY <1>2, <1>3 DEF SendReport

\* Steps that decide nothing and may only take reports away.
LEMMA VerdictsAfterLess ==
    ASSUME VerdictInv, TypeInv', file' = file, UNCHANGED <<verdicts, transfer, phase, events>>,
           QueueInv', \A f : Pending(f)' => Pending(f)
    PROVE  VerdictInv'
<1>1. \A f : Judged(f)' <=> Judged(f)
  BY DEF Judged
<1>2. FileInv'
  <2>1. transfer' <= file' /\ \A i \in 1..Len(verdicts') : verdicts'[i].file <= file'
    BY DEF VerdictInv, FileInv
  <2>2. \A f : Pending(f)' => f <= file' /\ f # transfer' /\ ~Judged(f)'
    BY <1>1 DEF VerdictInv, FileInv
  <2>3. (phase = "Receiving" => ~Judged(transfer))'
    BY DEF VerdictInv, FileInv, Judged
  <2>4. \A i, j \in 1..Len(verdicts') : verdicts'[i].file = verdicts'[j].file => i = j
    BY DEF VerdictInv, FileInv
  <2> QED BY <2>1, <2>2, <2>3, <2>4 DEF FileInv
<1>3. CountInv'
  BY DEF VerdictInv, CountInv, Flashes, Successes
<1> QED BY <1>2, <1>3 DEF VerdictInv

\* VerdictInv is inductive.
LEMMA VerdictStep == ASSUME VerdictInv, [Next]_vars PROVE VerdictInv'
<1> USE DEF VerdictInv
<1>0. TypeInv'
  BY TypeStep
<1>q. /\ outQueue \in Seq(OkReports) /\ file \in Nat /\ ~\E f : Asks(NoReport, f)
  BY BoundsAreNatural DEF TypeInv, WorkerTypes, HostTypes, Asks, NoReport, Plain
<1>1. ASSUME NEW n \in Sizes, NEW good \in BOOLEAN, StartFile(n, good) PROVE VerdictInv'
  <2>1. file + 1 \in Files /\ file' = file + 1
    BY <1>1, BoundsAreNatural DEF StartFile, TypeInv, HostTypes
  <2>2. ReceiveSbFile(file + 1) \in OkReports
    BY <2>1, ReportsBuilt
  <2> DEFINE r == ReceiveSbFile(file + 1)
  <2>3. r.kind = "receive" /\ r.file = file + 1
    BY DEF ReceiveSbFile
  <2> HIDE DEF r
  <2>4. SendReport(r) /\ r \in OkReports
    BY <1>1, <2>2 DEF StartFile, r
  <2> QED BY <1>0, <2>1, <2>3, <2>4, VerdictsAfterSend
<1>2. ASSUME NEW n \in 1..Chunk, SendData(n) PROVE VerdictInv'
  <2> DEFINE r == Data(file, pos, n)
  <2>1. file \in Files /\ file' = file /\ pos \in Nat
    BY <1>2, BoundsAreNatural DEF SendData, TypeInv, HostTypes
  <2>2. files[file].size \in Nat /\ files[file].size <= MaxSize
    <3>1. files[file].size \in Sizes \cup {0}
      BY <2>1 DEF TypeInv, HostTypes
    <3> QED BY <3>1, BoundsAreNatural
  <2>3. pos \in 0..MaxUnits /\ pos + n <= MaxUnits /\ n \in 0..Chunk
    BY <1>2, <2>1, <2>2, BoundsAreNatural DEF SendData
  <2>4. r \in OkReports
    BY <2>1, <2>3, ReportsBuilt
  <2>5. r.kind # "receive" /\ SendReport(r)
    BY <1>2 DEF SendData, Data
  <2> HIDE DEF r
  <2> QED BY <1>0, <2>1, <2>4, <2>5, VerdictsAfterSend
<1>3. ASSUME NEW k \in Plains, SendPlain(k) PROVE VerdictInv'
  <2> DEFINE r == Plain(k)
  <2>1. r \in OkReports /\ r.kind # "receive" /\ SendReport(r) /\ file' = file
    BY <1>3, ReportsBuilt DEF SendPlain, Plain, Plains
  <2> HIDE DEF r
  <2> QED BY <1>0, <2>1, VerdictsAfterSend
<1>4. CASE OutStart
  <2>1. /\ outQueue # << >> /\ outReport' = Head(outQueue) /\ outQueue' = Tail(outQueue)
        /\ file' = file /\ UNCHANGED <<verdicts, transfer, phase, events>>
    BY <1>4 DEF OutStart, reportVars, stVars, hostVars
  <2>2. /\ Len(outQueue) \in Nat \ {0} /\ outReport' = outQueue[1]
        /\ \A i \in 1..Len(outQueue') : i + 1 \in 1..Len(outQueue) /\ outQueue'[i] = outQueue[i + 1]
    BY <1>q, <2>1, QueueParts
  <2>3. \A f : Pending(f)' => Pending(f)
    BY <2>2 DEF Pending
  <2>4. QueueInv'
    <3>1. 1 \in 1..Len(outQueue) /\ \A i, j \in 1..Len(outQueue') : i + 1 # 1 /\ (i + 1 = j + 1 => i = j)
      BY <2>2
    <3> QED BY <2>2, <3>1 DEF QueueInv, Asks
  <2> QED BY <1>0, <2>1, <2>3, <2>4, VerdictsAfterLess
<1>5. CASE OutSlept
  <2>1. /\ outQueue' = outQueue /\ outReport' = outReport
        /\ file' = file /\ UNCHANGED <<verdicts, transfer, phase, events>>
    BY <1>5 DEF OutSlept, reportVars, stVars, hostVars
  <2> QED BY <1>0, <2>1, VerdictsAfterLess DEF QueueInv, Pending
<1>6. CASE OutHandle
  <2>1. PICK r \in OkReports : r = outReport
    BY DEF TypeInv, WorkerTypes
  <2>2. HandleReport(r) /\ outReport' = NoReport /\ outQueue' = outQueue /\ file' = file
    BY <1>6, <2>1 DEF OutHandle, hostVars
  <2>3. \A f : Pending(f)' => Pending(f)
    BY <1>q, <2>2 DEF Pending
  <2>4. \A f : Asks(r, f) => ~Pending(f)'
    BY <1>q, <2>1, <2>2 DEF Pending, QueueInv, Asks
  <2>5. r.kind = "receive" => r.file <= file' /\ ~Judged(r.file)
    BY <2>1, <2>2 DEF FileInv, Pending, Asks
  <2>6. file' \in Nat /\ file <= file'
    BY <1>q, <2>2
  <2>7. FileInv' /\ CountInv'
    BY <2>2, <2>3, <2>4, <2>5, <2>6, FilesAfterReport, CountAfterReport
  <2>8. QueueInv'
    BY <1>q, <2>2 DEF QueueInv
  <2> QED BY <1>0, <2>7, <2>8
<1>7. CASE OutUnlinked
  <2>1. /\ outQueue' = outQueue /\ outReport' = NoReport
        /\ file' = file /\ UNCHANGED <<verdicts, transfer, phase, events>>
    BY <1>7 DEF OutUnlinked, reportVars, stVars
  <2>2. QueueInv' /\ \A f : Pending(f)' => Pending(f)
    BY <1>q, <2>1 DEF QueueInv, Pending
  <2> QED BY <1>0, <2>1, <2>2, VerdictsAfterLess
<1>8. CASE QueuedUnlinked
  <2>1. /\ outQueue # << >> /\ outReport' = outReport /\ outQueue' = Front(outQueue)
        /\ file' = file /\ UNCHANGED <<verdicts, transfer, phase, events>>
    BY <1>8 DEF QueuedUnlinked, reportVars, stVars
  <2>2. \A i \in 1..Len(outQueue') : i \in 1..Len(outQueue) /\ outQueue'[i] = outQueue[i]
    BY <1>q, <2>1, QueueParts
  <2>3. QueueInv' /\ \A f : Pending(f)' => Pending(f)
    BY <2>1, <2>2 DEF QueueInv, Pending
  <2> QED BY <1>0, <2>1, <2>3, VerdictsAfterLess
<1>9. CASE UNCHANGED <<outQueue, outReport, file, verdicts, transfer, phase, events>>
  BY <1>0, <1>9, VerdictsAfterLess DEF QueueInv, Pending
<1>10. CASE InStart \/ InStep \/ InUnlinked \/ InUnlinkedLate \/ GetReport \/ UNCHANGED vars
  <2>1. UNCHANGED <<outQueue, outReport, file, verdicts, transfer, phase, events>>
    BY <1>10 DEF InStart, InStep, InCheck, InWake, InReply, InUnlinked, InUnlinkedLate, GetReport,
                 vars, reportVars, stVars, outVars, hostVars
  <2> QED BY <1>9, <2>1
<1> QED BY <1>1, <1>2, <1>3, <1>4, <1>5, <1>6, <1>7, <1>8, <1>10 DEF Next, Host, OutStep

\* VerdictInv holds initially.
LEMMA VerdictInit == ASSUME Init PROVE VerdictInv
<1>1. TypeInv
  BY TypeInit
<1>2. /\ Len(outQueue) = 0 /\ Len(verdicts) = 0 /\ Len(events) = 0 /\ outReport = NoReport
      /\ transfer = 0 /\ file = 0 /\ phase = "Idle"
  BY DEF Init, NoFile
<1>3. \A f : ~Pending(f) /\ ~Judged(f)
  BY <1>2 DEF Pending, Judged, Asks, NoReport, Plain
<1>4. QueueInv /\ FileInv
  BY <1>2, <1>3 DEF QueueInv, FileInv
<1>5. Flashes = {} /\ Successes = {}
  BY <1>2 DEF Flashes, Successes
<1>6. CountInv
  BY <1>5, FS_EmptySet DEF CountInv
<1> QED BY <1>1, <1>4, <1>6 DEF VerdictInv

\* Bootloader.OneVerdict holds: no file is decided twice, and there are as many
\* flashes as answers of success, whatever the reports and their paths.
THEOREM AtMostOneVerdict == Spec => []OneVerdict
<1>1. Init => VerdictInv
  BY VerdictInit
<1>2. VerdictInv /\ [Next]_vars => VerdictInv'
  BY VerdictStep
<1>3. VerdictInv => OneVerdict
  BY DEF VerdictInv, FileInv, CountInv, OneVerdict
<1> QED BY <1>1, <1>2, <1>3, PTL DEF Spec
-----------------------------------------------------------------------------
(* Whole images. *)

\* The reports on their way to the persona, first the one the OUT worker holds.
On(i) == IF i = 0 THEN outReport ELSE outQueue[i]
Way == 0..Len(outQueue)
OfFile(r) == r.kind \in {"receive", "data"}
End(r) == r.from + r.len

\* The persona has the first p units of file f, or will have them after the
\* first n reports on their way.
Reaches(f, p) == phase = "Receiving" /\ transfer = f /\ Len(image) = p
Continues(f, p, n) ==
    \/ Reaches(f, p)
    \/ \E i \in Way : i < n /\ OfFile(On(i)) /\ On(i).file = f /\ End(On(i)) = p

\* A report does not come after what the host is about to send, nor before what
\* the persona is receiving.
WellSent(r) ==
    /\ OfFile(r) => transfer <= r.file /\ r.file <= file /\ (r.file = file => End(r) <= pos)
    /\ r.kind = "receive" => transfer < r.file /\ End(r) = 0
    /\ r.kind = "data" => r.len > 0 /\ r.from < files[r.file].size

\* The files come one after another, the data of each without a gap.
WayInv ==
    /\ \A i \in Way : WellSent(On(i))
    /\ \A i \in Way : On(i).kind = "data" => Continues(On(i).file, On(i).from, i)
    /\ \A i, j \in Way : i < j /\ OfFile(On(i)) /\ OfFile(On(j)) =>
          /\ On(i).file <= On(j).file
          /\ On(i).file = On(j).file => On(j).kind = "data" /\ End(On(i)) <= On(j).from

\* A host goes on where the reports on their way end, unless it took one back.
HostInv ==
    /\ transfer <= file
    /\ file # NoFile /\ file \notin unlinked /\ pos < files[file].size =>
          Continues(file, pos, Len(outQueue) + 1)

\* The units received are the first ones of the file, in their order.
ImageInv == phase = "Receiving" => image = [k \in 1..Len(image) |-> <<transfer, k>>]

\* A flashed image is one of the files the host has sent.
IsFile(f, img) == files[f].good /\ img = [k \in 1..files[f].size |-> <<f, k>>]
FlashInv == \A i \in Flashes : \E f \in 1..file : IsFile(f, events[i].image)

\* The worker holds a report only when it is busy, and none when the host sends
\* by SET_REPORT.
IdleInv ==
    /\ outWorker = "idle" => outReport = NoReport
    /\ path = "control" => outQueue = << >> /\ outWorker = "idle"

SendingInv == WayInv /\ HostInv /\ ImageInv /\ FlashInv
WholeInv == IdleInv /\ (path # "mixed" => SendingInv)

\* What is on its way are reports.
LEMMA OnTypes ==
    ASSUME TypeInv
    PROVE  /\ Len(outQueue) \in Nat /\ 0 \in Way
           /\ file \in Nat /\ pos \in Nat /\ transfer \in Nat
           /\ \A i \in Way : On(i) \in OkReports
           /\ \A r \in OkReports : /\ r.file \in Nat /\ r.from \in Nat /\ r.len \in Nat
                                   /\ End(r) \in Nat /\ End(r) = r.from + r.len
                                   /\ OfFile(r) => r.file \in Files
<1>1. outQueue \in Seq(OkReports) /\ outReport \in OkReports
  BY DEF TypeInv, WorkerTypes
<1>2. Len(outQueue) \in Nat
  BY <1>1, LenProperties
<1>3. ASSUME NEW i \in Way PROVE On(i) \in OkReports
  <2>1. CASE i = 0
    BY <1>1, <2>1 DEF On
  <2>2. CASE i # 0
    <3>1. i \in 1..Len(outQueue)
      BY <1>2, <2>2 DEF Way
    <3> QED BY <1>1, <2>2, <3>1, ElementOfSeq DEF On
  <2> QED BY <2>1, <2>2
<1>4. \A r \in OkReports : /\ r.file \in Nat /\ r.from \in Nat /\ r.len \in Nat
                           /\ OfFile(r) => r.file \in Files
  BY BoundsAreNatural DEF OkReports, Reports, OfFile
<1>5. file \in Nat /\ pos \in Nat /\ transfer \in Nat
  BY BoundsAreNatural DEF TypeInv, HostTypes, ReportTypes
<1> QED BY <1>2, <1>3, <1>4, <1>5 DEF Way, End

\* The report that does nothing names no file.
LEMMA NoReportIsNone == ~OfFile(NoReport) /\ WellSent(NoReport)
BY DEF NoReport, Plain, OfFile, WellSent

\* The persona receives what it can take next.
Ready(r) ==
    /\ r.kind = "receive" => r.file \in 1..file
    /\ r.kind = "data" => /\ Reaches(r.file, r.from) /\ r.len > 0
                          /\ r.from < files[r.file].size /\ r.file \in 1..file

\* Data that continues the image extends it in order.
LEMMA InOrder ==
    ASSUME TypeInv, ImageInv, NEW r \in OkReports, r.kind = "data", Reaches(r.file, r.from)
    PROVE  /\ Extended(r) \in Seq(Units) /\ Len(Extended(r)) = End(r)
           /\ \A k \in 1..End(r) : Extended(r)[k] = <<transfer, k>>
<1>1. /\ r.file \in Files /\ r.from \in Nat /\ r.len \in Nat /\ End(r) = r.from + r.len
      /\ r.from + r.len <= MaxUnits
  BY OnTypes DEF OkReports, OfFile
<1> DEFINE new == [i \in 1..r.len |-> <<r.file, r.from + i>>]
<1>2. \A i \in 1..r.len : r.from + i \in 1..MaxUnits
  BY <1>1, BoundsAreNatural
<1>3. \A i \in 1..r.len : <<r.file, r.from + i>> \in Units
  BY <1>1, <1>2 DEF Units
<1>4. new \in Seq(Units) /\ Len(new) = r.len
  BY <1>1, <1>3
<1>5. image \in Seq(Units) /\ Len(image) = r.from /\ transfer = r.file /\ Extended(r) = image \o new
  BY DEF TypeInv, ReportTypes, Reaches, Extended
<1>6. \A k \in 1..r.from : image[k] = <<transfer, k>>
  BY <1>5 DEF ImageInv, Reaches
<1>7. \A i \in 1..r.len : new[i] = <<transfer, r.from + i>>
  BY <1>5
<1> HIDE DEF new
<1>8. /\ image \o new \in Seq(Units) /\ Len(image \o new) = r.from + r.len
      /\ \A k \in 1..(r.from + r.len) :
            (image \o new)[k] = IF k <= r.from THEN image[k] ELSE new[k - r.from]
  <2>1. image \in Seq(Units) /\ new \in Seq(Units) /\ Len(image) = r.from /\ Len(new) = r.len
    BY <1>4, <1>5
  <2>2. /\ image \o new \in Seq(Units) /\ Len(image \o new) = Len(image) + Len(new)
        /\ \A k \in 1..(Len(image) + Len(new)) :
              (image \o new)[k] = IF k <= Len(image) THEN image[k] ELSE new[k - Len(image)]
    BY <2>1, ConcatProperties
  <2> QED BY <2>1, <2>2
<1>9. ASSUME NEW k \in 1..(r.from + r.len) PROVE (image \o new)[k] = <<transfer, k>>
  <2>1. CASE k <= r.from
    BY <1>6, <1>8, <2>1
  <2>2. CASE ~(k <= r.from)
    <3>1. k - r.from \in 1..r.len /\ r.from + (k - r.from) = k
      BY <1>1, <2>2
    <3> QED BY <1>7, <1>8, <2>2, <3>1
  <2> QED BY <2>1, <2>2
<1> QED BY <1>1, <1>5, <1>8, <1>9

\* An image cut to the size of its file, if it looks like an image, is the file.
LEMMA CutIsWhole ==
    ASSUME NEW f \in Files, NEW q \in Seq(Units), NEW n \in Nat, n <= Len(q),
           \A k \in 1..Len(q) : q[k] = <<f, k>>
    PROVE  /\ SubSeq(q, 1, n) = [k \in 1..n |-> <<f, k>>]
           /\ LooksSb2(SubSeq(q, 1, n)) => files[f].good
<1>1. Len(q) \in Nat /\ \A k \in 1..n : k \in 1..Len(q)
  BY LenProperties
<1>2. \A k \in 1..n : q[k] \in Units
  BY <1>1, ElementOfSeq
<1> DEFINE s == SubSeq(q, 1, n)
<1>3. s \in Seq(Units) /\ Len(s) = n /\ \A k \in 1..n : s[k] = q[k]
  <2>1. /\ s \in Seq(Units) /\ Len(s) = IF 1 <= n THEN n - 1 + 1 ELSE 0
        /\ \A k \in 1..(n - 1 + 1) : s[k] = q[1 + k - 1]
    BY <1>2, SubSeqProperties
  <2> HIDE DEF s
  <2>2. n - 1 + 1 = n /\ Len(s) = n
    BY <2>1
  <2>3. ASSUME NEW k \in 1..n PROVE s[k] = q[k]
    <3>1. k \in 1..(n - 1 + 1) /\ 1 + k - 1 = k
      OBVIOUS
    <3> QED BY <2>1, <3>1
  <2> QED BY <2>1, <2>2, <2>3
<1> HIDE DEF s
<1>4. \A k \in 1..n : s[k] = <<f, k>>
  BY <1>1, <1>3
<1>5. s = [k \in 1..n |-> s[k]]
  BY <1>3
<1>6. s = [k \in 1..n |-> <<f, k>>]
  BY <1>4, <1>5
<1>7. ASSUME LooksSb2(s) PROVE files[f].good
  <2>1. PICK g \in Files : files[g].good /\ s[SigAt] = <<g, SigAt>>
    BY <1>7 DEF LooksSb2
  <2>2. SigAt \in 1..n
    BY <1>3, <1>7, ConstantsAssumption DEF LooksSb2, ConstantsAssumption
  <2>3. g = f
    BY <1>4, <2>1, <2>2
  <2> QED BY <2>1, <2>3
<1> QED BY <1>6, <1>7 DEF s

\* Another event leaves the earlier flashes as they were.
LEMMA FlashesKept ==
    ASSUME TypeInv, FlashInv, file' \in Nat, file <= file',
           \A f \in 1..file : files'[f] = files[f],
           NEW e, events' = Append(events, e),
           e.event = "FlashCompleted" => \E f \in 1..file : IsFile(f, e.image)
    PROVE  FlashInv'
<1>0. file \in Nat
  BY OnTypes
<1>1. events \in Seq(EventTypes \cup {e})
  <2>1. EventTypes \subseteq EventTypes \cup {e}
    OBVIOUS
  <2> QED BY <2>1, SeqMonotonic DEF TypeInv, ReportTypes
<1>2. /\ Len(events) \in Nat /\ Len(events') = Len(events) + 1
      /\ \A i \in 1..Len(events) : events'[i] = events[i]
      /\ events'[Len(events) + 1] = e
  BY <1>1, AppendProperties, LenProperties
<1>3. ASSUME NEW i \in Flashes'
      PROVE  \E f \in 1..file : IsFile(f, events'[i].image)
  <2>1. i \in 1..Len(events) \/ i = Len(events) + 1
    BY <1>2, <1>3 DEF Flashes
  <2>2. CASE i \in 1..Len(events)
    <3>1. i \in Flashes /\ events'[i] = events[i]
      BY <1>2, <1>3, <2>2 DEF Flashes
    <3> QED BY <3>1 DEF FlashInv
  <2>3. CASE i = Len(events) + 1
    <3>1. e.event = "FlashCompleted" /\ events'[i] = e
      BY <1>2, <1>3, <2>3 DEF Flashes
    <3> QED BY <3>1
  <2> QED BY <2>1, <2>2, <2>3
<1>4. ASSUME NEW i \in Flashes'
      PROVE  \E f \in 1..file' : IsFile(f, events[i].image)'
  <2>1. PICK f \in 1..file : IsFile(f, events'[i].image)
    BY <1>3, <1>4
  <2>2. f \in 1..file' /\ files'[f] = files[f]
    BY <1>0, <2>1
  <2>3. IsFile(f, events[i].image)'
    BY <2>1, <2>2 DEF IsFile
  <2> QED BY <2>2, <2>3
<1> QED BY <1>4 DEF FlashInv

\* So does none.
LEMMA FlashesSame ==
    ASSUME TypeInv, FlashInv, file' \in Nat, file <= file',
           \A f \in 1..file : files'[f] = files[f], events' = events
    PROVE  FlashInv'
<1>0. file \in Nat
  BY OnTypes
<1>1. Flashes' = Flashes
  BY DEF Flashes
<1>2. ASSUME NEW i \in Flashes
      PROVE  \E f \in 1..file' : IsFile(f, events[i].image)'
  <2>1. PICK f \in 1..file : IsFile(f, events[i].image)
    BY DEF FlashInv
  <2>2. f \in 1..file' /\ files'[f] = files[f]
    BY <1>0, <2>1
  <2>3. IsFile(f, events[i].image)'
    BY <2>1, <2>2 DEF IsFile
  <2> QED BY <2>2, <2>3
<1> QED BY <1>1, <1>2 DEF FlashInv

\* What handling a report the persona is ready for makes of the image.
LEMMA HandledInOrder ==
    ASSUME TypeInv, ImageInv, FlashInv, NEW r \in OkReports, Ready(r), HandleReport(r),
           file' \in Nat, file <= file', \A f \in 1..file : files'[f] = files[f]
    PROVE  /\ ImageInv' /\ FlashInv'
           /\ r.kind = "receive" => transfer' = r.file /\ Reaches(r.file, 0)'
           /\ r.kind = "data" => /\ transfer' = transfer /\ r.file = transfer
                                 /\ End(r) < files[r.file].size => Reaches(r.file, End(r))'
           /\ ~OfFile(r) => UNCHANGED stVars
<1>1. CASE HandleReceive(r)
  <2>1. r.kind = "receive" /\ transfer' = r.file /\ image' = << >> /\ phase' = "Receiving"
        /\ events' = events
    BY <1>1 DEF HandleReceive
  <2>2. Len(<< >>) = 0 /\ << >> = [k \in 1..0 |-> <<transfer', k>>]
    OBVIOUS
  <2>3. ImageInv' /\ Reaches(r.file, 0)'
    BY <2>1, <2>2 DEF ImageInv, Reaches
  <2> QED BY <2>1, <2>3, FlashesSame DEF OfFile
<1>2. CASE HandleReset(r)
  <2>1. r.kind = "reset" /\ events' = Append(events, BootloaderReset) /\ UNCHANGED stVars
    BY <1>2 DEF HandleReset
  <2>2. BootloaderReset.event # "FlashCompleted"
    BY DEF BootloaderReset
  <2>3. FlashInv'
    BY <2>1, <2>2, FlashesKept
  <2> QED BY <2>1, <2>3 DEF ImageInv, stVars
<1>3. CASE HandleUnknown(r)
  <2>1. r.kind = "unknown" /\ events' = events /\ UNCHANGED stVars
    BY <1>3 DEF HandleUnknown
  <2> QED BY <2>1, FlashesSame DEF ImageInv, stVars
<1>4. CASE HandleData(r)
  <2> DEFINE size == files[transfer].size
             whole == SubSeq(Extended(r), 1, size)
  <2>1. r.kind = "data" /\ transfer' = transfer /\ r.file = transfer /\ Reaches(r.file, r.from)
        /\ phase = "Receiving" /\ transfer \in 1..file
    BY <1>4 DEF HandleData, Ready, Reaches
  <2>2. /\ Extended(r) \in Seq(Units) /\ Len(Extended(r)) = End(r) /\ End(r) \in Nat
        /\ \A k \in 1..End(r) : Extended(r)[k] = <<transfer, k>>
    BY <2>1, InOrder, OnTypes
  <2>3. transfer \in Files /\ size \in Nat
    <3>1. transfer \in Files
      BY <2>1 DEF TypeInv, ReportTypes
    <3>2. files[transfer] \in [size : Sizes \cup {0}, good : BOOLEAN]
      BY <3>1 DEF TypeInv, HostTypes
    <3>3. size \in Sizes \cup {0}
      BY <3>2
    <3> QED BY <3>1, <3>3, BoundsAreNatural
  <2>4. CASE End(r) < size
    <3>1. image' = Extended(r) /\ phase' = phase /\ events' = events
      BY <1>4, <2>2, <2>4 DEF HandleData
    <3>2. Extended(r) = [k \in 1..End(r) |-> <<transfer, k>>]
      <4>1. Extended(r) = [k \in 1..End(r) |-> Extended(r)[k]]
        BY <2>2, LenProperties
      <4> QED BY <2>2, <4>1
    <3>3. ImageInv' /\ Reaches(r.file, End(r))'
      BY <2>1, <2>2, <3>1, <3>2 DEF ImageInv, Reaches
    <3> QED BY <2>1, <3>1, <3>3, FlashesSame DEF OfFile
  <2>5. CASE size <= End(r)
    <3>1. /\ phase' # "Receiving"
          /\ \/ events' = events
             \/ LooksSb2(whole) /\ events' = Append(events, FlashCompleted(whole))
      BY <1>4, <2>2, <2>3, <2>5 DEF HandleData
    <3>2. ImageInv'
      BY <3>1 DEF ImageInv
    <3>3. whole = [k \in 1..size |-> <<transfer, k>>] /\ (LooksSb2(whole) => files[transfer].good)
      BY <2>2, <2>3, <2>5, CutIsWhole
    <3>4. ASSUME LooksSb2(whole), events' = Append(events, FlashCompleted(whole))
          PROVE  FlashInv'
      <4> DEFINE e == FlashCompleted(whole)
      <4>1. e.image = whole /\ events' = Append(events, e)
        BY <3>4 DEF FlashCompleted
      <4> HIDE DEF e, whole
      <4>2. IsFile(transfer, e.image)
        BY <3>3, <3>4, <4>1 DEF IsFile
      <4> QED BY <2>1, <4>1, <4>2, FlashesKept
    <3>5. FlashInv'
      BY <3>1, <3>4, FlashesSame
    <3>6. ~(End(r) < size)
      BY <2>2, <2>3, <2>5
    <3> QED BY <2>1, <3>2, <3>5, <3>6 DEF OfFile
  <2> QED BY <2>2, <2>3, <2>4, <2>5
<1>5. CASE Ignored(r)
  <2>1. r.kind = "malformed" /\ UNCHANGED stVars /\ events' = events
    BY <1>5 DEF Ignored, reportVars, Ready, Reaches
  <2> QED BY <2>1, FlashesSame DEF ImageInv, stVars
<1> QED BY <1>1, <1>2, <1>3, <1>4, <1>5 DEF HandleReport

\* What the first report on its way promised is what the persona has when the
\* report is handled.
LEMMA ContinuesPassed ==
    ASSUME TypeInv, ImageInv, FlashInv, HandleReport(outReport), Ready(outReport),
           WellSent(outReport), outQueue' = outQueue, file' = file, files' = files,
           NEW f \in Nat, NEW p \in Nat, NEW n \in Nat, Continues(f, p, n),
           f \in 1..file, p < files[f].size,
           outReport.kind = "receive" => outReport.file <= f,
           outReport.kind = "data" /\ outReport.file = f => End(outReport) <= p
    PROVE  Continues(f, p, n)'
<1>1. PICK r \in OkReports : r = outReport
  BY DEF TypeInv, WorkerTypes
<1>2. /\ r.file \in Nat /\ r.from \in Nat /\ r.len \in Nat /\ End(r) = r.from + r.len
      /\ file \in Nat /\ transfer \in Nat /\ Len(outQueue) \in Nat
  BY <1>1, OnTypes
<1>3. /\ r.kind = "receive" => Reaches(r.file, 0)'
      /\ r.kind = "data" => /\ r.file = transfer
                            /\ End(r) < files[r.file].size => Reaches(r.file, End(r))'
      /\ ~OfFile(r) => UNCHANGED stVars
  BY <1>1, <1>2, HandledInOrder
<1>4. CASE Reaches(f, p)
  <2>1. r.kind # "receive"
    BY <1>1, <1>2, <1>4 DEF Reaches, WellSent
  <2>2. r.kind # "data"
    BY <1>1, <1>2, <1>3, <1>4 DEF Reaches, Ready
  <2>3. UNCHANGED stVars
    BY <1>3, <2>1, <2>2 DEF OfFile
  <2> QED BY <1>4, <2>3 DEF Continues, Reaches, stVars
<1>5. ASSUME NEW i \in Way, i < n, OfFile(On(i)), On(i).file = f, End(On(i)) = p
      PROVE  Continues(f, p, n)'
  <2>1. CASE i = 0
    <3>1. r = On(i)
      BY <1>1, <2>1 DEF On
    <3>2. CASE r.kind = "receive"
      BY <1>1, <1>3, <1>5, <3>1, <3>2 DEF WellSent, Continues
    <3>3. CASE r.kind = "data"
      BY <1>3, <1>5, <3>1, <3>3 DEF Continues
    <3> QED BY <1>5, <3>1, <3>2, <3>3 DEF OfFile
  <2>2. CASE i # 0
    <3>1. On(i)' = On(i) /\ Way' = Way
      BY <2>2 DEF On, Way
    <3> QED BY <1>5, <3>1 DEF Continues, OfFile, End
  <2> QED BY <2>1, <2>2
<1> QED BY <1>4, <1>5 DEF Continues

\* The worker hands over a report the persona is ready for.
LEMMA OutHandleWhole ==
    ASSUME TypeInv, TypeInv', SendingInv, OutHandle
    PROVE  SendingInv'
<1> USE DEF SendingInv
<1> DEFINE r == outReport
<1>1. /\ HandleReport(r) /\ outReport' = NoReport
      /\ UNCHANGED <<outQueue, file, pos, files, unlinked>>
  BY DEF OutHandle, hostVars
<1>2. r \in OkReports /\ r = On(0) /\ 0 \in Way
  BY OnTypes DEF On
<1>3. WellSent(r) /\ (OfFile(r) => r.file \in Files)
  BY <1>2, OnTypes DEF WayInv
<1>4. /\ r.file \in Nat /\ r.from \in Nat /\ r.len \in Nat /\ End(r) = r.from + r.len
      /\ file \in Nat /\ pos \in Nat /\ transfer \in Nat /\ Len(outQueue) \in Nat
  BY <1>2, OnTypes
<1>5. Ready(r)
  <2>1. OfFile(r) => r.file \in 1..file
    BY <1>3, <1>4, BoundsAreNatural DEF WellSent
  <2>2. ASSUME r.kind = "data" PROVE Reaches(r.file, r.from)
    <3>1. Continues(r.file, r.from, 0)
      BY <1>2, <2>2 DEF WayInv
    <3>2. \A i \in Way : ~(i < 0)
      BY <1>4 DEF Way
    <3> QED BY <3>1, <3>2 DEF Continues
  <2> QED BY <1>3, <2>1, <2>2 DEF Ready, OfFile, WellSent
<1>6. /\ ImageInv' /\ FlashInv'
      /\ r.kind = "receive" => transfer' = r.file
      /\ r.kind = "data" => transfer' = transfer
      /\ ~OfFile(r) => transfer' = transfer
  BY <1>1, <1>2, <1>4, <1>5, HandledInOrder DEF stVars
<1>7. Way' = Way /\ \A i \in Way : i # 0 => On(i)' = On(i)
  BY <1>1 DEF Way, On
<1>8. On(0)' = NoReport
  BY <1>1 DEF On
<1>9. ASSUME NEW i \in Way, i # 0, OfFile(On(i))
      PROVE  /\ OfFile(r) => r.file <= On(i).file
             /\ OfFile(r) /\ r.file = On(i).file => On(i).kind = "data" /\ End(r) <= On(i).from
  <2>1. 0 < i
    BY <1>4, <1>9 DEF Way
  <2> QED BY <1>2, <1>9, <2>1 DEF WayInv
<1>10. ASSUME NEW i \in Way PROVE WellSent(On(i))'
  <2>1. CASE i = 0
    BY <1>8, <2>1, NoReportIsNone DEF WellSent, OfFile, NoReport, Plain
  <2>2. CASE i # 0
    <3>1. On(i)' = On(i) /\ WellSent(On(i)) /\ On(i) \in OkReports /\ On(i).file \in Nat
      BY <1>7, <2>2, OnTypes DEF WayInv
    <3>2. OfFile(On(i)) => transfer' <= On(i).file
      BY <1>6, <1>9, <2>2, <3>1 DEF WellSent, OfFile
    <3>3. On(i).kind = "receive" => transfer' < On(i).file
      <4>1. On(i).kind = "receive" => OfFile(On(i)) /\ On(i).kind # "data"
        BY DEF OfFile
      <4>2. On(i).kind = "receive" /\ r.kind = "receive" => r.file < On(i).file
        BY <1>4, <1>9, <2>2, <3>1, <4>1 DEF OfFile
      <4> QED BY <1>6, <3>1, <4>2 DEF WellSent, OfFile
    <3> QED BY <1>1, <3>1, <3>2, <3>3 DEF WellSent, OfFile, End
  <2> QED BY <2>1, <2>2
<1>11. ASSUME NEW i \in Way, On(i)'.kind = "data"
       PROVE  Continues(On(i).file, On(i).from, i)'
  <2>1. i # 0 /\ On(i)' = On(i)
    BY <1>7, <1>8, <1>11 DEF NoReport, Plain
  <2> DEFINE f == On(i).file
             p == On(i).from
  <2>2. /\ i \in Nat /\ f \in Nat /\ p \in Nat /\ f \in 1..file /\ p < files[f].size
        /\ OfFile(On(i)) /\ Continues(f, p, i)
    <3>1. On(i) \in OkReports /\ WellSent(On(i)) /\ OfFile(On(i)) /\ On(i).kind = "data"
      BY <1>11, <2>1, OnTypes DEF WayInv, OfFile
    <3>2. f \in Nat /\ p \in Nat /\ f \in Files
      BY <3>1, OnTypes
    <3>3. i \in Nat
      BY <1>4 DEF Way
    <3> QED BY <1>4, <3>1, <3>2, <3>3, BoundsAreNatural DEF WellSent, WayInv
  <2>3. /\ r.kind = "receive" => r.file <= f
        /\ r.kind = "data" /\ r.file = f => End(r) <= p
    BY <1>9, <2>1, <2>2 DEF OfFile
  <2> HIDE DEF f, p
  <2>4. \A g, q, n \in Nat : g = f /\ q = p /\ n = i => Continues(g, q, n)'
    BY <1>1, <1>3, <1>5, <2>2, <2>3, ContinuesPassed
  <2>5. PICK g \in Nat, q \in Nat, n \in Nat : g = f /\ q = p /\ n = i
    BY <2>2
  <2>6. Continues(g, q, n)'
    BY <2>4, <2>5
  <2>7. g = On(i).file' /\ q = On(i).from' /\ n = i
    BY <2>1, <2>5 DEF f, p
  <2> QED BY <2>6, <2>7
<1>12. ASSUME NEW i \in Way, NEW j \in Way, i < j, OfFile(On(i))', OfFile(On(j))'
       PROVE  (/\ On(i).file <= On(j).file
               /\ On(i).file = On(j).file => On(j).kind = "data" /\ End(On(i)) <= On(j).from)'
  <2>1. i # 0 /\ j # 0
    BY <1>4, <1>8, <1>12 DEF Way, NoReport, Plain, OfFile
  <2>2. On(i)' = On(i) /\ On(j)' = On(j)
    BY <1>7, <2>1
  <2> QED BY <1>12, <2>2 DEF WayInv, OfFile, End
<1>13. WayInv'
  BY <1>7, <1>10, <1>11, <1>12 DEF WayInv
<1>14. transfer' <= file'
  BY <1>1, <1>3, <1>6 DEF WellSent, OfFile, HostInv
<1>15. ASSUME file' # NoFile, file' \notin unlinked', pos' < files'[file'].size
       PROVE  Continues(file, pos, Len(outQueue) + 1)'
  <2> DEFINE n == Len(outQueue) + 1
  <2>1. /\ file \in 1..file /\ pos < files[file].size /\ n \in Nat /\ Continues(file, pos, n)
        /\ n' = n
    BY <1>1, <1>4, <1>15 DEF HostInv, NoFile
  <2>2. /\ r.kind = "receive" => r.file <= file
        /\ r.kind = "data" /\ r.file = file => End(r) <= pos
    BY <1>3 DEF WellSent, OfFile
  <2> HIDE DEF n
  <2>3. \A f, p \in Nat : f = file /\ p = pos => Continues(f, p, n)'
    BY <1>1, <1>3, <1>5, <2>1, <2>2, ContinuesPassed
  <2>4. PICK f \in Nat, p \in Nat : f = file /\ p = pos
    BY <1>4
  <2>5. Continues(f, p, n)'
    BY <2>3, <2>4
  <2>6. f = file' /\ p = pos' /\ n' = n
    BY <1>1, <2>1, <2>4
  <2>7. n' = Len(outQueue') + 1
    BY DEF n
  <2> QED BY <2>5, <2>6, <2>7
<1> QED BY <1>6, <1>13, <1>14, <1>15 DEF HostInv

\* What the host sends next, r: the file it is flashing, where it stopped.
Sends(r) ==
    /\ file' \in Nat /\ pos' \in Nat /\ file <= file' /\ unlinked' = unlinked
    /\ \A f \in 1..file : files'[f] = files[f]
    /\ ~OfFile(r) => UNCHANGED <<file, pos, files>>
    /\ OfFile(r) => r.file = file' /\ End(r) = pos'
    /\ r.kind = "receive" => file' = file + 1 /\ End(r) = 0
    /\ r.kind = "data" => /\ file' = file /\ files' = files /\ r.from = pos /\ r.len > 0
                          /\ file # NoFile /\ file \notin unlinked /\ pos < files[file].size

\* Sent to the OUT endpoint, it comes last.
LEMMA SendOutWhole ==
    ASSUME TypeInv, SendingInv, NEW r \in OkReports, SendOut(r), Sends(r)
    PROVE  SendingInv'
<1> USE DEF SendingInv
<1>n. PICK n \in Nat : n = Len(outQueue)
  BY OnTypes
<1>1. /\ outQueue' = Append(outQueue, r) /\ outReport' = outReport
      /\ UNCHANGED <<phase, transfer, image, events>>
  BY DEF SendOut, reportVars, stVars
<1>2. /\ n \in Nat /\ file \in Nat /\ pos \in Nat /\ transfer \in Nat
      /\ r.file \in Nat /\ r.from \in Nat /\ r.len \in Nat /\ End(r) = r.from + r.len
  BY <1>n, OnTypes
<1>3. /\ Len(outQueue') = n + 1 /\ outQueue'[n + 1] = r
      /\ \A i \in 1..n : outQueue'[i] = outQueue[i]
  <2>1. outQueue \in Seq(OkReports)
    BY DEF TypeInv, WorkerTypes
  <2> QED BY <1>1, <1>n, <2>1, AppendProperties, LenProperties
<1>4. /\ Way' = Way \cup {n + 1} /\ n + 1 \notin Way /\ On(n + 1)' = r
      /\ \A i \in Way : On(i)' = On(i) /\ i < n + 1 /\ i \in Nat
  <2>1. Way' = 0..(n + 1) /\ Way = 0..n
    BY <1>n, <1>3 DEF Way
  <2>2. On(n + 1)' = r
    BY <1>2, <1>3 DEF On
  <2>3. ASSUME NEW i \in Way PROVE On(i)' = On(i)
    <3>1. i = 0 \/ i \in 1..n
      BY <1>2, <2>1
    <3> QED BY <1>1, <1>3, <3>1 DEF On
  <2> QED BY <1>2, <2>1, <2>2, <2>3
<1>5. \A f, p, m : Continues(f, p, m) => Continues(f, p, m)'
  BY <1>1, <1>4 DEF Continues, Reaches, OfFile, End
<1>6. ASSUME NEW i \in Way, OfFile(On(i))
      PROVE  /\ On(i).file \in Nat /\ On(i).file \in 1..file /\ End(On(i)) \in Nat
             /\ On(i).file = file => End(On(i)) <= pos
  <2>1. On(i) \in OkReports /\ WellSent(On(i))
    BY OnTypes DEF WayInv
  <2>2. On(i).file \in Nat /\ On(i).file \in Files /\ End(On(i)) \in Nat
    BY <1>6, <2>1, OnTypes
  <2> QED BY <1>2, <1>6, <2>1, <2>2, BoundsAreNatural DEF WellSent
<1>7. ASSUME NEW i \in Way PROVE WellSent(On(i))'
  <2>1. On(i)' = On(i) /\ WellSent(On(i))
    BY <1>4 DEF WayInv
  <2>2. CASE OfFile(On(i))
    <3>1. /\ On(i).file \in 1..file /\ files'[On(i).file] = files[On(i).file]
          /\ On(i).file <= file' /\ End(On(i)) \in Nat
      BY <1>2, <1>6, <2>2 DEF Sends
    <3>2. On(i).file = file' => file' = file
      BY <1>2, <3>1 DEF Sends
    <3>3. file' = file => pos <= pos'
      BY <1>2 DEF Sends, OfFile
    <3>4. On(i).file = file' => End(On(i)) <= pos'
      BY <1>2, <1>6, <2>2, <3>1, <3>2, <3>3 DEF Sends
    <3> QED BY <1>1, <2>1, <2>2, <3>1, <3>4 DEF WellSent, OfFile, End
  <2>3. CASE ~OfFile(On(i))
    BY <2>1, <2>3 DEF WellSent, OfFile
  <2> QED BY <2>2, <2>3
<1>8. WellSent(On(n + 1))'
  <2>1. OfFile(r) => transfer' <= r.file /\ r.file <= file' /\ End(r) <= pos'
    BY <1>1, <1>2 DEF Sends, HostInv
  <2>2. r.kind = "receive" => transfer' < r.file /\ End(r) = 0
    BY <1>1, <1>2 DEF Sends, HostInv, OfFile
  <2>3. r.kind = "data" => r.len > 0 /\ r.from < files'[r.file].size
    BY DEF Sends, OfFile
  <2> QED BY <1>4, <2>1, <2>2, <2>3 DEF WellSent, OfFile, End
<1>9. ASSUME NEW i \in Way', On(i)'.kind = "data"
      PROVE  Continues(On(i).file, On(i).from, i)'
  <2>1. CASE i \in Way
    <3>1. On(i)' = On(i) /\ Continues(On(i).file, On(i).from, i)
      BY <1>4, <1>9, <2>1 DEF WayInv
    <3>2. \A f, p : f = On(i).file /\ p = On(i).from => Continues(f, p, i)'
      BY <1>5, <3>1
    <3> QED BY <3>1, <3>2
  <2>2. CASE i = n + 1
    <3>1. r.kind = "data" /\ On(i)' = r /\ r.file = file /\ r.from = pos
      BY <1>4, <1>9, <2>2 DEF Sends, OfFile
    <3>2. Continues(file, pos, n + 1)
      BY <1>n, <3>1 DEF HostInv, Sends
    <3>3. Continues(r.file, r.from, i)'
      BY <1>5, <2>2, <3>1, <3>2
    <3> QED BY <3>1, <3>3
  <2> QED BY <1>4, <1>9, <2>1, <2>2
<1>10. ASSUME NEW i \in Way', NEW j \in Way', i < j, OfFile(On(i))', OfFile(On(j))'
       PROVE  (/\ On(i).file <= On(j).file
               /\ On(i).file = On(j).file => On(j).kind = "data" /\ End(On(i)) <= On(j).from)'
  <2>1. i \in Way
    BY <1>2, <1>4, <1>10
  <2>2. On(i)' = On(i) /\ OfFile(On(i))
    BY <1>4, <1>10, <2>1 DEF OfFile
  <2>3. CASE j \in Way
    <3>1. On(j)' = On(j) /\ OfFile(On(j))
      BY <1>4, <1>10, <2>3 DEF OfFile
    <3> QED BY <1>10, <2>1, <2>2, <2>3, <3>1 DEF WayInv, End
  <2>4. CASE j = n + 1
    <3>1. On(j)' = r /\ OfFile(r) /\ r.file = file'
      BY <1>4, <1>10, <2>4 DEF OfFile, Sends
    <3>2. On(i).file \in 1..file /\ (On(i).file = file => End(On(i)) <= pos)
      BY <1>6, <2>1, <2>2
    <3>3. On(i).file <= r.file
      BY <1>2, <3>1, <3>2 DEF Sends
    <3>4. ASSUME On(i).file = r.file PROVE r.kind = "data" /\ End(On(i)) <= r.from
      <4>1. r.kind # "receive"
        BY <1>2, <3>1, <3>2, <3>4 DEF Sends
      <4> QED BY <3>1, <3>2, <3>4, <4>1 DEF OfFile, Sends
    <3> QED BY <2>2, <3>1, <3>3, <3>4 DEF End
  <2> QED BY <1>4, <1>10, <2>3, <2>4
<1>11. WayInv'
  BY <1>4, <1>7, <1>8, <1>9, <1>10 DEF WayInv
<1>12. ASSUME file' # NoFile, file' \notin unlinked', pos' < files'[file'].size
       PROVE  Continues(file, pos, Len(outQueue) + 1)'
  <2>1. CASE OfFile(r)
    <3>1. n + 1 \in Way' /\ n + 1 < Len(outQueue') + 1
      BY <1>2, <1>3, <1>4
    <3>2. (OfFile(On(n + 1)) /\ On(n + 1).file = file /\ End(On(n + 1)) = pos)'
      BY <1>4, <2>1 DEF Sends, OfFile, End
    <3> QED BY <3>1, <3>2 DEF Continues
  <2>2. CASE ~OfFile(r)
    <3>1. file' = file /\ pos' = pos /\ Continues(file, pos, n + 1)
      BY <1>n, <1>12, <2>2 DEF Sends, HostInv
    <3>2. Continues(file, pos, n + 2)
      BY <1>2, <1>4, <3>1 DEF Continues
    <3>3. \A f, p : f = file /\ p = pos => Continues(f, p, n + 2)'
      <4>1. ASSUME NEW f, NEW p, f = file, p = pos PROVE Continues(f, p, n + 2)'
        <5>1. Continues(f, p, n + 2)
          BY <3>2, <4>1
        <5>2. CASE Reaches(f, p)
          BY <1>1, <5>2 DEF Continues, Reaches
        <5>3. ASSUME NEW i \in Way, OfFile(On(i)), On(i).file = f, End(On(i)) = p
              PROVE  Continues(f, p, n + 2)'
          <6>1. i \in Way' /\ On(i)' = On(i) /\ i < (n + 2)'
            BY <1>2, <1>3, <1>4, <5>3
          <6> QED BY <5>3, <6>1 DEF Continues, OfFile, End
        <5> QED BY <5>1, <5>2, <5>3 DEF Continues
      <4> QED BY <4>1
    <3> QED BY <1>2, <1>3, <3>1, <3>3
  <2> QED BY <2>1, <2>2
<1>13. transfer' <= file'
  BY <1>1, <1>2 DEF HostInv, Sends
<1>14. ImageInv' /\ FlashInv'
  BY <1>1, FlashesSame DEF ImageInv, Sends
<1> QED BY <1>11, <1>12, <1>13, <1>14 DEF HostInv

\* By SET_REPORT it is handled at once, with nothing on its way.
LEMMA SetReportWhole ==
    ASSUME TypeInv, SendingInv, NEW r \in OkReports, SetReport(r), Sends(r),
           outQueue = << >>, outReport = NoReport
    PROVE  SendingInv'
<1> USE DEF SendingInv
<1>1. HandleReport(r) /\ outQueue' = << >> /\ outReport' = NoReport
  BY DEF SetReport, outVars
<1>2. /\ file \in Nat /\ pos \in Nat /\ transfer \in Nat
      /\ r.file \in Nat /\ r.from \in Nat /\ r.len \in Nat /\ End(r) = r.from + r.len
      /\ OfFile(r) => r.file \in Files
  BY OnTypes
<1>3. Way = {0} /\ On(0) = NoReport /\ Way' = {0} /\ On(0)' = NoReport
  BY <1>1 DEF Way, On
<1>4. ~OfFile(NoReport) /\ NoReport.kind # "data"
  BY DEF NoReport, Plain, OfFile
<1>5. \A f, p, n : Continues(f, p, n) => Reaches(f, p)
  BY <1>3, <1>4 DEF Continues
<1>6. WayInv'
  BY <1>3, <1>4 DEF WayInv, WellSent, OfFile
<1>7. CASE OfFile(r) /\ r.kind = "receive"
  <2>1. /\ phase' = "Receiving" /\ transfer' = r.file /\ image' = << >> /\ events' = events
    BY <1>1, <1>7 DEF HandleReport, HandleReceive, HandleReset, HandleUnknown, HandleData, Ignored
  <2>2. << >> = [k \in 1..0 |-> <<transfer', k>>] /\ Len(<< >>) = 0
    OBVIOUS
  <2>3. ImageInv' /\ Reaches(file, pos)'
    BY <1>7, <2>1, <2>2 DEF ImageInv, Reaches, Sends
  <2>4. FlashInv'
    BY <2>1, FlashesSame DEF Sends
  <2>5. transfer' <= file'
    BY <1>7, <2>1 DEF Sends
  <2>6. HostInv'
    BY <2>3, <2>5 DEF HostInv, Continues
  <2> QED BY <1>6, <2>3, <2>4, <2>6
<1>8. CASE ~(OfFile(r) /\ r.kind = "receive")
  <2>1. r.kind # "receive"
    BY <1>8 DEF OfFile
  <2>2. Ready(r)
    <3>1. ASSUME r.kind = "data"
          PROVE  /\ Reaches(r.file, r.from) /\ r.len > 0 /\ r.from < files[r.file].size
                 /\ r.file \in 1..file
      <4>1. r.file = file /\ r.from = pos /\ Continues(file, pos, Len(outQueue) + 1)
        BY <3>1 DEF Sends, OfFile, HostInv
      <4>2. file \in 1..file
        BY <1>2, <3>1 DEF Sends, NoFile
      <4> QED BY <1>5, <3>1, <4>1, <4>2 DEF Sends
    <3> QED BY <2>1, <3>1 DEF Ready
  <2>3. /\ ImageInv' /\ FlashInv'
        /\ r.kind = "data" => /\ transfer' = transfer /\ r.file = transfer
                              /\ End(r) < files[r.file].size => Reaches(r.file, End(r))'
        /\ ~OfFile(r) => UNCHANGED stVars
    BY <1>1, <2>2, HandledInOrder DEF Sends
  <2>4. transfer' = transfer
    BY <2>1, <2>3 DEF OfFile, stVars
  <2>5. ASSUME file' # NoFile, file' \notin unlinked', pos' < files'[file'].size
        PROVE  Reaches(file, pos)'
    <3>1. CASE r.kind = "data"
      <4>1. r.file = file' /\ End(r) = pos' /\ files' = files
        BY <3>1 DEF Sends, OfFile
      <4> QED BY <2>3, <2>5, <3>1, <4>1 DEF Reaches
    <3>2. CASE r.kind # "data"
      <4>1. UNCHANGED <<file, pos, files, unlinked>> /\ UNCHANGED stVars
        BY <2>1, <2>3, <3>2 DEF Sends, OfFile
      <4>2. Reaches(file, pos)
        BY <1>5, <2>5, <4>1 DEF HostInv
      <4> QED BY <4>1, <4>2 DEF Reaches, stVars
    <3> QED BY <3>1, <3>2
  <2>6. HostInv'
    <3>1. transfer' <= file'
      BY <1>2, <2>4 DEF Sends, HostInv
    <3> QED BY <2>5, <3>1 DEF HostInv, Continues
  <2> QED BY <1>6, <2>3, <2>6
<1> QED BY <1>7, <1>8

\* A step that moves neither reports nor the image.
LEMMA SameWhole ==
    ASSUME SendingInv,
           UNCHANGED <<phase, transfer, image, events, outQueue, outReport, file, pos, files, unlinked>>
    PROVE  SendingInv'
<1>1. Way' = Way /\ \A i : On(i)' = On(i)
  BY DEF Way, On
<1>2. \A r : WellSent(r)' <=> WellSent(r)
  BY DEF WellSent, OfFile, End
<1>3. \A f, p, n : Continues(f, p, n)' <=> Continues(f, p, n)
  BY <1>1 DEF Continues, Reaches, OfFile, End
<1>4. WayInv'
  BY <1>1, <1>2, <1>3 DEF SendingInv, WayInv, OfFile, End, WellSent
<1>5. HostInv'
  BY <1>3 DEF SendingInv, HostInv
<1>6. ImageInv' /\ FlashInv'
  BY DEF SendingInv, ImageInv, FlashInv, Flashes, IsFile
<1> QED BY <1>4, <1>5, <1>6 DEF SendingInv

\* The worker takes the first report; those behind it move up.
LEMMA OutStartWhole ==
    ASSUME TypeInv, IdleInv, SendingInv, OutStart
    PROVE  SendingInv'
<1> USE DEF SendingInv
<1>n. PICK n \in Nat : n = Len(outQueue)
  BY OnTypes
<1>1. /\ outQueue # << >> /\ outReport' = Head(outQueue) /\ outQueue' = Tail(outQueue)
      /\ outReport = NoReport
      /\ UNCHANGED <<phase, transfer, image, events, file, pos, files, unlinked>>
  BY DEF OutStart, IdleInv, reportVars, stVars, hostVars
<1>2. /\ n > 0 /\ Len(outQueue') = n - 1 /\ outReport' = outQueue[1]
      /\ \A i \in 1..(n - 1) : outQueue'[i] = outQueue[i + 1]
  <2>1. outQueue \in Seq(OkReports)
    BY DEF TypeInv, WorkerTypes
  <2> QED BY <1>n, <1>1, <2>1, QueueParts
<1>3. Way' = 0..(n - 1) /\ Way = 0..n /\ ~OfFile(On(0))
  BY <1>n, <1>1, <1>2, NoReportIsNone DEF Way, On
<1>4. ASSUME NEW i \in Way' PROVE On(i)' = On(i + 1) /\ i + 1 \in Way /\ i \in Nat
  <2>1. i \in 0..(n - 1) /\ i + 1 \in 0..n /\ i + 1 # 0
    BY <1>2, <1>3
  <2>2. CASE i = 0
    BY <1>2, <1>3, <2>1, <2>2 DEF On
  <2>3. CASE i # 0
    <3>1. i \in 1..(n - 1)
      BY <2>1, <2>3
    <3> QED BY <1>2, <1>3, <2>1, <2>3, <3>1 DEF On
  <2> QED BY <2>2, <2>3
<1>5. ASSUME NEW f, NEW p, NEW m \in Nat, Continues(f, p, m + 1) PROVE Continues(f, p, m)'
  <2>1. CASE Reaches(f, p)
    BY <1>1, <2>1 DEF Continues, Reaches
  <2>2. ASSUME NEW i \in Way, i < m + 1, OfFile(On(i)), On(i).file = f, End(On(i)) = p
        PROVE  Continues(f, p, m)'
    <3>1. i \in 0..n /\ i # 0
      BY <1>3, <2>2
    <3>2. i - 1 \in Way' /\ i - 1 < m /\ (i - 1) + 1 = i
      BY <1>3, <2>2, <3>1
    <3>3. PICK j \in Way' : j = i - 1
      BY <3>2
    <3>4. On(j)' = On(i) /\ j < m
      BY <1>4, <3>2, <3>3
    <3> QED BY <2>2, <3>3, <3>4 DEF Continues, OfFile, End
  <2> QED BY <1>5, <2>1, <2>2 DEF Continues
<1>6. ASSUME NEW i \in Way' PROVE WellSent(On(i))'
  BY <1>1, <1>4 DEF WayInv, WellSent, OfFile, End
<1>7. ASSUME NEW i \in Way', On(i)'.kind = "data" PROVE Continues(On(i).file, On(i).from, i)'
  <2>1. On(i)' = On(i + 1) /\ i \in Nat /\ Continues(On(i + 1).file, On(i + 1).from, i + 1)
    BY <1>4, <1>7 DEF WayInv
  <2>2. \A f, p : f = On(i + 1).file /\ p = On(i + 1).from => Continues(f, p, i)'
    BY <1>5, <2>1
  <2> QED BY <2>1, <2>2
<1>8. ASSUME NEW i \in Way', NEW j \in Way', i < j, OfFile(On(i))', OfFile(On(j))'
      PROVE  (/\ On(i).file <= On(j).file
              /\ On(i).file = On(j).file => On(j).kind = "data" /\ End(On(i)) <= On(j).from)'
  <2>1. On(i)' = On(i + 1) /\ On(j)' = On(j + 1) /\ i + 1 \in Way /\ j + 1 \in Way /\ i + 1 < j + 1
    BY <1>4, <1>8
  <2>2. OfFile(On(i + 1)) /\ OfFile(On(j + 1))
    BY <1>8, <2>1 DEF OfFile
  <2> QED BY <2>1, <2>2 DEF WayInv, End
<1>9. WayInv'
  BY <1>6, <1>7, <1>8 DEF WayInv
<1>10. HostInv'
  <2>1. ASSUME file # NoFile, file \notin unlinked, pos < files[file].size
        PROVE  Continues(file, pos, Len(outQueue) + 1)'
    <3>1. Continues(file, pos, n + 1)
      BY <1>n, <2>1 DEF HostInv
    <3>2. \A f, p : f = file /\ p = pos => Continues(f, p, n)'
      BY <1>5, <3>1
    <3>3. n = Len(outQueue') + 1
      BY <1>2
    <3> QED BY <1>1, <3>2, <3>3
  <2> QED BY <1>1, <2>1 DEF HostInv
<1>11. ImageInv' /\ FlashInv'
  BY <1>1 DEF ImageInv, FlashInv, Flashes, IsFile
<1> QED BY <1>9, <1>10, <1>11

\* The host takes back its last report, from the queue or from a sleeping worker,
\* and sends no more of that file.
LEMMA UnlinkedWhole ==
    ASSUME TypeInv, SendingInv, OutUnlinked \/ QueuedUnlinked
    PROVE  SendingInv'
<1> USE DEF SendingInv
<1>n. PICK n \in Nat : n = Len(outQueue)
  BY OnTypes
<1>w. Way = 0..n
  BY <1>n DEF Way
<1>1. UNCHANGED <<phase, transfer, image, events, file, pos, files>>
  BY DEF OutUnlinked, QueuedUnlinked, reportVars, stVars
<1>2. /\ \A i \in Way' : (i \in Way /\ On(i)' = On(i)) \/ On(i)' = NoReport
      /\ Way' \subseteq Way
      /\ Len(outQueue') \in Nat
      /\ \A i \in Way : \/ i \in Way' /\ On(i)' = On(i) /\ i < Len(outQueue') + 1
                        \/ On(i).file \in unlinked'
  <2>1. CASE OutUnlinked
    <3>1. /\ outQueue = << >> /\ outQueue' = << >> /\ outReport' = NoReport
          /\ unlinked' = unlinked \cup {outReport.file}
      BY <2>1 DEF OutUnlinked
    <3>2. Way = {0} /\ Way' = {0} /\ On(0) = outReport /\ On(0)' = NoReport /\ Len(outQueue') = 0
      BY <3>1 DEF Way, On
    <3> QED BY <3>1, <3>2
  <2>2. CASE QueuedUnlinked
    <3>1. /\ outQueue # << >> /\ outQueue' = Front(outQueue) /\ outReport' = outReport
          /\ unlinked' = unlinked \cup {Last(outQueue).file}
      BY <2>2 DEF QueuedUnlinked
    <3>2. outQueue \in Seq(OkReports)
      BY DEF TypeInv, WorkerTypes
    <3>3. /\ n > 0 /\ Len(outQueue') = n - 1
          /\ \A i \in 1..(n - 1) : outQueue'[i] = outQueue[i]
      BY <1>n, <3>1, <3>2, QueueParts
    <3>4. Last(outQueue) = On(n)
      BY <1>n, <3>3 DEF Last, On
    <3>5. Way' = 0..(n - 1)
      BY <3>3 DEF Way
    <3>6. ASSUME NEW i \in 0..(n - 1) PROVE On(i)' = On(i)
      <4>1. i = 0 \/ i \in 1..(n - 1)
        BY <3>3
      <4> QED BY <3>1, <3>3, <4>1 DEF On
    <3>7. \A i \in 0..n : (i \in 0..(n - 1) /\ i < n) \/ i = n
      BY <3>3
    <3>8. \A i \in 0..(n - 1) : i \in 0..n
      BY <3>3
    <3> QED BY <1>w, <3>1, <3>3, <3>4, <3>5, <3>6, <3>7, <3>8
  <2> QED BY <2>1, <2>2
<1>3. ~OfFile(NoReport) /\ NoReport.kind # "data"
  BY DEF NoReport, Plain, OfFile
<1>4. ASSUME NEW i \in Way' PROVE WellSent(On(i))'
  <2>1. CASE On(i)' = NoReport
    BY <1>3, <2>1 DEF WellSent, OfFile
  <2>2. CASE i \in Way /\ On(i)' = On(i)
    BY <1>1, <2>2 DEF WayInv, WellSent, OfFile, End
  <2> QED BY <1>2, <2>1, <2>2
<1>5. ASSUME NEW i \in Way', NEW j \in Way', i < j, OfFile(On(i))', OfFile(On(j))'
      PROVE  (/\ On(i).file <= On(j).file
              /\ On(i).file = On(j).file => On(j).kind = "data" /\ End(On(i)) <= On(j).from)'
  <2>1. On(i)' = On(i) /\ On(j)' = On(j) /\ i \in Way /\ j \in Way
    BY <1>2, <1>3, <1>5 DEF OfFile
  <2> QED BY <1>5, <2>1 DEF WayInv, End, OfFile
<1>6. ASSUME NEW i \in Way', On(i)'.kind = "data" PROVE Continues(On(i).file, On(i).from, i)'
  <2>1. On(i)' = On(i) /\ i \in Way /\ i \in Nat
    BY <1>2, <1>3, <1>6, <1>w
  <2>2. CASE Reaches(On(i).file, On(i).from)
    BY <1>1, <2>1, <2>2 DEF Continues, Reaches
  <2>3. ASSUME NEW k \in Way, k < i, OfFile(On(k)), On(k).file = On(i).file,
               End(On(k)) = On(i).from
        PROVE  Continues(On(i).file, On(i).from, i)'
    <3>1. k \in Way' /\ On(k)' = On(k)
      <4>1. k = 0 \/ k \in 1..Len(outQueue')
        <5>1. i \in 0..Len(outQueue')
          BY <1>6 DEF Way
        <5> QED BY <1>2, <1>w, <2>3, <5>1
      <4>2. k \in Way'
        BY <1>2, <4>1 DEF Way
      <4>3. CASE On(k)' = NoReport
        <5>1. CASE OutUnlinked
          <6>1. Way = {0}
            BY <5>1 DEF OutUnlinked, Way
          <6> QED BY <2>1, <2>3, <6>1
        <5>2. CASE QueuedUnlinked
          <6>1. outQueue \in Seq(OkReports) /\ outQueue # << >>
                /\ outQueue' = Front(outQueue) /\ outReport' = outReport
            BY <5>2 DEF TypeInv, WorkerTypes, QueuedUnlinked
          <6>2. \A m \in 1..Len(outQueue') : outQueue'[m] = outQueue[m]
            BY <6>1, QueueParts
          <6>3. On(k)' = On(k)
            BY <4>1, <6>1, <6>2 DEF On
          <6> QED BY <4>2, <6>3
        <5> QED BY <5>1, <5>2
      <4> QED BY <1>2, <4>2, <4>3
    <3> QED BY <2>1, <2>3, <3>1 DEF Continues, OfFile, End
  <2> QED BY <1>6, <2>1, <2>2, <2>3 DEF WayInv, Continues
<1>7. WayInv'
  BY <1>4, <1>5, <1>6 DEF WayInv
<1>8. ASSUME file # NoFile, file \notin unlinked', pos < files[file].size
      PROVE  Continues(file, pos, Len(outQueue) + 1)'
  <2>1. unlinked \subseteq unlinked'
    BY DEF OutUnlinked, QueuedUnlinked
  <2>2. Continues(file, pos, Len(outQueue) + 1)
    BY <1>8, <2>1 DEF HostInv
  <2>3. CASE Reaches(file, pos)
    BY <1>1, <2>3 DEF Continues, Reaches
  <2>4. ASSUME NEW k \in Way, OfFile(On(k)), On(k).file = file, End(On(k)) = pos
        PROVE  Continues(file, pos, Len(outQueue) + 1)'
    <3>1. k \in Way' /\ On(k)' = On(k) /\ k < Len(outQueue') + 1
      BY <1>2, <1>8, <2>4
    <3> QED BY <1>1, <2>4, <3>1 DEF Continues, OfFile, End
  <2> QED BY <2>2, <2>3, <2>4 DEF Continues
<1>9. HostInv'
  BY <1>1, <1>8 DEF HostInv
<1>10. ImageInv' /\ FlashInv'
  BY <1>1 DEF ImageInv, FlashInv, Flashes, IsFile
<1> QED BY <1>7, <1>9, <1>10

\* IdleInv is inductive.
LEMMA IdleStep == ASSUME IdleInv, [Next]_vars PROVE IdleInv'
<1> USE DEF IdleInv
<1>1. ASSUME NEW r, SendReport(r), path' = path PROVE IdleInv'
  BY <1>1 DEF SendReport, SendOut, SetReport, outVars
<1>2. CASE \/ \E n \in Sizes, good \in BOOLEAN : StartFile(n, good)
           \/ \E n \in 1..Chunk : SendData(n)
           \/ \E k \in Plains : SendPlain(k)
  BY <1>1, <1>2 DEF StartFile, SendData, SendPlain
<1>3. CASE OutStep \/ OutUnlinked \/ QueuedUnlinked
  BY <1>3 DEF OutStep, OutStart, OutSlept, OutHandle, OutUnlinked, QueuedUnlinked, hostVars
<1>4. CASE InStart \/ InStep \/ InUnlinked \/ InUnlinkedLate \/ GetReport \/ UNCHANGED vars
  BY <1>4 DEF InStart, InStep, InCheck, InWake, InReply, InUnlinked, InUnlinkedLate, GetReport,
              vars, outVars, hostVars
<1> QED BY <1>2, <1>3, <1>4 DEF Next, Host

\* What a single-path host sends, it sends where it stopped.
LEMMA HostSendsWhole ==
    ASSUME TypeInv, IdleInv, SendingInv, path # "mixed",
           \/ \E n \in Sizes, good \in BOOLEAN : StartFile(n, good)
           \/ \E n \in 1..Chunk : SendData(n)
           \/ \E k \in Plains : SendPlain(k)
    PROVE  SendingInv'
<1>0. file \in Nat /\ pos \in Nat /\ pos \in 0..MaxUnits
  BY OnTypes DEF TypeInv, HostTypes
<1>1. ASSUME NEW r \in OkReports, SendReport(r), Sends(r) PROVE SendingInv'
  <2>1. CASE SendOut(r)
    BY <1>1, <2>1, SendOutWhole
  <2>2. CASE SetReport(r)
    <3>1. outQueue = << >> /\ outReport = NoReport
      BY <2>2 DEF SetReport, IdleInv
    <3> QED BY <1>1, <2>2, <3>1, SetReportWhole
  <2> QED BY <1>1, <2>1, <2>2 DEF SendReport
<1>2. ASSUME NEW n \in Sizes, NEW good \in BOOLEAN, StartFile(n, good) PROVE SendingInv'
  <2> DEFINE r == ReceiveSbFile(file + 1)
  <2>1. file + 1 \in Files /\ r \in OkReports
    <3>1. file + 1 \in Files
      BY <1>2, BoundsAreNatural DEF StartFile, TypeInv, HostTypes
    <3> QED BY <3>1, ReportsBuilt
  <2>2. r.kind = "receive" /\ r.file = file + 1 /\ End(r) = 0
    BY DEF ReceiveSbFile, End
  <2>3. \A f \in 1..file : files'[f] = files[f]
    <3>1. files \in [Files -> [size : Sizes \cup {0}, good : BOOLEAN]]
      BY DEF TypeInv, HostTypes
    <3>2. \A f \in 1..file : f \in Files /\ f # file + 1
      BY <1>0, <2>1, BoundsAreNatural
    <3> QED BY <1>2, <3>1, <3>2 DEF StartFile
  <2>4. file' = file + 1 /\ pos' = 0 /\ unlinked' = unlinked /\ SendReport(r)
    BY <1>2 DEF StartFile
  <2> HIDE DEF r
  <2>5. Sends(r)
    BY <1>0, <2>2, <2>3, <2>4 DEF Sends, OfFile
  <2> QED BY <1>1, <2>1, <2>4, <2>5
<1>3. ASSUME NEW n \in 1..Chunk, SendData(n) PROVE SendingInv'
  <2> DEFINE r == Data(file, pos, n)
  <2>1. /\ file # NoFile /\ file \notin unlinked /\ pos < files[file].size /\ pos' = pos + n
        /\ UNCHANGED <<file, files, unlinked>> /\ SendReport(r)
    BY <1>3 DEF SendData
  <2>2. r.kind = "data" /\ r.file = file /\ r.from = pos /\ r.len = n /\ End(r) = pos + n
    BY DEF Data, End
  <2>3. r \in OkReports
    <3>1. file \in Files
      BY <2>1, BoundsAreNatural DEF TypeInv, HostTypes
    <3>2. files[file].size \in Sizes \cup {0}
      BY <3>1 DEF TypeInv, HostTypes
    <3>3. files[file].size \in Nat /\ files[file].size <= MaxSize
      BY <3>2, BoundsAreNatural
    <3>4. pos + n <= MaxUnits /\ n \in 0..Chunk
      BY <1>0, <2>1, <3>3, BoundsAreNatural
    <3> QED BY <1>0, <3>1, <3>4, ReportsBuilt
  <2> HIDE DEF r
  <2>4. n \in Nat /\ n > 0
    BY BoundsAreNatural
  <2>5. Sends(r)
    BY <1>0, <2>1, <2>2, <2>4 DEF Sends, OfFile
  <2> QED BY <1>1, <2>1, <2>3, <2>5
<1>4. ASSUME NEW k \in Plains, SendPlain(k) PROVE SendingInv'
  <2> DEFINE r == Plain(k)
  <2>1. r \in OkReports /\ ~OfFile(r)
    BY ReportsBuilt DEF Plain, OfFile, Plains
  <2>2. UNCHANGED <<file, pos, files, unlinked>> /\ SendReport(r)
    BY <1>4 DEF SendPlain
  <2> HIDE DEF r
  <2>3. Sends(r)
    BY <1>0, <2>1, <2>2 DEF Sends, OfFile
  <2> QED BY <1>1, <2>1, <2>2, <2>3
<1> QED BY <1>2, <1>3, <1>4

\* WholeInv is inductive.
LEMMA WholeStep == ASSUME TypeInv, TypeInv', WholeInv, [Next]_vars PROVE WholeInv'
<1> USE DEF WholeInv
<1>1. IdleInv' /\ path' = path
  <2>1. path' = path
    BY DEF Next, Host, OutStep, InStep, StartFile, SendData, SendPlain, OutUnlinked, QueuedUnlinked,
           InUnlinked, InUnlinkedLate, GetReport, OutStart, OutSlept, OutHandle, InStart, InCheck,
           InWake, InReply, vars, hostVars
  <2> QED BY <2>1, IdleStep
<1>2. ASSUME path # "mixed" PROVE SendingInv'
  <2>0. IdleInv /\ SendingInv
    BY <1>2
  <2>1. CASE \/ \E n \in Sizes, good \in BOOLEAN : StartFile(n, good)
             \/ \E n \in 1..Chunk : SendData(n)
             \/ \E k \in Plains : SendPlain(k)
    BY <1>2, <2>0, <2>1, HostSendsWhole
  <2>2. CASE OutStart
    BY <2>0, <2>2, OutStartWhole
  <2>3. CASE OutHandle
    BY <2>0, <2>3, OutHandleWhole
  <2>4. CASE OutUnlinked \/ QueuedUnlinked
    BY <2>0, <2>4, UnlinkedWhole
  <2>5. CASE OutSlept \/ InStart \/ InStep \/ InUnlinked \/ InUnlinkedLate \/ GetReport
             \/ UNCHANGED vars
    <3>1. UNCHANGED <<phase, transfer, image, events, outQueue, outReport, file, pos, files, unlinked>>
      BY <2>5 DEF OutSlept, InStart, InStep, InCheck, InWake, InReply, InUnlinked, InUnlinkedLate,
                  GetReport, vars, reportVars, stVars, outVars, hostVars
    <3> QED BY <2>0, <3>1, SameWhole
  <2> QED BY <2>1, <2>2, <2>3, <2>4, <2>5 DEF Next, Host, OutStep
<1> QED BY <1>1, <1>2

\* WholeInv holds initially.
LEMMA WholeInit == ASSUME Init PROVE WholeInv
<1>1. /\ outQueue = << >> /\ Len(outQueue) = 0 /\ Len(events) = 0 /\ outReport = NoReport
      /\ transfer = 0 /\ file = 0 /\ phase = "Idle" /\ outWorker = "idle"
  BY DEF Init, NoFile
<1>2. Way = {0} /\ On(0) = NoReport
  BY <1>1 DEF Way, On
<1>3. WayInv
  BY <1>2 DEF WayInv, NoReport, Plain, WellSent, OfFile
<1>4. HostInv /\ ImageInv /\ IdleInv
  BY <1>1 DEF HostInv, ImageInv, IdleInv, NoFile
<1>5. Flashes = {}
  BY <1>1 DEF Flashes
<1> QED BY <1>3, <1>4, <1>5 DEF WholeInv, SendingInv, FlashInv

\* Bootloader.WholeImage holds: what a single-path host flashes is one of its
\* valid files, whole and in order, for files and reports of any size, any number
\* of reports under way, and whatever the host takes back.
THEOREM FlashesWholeFiles == Spec => []WholeImage
<1>1. Init => TypeInv /\ WholeInv
  BY TypeInit, WholeInit
<1>2. TypeInv /\ WholeInv /\ [Next]_vars => TypeInv' /\ WholeInv'
  BY TypeStep, WholeStep
<1>3. TypeInv /\ WholeInv => WholeImage
  <2> SUFFICES ASSUME TypeInv, WholeInv, path # "mixed", NEW i \in Flashes
               PROVE  \E f \in Files :
                         /\ files[f].good
                         /\ events[i].image = [k \in 1..files[f].size |-> <<f, k>>]
    BY DEF WholeImage
  <2>1. PICK f \in 1..file : IsFile(f, events[i].image)
    BY DEF WholeInv, SendingInv, FlashInv
  <2>2. f \in Files
    BY BoundsAreNatural DEF TypeInv, HostTypes
  <2> QED BY <2>1, <2>2 DEF IsFile
<1> QED BY <1>1, <1>2, <1>3, PTL DEF Spec
=============================================================================
