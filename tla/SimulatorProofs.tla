--------------------------- MODULE SimulatorProofs ---------------------------
(***************************************************************************)
(* What TLAPS proves of module Simulator, for any number of connections,    *)
(* versions and events: type correctness, the single attach and the         *)
(* firmware after a flash.                                                 *)
(*                                                                         *)
(* Neither of the first and the last is inductive.  A switch stays within   *)
(* the personas because every switch consumes one event, so the invariant   *)
(* counts: switches done, events queued and the event being carried out     *)
(* never exceed the events raised.  The firmware of the current persona is  *)
(* that of the last flash except between the two halves of a flash.         *)
(***************************************************************************)
EXTENDS Simulator, SequenceTheorems, TLAPS

\* The event taken off the channel has not switched the persona yet.
BeforeSwitch == {"enter_wait", "reset_wait", "flash_start", "flash_settle",
                 "flash_switch"}

\* The flash is counted and its version set, the new persona not yet plugged in.
MidFlash == {"flash_settle", "flash_switch"}

CountInv ==
    /\ current + Len(events) + (IF loop \in BeforeSwitch THEN 1 ELSE 0) <= raised
    /\ generation + (IF loop \in {"bump", "flash_bump"} THEN 1 ELSE 0) = current
    /\ flashCount <= current + (IF loop \in MidFlash THEN 1 ELSE 0)

FreshInv == loop \notin MidFlash => runs[current] = fwVersion

\* An attached connection serves a persona.
BackendInv ==
    \A c \in Conns : conn[c] \in {"replying", "subscribing", "attached", "closing"}
                      => backend[c] \in Personas

IInv == TypeOK /\ CountInv /\ FreshInv /\ BackendInv

\* The factory state satisfies the invariant.
LEMMA IInvInit == Init => IInv
  <1> SUFFICES ASSUME Init
               PROVE  IInv
    OBVIOUS
  <1> USE ConstantsAssumption DEF ConstantsAssumption, Init
  <1>1. TypeOK
    <2>1. 0 \in Personas
      BY DEF Personas
    <2>2. imported \in BOOLEAN /\ unplugged \in BOOLEAN
      OBVIOUS
    <2>3. events \in Seq(Events)
      <3>1. events = << >>
        OBVIOUS
      <3> QED BY <3>1, EmptySeq
    <2> QED BY <2>1, <2>2, <2>3 DEF TypeOK, Kinds, LoopStates, ConnStates
  <1>2. CountInv
    BY DEF CountInv, BeforeSwitch, MidFlash
  <1>3. FreshInv
    BY DEF FreshInv, Personas
  <1>4. BackendInv
    BY DEF BackendInv
  <1> QED BY <1>1, <1>2, <1>3, <1>4 DEF IInv

\* A switch that consumes an event finds a persona number left and plugs in an
\* analyzer or bootloader that runs the version of that moment.
LEMMA PlugStep ==
  ASSUME IInv, loop \in BeforeSwitch, NEW k \in Kinds, Plug(k),
         loop' \in {"bump", "flash_bump"}
  PROVE  IInv'
  <1>1. current + 1 \in Personas
    <2>1. Len(events) \in Nat
      BY DEF IInv, TypeOK
    <2> QED BY <2>1, ConstantsAssumption
            DEF ConstantsAssumption, IInv, TypeOK, CountInv, Personas
  <1>2. TypeOK'
    BY <1>1 DEF IInv, TypeOK, Plug, Personas, LoopStates, connVars, eventVars
  <1>3. CountInv'
    BY DEF IInv, TypeOK, CountInv, Plug, Personas, BeforeSwitch, MidFlash, eventVars,
           LoopStates
  <1>4. runs'[current'] = fwVersion'
    BY <1>1 DEF IInv, TypeOK, Plug
  <1> QED BY <1>2, <1>3, <1>4 DEF IInv, FreshInv, BackendInv, Plug, connVars

\* The event loop keeps the invariant.
LEMMA EventLoopStep ==
  ASSUME IInv, EventLoop
  PROVE  IInv'
  <1> USE DEF IInv, TypeOK, CountInv, FreshInv, BackendInv, Personas, LoopStates,
              BeforeSwitch, MidFlash, personaVars, connVars, eventVars
  <1>1. CASE NextEvent
    <2>1. /\ Head(events) \in Events /\ Tail(events) \in Seq(Events)
          /\ Len(Tail(events)) = Len(events) - 1
      BY <1>1 DEF NextEvent
    <2>2. loop' \in {"enter_wait", "flash_start", "reset_wait"}
      BY <1>1, <2>1 DEF NextEvent, Events
    <2>3. events' = Tail(events) /\ loop = "recv"
          /\ UNCHANGED <<personaVars, current, generation, fwVersion, flashCount,
                         unplugged, connVars, raised>>
      BY <1>1 DEF NextEvent
    <2>4. Len(events) \in Nat
      OBVIOUS
    <2>5. TypeOK'
      BY <2>1, <2>2, <2>3
    <2>6. CountInv'
      BY <2>1, <2>2, <2>3, <2>4
    <2>7. FreshInv' /\ BackendInv'
      BY <2>2, <2>3
    <2> QED BY <2>5, <2>6, <2>7
  <1>2. CASE EnterSwitch
    BY <1>2, PlugStep DEF EnterSwitch, Kinds
  <1>3. CASE ResetSwitch
    BY <1>3, PlugStep DEF ResetSwitch, Kinds
  <1>4. CASE FlashSwitch
    BY <1>4, PlugStep DEF FlashSwitch, Kinds
  <1>5. CASE Bump
    BY <1>5 DEF Bump
  <1>6. CASE FlashResolve
    BY <1>6, ConstantsAssumption DEF FlashResolve, ConstantsAssumption
  <1>7. CASE FlashUnplug
    BY <1>7 DEF FlashUnplug
  <1>8. CASE Replug
    BY <1>8 DEF Replug
  <1> QED BY <1>1, <1>2, <1>3, <1>4, <1>5, <1>6, <1>7, <1>8 DEF EventLoop

\* A connection keeps the invariant: it touches no device state.
LEMMA ConnectionStep ==
  ASSUME IInv, NEW c \in Conns, Connection(c)
  PROVE  IInv'
  <1> USE DEF personaVars, deviceVars, eventVars
  <1>1. UNCHANGED <<personaVars, deviceVars, eventVars>>
    BY DEF Connection, CheckUnplugged, TryImport, ReadCurrent, WriteReply,
           WriteReplyFails, Subscribe, SeesReboot, HostDetaches, ReleaseImport
  <1>2. CountInv' /\ FreshInv'
    BY <1>1 DEF IInv, CountInv, FreshInv
  <1>3. /\ imported' \in BOOLEAN
        /\ conn' \in [Conns -> ConnStates]
        /\ backend' \in [Conns -> Personas \cup {NoPersona}]
        /\ seen' \in [Conns -> Personas]
    BY DEF IInv, TypeOK, ConnStates, Connection, CheckUnplugged, TryImport,
           ReadCurrent, WriteReply, WriteReplyFails, Subscribe, SeesReboot,
           HostDetaches, ReleaseImport
  <1>4. BackendInv'
    BY DEF IInv, TypeOK, BackendInv, ConnStates, Connection, CheckUnplugged, TryImport,
           ReadCurrent, WriteReply, WriteReplyFails, Subscribe, SeesReboot,
           HostDetaches, ReleaseImport
  <1> QED BY <1>1, <1>2, <1>3, <1>4 DEF IInv, TypeOK

\* What a host asks of its persona keeps the invariant.
LEMMA HostStep ==
  ASSUME IInv, NEW c \in Conns, Host(c)
  PROVE  IInv'
  <1> USE DEF IInv, TypeOK, CountInv, FreshInv, BackendInv, Personas, Events, deviceVars, connVars,
              personaVars, eventVars, Serves
  <1>1. ASSUME NEW e \in Events, Raise(e), UNCHANGED deviceVars
        PROVE  /\ events' \in Seq(Events) /\ raised' \in 0..MaxEvents
               /\ CountInv'
    BY <1>1, ConstantsAssumption DEF Raise, ConstantsAssumption
  <1>2. ASSUME Host(c)
        PROVE  /\ events' \in Seq(Events) /\ raised' \in 0..MaxEvents
               /\ CountInv'
    BY <1>1, <1>2 DEF Host, BootloaderEntry, ReceiveSbFile, ImageComplete, ImageRejected,
                ResetCommand
  <1>3. asked' \subseteq Personas /\ receiving' \subseteq Personas
    BY DEF Host, BootloaderEntry, ReceiveSbFile, ImageComplete, ImageRejected,
           ResetCommand
  <1>4. UNCHANGED <<kind, runs, deviceVars, connVars>>
    BY DEF Host, BootloaderEntry, ReceiveSbFile, ImageComplete, ImageRejected,
           ResetCommand
  <1> QED BY <1>2, <1>3, <1>4

\* Every step keeps the invariant.
LEMMA IInvStep == IInv /\ [Next]_vars => IInv'
  <1> SUFFICES ASSUME IInv, [Next]_vars
               PROVE  IInv'
    OBVIOUS
  <1>1. CASE EventLoop
    BY <1>1, EventLoopStep
  <1>2. ASSUME NEW c \in Conns, Connection(c) \/ Host(c)
        PROVE  IInv'
    BY <1>2, ConnectionStep, HostStep
  <1>3. CASE UNCHANGED vars
    BY <1>3 DEF IInv, TypeOK, CountInv, FreshInv, BackendInv, vars, personaVars, deviceVars,
                connVars, eventVars
  <1> QED BY <1>1, <1>2, <1>3 DEF Next

\* The invariant holds in every state.
LEMMA Invariant == Spec => []IInv
  BY IInvInit, IInvStep, PTL DEF Spec

\* Type correctness of the unit and its connections, counters included.
THEOREM TypeCorrect == Spec => []TypeOK
  <1>1. IInv => TypeOK
    BY DEF IInv
  <1> QED BY <1>1, Invariant, PTL

\* Whatever events, flashes and resets queue up, an idle unit whose persona is an
\* analyzer runs the firmware of the last flash.
THEOREM FlashedFirmwareRuns == Spec => []FreshFirmware
  <1>1. IInv => FreshFirmware
    BY DEF IInv, FreshInv, FreshFirmware, MidFlash
  <1> QED BY <1>1, Invariant, PTL

-----------------------------------------------------------------------------
\* The flag is the only guard of the single attach: the check for an unplugged
\* unit, the reply and the reboot do not matter to it.
LEMMA AttachStep == TypeOK /\ ExclusiveAttach /\ [Next]_vars => ExclusiveAttach'
  <1> SUFFICES ASSUME TypeOK, ExclusiveAttach, [Next]_vars
               PROVE  ExclusiveAttach'
    OBVIOUS
  <1> USE DEF ExclusiveAttach, Holding
  <1>1. CASE UNCHANGED <<conn, imported>>
    BY <1>1
  <1>2. ASSUME NEW c \in Conns, Connection(c)
        PROVE  ExclusiveAttach'
    <2>1. /\ conn' = [conn EXCEPT ![c] = conn'[c]]
          /\ \/ conn[c] = "checked" /\ imported' = TRUE
                /\ (conn'[c] \in Holding => ~imported)
             \/ conn[c] \in Holding /\ imported' = imported
             \/ conn[c] = "idle" /\ conn'[c] = "checked" /\ imported' = imported
             \/ conn[c] \in Holding /\ conn'[c] = "idle" /\ imported' = FALSE
      BY <1>2 DEF TypeOK, Connection, CheckUnplugged, TryImport, ReadCurrent, WriteReply,
             WriteReplyFails, Subscribe, SeesReboot, HostDetaches, ReleaseImport
    <2> QED BY <2>1 DEF TypeOK
  <1>3. ASSUME NEW c \in Conns, Host(c)
        PROVE  UNCHANGED <<conn, imported>>
    BY <1>3 DEF Host, BootloaderEntry, ReceiveSbFile, ImageComplete, ImageRejected,
           ResetCommand, connVars
  <1>4. EventLoop => UNCHANGED <<conn, imported>>
    BY DEF EventLoop, NextEvent, EnterSwitch, ResetSwitch, FlashSwitch, Plug, Bump,
           FlashResolve, FlashUnplug, Replug, connVars
  <1>5. UNCHANGED vars => UNCHANGED <<conn, imported>>
    BY DEF vars, connVars
  <1> QED BY <1>1, <1>2, <1>3, <1>4, <1>5 DEF Next

\* At most one connection is attached, whatever connections race for the unit.
THEOREM SingleAttach == Spec => []ExclusiveAttach
  <1>1. Init => ExclusiveAttach
    BY DEF Init, ExclusiveAttach, Holding
  <1> QED BY <1>1, AttachStep, TypeCorrect, PTL DEF Spec
=============================================================================
