----------------------------- MODULE Simulator ------------------------------
(***************************************************************************)
(* One simulated unit (vqa40x-core/src/sim.rs) and the connections that     *)
(* try to attach to it (vqa40x-usbip/src/lib.rs, `handle_connection`).      *)
(*                                                                         *)
(* The unit is an analyzer or a bootloader: the current persona.  A persona *)
(* asks for a change by an event; one task, `event_loop`, takes the events  *)
(* in order, waits, and switches.  A switch stores the new persona and then *)
(* bumps the `generation` counter the connections watch.  Personas are      *)
(* numbered in the order they are created: every switch creates one, and a  *)
(* connection keeps the one it read when it imported the device.            *)
(*                                                                         *)
(* What an attached host does to its persona is abstracted here to the      *)
(* requests that raise events; modules Bootloader and UrbPhase hold the     *)
(* detail of both sides.                                                    *)
(***************************************************************************)
EXTENDS Integers, Sequences

CONSTANTS
    Conns,          \* TCP connections
    Versions,       \* firmware versions a flashed image may resolve to
    NoVersion,      \* an unknown image and no post-flash version configured
    FactoryVersion, \* opts.fw_version
    BootBootloader, \* opts.boot_bootloader
    MaxEvents       \* bound: events the personas raise

Personas == 0..MaxEvents
Kinds    == {"analyzer", "bootloader"}
Events   == {"EnterBootloader", "FlashCompleted", "BootloaderReset"}
NoPersona == -1

ASSUME ConstantsAssumption ==
    /\ MaxEvents \in Nat
    /\ BootBootloader \in BOOLEAN
    /\ NoVersion \notin Versions

VARIABLES
    current,    \* the persona plugged in
    generation, \* the watch channel's value
    kind,       \* kind of each persona created
    runs,       \* firmware version each analyzer was created with
    asked,      \* personas that will not ask for another change:
                \* the analyzer's `rebooting`, the bootloader's Phase::Done
    receiving,  \* bootloaders in Phase::Receiving
    fwVersion,  \* SimInner.fw_version
    flashCount, \* SimInner.flash_count
    events,     \* the event channel
    raised,     \* how many events were raised so far
    loop,       \* where event_loop stands
    imported,   \* SimInner.imported
    unplugged,  \* SimInner.unplugged
    conn,       \* where each connection stands
    backend,    \* the persona each connection serves
    seen        \* the generation its receiver has seen

personaVars == <<kind, runs, asked, receiving>>
deviceVars  == <<current, generation, fwVersion, flashCount, loop, unplugged>>
connVars    == <<imported, conn, backend, seen>>
eventVars   == <<events, raised>>
vars == <<personaVars, deviceVars, connVars, eventVars>>

LoopStates == {"recv", "enter_wait", "reset_wait", "flash_start", "flash_settle",
               "flash_switch", "bump", "flash_bump", "cable_out"}
ConnStates == {"idle", "checked", "imported", "replying", "subscribing",
               "attached", "closing"}

\* Connections between a successful try_import and release_import.
Holding == {"imported", "replying", "subscribing", "attached", "closing"}

Init ==
    /\ current = 0 /\ generation = 0
    /\ kind = [p \in Personas |->
                 IF BootBootloader THEN "bootloader" ELSE "analyzer"]
    /\ runs = [p \in Personas |-> FactoryVersion]
    /\ asked = {} /\ receiving = {}
    /\ fwVersion = FactoryVersion /\ flashCount = 0
    /\ events = << >> /\ raised = 0
    /\ loop = "recv"
    /\ imported = FALSE /\ unplugged = FALSE
    /\ conn = [c \in Conns |-> "idle"]
    /\ backend = [c \in Conns |-> NoPersona]
    /\ seen = [c \in Conns |-> 0]

-----------------------------------------------------------------------------
(* event_loop *)

NextEvent ==
    /\ loop = "recv" /\ events # << >>
    /\ loop' = CASE Head(events) = "EnterBootloader" -> "enter_wait"
                 [] Head(events) = "FlashCompleted"  -> "flash_start"
                 [] Head(events) = "BootloaderReset" -> "reset_wait"
    /\ events' = Tail(events)
    /\ UNCHANGED <<personaVars, current, generation, fwVersion, flashCount,
                   unplugged, connVars, raised>>

\* Mutant of Plug: the version the unit left the factory with.
PlugFactory(k) ==
    /\ current' = current + 1
    /\ kind' = [kind EXCEPT ![current + 1] = k]
    /\ runs' = [runs EXCEPT ![current + 1] = FactoryVersion]
    /\ UNCHANGED <<asked, receiving, generation, fwVersion, flashCount,
                   unplugged, connVars, eventVars>>

\* The first half of `switch`: store a new persona.
Plug(k) ==
    /\ current' = current + 1
    /\ kind' = [kind EXCEPT ![current + 1] = k]
    /\ runs' = [runs EXCEPT ![current + 1] = fwVersion]
    /\ UNCHANGED <<asked, receiving, generation, fwVersion, flashCount,
                   unplugged, connVars, eventVars>>

\* The waits are over; an analyzer is created with the version of that moment.
EnterSwitch == loop = "enter_wait"   /\ Plug("bootloader") /\ loop' = "bump"
ResetSwitch == loop = "reset_wait"   /\ Plug("analyzer")   /\ loop' = "bump"
FlashSwitch == loop = "flash_switch" /\ Plug("analyzer")   /\ loop' = "flash_bump"

\* Mutant of Bump: only the unplugged switch of a flash is announced.
BumpFlashOnly ==
    /\ loop \in {"bump", "flash_bump"}
    /\ generation' = IF loop = "bump" THEN generation ELSE generation + 1
    /\ loop' = IF loop = "bump" THEN "recv" ELSE "cable_out"
    /\ UNCHANGED <<personaVars, current, fwVersion, flashCount, unplugged,
                   connVars, eventVars>>

\* The second half of `switch`.
Bump ==
    /\ loop \in {"bump", "flash_bump"}
    /\ generation' = generation + 1
    /\ loop' = IF loop = "bump" THEN "recv" ELSE "cable_out"
    /\ UNCHANGED <<personaVars, current, fwVersion, flashCount, unplugged,
                   connVars, eventVars>>

\* Mutant of FlashResolve: an unknown image clears the version.
FlashResolveUnknown ==
    /\ loop = "flash_start"
    /\ fwVersion' \in Versions \cup {NoVersion}
    /\ flashCount' = flashCount + 1
    /\ loop' = "flash_settle"
    /\ UNCHANGED <<personaVars, current, generation, unplugged, connVars,
                   eventVars>>

\* Resolve the version of the flashed image (the registry first, then the
\* configured fallback); keep the old one when neither knows it.
FlashResolve ==
    /\ loop = "flash_start"
    /\ \E v \in Versions \cup {NoVersion} :
          fwVersion' = IF v = NoVersion THEN fwVersion ELSE v
    /\ flashCount' = flashCount + 1
    /\ loop' = "flash_settle"
    /\ UNCHANGED <<personaVars, current, generation, unplugged, connVars,
                   eventVars>>

\* Mutant of FlashUnplug: the cable comes out and goes back, nothing is switched.
FlashUnplugOnly ==
    /\ loop = "flash_settle"
    /\ unplugged' = TRUE
    /\ loop' = "cable_out"
    /\ UNCHANGED <<personaVars, current, generation, fwVersion, flashCount,
                   connVars, eventVars>>

\* The host has had 2 s to read the last response: pull the cable.
FlashUnplug ==
    /\ loop = "flash_settle"
    /\ unplugged' = TRUE
    /\ loop' = "flash_switch"
    /\ UNCHANGED <<personaVars, current, generation, fwVersion, flashCount,
                   connVars, eventVars>>

Replug ==
    /\ loop = "cable_out"
    /\ unplugged' = FALSE
    /\ loop' = "recv"
    /\ UNCHANGED <<personaVars, current, generation, fwVersion, flashCount,
                   connVars, eventVars>>

-----------------------------------------------------------------------------
(* handle_connection.  A refused or ended connection is idle again: the host's
   next attempt is a new connection in the same place. *)

\* is_unplugged ...
CheckUnplugged(c) ==
    /\ conn[c] = "idle" /\ ~unplugged
    /\ conn' = [conn EXCEPT ![c] = "checked"]
    /\ UNCHANGED <<personaVars, deviceVars, eventVars, imported, backend, seen>>

\* Mutant of TryImport: a refusal leaves the flag down (store for swap).
TryImportClears(c) ==
    /\ conn[c] = "checked"
    /\ imported' = ~imported
    /\ conn' = [conn EXCEPT ![c] = IF imported THEN "idle" ELSE "imported"]
    /\ UNCHANGED <<personaVars, deviceVars, eventVars, backend, seen>>

\* ... then try_import: swap(true) on the flag ...
TryImport(c) ==
    /\ conn[c] = "checked"
    /\ imported' = TRUE
    /\ conn' = [conn EXCEPT ![c] = IF imported THEN "idle" ELSE "imported"]
    /\ UNCHANGED <<personaVars, deviceVars, eventVars, backend, seen>>

\* ... then current() ...
ReadCurrent(c) ==
    /\ conn[c] = "imported"
    /\ backend' = [backend EXCEPT ![c] = current]
    /\ conn' = [conn EXCEPT ![c] = "replying"]
    /\ UNCHANGED <<personaVars, deviceVars, eventVars, imported, seen>>

\* ... then the OP_REP_IMPORT is written ...
WriteReply(c) ==
    /\ conn[c] = "replying"
    /\ conn' = [conn EXCEPT ![c] = "subscribing"]
    /\ UNCHANGED <<personaVars, deviceVars, eventVars, imported, backend, seen>>

\* ... or the host has gone, and `?` returns past release_import ...
WriteReplyFails(c) ==
    /\ conn[c] = "replying"
    /\ conn' = [conn EXCEPT ![c] = "idle"]
    /\ backend' = [backend EXCEPT ![c] = NoPersona]
    /\ UNCHANGED <<personaVars, deviceVars, eventVars, imported, seen>>

\* ... then urb_phase subscribes to the generation: the value of this moment
\* counts as seen.
Subscribe(c) ==
    /\ conn[c] = "subscribing"
    /\ seen' = [seen EXCEPT ![c] = generation]
    /\ conn' = [conn EXCEPT ![c] = "attached"]
    /\ UNCHANGED <<personaVars, deviceVars, eventVars, imported, backend>>

\* generation.changed() fires in the URB loop.
SeesReboot(c) ==
    /\ conn[c] = "attached" /\ seen[c] # generation
    /\ conn' = [conn EXCEPT ![c] = "closing"]
    /\ UNCHANGED <<personaVars, deviceVars, eventVars, imported, backend, seen>>

\* The host detaches or its socket dies.
HostDetaches(c) ==
    /\ conn[c] = "attached"
    /\ conn' = [conn EXCEPT ![c] = "closing"]
    /\ UNCHANGED <<personaVars, deviceVars, eventVars, imported, backend, seen>>

\* urb_phase has returned.
ReleaseImport(c) ==
    /\ conn[c] = "closing"
    /\ imported' = FALSE
    /\ conn' = [conn EXCEPT ![c] = "idle"]
    /\ backend' = [backend EXCEPT ![c] = NoPersona]
    /\ UNCHANGED <<personaVars, deviceVars, eventVars, seen>>

-----------------------------------------------------------------------------
(* What an attached host asks of the persona its connection serves. *)

Serves(c, k) == conn[c] = "attached" /\ kind[backend[c]] = k

Raise(e) ==
    /\ raised < MaxEvents
    /\ raised' = raised + 1
    /\ events' = Append(events, e)

\* The second magic of register 0x0F; an analyzer raises the event once.
BootloaderEntry(c) ==
    /\ Serves(c, "analyzer") /\ backend[c] \notin asked
    /\ asked' = asked \cup {backend[c]}
    /\ Raise("EnterBootloader")
    /\ UNCHANGED <<kind, runs, receiving, deviceVars, connVars>>

\* ReceiveSbFile, from any phase.
ReceiveSbFile(c) ==
    /\ Serves(c, "bootloader")
    /\ receiving' = receiving \cup {backend[c]}
    /\ asked' = asked \ {backend[c]}
    /\ UNCHANGED <<kind, runs, deviceVars, connVars, eventVars>>

\* The last data report of an SB2.1 image.
ImageComplete(c) ==
    /\ Serves(c, "bootloader") /\ backend[c] \in receiving
    /\ receiving' = receiving \ {backend[c]}
    /\ asked' = asked \cup {backend[c]}
    /\ Raise("FlashCompleted")
    /\ UNCHANGED <<kind, runs, deviceVars, connVars>>

\* The last data report of anything else: back to Phase::Idle.
ImageRejected(c) ==
    /\ Serves(c, "bootloader") /\ backend[c] \in receiving
    /\ receiving' = receiving \ {backend[c]}
    /\ UNCHANGED <<kind, runs, asked, deviceVars, connVars, eventVars>>

\* The Reset command: always an event, whatever the phase.
ResetCommand(c) ==
    /\ Serves(c, "bootloader")
    /\ Raise("BootloaderReset")
    /\ UNCHANGED <<personaVars, deviceVars, connVars>>

-----------------------------------------------------------------------------
EventLoop ==
    \/ NextEvent \/ EnterSwitch \/ ResetSwitch \/ FlashSwitch \/ Bump
    \/ FlashResolve \/ FlashUnplug \/ Replug

Connection(c) ==
    \/ CheckUnplugged(c) \/ TryImport(c) \/ ReadCurrent(c) \/ WriteReply(c)
    \/ WriteReplyFails(c) \/ Subscribe(c) \/ SeesReboot(c) \/ HostDetaches(c)
    \/ ReleaseImport(c)

Host(c) ==
    \/ BootloaderEntry(c) \/ ReceiveSbFile(c) \/ ImageComplete(c)
    \/ ImageRejected(c) \/ ResetCommand(c)

Next == EventLoop \/ \E c \in Conns : Connection(c) \/ Host(c)

\* The event loop and the connections' own code go on; no host is obliged to
\* connect, to detach or to ask for anything.
Fairness ==
    /\ WF_vars(EventLoop)
    /\ \A c \in Conns :
          /\ WF_vars(TryImport(c) \/ ReadCurrent(c) \/ WriteReply(c)
                     \/ Subscribe(c) \/ ReleaseImport(c))
          /\ WF_vars(SeesReboot(c))

Spec == Init /\ [][Next]_vars /\ Fairness

-----------------------------------------------------------------------------
(* Properties. *)

TypeOK ==
    /\ current \in Personas /\ generation \in Personas
    /\ kind \in [Personas -> Kinds]
    /\ runs \in [Personas -> Versions \cup {FactoryVersion}]
    /\ asked \subseteq Personas /\ receiving \subseteq Personas
    /\ fwVersion \in Versions \cup {FactoryVersion}
    /\ flashCount \in Personas
    /\ events \in Seq(Events) /\ raised \in Personas
    /\ loop \in LoopStates
    /\ imported \in BOOLEAN /\ unplugged \in BOOLEAN
    /\ conn \in [Conns -> ConnStates]
    /\ backend \in [Conns -> Personas \cup {NoPersona}]
    /\ seen \in [Conns -> Personas]

\* "A USB device can only be plugged into one host": however the imports, the
\* refusals and the releases of several connections interleave, at most one
\* connection is past try_import, and the flag is up as long as one is.
ExclusiveAttach ==
    /\ \A c, d \in Conns : conn[c] \in Holding /\ conn[d] \in Holding => c = d
    /\ \A c \in Conns : conn[c] \in Holding => imported

\* After the dance of a flash the unit runs the firmware it was flashed with:
\* whenever the event loop is idle, the analyzer plugged in was created with the
\* version of the last flash, stale events in the queue or not.
FreshFirmware ==
    loop = "recv" /\ kind[current] = "analyzer" => runs[current] = fwVersion

\* A connection that subscribed while the persona it serves was current is
\* dropped after the next switch.
SubscriberDropped ==
    \A c \in Conns :
        conn[c] = "attached" /\ seen[c] <= backend[c] /\ backend[c] # current
            ~> conn[c] # "attached"

\* A persona that has asked to be replaced (the entry magics, a flashed image)
\* does not stay plugged in, whatever else is queued.
AskedIsReplaced ==
    \A p \in Personas : p \in asked /\ current = p ~> current # p

\* "When a device reboots its connection is dropped so the client sees a real
\* unplug": no connection goes on serving a persona that was replaced.
RebootDropsConnection ==
    \A c \in Conns :
        conn[c] = "attached" /\ backend[c] # current ~> conn[c] # "attached"

\* "A vanished client must release the single-attach import instead of holding
\* the device forever": with no connection left, the device can be imported.
VanishedClientReleases ==
    (\A c \in Conns : conn[c] \notin Holding) => ~imported
=============================================================================
