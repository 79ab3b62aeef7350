---------------------------- MODULE PersonaEvents ----------------------------
(***************************************************************************)
(* What the simulator counts on of a bootloader persona: which requests it   *)
(* raises, and when.  Module Simulator composes its units from these four     *)
(* steps (ReceiveSbFile, ImageComplete, ImageRejected, ResetCommand), and     *)
(* module Bootloader, with its queues, workers and pacing, implements them.   *)
(***************************************************************************)
EXTENDS Sequences

VARIABLES
    receiving,  \* a transfer is under way
    settled,    \* the last transfer was a whole image, and the flash was asked for
    asked       \* the requests made of the simulator

Init == receiving = FALSE /\ settled = FALSE /\ asked = << >>

\* A transfer begins, also in the middle of another or after a flash.
ReceiveSbFile == receiving' = TRUE /\ settled' = FALSE /\ asked' = asked

\* Its last byte decides it, once: flash, or nothing at all.
ImageComplete ==
    /\ receiving
    /\ receiving' = FALSE /\ settled' = TRUE
    /\ asked' = Append(asked, "FlashCompleted")

ImageRejected == receiving /\ receiving' = FALSE /\ settled' = FALSE /\ asked' = asked

\* A Reset is passed on whatever the persona is doing, and ends nothing.
ResetCommand == asked' = Append(asked, "BootloaderReset") /\ UNCHANGED <<receiving, settled>>

Next == ReceiveSbFile \/ ImageComplete \/ ImageRejected \/ ResetCommand

Spec == Init /\ [][Next]_<<receiving, settled, asked>>
=============================================================================
