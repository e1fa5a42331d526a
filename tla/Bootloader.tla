----------------------------- MODULE Bootloader -----------------------------
(***************************************************************************)
(* The state machine of a firmware update (engine-core/src/bootloader.rs). *)
(* No firmware uses it yet: whoever will calls process_command, update and *)
(* receive_firmware in any order.                                          *)
(***************************************************************************)
EXTENDS Integers

CONSTANTS
    BootTimeout,    \* boot_timeout_ms
    MaxFirmware,    \* max_firmware_size
    RollbackEnabled,
    MaxAttempts,    \* bound: boot failures
    Chunks,         \* bound: sizes of chunks
    Lapses          \* values of dt_ms

VARIABLES
    state, boot_timer, firmware_size, boot_attempts,
    \* history
    waited,         \* time of the updates in state Bootloader since the timer was set
    received        \* bytes accepted since the update began

vars == <<state, boot_timer, firmware_size, boot_attempts, waited, received>>

\* What the proofs ask of the constants: some time to wait, and whole numbers.
Parameters ==
    /\ BootTimeout \in Nat \ {0} /\ MaxFirmware \in Nat /\ Lapses \subseteq Nat /\ Chunks \subseteq Nat

Init ==
    /\ state = "Bootloader" /\ boot_timer = BootTimeout
    /\ firmware_size = 0 /\ boot_attempts = 0 /\ waited = 0 /\ received = 0

\* process_command
EnterBootloader ==
    /\ state' = "Bootloader" /\ boot_timer' = BootTimeout /\ waited' = 0
    /\ UNCHANGED <<firmware_size, boot_attempts, received>>
StartUpdate ==
    /\ state = "Bootloader" /\ state' = "Receiving" /\ firmware_size' = 0 /\ received' = 0
    /\ UNCHANGED <<boot_timer, boot_attempts, waited>>
\* The timer is not renewed.
CancelUpdate ==
    /\ state \in {"Receiving", "Programming"}
    /\ state' = "Bootloader" /\ firmware_size' = 0 /\ received' = 0
    /\ UNCHANGED <<boot_timer, boot_attempts, waited>>
Verify ==
    /\ state' = IF state = "Programming" THEN "Verifying" ELSE state
    /\ UNCHANGED <<boot_timer, firmware_size, boot_attempts, waited, received>>
\* From any state, whether or not is_rollback_available.
Rollback ==
    /\ state' = IF RollbackEnabled THEN "RollbackAvailable" ELSE state
    /\ UNCHANGED <<boot_timer, firmware_size, boot_attempts, waited, received>>
BootApplication ==
    /\ state' = "Normal" /\ boot_attempts' = 0
    /\ UNCHANGED <<boot_timer, firmware_size, waited, received>>

Update(dt) ==
    /\ state = "Bootloader"
    /\ boot_timer' = IF boot_timer > dt THEN boot_timer - dt ELSE 0
    /\ state' = IF boot_timer' = 0 THEN "Normal" ELSE state
    /\ waited' = IF waited + dt < BootTimeout THEN waited + dt ELSE BootTimeout
    /\ UNCHANGED <<firmware_size, boot_attempts, received>>

ReceiveFirmware(size) ==
    /\ state = "Receiving" /\ firmware_size + size <= MaxFirmware
    /\ firmware_size' = firmware_size + size /\ received' = received + size
    /\ UNCHANGED <<state, boot_timer, boot_attempts, waited>>

IncrementBootAttempts ==
    /\ boot_attempts < MaxAttempts /\ boot_attempts' = boot_attempts + 1
    /\ UNCHANGED <<state, boot_timer, firmware_size, waited, received>>

Next ==
    \/ EnterBootloader \/ StartUpdate \/ CancelUpdate \/ Verify \/ Rollback \/ BootApplication
    \/ IncrementBootAttempts
    \/ \E dt \in Lapses : Update(dt)
    \/ \E size \in Chunks : ReceiveFirmware(size)

Spec == Init /\ [][Next]_vars

----------------------------------------------------------------------------
(* Properties.                                                             *)

\* An update that is being received counts just its own bytes and never too many, whatever was
\* begun, cancelled or left by EnterBootloader before.
OwnBytesOnly == state = "Receiving" => firmware_size = received /\ received <= MaxFirmware

\* The bootloader waits its whole time for an update, counted over all the time that it spends
\* waiting since it was entered, and is left by itself as soon as that is over.
WaitsItsTime == state = "Bootloader" => waited < BootTimeout /\ boot_timer = BootTimeout - waited

UpdatesAreOrderly == OwnBytesOnly /\ WaitsItsTime
=============================================================================
