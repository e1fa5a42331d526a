----------------------------- MODULE RdpConfig -----------------------------
(***************************************************************************)
(* Configuration staging of the device: the RAM/flash/defaults copies that *)
(* the RDP server edits (engine-core/src/comms/rdp.rs), the publication of *)
(* the edited copy by the comms task of the firmware, and the control loop *)
(* that picks it up (stm32/src/main.rs).                                   *)
(*                                                                         *)
(* The embassy executor is single-threaded and cooperative: the comms task *)
(* runs only while the control loop is suspended at an await, and between  *)
(* two awaits of its own it is atomic.  One action is one such section.    *)
(*                                                                         *)
(* Data abstraction: a configuration is a function of its scalar           *)
(* parameters, its table cells and one table axis.  Numbers are the f32    *)
(* values in units of one half, so that truncation to u32 is visible.      *)
(***************************************************************************)
EXTENDS Integers, Sequences, FiniteSets

CONSTANTS
    Params,         \* scalar parameters of PARAM_CATALOG
    StoppedOnly,    \* those flagged PFLAG_ENGINE_STOPPED_ONLY
    ReadOnly,       \* those flagged PFLAG_READ_ONLY
    Counts,         \* those stored as u32 (trigger_total_teeth, trigger_missing_teeth)
    Geometry,       \* those whose change rebuilds the trigger decoder
    UnknownParam,   \* a wire id with no catalog entry
    Cells,          \* cells of a table
    BadCell,        \* an index outside the table
    AxisLen,        \* number of bins of the table's axis
    Lo, Hi,         \* min / max of the descriptors: one pair for all parameters and cells
    Defaults,       \* engine_config(): the compiled-in configuration
    Crc(_),         \* config_crc
    HostRequests,   \* the requests the host may send, a subset of Requests
    MaxEpoch,       \* bound on CONFIG_EPOCH
    None

Config == [par : [Params -> Int], cell : [Cells -> Int], axis : [1 .. AxisLen -> Int]]

\* Request bodies.  An entry with f32 = FALSE has a value type or length that is not f32; "Other"
\* stands for ParamGet, TableGet, a body that does not decode and an unknown Config opcode.
Entries == [id : Params \cup {UnknownParam}, f32 : BOOLEAN, value : Int]
Requests ==
    [op : {"ParamSet"}, entries : Seq(Entries)]
    \cup [op : {"TableSetCell"}, cell : Cells \cup {BadCell}, value : Int]
    \cup [op : {"TableSetAxis"}, values : Seq(Int)]
    \cup [op : {"ConfigResetDefaults"}, confirm : BOOLEAN]
    \cup [op : {"ConfigSave", "ConfigDiscard", "ConfigStatus", "Other", "Reboot"}]

ASSUME ParamAssumption ==
    /\ StoppedOnly \subseteq Params /\ ReadOnly \subseteq Params
    /\ Counts \subseteq Params /\ Geometry \subseteq StoppedOnly
    /\ UnknownParam \notin Params /\ BadCell \notin Cells
ASSUME NumberAssumption ==
    /\ AxisLen \in Nat /\ Lo \in Int /\ Hi \in Int
    /\ Lo % 2 = 0       \* the minimum of a tooth count is a whole number of teeth
ASSUME DefaultsAssumption ==
    /\ Defaults \in Config
    /\ \A p \in Params : Defaults.par[p] \in Lo .. Hi
    /\ \A x \in Cells : Defaults.cell[x] \in Lo .. Hi
ASSUME RequestAssumption == HostRequests \subseteq Requests /\ None \notin HostRequests
ASSUME EpochAssumption == MaxEpoch \in Nat \ {0}

VARIABLES
    ram,        \* comms_task: the configuration being edited
    flash,      \* comms_task: the last saved configuration
    dirty,      \* RdpServer.dirty
    flashCrc,   \* RdpServer.flash_crc
    shared,     \* static CONFIG
    epoch,      \* static CONFIG_EPOCH
    cfg,        \* control loop: its own copy of the configuration
    lastEpoch,  \* control loop: the epoch that copy was taken at
    decoder,    \* control loop: wheel geometry the trigger decoder was built for
    pubRunning, \* static OUTPUTS: rpm > 50 in the last published snapshot
    turning,    \* the engine really turns faster than 50 rpm
    ctl,        \* control loop: "top", "drain" or "fire" (asleep in a dwell or injection)
    inbox,      \* request waiting in the UART, or None
    outbox,     \* reply being written by the comms task, or None
    host        \* the host's client: "idle" or "waiting" for a reply

staging == <<ram, flash, dirty, flashCrc>>
published == <<shared, epoch>>
control == <<cfg, lastEpoch, decoder, pubRunning, ctl>>
link == <<inbox, outbox, host>>
vars == <<staging, published, control, turning, link>>

GeometryOf(c) == [p \in Geometry |-> c.par[p]]

Init ==
    /\ ram = Defaults /\ flash = Defaults
    /\ dirty = FALSE /\ flashCrc = Crc(Defaults)
    /\ shared = Defaults /\ epoch = 1
    /\ cfg = Defaults /\ lastEpoch = 1 /\ decoder = GeometryOf(Defaults)
    /\ pubRunning = FALSE /\ turning = FALSE /\ ctl = "top"
    /\ inbox = None /\ outbox = None /\ host = "idle"

----------------------------------------------------------------------------
(* RdpServer::handle, the Config group.                                    *)

InRange(v) == v \in Lo .. Hi

\* set_param: `value as u32` drops the fraction of a tooth count; its clamps repeat the range check.
Coerce(p, v) == IF p \in Counts THEN v - (v % 2) ELSE v

\* apply_param_set: the code of one entry; it depends on the catalog and on ctx.engine_running only.
ParamSetCode_NoBusy(e) ==
    IF e.id \notin Params THEN "NotFound"
    ELSE IF e.id \in ReadOnly THEN "ReadOnly"
    ELSE IF ~e.f32 THEN "BadRequest"
    ELSE IF ~InRange(e.value) THEN "OutOfRange"
    ELSE "Ok"
ParamSetCode(e) ==
    IF e.id \notin Params THEN "NotFound"
    ELSE IF e.id \in ReadOnly THEN "ReadOnly"
    ELSE IF e.id \in StoppedOnly /\ pubRunning THEN "Busy"
    ELSE IF ~e.f32 THEN "BadRequest"
    ELSE IF ~InRange(e.value) THEN "OutOfRange"
    ELSE "Ok"

\* op_param_set applies the entries in order, so the last accepted entry for a parameter wins.
AcceptedFor(p, es) == {k \in DOMAIN es : es[k].id = p /\ ParamSetCode(es[k]) = "Ok"}
LastOf(ks) == CHOOSE k \in ks : \A j \in ks : j <= k
ApplyEntries(c, es) ==
    [c EXCEPT !.par = [p \in Params |->
        IF AcceptedFor(p, es) = {} THEN c.par[p]
        ELSE Coerce(p, es[LastOf(AcceptedFor(p, es))].value)]]

\* The comms task gets the processor and has a complete request.
Serving(op) ==
    /\ ctl \in {"top", "fire"}
    /\ inbox # None /\ inbox.op = op
    /\ outbox = None

\* Every Config request, reads and refusals included, publishes ram before the reply is written.
PublishAndReply_BeforeEdit(reply) ==
    /\ shared' = ram /\ epoch' = epoch + 1
    /\ inbox' = None /\ outbox' = reply
    /\ UNCHANGED <<control, turning, host>>
PublishAndReply_IfDirty(reply) ==
    /\ IF dirty' THEN shared' = ram' /\ epoch' = epoch + 1 ELSE UNCHANGED published
    /\ inbox' = None /\ outbox' = reply
    /\ UNCHANGED <<control, turning, host>>
PublishAndReply(reply) ==
    /\ shared' = ram' /\ epoch' = epoch + 1
    /\ inbox' = None /\ outbox' = reply
    /\ UNCHANGED <<control, turning, host>>

ParamSetCodes(es) == [k \in DOMAIN es |-> ParamSetCode(es[k])]

ParamSet_DirtyIfAllOk ==
    /\ Serving("ParamSet")
    /\ ram' = ApplyEntries(ram, inbox.entries)
    /\ dirty' = (dirty \/ \A k \in DOMAIN inbox.entries : ParamSetCode(inbox.entries[k]) = "Ok")
    /\ UNCHANGED <<flash, flashCrc>>
    /\ PublishAndReply([op |-> "ParamSet", code |-> ParamSetCodes(inbox.entries)])
ParamSet ==
    /\ Serving("ParamSet")
    /\ ram' = ApplyEntries(ram, inbox.entries)
    /\ dirty' = (dirty \/ \E k \in DOMAIN inbox.entries : ParamSetCode(inbox.entries[k]) = "Ok")
    /\ UNCHANGED <<flash, flashCrc>>
    /\ PublishAndReply([op |-> "ParamSet", code |-> ParamSetCodes(inbox.entries)])

\* table_write_cell checks the range first, then the index.  There is no engine_running gate.
TableSetCell_NoRange ==
    /\ Serving("TableSetCell")
    /\ LET code == IF inbox.cell \notin Cells THEN "BadRequest" ELSE "Ok"
       IN /\ ram' = IF code = "Ok" THEN [ram EXCEPT !.cell[inbox.cell] = inbox.value] ELSE ram
          /\ dirty' = (dirty \/ code = "Ok")
          /\ UNCHANGED <<flash, flashCrc>>
          /\ PublishAndReply([op |-> "TableSetCell", code |-> code])
TableSetCell ==
    /\ Serving("TableSetCell")
    /\ LET code == IF ~InRange(inbox.value) THEN "OutOfRange"
                   ELSE IF inbox.cell \notin Cells THEN "BadRequest" ELSE "Ok"
       IN /\ ram' = IF code = "Ok" THEN [ram EXCEPT !.cell[inbox.cell] = inbox.value] ELSE ram
          /\ dirty' = (dirty \/ code = "Ok")
          /\ UNCHANGED <<flash, flashCrc>>
          /\ PublishAndReply([op |-> "TableSetCell", code |-> code])

\* table_write_axis: a shorter write replaces the leading bins, a longer one is refused.
WriteAxis(axis, vs) == [i \in DOMAIN axis |-> IF i <= Len(vs) THEN vs[i] ELSE axis[i]]

TableSetAxis ==
    /\ Serving("TableSetAxis")
    /\ LET fits == Len(inbox.values) <= AxisLen
       IN /\ ram' = IF fits THEN [ram EXCEPT !.axis = WriteAxis(ram.axis, inbox.values)] ELSE ram
          /\ dirty' = (dirty \/ fits)
          /\ UNCHANGED <<flash, flashCrc>>
          /\ PublishAndReply([op |-> "TableSetAxis", code |-> IF fits THEN "Ok" ELSE "BadRequest"])

\* The server clears dirty and records the checksum; the comms task then runs actions.save.
ConfigSave ==
    /\ Serving("ConfigSave")
    /\ dirty' = FALSE /\ flashCrc' = Crc(ram)
    /\ flash' = ram
    /\ UNCHANGED ram
    /\ PublishAndReply([op |-> "ConfigSave", crc |-> Crc(ram)])

ConfigDiscard_CrcOfRam ==
    /\ Serving("ConfigDiscard")
    /\ ram' = flash /\ dirty' = FALSE
    /\ flashCrc' = Crc(ram)
    /\ UNCHANGED flash
    /\ PublishAndReply([op |-> "ConfigDiscard", code |-> "Ok"])
ConfigDiscard ==
    /\ Serving("ConfigDiscard")
    /\ ram' = flash /\ dirty' = FALSE
    /\ UNCHANGED <<flash, flashCrc>>
    /\ PublishAndReply([op |-> "ConfigDiscard", code |-> "Ok"])

ConfigResetDefaults ==
    /\ Serving("ConfigResetDefaults")
    /\ LET code == IF ~inbox.confirm THEN "BadRequest" ELSE IF pubRunning THEN "Busy" ELSE "Ok"
       IN /\ ram' = IF code = "Ok" THEN Defaults ELSE ram
          /\ dirty' = (dirty \/ code = "Ok")
          /\ UNCHANGED <<flash, flashCrc>>
          /\ PublishAndReply([op |-> "ConfigResetDefaults", code |-> code])

ConfigStatus ==
    /\ Serving("ConfigStatus")
    /\ UNCHANGED staging
    /\ PublishAndReply([op |-> "ConfigStatus", dirty |-> dirty,
                        ramCrc |-> Crc(ram), flashCrc |-> flashCrc])

\* Reads and refusals change nothing that is staged, yet the epoch moves.
ConfigOther_NoReply ==
    /\ Serving("Other")
    /\ UNCHANGED staging
    /\ PublishAndReply(None)
ConfigOther ==
    /\ Serving("Other")
    /\ UNCHANGED staging
    /\ PublishAndReply([op |-> "Other"])

\* actions.reboot: sys_reset() runs before the reply is encoded and written.  flash is a
\* local of the comms task, so the saved configuration goes with everything else in RAM.
Reboot ==
    /\ Serving("Reboot")
    /\ ram' = Defaults /\ flash' = Defaults /\ dirty' = FALSE /\ flashCrc' = Crc(Defaults)
    /\ shared' = Defaults /\ epoch' = 1
    /\ cfg' = Defaults /\ lastEpoch' = 1 /\ decoder' = GeometryOf(Defaults)
    /\ pubRunning' = FALSE /\ ctl' = "top"
    /\ inbox' = None /\ outbox' = None
    /\ UNCHANGED <<turning, host>>

----------------------------------------------------------------------------
(* The control loop.                                                       *)

\* refresh_config, at the top of every pass.
RefreshConfig_NoRebuild ==
    /\ ctl = "top"
    /\ cfg' = IF epoch = lastEpoch THEN cfg ELSE shared
    /\ lastEpoch' = epoch
    /\ ctl' = "drain"
    /\ UNCHANGED <<staging, published, decoder, pubRunning, turning, link>>
RefreshConfig ==
    /\ ctl = "top"
    /\ IF epoch = lastEpoch
       THEN UNCHANGED <<cfg, lastEpoch, decoder>>
       ELSE /\ lastEpoch' = epoch
            /\ decoder' = IF GeometryOf(shared) # GeometryOf(cfg) THEN GeometryOf(shared) ELSE decoder
            /\ cfg' = shared
    /\ ctl' = "drain"
    /\ UNCHANGED <<staging, published, pubRunning, turning, link>>

\* A crank pulse with rpm > 50 on which nothing is fired: OUTPUTS is published at once.
CrankPulse ==
    /\ ctl = "drain" /\ turning
    /\ pubRunning' = TRUE
    /\ UNCHANGED <<staging, published, cfg, lastEpoch, decoder, ctl, turning, link>>

\* A crank pulse that charges a coil or opens an injector and sleeps.
StartFiring ==
    /\ ctl = "drain" /\ turning
    /\ ctl' = "fire"
    /\ UNCHANGED <<staging, published, cfg, lastEpoch, decoder, pubRunning, turning, link>>

\* The sleep ends; the rpm computed before it is published.
EndFiring ==
    /\ ctl = "fire"
    /\ ctl' = "drain" /\ pubRunning' = TRUE
    /\ UNCHANGED <<staging, published, cfg, lastEpoch, decoder, turning, link>>

\* The queue is empty (the other pulses, rpm <= 50, publish nothing): yield_now.
Yield ==
    /\ ctl = "drain"
    /\ ctl' = "top"
    /\ UNCHANGED <<staging, published, cfg, lastEpoch, decoder, pubRunning, turning, link>>

----------------------------------------------------------------------------
(* Environment: the engine and the host.                                   *)

EngineStarts == ~turning /\ turning' = TRUE /\ UNCHANGED <<staging, published, control, link>>
EngineStops == turning /\ turning' = FALSE /\ UNCHANGED <<staging, published, control, link>>

HostSend ==
    /\ host = "idle" /\ epoch < MaxEpoch
    /\ \E r \in HostRequests : inbox' = r
    /\ host' = "waiting"
    /\ UNCHANGED <<staging, published, control, turning, outbox>>

\* write_all completes and the host reads the reply.
ReplyDelivered ==
    /\ outbox # None /\ ctl \in {"top", "fire"}
    /\ outbox' = None /\ host' = "idle"
    /\ UNCHANGED <<staging, published, control, turning, inbox>>

CommsStep ==
    \/ ParamSet \/ TableSetCell \/ TableSetAxis
    \/ ConfigSave \/ ConfigDiscard \/ ConfigResetDefaults \/ ConfigStatus \/ ConfigOther
    \/ Reboot
ControlStep == RefreshConfig \/ CrankPulse \/ StartFiring \/ EndFiring \/ Yield
Environment == EngineStarts \/ EngineStops \/ HostSend \/ ReplyDelivered

Next == CommsStep \/ ControlStep \/ Environment

Spec == Init /\ [][Next]_vars

(***************************************************************************)
(* The executor polls every ready task, so each task keeps running.  Yield *)
(* gets strong fairness: below the engine speed at which the sleeps of one *)
(* tooth outlast a revolution the pulse queue empties again and again.     *)
(* The engine and the host owe nothing.                                    *)
(***************************************************************************)
FairSpec ==
    /\ Spec
    /\ SF_vars(CommsStep) /\ SF_vars(ReplyDelivered)
    /\ WF_vars(RefreshConfig) /\ WF_vars(EndFiring) /\ SF_vars(Yield)

----------------------------------------------------------------------------
(* Properties.                                                             *)

\* Every copy of the configuration is a whole configuration and every flag is in its range.
TypeOK ==
    /\ ram \in Config /\ flash \in Config /\ shared \in Config /\ cfg \in Config
    /\ dirty \in BOOLEAN /\ pubRunning \in BOOLEAN /\ turning \in BOOLEAN
    /\ epoch \in 1 .. MaxEpoch /\ lastEpoch \in 1 .. MaxEpoch
    /\ decoder \in [Geometry -> Int]
    /\ ctl \in {"top", "drain", "fire"} /\ host \in {"idle", "waiting"}
    /\ inbox \in HostRequests \cup {None}

\* "No unsaved edits" is never a lie: a clean RAM copy is the saved copy, whatever mix of partly
\* refused edits, saves, discards, resets and reboots came before.
CleanMeansSaved == ~dirty => ram = flash

\* ConfigStatus.flash_crc, kept apart from the copy it describes, is the checksum of that copy.
FlashCrcMatches == flashCrc = Crc(flash)

\* A control loop that has seen the latest epoch runs on the configuration the server holds.
ControlInSync == lastEpoch = epoch => cfg = ram

\* The trigger decoder is built for the wheel of the configuration the control loop runs on.
DecoderMatchesConfig == decoder = GeometryOf(cfg)

ScalarsInRange(c) == (\A p \in Params : InRange(c.par[p])) /\ (\A x \in Cells : InRange(c.cell[x]))

\* No sequence of requests makes the control loop run on a scalar or a cell outside its descriptor's
\* range (truncation to whole teeth happens after the range check).
ControlInRange == ScalarsInRange(cfg)

\* While the server takes the engine to be running, no request but ConfigDiscard (and the reset of
\* the processor) moves a parameter that is writable only when the engine is stopped.
OnlyDiscardMovesStoppedOnly ==
    [][pubRunning /\ ~ConfigDiscard /\ ~Reboot =>
         \A p \in StoppedOnly : ram'.par[p] = ram.par[p]]_vars

\* Edits reach the control loop: again and again it runs on the very configuration the server
\* holds, however edits, firing and pulses interleave.
EditsReachControl == []<>(cfg = ram)

\* Every request but Reboot is answered, whatever the control loop and the engine do meanwhile.
RequestsAnswered == inbox # None /\ inbox.op # "Reboot" ~> host = "idle"

(* What the documents and comments say and the code does not do.           *)

\* docs/api/04 section 3: a flagged parameter moves only while the engine is stopped.
StoppedOnlyWhileStopped ==
    [][pubRunning /\ ~Reboot => \A p \in StoppedOnly : ram'.par[p] = ram.par[p]]_vars

\* RdpContext.engine_running, "True while the engine is rotating", follows the engine to a stop.
EngineStopNoticed == ~turning ~> (turning \/ ~pubRunning)
=============================================================================
