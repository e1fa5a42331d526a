------------------------------- MODULE CanBus -------------------------------
(***************************************************************************)
(* The CAN side: the task that owns the controller (can_task of the board  *)
(* support), its two queues to the loop, and what the loop may do at them: *)
(* answer OBD-II queries (can/obd2.rs), send to a dashboard (can/dash.rs)  *)
(* or count frames (can/mod.rs).  The firmware does not yet start the task *)
(* or call any of these; a loop that calls them in any order stands for    *)
(* it.  The task and the loop share an executor and take turns where they  *)
(* await.  A frame is its kind, the first two bytes of its data and, in an *)
(* answer, the number of the query: what fields hold is looked at below.   *)
(***************************************************************************)
EXTENDS Integers, Sequences, SequencesExt, FiniteSetsExt

CONSTANTS
    QueueRoom,      \* CAN_QUEUE_SIZE - 1: an spsc queue keeps one slot free
    Fifo,           \* frames the controller holds
    Pids,           \* second bytes of queries
    MaxFrames,      \* bound: frames that arrive
    MaxRounds,      \* bound: rounds in which the loop sends to the dashboard
    Values          \* values put into fields, in thousandths

VARIABLES
    wire,           \* frames in the controller
    task,           \* what can_task waits for
    tx, rx,         \* TX_QUEUE, RX_QUEUE
    rx_count,       \* CanManager
    rounds,
    \* history
    arrived,        \* frames that have arrived
    bus,            \* frames written to the bus
    accepted,       \* frames that transmit has taken
    handled         \* queries that the handler has answered

\* What the proofs ask of the constants: whole numbers.
Parameters == QueueRoom \in Nat /\ Fifo \in Nat /\ MaxFrames \in Nat /\ MaxRounds \in Nat /\ Values \subseteq Int

vars == <<wire, task, tx, rx, rx_count, rounds, arrived, bus, accepted, handled>>

Init ==
    /\ wire = <<>> /\ task = "drain" /\ tx = <<>> /\ rx = <<>> /\ rx_count = 0 /\ rounds = 0
    /\ arrived = 0 /\ bus = <<>> /\ accepted = <<>> /\ handled = <<>>

Query(service, pid, n) == [kind |-> "query", service |-> service, pid |-> pid, n |-> n]
Answer(q) == [kind |-> "answer", service |-> 64 + q.service, pid |-> q.pid, n |-> q.n]
DashFrames ==
    [Haltech |-> <<"360", "361", "362">>, BmwEseries |-> <<"0AA", "0D5">>, HondaKseries |-> <<"204", "309">>]

----------------------------------------------------------------------------
(* The controller and its task.                                            *)

\* A frame finds the controller full and is lost, or waits there.
Arrive(service, pid) ==
    /\ arrived < MaxFrames /\ arrived' = arrived + 1
    /\ wire' = IF Len(wire) < Fifo THEN Append(wire, Query(service, pid, arrived + 1)) ELSE wire
    /\ UNCHANGED <<task, tx, rx, rx_count, rounds, bus, accepted, handled>>

Write ==
    /\ task = "drain" /\ tx # <<>>
    /\ bus' = Append(bus, Head(tx)) /\ tx' = Tail(tx)
    /\ UNCHANGED <<wire, task, rx, rx_count, rounds, arrived, accepted, handled>>

Await ==
    /\ task = "drain" /\ tx = <<>> /\ task' = "read"
    /\ UNCHANGED <<wire, tx, rx, rx_count, rounds, arrived, bus, accepted, handled>>

\* A full queue drops the frame with a warning.
Read ==
    /\ task = "read" /\ wire # <<>>
    /\ rx' = IF Len(rx) < QueueRoom THEN Append(rx, Head(wire)) ELSE rx
    /\ wire' = Tail(wire) /\ task' = "drain"
    /\ UNCHANGED <<tx, rx_count, rounds, arrived, bus, accepted, handled>>

BusError ==
    /\ task = "read" /\ task' = "drain"
    /\ UNCHANGED <<wire, tx, rx, rx_count, rounds, arrived, bus, accepted, handled>>

----------------------------------------------------------------------------
(* The loop.                                                               *)

\* The bits that pids_supported_response sets, and the arms of handle_show_current_data.
SupportedBits == (24 .. 28) \cup (16 .. 20) \cup {15, 14, 12, 11}
Handled == {0} \cup (3 .. 7) \cup (11 .. 17) \cup {19, 20}

\* Stm32CanDriver::transmit of each frame in turn.
Accepted(frames) == SubSeq(frames, 1, Min({Len(frames), QueueRoom - Len(tx)}))
Transmit(frames) == tx' = tx \o Accepted(frames) /\ accepted' = accepted \o Accepted(frames)

\* handle_query: the length of the frame is not looked at, for its data are always eight bytes.
HandleQuery ==
    /\ rx # <<>> /\ rx' = Tail(rx)
    /\ LET q == Head(rx)
           answers == IF q.service = 1 /\ q.pid \in Handled THEN <<Answer(q)>> ELSE <<>>
       IN Transmit(answers) /\ handled' = handled \o answers
    /\ UNCHANGED <<wire, task, rx_count, rounds, arrived, bus>>

\* DashCanEncoder::transmit_all
TransmitAll(protocol) ==
    /\ rounds < MaxRounds /\ rounds' = rounds + 1
    /\ Transmit([i \in 1 .. Len(DashFrames[protocol]) |->
                    [kind |-> DashFrames[protocol][i], service |-> 0, pid |-> 0, n |-> rounds']])
    /\ UNCHANGED <<wire, task, rx, rx_count, arrived, bus, handled>>

\* CanManager::process_rx takes all frames, whoever they are for.
ProcessRx ==
    /\ rx # <<>> /\ rx' = <<>> /\ rx_count' = rx_count + Len(rx)
    /\ UNCHANGED <<wire, task, tx, rounds, arrived, bus, accepted, handled>>

Next ==
    \/ \E service \in {1, 2}, pid \in Pids : Arrive(service, pid)
    \/ Write \/ Await \/ Read \/ BusError
    \/ HandleQuery \/ ProcessRx
    \/ \E protocol \in DOMAIN DashFrames : TransmitAll(protocol)

Spec == Init /\ [][Next]_vars
\* The executor runs the task when it can go on; frames and errors come as they will.
FairSpec == Spec /\ WF_vars(Write) /\ WF_vars(Await) /\ WF_vars(Read)

----------------------------------------------------------------------------
(* Fields: a value is held to a range, moved, scaled by num / den and cut  *)
(* off to 8 or 16 bits, where the casts hold to the end of the type.       *)

Field(low, high, offset, num, den, bits) ==
    [low |-> 1000 * low, high |-> 1000 * high, offset |-> offset, num |-> num, den |-> den, bits |-> bits]
Fields ==
    [CalculatedLoad |-> Field(0, 100, 0, 255, 100, 8),     CoolantTemp |-> Field(-40, 215, 40000, 1, 1, 8),
     ObdMap         |-> Field(0, 1000, 0, 1, 1, 8),        ObdRpm      |-> Field(0, 20000, 0, 4, 1, 16),
     ObdTps         |-> Field(0, 100, 0, 255, 100, 8),     Speed       |-> Field(0, 255, 0, 1, 1, 8),
     FuelTrim       |-> [Field(-100, 100, 100000, 128, 100, 8) EXCEPT !.high = 99200],
     TimingAdvance  |-> [Field(-64, 64, 64000, 2, 1, 8) EXCEPT !.high = 63500],
     Maf            |-> [Field(0, 656, 0, 100, 1, 16) EXCEPT !.high = 655350],
     HaltechRpm     |-> Field(0, 16383, 0, 4, 1, 16),      HaltechTps  |-> Field(0, 100, 0, 2, 1, 8),
     HaltechTemp    |-> Field(-40, 215, 40000, 1, 1, 8),   HaltechMap  |-> Field(0, 400, 0, 10, 1, 16),
     HaltechLambda  |-> Field(0, 2, 0, 1000, 1, 16),       HaltechVbatt |-> Field(0, 20, 0, 10, 1, 8),
     HaltechOil     |-> Field(0, 1000, 0, 10, 1, 16),      BmwRpm      |-> Field(0, 8191, 0, 32, 5, 16),
     BmwClt         |-> Field(-48, 215, 48373, 4, 3, 8),   HondaRpm    |-> Field(0, 16000, 0, 4, 1, 16),
     HondaClt       |-> Field(-40, 215, 40000, 1, 1, 8),   HondaTps    |-> Field(0, 100, 0, 255, 100, 8)]

LastOf(f) == IF f.bits = 8 THEN 255 ELSE 65535
Encode(f, v) ==
    LET held == Min({Max({v, f.low}), f.high})
        scaled == ((held + f.offset) * f.num) \div (f.den * 1000)
    IN Min({Max({scaled, 0}), LastOf(f)})
\* The end of the values that the display shows for a raw value.
Shown(f, raw) == (raw * f.den * 1000) \div f.num - f.offset

----------------------------------------------------------------------------
(* Properties.                                                             *)

\* What transmit has taken reaches the bus in its order, nothing twice and nothing in between, and
\* neither queue takes more than it holds.
TakenIsSent == bus \o tx = accepted /\ Len(tx) <= QueueRoom /\ Len(rx) <= QueueRoom

\* An answer is to a query that came, answers keep the order of the queries, and none is answered
\* twice, however the task and the loop take turns and whatever frames are lost.
AnswersFollowQueries ==
    LET answers == {i \in 1 .. Len(accepted) : accepted[i].kind = "answer"}
    IN /\ \A i, j \in answers : i < j => accepted[i].n < accepted[j].n
       /\ \A i \in answers : accepted[i].n <= arrived /\ accepted[i] \in ToSet(handled)

\* A round reaches the dashboard from its first frame on: no later frame without the ones before it.
RoundsAreWhole ==
    \A p \in DOMAIN DashFrames : \A i \in 2 .. Len(DashFrames[p]) : \A k \in 1 .. Len(bus) :
        bus[k].kind = DashFrames[p][i] => k > 1 /\ bus[k - 1].kind = DashFrames[p][i - 1] /\ bus[k - 1].n = bus[k].n

\* "Bitmask for supported PIDs 0x01-0x20 (bit 31 = PID 0x01, bit 0 = PID 0x20)" (obd2.rs:207): the
\* mask names those that are answered. It does not: each bit is one too low.
MaskIsTrue == \A pid \in 1 .. 32 : (32 - pid) \in SupportedBits <=> pid \in Handled

\* A value in a field's range is shown within one step of the field, one outside it at the nearer
\* end: no field wraps.
FieldsAreTrue ==
    \A name \in DOMAIN Fields : \A v, w \in Values :
        LET f == Fields[name] IN
        /\ v <= w => Encode(f, v) <= Encode(f, w)
        /\ v \in f.low .. f.high /\ Encode(f, v) < LastOf(f) =>
              /\ Shown(f, Encode(f, v)) <= v
              /\ v <= Shown(f, Encode(f, v) + 1) + 1

\* An accepted frame leaves, "Attempt to transmit a frame" (hal.rs:120); not so while can_task waits
\* for a frame to read.
AnswerLeaves == \A n \in 1 .. MaxFrames : [](Len(accepted) >= n => <>(Len(bus) >= n))

CanHolds == TakenIsSent /\ AnswersFollowQueries /\ RoundsAreWhole
=============================================================================
