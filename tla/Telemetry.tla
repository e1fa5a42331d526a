----------------------------- MODULE Telemetry -----------------------------
(***************************************************************************)
(* Telemetry subscriptions end to end: the stream table of the device      *)
(* (engine-core/src/comms/telemetry.rs), the loop that polls it, the link, *)
(* and the host's client with its layouts and its queue of decoded frames  *)
(* (client/src/rdp.rs).                                                    *)
(*                                                                         *)
(* Two loops poll the table: the simulator's (sim/src/serve.rs) sends      *)
(* every frame that is due (Drain), the comms task of the firmware         *)
(* (stm32/src/main.rs) one frame per wake-up.  The unit of time is the     *)
(* poll period of the firmware, 10 ms.                                     *)
(*                                                                         *)
(* Due times are kept as the time that is left.  The code keeps them as     *)
(* values of a u32 millisecond clock and compares those as plain numbers,  *)
(* which is the same except within one interval of the wrap of that clock, *)
(* every 49.7 days: a stream due beyond it looks due at once.              *)
(*                                                                         *)
(* The values in a frame are left out: a frame is the layout it was packed *)
(* for.  The link loses nothing here.                                      *)
(***************************************************************************)
EXTENDS Integers, Sequences, FiniteSets

CONSTANTS
    MaxStreams,     \* MAX_STREAMS
    Layouts,        \* channel lists a host asks for
    Intervals,      \* push intervals it may get: 1000 / rate, in units of time
    SeqMod,         \* frame sequence numbers wrap here (2^16)
    Drain,          \* the loop sends every due frame, not just one
    Delays,         \* time between two polls
    MaxInFlight,    \* messages the transport takes before write_all blocks
    HostRestarts,   \* whether the host may go away and come back
    None

ASSUME StreamAssumption ==
    /\ MaxStreams \in Nat \ {0} /\ Intervals \subseteq Nat \ {0} /\ Delays \subseteq Nat \ {0}
    /\ SeqMod \in Nat \ {0, 1} /\ MaxInFlight \in Nat \ {0}
    /\ Drain \in BOOLEAN /\ HostRestarts \in BOOLEAN
    /\ \E i \in Intervals : \A j \in Intervals : j <= i

Streams == 1 .. MaxStreams      \* stream ids, slot index plus one

VARIABLES
    slots,      \* TelemetryStreams.slots
    elapsed,    \* time since the last frame of each stream, up to the longest interval (history)
    polling,    \* the loop is at its push stage
    toDevice,   \* request under way, or None
    toHost,     \* messages under way
    waiting,    \* the client is inside round_trip
    layouts,    \* RdpClient.layouts
    queue       \* RdpClient.telemetry: decoded frames the application has not taken

device == <<slots, elapsed, polling>>
client == <<waiting, layouts, queue>>
vars == <<device, toDevice, toHost, client>>

LongestInterval == CHOOSE i \in Intervals : \A j \in Intervals : j <= i

Stream == [layout : Layouts, interval : Intervals, due : 0 .. LongestInterval, seq : 0 .. SeqMod - 1]
Requests == [op : {"Subscribe"}, layout : Layouts, interval : Intervals]
            \cup [op : {"Unsubscribe"}, stream : Streams]
Frames == [kind : {"frame"}, stream : Streams, layout : Layouts]
Replies == [kind : {"reply"}, op : {"Subscribe"}, code : {"Ok"}, stream : Streams, layout : Layouts]
           \cup [kind : {"reply"}, op : {"Subscribe"}, code : {"Busy"}]
           \cup [kind : {"reply"}, op : {"Unsubscribe"}, code : {"Ok", "NotFound"}, stream : Streams]
\* A decoded frame remembers the layout it was decoded with.
Decoded == [stream : Streams, packed : Layouts, read : Layouts]

ASSUME NoneAssumption == None \notin Layouts \cup Stream \cup Requests

Init ==
    /\ slots = [s \in Streams |-> None] /\ elapsed = [s \in Streams |-> 0]
    /\ polling = FALSE
    /\ toDevice = None /\ toHost = <<>>
    /\ waiting = FALSE /\ layouts = [s \in Streams |-> None] /\ queue = {}

----------------------------------------------------------------------------
(* The device.                                                             *)

Active == {s \in Streams : slots[s] # None}
Due == {s \in Active : slots[s].due = 0}
First(S) == CHOOSE s \in S : \A t \in S : s <= t

\* Over the limit, the last message is the one write_all is blocked in, and the loop with it.
Blocked == Len(toHost) > MaxInFlight
Reply(r) == toHost' = Append(toHost, r) /\ toDevice' = None

Serving(op) == ~polling /\ ~Blocked /\ toDevice # None /\ toDevice.op = op

\* The first free slot; due at once.
Subscribe ==
    /\ Serving("Subscribe")
    /\ LET free == Streams \ Active
           s == First(free)
       IN IF free = {}
          THEN /\ UNCHANGED <<slots, elapsed>>
               /\ Reply([kind |-> "reply", op |-> "Subscribe", code |-> "Busy"])
          ELSE /\ slots' = [slots EXCEPT ![s] = [layout |-> toDevice.layout,
                                                 interval |-> toDevice.interval,
                                                 due |-> 0, seq |-> 0]]
               /\ elapsed' = [elapsed EXCEPT ![s] = LongestInterval]
               /\ Reply([kind |-> "reply", op |-> "Subscribe", code |-> "Ok",
                         stream |-> s, layout |-> toDevice.layout])
    /\ UNCHANGED <<polling, client>>

Unsubscribe ==
    /\ Serving("Unsubscribe")
    /\ LET s == toDevice.stream
       IN /\ slots' = [slots EXCEPT ![s] = None]
          /\ Reply([kind |-> "reply", op |-> "Unsubscribe", stream |-> s,
                    code |-> IF s \in Active THEN "Ok" ELSE "NotFound"])
    /\ UNCHANGED <<elapsed, polling, client>>

\* The read times out and the loop turns to its pushes.
Capped(t) == IF t < LongestInterval THEN t ELSE LongestInterval
NotBelow(t, d) == IF t > d THEN t - d ELSE 0
Wake ==
    /\ ~polling /\ ~Blocked
    /\ polling' = TRUE
    /\ \E d \in Delays :
        /\ elapsed' = [s \in Streams |-> Capped(elapsed[s] + d)]
        /\ slots' = [s \in Streams |->
                        IF s \in Active THEN [slots[s] EXCEPT !.due = NotBelow(@, d)] ELSE None]
    /\ UNCHANGED <<toDevice, toHost, client>>

\* A slot once its frame is sent.
NextSeq(n) == (n + 1) % SeqMod
Sent_NoReschedule(slot) == [slot EXCEPT !.seq = NextSeq(@)]
Sent(slot) == [slot EXCEPT !.due = slot.interval, !.seq = NextSeq(@)]

\* Whether the loop polls again after a frame.
PollsOn_Once == FALSE
PollsOn == Drain

\* poll_telemetry: the first stream that is due sends its frame.
PushFrame ==
    /\ polling /\ ~Blocked /\ Due # {}
    /\ LET s == First(Due)
       IN /\ slots' = [slots EXCEPT ![s] = Sent(@)]
          /\ elapsed' = [elapsed EXCEPT ![s] = 0]
          /\ toHost' = Append(toHost, [kind |-> "frame", stream |-> s, layout |-> slots[s].layout])
    /\ polling' = PollsOn
    /\ UNCHANGED <<toDevice, client>>

PushEnd ==
    /\ polling /\ ~Blocked /\ Due = {}
    /\ polling' = FALSE
    /\ UNCHANGED <<slots, elapsed, toDevice, toHost, client>>

----------------------------------------------------------------------------
(* The client.                                                             *)

Request ==
    /\ ~waiting
    /\ toDevice' \in Requests
    /\ waiting' = TRUE
    /\ UNCHANGED <<device, toHost, layouts, queue>>

\* The client reads the link inside round_trip, and in next_push once its queue is empty.
Reads(kind) ==
    /\ toHost # <<>> /\ Head(toHost).kind = kind
    /\ waiting \/ queue = {}
    /\ toHost' = Tail(toHost)
    /\ UNCHANGED <<device, toDevice>>

\* queue_telemetry: decode by the layout on record, drop a frame of an unknown stream.
ReadFrame ==
    /\ Reads("frame")
    /\ LET f == Head(toHost)
       IN queue' = IF layouts[f.stream] = None THEN queue
                   ELSE queue \cup {[stream |-> f.stream, packed |-> f.layout,
                                     read |-> layouts[f.stream]]}
    /\ UNCHANGED <<waiting, layouts>>

\* subscribe records the layout after the reply, unsubscribe forgets it whatever the reply says.
ReadReply_KeepLayout ==
    /\ Reads("reply")
    /\ waiting' = FALSE
    /\ LET r == Head(toHost)
       IN layouts' = IF r.op = "Subscribe" /\ r.code = "Ok" /\ layouts[r.stream] = None
                     THEN [layouts EXCEPT ![r.stream] = r.layout] ELSE layouts
    /\ UNCHANGED queue
ReadReply_NoForget ==
    /\ Reads("reply")
    /\ waiting' = FALSE
    /\ LET r == Head(toHost)
       IN layouts' = IF r.code = "Ok" /\ r.op = "Subscribe"
                     THEN [layouts EXCEPT ![r.stream] = r.layout] ELSE layouts
    /\ UNCHANGED queue
ReadReply ==
    /\ Reads("reply")
    /\ waiting' = FALSE
    /\ LET r == Head(toHost)
       IN layouts' = IF r.op = "Unsubscribe" THEN [layouts EXCEPT ![r.stream] = None]
                     ELSE IF r.code = "Ok" THEN [layouts EXCEPT ![r.stream] = r.layout]
                     ELSE layouts
    /\ UNCHANGED queue

\* The application takes a queued frame.
TakeFrame ==
    /\ ~waiting
    /\ \E f \in queue : queue' = queue \ {f}
    /\ UNCHANGED <<device, toDevice, toHost, waiting, layouts>>

\* The host goes away and another comes: a new client, an empty link.  The simulator's server sees
\* the connection close, in a read or in a write, and drops the streams; the firmware's does not.
HostRestart ==
    /\ HostRestarts
    /\ IF Drain THEN slots' = [s \in Streams |-> None] /\ polling' = FALSE
                ELSE UNCHANGED <<slots, polling>>
    /\ toDevice' = None /\ toHost' = <<>>
    /\ waiting' = FALSE /\ layouts' = [s \in Streams |-> None] /\ queue' = {}
    /\ UNCHANGED elapsed

Next ==
    \/ Subscribe \/ Unsubscribe \/ Wake \/ PushFrame \/ PushEnd
    \/ Request \/ ReadFrame \/ ReadReply \/ TakeFrame \/ HostRestart

Spec == Init /\ [][Next]_vars

(***************************************************************************)
(* The loop of the device runs on, and a request it has received is read   *)
(* before it sleeps for ever (strong, because Wake comes in between).  The *)
(* application keeps reading.  The firmware's Wake has a right to this     *)
(* only while the host pauses for 10 ms now and then: each request it      *)
(* receives starts the timer afresh.                                       *)
(***************************************************************************)
FairSpec ==
    /\ Spec
    /\ WF_vars(Wake) /\ WF_vars(PushFrame) /\ WF_vars(PushEnd)
    /\ SF_vars(Subscribe) /\ SF_vars(Unsubscribe)
    /\ WF_vars(ReadFrame) /\ WF_vars(ReadReply) /\ WF_vars(TakeFrame)

----------------------------------------------------------------------------
(* Properties.                                                             *)

TypeOK ==
    /\ slots \in [Streams -> Stream \cup {None}]
    /\ elapsed \in [Streams -> 0 .. LongestInterval]
    /\ polling \in BOOLEAN /\ waiting \in BOOLEAN
    /\ toDevice \in Requests \cup {None}
    /\ toHost \in Seq(Frames \cup Replies) /\ Len(toHost) <= MaxInFlight + 1
    /\ layouts \in [Streams -> Layouts \cup {None}]
    /\ queue \subseteq Decoded

\* A stream id is used again with another layout, while frames of the old stream are still under
\* way; the client nevertheless decodes every frame with the layout it was packed for.
DecodedAsPacked == \A f \in queue : f.packed = f.read

\* The client never believes in a stream the device has dropped, once it is out of round_trip.
KnownStreamsAreActive ==
    ~waiting => \A s \in Streams : layouts[s] # None => slots[s] # None /\ slots[s].layout = layouts[s]

\* Between two frames of a stream at least its interval passes.
RateRespected ==
    [][\A s \in Streams : slots[s] # None /\ slots'[s] # None /\ slots'[s].seq # slots[s].seq
            => elapsed[s] >= slots[s].interval]_vars

\* Streams can be used side by side: while a stream is subscribed its frames keep coming, however
\* often the other streams are due.
EveryStreamServed ==
    \A s \in Streams : slots[s] # None ~> slots[s] = None \/ elapsed[s] = 0

\* Every request gets its reply although the link is full of frames.
RequestsAnswered == waiting ~> ~waiting

(* What the documents say and the code does not do.                        *)

\* docs/api/05 section 1.2: from the reply on, frames come in the order of the layout it gave.
FramesFitSubscription ==
    \A f \in queue : ~waiting /\ layouts[f.stream] # None => f.packed = layouts[f.stream]
=============================================================================
