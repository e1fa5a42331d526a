------------------------------- MODULE Faults -------------------------------
(***************************************************************************)
(* Faults from the control loop to a host's display: the fault store and   *)
(* the event queue of the device (engine-core/src/comms/faults.rs), the    *)
(* server that fills and serves them (comms/rdp.rs), the loop that pushes  *)
(* the events (sim/src/serve.rs), and the client (client/src/rdp.rs).      *)
(*                                                                         *)
(* Nothing in the firmware or the simulator calls note_fault and its       *)
(* siblings yet: "called by the control loop", says rdp.rs, and so does    *)
(* this module.  Of a record only its code and whether it is active is     *)
(* kept.  The transport is TCP's: in order, and all or nothing.            *)
(*                                                                         *)
(* The host does what docs/api/05 asks: GetFaults after connecting, then   *)
(* it follows the events.  It clears records it has just read.             *)
(***************************************************************************)
EXTENDS Naturals, Sequences, FiniteSets, SequencesExt, FiniteSetsExt

CONSTANTS
    Code,           \* fault codes
    MaxFaults,      \* MAX_FAULTS
    MaxEvents,      \* MAX_EVENTS
    MaxPending,     \* bound: messages on their way to the application
    None

ASSUME FaultAssumption ==
    /\ MaxFaults \in Nat \ {0} /\ MaxEvents \in Nat \ {0} /\ MaxPending \in Nat
    /\ IsFiniteSet(Code) /\ None \notin Code

VARIABLES
    records,    \* FaultStore.records
    queue,      \* EventQueue.queue
    present,    \* faults as the control loop sees them (history)
    refused,    \* faults raised when the store had no room (history)
    missed,     \* faults whose last event was dropped (history)
    toDevice,   \* the request under way, or None
    toHost,     \* messages on their way to the client
    connected,
    waiting,    \* the client is inside round_trip
    events,     \* RdpClient.events
    snapshot,   \* the application's last answer to GetFaults, empty once used, None before
    view        \* the faults the application takes to be active

control == <<records, queue, present, refused, missed>>
link == <<toDevice, toHost, connected>>
host == <<waiting, events, snapshot, view>>
vars == <<control, link, host>>

Record == [code : Code, active : BOOLEAN]
Event == [kind : {"FaultSet", "FaultCleared"}, code : Code] \cup [kind : {"Knock"}]
Reply == [kind : {"Faults"}, faults : SeqOf(Record, MaxFaults)] \cup [kind : {"Cleared"}]
\* ClearFaults names records by their place; `meant` is what the host read there (history).
Request == [op : {"GetFaults"}]
           \cup [op : {"ClearFaults"}, mask : SUBSET (1 .. MaxFaults), meant : SUBSET Code]

Init ==
    /\ records = <<>> /\ queue = <<>>
    /\ present = {} /\ refused = {} /\ missed = {}
    /\ toDevice = None /\ toHost = <<>> /\ connected = FALSE
    /\ waiting = FALSE /\ events = <<>> /\ snapshot = None /\ view = {}

----------------------------------------------------------------------------
(* The store and the queue.                                                *)

Codes(s) == {s[i].code : i \in DOMAIN s}
ActiveIn(s) == {s[i].code : i \in {j \in DOMAIN s : s[j].active}}
About(s, c) == {i \in DOMAIN s : s[i].kind \in {"FaultSet", "FaultCleared"} /\ s[i].code = c}

SetActive(c, on) == [i \in DOMAIN records |->
                        IF records[i].code = c THEN [records[i] EXCEPT !.active = on] ELSE records[i]]

\* mutant: an event only for a fault that is new to the store, not for one that comes back
Raise_OnlyNew(c) ==
    IF c \in Codes(records) THEN [records |-> SetActive(c, TRUE), tell |-> FALSE]
    ELSE IF Len(records) < MaxFaults
    THEN [records |-> Append(records, [code |-> c, active |-> TRUE]), tell |-> TRUE]
    ELSE [records |-> records, tell |-> FALSE]
\* FaultStore::raise: the new records, and whether a FaultSet event is due.
Raise(c) ==
    IF c \in Codes(records) THEN [records |-> SetActive(c, TRUE), tell |-> c \notin ActiveIn(records)]
    ELSE IF Len(records) < MaxFaults
    THEN [records |-> Append(records, [code |-> c, active |-> TRUE]), tell |-> TRUE]
    ELSE [records |-> records, tell |-> FALSE]

\* FaultStore::clear_mask: active records stay.
Kept(mask) == {i \in DOMAIN records : records[i].active \/ i \notin mask}
\* mutant: places are counted over the records that stay
ClearMask_CountKept(mask) ==
    SelectSeq(records, LAMBDA r : r.active \/
        Cardinality({j \in DOMAIN records : j < (CHOOSE i \in DOMAIN records : records[i] = r)
                                            /\ records[j].active}) + 1 \notin mask)
ClearMask(mask) == [i \in 1 .. Cardinality(Kept(mask)) |->
                        records[CHOOSE k \in Kept(mask) : Cardinality({j \in Kept(mask) : j <= k}) = i]]

\* EventQueue::push: a full queue loses its oldest event.
Push(e) ==
    LET full == Len(queue) = MaxEvents
        lost == Head(queue)
    IN  /\ queue' = Append(IF full THEN Tail(queue) ELSE queue, e)
        /\ missed' = IF full /\ lost.kind # "Knock" /\ About(queue', lost.code) = {}
                     THEN missed \cup {lost.code} ELSE missed

NoteFault(c) ==
    LET r == Raise(c) IN
    /\ records' = r.records
    /\ IF r.tell THEN Push([kind |-> "FaultSet", code |-> c]) ELSE UNCHANGED <<queue, missed>>
    /\ present' = present \cup {c}
    /\ refused' = IF c \in Codes(r.records) THEN refused \ {c} ELSE refused \cup {c}
    /\ UNCHANGED <<link, host>>

NoteFaultCleared(c) ==
    /\ records' = SetActive(c, FALSE)
    /\ IF c \in ActiveIn(records) THEN Push([kind |-> "FaultCleared", code |-> c])
                                  ELSE UNCHANGED <<queue, missed>>
    /\ present' = present \ {c} /\ refused' = refused \ {c}
    /\ UNCHANGED <<link, host>>

\* note_knock, note_sync, note_protection_cut and note_limp share the queue.
NoteKnock == Push([kind |-> "Knock"]) /\ UNCHANGED <<records, present, refused, link, host>>

----------------------------------------------------------------------------
(* One connection at a time, served in one loop.                           *)

Connect ==
    /\ ~connected /\ connected' = TRUE
    /\ UNCHANGED <<control, toDevice, toHost, host>>

\* The client is gone, with all it knew; on_disconnect keeps faults and events.
Disconnect ==
    /\ connected /\ connected' = FALSE
    /\ toDevice' = None /\ toHost' = <<>>
    /\ waiting' = FALSE /\ events' = <<>> /\ snapshot' = None /\ view' = {}
    /\ UNCHANGED control

Undelivered(c) == About(toHost, c) # {} \/ About(events, c) # {}

\* op_get_faults: the answer makes good the events lost so far, except where an older event
\* is still on its way, which the application will apply after the answer.
GetFaults ==
    /\ toDevice # None /\ toDevice.op = "GetFaults"
    /\ toDevice' = None
    /\ toHost' = Append(toHost, [kind |-> "Faults", faults |-> records])
    /\ missed' = {c \in missed : Undelivered(c)}
    /\ UNCHANGED <<records, queue, present, refused, connected, host>>

ClearFaults ==
    /\ toDevice # None /\ toDevice.op = "ClearFaults"
    /\ records' = ClearMask(toDevice.mask)
    /\ toDevice' = None
    /\ toHost' = Append(toHost, [kind |-> "Cleared"])
    /\ UNCHANGED <<queue, present, refused, missed, connected, host>>

PollEvent ==
    /\ connected /\ queue # <<>> /\ Len(toHost) + Len(events) < MaxPending
    /\ toHost' = Append(toHost, Head(queue))
    /\ queue' = Tail(queue)
    /\ UNCHANGED <<records, present, refused, missed, toDevice, connected, host>>

----------------------------------------------------------------------------
(* The client and its application.                                         *)

Ask(r) ==
    /\ connected /\ ~waiting
    /\ toDevice' = r /\ waiting' = TRUE
    /\ UNCHANGED <<control, toHost, connected, events, view>>

AskFaults == Ask([op |-> "GetFaults"]) /\ UNCHANGED snapshot

\* A mask is made of places in the last answer, and used once.
AskClear ==
    /\ snapshot # None
    /\ \E mask \in SUBSET DOMAIN snapshot \ {{}} :
          Ask([op |-> "ClearFaults", mask |-> mask, meant |-> {snapshot[i].code : i \in mask}])
    /\ snapshot' = <<>>

ReceiveFaults ==
    /\ toHost # <<>> /\ Head(toHost).kind = "Faults" /\ toHost' = Tail(toHost)
    /\ waiting' = FALSE /\ snapshot' = Head(toHost).faults
    /\ view' = ActiveIn(Head(toHost).faults)
    /\ UNCHANGED <<control, toDevice, connected, events>>

ReceiveCleared ==
    /\ toHost # <<>> /\ Head(toHost).kind = "Cleared" /\ toHost' = Tail(toHost)
    /\ waiting' = FALSE
    /\ UNCHANGED <<control, toDevice, connected, events, snapshot, view>>

\* round_trip and next_push put events aside.
ReceiveEvent ==
    /\ toHost # <<>> /\ Head(toHost).kind \notin {"Faults", "Cleared"} /\ toHost' = Tail(toHost)
    /\ events' = Append(events, Head(toHost))
    /\ UNCHANGED <<control, toDevice, connected, waiting, snapshot, view>>

Applied(v, e) ==
    IF e.kind = "FaultSet" THEN v \cup {e.code} ELSE IF e.kind = "FaultCleared" THEN v \ {e.code} ELSE v

TryNextEvent ==
    /\ events # <<>> /\ ~waiting
    /\ events' = Tail(events)
    /\ view' = IF snapshot = None THEN view ELSE Applied(view, Head(events))
    /\ UNCHANGED <<control, link, waiting, snapshot>>

Next ==
    \/ \E c \in Code : NoteFault(c) \/ NoteFaultCleared(c)
    \/ NoteKnock
    \/ Connect \/ Disconnect
    \/ GetFaults \/ ClearFaults \/ PollEvent
    \/ AskFaults \/ AskClear
    \/ ReceiveFaults \/ ReceiveCleared \/ ReceiveEvent \/ TryNextEvent

Spec == Init /\ [][Next]_vars

----------------------------------------------------------------------------
(* Properties.                                                             *)

\* The state is of the declared shape; neither list of faults.rs outgrows its array, a code has
\* one record, and the client waits exactly while its request or the answer is under way.
TypeOK ==
    /\ records \in SeqOf(Record, MaxFaults) /\ \A i, j \in DOMAIN records :
                                                    records[i].code = records[j].code => i = j
    /\ queue \in SeqOf(Event, MaxEvents)
    /\ present \subseteq Code /\ refused \subseteq present /\ missed \subseteq Code
    /\ toDevice \in Request \cup {None} /\ connected \in BOOLEAN /\ waiting \in BOOLEAN
    /\ \A i \in DOMAIN toHost : toHost[i] \in Event \cup Reply
    /\ \A i \in DOMAIN events : events[i] \in Event
    /\ snapshot \in SeqOf(Record, MaxFaults) \cup {None} /\ view \subseteq Code
    /\ waiting <=> (toDevice # None \/ \E i \in DOMAIN toHost : toHost[i] \in Reply)

\* What the application will hold true of fault c once it has everything that is under way:
\* an answer is applied when it comes, events it overtakes are applied after it.
Answers == {i \in DOMAIN toHost : toHost[i].kind = "Faults"}
Knows == snapshot # None \/ Answers # {}
Base == IF Answers = {} THEN view ELSE ActiveIn(toHost[Max(Answers)].faults)
Pending == events \o toHost \o queue
WillHold(c) ==
    LET told == About(Pending, c) IN
    IF told = {} THEN c \in Base ELSE Pending[Max(told)].kind = "FaultSet"

\* "After connecting the host gets the active faults with GetFaults, then follows the events"
\* (docs/api/05 3.2).  Once it has asked, and once what is under way has arrived, it knows every
\* fault the control loop sees, except one the store had no room for and one whose last event
\* the queue dropped and the host did not make good: across reconnections, with events and
\* answers crossing, and with records cleared.
HostFollowsFaults ==
    Knows => \A c \in Code \ missed : WillHold(c) <=> c \in present \ refused

\* ClearFaults names records by place: whatever was raised, resolved or answered since the host
\* read the places, no record goes that it did not mean, and none that is active.
ClearHitsWhatWasMeant ==
    [][ClearFaults => /\ Codes(records) \ Codes(records') \subseteq toDevice.meant
                      /\ ActiveIn(records') = ActiveIn(records)]_vars
=============================================================================
