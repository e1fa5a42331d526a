-------------------------------- MODULE Link --------------------------------
(***************************************************************************)
(* Requests and answers over a line that damages them: frames delimited by *)
(* zero bytes and fragments sharing a sequence number (device-api: cobs.rs,*)
(* frame.rs, defrag.rs), the host's client (client/src/rdp.rs), and the    *)
(* device's receive loop, in two forms.  The simulator's (sim/serve.rs)    *)
(* splits what it reads at the zeros.  The firmware's (stm32/src/main.rs)  *)
(* also speaks the TunerStudio protocol (comms/mod.rs) on the same line:   *)
(* with a zero at the front of its buffer it waits for a frame of that     *)
(* protocol, and empties the buffer when it is none.                       *)
(*                                                                         *)
(* A frame to the device is two pieces and its zero, because a read may    *)
(* end anywhere; the first piece alone is too short for the length a       *)
(* TunerStudio header made of it asks for, the two are not.  A frame from  *)
(* the device arrives or is dropped: the client looks for zeros only.  A   *)
(* CRC never accepts a damaged frame.  Requests carry a number beside      *)
(* their sequence number, which the code does not have.                    *)
(***************************************************************************)
EXTENDS Naturals, Sequences, FiniteSets, SequencesExt, FiniteSetsExt

CONSTANTS
    Receivers,      \* receive loops: "simulator", "firmware"
    SeqNumbers,     \* sequence numbers wrap here (2^16 - 1: zero is not used)
    Fragments,      \* lengths of answers, in frames
    MaxRequests,    \* bound: requests the application makes
    MaxDamage,      \* bound: times the line damages something
    MaxPushes,      \* bound: frames the device pushes
    None

LinkAssumption ==
    /\ Receivers \subseteq {"simulator", "firmware"} /\ SeqNumbers \in Nat \ {0} /\ Fragments \subseteq Nat \ {0}
    /\ MaxRequests \in Nat /\ MaxDamage \in Nat /\ MaxPushes \in Nat /\ None \notin Nat

VARIABLES
    receiver,   \* the device is one or the other
    sent,       \* requests made so far
    waiting,    \* the request whose round_trip is under way, or None
    down,       \* pieces on their way to the device
    rx,         \* the device's receive buffer
    up,         \* frames on their way to the client
    pushes,     \* frames pushed so far
    defrag,     \* the client's Defragmenter: [seq, buffer]
    got,        \* requests whose answer the client had whole, in time or not (history)
    answered,   \* what the last round_trip returned: [request, answer], or None
    cancelled,  \* requests given up before they were written (history)
    damage      \* times the line damaged something

host == <<sent, waiting, answered, cancelled>>
client == <<defrag, got>>
line == <<down, rx, up, pushes, damage>>
vars == <<receiver, host, client, line>>

Request == 1 .. MaxRequests
SeqOfRequest(r) == ((r - 1) % SeqNumbers) + 1
Piece == [of : Request, part : {"head", "tail"}, good : BOOLEAN]
Zero == [part |-> "zero"]
Item == Piece \cup {Zero}
Frame == [seq : 0 .. SeqNumbers, of : Request \cup {None}, n : Nat, last : BOOLEAN]

Init ==
    /\ receiver \in Receivers
    /\ sent = 0 /\ waiting = None /\ answered = None /\ cancelled = {}
    /\ down = <<>> /\ rx = <<>> /\ up = <<>> /\ pushes = 0
    /\ defrag = [seq |-> None, buffer |-> <<>>]
    /\ got = {} /\ damage = 0

----------------------------------------------------------------------------
(* The application and send_payload.                                       *)

Pieces(r) == << [of |-> r, part |-> "head", good |-> TRUE], [of |-> r, part |-> "tail", good |-> TRUE], Zero >>

Send ==
    /\ waiting = None /\ sent < MaxRequests
    /\ sent' = sent + 1 /\ waiting' = sent + 1
    /\ down' = down \o Pieces(sent + 1)
    /\ UNCHANGED <<receiver, client, rx, up, pushes, damage, answered, cancelled>>

\* The future is dropped inside write_all: what was written stays on the line.
SendPartly ==
    /\ waiting = None /\ sent < MaxRequests
    /\ sent' = sent + 1 /\ cancelled' = cancelled \cup {sent + 1}
    /\ down' = Append(down, Head(Pieces(sent + 1)))
    /\ UNCHANGED <<receiver, client, rx, up, pushes, damage, answered, waiting>>

\* The application stops waiting, round_trip itself never does.
GiveUp ==
    /\ waiting # None /\ waiting' = None
    /\ UNCHANGED <<receiver, client, down, rx, up, pushes, damage, sent, answered, cancelled>>

----------------------------------------------------------------------------
(* The line.                                                               *)

Damage == damage < MaxDamage /\ damage' = damage + 1

LoseDown ==
    /\ Damage
    /\ \E i \in DOMAIN down : down' = RemoveAt(down, i)
    /\ UNCHANGED <<receiver, host, client, rx, up, pushes>>
GarbleDown ==
    /\ Damage
    /\ \E i \in DOMAIN down : down[i] # Zero /\ down' = [down EXCEPT ![i].good = FALSE]
    /\ UNCHANGED <<receiver, host, client, rx, up, pushes>>
StrayZero ==
    /\ Damage
    /\ \E i \in 1 .. Len(down) + 1 : down' = InsertAt(down, i, Zero)
    /\ UNCHANGED <<receiver, host, client, rx, up, pushes>>
LoseUp ==
    /\ Damage
    /\ \E i \in DOMAIN up : up' = RemoveAt(up, i)
    /\ UNCHANGED <<receiver, host, client, down, rx, pushes>>

----------------------------------------------------------------------------
(* The device.                                                             *)

Zeros(s) == {i \in DOMAIN s : s[i] = Zero}

\* With a zero in front, comms::decode_frame has the bytes its header asks for.
Enough == \E i \in DOMAIN rx : rx[i] # Zero /\ rx[i].part = "tail"
AtLegacy == receiver = "firmware" /\ rx # <<>> /\ Head(rx) = Zero
Busy == IF AtLegacy THEN Enough ELSE Zeros(rx) # {}

Read(k) ==
    /\ ~Busy /\ k \in DOMAIN down
    /\ rx' = rx \o SubSeq(down, 1, k)
    /\ down' = SubSeq(down, k + 1, Len(down))
    /\ UNCHANGED <<receiver, host, client, up, pushes, damage>>

\* encode_message: all but the last fragment say that more follow.
Answer(r, size) == [i \in 1 .. size |-> [seq |-> SeqOfRequest(r), of |-> r, n |-> i, last |-> i = size]]

\* One frame is taken off the buffer; if it is intact its request is handled and answered.
TakeFrame ==
    /\ Busy /\ ~AtLegacy
    /\ LET at == Min(Zeros(rx))
           r == rx[1].of IN
       /\ rx' = SubSeq(rx, at + 1, Len(rx))
       /\ IF at > 1 /\ SubSeq(rx, 1, at) = Pieces(r)
          THEN \E size \in Fragments : up' = up \o Answer(r, size)
          ELSE UNCHANGED up
    /\ UNCHANGED <<receiver, host, client, down, pushes, damage>>

\* What began with a zero is no TunerStudio frame: everything read so far goes.
TakeLegacy ==
    /\ Busy /\ AtLegacy
    /\ rx' = <<>>
    /\ UNCHANGED <<receiver, host, client, down, up, pushes, damage>>

Push ==
    /\ pushes < MaxPushes /\ pushes' = pushes + 1
    /\ up' = Append(up, [seq |-> pushes, of |-> None, n |-> 1, last |-> TRUE])
    /\ UNCHANGED <<receiver, host, client, down, rx, damage>>

----------------------------------------------------------------------------
(* The client: Defragmenter::feed and round_trip.                          *)

Reset == [seq |-> None, buffer |-> <<>>]
Whole(f) == f.n = 1 /\ f.last       \* not a fragment

\* mutant: a fragment of another message leaves the interrupted one in place
Feed_NoReset(f) ==
    IF Whole(f) THEN [defrag |-> Reset, message |-> <<f>>]
    ELSE IF defrag.seq \notin {None, f.seq} THEN [defrag |-> defrag, message |-> <<>>]
    ELSE LET all == Append(defrag.buffer, f) IN
         IF f.last THEN [defrag |-> Reset, message |-> all]
                   ELSE [defrag |-> [seq |-> f.seq, buffer |-> all], message |-> <<>>]
\* The message that is complete with frame f, or <<>>.
Feed(f) ==
    IF Whole(f) THEN [defrag |-> Reset, message |-> <<f>>]
    ELSE IF defrag.seq \notin {None, f.seq} THEN [defrag |-> Reset, message |-> <<>>]
    ELSE LET all == Append(defrag.buffer, f) IN
         IF f.last THEN [defrag |-> Reset, message |-> all]
                   ELSE [defrag |-> [seq |-> f.seq, buffer |-> all], message |-> <<>>]

Complete(m) == m[1].n = 1 /\ \A i \in DOMAIN m : m[i].of = m[1].of /\ m[i].n = i

\* mutant: the client takes any response for the one it waits for
Accepts_Any(m) == waiting # None
\* Its kind and operation are in the first fragment: without it the message is skipped.
Accepts(m) == waiting # None /\ m[Len(m)].seq = SeqOfRequest(waiting) /\ m[1].n = 1

Receive ==
    /\ up # <<>> /\ up' = Tail(up)
    /\ LET fed == Feed(Head(up))
           m == fed.message IN
       /\ defrag' = fed.defrag
       /\ IF m = <<>> \/ m[1].of = None THEN UNCHANGED <<got, waiting, answered>>
          ELSE /\ got' = IF Complete(m) THEN got \cup {m[1].of} ELSE got
               /\ IF Accepts(m)
                  THEN /\ answered' = [request |-> waiting,
                                       \* a body with a hole does not decode
                                       answer |-> IF Complete(m) THEN m[1].of ELSE None]
                       /\ waiting' = None
                  ELSE UNCHANGED <<waiting, answered>>
    /\ UNCHANGED <<receiver, sent, cancelled, down, rx, pushes, damage>>

Next ==
    \/ Send \/ SendPartly \/ GiveUp
    \/ LoseDown \/ GarbleDown \/ StrayZero \/ LoseUp
    \/ (\E k \in DOMAIN down : Read(k)) \/ TakeFrame \/ TakeLegacy \/ Push
    \/ Receive

Spec == Init /\ [][Next]_vars

----------------------------------------------------------------------------
(* Properties.                                                             *)

\* Whatever the line damages, and however often the application gives up, round_trip returns the
\* device's answer to its own request or an error: no late answer to an earlier request, no
\* message put together from two.  (Sequence numbers must not come round while answers are late.)
AnswersMatch == answered # None => answered.answer \in {None, answered.request}

\* Requests whose answer will never come.
Unanswered == (1 .. sent) \ (got \cup cancelled)
Quiet == down = <<>> /\ up = <<>> /\ ~Busy

Contained == Quiet => Cardinality(Unanswered) <= 2 * damage + Cardinality(cancelled)

\* One damaged byte costs the request or answer it hits and at most one more, the one whose frame
\* is joined to it or whose first fragment is taken for its continuation, and so does a write
\* that was broken off; what comes after them is answered.
DamageIsContained == receiver = "simulator" => Contained

\* "It is self-synchronizing: a receiver that joins mid-stream recovers at the next 0x00"
\* (cobs.rs), whichever receiver it is.
RecoversAtNextZero == Contained
=============================================================================
