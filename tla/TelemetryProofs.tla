-------------------------- MODULE TelemetryProofs --------------------------
(***************************************************************************)
(* Frames are decoded with the layout they were packed for, the client     *)
(* knows only streams the device serves, and no stream exceeds its rate:   *)
(* for every number of streams, layouts, intervals, link capacity, both    *)
(* polling loops, and with hosts that go away at any moment.               *)
(***************************************************************************)
EXTENDS Telemetry, SequenceTheorems, WellFoundedInduction, TLAPS

Message == Frames \cup Replies

\* What the client has on record of stream s once it has read reply r.
Recorded(r, s) ==
    IF r.op = "Unsubscribe" THEN IF r.stream = s THEN None ELSE layouts[s]
    ELSE IF r.code = "Ok" /\ r.stream = s THEN r.layout ELSE layouts[s]

ReplyAt(i) == toHost[i].kind = "reply"

\* One request is under way, or its reply, or neither.
OneAnswer ==
    /\ toDevice # None => waiting /\ \A i \in 1 .. Len(toHost) : ~ReplyAt(i)
    /\ \A i \in 1 .. Len(toHost) : ReplyAt(i) => waiting
    /\ \A i, j \in 1 .. Len(toHost) : ReplyAt(i) /\ ReplyAt(j) => i = j

\* A frame was packed with the layout on record when the client will read it, or none will be.
Fits(i) ==
    LET f == toHost[i] IN
    /\ (\A j \in 1 .. i - 1 : ~ReplyAt(j)) => layouts[f.stream] \in {None, f.layout}
    /\ \A j \in 1 .. i - 1 : ReplyAt(j) => Recorded(toHost[j], f.stream) \in {None, f.layout}
LineInv == \A i \in 1 .. Len(toHost) : ~ReplyAt(i) => Fits(i)

\* The layout the client knows, or will know after the reply under way, is the one in the slot.
Matches(s, layout) == layout # None => slots[s] # None /\ slots[s].layout = layout
SlotInv ==
    \A s \in Streams :
        /\ (\A j \in 1 .. Len(toHost) : ~ReplyAt(j)) => Matches(s, layouts[s])
        /\ \A j \in 1 .. Len(toHost) : ReplyAt(j) => Matches(s, Recorded(toHost[j], s))

\* What has passed since a frame and what is left to the next make at least an interval.
RateInv == \A s \in Streams : slots[s] # None => elapsed[s] + slots[s].due >= slots[s].interval

IInv == TypeOK /\ OneAnswer /\ LineInv /\ SlotInv /\ DecodedAsPacked /\ RateInv

----------------------------------------------------------------------------
(* The helpers.                                                            *)

LEMMA LeastElement ==
    ASSUME NEW S \in SUBSET Nat, S # {}
    PROVE  \E x \in S : \A y \in S : x <= y
<1> DEFINE R == OpToRel(<, Nat)
<1>1. IsWellFoundedOn(R, Nat)
  BY NatLessThanWellFounded
<1>2. PICK x \in S : \A y \in S : ~(<<y, x>> \in R)
  BY <1>1, WFMin
<1>3. \A y \in S : ~(y < x)
  BY <1>2 DEF OpToRel
<1> QED
  BY <1>3

LEMMA FirstIsMember ==
    ASSUME NEW S \in SUBSET Streams, S # {}
    PROVE  First(S) \in S
<1>1. S \subseteq Nat
  BY StreamAssumption DEF Streams
<1>2. \E s \in S : \A t \in S : s <= t
  BY <1>1, LeastElement
<1> QED
  BY <1>2 DEF First

LEMMA LongestBounds ==
    /\ LongestInterval \in Nat \ {0}
    /\ \A i \in Intervals : i \in 1 .. LongestInterval
<1>1. PICK i \in Intervals : \A j \in Intervals : j <= i
  BY StreamAssumption
<1>2. LongestInterval \in Intervals /\ \A j \in Intervals : j <= LongestInterval
  BY <1>1 DEF LongestInterval
<1> QED
  BY <1>2, StreamAssumption

LEMMA InitOK == Init => IInv
<1> SUFFICES ASSUME Init PROVE IInv
  OBVIOUS
<1>1. toHost \in Seq(Message) /\ Len(toHost) = 0
  BY EmptySeq DEF Init
<1>2. TypeOK
  <2>1. 0 \in 0 .. LongestInterval /\ Len(toHost) <= MaxInFlight + 1
    BY <1>1, LongestBounds, StreamAssumption
  <2> QED
    BY <1>1, <2>1 DEF Init, TypeOK, Message
<1>3. OneAnswer /\ LineInv /\ SlotInv /\ DecodedAsPacked /\ RateInv
  BY <1>1 DEF Init, OneAnswer, LineInv, Fits, SlotInv, Matches, DecodedAsPacked, RateInv
<1> QED
  BY <1>2, <1>3 DEF IInv

----------------------------------------------------------------------------
(* What the steps do to the line.                                          *)

LEMMA Kinds ==
    /\ \A m \in Frames : m \in Message /\ m.kind = "frame" /\ m.stream \in Streams /\ m.layout \in Layouts
    /\ \A m \in Replies : m \in Message /\ m.kind = "reply"
    /\ \A m \in Message : m.kind = "frame" => m \in Frames
    /\ \A m \in Message : m.kind = "reply" => m \in Replies
    /\ \A m \in Message : m.kind \in {"frame", "reply"}
BY DEF Message, Frames, Replies

\* A reply joins a line without one: what it lets the client believe must be true of the slots.
LEMMA ReplyJoins ==
    ASSUME IInv, toDevice # None, ~Blocked, NEW r \in Replies, Reply(r), UNCHANGED client,
           \A s \in Streams : Recorded(r, s) # None =>
                                slots'[s] # None /\ slots'[s].layout = Recorded(r, s)
    PROVE  /\ toHost' \in Seq(Message) /\ Len(toHost') <= MaxInFlight + 1
           /\ OneAnswer' /\ LineInv' /\ SlotInv' /\ DecodedAsPacked'
<1>1. /\ toHost \in Seq(Message) /\ Len(toHost) \in Nat
      /\ \A i \in 1 .. Len(toHost) : ~ReplyAt(i)
      /\ waiting
  BY LenProperties DEF IInv, TypeOK, Message, OneAnswer
<1>2. r \in Message /\ r.kind = "reply"
  BY Kinds
<1>3. /\ toHost' \in Seq(Message) /\ Len(toHost') = Len(toHost) + 1
      /\ \A i \in 1 .. Len(toHost) : toHost'[i] = toHost[i]
      /\ toHost'[Len(toHost) + 1] = r
      /\ toDevice' = None
  BY <1>1, <1>2, AppendProperties DEF Reply
<1>4. Len(toHost') <= MaxInFlight + 1
  BY <1>1, <1>3, StreamAssumption DEF Blocked
<1>5. waiting' = waiting /\ layouts' = layouts /\ queue' = queue
  BY DEF client
<1>6. \A i \in 1 .. Len(toHost') : ReplyAt(i)' <=> i = Len(toHost) + 1
  BY <1>1, <1>2, <1>3 DEF ReplyAt
<1>7. OneAnswer'
  BY <1>1, <1>3, <1>5, <1>6 DEF OneAnswer
<1>8. LineInv'
  <2> SUFFICES ASSUME NEW i \in 1 .. Len(toHost'), ~ReplyAt(i)'
               PROVE  Fits(i)'
    BY DEF LineInv
  <2>1. i \in 1 .. Len(toHost) /\ toHost'[i] = toHost[i]
    BY <1>1, <1>3, <1>6
  <2>2. \A j \in 1 .. i - 1 : ~ReplyAt(j) /\ ~ReplyAt(j)'
    BY <1>1, <1>3, <1>6, <2>1
  <2>3. layouts[toHost[i].stream] \in {None, toHost[i].layout}
    BY <1>1, <2>1, <2>2 DEF IInv, LineInv, Fits
  <2> QED
    BY <1>5, <2>1, <2>2, <2>3 DEF Fits
<1>9. SlotInv'
  <2>1. \A j \in 1 .. Len(toHost') : ReplyAt(j)' => toHost'[j] = r
    BY <1>3, <1>6
  <2>2. \E j \in 1 .. Len(toHost') : ReplyAt(j)'
    BY <1>1, <1>3, <1>6
  <2> QED
    BY <1>5, <2>1, <2>2 DEF SlotInv, Matches, Recorded
<1>10. DecodedAsPacked'
  BY <1>5 DEF IInv, DecodedAsPacked
<1> QED
  BY <1>3, <1>4, <1>7, <1>8, <1>9, <1>10

\* A frame joins the line, packed with the layout in its slot.
LEMMA FrameJoins ==
    ASSUME IInv, ~Blocked, NEW s \in Streams, slots[s] # None,
           toHost' = Append(toHost, [kind |-> "frame", stream |-> s, layout |-> slots[s].layout]),
           UNCHANGED <<toDevice, client>>
    PROVE  /\ toHost' \in Seq(Message) /\ Len(toHost') <= MaxInFlight + 1
           /\ OneAnswer' /\ LineInv' /\ DecodedAsPacked'
           /\ \A i \in 1 .. Len(toHost') : ReplyAt(i)' => i \in 1 .. Len(toHost) /\ toHost'[i] = toHost[i] /\ ReplyAt(i)
           /\ \A i \in 1 .. Len(toHost) : i \in 1 .. Len(toHost') /\ (ReplyAt(i)' <=> ReplyAt(i))
<1> DEFINE f == [kind |-> "frame", stream |-> s, layout |-> slots[s].layout]
<1>1. toHost \in Seq(Message) /\ Len(toHost) \in Nat
  BY LenProperties DEF IInv, TypeOK, Message
<1>2. f \in Frames
  BY DEF IInv, TypeOK, Stream, Frames
<1>3. /\ toHost' \in Seq(Message) /\ Len(toHost') = Len(toHost) + 1
      /\ \A i \in 1 .. Len(toHost) : toHost'[i] = toHost[i]
      /\ toHost'[Len(toHost) + 1] = f
  BY <1>1, <1>2, Kinds, AppendProperties
<1>4. Len(toHost') <= MaxInFlight + 1
  BY <1>1, <1>3, StreamAssumption DEF Blocked
<1>5. toDevice' = toDevice /\ waiting' = waiting /\ layouts' = layouts /\ queue' = queue
  BY DEF client
<1>6. /\ \A i \in 1 .. Len(toHost) : i \in 1 .. Len(toHost') /\ (ReplyAt(i)' <=> ReplyAt(i))
      /\ \A i \in 1 .. Len(toHost') : i \in 1 .. Len(toHost) \/ (i = Len(toHost) + 1 /\ ~ReplyAt(i)')
  BY <1>1, <1>3 DEF ReplyAt
<1>7. OneAnswer'
  BY <1>1, <1>3, <1>5, <1>6 DEF IInv, OneAnswer
<1>8. LineInv'
  <2> SUFFICES ASSUME NEW i \in 1 .. Len(toHost'), ~ReplyAt(i)'
               PROVE  Fits(i)'
    BY DEF LineInv
  <2>1. \A j \in 1 .. i - 1 : toHost'[j] = toHost[j] /\ (ReplyAt(j)' <=> ReplyAt(j)) /\ j \in 1 .. Len(toHost)
    BY <1>1, <1>3, <1>6
  <2>2. CASE i \in 1 .. Len(toHost)
    <3>1. Fits(i) /\ toHost'[i] = toHost[i]
      BY <1>3, <1>6, <2>2 DEF IInv, LineInv
    <3> QED
      BY <1>5, <2>1, <3>1 DEF Fits, Recorded
  <2>3. CASE i = Len(toHost) + 1
    <3>1. toHost'[i].stream = s /\ toHost'[i].layout = slots[s].layout
      BY <1>3, <2>3
    <3>2. /\ (\A j \in 1 .. Len(toHost) : ~ReplyAt(j)) => layouts[s] \in {None, slots[s].layout}
          /\ \A j \in 1 .. Len(toHost) : ReplyAt(j) => Recorded(toHost[j], s) \in {None, slots[s].layout}
      BY DEF IInv, SlotInv, Matches
    <3>3. i - 1 = Len(toHost)
      BY <1>1, <2>3
    <3> QED
      BY <1>5, <2>1, <3>1, <3>2, <3>3 DEF Fits, Recorded
  <2> QED
    BY <1>6, <2>2, <2>3
<1>9. DecodedAsPacked'
  BY <1>5 DEF IInv, DecodedAsPacked
<1> QED
  BY <1>3, <1>4, <1>6, <1>7, <1>8, <1>9

\* The slots may change in anything but their layouts.
LEMMA SlotsKeepLayouts ==
    ASSUME IInv, layouts' = layouts,
           \A i \in 1 .. Len(toHost') : ReplyAt(i)' => i \in 1 .. Len(toHost) /\ toHost'[i] = toHost[i] /\ ReplyAt(i),
           \A i \in 1 .. Len(toHost) : i \in 1 .. Len(toHost') /\ (ReplyAt(i)' <=> ReplyAt(i)),
           \A s \in Streams : slots[s] # None => slots'[s] # None /\ slots'[s].layout = slots[s].layout
    PROVE  SlotInv'
<1> SUFFICES ASSUME NEW s \in Streams
             PROVE  /\ (\A j \in 1 .. Len(toHost') : ~ReplyAt(j)') => Matches(s, layouts[s])'
                    /\ \A j \in 1 .. Len(toHost') : ReplyAt(j)' => Matches(s, Recorded(toHost[j], s))'
  BY DEF SlotInv
<1>1. ASSUME \A j \in 1 .. Len(toHost') : ~ReplyAt(j)'
      PROVE  Matches(s, layouts[s])'
  <2>1. Matches(s, layouts[s])
    BY <1>1 DEF IInv, SlotInv
  <2> QED
    BY <2>1 DEF Matches
<1>2. ASSUME NEW j \in 1 .. Len(toHost'), ReplyAt(j)'
      PROVE  Matches(s, Recorded(toHost[j], s))'
  <2>1. Matches(s, Recorded(toHost[j], s)) /\ toHost'[j] = toHost[j]
    BY <1>2 DEF IInv, SlotInv
  <2> QED
    BY <2>1 DEF Matches, Recorded
<1> QED
  BY <1>1, <1>2

\* The head of the line leaves it; what the client has on record may change as a reply says.
LEMMA HeadLeaves ==
    ASSUME IInv, toHost # <<>>, toHost' = Tail(toHost)
    PROVE  /\ toHost' \in Seq(Message) /\ Len(toHost) \in Nat \ {0} /\ Len(toHost') = Len(toHost) - 1
           /\ Head(toHost) = toHost[1] /\ toHost[1] \in Message
           /\ \A i \in 1 .. Len(toHost') : \E k \in 2 .. Len(toHost) :
                k = i + 1 /\ toHost'[i] = toHost[k] /\ (ReplyAt(i)' <=> ReplyAt(k))
<1>1. toHost \in Seq(Message)
  BY DEF IInv, TypeOK, Message
<1>2. /\ toHost' \in Seq(Message) /\ Len(toHost) \in Nat \ {0} /\ Len(toHost') = Len(toHost) - 1
      /\ \A i \in 1 .. Len(toHost') : toHost'[i] = toHost[i + 1]
  BY <1>1, EmptySeq, HeadTailProperties
<1>3. Head(toHost) = toHost[1] /\ toHost[1] \in Message
  BY <1>1, <1>2, ElementOfSeq
<1>4. ASSUME NEW i \in 1 .. Len(toHost')
      PROVE  \E k \in 2 .. Len(toHost) : k = i + 1 /\ toHost'[i] = toHost[k] /\ (ReplyAt(i)' <=> ReplyAt(k))
  <2>1. i + 1 \in 2 .. Len(toHost)
    BY <1>2
  <2> WITNESS i + 1 \in 2 .. Len(toHost)
  <2> QED
    BY <1>2 DEF ReplyAt
<1> QED
  BY <1>2, <1>3, <1>4

----------------------------------------------------------------------------
(* The steps.                                                              *)

LEMMA SubscribeOK ==
    ASSUME IInv, Subscribe
    PROVE  IInv'
<1> DEFINE s == First(Streams \ Active)
           slot == [layout |-> toDevice.layout, interval |-> toDevice.interval, due |-> 0, seq |-> 0]
           busy == [kind |-> "reply", op |-> "Subscribe", code |-> "Busy"]
           ok == [kind |-> "reply", op |-> "Subscribe", code |-> "Ok", stream |-> s, layout |-> toDevice.layout]
<1>1. toDevice # None /\ ~Blocked /\ UNCHANGED <<polling, client>>
  BY DEF Subscribe, Serving
<1>2. toDevice.layout \in Layouts /\ toDevice.interval \in Intervals
  BY DEF IInv, TypeOK, Requests, Subscribe, Serving
<1>3. \A t \in Streams : Matches(t, layouts[t])
  BY <1>1 DEF IInv, OneAnswer, SlotInv
<1>4. CASE Streams \ Active = {}
  <2>1. UNCHANGED <<slots, elapsed>> /\ Reply(busy) /\ busy \in Replies
    BY <1>4 DEF Subscribe, Replies
  <2>2. \A t \in Streams : Recorded(busy, t) # None =>
                              slots'[t] # None /\ slots'[t].layout = Recorded(busy, t)
    BY <1>1, <1>3, <2>1 DEF Matches, Recorded, client
  <2>3. toHost' \in Seq(Message) /\ Len(toHost') <= MaxInFlight + 1 /\ OneAnswer' /\ LineInv' /\ SlotInv' /\ DecodedAsPacked'
    BY <1>1, <2>1, <2>2, ReplyJoins
  <2> QED
    BY <1>1, <2>1, <2>3 DEF IInv, TypeOK, RateInv, Message, Reply, client
<1>5. CASE Streams \ Active # {}
  <2>1. s \in Streams /\ slots[s] = None
    <3>1. s \in Streams \ Active
      BY <1>5, FirstIsMember
    <3> QED
      BY <3>1 DEF Active
  <2>2. /\ slots' = [slots EXCEPT ![s] = slot] /\ elapsed' = [elapsed EXCEPT ![s] = LongestInterval]
        /\ Reply(ok)
    BY <1>5 DEF Subscribe
  <2> HIDE DEF s
  <2>3. ok \in Replies
    BY <1>2, <2>1 DEF Replies
  <2>4. slot \in Stream /\ slot # None
    <3>1. 0 \in 0 .. LongestInterval /\ 0 \in 0 .. SeqMod - 1
      BY LongestBounds, StreamAssumption
    <3>2. slot \in Stream
      BY <1>2, <3>1 DEF Stream
    <3> QED
      BY <3>2, NoneAssumption
  <2>5. slots \in [Streams -> Stream \cup {None}] /\ elapsed \in [Streams -> 0 .. LongestInterval]
    BY DEF IInv, TypeOK
  <2>6. /\ slots' \in [Streams -> Stream \cup {None}] /\ slots'[s] = slot
        /\ \A t \in Streams \ {s} : slots'[t] = slots[t]
    BY <2>1, <2>2, <2>4, <2>5
  <2>7. /\ elapsed' \in [Streams -> 0 .. LongestInterval] /\ elapsed'[s] = LongestInterval
        /\ \A t \in Streams \ {s} : elapsed'[t] = elapsed[t]
    BY <2>1, <2>2, <2>5, LongestBounds
  <2>8. \A t \in Streams : Recorded(ok, t) # None =>
                              slots'[t] # None /\ slots'[t].layout = Recorded(ok, t)
    <3> SUFFICES ASSUME NEW t \in Streams
                 PROVE  Recorded(ok, t) # None => slots'[t] # None /\ slots'[t].layout = Recorded(ok, t)
      OBVIOUS
    <3>1. CASE t = s
      BY <2>4, <2>6, <3>1 DEF Matches, Recorded
    <3>2. CASE t # s
      BY <1>1, <1>3, <2>6, <3>2 DEF Matches, Recorded, client
    <3> QED
      BY <3>1, <3>2
  <2>9. toHost' \in Seq(Message) /\ Len(toHost') <= MaxInFlight + 1 /\ OneAnswer' /\ LineInv' /\ SlotInv' /\ DecodedAsPacked'
    BY <1>1, <2>2, <2>3, <2>8, ReplyJoins
  <2>10. RateInv'
    <3> SUFFICES ASSUME NEW t \in Streams, slots'[t] # None
                 PROVE  elapsed'[t] + slots'[t].due >= slots'[t].interval
      BY DEF RateInv
    <3>1. CASE t = s
      <4>1. slots'[t].due = 0 /\ slots'[t].interval \in 1 .. LongestInterval
        BY <1>2, <2>6, <3>1, LongestBounds
      <4> QED
        BY <2>7, <3>1, <4>1, LongestBounds
    <3>2. CASE t # s
      BY <2>6, <2>7, <3>2 DEF IInv, RateInv
    <3> QED
      BY <3>1, <3>2
  <2> QED
    BY <1>1, <2>2, <2>6, <2>7, <2>9, <2>10 DEF IInv, TypeOK, Message, Reply, client
<1> QED
  BY <1>4, <1>5

LEMMA UnsubscribeOK ==
    ASSUME IInv, Unsubscribe
    PROVE  IInv'
<1> DEFINE s == toDevice.stream
           r == [kind |-> "reply", op |-> "Unsubscribe", stream |-> s,
                 code |-> IF s \in Active THEN "Ok" ELSE "NotFound"]
<1>1. /\ toDevice # None /\ ~Blocked /\ UNCHANGED <<elapsed, polling, client>>
      /\ slots' = [slots EXCEPT ![s] = None] /\ Reply(r)
  BY DEF Unsubscribe, Serving
<1>2. s \in Streams
  BY DEF IInv, TypeOK, Requests, Unsubscribe, Serving
<1>3. r \in Replies
  BY <1>2 DEF Replies
<1>4. \A t \in Streams : Matches(t, layouts[t])
  BY <1>1 DEF IInv, OneAnswer, SlotInv
<1>5. /\ slots \in [Streams -> Stream \cup {None}] /\ slots' \in [Streams -> Stream \cup {None}] /\ slots'[s] = None
      /\ \A t \in Streams \ {s} : slots'[t] = slots[t]
  BY <1>1, <1>2 DEF IInv, TypeOK
<1>6. \A t \in Streams : Recorded(r, t) # None =>
                            slots'[t] # None /\ slots'[t].layout = Recorded(r, t)
  BY <1>1, <1>4, <1>5 DEF Matches, Recorded, client
<1>7. toHost' \in Seq(Message) /\ Len(toHost') <= MaxInFlight + 1 /\ OneAnswer' /\ LineInv' /\ SlotInv' /\ DecodedAsPacked'
  BY <1>1, <1>3, <1>6, ReplyJoins
<1>8. RateInv'
  BY <1>1, <1>2, <1>5 DEF IInv, RateInv
<1> QED
  BY <1>1, <1>5, <1>7, <1>8 DEF IInv, TypeOK, Message, Reply, client

\* Time passes; what is left of an interval shrinks by no more than what has passed grows.
LEMMA WakeOK ==
    ASSUME IInv, Wake
    PROVE  IInv'
<1>1. PICK d \in Delays :
        /\ elapsed' = [s \in Streams |-> Capped(elapsed[s] + d)]
        /\ slots' = [s \in Streams |-> IF s \in Active THEN [slots[s] EXCEPT !.due = NotBelow(@, d)] ELSE None]
  BY DEF Wake
<1>2. d \in Nat \ {0}
  BY StreamAssumption
<1>3. polling' = TRUE /\ UNCHANGED <<toDevice, toHost, client>>
  BY DEF Wake
<1>4. slots \in [Streams -> Stream \cup {None}] /\ elapsed \in [Streams -> 0 .. LongestInterval]
  BY DEF IInv, TypeOK
<1>5. ASSUME NEW s \in Streams
      PROVE  /\ elapsed'[s] \in 0 .. LongestInterval
             /\ elapsed'[s] = LongestInterval \/ elapsed'[s] = elapsed[s] + d
  <2>1. elapsed[s] + d \in Nat
    BY <1>2, <1>4, LongestBounds
  <2> QED
    BY <1>1, <2>1, LongestBounds DEF Capped
<1>6. ASSUME NEW s \in Streams, slots[s] # None
      PROVE  /\ slots'[s] \in Stream /\ slots'[s] # None
             /\ slots'[s].layout = slots[s].layout /\ slots'[s].interval = slots[s].interval
             /\ slots'[s].seq = slots[s].seq
             /\ slots'[s].due \in Nat /\ slots'[s].due >= slots[s].due - d
  <2> DEFINE left == NotBelow(slots[s].due, d)
  <2>1. slots[s] \in Stream
    BY <1>4, <1>6
  <2>2. slots'[s] = [slots[s] EXCEPT !.due = left]
    BY <1>1, <1>6 DEF Active
  <2>3. left \in 0 .. LongestInterval /\ left >= slots[s].due - d
    BY <1>2, <2>1, LongestBounds DEF NotBelow, Stream
  <2> HIDE DEF left
  <2>4. slots'[s] \in Stream
    BY <2>1, <2>2, <2>3 DEF Stream
  <2>5. slots'[s] # None
    BY <2>4, NoneAssumption
  <2> QED
    BY <2>1, <2>2, <2>3, <2>4, <2>5, LongestBounds DEF Stream
<1>7. ASSUME NEW s \in Streams, slots[s] = None
      PROVE  slots'[s] = None
  BY <1>1, <1>7 DEF Active
<1>8. slots' \in [Streams -> Stream \cup {None}] /\ elapsed' \in [Streams -> 0 .. LongestInterval]
  <2>1. /\ slots' = [s \in Streams |-> slots'[s]]
        /\ elapsed' = [s \in Streams |-> elapsed'[s]]
    BY <1>1
  <2> QED
    BY <1>5, <1>6, <1>7, <2>1
<1>9. RateInv'
  <2> SUFFICES ASSUME NEW s \in Streams, slots'[s] # None
               PROVE  elapsed'[s] + slots'[s].due >= slots'[s].interval
    BY DEF RateInv
  <2>1. slots[s] # None
    BY <1>7
  <2>2. slots[s] \in Stream
    BY <1>4, <2>1
  <2>3. slots[s].interval \in 1 .. LongestInterval /\ slots[s].due \in Int
    BY <2>2, LongestBounds DEF Stream
  <2>4. elapsed[s] + slots[s].due >= slots[s].interval
    BY <2>1 DEF IInv, RateInv
  <2>5. slots'[s].due \in Nat /\ slots'[s].due >= slots[s].due - d /\ slots'[s].interval = slots[s].interval
    BY <1>6, <2>1
  <2>6. elapsed[s] \in Int
    BY <1>4
  <2>7. CASE elapsed'[s] = LongestInterval
    BY <2>3, <2>5, <2>7, LongestBounds
  <2>8. CASE elapsed'[s] = elapsed[s] + d
    BY <1>2, <2>3, <2>4, <2>5, <2>6, <2>8
  <2> QED
    BY <1>5, <2>7, <2>8
<1>10. SlotInv'
  BY <1>3, <1>6, SlotsKeepLayouts DEF ReplyAt, client
<1>11. OneAnswer' /\ LineInv' /\ DecodedAsPacked'
  BY <1>3 DEF IInv, OneAnswer, LineInv, Fits, ReplyAt, Recorded, DecodedAsPacked, client
<1> QED
  BY <1>3, <1>8, <1>9, <1>10, <1>11 DEF IInv, TypeOK, client

\* A frame is sent of a stream that is due, so that its interval has passed.
LEMMA PushFrameOK ==
    ASSUME IInv, PushFrame
    PROVE  /\ IInv'
           /\ \A t \in Streams : slots[t] # None /\ slots'[t].seq # slots[t].seq => elapsed[t] >= slots[t].interval
<1> DEFINE s == First(Due)
           frame == [kind |-> "frame", stream |-> s, layout |-> slots[s].layout]
<1>1. s \in Streams /\ slots[s] # None /\ slots[s].due = 0
  <2>1. s \in Due
    BY FirstIsMember DEF PushFrame, Due, Active
  <2> QED
    BY <2>1 DEF Due, Active
<1>2. /\ slots' = [slots EXCEPT ![s] = Sent(@)] /\ elapsed' = [elapsed EXCEPT ![s] = 0]
      /\ toHost' = Append(toHost, frame)
      /\ polling' = PollsOn /\ UNCHANGED <<toDevice, client>> /\ ~Blocked
  BY DEF PushFrame
<1> HIDE DEF s
<1>3. slots \in [Streams -> Stream \cup {None}] /\ elapsed \in [Streams -> 0 .. LongestInterval]
  BY DEF IInv, TypeOK
<1>4. slots[s] \in Stream
  BY <1>1, <1>3
<1>5. /\ Sent(slots[s]) \in Stream
      /\ Sent(slots[s]).layout = slots[s].layout /\ Sent(slots[s]).interval = slots[s].interval
      /\ Sent(slots[s]).due = slots[s].interval
  <2> DEFINE next == NextSeq(slots[s].seq)
  <2>1. next \in 0 .. SeqMod - 1
    BY <1>4, StreamAssumption DEF Stream, NextSeq
  <2>2. slots[s].interval \in 0 .. LongestInterval
    BY <1>4, LongestBounds DEF Stream
  <2>3. Sent(slots[s]) = [slots[s] EXCEPT !.due = slots[s].interval, !.seq = next]
    BY DEF Sent
  <2> HIDE DEF next
  <2> QED
    BY <1>4, <2>1, <2>2, <2>3 DEF Stream
<1>6. /\ slots' \in [Streams -> Stream \cup {None}] /\ slots'[s] = Sent(slots[s])
      /\ \A t \in Streams \ {s} : slots'[t] = slots[t]
  BY <1>1, <1>2, <1>3, <1>5
<1>7. /\ elapsed' \in [Streams -> 0 .. LongestInterval] /\ elapsed'[s] = 0
      /\ \A t \in Streams \ {s} : elapsed'[t] = elapsed[t]
  BY <1>1, <1>2, <1>3, LongestBounds
<1>8. /\ toHost' \in Seq(Message) /\ Len(toHost') <= MaxInFlight + 1
      /\ OneAnswer' /\ LineInv' /\ DecodedAsPacked'
      /\ \A i \in 1 .. Len(toHost') : ReplyAt(i)' => i \in 1 .. Len(toHost) /\ toHost'[i] = toHost[i] /\ ReplyAt(i)
      /\ \A i \in 1 .. Len(toHost) : i \in 1 .. Len(toHost') /\ (ReplyAt(i)' <=> ReplyAt(i))
  BY <1>1, <1>2, FrameJoins
<1>9. SlotInv'
  <2>1. \A t \in Streams : slots[t] # None => slots'[t] # None /\ slots'[t].layout = slots[t].layout
    BY <1>5, <1>6, NoneAssumption
  <2> QED
    BY <1>2, <1>8, <2>1, SlotsKeepLayouts DEF client
<1>10. RateInv'
  <2> SUFFICES ASSUME NEW t \in Streams, slots'[t] # None
               PROVE  elapsed'[t] + slots'[t].due >= slots'[t].interval
    BY DEF RateInv
  <2>1. CASE t = s
    <3>1. slots[s].interval \in Nat
      BY <1>4, LongestBounds DEF Stream
    <3> QED
      BY <1>5, <1>6, <1>7, <2>1, <3>1
  <2>2. CASE t # s
    BY <1>6, <1>7, <2>2 DEF IInv, RateInv
  <2> QED
    BY <2>1, <2>2
<1>11. PollsOn \in BOOLEAN
  BY StreamAssumption DEF PollsOn
<1>12. IInv'
  BY <1>2, <1>6, <1>7, <1>8, <1>9, <1>10, <1>11 DEF IInv, TypeOK, Message, client
<1>13. ASSUME NEW t \in Streams, slots[t] # None, slots'[t].seq # slots[t].seq
       PROVE  elapsed[t] >= slots[t].interval
  <2>1. t = s
    BY <1>6, <1>13
  <2>2. elapsed[s] + slots[s].due >= slots[s].interval
    BY <1>1 DEF IInv, RateInv
  <2> QED
    BY <1>1, <1>3, <2>1, <2>2
<1> QED
  BY <1>12, <1>13

\* A frame at the head of the line is decoded with what is on record now.
LEMMA ReadFrameOK ==
    ASSUME IInv, ReadFrame
    PROVE  IInv'
<1> DEFINE f == Head(toHost)
<1>1. /\ toHost # <<>> /\ f.kind = "frame" /\ toHost' = Tail(toHost)
      /\ UNCHANGED <<device, toDevice, waiting, layouts>>
      /\ queue' = IF layouts[f.stream] = None THEN queue
                  ELSE queue \cup {[stream |-> f.stream, packed |-> f.layout, read |-> layouts[f.stream]]}
  BY DEF ReadFrame, Reads
<1>2. /\ toHost' \in Seq(Message) /\ Len(toHost) \in Nat \ {0} /\ Len(toHost') = Len(toHost) - 1
      /\ f = toHost[1] /\ toHost[1] \in Message
      /\ \A i \in 1 .. Len(toHost') : \E k \in 2 .. Len(toHost) :
            k = i + 1 /\ toHost'[i] = toHost[k] /\ (ReplyAt(i)' <=> ReplyAt(k))
  BY <1>1, HeadLeaves
<1>3. ~ReplyAt(1) /\ f \in Frames
  BY <1>1, <1>2, Kinds DEF ReplyAt
<1>4. layouts \in [Streams -> Layouts \cup {None}] /\ f.stream \in Streams /\ f.layout \in Layouts
  BY <1>3, Kinds DEF IInv, TypeOK
<1>5. layouts[f.stream] \in {None, f.layout}
  <2>1. Fits(1)
    BY <1>2, <1>3 DEF IInv, LineInv
  <2> QED
    BY <1>2, <2>1 DEF Fits
<1>6. queue' \subseteq Decoded /\ DecodedAsPacked'
  BY <1>1, <1>4, <1>5 DEF IInv, TypeOK, Decoded, DecodedAsPacked
<1>7. \A j \in 1 .. Len(toHost) : ReplyAt(j) => j - 1 \in 1 .. Len(toHost') /\ toHost'[j - 1] = toHost[j]
  BY <1>2, <1>3
<1>8. OneAnswer'
  BY <1>1, <1>2 DEF IInv, OneAnswer
<1>9. LineInv'
  <2> SUFFICES ASSUME NEW i \in 1 .. Len(toHost'), ~ReplyAt(i)'
               PROVE  Fits(i)'
    BY DEF LineInv
  <2>1. PICK k \in 2 .. Len(toHost) : k = i + 1 /\ toHost'[i] = toHost[k] /\ ~ReplyAt(k)
    BY <1>2
  <2>2. Fits(k)
    BY <2>1 DEF IInv, LineInv
  <2>3. \A j \in 1 .. i - 1 : \E m \in 1 .. k - 1 : toHost'[j] = toHost[m] /\ (ReplyAt(j)' <=> ReplyAt(m))
    BY <1>2, <2>1
  <2>4. (\A j \in 1 .. i - 1 : ~ReplyAt(j)') => \A j \in 1 .. k - 1 : ~ReplyAt(j)
    <3> SUFFICES ASSUME \A j \in 1 .. i - 1 : ~ReplyAt(j)', NEW j \in 1 .. k - 1
                 PROVE  ~ReplyAt(j)
      OBVIOUS
    <3>1. CASE j = 1
      BY <1>3, <3>1
    <3>2. CASE j # 1
      <4> DEFINE m == j - 1
      <4>1. m \in 1 .. i - 1 /\ m \in 1 .. Len(toHost') /\ m + 1 = j
        BY <1>2, <2>1, <3>2
      <4> HIDE DEF m
      <4> QED
        BY <1>2, <4>1
    <3> QED
      BY <3>1, <3>2
  <2> QED
    <3>1. (\A j \in 1 .. i - 1 : ~ReplyAt(j)') => layouts[toHost[k].stream] \in {None, toHost[k].layout}
      BY <2>2, <2>4 DEF Fits
    <3>2. \A m \in 1 .. k - 1 : ReplyAt(m) => Recorded(toHost[m], toHost[k].stream) \in {None, toHost[k].layout}
      BY <2>2 DEF Fits
    <3>3. \A j \in 1 .. i - 1 : ReplyAt(j)' => Recorded(toHost'[j], toHost[k].stream) \in {None, toHost[k].layout}
      BY <2>3, <3>2
    <3> QED
      BY <1>1, <2>1, <3>1, <3>3 DEF Fits, Recorded
<1>10. SlotInv'
  <2> SUFFICES ASSUME NEW s \in Streams
               PROVE  /\ (\A j \in 1 .. Len(toHost') : ~ReplyAt(j)') => Matches(s, layouts[s])'
                      /\ \A j \in 1 .. Len(toHost') : ReplyAt(j)' => Matches(s, Recorded(toHost[j], s))'
    BY DEF SlotInv
  <2>1. (\A j \in 1 .. Len(toHost') : ~ReplyAt(j)') => \A j \in 1 .. Len(toHost) : ~ReplyAt(j)
    BY <1>2, <1>7
  <2> QED
    BY <1>1, <1>2, <2>1 DEF IInv, SlotInv, Matches, Recorded, device
<1>11. RateInv'
  BY <1>1 DEF IInv, RateInv, device
<1>12. TypeOK'
  <2>1. Len(toHost') <= MaxInFlight + 1
    BY <1>2, StreamAssumption DEF IInv, TypeOK
  <2> QED
    BY <1>1, <1>2, <1>6, <2>1 DEF IInv, TypeOK, Message, device
<1> QED
  BY <1>6, <1>8, <1>9, <1>10, <1>11, <1>12 DEF IInv

\* After its reply the client has on record what the frames behind it were packed with.
LEMMA ReadReplyOK ==
    ASSUME IInv, ReadReply
    PROVE  IInv'
<1> DEFINE r == Head(toHost)
<1>1. /\ toHost # <<>> /\ r.kind = "reply" /\ toHost' = Tail(toHost)
      /\ UNCHANGED <<device, toDevice, queue>> /\ waiting' = FALSE
      /\ layouts' = IF r.op = "Unsubscribe" THEN [layouts EXCEPT ![r.stream] = None]
                    ELSE IF r.code = "Ok" THEN [layouts EXCEPT ![r.stream] = r.layout] ELSE layouts
  BY DEF ReadReply, Reads
<1>2. /\ toHost' \in Seq(Message) /\ Len(toHost) \in Nat \ {0} /\ Len(toHost') = Len(toHost) - 1
      /\ r = toHost[1] /\ toHost[1] \in Message
      /\ \A i \in 1 .. Len(toHost') : \E k \in 2 .. Len(toHost) :
            k = i + 1 /\ toHost'[i] = toHost[k] /\ (ReplyAt(i)' <=> ReplyAt(k))
  BY <1>1, HeadLeaves
<1>3. ReplyAt(1) /\ r \in Replies
  BY <1>1, <1>2, Kinds DEF ReplyAt
<1>4. /\ layouts \in [Streams -> Layouts \cup {None}]
      /\ r.op = "Unsubscribe" => r.stream \in Streams
      /\ r.op # "Unsubscribe" /\ r.code = "Ok" => r.stream \in Streams /\ r.layout \in Layouts
  BY <1>3 DEF IInv, TypeOK, Replies
<1>5. layouts' \in [Streams -> Layouts \cup {None}] /\ \A s \in Streams : layouts'[s] = Recorded(r, s)
  BY <1>1, <1>4 DEF Recorded
<1>6. \A i \in 1 .. Len(toHost') : ~ReplyAt(i)'
  BY <1>2, <1>3 DEF IInv, OneAnswer
<1>7. OneAnswer'
  BY <1>1, <1>2, <1>3, <1>6 DEF IInv, OneAnswer
<1>8. LineInv'
  <2> SUFFICES ASSUME NEW i \in 1 .. Len(toHost')
               PROVE  Fits(i)'
    BY DEF LineInv
  <2>1. PICK k \in 2 .. Len(toHost) : k = i + 1 /\ toHost'[i] = toHost[k] /\ ~ReplyAt(k)
    BY <1>2, <1>6
  <2>2. Recorded(r, toHost[k].stream) \in {None, toHost[k].layout}
    <3>1. Fits(k)
      BY <2>1 DEF IInv, LineInv
    <3>2. 1 \in 1 .. k - 1
      BY <2>1
    <3> QED
      BY <1>2, <1>3, <3>1, <3>2 DEF Fits
  <2>3. toHost[k].stream \in Streams
    <3>1. toHost[k] \in Message
      BY <2>1, ElementOfSeq DEF IInv, TypeOK, Message
    <3>2. toHost[k] \in Frames
      BY <2>1, <3>1, Kinds DEF ReplyAt
    <3> QED
      BY <3>2, Kinds
  <2>4. \A j \in 1 .. i - 1 : ~ReplyAt(j)'
    BY <1>2, <1>6
  <2> QED
    BY <1>5, <2>1, <2>2, <2>3, <2>4 DEF Fits
<1>9. SlotInv'
  <2>1. \A s \in Streams : Matches(s, Recorded(r, s))
    BY <1>2, <1>3 DEF IInv, SlotInv
  <2> QED
    BY <1>1, <1>5, <1>6, <2>1 DEF SlotInv, Matches, device
<1>10. RateInv' /\ DecodedAsPacked'
  BY <1>1 DEF IInv, RateInv, DecodedAsPacked, device
<1>11. TypeOK'
  <2>1. Len(toHost') <= MaxInFlight + 1
    BY <1>2, StreamAssumption DEF IInv, TypeOK
  <2> QED
    BY <1>1, <1>2, <1>5, <2>1 DEF IInv, TypeOK, Message, device
<1> QED
  BY <1>7, <1>8, <1>9, <1>10, <1>11 DEF IInv

\* The remaining steps leave the line alone, or empty it.
LEMMA OthersOK ==
    ASSUME IInv, PushEnd \/ Request \/ TakeFrame \/ HostRestart \/ UNCHANGED vars
    PROVE  IInv'
<1>1. CASE PushEnd \/ UNCHANGED vars
  <2>1. UNCHANGED <<slots, elapsed, toDevice, toHost, client>> /\ polling' \in BOOLEAN
    BY <1>1 DEF PushEnd, vars, device, IInv, TypeOK
  <2>2. TypeOK' /\ DecodedAsPacked' /\ RateInv'
    BY <2>1 DEF IInv, TypeOK, DecodedAsPacked, RateInv, client
  <2>3. OneAnswer' /\ LineInv' /\ SlotInv'
    BY <2>1 DEF IInv, OneAnswer, LineInv, Fits, SlotInv, Matches, Recorded, ReplyAt, client
  <2> QED
    BY <2>2, <2>3 DEF IInv
<1>2. CASE Request
  <2>1. /\ ~waiting /\ toDevice' \in Requests /\ waiting' = TRUE
        /\ UNCHANGED <<device, toHost, layouts, queue>>
    BY <1>2 DEF Request
  <2>2. OneAnswer'
    BY <2>1 DEF IInv, OneAnswer, ReplyAt
  <2>3. LineInv' /\ SlotInv' /\ DecodedAsPacked' /\ RateInv'
    BY <2>1 DEF IInv, LineInv, Fits, SlotInv, Matches, Recorded, ReplyAt, DecodedAsPacked, RateInv, device
  <2> QED
    BY <2>1, <2>2, <2>3 DEF IInv, TypeOK, device
<1>3. CASE TakeFrame
  <2>1. queue' \subseteq queue /\ UNCHANGED <<device, toDevice, toHost, waiting, layouts>>
    BY <1>3 DEF TakeFrame
  <2>2. OneAnswer' /\ LineInv' /\ SlotInv' /\ RateInv'
    BY <2>1 DEF IInv, OneAnswer, LineInv, Fits, SlotInv, Matches, Recorded, ReplyAt, RateInv, device
  <2> QED
    BY <2>1, <2>2 DEF IInv, TypeOK, DecodedAsPacked, device
<1>4. CASE HostRestart
  <2>1. /\ slots' \in [Streams -> Stream \cup {None}] /\ polling' \in BOOLEAN /\ elapsed' = elapsed
        /\ \A s \in Streams : slots'[s] # None => slots'[s] = slots[s]
        /\ toDevice' = None /\ toHost' = <<>> /\ waiting' = FALSE
        /\ layouts' = [s \in Streams |-> None] /\ queue' = {}
    BY <1>4 DEF HostRestart, IInv, TypeOK
  <2>2. toHost' \in Seq(Message) /\ Len(toHost') = 0
    BY <2>1, EmptySeq
  <2>3. OneAnswer' /\ LineInv' /\ SlotInv' /\ DecodedAsPacked' /\ RateInv'
    BY <2>1, <2>2 DEF IInv, OneAnswer, LineInv, SlotInv, Matches, DecodedAsPacked, RateInv
  <2>4. TypeOK'
    <3>1. Len(toHost') <= MaxInFlight + 1
      BY <2>2, StreamAssumption
    <3> QED
      BY <2>1, <2>2, <3>1 DEF IInv, TypeOK, Message
  <2> QED
    BY <2>3, <2>4 DEF IInv
<1> QED
  BY <1>1, <1>2, <1>3, <1>4

LEMMA StepOK == IInv /\ [Next]_vars => IInv'
BY SubscribeOK, UnsubscribeOK, WakeOK, PushFrameOK, ReadFrameOK, ReadReplyOK, OthersOK DEF Next

----------------------------------------------------------------------------
(* The theorems.                                                           *)

LEMMA Invariance == Spec => []IInv
BY InitOK, StepOK, PTL DEF Spec

\* The stream table, the line and the client's records stay what they are declared to be, and
\* the line holds at most one message more than the transport takes.
THEOREM TypeCorrect == Spec => []TypeOK
<1>1. IInv => TypeOK
  BY DEF IInv
<1> QED
  BY <1>1, Invariance, PTL

\* RdpClient decodes every frame with the layout TelemetryStreams packed it for, although stream
\* ids are used again while frames of the earlier stream are under way.
THEOREM FramesAreDecodedAsPacked == Spec => []DecodedAsPacked
<1>1. IInv => DecodedAsPacked
  BY DEF IInv
<1> QED
  BY <1>1, Invariance, PTL

\* A client that is out of round_trip knows only streams that the device serves, with their layouts.
THEOREM ClientKnowsActiveStreams == Spec => []KnownStreamsAreActive
<1>1. IInv => KnownStreamsAreActive
  BY DEF IInv, OneAnswer, SlotInv, Matches, KnownStreamsAreActive
<1> QED
  BY <1>1, Invariance, PTL

\* Between two frames of a stream at least its interval passes (poll_telemetry).
THEOREM RateIsRespected == Spec => RateRespected
<1> DEFINE Step == \A s \in Streams : slots[s] # None /\ slots'[s] # None /\ slots'[s].seq # slots[s].seq
                        => elapsed[s] >= slots[s].interval
<1>1. ASSUME IInv, [Next]_vars
      PROVE  [Step]_vars
  <2>1. CASE PushFrame
    BY <1>1, <2>1, PushFrameOK
  <2>2. CASE Subscribe
    <3>1. \A s \in Streams : slots[s] # None => slots'[s] = slots[s]
      <4> DEFINE t == First(Streams \ Active)
      <4>1. CASE Streams \ Active = {}
        BY <2>2, <4>1 DEF Subscribe
      <4>2. CASE Streams \ Active # {}
        <5>1. t \in Streams \ Active
          BY <4>2, FirstIsMember
        <5>2. \E slot : slots' = [slots EXCEPT ![t] = slot]
          BY <2>2, <4>2 DEF Subscribe
        <5> QED
          BY <1>1, <5>1, <5>2 DEF Active, IInv, TypeOK
      <4> QED
        BY <4>1, <4>2
    <3> QED
      BY <3>1
  <2>3. CASE Wake
    <3>1. \A s \in Streams : slots[s] # None => slots'[s].seq = slots[s].seq
      <4>1. PICK d \in Delays :
              slots' = [s \in Streams |-> IF s \in Active THEN [slots[s] EXCEPT !.due = NotBelow(@, d)] ELSE None]
        BY <2>3 DEF Wake
      <4>2. slots \in [Streams -> Stream \cup {None}]
        BY <1>1 DEF IInv, TypeOK
      <4> QED
        BY <4>1, <4>2 DEF Active, Stream
    <3> QED
      BY <3>1
  <2>4. CASE Unsubscribe
    BY <1>1, <2>4 DEF Unsubscribe, IInv, TypeOK
  <2>5. CASE HostRestart
    BY <2>5 DEF HostRestart
  <2>6. CASE PushEnd \/ Request \/ ReadFrame \/ ReadReply \/ TakeFrame \/ UNCHANGED vars
    BY <2>6 DEF PushEnd, Request, ReadFrame, ReadReply, Reads, TakeFrame, vars, device, client
  <2> QED
    BY <1>1, <2>1, <2>2, <2>3, <2>4, <2>5, <2>6 DEF Next
<1>2. IInv /\ [Next]_vars => [Step]_vars
  BY <1>1
<1> QED
  BY <1>2, Invariance, PTL DEF Spec, RateRespected
=============================================================================
