------------------------------ MODULE TunePage ------------------------------
(***************************************************************************)
(* The older protocol, of TunerStudio: a client that reads and writes a    *)
(* page of bytes in chunks (client/src/client.rs, image.rs,                *)
(* protocol/src/opcode.rs, packet.rs, io.rs) and the firmware that answers *)
(* (engine-core/src/comms/mod.rs, stm32/src/main.rs).  The line loses      *)
(* nothing here, but the firmware tells the two protocols apart by a zero  *)
(* first byte, the high byte of a length: a longer command is taken for a  *)
(* frame of the other protocol, and the client waits for ever.             *)
(***************************************************************************)
EXTENDS Naturals, Sequences, FiniteSetsExt

CONSTANTS
    PageSize,   \* CONFIG_PAGE_LEN
    FirstRdp,   \* 256: the least payload whose length begins with a byte other than zero
    Factors,    \* bound: values of blocking_factor
    Offsets,    \* bound: offsets of writes
    Sizes,      \* bound: sizes of reads and writes
    None

VARIABLES
    page,       \* config_page
    factor,     \* EcuClient.blocking_factor
    call,       \* the operation under way: [op, offset, data, size, pos], or None
    request,    \* the command on its way: [op, offset, length, data], or None
    response,   \* [code, data], or None
    image,      \* what the call has read so far
    outcome,    \* of the last call: "ok", an error, or None
    \* history
    before,     \* the page when the call began
    last        \* the call that ended last, or None

vars == <<page, factor, call, request, response, image, outcome, before, last>>

Byte == {0, 1}
Ok == 0
Rejected == 1
Reading == {"read_image", "crc_check"}

Call == [op : Reading \cup {"write_chunk"}, offset : Nat, size : Nat, data : Seq(Byte), pos : Nat]
Command == [op : Reading \cup {"write_chunk"}, offset : Nat, length : Nat, data : Seq(Byte)]
Response == [code : {Ok, Rejected}, data : Seq(Byte)]

\* What the proofs ask of the constants: whole numbers, chunks that hold something, and a None that
\* is none of what it stands in for.
Parameters ==
    /\ PageSize \in Nat /\ Factors \subseteq Nat \ {0} /\ Offsets \subseteq Nat /\ Sizes \subseteq Nat
    /\ None \notin Call \cup Command \cup Response \cup (Nat \X Nat) \cup {"ok", "EcuError"}

Init ==
    /\ page = [i \in 1 .. PageSize |-> 0] /\ factor \in Factors
    /\ call = None /\ request = None /\ response = None
    /\ image = <<>> /\ outcome = None /\ before = page /\ last = None

Start(op, offset, size, data) ==
    /\ call = None
    /\ call' = [op |-> op, offset |-> offset, size |-> size, data |-> data, pos |-> 0]
    /\ image' = <<>> /\ outcome' = None /\ before' = page
    /\ UNCHANGED <<page, factor, request, response, last>>

ReadImage(size) == Start("read_image", 0, size, <<>>)
WriteChunk(offset, data) == Start("write_chunk", offset, Len(data), data)
CrcCheck(offset, size) == Start("crc_check", offset, size, <<>>)

Place(c) == c.offset + c.pos
Chunk(c) == IF c.op = "crc_check" THEN c.size ELSE Min({factor, c.size - c.pos})
\* The next command of the call: a chunk, or all of a CRC check.
Send ==
    /\ call # None /\ request = None /\ response = None
    /\ request' = [op |-> call.op, offset |-> Place(call), length |-> Chunk(call),
                   data |-> IF call.op = "write_chunk" THEN SubSeq(call.data, call.pos + 1, call.pos + Chunk(call))
                            ELSE <<>>]
    /\ UNCHANGED <<page, factor, call, response, image, outcome, before, last>>

\* Command::to_payload
PayloadSize(r) == IF r.op = "write_chunk" THEN 5 + r.length ELSE 7

InPage(r) == r.offset + r.length <= PageSize

\* comms_task and handle_request; a CRC is known by the bytes it is the CRC of
Handle ==
    /\ request # None /\ response = None
    /\ PayloadSize(request) < FirstRdp
    /\ request' = None
    /\ IF ~InPage(request) THEN response' = [code |-> Rejected, data |-> <<>>] /\ UNCHANGED page
       ELSE IF request.op \in Reading
       THEN /\ response' = [code |-> Ok, data |-> SubSeq(page, request.offset + 1, request.offset + request.length)]
            /\ UNCHANGED page
       ELSE /\ response' = [code |-> Ok, data |-> <<>>]
            /\ page' = [i \in DOMAIN page |->
                           IF i - 1 \in request.offset .. request.offset + request.length - 1
                           THEN request.data[i - request.offset] ELSE page[i]]
    /\ UNCHANGED <<factor, call, image, outcome, before, last>>

End(result) == call' = None /\ last' = call /\ outcome' = result
\* execute_ok and what follows it
Receive ==
    /\ response # None /\ response' = None
    /\ IF response.code # Ok THEN End("EcuError") /\ UNCHANGED image
       ELSE /\ image' = image \o response.data
            /\ IF call.pos + Chunk(call) = call.size THEN End("ok")
               ELSE call' = [call EXCEPT !.pos = @ + Chunk(call)] /\ UNCHANGED <<outcome, last>>
    /\ UNCHANGED <<page, factor, request, before>>

Next ==
    \/ \E size \in Sizes : ReadImage(size)
    \/ \E offset \in Offsets, size \in Sizes :
          CrcCheck(offset, size) \/ \E data \in [1 .. size -> Byte] : WriteChunk(offset, data)
    \/ Send \/ Handle \/ Receive

Spec == Init /\ [][Next]_vars

----------------------------------------------------------------------------
(* ConfigImage::first_diff_range, as <<start, end>>, or None.              *)

FirstDiffRange(a, b) ==
    LET differ == {i \in 1 .. Min({Len(a), Len(b)}) : a[i] # b[i]}
    IN  IF differ = {} THEN None ELSE <<Min(differ) - 1, Max(differ)>>

----------------------------------------------------------------------------
(* Properties.                                                             *)

\* A reading call that ends well, in however many chunks, has what the page holds.
ReadIsPage ==
    call = None /\ outcome = "ok" /\ last.op \in Reading =>
        image = SubSeq(page, last.offset + 1, last.offset + last.size)

\* A write that ends well has put its data in their place and nothing else, and one that the
\* firmware refuses half-way has put the chunks before that one.
WriteIsPrefix ==
    call = None /\ last # None /\ last.op = "write_chunk" =>
        LET done == IF outcome = "ok" THEN last.size ELSE last.pos IN
        page = [i \in DOMAIN page |->
                   IF i - 1 \in last.offset .. last.offset + done - 1 THEN last.data[i - last.offset] ELSE before[i]]

\* What differs between two images is what has to be written to make one the other.
DifferenceIsAll ==
    call = None =>
        LET d == FirstDiffRange(page, before) IN
        before = [i \in DOMAIN page |-> IF d # None /\ i - 1 \in d[1] .. d[2] - 1 THEN before[i] ELSE page[i]]

PageIsAsWritten == ReadIsPage /\ (outcome # None => WriteIsPrefix) /\ DifferenceIsAll
=============================================================================
