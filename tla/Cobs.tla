-------------------------------- MODULE Cobs --------------------------------
(***************************************************************************)
(* Consistent overhead byte stuffing (device-api/src/cobs.rs): the encoder *)
(* byte by byte, as its loop runs, and the decoder as a run over what the  *)
(* encoder wrote.  MaxCode stands for 0xFF, the code of a block without an *)
(* elided zero, so that blocks of full length are met early.               *)
(***************************************************************************)
EXTENDS Naturals, Sequences

CONSTANTS
    MaxCode,    \* 0xFF
    MaxInput    \* bound: bytes in a frame

Parameters == MaxCode \in Nat \ {0, 1} /\ MaxInput \in Nat

Bytes == 0 .. MaxCode

VARIABLES
    input,      \* the bytes taken so far
    output,     \* what is written, with a gap at codeIndex
    codeIndex,  \* where the code of the open block goes
    code        \* that code, so far

vars == <<input, output, codeIndex, code>>

Init == input = <<>> /\ output = <<0>> /\ codeIndex = 1 /\ code = 1

\* The open block ends and the next one begins.
Close(out) ==
    /\ output' = Append([out EXCEPT ![codeIndex] = IF Len(out) = Len(output) THEN code ELSE code + 1], 0)
    /\ codeIndex' = Len(out) + 1
    /\ code' = 1

\* mutant: a block may be one byte longer than its code can say
Put_Late(b) ==
    /\ Len(input) < MaxInput /\ input' = Append(input, b)
    /\ IF b = 0 \/ code = MaxCode THEN Close(output)
       ELSE output' = Append(output, b) /\ code' = code + 1 /\ UNCHANGED codeIndex
\* One round of the loop in encode.
Put(b) ==
    /\ Len(input) < MaxInput /\ input' = Append(input, b)
    /\ IF b = 0 THEN Close(output)
       ELSE IF code + 1 = MaxCode THEN Close(Append(output, b))
       ELSE output' = Append(output, b) /\ code' = code + 1 /\ UNCHANGED codeIndex

Next == \E b \in Bytes : Put(b)

Spec == Init /\ [][Next]_vars

\* The frame if the input ends here.
Encoded == [output EXCEPT ![codeIndex] = code]

\* decode, one byte at a time: a block's code, then its bytes; between two blocks a zero, unless
\* the first was of full length.
Decoder == [out |-> <<>>, left |-> 0, elided |-> FALSE, valid |-> TRUE]
Feed(d, b) ==
    IF b = 0 THEN [d EXCEPT !.valid = FALSE]
    ELSE IF d.left > 0 THEN [d EXCEPT !.out = Append(d.out, b), !.left = d.left - 1]
    ELSE [d EXCEPT !.out = IF d.elided THEN Append(d.out, 0) ELSE d.out, !.left = b - 1, !.elided = b # MaxCode]
Decode(s) ==
    LET after[n \in 0 .. Len(s)] == IF n = 0 THEN Decoder ELSE Feed(after[n - 1], s[n])
    IN  after[Len(s)]

\* max_encoded_len
MaxEncoded(n) == n + n \div (MaxCode - 1) + 1

----------------------------------------------------------------------------

\* Whatever a frame holds, and wherever its blocks end, the decoder gives it back; its encoding
\* holds no zero and fits the buffer that encode asks for.
RoundTrip ==
    LET d == Decode(Encoded) IN
    /\ d.valid /\ d.left = 0 /\ d.out = input
    /\ \A i \in DOMAIN Encoded : Encoded[i] # 0
    /\ Len(Encoded) <= MaxEncoded(Len(input))
=============================================================================
