------------------------------ MODULE Messages ------------------------------
(***************************************************************************)
(* Calls of the RDP client and the bodies of their messages: the message   *)
(* types (device-api/src/cbor.rs, message.rs), what the server answers     *)
(* (engine-core/src/comms/rdp.rs) in which buffers, and how the client     *)
(* tells an answer from a refusal and pages through catalogs               *)
(* (client/src/rdp.rs).  The line is that of module Link without damage.   *)
(*                                                                         *)
(* A body is a CBOR array, one item per field.  minicbor, which is not     *)
(* part of the repository, reads a structure from an array that is long    *)
(* enough, skips what it does not know, and reads an unsigned number from  *)
(* any encoding of one that fits.  Of an item its kind and its number (or  *)
(* length) is kept, of a structure inside another one nothing.             *)
(***************************************************************************)
EXTENDS Naturals, Sequences, FiniteSetsExt

CONSTANTS
    Out,            \* bytes for an answer (resp)
    FrameOut,       \* bytes for its frames (frame_out)
    Reassembly,     \* MAX_MESSAGE_LEN, the client's Defragmenter
    RequestRoom,    \* the device's Defragmenter
    KeyLength, LabelLength, UnitLength,     \* the longest strings of the catalogs
    Counts,         \* bound: entries of a catalog
    None

----------------------------------------------------------------------------
(* Fields and their largest encodings.                                     *)

Scalar(k) == [kind |-> k, max |-> 0, of |-> <<>>]
U8 == Scalar("u8")    U16 == Scalar("u16")    U32 == Scalar("u32")    I32 == Scalar("i32")
F32 == Scalar("f32")    Bool == Scalar("bool")
ErrorCode == Scalar("code")    ValueType == Scalar("vtype")
Text(n) == [kind |-> "text", max |-> n, of |-> <<>>]
Bytes(n) == [kind |-> "bytes", max |-> n, of |-> <<>>]
\* heapless::Vec<T, n> with the helper heapless_vec
List(n, fields) == [kind |-> "list", max |-> n, of |-> fields]

ScalarSize == [u8 |-> 2, u16 |-> 3, u32 |-> 5, i32 |-> 5, f32 |-> 5, bool |-> 1, code |-> 1, vtype |-> 1]
HeadSize(n) == IF n < 24 THEN 1 ELSE IF n < 256 THEN 2 ELSE 3

PlainSize(f) == IF f.kind \in DOMAIN ScalarSize THEN ScalarSize[f.kind] ELSE HeadSize(f.max) + f.max
Plain(s) == MapThenSumSet(LAMBDA i : PlainSize(s[i]), DOMAIN s)
\* The most bytes that a field takes; a list of structures has a head for each of them.
Size(f) ==
    IF f.kind # "list" THEN PlainSize(f)
    ELSE HeadSize(f.max) + f.max * (Plain(f.of) + IF Len(f.of) = 1 THEN 0 ELSE HeadSize(Len(f.of)))
BodySize(s) == HeadSize(Len(s)) + MapThenSumSet(LAMBDA i : Size(s[i]), DOMAIN s)

----------------------------------------------------------------------------
(* The message types.                                                      *)

Key == Text(KeyLength)    Label == Text(LabelLength)    Unit == Text(UnitLength)

ErrorResponseBody == <<ErrorCode, U16>>     \* the server sends no message
HelloInfo == <<U8, U8, Text(18), U8, Text(16), U8, U32, U32, U16, Bytes(12)>>
PingRequest == <<U32>>
PingResponse == <<U32, U32>>
CategoryDesc == <<U8, Label>>
GetSchemaInfoResponse == <<U32, U16, U16, List(16, CategoryDesc)>>
GetCatalogRequest == <<U16>>
ParamDesc == <<U16, Key, Label, U8, ValueType, Unit, F32, F32, F32, F32, F32, U8, U8>>
TableDesc == <<U16, Key, Label, U8, U8, U16, U16, Key, Key, Unit, Unit, Unit, F32, F32, U8>>
ChannelDesc == <<U16, Key, Label, U8, ValueType, Unit, F32, F32, U8>>
\* n entries on the page
CatalogResponse(n, desc) == <<U16, U16, List(n, desc)>>
ParamGetRequest == <<List(32, <<U16>>)>>
ParamValue == <<ValueType, Bytes(4)>>
ParamGetResponse == <<List(32, ParamValue)>>
ParamSetEntry == <<U16>> \o <<U8>> \o ParamValue    \* the value is a structure of its own
ParamSetRequest == <<List(32, ParamSetEntry)>>
ParamSetResponse == <<List(32, <<U16, ErrorCode>>)>>
TableGetRequest == <<U16>>
TableGetResponse == <<List(16, <<F32>>), List(16, <<F32>>), List(256, <<F32>>)>>
TableSetCellRequest == <<U16, U16, U16, F32>>
TableSetAxisRequest == <<U16, U8, List(16, <<F32>>)>>
ConfigSaveResponse == <<U32, U32>>
ConfigResetDefaultsRequest == <<U32>>
ConfigStatusResponse == <<Bool, U32, U32>>
SubscribeRequest == <<List(32, <<U16>>), U16>>
SubscribeResponse == <<U8, List(32, <<U16>>), U16>>
UnsubscribeRequest == <<U8>>
ReadOnceRequest == <<List(32, <<U16>>)>>
ReadOnceResponse == <<List(32, <<F32>>)>>
BenchTestRequest == <<U8, U8, U16, U16, U16>>
SetOverrideRequest == <<U8, F32, U16>>
ClearOverrideRequest == <<U8>>
CalibrateRequest == <<U8, List(8, <<F32>>)>>
CalibrateResponse == <<List(8, <<F32>>)>>
FaultEntry == <<U16, U8, Bool, U16, U32, U32, U16>>
GetFaultsResponse == <<List(16, FaultEntry)>>
ClearFaultsRequest == <<U32>>
ClearFaultsResponse == <<U16>>

\* The calls that end with decode_data, with their requests and answers ...
Data ==
    [hello |-> <<<<>>, HelloInfo>>, ping |-> <<PingRequest, PingResponse>>,
     schema_info |-> <<<<>>, GetSchemaInfoResponse>>,
     param_catalog |-> <<GetCatalogRequest, CatalogResponse(8, ParamDesc)>>,
     table_catalog |-> <<GetCatalogRequest, CatalogResponse(8, TableDesc)>>,
     telemetry_catalog |-> <<GetCatalogRequest, CatalogResponse(8, ChannelDesc)>>,
     param_get |-> <<ParamGetRequest, ParamGetResponse>>, param_set |-> <<ParamSetRequest, ParamSetResponse>>,
     table_get |-> <<TableGetRequest, TableGetResponse>>, config_save |-> <<<<>>, ConfigSaveResponse>>,
     config_status |-> <<<<>>, ConfigStatusResponse>>, subscribe |-> <<SubscribeRequest, SubscribeResponse>>,
     read_once |-> <<ReadOnceRequest, ReadOnceResponse>>, calibrate |-> <<CalibrateRequest, CalibrateResponse>>,
     get_faults |-> <<<<>>, GetFaultsResponse>>, clear_faults |-> <<ClearFaultsRequest, ClearFaultsResponse>>]
\* ... and those that end with decode_status.
Status ==
    [table_set_cell |-> TableSetCellRequest, table_set_axis |-> TableSetAxisRequest, config_discard |-> <<>>,
     config_reset_defaults |-> ConfigResetDefaultsRequest, unsubscribe |-> UnsubscribeRequest,
     bench_test |-> BenchTestRequest, set_override |-> SetOverrideRequest,
     clear_override |-> ClearOverrideRequest]
Op == DOMAIN Data \cup DOMAIN Status
Catalog == {"param_catalog", "table_catalog", "telemetry_catalog"}
Request(o) == IF o \in DOMAIN Data THEN Data[o][1] ELSE Status[o]

OkCode == 0    UnknownOp == 1    BadRequest == 2    NotFound == 3    Busy == 6    Fragmentation == 8
\* What a handler may refuse although the request is well formed (table writes: module RdpConfig).
Refusals(o) ==
    CASE o \in {"param_get", "table_get", "read_once", "unsubscribe", "clear_override", "set_override"} -> {NotFound}
      [] o \in {"bench_test", "calibrate"} -> {NotFound, Busy}
      [] o = "subscribe" -> {NotFound, Busy, BadRequest}
      [] o = "config_reset_defaults" -> {Busy}
      [] o \in {"table_set_cell", "table_set_axis"} -> {NotFound, BadRequest}
      [] OTHER -> {}

----------------------------------------------------------------------------
(* Bodies on the wire.                                                     *)

WireKind ==
    [u8 |-> "uint", u16 |-> "uint", u32 |-> "uint", i32 |-> "uint", code |-> "uint", vtype |-> "uint",
     f32 |-> "float", bool |-> "bool", text |-> "text", bytes |-> "bytes", list |-> "list"]
Limit == [u8 |-> 256, u16 |-> 65536, code |-> 11, vtype |-> 10]
Item(k, n) == [kind |-> k, n |-> n]
Uint(n) == Item("uint", n)

ErrorBody(code) == <<Uint(code), Uint(0)>>
Body(fields) == [i \in DOMAIN fields |-> Item(WireKind[fields[i].kind], fields[i].max)]

Fits(f, w) ==
    /\ w.kind = WireKind[f.kind]
    /\ f.kind \in DOMAIN Limit => w.n < Limit[f.kind]
    /\ f.kind = "list" => w.n <= f.max
\* decode_from_slice
Decodes(fields, body) == Len(body) >= Len(fields) /\ \A i \in DOMAIN fields : Fits(fields[i], body[i])

----------------------------------------------------------------------------
(* A call.                                                                 *)

VARIABLES
    known,      \* the calls that the device's version answers
    count,      \* entries of its catalogs
    call,       \* the call under way, or None
    after,      \* the subscribe that waits for the channels, or None
    page, items,    \* of a catalog
    catalog,    \* whose entries items are (history), or None
    reply,      \* what the server has answered: [body, items, refused], Lost, or None
    outcome,    \* of the last call: "data", "refused", "broken", or None
    refused,    \* the server refused that call (history)
    channels    \* RdpClient.channels is filled

vars == <<known, count, call, after, page, items, catalog, reply, outcome, refused, channels>>

\* Either catalogs of any length, or a device that does not know one of the calls.
Init ==
    /\ \/ known = Op /\ count \in [Catalog -> Counts]
       \/ known \in {Op \ {o} : o \in Op} /\ count = [c \in Catalog |-> Max(Counts)]
    /\ call = None /\ after = None /\ page = 0 /\ items = <<>> /\ catalog = None
    /\ reply = None /\ outcome = None /\ refused = FALSE /\ channels = FALSE

\* The application makes a call; subscribe fetches the channels first when it has none.
Begin(o) ==
    /\ call = None
    /\ IF o = "subscribe" /\ ~channels THEN call' = "telemetry_catalog" /\ after' = o
       ELSE call' = o /\ after' = None
    /\ page' = 0 /\ items' = <<>> /\ catalog' = None /\ outcome' = None /\ refused' = FALSE
    /\ UNCHANGED <<known, count, reply, channels>>

PerPage == [param_catalog |-> 4, table_catalog |-> 4, telemetry_catalog |-> 8]
Desc == [param_catalog |-> ParamDesc, table_catalog |-> TableDesc, telemetry_catalog |-> ChannelDesc]
\* mutant: a page that is not full is not counted
TotalPages_Floor(o) == Max({1, count[o] \div PerPage[o]})
TotalPages(o) == Max({1, (count[o] + PerPage[o] - 1) \div PerPage[o]})
OnPage(o, p) == [i \in 1 .. Min({PerPage[o], count[o] - p * PerPage[o]}) |-> p * PerPage[o] + i]

\* encode_message: fragments of 512 bytes with their headers, CRCs, stuffing and delimiters
FrameSize(n) == LET raw == n + 8 IN raw + raw \div 254 + 1 + 1
Framed(n) == (n \div 512) * FrameSize(512) + (IF n % 512 > 0 THEN FrameSize(n % 512) ELSE 0)

Answer(body, its) == [body |-> body, items |-> its, refused |-> FALSE]
Refuse(code) == [body |-> ErrorBody(code), items |-> <<>>, refused |-> TRUE]
Lost == Answer(<<>>, <<>>)
\* respond_body: an answer that does not fit becomes a Fragmentation error; what does not fit
\* into frames is not sent at all.
Respond(fields, body, its) ==
    IF BodySize(fields) + 3 > Out THEN Refuse(Fragmentation)
    ELSE IF Framed(BodySize(fields) + 3) > FrameOut THEN Lost
    ELSE Answer(body, its)

\* RdpServer::handle, on a request that the client encoded.
Handle ==
    /\ call # None /\ reply = None
    /\ \/ /\ call \notin known
          /\ reply' = Refuse(UnknownOp)
       \/ /\ call \in known \ Catalog
          /\ \/ \E code \in Refusals(call) : reply' = Refuse(code)
             \/ call \in DOMAIN Data /\ reply' = Respond(Data[call][2], Body(Data[call][2]), <<>>)
             \/ call \in DOMAIN Status /\ reply' = Answer(ErrorBody(OkCode), <<>>)
       \/ /\ call \in known \cap Catalog
          /\ IF page >= TotalPages(call) THEN reply' = Refuse(NotFound)
             ELSE LET its == OnPage(call, page)
                  IN  reply' = Respond(CatalogResponse(Len(its), Desc[call]),
                                       <<Uint(page), Uint(TotalPages(call)), Item("list", Len(its))>>, its)
    /\ UNCHANGED <<known, count, call, after, page, items, catalog, outcome, refused, channels>>

\* decode_data
DecodeData(o, body) ==
    IF Decodes(Data[o][2], body) THEN "data"
    ELSE IF Decodes(ErrorResponseBody, body) THEN "refused" ELSE "broken"
\* decode_status; the code is the caller's to look at
DecodeStatus(body) ==
    IF ~Decodes(ErrorResponseBody, body) THEN "broken"
    ELSE IF body[1].n = OkCode THEN "data" ELSE "refused"

End(result) == call' = None /\ after' = None /\ outcome' = result
LastPage(p) == p + 1 >= reply.body[2].n

\* The client has the whole answer: round_trip returns.
Return ==
    /\ reply # None /\ reply # Lost /\ reply' = None
    /\ refused' = reply.refused
    /\ IF call \in DOMAIN Status
       THEN End(DecodeStatus(reply.body)) /\ UNCHANGED <<page, items, catalog, channels>>
       ELSE LET result == DecodeData(call, reply.body) IN
            IF call \notin Catalog \/ result # "data"
            THEN End(result) /\ UNCHANGED <<page, items, catalog, channels>>
            ELSE /\ items' = items \o reply.items
                 /\ catalog' = call /\ page' = page + 1
                 /\ IF ~LastPage(page) THEN UNCHANGED <<call, after, outcome, channels>>
                    ELSE /\ channels' = (channels \/ (call = "telemetry_catalog" /\ items' # <<>>))
                         /\ IF after # None THEN call' = after /\ after' = None /\ UNCHANGED outcome
                            ELSE End("data")
    /\ UNCHANGED <<known, count>>

Next == (\E o \in Op : Begin(o)) \/ Handle \/ Return

Spec == Init /\ [][Next]_vars

----------------------------------------------------------------------------
(* Properties.                                                             *)

\* The buffers of device and client suffice, each for the largest message of any type: no
\* request or answer is cut off on its way, turned into an error, or dropped, and a catalog
\* that has come through is the device's, each entry once and in its place.
AnswersArrive ==
    /\ reply # Lost
    /\ reply # None => reply.body # ErrorBody(Fragmentation)
    /\ call # None => /\ BodySize(Request(call)) + 3 <= RequestRoom
                      /\ call \in DOMAIN Data => BodySize(Data[call][2]) + 3 <= Reassembly
    /\ outcome = "data" /\ catalog # None => items = [i \in 1 .. count[catalog] |-> i]

\* The three answers that look like a refusal.
Alike == {"ping", "config_save", "clear_faults"}
\* A call that the device carried out returns data, and one it refused returns an error.
ToldRight ==
    outcome' # None /\ outcome = None =>
        IF ~reply.refused THEN outcome' = "data" ELSE call \in Alike \/ outcome' = "refused"
OutcomeIsTold == [][ToldRight]_vars

\* Both: what is sent arrives whole, and what has become of a call is told.
CallsAreServed == []AnswersArrive /\ OutcomeIsTold

\* "A failed response carries a CBOR ErrorResponseBody instead, which is surfaced as
\* RdpError::Device" (client/src/rdp.rs): for every call.
RefusalIsSurfaced == refused => outcome # "data"
=============================================================================
