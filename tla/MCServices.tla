----------------------------- MODULE MCServices -----------------------------
(***************************************************************************)
(* Eight parts of the exchange between host and device that are explored   *)
(* side by side, as in MCControllers: faults and events (the module this   *)
(* one extends), the link, the messages, stored data, edited tables, the   *)
(* page of the older protocol, the catalogs with the fields behind them,   *)
(* and the generator of the layouts both ends are built with.              *)
(***************************************************************************)
EXTENDS Faults

CONSTANTS
    Receivers, SeqNumbers, Fragments, MaxRequests, MaxDamage, MaxPushes,    \* Link
    Out, FrameOut, Reassembly, RequestRoom, KeyLength, LabelLength,         \* Messages
    UnitLength, Counts,
    Keys, Writer, Slots, Room, Lengths, LtftKey, LtftLength,                \* Storage
    Bins, CellRange, CellValues, AxisValues, Inputs, MaxEdits,              \* Tables
    PageSize, FirstRdp, Factors, Offsets, Sizes,                            \* TunePage
    MaxWrites,                                                              \* Catalog
    Names, Custom, MaxLines, Arrays, Numbers                                \* Codegen

VARIABLES
    part,
    receiver, sent, asking, down, rx, up, pushes, defrag, got, answered, cancelled, damage,
    known, count, call, after, page, items, catalog, reply, outcome, denied, channels,
    data, result, trims,
    use, cells, rows, columns, edits, put,
    tune, factor, command, request, response, image, ended, before, last,
    parameter, stored, writes, promised,
    file, defines, types, stack, structures, loose, line, forward, written

linkVars ==
    <<receiver, sent, asking, down, rx, up, pushes, defrag, got, answered, cancelled, damage>>
messageVars ==
    <<known, count, call, after, page, items, catalog, reply, outcome, denied, channels>>
storageVars == <<data, result, trims>>
tableVars == <<use, cells, rows, columns, edits, put>>
tuneVars == <<tune, factor, command, request, response, image, ended, before, last>>
catalogVars == <<parameter, stored, writes, promised>>
codegenVars == <<file, defines, types, stack, structures, loose, line, forward, written>>

L == INSTANCE Link WITH waiting <- asking
M == INSTANCE Messages WITH refused <- denied
S == INSTANCE Storage WITH Key <- Keys
T == INSTANCE Tables WITH meant <- put, Size <- Bins
P == INSTANCE TunePage WITH page <- tune, call <- command, outcome <- ended
C == INSTANCE Catalog
G == INSTANCE Codegen

ASSUME LineAssumption == L!LinkAssumption
ASSUME StoreAssumption == S!StorageAssumption
ASSUME PageAssumption == P!Parameters

PartsInit ==
    /\ part \in {"faults", "link", "messages", "storage", "tables", "tune", "catalog", "codegen"}
    /\ Init /\ L!Init /\ M!Init /\ S!Init /\ T!Init /\ P!Init /\ C!Init /\ G!Init
    /\ part # "link" => receiver = "firmware"
    /\ part # "messages" => known = M!Op /\ count = [c \in M!Catalog |-> Max(Counts)]
    /\ part # "tables" => use = "map"
    /\ part # "tune" => factor = 1
    /\ part # "codegen" => file = "structs"

RunFaults ==
    /\ part = "faults" /\ Next
    /\ UNCHANGED <<part, linkVars, messageVars, storageVars, tableVars, tuneVars, catalogVars, codegenVars>>
RunLink ==
    /\ part = "link" /\ L!Next
    /\ UNCHANGED <<part, vars, messageVars, storageVars, tableVars, tuneVars, catalogVars, codegenVars>>
RunMessages ==
    /\ part = "messages" /\ M!Next
    /\ UNCHANGED <<part, vars, linkVars, storageVars, tableVars, tuneVars, catalogVars, codegenVars>>
RunStorage ==
    /\ part = "storage" /\ S!Next
    /\ UNCHANGED <<part, vars, linkVars, messageVars, tableVars, tuneVars, catalogVars, codegenVars>>
RunTables ==
    /\ part = "tables" /\ T!Next
    /\ UNCHANGED <<part, vars, linkVars, messageVars, storageVars, tuneVars, catalogVars, codegenVars>>
RunTune ==
    /\ part = "tune" /\ P!Next
    /\ UNCHANGED <<part, vars, linkVars, messageVars, storageVars, tableVars, catalogVars, codegenVars>>
RunCatalog ==
    /\ part = "catalog" /\ C!Next
    /\ UNCHANGED <<part, vars, linkVars, messageVars, storageVars, tableVars, tuneVars, codegenVars>>
RunCodegen ==
    /\ part = "codegen" /\ G!Next
    /\ UNCHANGED <<part, vars, linkVars, messageVars, storageVars, tableVars, tuneVars, catalogVars>>

PartsNext ==
    \/ RunFaults \/ RunLink \/ RunMessages \/ RunStorage
    \/ RunTables \/ RunTune \/ RunCatalog \/ RunCodegen

allVars == <<part, vars, linkVars, messageVars, storageVars, tableVars, tuneVars, catalogVars, codegenVars>>

PartsSpec == PartsInit /\ [][PartsNext]_allVars

\* Three interchangeable faults.
Symmetry == Permutations(Code)

----------------------------------------------------------------------------
(* The properties, each stated and explained in the module of its part.    *)

\* An answer is the one to its question (RdpClient::round_trip, the frames of both ends).
AnswersMatch == part = "link" => L!AnswersMatch
\* Damage to the line costs what it hits (Deframer, Defragmenter).
DamageIsContained == part = "link" => L!DamageIsContained
\* Messages fit the buffers of both ends, and a call tells what has become of it (respond_body,
\* decode_data, decode_status).
CallsAreServed ==
    /\ [](part = "messages" => M!AnswersArrive)
    /\ [][part = "messages" => M!ToldRight]_messageVars
\* The list of entries is a map (MemoryStorage).
StorageIsAMap == S!Map!Init /\ [][part = "storage" /\ S!Map!Next]_<<S!contents, result>>
\* Edits of tables act where and as they were meant (params.rs, maps/interpolation.rs), and so do
\* chunked writes and reads of the page (client.rs, comms/mod.rs); a parameter or an entry that was
\* set is read back at its place alone (params.rs), and layouts hold the fields that were read, each
\* in bytes of its own (codegen).
EditsActAsMeant ==
    /\ part = "tables" => T!TablesActAsEdited
    /\ part = "tune" => P!PageIsAsWritten
    /\ part = "catalog" => C!CatalogHolds
    /\ part = "codegen" => G!GeneratorKeeps
=============================================================================
