------------------------------ MODULE Catalog ------------------------------
(***************************************************************************)
(* The parameter and table catalogs of engine-core/src/params.rs, as they  *)
(* are: what is advertised, what a write accepts and stores and what a     *)
(* read returns are written down in tables of their own, one arm for each  *)
(* parameter and each table.  RdpConfig has the staging around them, with  *)
(* small catalogs.  Parameters are in tenths, cells in hundredths, and     *)
(* arrays keep their sizes but remember only what was written to them.     *)
(***************************************************************************)
EXTENDS Integers, Sequences, FiniteSets

CONSTANT MaxWrites      \* bound

VARIABLES
    parameter,  \* the scalar fields of EngineConfig
    stored,     \* what was written to its arrays: <<field, row, column>> to value
    writes,     \* number of writes
    promised    \* history: what the host was told to be set, in terms of the catalogs

vars == <<parameter, stored, writes, promised>>

----------------------------------------------------------------------------
(* Parameters.                                                             *)

Meta(min, max, default, stoppedOnly) == [min |-> min, max |-> max, default |-> default, stoppedOnly |-> stoppedOnly]
\* PARAM_CATALOG
ParamCatalog ==
    [DisplacementCcPerCyl |-> Meta(10, 50000, 3750, TRUE), TriggerTotalTeeth   |-> Meta(40, 2560, 360, TRUE),
     TriggerMissingTeeth  |-> Meta(10, 40, 10, TRUE),      CrankingRpm         |-> Meta(500, 10000, 4000, FALSE),
     CrankingTimingDeg    |-> Meta(-100, 300, 50, FALSE),  CrankingDwellMs     |-> Meta(10, 150, 60, FALSE),
     StoichRatioPrimary   |-> Meta(100, 200, 147, FALSE),  InjectorFlowCcPerMin |-> Meta(500, 20000, 2400, FALSE)]
Param == DOMAIN ParamCatalog

\* EngineConfig::default_4cyl
DefaultParameters ==
    [DisplacementCcPerCyl |-> 3750, TriggerTotalTeeth |-> 360, TriggerMissingTeeth |-> 10, CrankingRpm |-> 4000,
     CrankingTimingDeg |-> 50, CrankingDwellMs |-> 60, StoichRatioPrimary |-> 147, InjectorFlowCcPerMin |-> 2400]

Greatest(a, b) == IF a > b THEN a ELSE b
Clamp(v, low, high) == IF v < low THEN low ELSE IF v > high THEN high ELSE v

\* set_param: "value as u32" cuts off the fraction.
Stored(p, v) ==
    CASE p = "DisplacementCcPerCyl" -> Greatest(v, 10)
      [] p \in {"TriggerTotalTeeth", "TriggerMissingTeeth"} -> Greatest(10 * (v \div 10), 10)
      [] p = "CrankingRpm"          -> Clamp(v, 500, 10000)
      [] p = "CrankingTimingDeg"    -> Clamp(v, -100, 300)
      [] p = "CrankingDwellMs"      -> Clamp(v, 10, 150)
      [] p = "StoichRatioPrimary"   -> Clamp(v, 100, 200)
      [] p = "InjectorFlowCcPerMin" -> Clamp(v, 500, 20000)

----------------------------------------------------------------------------
(* Tables.                                                                 *)

Plane(x, y, min, max) == [x |-> x, y |-> y, min |-> min, max |-> max]
Curve(x, min, max) == Plane(x, 0, min, max)
\* TABLE_CATALOG
TableCatalog ==
    [Ignition    |-> Plane(16, 16, -1000, 6000), Lambda      |-> Plane(16, 16, 50, 200),
     Ve          |-> Plane(16, 16, 10, 150),     InjectorDeadtime |-> Plane(8, 8, 0, 500),
     DwellMs     |-> Curve(8, 50, 1500),         DwellVoltageCorr |-> Curve(8, 10, 500),
     IatFuelCorr |-> Curve(8, 50, 200),          CltFuelCorr |-> Curve(8, 50, 200),
     CltTimingCorr |-> Curve(8, -2000, 2000),    IatTimingCorr |-> Curve(8, -2000, 2000)]
Table == DOMAIN TableCatalog
TwoDimensional(t) == TableCatalog[t].y > 0

\* The arrays of EngineConfig: rows and columns, least and greatest value of default_4cyl.
Array(rows, columns, least, greatest) == [rows |-> rows, columns |-> columns, least |-> least, greatest |-> greatest]
Fields ==
    [ignition_table |-> Array(16, 16, 1000, 1000), lambda_table |-> Array(16, 16, 100, 100),
     ve_table |-> Array(16, 16, 85, 85), injector_deadtime_table |-> Array(8, 8, 50, 50),
     dwell_ms_table |-> Array(1, 8, 200, 400), dwell_voltage_corr |-> Array(1, 8, 80, 200),
     iat_fuel_corr |-> Array(1, 8, 78, 115), clt_fuel_corr |-> Array(1, 8, 100, 150),
     clt_timing_corr |-> Array(1, 8, -200, 500), iat_timing_corr |-> Array(1, 8, -300, 200)]

\* table_get
CellsOf ==
    [Ignition |-> "ignition_table", Lambda |-> "lambda_table", Ve |-> "ve_table",
     InjectorDeadtime |-> "injector_deadtime_table", DwellMs |-> "dwell_ms_table",
     DwellVoltageCorr |-> "dwell_voltage_corr", IatFuelCorr |-> "iat_fuel_corr", CltFuelCorr |-> "clt_fuel_corr",
     CltTimingCorr |-> "clt_timing_corr", IatTimingCorr |-> "iat_timing_corr"]
AxesOf ==
    [Ignition |-> <<"ignition_rpm_bins", "ignition_load_bins">>, Lambda |-> <<"lambda_rpm_bins", "lambda_load_bins">>,
     Ve |-> <<"ve_rpm_bins", "ve_load_bins">>,
     InjectorDeadtime |-> <<"injector_deadtime_voltage_bins", "injector_deadtime_pressure_bins">>,
     DwellMs |-> <<"dwell_rpm_bins">>, DwellVoltageCorr |-> <<"dwell_voltage_bins">>,
     IatFuelCorr |-> <<"iat_fuel_temp_bins">>, CltFuelCorr |-> <<"clt_fuel_temp_bins">>,
     CltTimingCorr |-> <<"clt_corr_temp_bins">>, IatTimingCorr |-> <<"iat_corr_temp_bins">>]

\* table_write_cell
WritesCells ==
    [Ignition |-> "ignition_table", Lambda |-> "lambda_table", Ve |-> "ve_table",
     InjectorDeadtime |-> "injector_deadtime_table", DwellMs |-> "dwell_ms_table",
     DwellVoltageCorr |-> "dwell_voltage_corr", IatFuelCorr |-> "iat_fuel_corr", CltFuelCorr |-> "clt_fuel_corr",
     CltTimingCorr |-> "clt_timing_corr", IatTimingCorr |-> "iat_timing_corr"]
\* table_write_axis: the arrays and their lengths
WritesAxis ==
    [Ignition |-> <<<<"ignition_rpm_bins", 16>>, <<"ignition_load_bins", 16>>>>,
     Lambda |-> <<<<"lambda_rpm_bins", 16>>, <<"lambda_load_bins", 16>>>>,
     Ve |-> <<<<"ve_rpm_bins", 16>>, <<"ve_load_bins", 16>>>>,
     InjectorDeadtime |-> <<<<"injector_deadtime_voltage_bins", 8>>, <<"injector_deadtime_pressure_bins", 8>>>>,
     DwellMs |-> <<<<"dwell_rpm_bins", 8>>>>, DwellVoltageCorr |-> <<<<"dwell_voltage_bins", 8>>>>,
     IatFuelCorr |-> <<<<"iat_fuel_temp_bins", 8>>>>, CltFuelCorr |-> <<<<"clt_fuel_temp_bins", 8>>>>,
     CltTimingCorr |-> <<<<"clt_corr_temp_bins", 8>>>>, IatTimingCorr |-> <<<<"iat_corr_temp_bins", 8>>>>]

----------------------------------------------------------------------------
Init ==
    /\ parameter = DefaultParameters /\ stored = [k \in {} |-> 0]
    /\ writes = 0 /\ promised = [k \in {} |-> 0]

Set(f, k, v) == [j \in DOMAIN f \cup {k} |-> IF j = k THEN v ELSE f[j]]

\* apply_param_set, get_param
ParamSet(p, v, engineRunning) ==
    LET meta == ParamCatalog[p]
        ok == ~(meta.stoppedOnly /\ engineRunning) /\ v >= meta.min /\ v <= meta.max
    IN /\ parameter' = IF ok THEN [parameter EXCEPT ![p] = Stored(p, v)] ELSE parameter
       /\ promised' = IF ok THEN Set(promised, <<p>>, v) ELSE promised
       /\ UNCHANGED stored

\* table_write_cell, bounded_set_2d and bounded_set_1d.  The host counts cells row by row.
TableSetCell(t, ix, iy, v) ==
    LET meta == TableCatalog[t]
        array == Fields[WritesCells[t]]
        row == IF TwoDimensional(t) THEN iy ELSE 0
        ok == v >= meta.min /\ v <= meta.max /\ row < array.rows /\ ix < array.columns
    IN /\ stored' = IF ok THEN Set(stored, <<WritesCells[t], row, ix>>, v) ELSE stored
       /\ promised' = IF ok THEN Set(promised, <<t, 0, IF TwoDimensional(t) THEN iy * meta.x + ix ELSE ix>>, v)
                      ELSE promised
       /\ UNCHANGED parameter

\* table_write_axis: the leading n entries, here all v; a curve has no second axis.
TableSetAxis(t, axis, n, v) ==
    LET ok == axis <= Len(WritesAxis[t]) /\ n <= WritesAxis[t][axis][2]
        field == WritesAxis[t][axis][1]
    IN /\ stored' = IF ok THEN [k \in DOMAIN stored \cup {<<field, 0, i>> : i \in 0 .. n - 1} |->
                                  IF k[1] = field /\ k[3] < n THEN v ELSE stored[k]] ELSE stored
       /\ promised' = IF ok THEN [k \in DOMAIN promised \cup {<<t, axis, i>> : i \in 0 .. n - 1} |->
                                    IF Len(k) = 3 /\ k[1] = t /\ k[2] = axis /\ k[3] < n THEN v ELSE promised[k]]
                      ELSE promised
       /\ UNCHANGED parameter

\* CONFIG_RESET_DEFAULTS
Reset ==
    /\ parameter' = DefaultParameters /\ stored' = [k \in {} |-> 0] /\ promised' = [k \in {} |-> 0]

\* table_get: cells are pushed row by row, at most 256 of them; -1 stands for a default.
ReadCell(t, k) ==
    LET array == Fields[CellsOf[t]]
        at == <<CellsOf[t], k \div array.columns, k % array.columns>>
    IN IF at \in DOMAIN stored THEN stored[at] ELSE -1
ReadAxis(t, axis, i) == LET at == <<AxesOf[t][axis], 0, i>> IN IF at \in DOMAIN stored THEN stored[at] ELSE -1

Next ==
    /\ writes < MaxWrites /\ writes' = writes + 1
    /\ \/ \E p \in Param, running \in BOOLEAN :
             \E v \in {ParamCatalog[p].min - 1, ParamCatalog[p].min, ParamCatalog[p].max - 3, ParamCatalog[p].max + 1} :
                ParamSet(p, v, running)
       \/ \E t \in Table :
             \E ix \in {0, TableCatalog[t].x - 1, TableCatalog[t].x}, iy \in {0, TableCatalog[t].y - 1, TableCatalog[t].y},
                v \in {TableCatalog[t].min - 1, TableCatalog[t].max} :
                iy >= 0 /\ TableSetCell(t, ix, iy, v)
       \/ \E t \in Table, axis \in 1 .. 2, n \in {1, 8, 16, 17}, v \in {7} : TableSetAxis(t, axis, n, v)
       \/ Reset

Spec == Init /\ [][Next]_vars

----------------------------------------------------------------------------
(* Properties.                                                             *)

\* What the host was told to be set is what it reads, at the place where it set it and nowhere
\* else, whatever else was written before and after; a count loses its fraction.
WritesReadBack ==
    /\ \A p \in Param : <<p>> \in DOMAIN promised =>
          parameter[p] = IF p \in {"TriggerTotalTeeth", "TriggerMissingTeeth"} THEN 10 * (promised[<<p>>] \div 10)
                         ELSE promised[<<p>>]
    /\ \A k \in DOMAIN promised : Len(k) = 3 =>
          promised[k] = IF k[2] = 0 THEN ReadCell(k[1], k[3]) ELSE ReadAxis(k[1], k[2], k[3])
    /\ Cardinality(DOMAIN stored) = Cardinality({k \in DOMAIN promised : Len(k) = 3})

\* Defaults included, a parameter is one that its catalog entry admits, the entry's default is the
\* firmware's, and the arrays have the advertised sizes.
CatalogIsTrue ==
    /\ \A p \in Param :
          /\ parameter[p] \in ParamCatalog[p].min .. ParamCatalog[p].max
          /\ ParamCatalog[p].default = DefaultParameters[p]
    /\ \A t \in Table :
          LET meta == TableCatalog[t]
              array == Fields[CellsOf[t]]
          IN /\ array.columns = meta.x /\ array.rows = (IF meta.y = 0 THEN 1 ELSE meta.y)
             /\ meta.min <= array.least /\ array.greatest <= meta.max
             /\ array.rows * array.columns <= 256
             /\ Len(WritesAxis[t]) = Len(AxesOf[t]) /\ WritesAxis[t][1][2] = meta.x
             /\ TwoDimensional(t) <=> Len(AxesOf[t]) = 2

\* "Values are clamped to the descriptor's min/max when applicable" (params.rs:261)
ClampedToDescriptor ==
    \A p \in Param : \A v \in {ParamCatalog[p].min - 10, ParamCatalog[p].max + 10} :
        Stored(p, v) \in ParamCatalog[p].min .. ParamCatalog[p].max

CatalogHolds == WritesReadBack /\ CatalogIsTrue
=============================================================================
