------------------------------- MODULE Tables -------------------------------
(***************************************************************************)
(* Tables and what looks them up: cells and axes edited by a host          *)
(* (engine-core/src/params.rs) or by the setters of the load calculators   *)
(* (ignition/mod.rs), and the interpolation of the engine                  *)
(* (maps/interpolation.rs).  A table has Size rows and columns, a curve    *)
(* one row.  Numbers are integers, and a value that lies between cells is  *)
(* kept as a fraction.                                                     *)
(***************************************************************************)
EXTENDS Integers, Sequences, FiniteSetsExt

CONSTANTS
    Size,       \* entries of an axis
    CellRange,  \* cell_min..=cell_max, the limits of the setters
    CellValues, \* bound: values a host writes, some outside CellRange
    AxisValues, \* bound: values of axes
    Inputs,     \* bound: what is looked up
    MaxEdits    \* bound: edits

VARIABLES
    use,        \* what the table is for
    cells,      \* [row][column]
    rows, columns,  \* the axes
    edits,
    \* history
    meant       \* the value that whoever edits has put at (row index, column index) last

vars == <<use, cells, rows, columns, edits, meant>>

Index == 1 .. Size
Place == Index \X Index
IsCurve == use = "curve"

\* Tables of the configuration: x is a column, y a row.  Tables of the load calculators: the
\* speed is a row, throttle or pressure a column.  The cells of a new table are alike.
Init ==
    /\ use \in {"map", "curve", "alpha_n", "speed_density"}
    /\ cells = [r \in Index |-> [c \in Index |-> Min(CellRange)]]
    /\ meant = [p \in Place |-> Min(CellRange)]
    /\ rows = [i \in Index |-> 2 * i] /\ columns = [i \in Index |-> 2 * i]
    /\ edits = 0

\* mutant: column and row of a write are mixed up
Put_Transposed(r, c, value) == cells' = [cells EXCEPT ![c][r] = value]
\* bounded_set_2d, bounded_set_1d
Put(r, c, value) == cells' = [cells EXCEPT ![r][c] = value]

\* table_write_cell, with an index that may be too large; the row index of a curve is ignored.
WriteCell(ix, iy, value) ==
    /\ use \in {"map", "curve"}
    /\ LET row == IF IsCurve THEN 1 ELSE iy IN
       IF value \in CellRange /\ ix \in Index /\ row \in Index
       THEN Put(row, ix, value) /\ meant' = [meant EXCEPT ![<<row, ix>>] = value]
       ELSE UNCHANGED <<cells, meant>>
    /\ UNCHANGED <<use, rows, columns>>

\* table_write_axis: the leading entries, in any order of their values
WriteAxis(axis, values) ==
    /\ use \in {"map", "curve"}
    /\ LET Copy(dst) == IF Len(values) > Size THEN dst ELSE values \o SubSeq(dst, Len(values) + 1, Size) IN
       IF axis = "X" THEN columns' = Copy(columns) /\ UNCHANGED rows
       ELSE rows' = (IF IsCurve THEN rows ELSE Copy(rows)) /\ UNCHANGED columns
    /\ UNCHANGED <<use, cells, meant>>

\* set_load_value, set_ve_value
SetValue(rpm_idx, idx, value) ==
    /\ use \in {"alpha_n", "speed_density"}
    /\ IF rpm_idx \in Index /\ idx \in Index
       THEN LET v == Max({Min({value, Max(CellRange)}), Min(CellRange)})
            IN  Put(rpm_idx, idx, v) /\ meant' = [meant EXCEPT ![<<rpm_idx, idx>>] = v]
       ELSE UNCHANGED <<cells, meant>>
    /\ UNCHANGED <<use, rows, columns>>

Edit ==
    \/ \E ix, iy \in 1 .. Size + 1, v \in CellValues : WriteCell(ix, iy, v) \/ SetValue(ix, iy, v)
    \/ \E axis \in {"X", "Y"}, n \in 0 .. Size :
           \E values \in [1 .. n -> AxisValues] : WriteAxis(axis, values)

Next == edits < MaxEdits /\ edits' = edits + 1 /\ Edit

Spec == Init /\ [][Next]_vars

----------------------------------------------------------------------------
(* Looking up: a fraction is <<numerator, denominator>>.                   *)

\* The search of find_bin, between entries lo and hi.
Bisect(bins, value) ==
    LET search[lo \in Index, hi \in Index] ==
            IF hi - lo <= 1 THEN lo
            ELSE LET mid == (lo + hi - 2) \div 2 + 1
                 IN  IF value < bins[mid] THEN search[lo, mid] ELSE search[mid, hi]
    IN  search[1, Size]

\* find_bin: the interval and how far into it the value lies
FindBin(bins, value) ==
    IF value <= bins[1] THEN <<1, <<0, 1>>>>
    ELSE IF value >= bins[Size] THEN <<Size - 1, <<1, 1>>>>
    ELSE LET lo == Bisect(bins, value) IN
         <<lo, IF bins[lo + 1] = bins[lo] THEN <<0, 1>> ELSE <<value - bins[lo], bins[lo + 1] - bins[lo]>>>>

\* lerp of two fractions with the same denominator
Lerp(a, b, t) == <<a[1] * t[2] + (b[1] - a[1]) * t[1], a[2] * t[2]>>

Interpolate1d(bins, values, x) ==
    LET f == FindBin(bins, x) IN Lerp(<<values[f[1]], 1>>, <<values[f[1] + 1], 1>>, f[2])
Interpolate2d(table, row_bins, row_val, col_bins, col_val) ==
    LET f == FindBin(row_bins, row_val)
        g == FindBin(col_bins, col_val)
        Row(r) == Lerp(<<table[r][g[1]], 1>>, <<table[r][g[1] + 1], 1>>, g[2])
    IN  Lerp(Row(f[1]), Row(f[1] + 1), f[2])

\* compute_ignition and the fuel computation, AlphaNCalculator and SpeedDensityCalculator
\* ::calculate_load: what the engine takes for row value y and column value x, in the sense of
\* whoever edits the table.
LookUp(y, x) ==
    CASE use \in {"map", "alpha_n"} -> Interpolate2d(cells, rows, y, columns, x)
      [] use = "curve" -> Interpolate1d(columns, cells[1], x)
      [] use = "speed_density" -> Interpolate2d(cells, columns, x, rows, y)

\* What table_get sends, row after row.
TableGet ==
    IF IsCurve THEN cells[1]
    ELSE [i \in 1 .. Size * Size |-> cells[((i - 1) \div Size) + 1][((i - 1) % Size) + 1]]

----------------------------------------------------------------------------
(* Properties.                                                             *)

Increasing(axis) == \A i, j \in Index : i < j => axis[i] < axis[j]
Lines == IF IsCurve THEN {1} ELSE Index

\* At the values of a cell's axes the engine uses that cell, and the value put there last.
CellsActWhereTheyArePut ==
    Increasing(rows) /\ Increasing(columns) =>
        \A r \in Lines, c \in Index :
            LET v == LookUp(rows[r], columns[c]) IN v[1] = v[2] * meant[<<r, c>>]

\* What a host reads back is what it has put there, each cell in its place.
HostSeesWhatActs ==
    \A r \in Lines, c \in Index : TableGet[(r - 1) * Size + c] = meant[<<r, c>>]

\* Whatever an axis has become by partial writes, in order or not, a lookup finds an interval
\* around its value and returns nothing beyond the cells.
LookupIsBounded ==
    \A y \in Inputs, x \in Inputs :
        LET v == LookUp(y, x) IN
        /\ v[2] > 0
        /\ \E p, q \in Lines \X Index : cells[p[1]][p[2]] * v[2] <= v[1] /\ v[1] <= cells[q[1]][q[2]] * v[2]

\* Edits act where and as they were meant.
TablesActAsEdited ==
    (use # "speed_density" => CellsActWhereTheyArePut) /\ HostSeesWhatActs /\ LookupIsBounded

\* "indexed [rpm][tps] ..., so RPM is the row axis" (ignition/mod.rs, of the other load
\* calculator, whose table is laid out alike): the same for the table of volumetric efficiency.
EfficiencyActsWhereItIsPut == use = "speed_density" => CellsActWhereTheyArePut
=============================================================================
