---------------------------- MODULE MCRdpConfig ----------------------------
(* A small instance of RdpConfig: one stopped-only geometry parameter, one *)
(* free parameter, one cell, an axis of two bins.                          *)
EXTENDS RdpConfig

MCParams == {"teeth", "rpm"}
MCStoppedOnly == {"teeth"}
MCCells == {"c"}
MCDefaults == [par |-> [p \in MCParams |-> 2], cell |-> [x \in MCCells |-> 2], axis |-> <<1, 3>>]

\* A weak checksum with collisions: nothing may rest on config_crc being injective.
MCCrc(c) == (c.par["teeth"] + 3 * c.par["rpm"] + 5 * c.cell["c"] + c.axis[1] + 7 * c.axis[2]) % 16

Entry(p, v) == [id |-> p, f32 |-> TRUE, value |-> v]
ParamSets == {[op |-> "ParamSet", entries |-> es] : es \in {
    <<Entry("teeth", 3)>>, <<Entry("rpm", 7), Entry("teeth", 4)>>,
    <<Entry("teeth", 4), Entry("rpm", 4), Entry("rpm", 3)>>, <<Entry("unknown", 3), [Entry("rpm", 3) EXCEPT !.f32 = FALSE]>>}}
CellWrites == {[op |-> "TableSetCell", cell |-> x, value |-> v] : x \in {"c", "outside"}, v \in {3, 7}}
AxisWrites == {[op |-> "TableSetAxis", values |-> vs] : vs \in {<<4>>, <<1, 4>>, <<1, 3, 4>>}}
Resets == {[op |-> "ConfigResetDefaults", confirm |-> b] : b \in BOOLEAN}
Plain == {[op |-> o] : o \in {"ConfigSave", "ConfigDiscard", "ConfigStatus", "Other"}}
RebootRequest == {[op |-> "Reboot"]}

ConfigRequests == ParamSets \cup CellWrites \cup AxisWrites \cup Resets \cup Plain
AllRequests == ConfigRequests \cup RebootRequest
\* Enough to move, save, discard and reset a stopped-only parameter; for the runs
\* that look for one liveness failure.
FewRequests == {[op |-> "ParamSet", entries |-> <<Entry("teeth", 4)>>],
                [op |-> "ParamSet", entries |-> <<Entry("rpm", 3)>>]} \cup Plain
=============================================================================
