---------------------------- MODULE MCCrankLoop ----------------------------
EXTENDS CrankLoop

Twin == <<0, 1>>
Four == <<0, 2, 3, 1>>
Six == <<0, 4, 2, 5, 1, 3>>
=============================================================================
