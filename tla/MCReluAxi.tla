----------------------------- MODULE MCReluAxi -----------------------------
(* Small instances of ReluAxi for TLC.                                     *)
EXTENDS ReluAxi

D(word, strb) == [word |-> word, strb |-> strb]

\* A disable or zero slope, an enable or slope wider than SLOPE_W, and a write
\* whose byte lane is not strobed.
MCWrData == { D(0, TRUE), D(7, TRUE), D(1, FALSE) }
CtrlSlope == {"CTRL", "SLOPE"}
MCXs == {-4, -3, 2}

EnableData == { D(0, TRUE), D(1, TRUE) }
CtrlOnly == {"CTRL"}
OneX == {-3}
=============================================================================
