--------------------------- MODULE MCSparseCnnAxi ---------------------------
(* Small instances of SparseCnnAxi for TLC.                                *)
EXTENDS SparseCnnAxi

W(start, clear, en, strb) == [start |-> start, clear |-> clear, en |-> en, strb |-> strb]
P(w, a) == [weight |-> w, act |-> a]

\* Every address that behaves differently when written: CTRL, and all the rest.
MCWrAddrs == {"CTRL", "UNMAPPED"}

\* The driver's start and clear, a disable, START with CLEAR, and a write whose
\* byte lane is not strobed.
CtrlWrData == { W(TRUE, FALSE, TRUE, TRUE), W(FALSE, TRUE, TRUE, TRUE),
                W(FALSE, FALSE, FALSE, TRUE),
                W(TRUE, TRUE, TRUE, TRUE), W(TRUE, FALSE, FALSE, TRUE),
                W(TRUE, TRUE, FALSE, FALSE) }
AddAndSkip == { P(1, 1), P(0, 1) }
MCRdAddrs == {"STATUS", "ACC"}
OnePair == { P(1, 1) }
=============================================================================
