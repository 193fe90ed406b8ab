------------------------------ MODULE ReluUnit ------------------------------
(***************************************************************************)
(* rtl/relu_unit.sv, the combinational Leaky ReLU, and the golden model of *)
(* tb/model/relu_model.py.                                                 *)
(***************************************************************************)
EXTENDS TwosComplement

CONSTANTS DATA_W,   \* width of a signed activation
          SLOPE_W   \* width of the unsigned Q0.SLOPE_W slope

ASSUME ReluWidths == {DATA_W, SLOPE_W} \subseteq Nat \ {0}

Activation == SignedRange(DATA_W)
Slope      == 0 .. 2^SLOPE_W - 1

ProdW == DATA_W + SLOPE_W + 1

\* The product in a register of its own width; \div floors, as >>> does.
Scaled(x, slope) == Signed(slope * x, ProdW)

relu(x, slope) ==
    IF x >= 0 THEN x ELSE Signed(Scaled(x, slope) \div 2^SLOPE_W, DATA_W)

\* golden(activations, slope), one activation: exact integers, no widths.
GoldenRelu(x, slope) == IF x >= 0 THEN x ELSE (x * slope) \div 2^SLOPE_W
=============================================================================
