---------------------------- MODULE SparseMacPe ----------------------------
(***************************************************************************)
(* rtl/sparse_mac_pe.sv: the sparse multiply-accumulate processing         *)
(* element, one clock edge at a time, and tb/model/sparse_mac_model.py:    *)
(* the golden model the repository verifies it against.                    *)
(***************************************************************************)
EXTENDS TwosComplement, Sequences

CONSTANTS DATA_W,  \* width of a signed operand
          ACC_W,   \* width of the signed accumulator
          SKIP_W   \* width of the unsigned zero-skip counter

VARIABLES acc,         \* the accumulator register
          skip_count,  \* the zero-skip counter register
          valid_out    \* a valid pair was consumed on the last edge

peVars == <<acc, skip_count, valid_out>>

-----------------------------------------------------------------------------
Operand == SignedRange(DATA_W)
Pair    == [weight : Operand, act : Operand]

-----------------------------------------------------------------------------
IsZero(pair)  == pair.weight = 0 \/ pair.act = 0

\* The product is sign-extended into the accumulator's width before it is added.
Product(pair) == Signed(pair.weight * pair.act, ACC_W)

PeInit == /\ acc = 0
          /\ skip_count = 0
          /\ valid_out = FALSE

PeReset == /\ acc' = 0
           /\ skip_count' = 0
           /\ valid_out' = FALSE

\* One clock edge out of reset with the given input pins.
PeEdge(en, clear_acc, valid_in, pair) ==
    /\ acc' = IF ~en THEN acc
              ELSE IF clear_acc THEN 0
              ELSE IF valid_in /\ ~IsZero(pair)
                   THEN Signed(acc + Product(pair), ACC_W) ELSE acc
    /\ skip_count' = IF ~en THEN skip_count
                     ELSE IF clear_acc THEN 0
                     ELSE IF valid_in /\ IsZero(pair)
                          THEN Unsigned(skip_count + 1, SKIP_W) ELSE skip_count
    /\ valid_out' = (en /\ valid_in /\ ~clear_acc)

PeTypeOK == /\ acc \in SignedRange(ACC_W)
            /\ skip_count \in 0 .. 2^SKIP_W - 1
            /\ valid_out \in BOOLEAN

-----------------------------------------------------------------------------
(* golden(weights, acts): exact, unbounded integers.                       *)

Golden(tile) ==
    LET upto[n \in 0 .. Len(tile)] ==
          IF n = 0 THEN [acc |-> 0, skip |-> 0]
          ELSE IF IsZero(tile[n])
               THEN [upto[n-1] EXCEPT !.skip = @ + 1]
               ELSE [upto[n-1] EXCEPT !.acc = @ + tile[n].weight * tile[n].act]
    IN  upto[Len(tile)]

\* What the registers of the given widths can show of a tile.
Expected(tile) == [acc  |-> Signed(Golden(tile).acc, ACC_W),
                   skip |-> Unsigned(Golden(tile).skip, SKIP_W)]
=============================================================================
