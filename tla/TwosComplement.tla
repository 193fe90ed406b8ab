--------------------------- MODULE TwosComplement ---------------------------
(* The values that registers of a given width hold.                        *)
EXTENDS Integers

\* The values of a signed register of width w.
SignedRange(w) == -(2^(w-1)) .. 2^(w-1) - 1

\* The value w bits hold after x is assigned to them.
Signed(x, w)   == ((x + 2^(w-1)) % 2^w) - 2^(w-1)
Unsigned(x, w) == x % 2^w
=============================================================================
