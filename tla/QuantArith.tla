----------------------------- MODULE QuantArith -----------------------------
(***************************************************************************)
(* The arithmetic of the model representation tool: precisions, scales and *)
(* the integer operators its requantisation emits (mrt/tfm_utils.py,       *)
(* mrt/sim_quant_helper.py, mrt/cvm_op.py).                                *)
(*                                                                         *)
(* A scale or a threshold, a float in the code, is an exact rational       *)
(* <<numerator, denominator>>.  An emitted integer operator is abstracted  *)
(* to what decides whether it overflows or distorts:                       *)
(*   bound   no output of it exceeds this in absolute value,               *)
(*   peak    the largest absolute value met while computing it,            *)
(*   scale   how many units of it stand for one real unit.                 *)
(***************************************************************************)
EXTENDS Integers

CONSTANT MAX_BIT   \* width of the integers of the virtual machine

ASSUME MaxBitAssumption == MAX_BIT \in Nat \ {0, 1}

(* Rationals with positive denominators.                                   *)
Gcd[p \in Nat \X Nat] == IF p[2] = 0 THEN p[1] ELSE Gcd[<<p[2], p[1] % p[2]>>]
Rat(n, d) == LET g == Gcd[<<n, d>>] IN <<n \div g, d \div g>>
Int2Rat(n) == <<n, 1>>
RatMul(x, y) ==   \* cancelled crosswise first, to keep the products small
  LET a == Rat(x[1], y[2])  b == Rat(y[1], x[2])
  IN  <<a[1] * b[1], a[2] * b[2]>>
RatDiv(x, y) == RatMul(x, <<y[2], y[1]>>)
RatLeq(x, y) == x[1] * y[2] <= y[1] * x[2]
RatMax(x, y) == IF RatLeq(x, y) THEN y ELSE x
Floor(x) == x[1] \div x[2]
Ceil(x) == -((-x[1]) \div x[2])
Larger(a, b) == IF a < b THEN b ELSE a
Smaller(a, b) == IF a < b THEN a ELSE b
Magnitude(a) == IF a < 0 THEN -a ELSE a

(* Python's round(): to the nearest integer, ties to the even one.         *)
RoundHalfEven(x) ==
  LET f == Floor(x)
      twice == 2 * (x[1] - f * x[2])
  IN  IF twice < x[2] \/ (twice = x[2] /\ f % 2 = 0) THEN f ELSE f + 1

(* NDArray.round(): ties away from zero (here of values that are >= 0).    *)
RoundHalfUp(x) == Floor(<<2 * x[1] + x[2], 2 * x[2]>>)

Pow2[n \in Nat] == IF n = 0 THEN 1 ELSE 2 * Pow2[n - 1]

(* Times two to the power e, which may be negative.                        *)
Shift(x, e) == RatMul(x, IF e >= 0 THEN <<Pow2[e], 1>> ELSE <<1, Pow2[-e]>>)

(* f(v), with v evaluated once however often f names it.                   *)
On(v, f(_)) == CHOOSE r \in {f(a) : a \in {v}} : TRUE

-----------------------------------------------------------------------------
(* Bits that a sum of cnt terms adds to the precision of the terms: how    *)
(* often cnt is halved before it is zero.                                  *)
get_bit_cnt[cnt \in Nat] == IF cnt = 0 THEN 0 ELSE 1 + get_bit_cnt[cnt \div 2]

(* Signed bits needed for the real value x >= 0: ceil(log2(x + 1)) + 1,    *)
(* the least power of two that is larger than x rounded up.                *)
get_bit(x) == get_bit_cnt[Ceil(x)] + 1

get_range(prec) == IF prec < 1 THEN 0 ELSE Pow2[prec - 1] - 1

(* Mutant: the sign bit is forgotten.                                      *)
UnsignedScale(threshold, precision) ==
  IF threshold[1] = 0 THEN Int2Rat(1)
  ELSE RatDiv(Int2Rat(get_range(precision + 1)), threshold)

scale(threshold, precision) ==
  IF threshold[1] = 0 THEN Int2Rat(1)
  ELSE RatDiv(Int2Rat(get_range(precision)), threshold)

-----------------------------------------------------------------------------
(* The power of two just below a positive rational: floor(log2(x)).        *)
Log2(x) ==
  IF x[1] >= x[2] THEN get_bit_cnt[Floor(x)] - 1
  ELSE -get_bit_cnt[Ceil(<<x[2], x[1]>>) - 1]

(* Mutant: a mantissa with one bit too many.                               *)
LongMantissa(number, bits) ==
  IF number[1] = 0 THEN [frac |-> 0, exp |-> 0]
  ELSE LET e == Log2(number)
       IN  [frac |-> RoundHalfEven(Shift(number, bits - e)), exp |-> e - bits]

(* A positive rational as a mantissa and a power of two: normalised to     *)
(* [1, 2), doubled until it is an integer or the bits are used up, then    *)
(* rounded and capped.                                                     *)
cvm_float(number, bits) ==
  IF number[1] = 0 THEN [frac |-> 0, exp |-> 0]
  ELSE LET alpha == Larger(get_range(bits), 1)
           e == Log2(number)
           norm(k) == Shift(number, k - e)
           last == Larger(bits - 2, 0)
           k == CHOOSE j \in 0 .. last :
                  /\ norm(j)[2] = 1 \/ j = last
                  /\ \A i \in 0 .. j - 1 : norm(i)[2] # 1
       IN  [frac |-> Smaller(RoundHalfEven(norm(k)), alpha), exp |-> e - k]

(* Quantised parameter data, whose largest absolute value is absmax.       *)
int_realize(absmax, target_bit) ==
  Smaller(RoundHalfUp(absmax), get_range(target_bit))

-----------------------------------------------------------------------------
(* The emitted operators.                                                  *)
Sym(bound, peak, sc) == [bound |-> bound, peak |-> peak, scale |-> sc]

cvm_clip(X, prec) == Sym(Smaller(X.bound, get_range(prec)), X.peak, X.scale)

cvm_left_shift(X, sb, prec) ==
  Sym(Smaller(X.bound * Pow2[sb], get_range(prec)),
      X.peak, RatMul(X.scale, Int2Rat(Pow2[sb])))

(* Floor all bits but the last, then halve with rounding up.               *)
ShiftedRight(x, sb) == ((IF sb > 1 THEN x \div Pow2[sb - 1] ELSE x) + 1) \div 2

cvm_right_shift(X, sb, prec) ==
  Sym(Smaller(Larger(ShiftedRight(X.bound, sb),
                     Magnitude(ShiftedRight(-X.bound, sb))), get_range(prec)),
      X.peak, RatMul(X.scale, <<1, Pow2[sb]>>))

Times(X, Y) ==
  LET b == X.bound * Y.bound
  IN  Sym(b, Larger(Larger(X.peak, Y.peak), b), RatMul(X.scale, Y.scale))

(* A sum of k terms bounded like X.                                        *)
SumOf(X, k) == Sym(X.bound * k, Larger(X.peak, X.bound * k), X.scale)

(* Addends of one scale; the scale of a zero does not matter.              *)
Plus(X, Y) ==
  LET b == X.bound + Y.bound
  IN  Sym(b, Larger(Larger(X.peak, Y.peak), b), IF X.bound = 0 THEN Y.scale ELSE X.scale)

(* sb > 0 shifts right, sb < 0 shifts left, sb = 0 only clips.             *)
realize(X, sb, prec) ==
  IF sb = 0 THEN cvm_clip(X, prec)
  ELSE IF sb < 0 THEN cvm_left_shift(X, -sb, prec)
  ELSE cvm_right_shift(X, sb, prec)

(* Multiplied by a mantissa: each real unit becomes that many more integers.*)
ByMantissa(X, frac) ==
  Sym(X.bound * frac, Larger(X.peak, X.bound * frac), RatMul(X.scale, Int2Rat(frac)))

(* Multiply by a rational, as a mantissa product followed by a shift.      *)
Rescale(X, f, prec) ==
  realize(IF f.frac > 1 THEN ByMantissa(X, f.frac) ELSE X, -f.exp, prec)
=============================================================================
