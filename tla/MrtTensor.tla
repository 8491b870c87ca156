----------------------------- MODULE MrtTensor -----------------------------
(***************************************************************************)
(* Tensors and the operators of MXNet that the rewrites of the model       *)
(* representation tool read and emit.  MXNet is not part of the            *)
(* repository: an operator is defined by what the rewrites take it to do.  *)
(*                                                                         *)
(* A tensor is a shape, the elements in row-major order and a common       *)
(* denominator.  Axes, as in the code, count from zero.                    *)
(***************************************************************************)
EXTENDS Integers, Sequences, FiniteSets, TLC

RECURSIVE ProductTo(_, _)
ProductTo(s, n) == IF n = 0 THEN 1 ELSE s[n] * ProductTo(s, n - 1)

RECURSIVE SumTo(_, _)
SumTo(f, n) == IF n = 0 THEN 0 ELSE f[n - 1] + SumTo(f, n - 1)

Size(shape) == ProductTo(shape, Len(shape))
Stride(shape, d) == Size(SubSeq(shape, d + 1, Len(shape)))

(* The index tuple of element k, and the element of an index tuple.        *)
Unravel(shape, k) == [d \in 1 .. Len(shape) |-> (k \div Stride(shape, d)) % shape[d]]
Ravel(shape, i) == SumTo([d \in 0 .. Len(shape) - 1 |-> i[d + 1] * Stride(shape, d + 1)], Len(shape))

Tensor(shape, den, data) == [shape |-> shape, den |-> den, data |-> data]
Tabulate(shape, den, At(_)) ==
  Tensor(shape, den, [k \in 0 .. Size(shape) - 1 |-> At(Unravel(shape, k))])
Elem(T, i) == T.data[Ravel(T.shape, i)]
Full(shape, num, den) == Tabulate(shape, den, LAMBDA i : num)

(* They differ by no more than e in any element.                           *)
Within(S, T, e) ==
  /\ S.shape = T.shape
  /\ \A k \in DOMAIN S.data :
       LET d == S.data[k] * T.den - T.data[k] * S.den
       IN  d <= e * S.den * T.den /\ -d <= e * S.den * T.den

Rank(T) == Len(T.shape)
ToSeqOf(S) == CHOOSE s \in [1 .. Cardinality(S) -> S] : \A i, j \in DOMAIN s : i < j => s[i] < s[j]
Bigger(a, b) == IF a < b THEN b ELSE a
Without(s, d) == SubSeq(s, 1, d - 1) \o SubSeq(s, d + 1, Len(s))
With(s, d, x) == SubSeq(s, 1, d - 1) \o <<x>> \o SubSeq(s, d, Len(s))
Resized(s, d, x) == [e \in DOMAIN s |-> IF e = d THEN x ELSE s[e]]
-----------------------------------------------------------------------------
(* Shape operators.                                                        *)
transpose(T, axes) ==
  LET source(d) == CHOOSE e \in DOMAIN axes : axes[e] + 1 = d
  IN  Tabulate([d \in DOMAIN axes |-> T.shape[axes[d] + 1]], T.den,
        LAMBDA i : Elem(T, [d \in DOMAIN axes |-> i[source(d)]]))

(* At most one extent is -1, the one the others leave.                     *)
reshape(T, shape) ==
  LET known == Size([d \in DOMAIN shape |-> IF shape[d] = -1 THEN 1 ELSE shape[d]])
  IN  Tensor([d \in DOMAIN shape |-> IF shape[d] = -1 THEN Size(T.shape) \div known ELSE shape[d]],
             T.den, T.data)

expand_dims(T, axis) == reshape(T, With(T.shape, axis + 1, 1))
squeeze(T, axis) == reshape(T, Without(T.shape, axis + 1))
flatten(T) == reshape(T, <<T.shape[1], -1>>)

(* The axes that are not named are taken whole.                            *)
slice(T, begin, end) ==
  LET from(d) == IF d \in DOMAIN begin THEN begin[d] ELSE 0
      to(d) == IF d \in DOMAIN end THEN end[d] ELSE T.shape[d]
  IN  Tabulate([d \in 1 .. Rank(T) |-> to(d) - from(d)], T.den,
               LAMBDA i : Elem(T, [d \in DOMAIN i |-> i[d] + from(d)]))

slice_axis(T, axis, begin, end) ==
  slice(T, [d \in 1 .. Rank(T) |-> IF d = axis + 1 THEN begin ELSE 0],
           [d \in 1 .. Rank(T) |-> IF d = axis + 1 THEN end ELSE T.shape[d]])

repeat(T, axis, n) ==
  Tabulate(Resized(T.shape, axis + 1, T.shape[axis + 1] * n), T.den,
           LAMBDA i : Elem(T, [i EXCEPT ![axis + 1] = @ \div n]))

tile(T, reps) ==
  Tabulate([d \in DOMAIN reps |-> T.shape[d] * reps[d]], T.den,
           LAMBDA i : Elem(T, [d \in DOMAIN i |-> i[d] % T.shape[d]]))

concat(Ts, dim) ==
  LET extent(n) == SumTo([k \in 0 .. n - 1 |-> Ts[k + 1].shape[dim + 1]], n)
      owner(x) == CHOOSE n \in DOMAIN Ts : extent(n - 1) <= x /\ x < extent(n)
      den == ProductTo([n \in DOMAIN Ts |-> Ts[n].den], Len(Ts))
  IN  Tabulate(Resized(Ts[1].shape, dim + 1, extent(Len(Ts))), den,
        LAMBDA i : LET n == owner(i[dim + 1])
                   IN  (den \div Ts[n].den) * Elem(Ts[n], [i EXCEPT ![dim + 1] = @ - extent(n - 1)]))

(* The element of a tensor that is broadcast to a larger shape.            *)
Spread(T, i) == Elem(T, [d \in DOMAIN i |-> IF T.shape[d] = 1 THEN 0 ELSE i[d]])

broadcast_like(T, W, lhs, rhs) ==
  LET width(d) == IF \E n \in DOMAIN lhs : lhs[n] + 1 = d
                  THEN W.shape[rhs[CHOOSE n \in DOMAIN lhs : lhs[n] + 1 = d] + 1]
                  ELSE T.shape[d]
  IN  Tabulate([d \in 1 .. Rank(T) |-> width(d)], T.den, LAMBDA i : Spread(T, i))
-----------------------------------------------------------------------------
(* Arithmetic.                                                             *)
(* The shapes are aligned at their last dimensions.                        *)
Raised(T, r) == [T EXCEPT !.shape = [d \in 1 .. r - Rank(T) |-> 1] \o @]
Common(S, T) ==
  LET r == Bigger(Rank(S), Rank(T))
  IN  [d \in 1 .. r |-> Bigger(Raised(S, r).shape[d], Raised(T, r).shape[d])]
Fitted(T, i) == Spread(Raised(T, Len(i)), i)

broadcast_mul(S, T) ==
  Tabulate(Common(S, T), S.den * T.den, LAMBDA i : Fitted(S, i) * Fitted(T, i))
broadcast_add(S, T) ==
  Tabulate(Common(S, T), S.den * T.den,
           LAMBDA i : Fitted(S, i) * T.den + Fitted(T, i) * S.den)
Scaled(T, num, den) == Tabulate(T.shape, T.den * den, LAMBDA i : Elem(T, i) * num)
clamp(T, lo, hi) ==
  Tabulate(T.shape, T.den, LAMBDA i :
    LET e == Elem(T, i) IN IF e > hi * T.den THEN hi * T.den ELSE Bigger(e, lo * T.den))
relu(T) == Tabulate(T.shape, T.den, LAMBDA i : Bigger(Elem(T, i), 0))
broadcast_max(S, T) ==
  Tabulate(Common(S, T), S.den * T.den, LAMBDA i : Bigger(Fitted(S, i) * T.den, Fitted(T, i) * S.den))
broadcast_greater(S, T) ==
  Tabulate(Common(S, T), 1, LAMBDA i : IF Fitted(S, i) * T.den > Fitted(T, i) * S.den THEN 1 ELSE 0)

(* Rows of T by the integers of I; an index out of range is clamped.       *)
take(T, I) ==
  LET row(i) == clamp(I, 0, T.shape[1] - 1).data[Ravel(I.shape, SubSeq(i, 1, Rank(I)))]
  IN  Tabulate(I.shape \o Tail(T.shape), T.den,
               LAMBDA i : Elem(T, <<row(i)>> \o SubSeq(i, Rank(I) + 1, Len(i))))

(* The start of T, as far as W goes along the axes (all, if none is named).*)
slice_like(T, W, axes) ==
  LET cut(d) == axes = {} \/ d - 1 \in axes
  IN  slice(T, [d \in 1 .. Rank(T) |-> 0],
               [d \in 1 .. Rank(T) |-> IF cut(d) THEN W.shape[d] ELSE T.shape[d]])

upsampling(T, scale) == repeat(repeat(T, 2, scale), 3, scale)

(* The shifts of the runtime: arithmetic, with a bit kept for rounding.    *)
right_shift(T, bits) ==
  Tabulate(T.shape, 1, LAMBDA i : ((Elem(T, i) \div 2^(bits - 1)) + 1) \div 2)
left_shift(T, bits) == Scaled(T, 2^bits, 1)

(* axes is a set; the reduced dimensions stay, with extent one, or go.     *)
(* Of(S) is the result for the elements at the positions S.                *)
ReduceOver(T, axes, keepdims, den, Of(_)) ==
  LET kept == {d \in 1 .. Rank(T) : d - 1 \notin axes}
      ones == [d \in 1 .. Rank(T) |-> IF d \in kept THEN T.shape[d] ELSE 1]
      under(i, k) == \A d \in kept : Unravel(T.shape, k)[d] = i[d]
      all == Tabulate(ones, den, LAMBDA i : Of({k \in DOMAIN T.data : under(i, k)}))
      order == ToSeqOf(kept)
  IN  IF keepdims THEN all ELSE reshape(all, [n \in DOMAIN order |-> T.shape[order[n]]])

reduce_sum(T, axes, keepdims) ==
  ReduceOver(T, axes, keepdims, T.den, LAMBDA S :
    SumTo([k \in DOMAIN T.data |-> IF k \in S THEN T.data[k] ELSE 0], Size(T.shape)))

Largest(S) == CHOOSE v \in S : \A w \in S : w <= v
reduce_max(T, axes, keepdims) ==
  ReduceOver(T, axes, keepdims, T.den, LAMBDA S : Largest({T.data[k] : k \in S}))

(* The first position of the largest element along an axis.                *)
argmax(T, axis, keepdims) ==
  ReduceOver(T, {axis}, keepdims, 1, LAMBDA S :
    LET best == Largest({T.data[k] : k \in S})
        first == CHOOSE k \in S : T.data[k] = best /\ \A l \in S : T.data[l] = best => k <= l
    IN  Unravel(T.shape, first)[axis + 1])

Count(T, axes) == Size([d \in 1 .. Rank(T) |-> IF d - 1 \in axes THEN T.shape[d] ELSE 1])
mean(T, axes, keepdims) == Scaled(reduce_sum(T, axes, keepdims), 1, Count(T, axes))

(* The last dimension of X, or all but the first, against the rows of W.   *)
FullyConnected(X, W, b, flat) ==
  LET Y == IF flat THEN flatten(X) ELSE X
      n == W.shape[2]
      lead == SubSeq(Y.shape, 1, Rank(Y) - 1)
      dot(i) == SumTo([c \in 0 .. n - 1 |->
                  Elem(Y, [i EXCEPT ![Len(i)] = c]) * Elem(W, <<i[Len(i)], c>>)], n)
      prod == Tabulate(Append(lead, W.shape[1]), Y.den * W.den, dot)
      bias(B) == reshape(B, [d \in 1 .. Rank(Y) |-> IF d = Rank(Y) THEN -1 ELSE 1])
  IN  IF b = <<>> THEN prod ELSE broadcast_add(prod, bias(b[1]))

batch_dot(A, B, ta, tb) ==
  LET X == IF ta THEN transpose(A, <<0, 2, 1>>) ELSE A
      Y == IF tb THEN transpose(B, <<0, 2, 1>>) ELSE B
      n == X.shape[3]
  IN  Tabulate(<<X.shape[1], X.shape[2], Y.shape[3]>>, X.den * Y.den, LAMBDA i :
        SumTo([c \in 0 .. n - 1 |-> Elem(X, <<i[1], i[2], c>>) * Elem(Y, <<i[1], c, i[3]>>)], n))

(* NCHW; zero padding; W holds, per filter, the channels of its group.     *)
Convolution(X, W, b, stride, pad, dilate, groups) ==
  LET K == <<W.shape[3], W.shape[4]>>
      out(d) == ((X.shape[d + 2] + 2 * pad[d] - (K[d] - 1) * dilate[d] - 1) \div stride[d]) + 1
      per == W.shape[2]
      pixel(n, c, y, x) == IF y \in 0 .. X.shape[3] - 1 /\ x \in 0 .. X.shape[4] - 1
                           THEN Elem(X, <<n, c, y, x>>) ELSE 0
      tap(i, k) ==
        LET u == Unravel(<<per, K[1], K[2]>>, k)
            group == i[2] \div (W.shape[1] \div groups)
        IN  pixel(i[1], group * per + u[1], i[3] * stride[1] + u[2] * dilate[1] - pad[1],
                  i[4] * stride[2] + u[3] * dilate[2] - pad[2]) * Elem(W, <<i[2], u[1], u[2], u[3]>>)
      taps == per * K[1] * K[2]
      prod == Tabulate(<<X.shape[1], W.shape[1], out(1), out(2)>>, X.den * W.den,
                LAMBDA i : SumTo([k \in 0 .. taps - 1 |-> tap(i, k)], taps))
  IN  IF b = <<>> THEN prod ELSE broadcast_add(prod, reshape(b[1], <<1, -1, 1, 1>>))

(* Windows of a plane; "full" rounds their number up.                      *)
Windows(X, d, kernel, stride, pad, convention) ==
  LET over == X.shape[d + 2] + 2 * pad[d] - kernel[d]
  IN  (IF convention = "full" THEN (over + stride[d] - 1) \div stride[d] ELSE over \div stride[d]) + 1

(* The maximum over windows, of what lies in the plane.                    *)
max_pool(X, kernel, stride, pad, convention) ==
  LET out(d) == Windows(X, d, kernel, stride, pad, convention)
      span(d, o) == {k \in 0 .. X.shape[d + 2] - 1 :
                       k - o * stride[d] + pad[d] \in 0 .. kernel[d] - 1}
  IN  Tabulate(<<X.shape[1], X.shape[2], out(1), out(2)>>, X.den, LAMBDA i :
        Largest({Elem(X, <<i[1], i[2], y, x>>) : y \in span(1, i[3]), x \in span(2, i[4])}))

(* Average over windows, padding included.                                 *)
avg_pool(X, kernel, stride, pad, convention) ==
  LET out(d) == Windows(X, d, kernel, stride, pad, convention)
      end(d, o) == LET e == o * stride[d] - pad[d] + kernel[d] IN
                   IF e < X.shape[d + 2] + pad[d] THEN e ELSE X.shape[d + 2] + pad[d]
      count(i) == (end(1, i[3]) - i[3] * stride[1] + pad[1]) * (end(2, i[4]) - i[4] * stride[2] + pad[2])
      n == kernel[1] * kernel[2]
      seen(i, k) == LET y == i[3] * stride[1] - pad[1] + (k \div kernel[2])
                        x == i[4] * stride[2] - pad[2] + (k % kernel[2])
                    IN  IF y \in 0 .. X.shape[3] - 1 /\ x \in 0 .. X.shape[4] - 1
                        THEN Elem(X, <<i[1], i[2], y, x>>) ELSE 0
      whole == ProductTo([m \in 1 .. n |-> m], n)   \* a multiple of every count
  IN  Tabulate(<<X.shape[1], X.shape[2], out(1), out(2)>>, X.den * whole,
        LAMBDA i : (whole \div count(i)) * SumTo([k \in 0 .. n - 1 |-> seen(i, k)], n))

(* variance is a square here, and epsilon part of it.                      *)
Root(n) == CHOOSE r \in 0 .. 20 : r * r = n
Along(V, T, axis) == reshape(V, [d \in 1 .. Rank(T) |-> IF d = axis + 1 THEN -1 ELSE 1])
Deviation(V) == [V EXCEPT !.data = [k \in DOMAIN V.data |-> Root(V.data[k])]]
Reciprocal(V) ==
  LET whole == ProductTo([k \in 1 .. Size(V.shape) |-> V.data[k - 1]], Size(V.shape))
  IN  Tensor(V.shape, whole, [k \in DOMAIN V.data |-> whole \div V.data[k]])
BatchNorm(X, gamma, beta, mu, variance, axis) ==
  broadcast_add(
    broadcast_mul(broadcast_add(X, Along(Scaled(mu, -1, 1), X, axis)),
                  Along(broadcast_mul(gamma, Reciprocal(Deviation(variance))), X, axis)),
    Along(beta, X, axis))

(* To the nearest integer, halves away from zero.                          *)
RoundNear(n, den) ==
  IF n >= 0 THEN (2 * n + den) \div (2 * den) ELSE -((-2 * n + den) \div (2 * den))
=============================================================================
