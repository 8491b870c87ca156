------------------------ MODULE YamrtQuantizeProofs ------------------------
(***************************************************************************)
(* Proofs about the calibration of the ONNX quantiser: for any model, any  *)
(* samples and any way to split them over data readers, the ranges hold    *)
(* every element of every calibrated tensor that was read.                 *)
(***************************************************************************)
EXTENDS YamrtQuantize, SequenceTheorems, WellFoundedInduction, TLAPS

-----------------------------------------------------------------------------
(* Numbers.                                                                *)

(* Every set of numbers has a least one.                                   *)
LEMMA LeastNumber ==
  ASSUME NEW T, T \subseteq Nat, T # {}
  PROVE  \E m \in T : \A k \in T : m <= k
<1> DEFINE R == {p \in Nat \X Nat : p[1] < p[2]}
<1>1. IsWellFoundedOn(R, Nat)
  BY NatLessThanWellFounded DEF OpToRel
<1>2. \E x \in T : \A y \in T : ~ (<<y, x>> \in R)
  <2> HIDE DEF R
  <2> QED BY <1>1, WFMin
<1>3. PICK x \in T : \A y \in T : ~ (<<y, x>> \in R)
  BY <1>2
<1>4. ASSUME NEW y \in T PROVE x <= y
  <2>1. <<y, x>> \in Nat \X Nat /\ ~(<<y, x>> \in R)
    BY <1>3
  <2> QED BY <2>1
<1> QED BY <1>4

(* What holds of zero and is passed on up to N holds up to N.              *)
LEMMA NumbersUpTo ==
  ASSUME NEW N \in Nat, NEW P, 0 \in P, \A m \in 0 .. N - 1 : m \in P => m + 1 \in P
  PROVE  0 .. N \subseteq P
<1>1. SUFFICES ASSUME (0 .. N) \ P # {} PROVE FALSE
  OBVIOUS
<1>2. PICK m \in (0 .. N) \ P : \A k \in (0 .. N) \ P : m <= k
  <2> DEFINE T == (0 .. N) \ P
  <2>1. T \subseteq Nat /\ T # {}
    BY <1>1
  <2> HIDE DEF T
  <2>2. \E m \in T : \A k \in T : m <= k
    BY <2>1, LeastNumber
  <2> QED BY <2>2 DEF T
<1>3. m # 0 /\ m - 1 \in 0 .. N - 1
  BY <1>2
<1>4. m - 1 \in P
  BY <1>2, <1>3
<1> QED BY <1>3, <1>4

Intervals == Int \X Int

(* a sequence of integers has a least and a greatest element.              *)
LEMMA Extremal ==
  ASSUME NEW v \in Seq(Int), v # <<>>
  PROVE  /\ Least(ToSet(v)) \in Int /\ Greatest(ToSet(v)) \in Int
         /\ \A e \in ToSet(v) : Least(ToSet(v)) <= e /\ e <= Greatest(ToSet(v))
<1> DEFINE P == {m \in 0 .. Len(v) : m # 0 =>
                   \E i, j \in 1 .. m : \A k \in 1 .. m : v[i] <= v[k] /\ v[k] <= v[j]}
<1>1. Len(v) \in Nat /\ Len(v) # 0 /\ DOMAIN v = 1 .. Len(v) /\ \A i \in 1 .. Len(v) : v[i] \in Int
  OBVIOUS
<1>2. ASSUME NEW m \in 0 .. Len(v) - 1, m \in P PROVE m + 1 \in P
  <2>1. m + 1 \in 1 .. Len(v) /\ m + 1 # 0
    BY <1>1
  <2>2. CASE m = 0
    <3>1. \A k \in 1 .. m + 1 : k = 1
      BY <2>2
    <3>2. v[1] \in Int /\ 1 \in 1 .. m + 1
      BY <1>1, <2>1, <2>2
    <3>3. \A k \in 1 .. m + 1 : v[1] <= v[k] /\ v[k] <= v[1]
      BY <3>1, <3>2
    <3> QED BY <2>1, <3>2, <3>3
  <2>3. CASE m # 0
    <3>1. PICK i \in 1 .. m, j \in 1 .. m : \A k \in 1 .. m : v[i] <= v[k] /\ v[k] <= v[j]
      BY <1>2, <2>3
    <3> DEFINE a == IF v[m + 1] < v[i] THEN m + 1 ELSE i
               b == IF v[j] < v[m + 1] THEN m + 1 ELSE j
    <3>2. \A k \in 1 .. m + 1 : k \in 1 .. m \/ k = m + 1
      BY <2>1
    <3>3. a \in 1 .. m + 1 /\ b \in 1 .. m + 1
      BY <2>1
    <3>4. v[i] \in Int /\ v[j] \in Int /\ v[m + 1] \in Int /\ \A k \in 1 .. m : v[k] \in Int
      BY <1>1, <2>1
    <3>5. v[i] <= v[j]
      BY <3>1
    <3>6. \A k \in 1 .. m + 1 : v[a] <= v[k] /\ v[k] <= v[b]
      <4>1. v[a] \in Int /\ v[a] <= v[i] /\ v[a] <= v[m + 1]
        BY <3>4
      <4>2. v[b] \in Int /\ v[j] <= v[b] /\ v[m + 1] <= v[b]
        BY <3>4
      <4> HIDE DEF a, b
      <4>3. ASSUME NEW k \in 1 .. m PROVE v[a] <= v[k] /\ v[k] <= v[b]
        <5>1. v[i] <= v[k] /\ v[k] <= v[j] /\ v[k] \in Int
          BY <3>1, <3>4
        <5>2. \A lo, mid, hi \in Int : lo <= mid /\ mid <= hi => lo <= hi
          OBVIOUS
        <5>3. v[i] \in Int /\ v[j] \in Int
          BY <3>4
        <5> QED BY <4>1, <4>2, <5>1, <5>2, <5>3
      <4> QED BY <3>2, <4>1, <4>2, <4>3
    <3>7. \E c, d \in 1 .. m + 1 : \A k \in 1 .. m + 1 : v[c] <= v[k] /\ v[k] <= v[d]
      <4> HIDE DEF a, b
      <4> QED BY <3>3, <3>6
    <3>8. m + 1 \in 0 .. Len(v)
      BY <2>1
    <3> QED BY <3>7, <3>8
  <2> QED BY <2>2, <2>3
<1>3. 0 .. Len(v) \subseteq P
  <2>1. 0 \in P
    BY <1>1
  <2> HIDE DEF P
  <2> QED BY <1>1, <1>2, <2>1, NumbersUpTo
<1>4. PICK i \in 1 .. Len(v), j \in 1 .. Len(v) : \A k \in 1 .. Len(v) : v[i] <= v[k] /\ v[k] <= v[j]
  <2>1. Len(v) \in P
    <3> HIDE DEF P
    <3> QED BY <1>1, <1>3
  <2> QED BY <1>1, <2>1
<1> DEFINE S == ToSet(v)
<1>5. v[i] \in S /\ v[j] \in S /\ S \subseteq Int /\ \A e \in S : v[i] <= e /\ e <= v[j]
  BY <1>1, <1>4 DEF ToSet
<1> HIDE DEF S, P
<1>6. Least(S) \in S /\ \A e \in S : Least(S) <= e
  BY <1>5 DEF Least
<1>7. Greatest(S) \in S /\ \A e \in S : Greatest(S) >= e
  BY <1>5 DEF Greatest
<1>8. \A e \in S : Least(S) <= e /\ e <= Greatest(S)
  BY <1>5, <1>6, <1>7
<1> QED BY <1>5, <1>6, <1>7, <1>8 DEF S

Within(a, b) == b[1] <= a[1] /\ a[2] <= b[2]

(* The hull of two ranges holds both.                                      *)
LEMMA HullHolds ==
  ASSUME NEW a \in Intervals, NEW b \in Intervals
  PROVE  Hull(a, b) \in Intervals /\ Within(a, Hull(a, b)) /\ Within(b, Hull(a, b))
<1>1. ASSUME NEW x \in Int, NEW y \in Int
      PROVE  Least({x, y}) \in Int /\ Least({x, y}) <= x /\ Least({x, y}) <= y
  <2>1. \E m \in {x, y} : \A k \in {x, y} : m <= k
    OBVIOUS
  <2> QED BY <2>1 DEF Least
<1>2. ASSUME NEW x \in Int, NEW y \in Int
      PROVE  Greatest({x, y}) \in Int /\ x <= Greatest({x, y}) /\ y <= Greatest({x, y})
  <2>1. \E m \in {x, y} : \A k \in {x, y} : m >= k
    OBVIOUS
  <2>2. Greatest({x, y}) \in {x, y} /\ \A k \in {x, y} : Greatest({x, y}) >= k
    BY <2>1 DEF Greatest
  <2> QED BY <2>2
<1>3. a[1] \in Int /\ a[2] \in Int /\ b[1] \in Int /\ b[2] \in Int
  BY DEF Intervals
<1> QED BY <1>1, <1>2, <1>3 DEF Hull, Intervals, Within

LEMMA WithinInTurn ==
  ASSUME NEW a \in Intervals, NEW b \in Intervals, NEW c \in Intervals, Within(a, b), Within(b, c)
  PROVE  Within(a, c)
BY DEF Intervals, Within
-----------------------------------------------------------------------------
(* The calibration.                                                        *)

(* The range of tensor n over several runs holds that of each run.         *)
Folded(runs, n) == Fold(LAMBDA r, e : Hull(r, e[n]), runs[1][n], runs)

LEMMA RunsFolded ==
  ASSUME NEW runs, NEW n, Len(runs) \in Nat \ {0},
         \A i \in 1 .. Len(runs) : runs[i][n] \in Intervals
  PROVE  /\ Folded(runs, n) \in Intervals
         /\ \A i \in 1 .. Len(runs) : Within(runs[i][n], Folded(runs, n))
<1> DEFINE N == Len(runs)
           Step(f, m) == [i \in 0 .. m |-> IF i = 0 THEN runs[1][n]
                            ELSE CHOOSE r \in {Hull(a, runs[i][n]) : a \in {f[i - 1]}} : TRUE]
           Known(m) == \E f : f = Step(f, m)
           h == CHOOSE f : f = Step(f, N)
<1>1. \A a, b : (CHOOSE r \in {Hull(x, b) : x \in {a}} : TRUE) = Hull(a, b)
  OBVIOUS
<1>2. ASSUME NEW m \in 0 .. N - 1, Known(m) PROVE Known(m + 1)
  <2>1. PICK f : f = Step(f, m)
    BY <1>2
  <2> DEFINE w == [i \in 0 .. m + 1 |-> IF i = m + 1 THEN Hull(f[m], runs[m + 1][n]) ELSE f[i]]
  <2>2. m \in Nat /\ m + 1 \in 0 .. m + 1 /\ m + 1 # 0
    OBVIOUS
  <2>3. \A i \in 0 .. m : w[i] = f[i]
    BY <2>2
  <2>4. ASSUME NEW i \in 0 .. m + 1 PROVE w[i] = Step(w, m + 1)[i]
    <3>1. CASE i = 0
      BY <2>1, <2>2, <2>3, <3>1
    <3>2. CASE i = m + 1
      <4>1. w[i - 1] = f[m]
        BY <2>2, <2>3, <3>2
      <4>2. Step(w, m + 1)[i] = Hull(w[i - 1], runs[i][n])
        BY <1>1, <2>2, <3>2
      <4>3. w[i] = Hull(f[m], runs[m + 1][n])
        BY <2>2, <3>2
      <4> QED BY <3>2, <4>1, <4>2, <4>3
    <3>3. CASE i # 0 /\ i # m + 1
      <4>1. i \in 0 .. m /\ i - 1 \in 0 .. m
        BY <3>3
      <4>2. w[i] = f[i] /\ w[i - 1] = f[i - 1]
        BY <2>3, <4>1
      <4>3. f[i] = Hull(f[i - 1], runs[i][n])
        BY <1>1, <2>1, <3>3, <4>1
      <4>4. Step(w, m + 1)[i] = Hull(w[i - 1], runs[i][n])
        BY <1>1, <3>3
      <4> HIDE DEF w, Step
      <4> QED BY <4>2, <4>3, <4>4
    <3> QED BY <3>1, <3>2, <3>3
  <2>5. w = Step(w, m + 1)
    BY <2>4
  <2> HIDE DEF w, Step
  <2> QED BY <2>5
<1>3. Known(N)
  <2> DEFINE P == {m \in 0 .. N : Known(m)}
  <2>1. 0 \in P
    <3>1. [i \in 0 .. 0 |-> runs[1][n]] = Step([i \in 0 .. 0 |-> runs[1][n]], 0)
      OBVIOUS
    <3>2. Known(0)
      <4> HIDE DEF Step
      <4> QED BY <3>1
    <3> HIDE DEF Known
    <3> QED BY <3>2
  <2>2. \A m \in 0 .. N - 1 : m \in P => m + 1 \in P
    <3> HIDE DEF Known
    <3> QED BY <1>2
  <2>3. 0 .. N \subseteq P
    <3> HIDE DEF P
    <3> QED BY <2>1, <2>2, NumbersUpTo
  <2>4. N \in P
    <3> HIDE DEF P
    <3> QED BY <2>3
  <2> HIDE DEF Known
  <2> QED BY <2>4
<1>4. h = Step(h, N)
  <2> HIDE DEF Step
  <2> QED BY <1>3
<1>5. Folded(runs, n) = h[N]
  BY DEF Fold, Folded
<1> HIDE DEF h
<1>6. h[0] = runs[1][n] /\ \A i \in 1 .. N : h[i] = Hull(h[i - 1], runs[i][n])
  BY <1>1, <1>4
<1> HIDE DEF Step, Known
<1>7. h[N] \in Intervals /\ \A i \in 1 .. N : Within(runs[i][n], h[N])
  <2> DEFINE P == {m \in 0 .. N : h[m] \in Intervals /\ \A i \in 1 .. m : Within(runs[i][n], h[m])}
  <2>1. 0 \in P
    BY <1>6
  <2>2. ASSUME NEW m \in 0 .. N - 1, m \in P PROVE m + 1 \in P
    <3>1. m + 1 \in 1 .. N /\ h[m] \in Intervals /\ runs[m + 1][n] \in Intervals
      BY <2>2
    <3>2. h[m + 1] = Hull(h[m], runs[m + 1][n])
      BY <1>6, <3>1
    <3>3. h[m + 1] \in Intervals /\ Within(h[m], h[m + 1]) /\ Within(runs[m + 1][n], h[m + 1])
      BY <3>1, <3>2, HullHolds
    <3>4. ASSUME NEW i \in 1 .. m + 1 PROVE Within(runs[i][n], h[m + 1])
      <4>1. CASE i = m + 1
        BY <3>3, <4>1
      <4>2. CASE i # m + 1
        <5>1. i \in 1 .. m /\ i \in 1 .. N
          BY <4>2
        <5>2. Within(runs[i][n], h[m]) /\ runs[i][n] \in Intervals
          BY <2>2, <5>1
        <5> QED BY <3>1, <3>3, <5>2, WithinInTurn
      <4> QED BY <4>1, <4>2
    <3> QED BY <3>1, <3>3, <3>4
  <2>3. 0 .. N \subseteq P
    <3> HIDE DEF P
    <3> QED BY <2>1, <2>2, NumbersUpTo
  <2>4. N \in P
    <3> HIDE DEF P
    <3> QED BY <2>3
  <2> QED BY <2>4
<1> QED BY <1>5, <1>7

Selected == select_tensors_to_calibrate(Loaded(src), src.cfg.types)
Sample(k, i) == src.samples[src.readers[k][i]]

(* The least and greatest elements of a run hold the tensor they are of.   *)
Holds(k, i, n, r) ==
  \A e \in ToSet(Run(Loaded(src), Sample(k, i))[n].v) : r[1] <= e /\ e <= r[2]

LEMMA ExtremesHold ==
  ASSUME src \in Sources, src.api = "static",
         NEW k \in 1 .. Len(src.readers), NEW i \in 1 .. Len(src.readers[k])
  PROVE  LET run == Extremes(Loaded(src), src.cfg.types, Sample(k, i))
         IN  /\ run \in [Selected -> Intervals]
             /\ \A n \in Selected : \A r \in Intervals : Within(run[n], r) => Holds(k, i, n, r)
<1> DEFINE env == Run(Loaded(src), Sample(k, i))
           run == [n \in Selected |-> <<Least(ToSet(env[n].v)), Greatest(ToSet(env[n].v))>>]
<1>1. Extremes(Loaded(src), src.cfg.types, Sample(k, i)) = run
  BY DEF Extremes, On, Selected
<1>2. src.readers[k][i] \in DOMAIN src.samples
  <2>1. src.readers \in Seq(Seq(DOMAIN src.samples))
    BY SourcesAssumption
  <2> QED BY <2>1
<1>3. ASSUME NEW n \in Selected PROVE env[n].v \in Seq(Int) /\ env[n].v # <<>>
  BY <1>2, SourcesAssumption DEF Selected, Sample
<1> HIDE DEF env
<1>4. ASSUME NEW n \in Selected
      PROVE  /\ run[n] \in Intervals
             /\ \A e \in ToSet(env[n].v) : run[n][1] <= e /\ e <= run[n][2]
  <2>1. run[n] = <<Least(ToSet(env[n].v)), Greatest(ToSet(env[n].v))>>
    OBVIOUS
  <2> HIDE DEF run
  <2> QED BY <1>3, <2>1, Extremal DEF Intervals
<1>5. run \in [Selected -> Intervals]
  BY <1>4
<1> HIDE DEF run
<1>6. ASSUME NEW n \in Selected, NEW r \in Intervals, Within(run[n], r) PROVE Holds(k, i, n, r)
  <2>1. ASSUME NEW e \in ToSet(env[n].v) PROVE r[1] <= e /\ e <= r[2]
    <3>1. e \in Int
      BY <1>3, <2>1 DEF ToSet
    <3> QED BY <1>4, <1>6, <2>1, <3>1 DEF Within, Intervals
  <2> QED BY <2>1 DEF Holds, env
<1> QED BY <1>1, <1>5, <1>6

(* Pending are the runs of the reader being read.                          *)
PendingRead ==
  /\ pending \in Seq([Selected -> Intervals]) /\ Len(pending) = reader[2]
  /\ \A i \in 1 .. reader[2] :
       /\ reader[1] \in 1 .. Len(src.readers) /\ i \in 1 .. Len(src.readers[reader[1]])
       /\ pending[i] = Extremes(model, src.cfg.types, Sample(reader[1], i))

RangedAllOrNone == (reader[1] = 1 /\ ranges = <<>>) \/ DOMAIN ranges = Selected

RangesTyped == \A n \in DOMAIN ranges : n \in Selected /\ ranges[n] \in Intervals

RangesHoldRead ==
  \A k \in 1 .. reader[1] - 1 : \A i \in DOMAIN src.readers[k] :
    \A n \in DOMAIN ranges : Holds(k, i, n, ranges[n])

(* The inductive invariant: what the readers gave so far is in the ranges, *)
(* what the reader being read has given is pending, and as long as there   *)
(* is a reader left every calibrated tensor has a range or none has.       *)
CalibrationInv ==
  /\ src \in Sources
  /\ reader[1] \in Nat \ {0} /\ reader[2] \in Nat /\ reader = <<reader[1], reader[2]>>
  /\ stage = "load" => reader = <<1, 0>> /\ pending = <<>> /\ ranges = <<>>
  /\ stage # "load" => model = Loaded(src)
  /\ src.api # "static" => reader = <<1, 0>> /\ stage # "calibrate"
  /\ stage = "calibrate" => PendingRead /\ RangedAllOrNone
  /\ RangesTyped /\ RangesHoldRead

LEMMA InitCalibrates == ASSUME Init PROVE CalibrationInv
<1>1. reader[1] = 1 /\ reader[2] = 0 /\ DOMAIN ranges = {}
  BY DEF Init
<1>2. \A k \in 1 .. reader[1] - 1 : FALSE
  BY <1>1
<1> QED BY <1>1, <1>2 DEF Init, CalibrationInv, PendingRead, RangedAllOrNone, RangesTyped, RangesHoldRead

LEMMA LoadCalibrates == ASSUME CalibrationInv, Load PROVE CalibrationInv'
<1>1. /\ UNCHANGED <<src, reader, pending, ranges>> /\ reader = <<1, 0>> /\ ranges = <<>> /\ pending = <<>>
      /\ model' = Loaded(src) /\ stage' # "load" /\ (stage' = "calibrate" => src.api = "static")
  BY DEF CalibrationInv, PendingRead, RangedAllOrNone, RangesTyped, RangesHoldRead, Load
<1>2. <<>> \in Seq([Selected -> Intervals]) /\ Len(<<>>) = 0 /\ DOMAIN <<>> = {}
  OBVIOUS
<1>3. \A i \in 1 .. reader[2] : FALSE
  BY <1>1
<1>4. \A k \in 1 .. reader[1] - 1 : FALSE
  BY <1>1
<1> QED BY <1>1, <1>2, <1>3, <1>4 DEF CalibrationInv, PendingRead, RangedAllOrNone, RangesTyped, RangesHoldRead, Selected, Sample, Holds

(* Another sample of a reader is run.                                      *)
LEMMA GetNextCalibrates == ASSUME CalibrationInv, GetNext PROVE CalibrationInv'
<1> DEFINE k == reader[1]
           i == reader[2] + 1
           run == Extremes(model, src.cfg.types, Sample(k, i))
<1>1. /\ UNCHANGED <<src, model, ranges, stage>> /\ stage = "calibrate" /\ src.api = "static"
      /\ src \in Sources /\ model = Loaded(src)
      /\ k \in Nat \ {0} /\ reader[2] \in Nat /\ k <= Len(src.readers) /\ reader[2] < Len(src.readers[k])
      /\ pending' = Append(pending, run) /\ reader' = <<k, i>>
  <2>1. reader' = [reader EXCEPT ![2] = @ + 1] /\ reader = <<reader[1], reader[2]>>
    BY DEF CalibrationInv, PendingRead, RangedAllOrNone, RangesTyped, RangesHoldRead, GetNext
  <2>2. reader' = <<k, i>>
    BY <2>1
  <2>3. pending' = Append(pending, run)
    BY DEF GetNext, Sample
  <2> QED BY <2>2, <2>3 DEF CalibrationInv, PendingRead, RangedAllOrNone, RangesTyped, RangesHoldRead, GetNext
<1>2. k \in 1 .. Len(src.readers) /\ i \in 1 .. Len(src.readers[k])
  <2>1. src.readers \in Seq(Seq(DOMAIN src.samples))
    BY <1>1, SourcesAssumption
  <2>2. Len(src.readers) \in Nat /\ k \in 1 .. Len(src.readers)
    BY <1>1, <2>1
  <2>3. Len(src.readers[k]) \in Nat
    BY <2>1, <2>2
  <2> QED BY <1>1, <2>2, <2>3
<1>3. run \in [Selected -> Intervals]
  BY <1>1, <1>2, ExtremesHold
<1>4. pending \in Seq([Selected -> Intervals]) /\ Len(pending) = reader[2]
  BY <1>1 DEF CalibrationInv, PendingRead, RangedAllOrNone, RangesTyped, RangesHoldRead
<1> HIDE DEF run
<1>5. /\ pending' \in Seq([Selected -> Intervals]) /\ Len(pending') = i
      /\ pending'[i] = run /\ \A j \in 1 .. reader[2] : pending'[j] = pending[j]
  BY <1>1, <1>3, <1>4
<1>6. ASSUME NEW j \in 1 .. i
      PROVE  /\ k \in 1 .. Len(src.readers) /\ j \in 1 .. Len(src.readers[k])
             /\ pending'[j] = Extremes(model, src.cfg.types, Sample(k, j))
  <2>1. CASE j = i
    BY <1>2, <1>5, <2>1 DEF run
  <2>2. CASE j # i
    <3>1. j \in 1 .. reader[2]
      BY <1>1, <2>2
    <3> QED BY <1>1, <1>5, <3>1 DEF CalibrationInv, PendingRead, RangedAllOrNone, RangesTyped, RangesHoldRead
  <2> QED BY <2>1, <2>2
<1>7. reader'[1] = k /\ reader'[2] = i /\ i \in Nat
  BY <1>1
<1>8. PendingRead'
  <2>1. Selected' = Selected
    BY <1>1 DEF Selected
  <2>2. pending' \in Seq([Selected' -> Intervals]) /\ Len(pending') = reader'[2]
    BY <1>5, <1>7, <2>1
  <2>3. ASSUME NEW j \in 1 .. reader'[2]
        PROVE  /\ reader'[1] \in 1 .. Len(src'.readers)
               /\ j \in 1 .. Len(src'.readers[reader'[1]])
               /\ pending'[j] = Extremes(model', src'.cfg.types,
                                        src'.samples[src'.readers[reader'[1]][j]])
    BY <1>1, <1>6, <1>7 DEF Sample
  <2> QED BY <2>2, <2>3 DEF PendingRead, Sample
<1>9. RangedAllOrNone' /\ RangesTyped'
  BY <1>1, <1>7 DEF CalibrationInv, RangedAllOrNone, RangesTyped, Selected
<1>10. RangesHoldRead'
  <2>1. reader'[1] - 1 = k - 1 /\ src' = src /\ ranges' = ranges
    BY <1>1, <1>7
  <2>2. RangesHoldRead
    BY DEF CalibrationInv
  <2> QED BY <2>1, <2>2 DEF RangesHoldRead, Holds, Sample
<1> QED BY <1>1, <1>7, <1>8, <1>9, <1>10 DEF CalibrationInv

(* The ranges of a reader hold its runs, and what the ranges before held.  *)
LEMMA RangesComputed ==
  ASSUME NEW old, NEW runs \in Seq([Selected -> Intervals]), runs # <<>>,
         old = <<>> \/ (DOMAIN old = Selected /\ \A n \in Selected : old[n] \in Intervals)
  PROVE  LET new == compute_range(old, runs)
         IN  /\ DOMAIN new = Selected
             /\ \A n \in Selected :
                  /\ new[n] \in Intervals
                  /\ \A j \in 1 .. Len(runs) : Within(runs[j][n], new[n])
                  /\ n \in DOMAIN old => Within(old[n], new[n])
<1> DEFINE fresh == [n \in DOMAIN runs[1] |-> Folded(runs, n)]
           new == compute_range(old, runs)
<1>1. Len(runs) \in Nat \ {0} /\ \A j \in 1 .. Len(runs) : runs[j] \in [Selected -> Intervals]
  OBVIOUS
<1>2. DOMAIN runs[1] = Selected
  BY <1>1
<1>3. ASSUME NEW n \in Selected
      PROVE  fresh[n] \in Intervals /\ \A j \in 1 .. Len(runs) : Within(runs[j][n], fresh[n])
  <2>1. fresh[n] = Folded(runs, n)
    BY <1>2
  <2>2. \A j \in 1 .. Len(runs) : runs[j][n] \in Intervals
    BY <1>1
  <2> HIDE DEF fresh
  <2> QED BY <1>1, <2>1, <2>2, RunsFolded
<1>4. DOMAIN fresh = Selected
  BY <1>2
<1>5. new = IF old = <<>> THEN fresh ELSE merge_range(old, fresh)
  BY DEF compute_range, Folded
<1> HIDE DEF fresh, new
<1>6. CASE old = <<>>
  <2>1. \A n \in Selected : n \notin DOMAIN old
    BY <1>6
  <2> QED BY <1>3, <1>4, <1>5, <1>6, <2>1 DEF new
<1>7. CASE old # <<>>
  <2>1. new = [n \in Selected |-> Hull(old[n], fresh[n])]
    BY <1>4, <1>5, <1>7 DEF merge_range
  <2>2. ASSUME NEW n \in Selected
        PROVE  /\ new[n] \in Intervals /\ Within(old[n], new[n])
               /\ \A j \in 1 .. Len(runs) : Within(runs[j][n], new[n])
    <3>1. new[n] = Hull(old[n], fresh[n]) /\ old[n] \in Intervals /\ fresh[n] \in Intervals
      BY <1>3, <1>7, <2>1
    <3>2. new[n] \in Intervals /\ Within(old[n], new[n]) /\ Within(fresh[n], new[n])
      BY <3>1, HullHolds
    <3>3. ASSUME NEW j \in 1 .. Len(runs) PROVE Within(runs[j][n], new[n])
      <4>1. runs[j][n] \in Intervals /\ Within(runs[j][n], fresh[n])
        BY <1>1, <1>3
      <4> QED BY <3>1, <3>2, <4>1, WithinInTurn
    <3> QED BY <3>2, <3>3
  <2> QED BY <2>1, <2>2 DEF new
<1> QED BY <1>6, <1>7 DEF new

(* A range that holds another holds what that one holds.                   *)
LEMMA HoldsMore ==
  ASSUME src \in Sources, src.api = "static",
         NEW k \in 1 .. Len(src.readers), NEW i \in 1 .. Len(src.readers[k]), NEW n \in Selected,
         NEW a \in Intervals, NEW b \in Intervals, Within(a, b), Holds(k, i, n, a)
  PROVE  Holds(k, i, n, b)
<1> DEFINE v == Run(Loaded(src), Sample(k, i))[n].v
<1>1. src.readers[k][i] \in DOMAIN src.samples
  <2>1. src.readers \in Seq(Seq(DOMAIN src.samples))
    BY SourcesAssumption
  <2> QED BY <2>1
<1>2. v \in Seq(Int)
  BY <1>1, SourcesAssumption DEF Selected, Sample
<1>3. ASSUME NEW e \in ToSet(v) PROVE b[1] <= e /\ e <= b[2]
  <2>1. e \in Int
    BY <1>2 DEF ToSet
  <2>2. a[1] <= e /\ e <= a[2]
    BY <1>3 DEF Holds
  <2> HIDE DEF v
  <2> QED BY <2>1, <2>2 DEF Within, Intervals
<1> QED BY <1>3 DEF Holds

(* A reader is at its end.                                                 *)
LEMMA EndOfDataCalibrates == ASSUME CalibrationInv, EndOfData PROVE CalibrationInv'
<1> DEFINE k == reader[1]
<1>1. /\ UNCHANGED <<src, model>> /\ stage = "calibrate" /\ src.api = "static"
      /\ src \in Sources /\ model = Loaded(src)
      /\ k \in Nat \ {0} /\ k <= Len(src.readers) /\ reader[2] = Len(src.readers[k])
      /\ pending' = <<>> /\ reader' = <<k + 1, 0>>
  BY DEF CalibrationInv, PendingRead, RangedAllOrNone, RangesTyped, RangesHoldRead, EndOfData
<1>2. reader'[1] = k + 1 /\ reader'[2] = 0 /\ k + 1 \in Nat \ {0} /\ k + 1 # 1
  BY <1>1
<1>3. src.readers \in Seq(Seq(DOMAIN src.samples))
  BY <1>1, SourcesAssumption
<1>4. k \in 1 .. Len(src.readers) /\ Len(src.readers) \in Nat
  BY <1>1, <1>3
<1>5. \A l \in 1 .. k : l \in 1 .. Len(src.readers) /\ DOMAIN src.readers[l] = 1 .. Len(src.readers[l])
  BY <1>1, <1>3, <1>4
<1>6. /\ pending \in Seq([Selected -> Intervals]) /\ Len(pending) = Len(src.readers[k])
      /\ \A i \in 1 .. Len(src.readers[k]) : pending[i] = Extremes(Loaded(src), src.cfg.types, Sample(k, i))
  BY <1>1 DEF CalibrationInv, PendingRead, RangedAllOrNone, RangesTyped, RangesHoldRead
<1>7. /\ \A n \in DOMAIN ranges : n \in Selected /\ ranges[n] \in Intervals
      /\ \A l \in 1 .. k - 1 : \A i \in DOMAIN src.readers[l] :
           \A n \in DOMAIN ranges : Holds(l, i, n, ranges[n])
      /\ (k = 1 /\ ranges = <<>>) \/ DOMAIN ranges = Selected
  BY <1>1 DEF CalibrationInv, PendingRead, RangedAllOrNone, RangesTyped, RangesHoldRead
<1>8. \A i \in 1 .. reader'[2] : FALSE
  BY <1>2
<1>9. /\ stage' # "load" /\ src' = src /\ src'.api = "static" /\ model' = Loaded(src')
      /\ pending' \in Seq([Selected -> Intervals]) /\ Len(pending') = 0
  BY <1>1 DEF EndOfData
<1>10. CASE pending = <<>>
  <2>1. UNCHANGED ranges /\ stage' = "raised"
    BY <1>10 DEF EndOfData
  <2>2. DOMAIN src.readers[k] = {}
    BY <1>4, <1>5, <1>6, <1>10
  <2>3. ASSUME NEW l \in 1 .. k, NEW i \in DOMAIN src.readers[l], NEW n \in DOMAIN ranges
        PROVE  Holds(l, i, n, ranges[n])
    BY <1>1, <1>7, <2>2
  <2>4. RangesTyped'
    BY <1>1, <1>7, <2>1 DEF RangesTyped, Selected
  <2>5. RangesHoldRead'
    <3>1. reader'[1] - 1 = k /\ src' = src /\ ranges' = ranges
      BY <1>1, <1>2, <2>1
    <3> QED BY <2>3, <3>1 DEF RangesHoldRead, Holds, Sample
  <2> QED BY <1>1, <1>2, <1>9, <2>1, <2>4, <2>5 DEF CalibrationInv
<1>11. CASE pending # <<>>
  <2>1. ranges' = compute_range(ranges, pending) /\ UNCHANGED stage
    BY <1>11 DEF EndOfData
  <2>2. ranges = <<>> \/ (DOMAIN ranges = Selected /\ \A n \in Selected : ranges[n] \in Intervals)
    BY <1>7
  <2>3. /\ DOMAIN ranges' = Selected
        /\ \A n \in Selected :
             /\ ranges'[n] \in Intervals
             /\ \A j \in 1 .. Len(pending) : Within(pending[j][n], ranges'[n])
             /\ n \in DOMAIN ranges => Within(ranges[n], ranges'[n])
    BY <1>6, <1>11, <2>1, <2>2, RangesComputed
  <2>4. ASSUME NEW l \in 1 .. k, NEW i \in DOMAIN src.readers[l], NEW n \in Selected
        PROVE  Holds(l, i, n, ranges'[n])
    <3>1. l \in 1 .. Len(src.readers) /\ i \in 1 .. Len(src.readers[l])
      BY <1>5
    <3>2. CASE l = k
      <4>1. i \in 1 .. Len(pending) /\ pending[i] = Extremes(Loaded(src), src.cfg.types, Sample(l, i))
        BY <1>6, <3>1, <3>2
      <4>2. Within(pending[i][n], ranges'[n]) /\ ranges'[n] \in Intervals
        BY <2>3, <4>1
      <4> QED BY <1>1, <3>1, <4>1, <4>2, ExtremesHold
    <3>3. CASE l # k
      <4>1. l \in 1 .. k - 1 /\ k # 1
        BY <1>1, <3>3
      <4>2. n \in DOMAIN ranges /\ ranges[n] \in Intervals /\ Holds(l, i, n, ranges[n])
        BY <1>7, <4>1
      <4>3. ranges'[n] \in Intervals /\ Within(ranges[n], ranges'[n])
        BY <2>3, <4>2
      <4> QED BY <1>1, <3>1, <4>2, <4>3, HoldsMore
    <3> QED BY <3>2, <3>3
  <2>5. PendingRead'
    BY <1>1, <1>2, <1>8, <1>9 DEF PendingRead, Selected
  <2>6. RangedAllOrNone' /\ RangesTyped'
    BY <1>1, <2>3 DEF RangedAllOrNone, RangesTyped, Selected
  <2>7. RangesHoldRead'
    <3>1. reader'[1] - 1 = k /\ src' = src /\ DOMAIN ranges' = Selected
      BY <1>1, <1>2, <2>3
    <3> QED BY <2>4, <3>1 DEF RangesHoldRead, Holds, Sample
  <2> QED BY <1>1, <1>2, <1>9, <2>1, <2>5, <2>6, <2>7 DEF CalibrationInv
<1> QED BY <1>10, <1>11

LEMMA HeldStays ==
  ASSUME RangesHoldRead, UNCHANGED <<src, reader, ranges>>
  PROVE  RangesHoldRead'
<1>1. src' = src /\ reader' = reader /\ ranges' = ranges
  OBVIOUS
<1> QED BY Zenon, <1>1 DEF RangesHoldRead, Holds, Sample

(* Nothing after the calibration touches its variables.                    *)
LEMMA AfterCalibration ==
  ASSUME CalibrationInv, UNCHANGED <<src, model, reader, ranges>>,
         stage # "load", stage' \notin {"load", "calibrate"}
  PROVE  CalibrationInv'
<1>1. RangesTyped'
  BY DEF CalibrationInv, RangesTyped, Selected
<1>2. RangesHoldRead'
  BY HeldStays DEF CalibrationInv
<1> QED BY <1>1, <1>2 DEF CalibrationInv

LEMMA Stutter == ASSUME CalibrationInv, UNCHANGED vars PROVE CalibrationInv'
<1>1. UNCHANGED <<src, model, stage, reader, pending, ranges>>
  BY DEF vars
<1>2. PendingRead => PendingRead'
  <2>1. Selected' = Selected
    BY <1>1 DEF Selected
  <2> QED BY <1>1, <2>1 DEF PendingRead, Sample
<1>3. RangedAllOrNone => RangedAllOrNone'
  BY <1>1 DEF RangedAllOrNone, Selected
<1>4. RangesTyped'
  BY <1>1 DEF CalibrationInv, RangesTyped, Selected
<1>5. RangesHoldRead'
  BY <1>1, HeldStays DEF CalibrationInv
<1> QED BY <1>1, <1>2, <1>3, <1>4, <1>5 DEF CalibrationInv

LEMMA NextCalibrates == ASSUME CalibrationInv, Next PROVE CalibrationInv'
<1>1. ASSUME Create \/ Begin \/ QuantizeNode \/ Finish PROVE CalibrationInv'
  <2>1. UNCHANGED <<src, model, reader, ranges>> /\ stage # "load" /\ stage' \notin {"load", "calibrate"}
    BY <1>1 DEF Create, Begin, QuantizeNode, Finish, Become
  <2> QED BY <2>1, AfterCalibration
<1>2. ASSUME BeginTensors \/ QuantizeNextTensor \/ QuantizeWeights \/ QuantizeNextBias \/ FinishPairs \/ Save
      PROVE  CalibrationInv'
  <2>1. UNCHANGED <<src, model, reader, ranges>> /\ stage # "load" /\ stage' \notin {"load", "calibrate"}
    BY <1>2 DEF BeginTensors, QuantizeNextTensor, QuantizeWeights, QuantizeNextBias, FinishPairs, Save, Become
  <2> QED BY <2>1, AfterCalibration
<1> QED BY <1>1, <1>2, LoadCalibrates, GetNextCalibrates, EndOfDataCalibrates DEF Next

(* The inductive invariant of the calibration (CalibraterBase and          *)
(* MinMaxCalibrater, calibrate.py).                                        *)
THEOREM CalibrationInvariance == Spec => []CalibrationInv
<1>1. Init => CalibrationInv
  BY InitCalibrates
<1>2. CalibrationInv /\ [Next]_vars => CalibrationInv'
  BY NextCalibrates, Stutter
<1> QED BY <1>1, <1>2, PTL DEF Spec

(* The ranges the quantiser is given hold every element of every           *)
(* calibrated tensor in every sample of the readers that were read,        *)
(* however the samples were split over readers (merge_range).              *)
THEOREM RangesHold == Spec => []RangesHoldSamples
<1>1. ASSUME CalibrationInv PROVE RangesHoldSamples
  <2>1. CASE stage = "load"
    <3>1. \A k \in 1 .. reader[1] - 1 : FALSE
      BY <1>1, <2>1 DEF CalibrationInv, PendingRead, RangedAllOrNone, RangesTyped, RangesHoldRead
    <3> QED BY <3>1 DEF RangesHoldSamples
  <2>2. CASE stage # "load"
    BY <1>1, <2>2 DEF CalibrationInv, PendingRead, RangedAllOrNone, RangesTyped, RangesHoldRead, RangesHoldSamples, Holds, Sample
  <2> QED BY <2>1, <2>2
<1> QED BY <1>1, CalibrationInvariance, PTL

(* Once a reader is finished no calibrated tensor is without a range.      *)
EveryTensorRanged ==
  stage = "calibrate" /\ reader[1] > 1 => DOMAIN ranges = select_tensors_to_calibrate(model, src.cfg.types)

(* The first reader gives every calibrated tensor a range, and merge_range *)
(* (calibrate.py) drops none when later readers are merged.                *)
THEOREM TensorsRanged == Spec => []EveryTensorRanged
<1>1. ASSUME CalibrationInv PROVE EveryTensorRanged
  <2>1. SUFFICES ASSUME stage = "calibrate", reader[1] > 1 PROVE DOMAIN ranges = Selected
    BY <1>1 DEF EveryTensorRanged, CalibrationInv, PendingRead, RangedAllOrNone, RangesTyped, RangesHoldRead, Selected
  <2>2. reader[1] # 1 /\ ((reader[1] = 1 /\ ranges = <<>>) \/ DOMAIN ranges = Selected)
    BY <1>1, <2>1 DEF CalibrationInv, PendingRead, RangedAllOrNone, RangesTyped, RangesHoldRead
  <2> QED BY <2>2
<1> QED BY <1>1, CalibrationInvariance, PTL
=============================================================================
