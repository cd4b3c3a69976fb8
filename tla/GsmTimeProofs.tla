--------------------------- MODULE GsmTimeProofs ---------------------------
(***************************************************************************)
(* The arithmetic of times, for every hyperframe and number of slots: how  *)
(* far apart two times are around the hyperframe, by how much incTN, decTN *)
(* and operator+ move a time, and that the cyclic comparison of times less *)
(* than half a hyperframe apart is that of their distance.                 *)
(***************************************************************************)
EXTENDS GsmTime, TLAPS

\* The slots of a hyperframe.
Turn == Hyperframe * Slots

\* a is d slots after b, around the hyperframe.
Apart(a, b, d) == \E k \in Int : SlotsOf(a) - SlotsOf(b) = d + k * Turn
-----------------------------------------------------------------------------
(* Arithmetic *)

LEMMA DivMod ==
    ASSUME NEW n \in Nat \ {0}, NEW x \in Nat
    PROVE  x % n \in 0 .. n - 1 /\ x = n * (x \div n) + (x % n) /\ x \div n \in Nat
OBVIOUS

LEMMA Reduced ==
    ASSUME NEW n \in Nat \ {0}, NEW x \in 0 .. n - 1
    PROVE  x % n = x /\ x \div n = 0
OBVIOUS

LEMMA Multiples ==
    ASSUME NEW n \in Nat \ {0}, NEW p \in Int, NEW q \in Int, p < q
    PROVE  p * n + n <= q * n
OBVIOUS

LEMMA Scaled ==
    ASSUME NEW n \in Nat \ {0}, NEW p \in Int, NEW q \in Int, p * n < q * n
    PROVE  p < q
<1>1. SUFFICES ASSUME q <= p PROVE FALSE OBVIOUS
<1>2. CASE q = p BY <1>2
<1>3. CASE q < p
  <2>1. q * n + n <= p * n BY <1>3, Multiples
  <2>2. q * n \in Int /\ p * n \in Int OBVIOUS
  <2> QED BY <2>1, <2>2
<1> QED BY <1>1, <1>2, <1>3

\* The numbers of a hyperframe.
LEMMA TimeSizes ==
    /\ Slots \in Nat \ {0} /\ Hyperframe \in Nat \ {0} /\ Turn \in Nat \ {0}
    /\ HalfModulus \in Nat \ {0} /\ Hyperframe = 2 * HalfModulus
    /\ HalfSlots \in Nat /\ Turn = 2 * HalfSlots + 2 * Slots
<1>1. Slots \in Nat \ {0} /\ Hyperframe \in Nat \ {0} BY TimeAssumption
<1>2. HalfModulus \in Nat \ {0} /\ Hyperframe = 2 * HalfModulus
  BY TimeAssumption DEF HalfModulus
<1> DEFINE h == HalfModulus
<1>3. h * Slots \in Nat \ {0} /\ 1 * Slots <= h * Slots
  <2> HIDE DEF h
  <2>1. h = 1 \/ 1 < h BY <1>2 DEF h
  <2>2. CASE 1 < h BY <2>2, <1>1, <1>2, Multiples DEF h
  <2> QED BY <2>1, <2>2, <1>1, <1>2
<1>4. (h - 1) * Slots = h * Slots - Slots /\ (2 * h) * Slots = 2 * (h * Slots)
  <2> HIDE DEF h
  <2> QED BY <1>1, <1>2 DEF h
<1>5. Turn = 2 * (h * Slots) BY <1>2, <1>4, Zenon DEF Turn
<1>6. HalfSlots = h * Slots - Slots BY <1>4, Zenon DEF HalfSlots
<1> HIDE DEF h
<1> DEFINE m == h * Slots
<1> HIDE DEF m
<1>7. m \in Nat \ {0} /\ Slots <= m /\ Turn = 2 * m /\ HalfSlots = m - Slots
  BY <1>1, <1>3, <1>5, <1>6 DEF m
<1> QED BY <1>1, <1>2, <1>7
-----------------------------------------------------------------------------
(* Times *)

LEMMA TimeIs ==
    ASSUME NEW t \in Time
    PROVE  /\ t.fn \in 0 .. Hyperframe - 1 /\ t.tn \in 0 .. Slots - 1
           /\ t = [fn |-> t.fn, tn |-> t.tn]
           /\ SlotsOf(t) = t.fn * Slots + t.tn /\ t.fn * Slots \in Nat
           /\ SlotsOf(t) \in 0 .. Turn - 1
<1>1. t.fn \in 0 .. Hyperframe - 1 /\ t.tn \in 0 .. Slots - 1 /\ t = [fn |-> t.fn, tn |-> t.tn]
  BY DEF Time, FNs, TNs
<1>2. t.fn * Slots + Slots <= Hyperframe * Slots BY <1>1, TimeSizes, Multiples
<1>3. t.fn * Slots \in Nat BY <1>1, TimeSizes
<1> DEFINE f == t.fn * Slots
<1> HIDE DEF f
<1>4. f \in Nat /\ f + Slots <= Turn /\ SlotsOf(t) = f + t.tn
  BY <1>2, <1>3 DEF f, Turn, SlotsOf
<1> QED BY <1>1, <1>4, TimeSizes DEF f

\* Distances add up, and turn around.
LEMMA ApartSum ==
    ASSUME NEW a, NEW b, NEW c, NEW d \in Int, NEW e \in Int,
           SlotsOf(a) \in Int, SlotsOf(b) \in Int, SlotsOf(c) \in Int,
           Apart(a, b, d), Apart(b, c, e)
    PROVE  Apart(a, c, d + e)
<1>1. PICK k \in Int : SlotsOf(a) - SlotsOf(b) = d + k * Turn BY DEF Apart
<1>2. PICK l \in Int : SlotsOf(b) - SlotsOf(c) = e + l * Turn BY DEF Apart
<1>3. Turn \in Int BY TimeSizes
<1>4. (k + l) * Turn = k * Turn + l * Turn /\ k * Turn \in Int /\ l * Turn \in Int BY <1>3
<1> DEFINE n == k * Turn
           m == l * Turn
<1>5. SlotsOf(a) - SlotsOf(c) = d + e + (n + m)
  <2>1. n \in Int /\ m \in Int BY <1>4
  <2>2. SlotsOf(a) - SlotsOf(b) = d + n /\ SlotsOf(b) - SlotsOf(c) = e + m BY <1>1, <1>2, Zenon
  <2> HIDE DEF n, m
  <2> QED BY <2>1, <2>2
<1> HIDE DEF n, m
<1>6. SlotsOf(a) - SlotsOf(c) = d + e + (k + l) * Turn BY <1>4, <1>5, Zenon DEF n, m
<1>7. k + l \in Int OBVIOUS
<1> QED BY <1>6, <1>7, Zenon DEF Apart

LEMMA ApartBack ==
    ASSUME NEW a, NEW b, NEW d \in Int, SlotsOf(a) \in Int, SlotsOf(b) \in Int, Apart(a, b, d)
    PROVE  Apart(b, a, -d)
<1>1. PICK k \in Int : SlotsOf(a) - SlotsOf(b) = d + k * Turn BY DEF Apart
<1>2. Turn \in Int BY TimeSizes
<1>3. (-k) * Turn = -(k * Turn) /\ k * Turn \in Int BY <1>2
<1>4. SlotsOf(b) - SlotsOf(a) = -d + (-k) * Turn /\ -k \in Int BY <1>1, <1>3
<1> QED BY <1>4 DEF Apart

LEMMA ApartNone ==
    ASSUME NEW a, SlotsOf(a) \in Int
    PROVE  Apart(a, a, 0)
<1>1. 0 * Turn = 0 BY TimeSizes
<1>2. SlotsOf(a) - SlotsOf(a) = 0 + 0 * Turn BY <1>1
<1> QED BY <1>2 DEF Apart

\* incTN() goes on by one slot, also from the last one of the hyperframe.
LEMMA IncTNIs ==
    ASSUME NEW t \in Time
    PROVE  IncTN(t, 1) \in Time /\ Apart(IncTN(t, 1), t, 1)
<1> DEFINE f == t.fn * Slots
           u == IncTN(t, 1)
<1>1. /\ t.fn \in 0 .. Hyperframe - 1 /\ t.tn \in 0 .. Slots - 1
      /\ SlotsOf(t) = f + t.tn /\ f \in Nat /\ Slots \in Nat \ {0} /\ Hyperframe \in Nat \ {0}
      /\ Turn \in Nat \ {0}
  BY TimeIs, TimeSizes
<1>2. CASE t.tn + 1 < Slots
  <2>1. u = [fn |-> t.fn, tn |-> t.tn + 1] BY <1>1, <1>2 DEF IncTN, T
  <2>2. u \in Time BY <1>1, <1>2, <2>1 DEF Time, FNs, TNs
  <2>3. SlotsOf(u) = f + (t.tn + 1) BY <2>1 DEF SlotsOf
  <2>4. SlotsOf(u) - SlotsOf(t) = 1 + 0 * Turn
    <3> HIDE DEF f, u
    <3> QED BY <1>1, <2>3
  <2> QED BY <2>2, <2>4 DEF Apart
<1>3. CASE t.tn + 1 = Slots /\ t.fn + 1 < Hyperframe
  <2>1. u = [fn |-> t.fn + 1, tn |-> 0]
    <3>0. t.fn + 1 \in 0 .. Hyperframe - 1 BY <1>1, <1>3
    <3>1. (t.fn + 1) % Hyperframe = t.fn + 1 BY <1>1, <3>0, Reduced
    <3> QED BY <1>1, <1>3, <3>1 DEF IncTN, T
  <2>2. u \in Time BY <1>1, <1>3, <2>1 DEF Time, FNs, TNs
  <2>3. SlotsOf(u) = (t.fn + 1) * Slots + 0 BY <2>1 DEF SlotsOf
  <2>4. (t.fn + 1) * Slots = f + Slots BY <1>1
  <2>5. SlotsOf(u) - SlotsOf(t) = 1 + 0 * Turn
    <3> HIDE DEF f, u
    <3> QED BY <1>1, <1>3, <2>3, <2>4
  <2> QED BY <2>2, <2>5 DEF Apart
<1>4. CASE t.tn + 1 = Slots /\ t.fn + 1 = Hyperframe
  <2>1. u = [fn |-> 0, tn |-> 0]
    <3>1. (t.fn + 1) % Hyperframe = 0 BY <1>1, <1>4
    <3> QED BY <1>1, <1>4, <3>1 DEF IncTN, T
  <2>2. u \in Time BY <1>1, <2>1 DEF Time, FNs, TNs
  <2>3. SlotsOf(u) = 0 BY <1>1, <2>1 DEF SlotsOf
  <2>4. (t.fn + 1) * Slots = f + Slots BY <1>1
  <2>5. Turn = f + Slots BY <1>4, <2>4, Zenon DEF Turn
  <2>6. SlotsOf(u) - SlotsOf(t) = 1 + (-1) * Turn
    <3> HIDE DEF f, u
    <3> QED BY <1>1, <1>4, <2>3, <2>5
  <2> QED BY <2>2, <2>6 DEF Apart
<1>5. t.tn + 1 < Slots \/ t.tn + 1 = Slots BY <1>1
<1>6. t.fn + 1 < Hyperframe \/ t.fn + 1 = Hyperframe BY <1>1
<1> QED BY <1>2, <1>3, <1>4, <1>5, <1>6

\* decTN() of a time that is not the first slot of the hyperframe.
LEMMA DecTNIs ==
    ASSUME NEW t \in Time, SlotsOf(t) > 0
    PROVE  DecTN(t, 1) \in Time /\ SlotsOf(DecTN(t, 1)) = SlotsOf(t) - 1
<1> DEFINE f == t.fn * Slots
           u == DecTN(t, 1)
<1>1. /\ t.fn \in 0 .. Hyperframe - 1 /\ t.tn \in 0 .. Slots - 1
      /\ SlotsOf(t) = f + t.tn /\ f \in Nat /\ Slots \in Nat \ {0} /\ Hyperframe \in Nat \ {0}
  BY TimeIs, TimeSizes
<1>2. CASE t.tn > 0
  <2>1. u = [fn |-> t.fn, tn |-> t.tn - 1] BY <1>1, <1>2 DEF DecTN, T
  <2>2. u \in Time BY <1>1, <1>2, <2>1 DEF Time, FNs, TNs
  <2>3. SlotsOf(u) = f + (t.tn - 1) BY <2>1 DEF SlotsOf
  <2> QED BY <1>1, <2>2, <2>3
<1>3. CASE t.tn = 0
  <2>1. t.fn > 0
    <3>1. SUFFICES ASSUME t.fn = 0 PROVE FALSE BY <1>1
    <3>2. f = 0 BY <3>1, <1>1
    <3> QED BY <1>1, <1>3, <3>2
  <2>2. u = [fn |-> t.fn - 1, tn |-> Slots - 1] BY <1>1, <1>3, <2>1 DEF DecTN, T
  <2>3. u \in Time BY <1>1, <2>1, <2>2 DEF Time, FNs, TNs
  <2>4. SlotsOf(u) = (t.fn - 1) * Slots + (Slots - 1) BY <2>2 DEF SlotsOf
  <2>5. (t.fn - 1) * Slots = f - Slots BY <1>1
  <2> HIDE DEF f, u
  <2>6. SlotsOf(u) = SlotsOf(t) - 1 BY <1>1, <1>3, <2>4, <2>5
  <2> QED BY <2>3, <2>6 DEF u
<1> QED BY <1>1, <1>2, <1>3

\* operator+ goes on by the slots of the interval.
LEMMA TimeAddIs ==
    ASSUME NEW a \in Time, NEW b \in Time
    PROVE  TimeAdd(a, b) \in Time /\ Apart(TimeAdd(a, b), a, SlotsOf(b))
<1> DEFINE x == a.tn + b.tn
           q == x \div Slots
           y == a.fn + b.fn + q
           p == y \div Hyperframe
           u == TimeAdd(a, b)
<1>1. /\ a.fn \in Nat /\ b.fn \in Nat /\ a.tn \in Nat /\ b.tn \in Nat
      /\ Slots \in Nat \ {0} /\ Hyperframe \in Nat \ {0}
      /\ SlotsOf(a) = a.fn * Slots + a.tn /\ SlotsOf(b) = b.fn * Slots + b.tn
  BY TimeIs, TimeSizes
<1>2. x % Slots \in 0 .. Slots - 1 /\ x = Slots * q + (x % Slots) /\ q \in Nat
  <2>1. x \in Nat BY <1>1
  <2> HIDE DEF x
  <2> QED BY <1>1, <2>1, DivMod
<1>3. y % Hyperframe \in 0 .. Hyperframe - 1 /\ y = Hyperframe * p + (y % Hyperframe) /\ p \in Nat
  <2>1. y \in Nat BY <1>1, <1>2
  <2> HIDE DEF y
  <2> QED BY <1>1, <2>1, DivMod
<1>4. u = [fn |-> y % Hyperframe, tn |-> x % Slots] BY DEF TimeAdd, T
<1>5. u \in Time BY <1>2, <1>3, <1>4 DEF Time, FNs, TNs
<1>6. SlotsOf(u) = (y % Hyperframe) * Slots + (x % Slots) BY <1>4 DEF SlotsOf
<1> DEFINE z == y % Hyperframe
           r == x % Slots
           s == Slots
           H == Hyperframe
           af == a.fn
           bf == b.fn
<1>7. SlotsOf(u) - SlotsOf(a) = SlotsOf(b) + (-p) * Turn
  <2>1. z = af + bf + q - H * p /\ r = a.tn + b.tn - s * q BY <1>1, <1>2, <1>3
  <2>2. af \in Int /\ bf \in Int /\ q \in Int /\ H \in Int /\ p \in Int /\ s \in Int
    BY <1>1, <1>2, <1>3
  <2>3. SlotsOf(u) = z * s + r BY <1>6
  <2>4. SlotsOf(a) = af * s + a.tn /\ SlotsOf(b) = bf * s + b.tn /\ Turn = H * s
    BY <1>1 DEF Turn
  <2>5. a.tn \in Int /\ b.tn \in Int BY <1>1
  <2> HIDE DEF z, r, s, H, af, bf, q, p, u
  <2>6. z * s = af * s + bf * s + q * s - (H * p) * s BY <2>1, <2>2
  <2>7. (-p) * (H * s) = -((H * p) * s) /\ s * q = q * s BY <2>2
  <2>8. af * s \in Int /\ bf * s \in Int /\ q * s \in Int /\ (H * p) * s \in Int BY <2>2
  <2>9. SlotsOf(u) = af * s + bf * s - (H * p) * s + a.tn + b.tn
    BY <2>1, <2>3, <2>5, <2>6, <2>7, <2>8
  <2>10. (-p) * Turn = -((H * p) * s) BY <2>4, <2>7, Zenon
  <2> QED BY <2>4, <2>5, <2>8, <2>9, <2>10
<1>8. -p \in Int BY <1>3
<1> QED BY <1>5, <1>7, <1>8 DEF Apart

\* The comparison of times less than half a hyperframe apart is that of their
\* distance, on either side of the end of the hyperframe.
THEOREM ComparisonExact ==
    ASSUME NEW a \in Time, NEW b \in Time, NEW d \in Int, Apart(a, b, d),
           -HalfSlots <= d, d <= HalfSlots
    PROVE  (GT(a, b) <=> d > 0) /\ (LT(a, b) <=> d < 0) /\ (d = 0 => a = b)
<1> DEFINE D == a.fn - b.fn
           e == a.tn - b.tn
           h == HalfModulus
           s == Slots
           x == FNDelta(a.fn, b.fn)
<1>1. /\ s \in Nat \ {0} /\ h \in Nat \ {0} /\ Hyperframe = 2 * h
      /\ D \in Int /\ -2 * h < D /\ D < 2 * h
      /\ e \in Int /\ -s < e /\ e < s
  BY TimeIs, TimeSizes
<1>2. PICK k \in Int : SlotsOf(a) - SlotsOf(b) = d + k * Turn BY DEF Apart
<1>3. D * s + e = d + k * (2 * h * s)
  <2>1. SlotsOf(a) = a.fn * s + a.tn /\ SlotsOf(b) = b.fn * s + b.tn BY DEF SlotsOf
  <2>2. a.fn \in Int /\ b.fn \in Int /\ a.tn \in Int /\ b.tn \in Int BY TimeIs
  <2>3. D * s = a.fn * s - b.fn * s BY <1>1, <2>2
  <2>4. Turn = 2 * h * s BY <1>1 DEF Turn
  <2>5. a.fn * s \in Int /\ b.fn * s \in Int BY <1>1, <2>2
  <2> QED BY <1>2, <2>1, <2>2, <2>3, <2>4, <2>5
<1>4. PICK j \in {-1, 0, 1} : /\ x = D + j * (2 * h)
                              /\ -h <= x /\ x < h
                              /\ j = 0 \/ D # 0
  BY <1>1 DEF FNDelta
<1> HIDE DEF D, e, h, s, x
<1>5. x \in Int BY <1>1, <1>4
<1> DEFINE m == k + j
<1>6. m \in Int BY <1>2, <1>4
<1>7. x * s = d - e + (m * (2 * h)) * s
  <2>1. x * s = D * s + (j * (2 * h)) * s BY <1>1, <1>4
  <2>2. (m * (2 * h)) * s = k * (2 * h * s) + (j * (2 * h)) * s BY <1>1, <1>2, <1>4
  <2>3. D * s \in Int /\ k * (2 * h * s) \in Int /\ (j * (2 * h)) * s \in Int
    BY <1>1, <1>2, <1>4
  <2> HIDE DEF m
  <2> QED BY <1>1, <1>3, <2>1, <2>2, <2>3
<1> HIDE DEF m
<1>8. m = 0
  <2> DEFINE y == x - m * (2 * h)
  <2>1. y * s = x * s - (m * (2 * h)) * s /\ y \in Int BY <1>1, <1>5, <1>6
  <2>2. x * s \in Int /\ (m * (2 * h)) * s \in Int BY <1>1, <1>5, <1>6
  <2>3. y * s = d - e BY <1>1, <1>7, <2>1, <2>2
  <2>4. HalfSlots = h * s - s /\ (-h) * s = -(h * s) /\ h * s \in Int
    <3>1. HalfSlots = (h - 1) * s BY DEF HalfSlots, h, s
    <3>2. (h - 1) * s = h * s - s BY <1>1
    <3> QED BY <1>1, <3>1, <3>2
  <2> HIDE DEF y
  <2>5. y * s < h * s /\ (-h) * s < y * s BY <1>1, <2>3, <2>4
  <2>6. y < h /\ -h < y BY <1>1, <2>1, <2>5, Scaled
  <2>7. -1 < m /\ m < 1
    <3>1. -(2 * h) < m * (2 * h) /\ m * (2 * h) < 2 * h
      BY <1>1, <1>4, <1>5, <1>6, <2>6 DEF y
    <3>2. (-1) * (2 * h) < m * (2 * h) /\ m * (2 * h) < 1 * (2 * h) BY <1>1, <3>1
    <3> QED BY <1>1, <1>6, <3>2, Scaled
  <2> QED BY <1>6, <2>7
<1>9. d = x * s + e
  <2>1. (m * (2 * h)) * s = 0 /\ x * s \in Int BY <1>1, <1>5, <1>8
  <2> QED BY <1>1, <1>7, <2>1
<1>10. x = 0 <=> D = 0 BY <1>1, <1>4
<1>11. CASE x > 0
  <2>1. s <= x * s
    <3>1. 0 * s + s <= x * s BY <1>1, <1>5, <1>11, Multiples
    <3> QED BY <1>1, <3>1
  <2>2. d > 0 BY <1>1, <1>5, <1>9, <2>1
  <2>3. GT(a, b)
    <3>1. a.fn # b.fn BY <1>10, <1>11, TimeIs DEF D
    <3> QED BY <3>1, <1>11 DEF GT, FNCompare, x
  <2>4. ~LT(a, b)
    <3>1. a.fn # b.fn BY <1>10, <1>11, TimeIs DEF D
    <3> QED BY <3>1, <1>5, <1>11 DEF LT, FNCompare, x
  <2> QED BY <1>1, <2>2, <2>3, <2>4
<1>12. CASE x < 0
  <2>1. x * s <= -s
    <3>1. x * s + s <= 0 * s BY <1>1, <1>5, <1>12, Multiples
    <3>2. x * s \in Int BY <1>1, <1>5
    <3> QED BY <1>1, <3>1, <3>2
  <2>2. d < 0
    <3>1. x * s \in Int BY <1>1, <1>5
    <3> QED BY <1>1, <1>9, <2>1, <3>1
  <2>3. ~GT(a, b)
    <3>1. a.fn # b.fn BY <1>10, <1>12, TimeIs DEF D
    <3> QED BY <3>1, <1>5, <1>12 DEF GT, FNCompare, x
  <2>4. LT(a, b)
    <3>1. a.fn # b.fn BY <1>10, <1>12, TimeIs DEF D
    <3> QED BY <3>1, <1>5, <1>12 DEF LT, FNCompare, x
  <2> QED BY <1>1, <2>2, <2>3, <2>4
<1>13. CASE x = 0
  <2>1. a.fn = b.fn BY <1>10, <1>13, TimeIs DEF D
  <2>2. d = e BY <1>1, <1>9, <1>13
  <2>3. GT(a, b) <=> e > 0 BY <2>1, TimeIs DEF GT, e
  <2>4. e = 0 => a = b BY <2>1, TimeIs DEF e
  <2>5. LT(a, b) <=> e < 0 BY <2>1, TimeIs DEF LT, e
  <2> QED BY <2>2, <2>3, <2>4, <2>5
<1> QED BY <1>5, <1>11, <1>12, <1>13
-----------------------------------------------------------------------------
(* Steps of a time *)

LEMMA DivModIs ==
    ASSUME NEW n \in Nat \ {0}, NEW q \in Nat, NEW r \in 0 .. n - 1, NEW x \in Nat,
           x = q * n + r
    PROVE  x % n = r /\ x \div n = q
<1> DEFINE p == x \div n
           s == x % n
<1>1. s \in 0 .. n - 1 /\ x = n * p + s /\ p \in Nat BY DivMod
<1> HIDE DEF p, s
<1>2. x = p * n + s BY <1>1
<1> DEFINE a == p * n
           b == q * n
<1>3. a \in Nat /\ b \in Nat BY <1>1
<1>4. CASE p < q
  <2>1. a + n <= b BY <1>1, <1>4, Multiples
  <2> HIDE DEF a, b
  <2>2. x = a + s /\ x = b + r BY <1>2 DEF a, b
  <2> QED BY <1>1, <1>3, <2>1, <2>2
<1>5. CASE q < p
  <2>1. b + n <= a BY <1>1, <1>5, Multiples
  <2> HIDE DEF a, b
  <2>2. x = a + s /\ x = b + r BY <1>2 DEF a, b
  <2> QED BY <1>1, <1>3, <2>1, <2>2
<1>6. CASE p = q
  <2>1. s = r BY <1>1, <1>2, <1>3, <1>6
  <2> QED BY <1>6, <2>1 DEF p, s
<1> QED BY <1>1, <1>4, <1>5, <1>6

LEMMA DivModNext ==
    ASSUME NEW n \in Nat \ {0}, NEW x \in Nat
    PROVE  IF (x % n) + 1 < n
           THEN (x + 1) % n = (x % n) + 1 /\ (x + 1) \div n = x \div n
           ELSE (x + 1) % n = 0 /\ (x + 1) \div n = x \div n + 1
<1> DEFINE q == x \div n
           r == x % n
           p == q * n
<1>1. r \in 0 .. n - 1 /\ q \in Nat /\ p \in Nat /\ x = p + r
  <2>1. x % n \in 0 .. n - 1 /\ x = n * (x \div n) + (x % n) /\ x \div n \in Nat BY DivMod
  <2> HIDE DEF q, r
  <2> QED BY <2>1 DEF q, r
<1> HIDE DEF q, r
<1>2. CASE r + 1 < n
  <2>1. x + 1 = p + (r + 1) /\ r + 1 \in 0 .. n - 1 /\ x + 1 \in Nat
    <3> HIDE DEF p
    <3> QED BY <1>1, <1>2
  <2>2. (x + 1) % n = r + 1 /\ (x + 1) \div n = q BY <1>1, <2>1, DivModIs
  <2> QED BY <1>2, <2>2 DEF q, r
<1>3. CASE ~(r + 1 < n)
  <2>1. x + 1 = p + n /\ x + 1 \in Nat /\ q + 1 \in Nat /\ 0 \in 0 .. n - 1
    <3> HIDE DEF p
    <3> QED BY <1>1, <1>3
  <2>2. x + 1 = (q + 1) * n + 0
    <3>1. (q + 1) * n = p + n BY <1>1
    <3> HIDE DEF p
    <3> QED BY <3>1, <2>1, <1>1
  <2>3. (x + 1) % n = 0 /\ (x + 1) \div n = q + 1
    <3> DEFINE u == q + 1
               y == x + 1
    <3>1. u \in Nat /\ y \in Nat /\ 0 \in 0 .. n - 1 /\ y = u * n + 0 BY <2>1, <2>2
    <3> HIDE DEF u, y
    <3>2. y = u * n + 0 => y % n = 0 /\ y \div n = u BY <3>1, DivModIs, ZenonT(40)
    <3>3. y % n = 0 /\ y \div n = u BY <3>1, <3>2
    <3> QED BY <3>3 DEF u, y
  <2> QED BY <1>3, <2>3 DEF q, r
<1> QED BY <1>2, <1>3

LEMMA ModNext ==
    ASSUME NEW n \in Nat \ {0}, NEW x \in Nat
    PROVE  ((x % n) + 1) % n = (x + 1) % n
<1> DEFINE r == x % n
           v == (x + 1) % n
<1>1. r \in 0 .. n - 1 BY DivMod
<1>2. IF r + 1 < n THEN v = r + 1 ELSE v = 0 BY DivModNext, Zenon
<1> HIDE DEF r, v
<1>3. CASE r + 1 < n
  <2>1. r + 1 \in 0 .. n - 1 BY <1>1, <1>3
  <2>2. (r + 1) % n = r + 1 BY <2>1, Reduced
  <2> QED BY <1>2, <1>3, <2>2 DEF r, v
<1>4. CASE ~(r + 1 < n)
  <2>1. r + 1 = n BY <1>1, <1>4
  <2>2. n % n = 0 OBVIOUS
  <2> QED BY <1>2, <1>4, <2>1, <2>2 DEF r, v
<1> QED BY <1>3, <1>4

\* decTN() by a frame at most.
LEMMA DecTNType ==
    ASSUME NEW t \in Time, NEW d \in 0 .. Slots
    PROVE  DecTN(t, d) \in Time
<1>1. t.fn \in 0 .. Hyperframe - 1 /\ t.tn \in 0 .. Slots - 1 BY TimeIs
<1> QED BY <1>1, TimeSizes DEF DecTN, T, Time, FNs, TNs

\* A slot on and d slots back, in any order.
LEMMA IncDec ==
    ASSUME NEW t \in Time, NEW d \in 0 .. Slots
    PROVE  DecTN(IncTN(t, 1), d) = IncTN(DecTN(t, d), 1)
<1>1. /\ t.fn \in 0 .. Hyperframe - 1 /\ t.tn \in 0 .. Slots - 1
      /\ Slots \in Nat \ {0} /\ Hyperframe \in Nat \ {0}
  BY TimeIs, TimeSizes
<1> DEFINE f == t.fn
           n == t.tn
           H == Hyperframe
           S == Slots
           next == (f + 1) % H
           prev == IF f - 1 < 0 THEN f - 1 + H ELSE f - 1
<1>2. next = (IF f + 1 = H THEN 0 ELSE f + 1) BY <1>1
<1>3. (prev + 1) % H = f
  <2>1. CASE f = 0 BY <1>1, <2>1
  <2>2. CASE f > 0 BY <1>1, <2>2
  <2> QED BY <1>1, <2>1, <2>2
<1>4. (IF next - 1 < 0 THEN next - 1 + H ELSE next - 1) = f BY <1>1, <1>2
<1>5. IncTN(t, 1) = IF n + 1 >= S THEN T(next, n + 1 - S) ELSE T(f, n + 1) BY DEF IncTN
<1>6. DecTN(t, d) = IF n - d < 0 THEN T(prev, n - d + S) ELSE T(f, n - d) BY DEF DecTN
<1> HIDE DEF next, prev, f, n, H, S
<1>n. n \in 0 .. S - 1 /\ S \in Nat /\ d \in 0 .. S BY <1>1 DEF n, S
<1>7. CASE n + 1 >= S /\ n - d < 0
  <2>1. IncTN(t, 1) = T(next, n + 1 - S) /\ DecTN(t, d) = T(prev, n - d + S) BY <1>5, <1>6, <1>7
  <2>2. n + 1 - S = 0 /\ n = S - 1 /\ d = S BY <1>n, <1>7
  <2>3. IncTN(t, 1) = T(next, 0) /\ DecTN(t, d) = T(prev, n) BY <2>1, <2>2, <1>n
  <2>4. DecTN(T(next, 0), d) = T(f, 0) BY <2>2, <1>n, <1>4 DEF DecTN, T, H, S
  <2>5. IncTN(T(prev, n), 1) = T(f, 0) BY <2>2, <1>n, <1>3 DEF IncTN, T, H, S
  <2> QED BY <2>3, <2>4, <2>5
<1>8. CASE n + 1 >= S /\ ~(n - d < 0)
  <2>1. IncTN(t, 1) = T(next, n + 1 - S) /\ DecTN(t, d) = T(f, n - d) BY <1>5, <1>6, <1>8
  <2>2. n + 1 - S = 0 /\ n = S - 1 BY <1>n, <1>8
  <2>3. CASE d = 0
    <3>1. DecTN(T(next, 0), d) = T(next, 0) BY <2>3, <1>n DEF DecTN, T
    <3>2. IncTN(T(f, n), 1) = T(next, 0) BY <2>2, <1>n DEF IncTN, T, next, H, S
    <3>3. n - d = n BY <2>3, <1>n
    <3> QED BY <2>1, <2>2, <3>1, <3>2, <3>3
  <2>4. CASE d > 0
    <3>1. DecTN(T(next, 0), d) = T(f, S - d) BY <2>4, <1>n, <1>4 DEF DecTN, T, H, S
    <3>2. IncTN(T(f, n - d), 1) = T(f, S - d) BY <2>2, <2>4, <1>n DEF IncTN, T, S
    <3> QED BY <2>1, <2>2, <3>1, <3>2
  <2> QED BY <2>3, <2>4, <1>n
<1>9. CASE n + 1 < S /\ n - d < 0
  <2>1. IncTN(t, 1) = T(f, n + 1) /\ DecTN(t, d) = T(prev, n - d + S)
    BY <1>5, <1>6, <1>9, <1>n
  <2>2. CASE n + 1 - d < 0
    <3>1. DecTN(T(f, n + 1), d) = T(prev, n + 1 - d + S)
      BY <2>2, <1>n DEF DecTN, T, prev, H, S
    <3>2. IncTN(T(prev, n - d + S), 1) = T(prev, n + 1 - d + S)
      BY <2>2, <1>n DEF IncTN, T, S
    <3> QED BY <2>1, <3>1, <3>2
  <2>3. CASE n + 1 = d
    <3>1. DecTN(T(f, n + 1), d) = T(f, 0) BY <2>3, <1>n DEF DecTN, T
    <3>2. IncTN(T(prev, n - d + S), 1) = T(f, 0) BY <2>3, <1>n, <1>3 DEF IncTN, T, H, S
    <3> QED BY <2>1, <3>1, <3>2
  <2> QED BY <2>2, <2>3, <1>9, <1>n
<1>10. CASE n + 1 < S /\ ~(n - d < 0)
  <2>1. IncTN(t, 1) = T(f, n + 1) /\ DecTN(t, d) = T(f, n - d) BY <1>5, <1>6, <1>10, <1>n
  <2>2. DecTN(T(f, n + 1), d) = T(f, n + 1 - d) BY <1>10, <1>n DEF DecTN, T
  <2>3. IncTN(T(f, n - d), 1) = T(f, n + 1 - d) BY <1>10, <1>n DEF IncTN, T, S
  <2> QED BY <2>1, <2>2, <2>3
<1> QED BY <1>7, <1>8, <1>9, <1>10, <1>n

\* The slot n slots after t, by frames and then by slots.
After(t, n) == IncTN(T((t.fn + n \div Slots) % Hyperframe, t.tn), n % Slots)

LEMMA AfterNone ==
    ASSUME NEW t \in Time
    PROVE  After(t, 0) = t
<1>1. /\ t.fn \in 0 .. Hyperframe - 1 /\ t.tn \in 0 .. Slots - 1
      /\ t = [fn |-> t.fn, tn |-> t.tn]
      /\ Slots \in Nat \ {0} /\ Hyperframe \in Nat \ {0}
  BY TimeIs, TimeSizes
<1>2. 0 \div Slots = 0 /\ 0 % Slots = 0 BY <1>1
<1>3. (t.fn + 0) % Hyperframe = t.fn
  <2>1. t.fn + 0 = t.fn BY <1>1
  <2> QED BY <1>1, <2>1, Reduced
<1>4. After(t, 0) = T(t.fn, t.tn) BY <1>1, <1>2, <1>3 DEF After, IncTN, T
<1> QED BY <1>1, <1>4 DEF T

LEMMA AfterNext ==
    ASSUME NEW t \in Time, NEW n \in Nat
    PROVE  After(t, n + 1) = IncTN(After(t, n), 1)
<1> DEFINE q == n \div Slots
           r == n % Slots
           H == Hyperframe
           S == Slots
           f == (t.fn + q) % H
           g == (f + 1) % H
           k == t.tn
<1>1. /\ t.fn \in 0 .. H - 1 /\ k \in 0 .. S - 1 /\ S \in Nat \ {0} /\ H \in Nat \ {0}
  BY TimeIs, TimeSizes
<1>2. r \in 0 .. S - 1 /\ q \in Nat BY <1>1, DivMod
<1>3. g = (t.fn + (q + 1)) % H
  <2>1. t.fn + q \in Nat BY <1>1, <1>2
  <2>2. (((t.fn + q) % H) + 1) % H = (t.fn + q + 1) % H BY <1>1, <2>1, ModNext
  <2>3. t.fn + q + 1 = t.fn + (q + 1) BY <1>1, <1>2
  <2> QED BY <2>2, <2>3
<1>4. IF r + 1 < S THEN (n + 1) % S = r + 1 /\ (n + 1) \div S = q
                   ELSE (n + 1) % S = 0 /\ (n + 1) \div S = q + 1
  BY <1>1, DivModNext
<1>5. After(t, n) = IncTN(T(f, k), r) BY DEF After
<1> HIDE DEF q, r, f, g, k, H, S
<1>6. CASE r + 1 < S
  <2>1. After(t, n + 1) = IncTN(T(f, k), r + 1) BY <1>4, <1>6 DEF After, f, k, H, S
  <2>2. IncTN(T(f, k), r) = IF k + r >= S THEN T(g, k + r - S) ELSE T(f, k + r)
    BY DEF IncTN, T, g, H, S
  <2>3. IncTN(T(f, k), r + 1) = IF k + (r + 1) >= S THEN T(g, k + (r + 1) - S)
                                ELSE T(f, k + (r + 1))
    BY DEF IncTN, T, g, H, S
  <2>4. IncTN(T(g, k + r - S), 1) = T(g, k + (r + 1) - S)
    <3>1. k + r - S + 1 < S /\ k + r - S + 1 = k + (r + 1) - S BY <1>1, <1>2, <1>6
    <3> QED BY <3>1, <1>1, <1>2 DEF IncTN, T, S
  <2>5. CASE k + r >= S
    <3>1. k + (r + 1) >= S BY <2>5, <1>1, <1>2
    <3> QED BY <1>5, <2>1, <2>2, <2>3, <2>4, <2>5, <3>1
  <2>6. CASE k + r < S /\ k + (r + 1) >= S
    <3>1. IncTN(T(f, k + r), 1) = T(g, k + (r + 1) - S)
      BY <2>6, <1>1, <1>2 DEF IncTN, T, g, H, S
    <3> QED BY <1>1, <1>2, <1>5, <2>1, <2>2, <2>3, <2>6, <3>1
  <2>7. CASE k + (r + 1) < S
    <3>1. IncTN(T(f, k + r), 1) = T(f, k + (r + 1)) BY <2>7, <1>1, <1>2 DEF IncTN, T, S
    <3>2. ~(k + r >= S) /\ ~(k + (r + 1) >= S) BY <2>7, <1>1, <1>2
    <3> QED BY <1>5, <2>1, <2>2, <2>3, <3>1, <3>2
  <2> QED BY <2>5, <2>6, <2>7, <1>1, <1>2
<1>7. CASE ~(r + 1 < S)
  <2>1. After(t, n + 1) = IncTN(T(g, k), 0) BY <1>3, <1>4, <1>7 DEF After, k, H, S
  <2>2. r = S - 1 BY <1>1, <1>2, <1>7
  <2>3. IncTN(T(g, k), 0) = T(g, k) BY <1>1 DEF IncTN, T, S
  <2>4. IncTN(T(f, k), r) = IF k + r >= S THEN T(g, k + r - S) ELSE T(f, k + r)
    BY DEF IncTN, T, g, H, S
  <2>5. CASE k = 0
    <3>1. IncTN(T(f, k), r) = T(f, r) BY <2>2, <2>4, <2>5, <1>1, <1>2
    <3>2. IncTN(T(f, r), 1) = T(g, 0) BY <2>2, <1>1, <1>2 DEF IncTN, T, g, H, S
    <3> QED BY <1>5, <2>1, <2>3, <2>5, <3>1, <3>2
  <2>6. CASE k > 0
    <3>1. IncTN(T(f, k), r) = T(g, k - 1) BY <2>2, <2>4, <2>6, <1>1, <1>2
    <3>2. IncTN(T(g, k - 1), 1) = T(g, k) BY <2>6, <1>1 DEF IncTN, T, S
    <3> QED BY <1>5, <2>1, <2>3, <3>1, <3>2
  <2> QED BY <2>5, <2>6, <1>1
<1> QED BY <1>6, <1>7
=============================================================================
