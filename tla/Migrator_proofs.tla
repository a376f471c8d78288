--------------------------- MODULE Migrator_proofs ---------------------------
(***************************************************************************)
(* Proofs about Migrator for every number of runtimes, tenants, releases   *)
(* and failures.                                                           *)
(***************************************************************************)
EXTENDS Migrator, TLAPS, FiniteSetTheorems

\* Induction over the numbers, stated with a set: a number outside of it would
\* make the shift by one an injection of the finite set of the numbers up to it
\* that are outside too, and not a surjection.
LEMMA SetInduction ==
    ASSUME NEW S, 0 \in S, \A n \in Nat : n \in S => n + 1 \in S
    PROVE  Nat \subseteq S
<1> SUFFICES ASSUME NEW n \in Nat, n \notin S PROVE FALSE
  OBVIOUS
<1> DEFINE T == {k \in 0 .. n : k \notin S}
           shift == [k \in T |-> k - 1]
<1>1. IsFiniteSet(T) /\ n \in T
  <2>1. IsFiniteSet(0 .. n) /\ T \subseteq 0 .. n
    BY FS_Interval
  <2> QED
    BY <2>1, FS_Subset
<1>2. \A k \in T : k \in Nat /\ k - 1 \in T
  <2> SUFFICES ASSUME NEW k \in T PROVE k - 1 \in T
    OBVIOUS
  <2>1. k # 0 /\ k - 1 \in 0 .. n /\ (k - 1) + 1 = k
    OBVIOUS
  <2> QED
    BY <2>1
<1>3. n + 1 \notin T
  OBVIOUS
<1> HIDE DEF T
<1>4. shift \in Injection(T, T)
  BY <1>2 DEF Injection, IsInjective
<1>5. shift \in Surjection(T, T)
  BY <1>1, <1>4, FS_Injection
<1>6. PICK k \in T : shift[k] = n
  BY <1>1, <1>5 DEF Surjection
<1> QED
  BY <1>2, <1>3, <1>6

(* The string order.  The recursion of Digits has a solution, the limit of *)
(* its approximations on 0 .. n, and what it computes for n follows by      *)
(* induction from what it computes for a tenth of n.                       *)

Width(n) == Len(Digits[n])

RecursionStep(f, n) == IF n < 10 THEN <<n>> ELSE Append(f[n \div 10], n % 10)
\* f solves the recursion up to n.
Approximates(f, n) == f = [k \in 0 .. n |-> RecursionStep(f, k)]

\* A number of several digits is its tenth and its last digit.
LEMMA Tenth ==
    ASSUME NEW n \in Nat, n >= 10
    PROVE  n \div 10 \in 0 .. n - 1 /\ n % 10 \in 0 .. 9 /\ n = 10 * (n \div 10) + (n % 10)
  OBVIOUS

\* The recursion has a solution up to any number.
LEMMA Approximation == \A n \in Nat : \E f : Approximates(f, n)
<1> DEFINE S == {n \in Nat : \E f : Approximates(f, n)}
<1>1. 0 \in S
  <2>1. Approximates([k \in 0 .. 0 |-> <<0>>], 0)
    BY DEF Approximates, RecursionStep
  <2> QED
    BY <2>1
<1>2. ASSUME NEW n \in Nat, n \in S PROVE n + 1 \in S
  <2>1. PICK f : Approximates(f, n)
    BY <1>2
  <2> DEFINE g == [k \in 0 .. n + 1 |-> IF k <= n THEN f[k] ELSE RecursionStep(f, k)]
  <2>2. ASSUME NEW k \in 0 .. n + 1 PROVE g[k] = RecursionStep(g, k)
    <3>1. k < 10 => RecursionStep(f, k) = RecursionStep(g, k)
      BY DEF RecursionStep
    <3>2. k >= 10 => k \div 10 \in 0 .. n /\ RecursionStep(f, k) = RecursionStep(g, k)
      BY Tenth DEF RecursionStep
    <3>3. g[k] = RecursionStep(f, k)
      BY <2>1 DEF Approximates
    <3> QED
      BY <3>1, <3>2, <3>3
  <2>3. Approximates(g, n + 1)
    BY <2>2 DEF Approximates
  <2> QED
    BY <2>3
<1> HIDE DEF S
<1>3. Nat \subseteq S
  BY <1>1, <1>2, SetInduction
<1> QED
  BY <1>3 DEF S

\* It has but one.
LEMMA ApproximationsAgree ==
    ASSUME NEW m \in Nat, NEW n \in Nat, NEW f, NEW g, Approximates(f, m), Approximates(g, n)
    PROVE  \A k \in 0 .. m \intersect 0 .. n : f[k] = g[k]
<1> DEFINE S == {i \in Nat : \A k \in 0 .. i : k <= m /\ k <= n => f[k] = g[k]}
<1>1. 0 \in S
  BY DEF Approximates, RecursionStep
<1>2. ASSUME NEW i \in Nat, i \in S PROVE i + 1 \in S
  <2> SUFFICES ASSUME i + 1 <= m, i + 1 <= n PROVE f[i + 1] = g[i + 1]
    BY <1>2
  <2>1. f[i + 1] = RecursionStep(f, i + 1) /\ g[i + 1] = RecursionStep(g, i + 1)
    <3>1. i + 1 \in 0 .. m /\ i + 1 \in 0 .. n
      OBVIOUS
    <3> QED
      BY <3>1 DEF Approximates
  <2>2. i + 1 < 10 => RecursionStep(f, i + 1) = RecursionStep(g, i + 1)
    BY DEF RecursionStep
  <2>3. i + 1 >= 10 => (i + 1) \div 10 \in 0 .. i
    BY Tenth
  <2>4. i + 1 >= 10 => f[(i + 1) \div 10] = g[(i + 1) \div 10]
    BY <1>2, <2>3
  <2> QED
    BY <2>1, <2>2, <2>4 DEF RecursionStep
<1> HIDE DEF S
<1>3. Nat \subseteq S
  BY <1>1, <1>2, SetInduction
<1> QED
  BY <1>3 DEF S

\* The solutions up to each number make one for all of them, so Digits is one.
LEMMA DigitsEquation == Digits = [n \in Nat |-> RecursionStep(Digits, n)]
<1> DEFINE A(n) == CHOOSE f : Approximates(f, n)
           limit == [n \in Nat |-> A(n)[n]]
           Solves(f) == f = [n \in Nat |-> IF n < 10 THEN <<n>> ELSE Append(f[n \div 10], n % 10)]
<1>1. \A n \in Nat : Approximates(A(n), n)
  BY Approximation
<1> HIDE DEF A
<1>2. ASSUME NEW n \in Nat PROVE limit[n] = RecursionStep(limit, n)
  <2>1. limit[n] = RecursionStep(A(n), n)
    BY <1>1 DEF Approximates
  <2>2. CASE n < 10
    BY <2>1, <2>2 DEF RecursionStep
  <2>3. CASE n >= 10
    <3>1. n \div 10 \in Nat /\ n \div 10 <= n
      BY <2>3, Tenth
    <3>2. A(n)[n \div 10] = A(n \div 10)[n \div 10]
      BY <1>1, <3>1, ApproximationsAgree
    <3> QED
      BY <2>1, <2>3, <3>1, <3>2 DEF RecursionStep
  <2> QED
    BY <2>2, <2>3
<1>3. Solves(limit)
  BY <1>2 DEF RecursionStep
<1>4. Digits = CHOOSE f : Solves(f)
  BY DEF Digits
<1> HIDE DEF limit
<1>5. Solves(Digits)
  BY <1>3, <1>4
<1> QED
  BY <1>5 DEF RecursionStep

\* The digits of a number below ten, and of any other.
LEMMA OneDigit ==
    ASSUME NEW n \in Nat, n < 10
    PROVE  Digits[n] = <<n>> /\ Digits[n] \in Seq(Nat) /\ Width(n) = 1 /\ Digits[n][1] = n
<1>1. Digits[n] = RecursionStep(Digits, n)
  BY DigitsEquation
<1>2. Digits[n] = <<n>>
  BY <1>1 DEF RecursionStep
<1>3. <<n>> \in Seq(Nat) /\ Len(<<n>>) = 1 /\ <<n>>[1] = n
  OBVIOUS
<1> QED
  BY <1>2, <1>3 DEF Width

LEMMA ManyDigits ==
    ASSUME NEW n \in Nat, n >= 10
    PROVE  Digits[n] = Append(Digits[n \div 10], n % 10)
<1>1. Digits[n] = RecursionStep(Digits, n)
  BY DigitsEquation
<1> QED
  BY <1>1 DEF RecursionStep

\* Digits are a sequence of numbers, and there is at least one.
LEMMA DigitsType == \A n \in Nat : Digits[n] \in Seq(Nat) /\ Digits[n] # << >>
<1> DEFINE S == {n \in Nat : \A k \in 0 .. n : Digits[k] \in Seq(Nat) /\ Digits[k] # << >>}
<1>1. 0 \in S
  <2>1. \A k \in 0 .. 0 : k = 0
    OBVIOUS
  <2> QED
    BY <2>1, OneDigit
<1>2. ASSUME NEW n \in Nat, n \in S PROVE n + 1 \in S
  <2>0. ASSUME Digits[n + 1] \in Seq(Nat), Digits[n + 1] # << >>
        PROVE  n + 1 \in S
    <3>1. \A k \in 0 .. n + 1 : k \in 0 .. n \/ k = n + 1
      OBVIOUS
    <3> QED
      BY <1>2, <2>0, <3>1
  <2>1. CASE n + 1 < 10
    BY <2>0, <2>1, OneDigit
  <2>2. CASE n + 1 >= 10
    <3>1. (n + 1) \div 10 \in 0 .. n /\ (n + 1) % 10 \in Nat
      BY <2>2, Tenth
    <3>2. Digits[(n + 1) \div 10] \in Seq(Nat)
      BY <1>2, <3>1
    <3>3. Digits[n + 1] = Append(Digits[(n + 1) \div 10], (n + 1) % 10)
      BY <2>2, ManyDigits
    <3> QED
      BY <2>0, <3>1, <3>2, <3>3
  <2> QED
    BY <2>1, <2>2
<1> HIDE DEF S
<1>3. Nat \subseteq S
  BY <1>1, <1>2, SetInduction
<1>4. ASSUME NEW n \in Nat PROVE Digits[n] \in Seq(Nat) /\ Digits[n] # << >>
  <2>1. n \in S /\ n \in 0 .. n
    BY <1>3
  <2> QED
    BY <2>1 DEF S
<1> QED
  BY <1>4

LEMMA WidthType == \A n \in Nat : Width(n) \in Nat \ {0}
<1> SUFFICES ASSUME NEW n \in Nat PROVE Width(n) \in Nat \ {0}
  OBVIOUS
<1>1. Digits[n] \in Seq(Nat) /\ Digits[n] # << >>
  BY DigitsType
<1>2. \A s \in Seq(Nat) : s # << >> => Len(s) \in Nat \ {0}
  OBVIOUS
<1> QED
  BY <1>1, <1>2 DEF Width

\* The digits of a tenth, then the last one.
LEMMA LastDigit ==
    ASSUME NEW n \in Nat, n >= 10
    PROVE  /\ Width(n) = Width(n \div 10) + 1
           /\ \A j \in 1 .. Width(n \div 10) : Digits[n][j] = Digits[n \div 10][j]
           /\ Digits[n][Width(n)] = n % 10
<1>1. n \div 10 \in Nat /\ n % 10 \in Nat
  BY Tenth
<1>2. \A s \in Seq(Nat), e \in Nat :
        /\ Len(Append(s, e)) = Len(s) + 1
        /\ \A j \in 1 .. Len(s) : Append(s, e)[j] = s[j]
        /\ Append(s, e)[Len(s) + 1] = e
  OBVIOUS
<1>3. Digits[n \div 10] \in Seq(Nat)
  BY <1>1, DigitsType
<1>4. Digits[n] = Append(Digits[n \div 10], n % 10)
  BY ManyDigits
<1> DEFINE s == Digits[n \div 10]  e == n % 10
<1>5. s \in Seq(Nat) /\ e \in Nat /\ Digits[n] = Append(s, e)
  BY <1>1, <1>3, <1>4
<1> HIDE DEF s, e
<1>6. /\ Len(Digits[n]) = Len(s) + 1
      /\ \A j \in 1 .. Len(s) : Digits[n][j] = s[j]
      /\ Digits[n][Len(s) + 1] = e
  BY <1>2, <1>5
<1> QED
  BY <1>6 DEF s, e, Width

\* Two numbers have the digits before k in common, and that of v is the lower.
Differ(v, w, k) ==
    /\ \A j \in 1 .. k - 1 : Digits[v][j] = Digits[w][j]
    /\ Digits[v][k] < Digits[w][k]

\* Numbers of one width differ in a digit.
Ordered(v, w) == SameWidth(v, w) /\ v < w => \E k \in 1 .. Width(w) : Differ(v, w, k)

\* The induction step, from the tenths of two numbers to the numbers.
LEMMA OneMoreDigit ==
    ASSUME NEW v \in Nat, NEW w \in Nat, \A y \in 0 .. w - 1, x \in Nat : Ordered(x, y)
    PROVE  Ordered(v, w)
<1> SUFFICES ASSUME SameWidth(v, w), v < w
             PROVE  \E k \in 1 .. Width(w) : Differ(v, w, k)
  BY DEF Ordered
<1>0. Width(v) = Width(w) /\ Width(w) \in Nat
  BY WidthType DEF SameWidth, Width
<1>1. CASE w < 10
  <2>1. Digits[v][1] = v /\ Digits[w][1] = w /\ Width(w) = 1
    BY <1>1, OneDigit
  <2>2. Differ(v, w, 1) /\ 1 \in 1 .. Width(w)
    BY <2>1 DEF Differ
  <2> QED
    BY <2>2
<1>2. CASE w >= 10
  <2> DEFINE x == v \div 10  y == w \div 10
  <2>1. v >= 10
    <3>1. w \div 10 \in Nat
      BY <1>2, Tenth
    <3>2. Width(w) # 1
      BY <1>2, <3>1, LastDigit, WidthType
    <3>3. v < 10 => Width(v) = 1
      BY OneDigit
    <3> QED
      BY <1>0, <3>2, <3>3
  <2>2. /\ x \in Nat /\ y \in 0 .. w - 1 /\ v % 10 \in 0 .. 9 /\ w % 10 \in 0 .. 9
        /\ v = 10 * x + (v % 10) /\ w = 10 * y + (w % 10)
    BY <1>2, <2>1, Tenth
  <2>3. x < y \/ (x = y /\ v % 10 < w % 10)
    BY <2>2
  <2>9. Width(v) = Width(x) + 1 /\ Width(w) = Width(y) + 1
    BY <1>2, <2>1, LastDigit
  <2>4. /\ \A j \in 1 .. Width(x) : Digits[v][j] = Digits[x][j]
        /\ \A j \in 1 .. Width(y) : Digits[w][j] = Digits[y][j]
        /\ Digits[v][Width(v)] = v % 10 /\ Digits[w][Width(w)] = w % 10
    BY <1>2, <2>1, LastDigit
  <2>5. Width(x) \in Nat /\ Width(y) \in Nat
    BY <2>2, WidthType
  <2> HIDE DEF x, y
  <2>6. Width(x) = Width(y)
    <3>1. \A a, b \in Nat : a + 1 = b + 1 => a = b
      OBVIOUS
    <3>2. Width(x) + 1 = Width(y) + 1
      BY <1>0, <2>9
    <3> QED
      BY <2>5, <3>1, <3>2
  <2>7. CASE x < y
    <3>1. PICK k \in 1 .. Width(y) : Differ(x, y, k)
      BY <1>0, <2>2, <2>6, <2>7 DEF Ordered, SameWidth, Width
    <3>2. k \in 1 .. Width(w)
      BY <2>5, <2>9
    <3>3. \A j \in 1 .. k : Digits[v][j] = Digits[x][j] /\ Digits[w][j] = Digits[y][j]
      BY <2>4, <2>5, <2>6
    <3>4. Differ(v, w, k)
      BY <3>1, <3>3 DEF Differ
    <3> QED
      BY <3>2, <3>4
  <2>8. CASE x = y /\ v % 10 < w % 10
    <3> DEFINE k == Width(w)
    <3>1. \A j \in 1 .. k - 1 : Digits[v][j] = Digits[w][j]
      BY <2>4, <2>5, <2>8, <2>9
    <3>2. Digits[v][k] < Digits[w][k] /\ k \in 1 .. k
      BY <2>4, <2>5, <2>6, <2>8, <2>9
    <3> QED
      BY <3>1, <3>2 DEF Differ
  <2> QED
    BY <2>3, <2>7, <2>8
<1> QED
  BY <1>1, <1>2

\* The first digit in which two numbers of one width differ is lower in the
\* lower number.
LEMMA AllOrdered == \A v, w \in Nat : Ordered(v, w)
<1> DEFINE S == {n \in Nat : \A w \in 0 .. n, v \in Nat : Ordered(v, w)}
<1>1. 0 \in S
  BY DEF Ordered
<1>2. ASSUME NEW n \in Nat, n \in S PROVE n + 1 \in S
  <2>1. \A w \in 0 .. (n + 1) - 1, v \in Nat : Ordered(v, w)
    BY <1>2
  <2>2. \A v \in Nat : Ordered(v, n + 1)
    BY <2>1, OneMoreDigit
  <2>3. \A w \in 0 .. n + 1 : w \in 0 .. n \/ w = n + 1
    OBVIOUS
  <2> QED
    BY <1>2, <2>2, <2>3
<1> HIDE DEF S
<1>3. Nat \subseteq S
  BY <1>1, <1>2, SetInduction
<1>4. ASSUME NEW v \in Nat, NEW w \in Nat PROVE Ordered(v, w)
  <2>1. w \in S /\ w \in 0 .. w
    BY <1>3
  <2> QED
    BY <2>1 DEF S
<1> QED
  BY <1>4

\* sort.Strings on the files puts migrations whose numbers have the same number
\* of digits in their numerical order: what the version order of applyDir rests
\* on, and all that does hold of it.
THEOREM SameWidthOrder ==
    \A v, w \in Nat : SameWidth(v, w) /\ v < w => Before(v, w) /\ ~Before(w, v)
<1> SUFFICES ASSUME NEW v \in Nat, NEW w \in Nat, SameWidth(v, w), v < w
             PROVE  Before(v, w) /\ ~Before(w, v)
  OBVIOUS
<1>1. PICK k \in 1 .. Len(Digits[w]) : Differ(v, w, k)
  BY AllOrdered DEF Ordered, Width
<1>2. Digits[v] \in Seq(Nat) /\ Digits[w] \in Seq(Nat) /\ Len(Digits[v]) = Len(Digits[w])
  BY DigitsType DEF SameWidth
<1>3. Before(v, w)
  <2>1. \A j \in 1 .. k - 1 : j <= Len(Digits[v]) /\ Digits[v][j] = Digits[w][j]
    BY <1>1, <1>2 DEF Differ
  <2> QED
    BY <1>1, <2>1 DEF Before, Differ
<1>4. ~Before(w, v)
  <2> SUFFICES ASSUME NEW i \in 1 .. Len(Digits[v]),
                      \A j \in 1 .. i - 1 : Digits[w][j] = Digits[v][j],
                      i > Len(Digits[w]) \/ Digits[w][i] < Digits[v][i]
               PROVE  FALSE
    BY DEF Before
  <2>1. Digits[w][i] < Digits[v][i]
    BY <1>2
  <2>2. \A s \in Seq(Nat) : \A j \in 1 .. Len(s) : s[j] \in Nat
    OBVIOUS
  <2>6. Digits[v][i] \in Nat /\ Digits[w][i] \in Nat /\ Digits[v][k] \in Nat /\ Digits[w][k] \in Nat
    BY <1>2, <2>2
  <2>3. CASE i < k
    BY <1>1, <2>1, <2>6, <2>3 DEF Differ
  <2>4. CASE i = k
    BY <1>1, <2>1, <2>6, <2>4 DEF Differ
  <2>5. CASE i > k
    BY <1>1, <2>1, <2>6, <2>5 DEF Differ
  <2> QED
    BY <2>3, <2>4, <2>5
<1> QED
  BY <1>3, <1>4

\* A set of numbers has a least one.
LEMMA Least ==
    ASSUME NEW T \in SUBSET Nat, T # {}
    PROVE  \E k \in T : \A j \in T : k <= j
<1> SUFFICES ASSUME \A k \in T : \E j \in T : j < k PROVE FALSE
  OBVIOUS
<1> DEFINE S == {n \in Nat : \A k \in 0 .. n : k \notin T}
<1>1. 0 \in S
  <2>1. 0 \notin T
    OBVIOUS
  <2> QED
    BY <2>1
<1>2. ASSUME NEW n \in Nat, n \in S PROVE n + 1 \in S
  <2>1. n + 1 \notin T
    BY <1>2
  <2>2. \A k \in 0 .. n + 1 : k \in 0 .. n \/ k = n + 1
    OBVIOUS
  <2> QED
    BY <1>2, <2>1, <2>2
<1> HIDE DEF S
<1>3. Nat \subseteq S
  BY <1>1, <1>2, SetInduction
<1>4. PICK n \in Nat : n \in T
  OBVIOUS
<1>5. n \in S /\ n \in 0 .. n
  BY <1>3
<1> QED
  BY <1>4, <1>5 DEF S

\* sort.Strings orders any two files, also of different widths, and its order
\* has no circles.
LEMMA ShorterOrLonger ==
    ASSUME NEW v \in Nat, NEW w \in Nat, Width(v) < Width(w)
    PROVE  Before(v, w) \/ Before(w, v)
<1> DEFINE a == Digits[v]  b == Digits[w]
           D == {k \in 1 .. Len(a) : a[k] # b[k]}
<1>1. a \in Seq(Nat) /\ b \in Seq(Nat) /\ Len(a) < Len(b)
  BY DigitsType DEF Width
<1>2. Before(v, w) <=> \E k \in 1 .. Len(b) :
        /\ \A j \in 1 .. k - 1 : j <= Len(a) /\ a[j] = b[j]
        /\ k > Len(a) \/ a[k] < b[k]
  BY DEF Before
<1>3. Before(w, v) <=> \E k \in 1 .. Len(a) :
        /\ \A j \in 1 .. k - 1 : j <= Len(b) /\ b[j] = a[j]
        /\ k > Len(b) \/ b[k] < a[k]
  BY DEF Before
<1> HIDE DEF a, b
<1>4. Len(a) \in Nat /\ Len(b) \in Nat
  BY <1>1
<1>5. CASE D = {}
  <2>1. Len(a) + 1 \in 1 .. Len(b) /\ \A j \in 1 .. Len(a) : a[j] = b[j]
    <3>1. \A j \in 1 .. Len(a) : a[j] = b[j]
      <4> SUFFICES ASSUME NEW j \in 1 .. Len(a), a[j] # b[j] PROVE j \in D
        BY <1>5
      <4> QED
        OBVIOUS
    <3>2. Len(a) + 1 \in 1 .. Len(b)
      BY <1>1, <1>4
    <3> QED
      BY <3>1, <3>2
  <2>2. \A j \in 1 .. (Len(a) + 1) - 1 : j <= Len(a) /\ a[j] = b[j]
    BY <1>4, <2>1
  <2> QED
    BY <1>2, <1>4, <2>1, <2>2
<1>6. CASE D # {}
  <2>1. PICK k \in D : \A j \in D : k <= j
    <3>1. D \in SUBSET Nat
      BY <1>4
    <3> QED
      BY <1>6, <3>1, Least
  <2>2. \A j \in 1 .. k - 1 : j <= Len(a) /\ j <= Len(b) /\ a[j] = b[j]
    BY <1>1, <1>4, <2>1
  <2>3. k \in 1 .. Len(a) /\ k \in 1 .. Len(b) /\ a[k] # b[k] /\ a[k] \in Nat /\ b[k] \in Nat
    BY <1>1, <1>4, <2>1
  <2>4. a[k] < b[k] \/ b[k] < a[k]
    BY <2>3
  <2> QED
    BY <1>2, <1>3, <2>2, <2>3, <2>4
<1> QED
  BY <1>5, <1>6

LEMMA BeforeTotal == \A v, w \in Nat : v # w => Before(v, w) \/ Before(w, v)
<1> SUFFICES ASSUME NEW v \in Nat, NEW w \in Nat, v # w PROVE Before(v, w) \/ Before(w, v)
  OBVIOUS
<1>1. Width(v) \in Nat /\ Width(w) \in Nat
  BY WidthType
<1>2. CASE Width(v) = Width(w)
  <2>1. SameWidth(v, w) /\ SameWidth(w, v)
    BY <1>2 DEF SameWidth, Width
  <2>2. v < w \/ w < v
    OBVIOUS
  <2> QED
    BY <2>1, <2>2, SameWidthOrder
<1>3. CASE Width(v) # Width(w)
  <2>1. Width(v) < Width(w) \/ Width(w) < Width(v)
    BY <1>1, <1>3
  <2> QED
    BY <2>1, ShorterOrLonger
<1> QED
  BY <1>2, <1>3

LEMMA BeforeTransitive ==
    ASSUME NEW u \in Nat, NEW v \in Nat, NEW w \in Nat, Before(u, v), Before(v, w)
    PROVE  Before(u, w)
<1> DEFINE a == Digits[u]  b == Digits[v]  c == Digits[w]
<1>1. a \in Seq(Nat) /\ b \in Seq(Nat) /\ c \in Seq(Nat)
  BY DigitsType
<1>2. PICK i \in 1 .. Len(b) :
        /\ \A j \in 1 .. i - 1 : j <= Len(a) /\ a[j] = b[j]
        /\ i > Len(a) \/ a[i] < b[i]
  BY DEF Before
<1>3. PICK k \in 1 .. Len(c) :
        /\ \A j \in 1 .. k - 1 : j <= Len(b) /\ b[j] = c[j]
        /\ k > Len(b) \/ b[k] < c[k]
  BY DEF Before
<1>4. Before(u, w) <=> \E m \in 1 .. Len(c) :
        /\ \A j \in 1 .. m - 1 : j <= Len(a) /\ a[j] = c[j]
        /\ m > Len(a) \/ a[m] < c[m]
  BY DEF Before
<1> HIDE DEF a, b, c
<1>5. Len(a) \in Nat /\ Len(b) \in Nat /\ Len(c) \in Nat
  BY <1>1
<1>6. CASE i < k
  <2>1. i \in 1 .. Len(c) /\ b[i] = c[i] /\ \A j \in 1 .. i - 1 : j <= Len(a) /\ a[j] = c[j]
    BY <1>2, <1>3, <1>5, <1>6
  <2> QED
    BY <1>2, <1>4, <2>1
<1>7. CASE i = k
  <2>1. \A j \in 1 .. k - 1 : j <= Len(a) /\ a[j] = c[j]
    BY <1>2, <1>3, <1>5, <1>7
  <2>2. b[k] < c[k]
    BY <1>2, <1>3, <1>5, <1>7
  <2>3. k <= Len(a) => a[k] \in Nat /\ b[k] \in Nat /\ c[k] \in Nat
    <3>1. \A s \in Seq(Nat) : \A j \in 1 .. Len(s) : s[j] \in Nat
      OBVIOUS
    <3>2. k \in 1 .. Len(b) /\ k \in 1 .. Len(c) /\ (k <= Len(a) => k \in 1 .. Len(a))
      BY <1>5, <1>7
    <3> QED
      BY <1>1, <3>1, <3>2
  <2>4. k > Len(a) \/ a[k] < c[k]
    BY <1>2, <1>5, <1>7, <2>2, <2>3
  <2> QED
    BY <1>4, <2>1, <2>4
<1>8. CASE k < i
  <2>1. k <= Len(a) /\ a[k] = b[k] /\ \A j \in 1 .. k - 1 : j <= Len(a) /\ a[j] = c[j]
    BY <1>2, <1>3, <1>5, <1>8
  <2>2. b[k] < c[k]
    BY <1>2, <1>3, <1>5, <1>8
  <2> QED
    BY <1>4, <2>1, <2>2
<1> QED
  BY <1>5, <1>6, <1>7, <1>8

\* So any files have a first one.
FirstOf(T, v) == v \in T /\ \A w \in T \ {v} : Before(v, w)

LEMMA FirstExists ==
    ASSUME NEW T \in SUBSET Nat, IsFiniteSet(T), T # {}
    PROVE  \E v \in T : FirstOf(T, v)
<1> DEFINE S == {n \in Nat : \A U \in SUBSET Nat :
                    IsFiniteSet(U) /\ Cardinality(U) = n + 1 => \E v \in U : FirstOf(U, v)}
<1>1. 0 \in S
  <2> SUFFICES ASSUME NEW U \in SUBSET Nat, IsFiniteSet(U), Cardinality(U) = 1
               PROVE  \E v \in U : FirstOf(U, v)
    OBVIOUS
  <2>1. PICK v : U = {v}
    BY FS_Singleton
  <2> QED
    BY <2>1 DEF FirstOf
<1>2. ASSUME NEW n \in Nat, n \in S PROVE n + 1 \in S
  <2> SUFFICES ASSUME NEW U \in SUBSET Nat, IsFiniteSet(U), Cardinality(U) = (n + 1) + 1
               PROVE  \E v \in U : FirstOf(U, v)
    OBVIOUS
  <2>1. PICK x \in U : TRUE
    <3>1. Cardinality(U) # 0
      BY <1>2
    <3>2. U # {}
      BY <3>1, FS_EmptySet
    <3> QED
      BY <3>2
  <2>2. IsFiniteSet(U \ {x}) /\ Cardinality(U \ {x}) = n + 1
    BY <2>1, FS_RemoveElement
  <2>3. PICK m \in U \ {x} : FirstOf(U \ {x}, m)
    <3>1. U \ {x} \in SUBSET Nat
      OBVIOUS
    <3> QED
      BY <1>2, <2>2, <3>1
  <2>4. Before(x, m) \/ Before(m, x)
    BY <2>3, BeforeTotal
  <2>5. CASE Before(m, x)
    BY <2>3, <2>5 DEF FirstOf
  <2>6. CASE Before(x, m)
    <3>1. ASSUME NEW w \in U \ {x} PROVE Before(x, w)
      <4>1. w = m \/ Before(m, w)
        BY <2>3 DEF FirstOf
      <4>2. x \in Nat /\ m \in Nat /\ w \in Nat
        BY <2>3
      <4> QED
        BY <2>6, <4>1, <4>2, BeforeTransitive
    <3> QED
      BY <3>1 DEF FirstOf
  <2> QED
    BY <2>4, <2>5, <2>6
<1> HIDE DEF S
<1>3. Nat \subseteq S
  BY <1>1, <1>2, SetInduction
<1>4. Cardinality(T) \in Nat /\ Cardinality(T) # 0
  BY FS_CardinalityType, FS_EmptySet
<1>5. Cardinality(T) - 1 \in S /\ (Cardinality(T) - 1) + 1 = Cardinality(T)
  BY <1>3, <1>4
<1> QED
  BY <1>5 DEF S

-----------------------------------------------------------------------------
(* The invariants.                                                         *)

Applying(r) == pc[r] \in {"executing", "recording", "committing"}

\* A runtime works on the schemas of its tenant with the files of its release.
PlaceOK ==
    \A r \in Runtimes :
        /\ schema[r] \in {Public, TenantOf[r]}
        /\ todo[r] \subseteq Known[r]
        /\ Applying(r) => current[r] \in Known[r]

\* Open transactions hold the unique index: what one of them has inserted is
\* neither recorded nor inserted by another.
LockOK ==
    \A r \in Runtimes : pc[r] = "committing" =>
        /\ current[r] \notin recorded[schema[r]]
        /\ \A q \in Runtimes \ {r} : ~Inserted(q, schema[r], current[r])

\* What a runtime has behind it is recorded.
DoneOK ==
    \A r \in Runtimes :
        /\ pc[r] = "checking" => Known[r] \ todo[r] \subseteq recorded[schema[r]]
        /\ Applying(r) => Known[r] \ (todo[r] \union {current[r]}) \subseteq recorded[schema[r]]
        /\ schema[r] # Public => Known[r] \subseteq recorded[Public]
        /\ pc[r] = "up" => Known[r] \subseteq recorded[Public] \intersect recorded[TenantOf[r]]

\* A migration follows the lower ones of its width, in what is recorded and in
\* what is about to be.
OrderOK ==
    /\ \A r \in Runtimes : Applying(r) =>
         \A w \in Known[r] : w < current[r] /\ SameWidth(current[r], w) => w \in recorded[schema[r]]
    /\ \A s \in Schemas : \A v \in recorded[s], w \in Versions :
         w < v /\ SameWidth(v, w) => w \in recorded[s]
    /\ \A s \in Schemas : \A i \in 1 .. Len(log[s]) : log[s][i] \in recorded[s]
    /\ VersionOrder

IInv == TypeOK /\ PlaceOK /\ LockOK /\ DoneOK /\ OrderOK

USE DEF Goto, Abort, database, locals, vars

-----------------------------------------------------------------------------

\* Having the same width is symmetric.
LEMMA WidthSymmetric ==
    ASSUME NEW v, NEW w, SameWidth(v, w)
    PROVE  SameWidth(w, v)
  BY DEF SameWidth

\* Nothing is done, and nothing is recorded.
LEMMA InitInv == Init => IInv
  <1> SUFFICES ASSUME Init PROVE IInv
    OBVIOUS
  <1> USE ConstantsAssumption
  <1>1. TypeOK
    BY SMTT(30) DEF Init, TypeOK, Labels, Schemas, NoFile
  <1>2. PlaceOK /\ LockOK /\ DoneOK
    BY DEF Init, PlaceOK, LockOK, DoneOK, Applying
  <1>3. OrderOK
    BY SMTT(30) DEF Init, OrderOK, Applying, VersionOrder, Schemas
  <1> QED
    BY <1>1, <1>2, <1>3 DEF IInv

(* The outcomes of a step, one definition for each branch that the          *)
(* invariants tell apart.                                                  *)
Rows == <<recorded, log>>

Moves(r) ==
    /\ pc[r] \in {"down", "path", "schema"}
    /\ \E label \in {"path", "schema", "table"} : Goto(r, label)
    /\ UNCHANGED <<Rows, locals>>

GivesUp(r) == Abort(r) /\ UNCHANGED Rows

EntersDir(r) ==
    /\ pc[r] = "table" /\ Goto(r, "checking")
    /\ todo' = [todo EXCEPT ![r] = Known[r]]
    /\ UNCHANGED <<Rows, schema, current>>

Skips(r, v) ==
    /\ pc[r] = "checking" /\ v \in recorded[schema[r]]
    /\ todo' = [todo EXCEPT ![r] = @ \ {v}]
    /\ UNCHANGED <<Rows, pc, schema, current>>

Picks(r, v) ==
    /\ pc[r] = "checking" /\ First(r, v) /\ v \notin recorded[schema[r]]
    /\ todo' = [todo EXCEPT ![r] = @ \ {v}]
    /\ Goto(r, "executing") /\ current' = [current EXCEPT ![r] = v]
    /\ UNCHANGED <<Rows, schema>>

LeavesPublic(r) ==
    /\ pc[r] = "checking" /\ todo[r] = {} /\ schema[r] = Public
    /\ Goto(r, "path") /\ schema' = [schema EXCEPT ![r] = TenantOf[r]]
    /\ UNCHANGED <<Rows, todo, current>>

ComesUp(r) ==
    /\ pc[r] = "checking" /\ todo[r] = {} /\ schema[r] # Public
    /\ Goto(r, "up") /\ schema' = [schema EXCEPT ![r] = Public]
    /\ UNCHANGED <<Rows, todo, current>>

Inserts(r) ==
    /\ pc[r] = "recording" /\ current[r] \notin recorded[schema[r]]
    /\ ~ \E q \in Runtimes : Inserted(q, schema[r], current[r])
    /\ Goto(r, "committing")
    /\ UNCHANGED <<Rows, locals>>

Outcome(r) ==
    \/ Moves(r) \/ GivesUp(r) \/ EntersDir(r) \/ LeavesPublic(r) \/ ComesUp(r) \/ Inserts(r)
    \/ Execute(r) \/ Commit(r) \/ CommitLost(r)
    \/ \E v \in todo[r] : Skips(r, v) \/ Picks(r, v)

\* A step has one of the outcomes.
LEMMA Outcomes ==
    ASSUME NEW r \in Runtimes, Step(r) \/ SetPathFails(r) \/ Fail(r) \/ CommitLost(r)
    PROVE  Outcome(r)
  <1> USE DEF Rows
  <1>1. CASE Open(r) \/ SetPath(r) \/ SetPathFails(r) \/ CreateSchema(r)
    BY <1>1 DEF Open, SetPath, SetPathFails, CreateSchema, Outcome, Moves
  <1>2. CASE CreateTable(r)
    <2>1. CASE schema[r] \in exists
      BY <1>2, <2>1 DEF CreateTable, Outcome, EntersDir
    <2>2. CASE schema[r] \notin exists
      BY <1>2, <2>2 DEF CreateTable, Outcome, GivesUp
    <2> QED
      BY <2>1, <2>2
  <1>3. CASE Check(r)
    <2>1. PICK v \in todo[r] :
            /\ First(r, v)
            /\ todo' = [todo EXCEPT ![r] = @ \ {v}]
            /\ IF v \in recorded[schema[r]]
               THEN UNCHANGED <<pc, current>>
               ELSE Goto(r, "executing") /\ current' = [current EXCEPT ![r] = v]
      BY <1>3 DEF Check
    <2>2. CASE v \in recorded[schema[r]]
      <3>1. Skips(r, v)
        BY <1>3, <2>1, <2>2 DEF Check, Skips
      <3> QED
        BY <3>1 DEF Outcome
    <2>3. CASE v \notin recorded[schema[r]]
      <3>1. Picks(r, v)
        BY <1>3, <2>1, <2>3 DEF Check, Picks
      <3> QED
        BY <3>1 DEF Outcome
    <2> QED
      BY <2>2, <2>3
  <1>4. CASE EndDir(r)
    <2>1. CASE schema[r] = Public
      BY <1>4, <2>1 DEF EndDir, Outcome, LeavesPublic
    <2>2. CASE schema[r] # Public
      BY <1>4, <2>2 DEF EndDir, Outcome, ComesUp
    <2> QED
      BY <2>1, <2>2
  <1>5. CASE Record(r)
    <2>1. CASE current[r] \in recorded[schema[r]]
      BY <1>5, <2>1 DEF Record, Outcome, GivesUp
    <2>2. CASE current[r] \notin recorded[schema[r]]
      BY <1>5, <2>2 DEF Record, Outcome, Inserts
    <2> QED
      BY <2>1, <2>2
  <1>6. CASE Fail(r)
    BY <1>6 DEF Fail, Outcome, GivesUp
  <1>7. CASE Execute(r) \/ Commit(r) \/ CommitLost(r)
    BY <1>7 DEF Outcome
  <1> QED
    BY <1>1, <1>2, <1>3, <1>4, <1>5, <1>6, <1>7 DEF Step

\* Types are kept by every step; a migration that is applied is a known one.
LEMMA TypeStep == TypeOK /\ PlaceOK /\ [Next]_vars => TypeOK'
  <1> SUFFICES ASSUME TypeOK, PlaceOK, [Next]_vars PROVE TypeOK'
    OBVIOUS
  <1> USE ConstantsAssumption DEF TypeOK, Labels, Schemas, NoFile
  <1>1. CASE UNCHANGED vars
    BY <1>1
  <1>2. ASSUME NEW r \in Runtimes, Step(r) \/ SetPathFails(r) \/ Fail(r) \/ CommitLost(r)
        PROVE  TypeOK'
    <2>1. CASE Open(r)
      BY <2>1 DEF Open
    <2>2. CASE SetPath(r)
      BY <2>2 DEF SetPath
    <2>3. CASE SetPathFails(r)
      BY <2>3 DEF SetPathFails
    <2>4. CASE CreateSchema(r)
      BY <2>4 DEF CreateSchema
    <2>5. CASE CreateTable(r)
      <3>1. CASE schema[r] \in exists
        <4>1. Known[r] \subseteq Versions
          OBVIOUS
        <4>2. todo' \in [Runtimes -> SUBSET Versions]
          BY <2>5, <3>1, <4>1 DEF CreateTable
        <4>3. tables' \subseteq Schemas
          BY <2>5, <3>1 DEF CreateTable
        <4>4. pc' \in [Runtimes -> Labels]
          BY <2>5, <3>1 DEF CreateTable
        <4> QED
          BY <2>5, <3>1, <4>2, <4>3, <4>4 DEF CreateTable
      <3>2. CASE schema[r] \notin exists
        <4>1. pc' \in [Runtimes -> Labels]
          BY <2>5, <3>2 DEF CreateTable
        <4>2. schema' \in [Runtimes -> Schemas]
          BY <2>5, <3>2 DEF CreateTable
        <4>3. todo' \in [Runtimes -> SUBSET Versions]
          BY <2>5, <3>2 DEF CreateTable
        <4>4. current' \in [Runtimes -> Versions \union {NoFile}]
          BY <2>5, <3>2 DEF CreateTable
        <4>5. UNCHANGED <<exists, tables, recorded, log, fails>>
          BY <2>5, <3>2 DEF CreateTable
        <4> QED
          BY <4>1, <4>2, <4>3, <4>4, <4>5
      <3> QED
        BY <3>1, <3>2
    <2>6. CASE Check(r)
      <3>1. PICK v \in todo[r] :
              /\ todo' = [todo EXCEPT ![r] = @ \ {v}]
              /\ IF v \in recorded[schema[r]]
                 THEN UNCHANGED <<pc, current>>
                 ELSE Goto(r, "executing") /\ current' = [current EXCEPT ![r] = v]
        BY <2>6 DEF Check
      <3>2. CASE v \in recorded[schema[r]]
        BY <2>6, <3>1, <3>2 DEF Check
      <3>3. CASE v \notin recorded[schema[r]]
        <4>1. /\ todo' = [todo EXCEPT ![r] = @ \ {v}]
              /\ pc' = [pc EXCEPT ![r] = "executing"]
              /\ current' = [current EXCEPT ![r] = v]
          BY <3>1, <3>3
        <4>2. todo' \in [Runtimes -> SUBSET Versions]
          BY <4>1
        <4>3. pc' \in [Runtimes -> Labels]
          BY <4>1
        <4>4. current' \in [Runtimes -> Versions \union {NoFile}]
          BY <4>1
        <4> QED
          BY <2>6, <4>2, <4>3, <4>4 DEF Check
      <3> QED
        BY <3>2, <3>3
    <2>7. CASE EndDir(r)
      <3>1. CASE schema[r] = Public
        BY <2>7, <3>1 DEF EndDir
      <3>2. CASE schema[r] # Public
        BY <2>7, <3>2 DEF EndDir
      <3> QED
        BY <3>1, <3>2
    <2>8. CASE Execute(r)
      BY <2>8 DEF Execute
    <2>9. CASE Record(r)
      <3>1. CASE current[r] \in recorded[schema[r]]
        <4>1. pc' \in [Runtimes -> Labels]
          BY <2>9, <3>1 DEF Record
        <4>2. schema' \in [Runtimes -> Schemas]
          BY <2>9, <3>1 DEF Record
        <4>3. todo' \in [Runtimes -> SUBSET Versions]
          BY <2>9, <3>1 DEF Record
        <4>4. current' \in [Runtimes -> Versions \union {NoFile}]
          BY <2>9, <3>1 DEF Record
        <4>5. UNCHANGED <<exists, tables, recorded, log, fails>>
          BY <2>9 DEF Record
        <4> QED
          BY <4>1, <4>2, <4>3, <4>4, <4>5
      <3>2. CASE current[r] \notin recorded[schema[r]]
        <4>1. UNCHANGED <<exists, tables, recorded, log, schema, todo, current, fails>>
          BY <2>9, <3>2 DEF Record
        <4>2. pc' \in [Runtimes -> Labels]
          BY <2>9, <3>2, ZenonT(30) DEF Record
        <4> QED
          BY <4>1, <4>2
      <3> QED
        BY <3>1, <3>2
    <2>10. ASSUME Committed(r)
           PROVE  /\ log' \in [Schemas -> Seq(Versions)]
                  /\ recorded' \in [Schemas -> SUBSET Versions]
      <3>1. current[r] \in Versions
        BY <2>10 DEF Committed, PlaceOK, Applying
      <3> QED
        BY <2>10, <3>1, SMTT(30) DEF Committed
    <2>11. CASE Commit(r)
      BY <2>10, <2>11, SMTT(30) DEF Commit, Committed
    <2>12. CASE Fail(r)
      BY <2>12, SMTT(30) DEF Fail
    <2>13. CASE CommitLost(r)
      BY <2>10, <2>13, SMTT(30) DEF CommitLost, Committed
    <2> QED
      BY <1>2, <2>1, <2>2, <2>3, <2>4, <2>5, <2>6, <2>7, <2>8, <2>9, <2>11, <2>12, <2>13 DEF Step
  <1> QED
    BY <1>1, <1>2 DEF Next

\* The schema and the files of a runtime are changed by its own steps only.
LEMMA PlaceStep ==
    ASSUME TypeOK, PlaceOK, NEW r \in Runtimes, Outcome(r)
    PROVE  PlaceOK'
  <1> USE ConstantsAssumption DEF PlaceOK, Applying, TypeOK
  <1>1. CASE Moves(r) \/ Inserts(r) \/ Execute(r)
    BY <1>1 DEF Moves, Inserts, Execute
  <1>2. CASE GivesUp(r) \/ CommitLost(r)
    BY <1>2, ZenonT(30) DEF GivesUp, CommitLost
  <1>3. CASE EntersDir(r) \/ LeavesPublic(r) \/ ComesUp(r)
    <2>1. CASE EntersDir(r)
      BY <2>1 DEF EntersDir
    <2>2. CASE LeavesPublic(r)
      BY <2>2 DEF LeavesPublic
    <2>3. CASE ComesUp(r)
      BY <2>3 DEF ComesUp
    <2> QED
      BY <1>3, <2>1, <2>2, <2>3
  <1>4. ASSUME NEW v \in todo[r], Skips(r, v) PROVE PlaceOK'
    BY <1>4 DEF Skips
  <1>5. ASSUME NEW v \in todo[r], Picks(r, v) PROVE PlaceOK'
    BY <1>5 DEF Picks
  <1>6. CASE Commit(r)
    BY <1>6 DEF Commit, Committed
  <1> QED
    BY <1>1, <1>2, <1>3, <1>4, <1>6, <1>5 DEF Outcome

\* A runtime inserts what no other has inserted, and only then can its name
\* become recorded.
LEMMA LockStep ==
    ASSUME TypeOK, LockOK, NEW r \in Runtimes, Outcome(r)
    PROVE  LockOK'
  <1> USE DEF LockOK, Inserted, TypeOK, Rows
  <1>1. CASE Moves(r) \/ Inserts(r) \/ Execute(r)
    BY <1>1, ZenonT(30) DEF Moves, Inserts, Execute
  <1>2. CASE GivesUp(r) \/ EntersDir(r) \/ LeavesPublic(r) \/ ComesUp(r)
    <2>1. CASE GivesUp(r)
      BY <2>1 DEF GivesUp
    <2>2. CASE EntersDir(r)
      BY <2>2 DEF EntersDir
    <2>3. CASE LeavesPublic(r)
      BY <2>3 DEF LeavesPublic
    <2>4. CASE ComesUp(r)
      BY <2>4 DEF ComesUp
    <2> QED
      BY <1>2, <2>1, <2>2, <2>3, <2>4
  <1>3. ASSUME NEW v \in todo[r], Skips(r, v) PROVE LockOK'
    BY <1>3 DEF Skips
  <1>4. ASSUME NEW v \in todo[r], Picks(r, v) PROVE LockOK'
    BY <1>4 DEF Picks
  <1>5. ASSUME Committed(r), pc' = [pc EXCEPT ![r] = pc'[r]], pc'[r] # "committing",
               \A q \in Runtimes \ {r} : schema'[q] = schema[q] /\ current'[q] = current[q]
        PROVE  LockOK'
    <2> SUFFICES ASSUME NEW q \in Runtimes, pc'[q] = "committing"
                 PROVE  /\ current'[q] \notin recorded'[schema'[q]]
                        /\ \A p \in Runtimes \ {q} :
                              ~(pc'[p] = "committing" /\ schema'[p] = schema'[q]
                                                      /\ current'[p] = current'[q])
      OBVIOUS
    <2>1. q # r /\ pc[q] = "committing" /\ schema'[q] = schema[q] /\ current'[q] = current[q]
      BY <1>5
    <2>2. current[q] \notin recorded'[schema[q]]
      BY <1>5, <2>1 DEF Committed
    <2>3. ASSUME NEW p \in Runtimes \ {q},
                 pc'[p] = "committing", schema'[p] = schema'[q], current'[p] = current'[q]
          PROVE  FALSE
      <3>1. p # r /\ pc[p] = "committing" /\ schema[p] = schema[q] /\ current[p] = current[q]
        BY <1>5, <2>1, <2>3
      <3>2. ~Inserted(p, schema[q], current[q])
        BY <2>1
      <3> QED
        BY <3>1, <3>2
    <2> QED
      BY <2>1, <2>2, <2>3
  <1>6. CASE Commit(r)
    BY <1>5, <1>6 DEF Commit, Committed
  <1>7. CASE CommitLost(r)
    BY <1>5, <1>7 DEF CommitLost, Committed
  <1> QED
    BY <1>1, <1>2, <1>3, <1>6, <1>7, <1>4 DEF Outcome

\* Rows are never deleted: what is done stays done.
LEMMA DoneStep ==
    ASSUME TypeOK, PlaceOK, DoneOK, NEW r \in Runtimes, Outcome(r)
    PROVE  DoneOK'
  <1> USE ConstantsAssumption DEF DoneOK, PlaceOK, Applying, TypeOK, Rows
  <1>1. CASE Moves(r) \/ Inserts(r) \/ Execute(r)
    <2>1. CASE Moves(r)
      BY <2>1 DEF Moves
    <2>2. CASE Inserts(r)
      BY <2>2 DEF Inserts
    <2>3. CASE Execute(r)
      BY <2>3 DEF Execute
    <2> QED
      BY <1>1, <2>1, <2>2, <2>3
  <1>2. CASE GivesUp(r)
    BY <1>2 DEF GivesUp
  <1>3. CASE EntersDir(r)
    BY <1>3 DEF EntersDir
  <1>4. CASE LeavesPublic(r)
    BY <1>4 DEF LeavesPublic
  <1>5. CASE ComesUp(r)
    BY <1>5 DEF ComesUp
  <1>6. ASSUME NEW v \in todo[r], Skips(r, v) PROVE DoneOK'
    BY <1>6 DEF Skips
  <1>7. ASSUME NEW v \in todo[r], Picks(r, v) PROVE DoneOK'
    BY <1>7 DEF Picks
  <1>8. CASE Commit(r)
    BY <1>8 DEF Commit, Committed
  <1>9. CASE CommitLost(r)
    BY <1>9 DEF CommitLost, Committed
  <1> QED
    BY <1>1, <1>2, <1>3, <1>4, <1>5, <1>6, <1>8, <1>9, <1>7 DEF Outcome
\* A migration that is about to be recorded has nothing lower behind it, and
\* nothing higher of its width before it.
LEMMA OrderStep ==
    ASSUME TypeOK, TypeOK', PlaceOK, LockOK, DoneOK, OrderOK, NEW r \in Runtimes, Outcome(r)
    PROVE  OrderOK'
  <1> DEFINE LowerDone(q) ==
        Applying(q) => \A w \in Known[q] :
            w < current[q] /\ SameWidth(current[q], w) => w \in recorded[schema[q]]
  <1> USE ConstantsAssumption DEF TypeOK, Rows
  <1>1. ASSUME UNCHANGED Rows, \A q \in Runtimes : LowerDone(q)'
        PROVE  OrderOK'
    BY <1>1 DEF OrderOK, VersionOrder, Applying
  <1>2. \A q \in Runtimes : LowerDone(q)
    BY DEF OrderOK
  <1>3. CASE Moves(r) \/ Inserts(r) \/ Execute(r)
    BY <1>1, <1>2, <1>3 DEF Moves, Inserts, Execute, Applying
  <1>4. CASE GivesUp(r) \/ EntersDir(r) \/ LeavesPublic(r) \/ ComesUp(r)
    <2>1. CASE GivesUp(r)
      BY <1>1, <1>2, <2>1 DEF GivesUp, Applying
    <2>2. CASE EntersDir(r)
      BY <1>1, <1>2, <2>2 DEF EntersDir, Applying
    <2>3. CASE LeavesPublic(r)
      BY <1>1, <1>2, <2>3 DEF LeavesPublic, Applying
    <2>4. CASE ComesUp(r)
      BY <1>1, <1>2, <2>4 DEF ComesUp, Applying
    <2> QED
      BY <1>4, <2>1, <2>2, <2>3, <2>4
  <1>5. ASSUME NEW v \in todo[r], Skips(r, v) PROVE OrderOK'
    BY <1>1, <1>2, <1>5 DEF Skips, Applying
  <1>6. ASSUME NEW v \in todo[r], Picks(r, v) PROVE OrderOK'
    <2>1. ASSUME NEW w \in Known[r], w < v, SameWidth(v, w)
          PROVE  w \in recorded[schema[r]]
      <3>1. v \in Versions /\ w \in Versions
        OBVIOUS
      <3>2. ~Before(v, w)
        BY <2>1, <3>1, WidthSymmetric, SameWidthOrder, ConstantsAssumption
      <3>3. w # v
        BY <2>1, <3>1
      <3>4. w \notin todo[r]
        BY <1>6, <3>2, <3>3 DEF Picks, First
      <3> QED
        BY <1>6, <3>4 DEF Picks, DoneOK
    <2>2. LowerDone(r)'
      BY <1>6, <2>1 DEF Picks
    <2>3. ASSUME NEW q \in Runtimes, q # r PROVE LowerDone(q)'
      BY <1>2, <1>6, <2>3 DEF Picks, Applying
    <2> QED
      BY <1>1, <1>6, <2>2, <2>3 DEF Picks
  <1>7. CASE Commit(r) \/ CommitLost(r)
    <2> DEFINE s == schema[r]  v == current[r]
    <2>1. /\ Committed(r)
          /\ ~Applying(r)'
          /\ \A q \in Runtimes \ {r} : /\ pc'[q] = pc[q] /\ schema'[q] = schema[q]
                                       /\ current'[q] = current[q]
      BY <1>7 DEF Commit, CommitLost, Committed, Applying
    <2>2. /\ s \in Schemas /\ v \in Known[r] /\ v \in Versions /\ v \notin recorded[s]
          /\ pc[r] = "committing"
      BY <2>1 DEF Committed, PlaceOK, LockOK, Applying
    <2>3. /\ log' = [log EXCEPT ![s] = Append(@, v)]
          /\ recorded' = [recorded EXCEPT ![s] = @ \union {v}]
      BY <2>1 DEF Committed
    <2>4. \A u \in Schemas : recorded[u] \subseteq recorded'[u]
      BY <2>2, <2>3
    <2>5. \A q \in Runtimes : LowerDone(q)'
      BY <1>2, <2>1, <2>4 DEF Applying
    <2>6. ASSUME NEW w \in Versions, w < v, SameWidth(v, w) PROVE w \in recorded[s]
      <3>1. w \in Known[r]
        BY <2>2, <2>6
      <3> QED
        BY <1>2, <2>2, <2>6, <3>1 DEF Applying
    <2>7. ASSUME NEW w \in recorded[s], SameWidth(w, v) PROVE w < v
      <3>1. w \in Versions /\ w # v
        BY <2>2
      <3>2. ~(v < w)
        BY <2>2, <2>7, <3>1 DEF OrderOK
      <3>3. v \in Nat /\ w \in Nat
        BY <2>2, <3>1
      <3> HIDE DEF v
      <3> QED
        BY <3>1, <3>2, <3>3
    <2>8. \A u \in Schemas : \A x \in recorded'[u], w \in Versions :
            w < x /\ SameWidth(x, w) => w \in recorded'[u]
      <3> SUFFICES ASSUME NEW u \in Schemas, NEW x \in recorded'[u], NEW w \in Versions,
                          w < x, SameWidth(x, w)
                   PROVE  w \in recorded'[u]
        OBVIOUS
      <3>1. CASE x \in recorded[u]
        BY <2>4, <3>1 DEF OrderOK
      <3>2. CASE x \notin recorded[u]
        BY <2>2, <2>3, <2>4, <2>6, <3>2
      <3> QED
        BY <3>1, <3>2
    <2>9. \A u \in Schemas : /\ log[u] \in Seq(Versions) /\ u # s => log'[u] = log[u]
                             /\ u = s => log'[u] = Append(log[u], v)
      BY <2>2, <2>3
    <2>10. \A u \in Schemas : \A i \in 1 .. Len(log'[u]) : log'[u][i] \in recorded'[u]
      <3> SUFFICES ASSUME NEW u \in Schemas, NEW i \in 1 .. Len(log'[u])
                   PROVE  log'[u][i] \in recorded'[u]
        OBVIOUS
      <3>1. CASE u # s
        BY <2>4, <2>9, <3>1 DEF OrderOK
      <3>2. CASE u = s
        BY <2>2, <2>3, <2>4, <2>9, <3>2 DEF OrderOK
      <3> QED
        BY <3>1, <3>2
    <2>11. VersionOrder'
      <3> SUFFICES ASSUME NEW u \in Schemas, NEW i \in 1 .. Len(log'[u]),
                          NEW j \in 1 .. Len(log'[u]),
                          i < j, SameWidth(log'[u][i], log'[u][j])
                   PROVE  log'[u][i] < log'[u][j]
        BY DEF VersionOrder
      <3>0. u = s => /\ Len(log[s]) \in Nat /\ Len(log'[u]) = Len(log[s]) + 1
                     /\ log'[u][Len(log[s]) + 1] = v
                     /\ \A k \in 1 .. Len(log[s]) : log'[u][k] = log[s][k]
        <4>1. log[s] \in Seq(Versions) /\ log'[s] = Append(log[s], v)
          BY <2>2, <2>9
        <4>2. v \in Versions
          BY <2>2
        <4> DEFINE old == log[s]  new == log'[s]
        <4>3. old \in Seq(Versions) /\ new = Append(old, v)
          BY <4>1
        <4> HIDE DEF s, v, old, new
        <4>4. Len(old) \in Nat /\ Len(new) = Len(old) + 1 /\ new[Len(old) + 1] = v
          BY <4>2, <4>3
        <4>5. \A k \in 1 .. Len(old) : new[k] = old[k]
          BY <4>2, <4>3
        <4> QED
          BY <4>4, <4>5 DEF old, new
      <3>1. CASE u # s
        BY <2>9, <3>1 DEF OrderOK, VersionOrder
      <3>2. CASE u = s /\ j <= Len(log[u])
        <4>1. i \in 1 .. Len(log[s]) /\ j \in 1 .. Len(log[s])
          BY <3>2
        <4>2. log'[u][i] = log[s][i] /\ log'[u][j] = log[s][j]
          BY <3>2, <3>0, <4>1
        <4> QED
          BY <2>2, <4>1, <4>2 DEF OrderOK, VersionOrder
      <3>3. CASE u = s /\ j = Len(log[u]) + 1
        <4>1. log'[u][j] = v /\ log'[u][i] = log[s][i] /\ i \in 1 .. Len(log[s])
          BY <3>3, <3>0
        <4>2. log[s][i] \in recorded[s]
          BY <2>2, <4>1 DEF OrderOK
        <4> QED
          BY <2>7, <4>1, <4>2
      <3> QED
        BY <2>9, <3>1, <3>2, <3>3, <3>0
    <2> QED
      BY <2>5, <2>8, <2>10, <2>11 DEF OrderOK
  <1> QED
    BY <1>3, <1>4, <1>5, <1>6, <1>7 DEF Outcome

\* The invariant is inductive.
LEMMA StepInv == IInv /\ [Next]_vars => IInv'
  <1> SUFFICES ASSUME IInv, [Next]_vars PROVE IInv'
    OBVIOUS
  <1>1. TypeOK'
    BY TypeStep DEF IInv
  <1>2. CASE UNCHANGED vars
    BY <1>2 DEF IInv, TypeOK, PlaceOK, LockOK, DoneOK, OrderOK, VersionOrder, Applying, Inserted
  <1>3. ASSUME NEW r \in Runtimes, Step(r) \/ SetPathFails(r) \/ Fail(r) \/ CommitLost(r)
        PROVE  IInv'
    <2>1. Outcome(r)
      BY <1>3, Outcomes
    <2> QED
      BY <1>1, <2>1, PlaceStep, LockStep, DoneStep, OrderStep DEF IInv
  <1> QED
    BY <1>2, <1>3 DEF Next

\* The invariant holds for ever.
LEMMA Invariant == Spec => []IInv
  BY InitInv, StepInv, PTL DEF Spec

-----------------------------------------------------------------------------

\* Every variable keeps its type.
THEOREM TypeCorrect == Spec => []TypeOK
  <1>1. IInv => TypeOK
    BY DEF IInv
  <1> QED
    BY <1>1, Invariant, PTL

\* migrator.go:64-126: a runtime that goes on to serve has all its migrations.
THEOREM ComesUpMigrated == Spec => []UpIsMigrated
  <1>1. IInv => UpIsMigrated
    BY DEF IInv, DoneOK, UpIsMigrated
  <1> QED
    BY <1>1, Invariant, PTL

\* migrator.go:171: among versions of one width the string order is the order
\* of the versions, whoever applies which.
THEOREM AppliedInOrder == Spec => []VersionOrder
  <1>1. IInv => VersionOrder
    BY DEF IInv, OrderOK
  <1> QED
    BY <1>1, Invariant, PTL

\* migrator.go:129-151: however runtimes race and fail, a migration takes effect
\* once, together with its record.
THEOREM MigrationsOnce == Spec => ImplementsMigrations
  <1>1. Init => Abstract!Init
    BY DEF Init, Abstract!Init
  <1>2. IInv /\ [Next]_vars => [Abstract!Next]_(Abstract!vars)
    <2> SUFFICES ASSUME IInv, [Next]_vars PROVE [Abstract!Next]_(Abstract!vars)
      OBVIOUS
    <2> USE DEF Abstract!vars, Rows
    <2>1. CASE UNCHANGED vars
      BY <2>1
    <2>2. ASSUME NEW r \in Runtimes, Outcome(r) PROVE [Abstract!Next]_(Abstract!vars)
      <3>1. CASE Committed(r)
        <4>1. /\ schema[r] \in Schemas /\ current[r] \in Versions
              /\ current[r] \notin recorded[schema[r]]
          BY <3>1, ConstantsAssumption DEF IInv, TypeOK, PlaceOK, LockOK, Applying, Committed
        <4>2. Abstract!Apply(schema[r], current[r])
          BY <3>1, <4>1 DEF Committed, Abstract!Apply
        <4> QED
          BY <4>1, <4>2 DEF Abstract!Next
      <3>2. CASE ~Committed(r)
        BY <2>2, <3>2 DEF Outcome, Moves, GivesUp, EntersDir, LeavesPublic, ComesUp, Inserts,
                          Execute, Skips, Picks, Commit, CommitLost
      <3> QED
        BY <3>1, <3>2
    <2> QED
      BY <2>1, <2>2, Outcomes DEF Next
  <1> QED
    BY <1>1, <1>2, Invariant, PTL DEF Spec, ImplementsMigrations, Abstract!Spec

-----------------------------------------------------------------------------
(* Runs end.                                                               *)

\* A runtime whose directory is not done always has a next file: collectSQLFiles
\* sorts strings, and their order is total on the versions, so that Check, which
\* asks for the first of the files ahead, never leaves a runtime standing.
NextFile ==
    \A r \in Runtimes : pc[r] = "checking" /\ todo[r] # {} => \E v \in todo[r] : First(r, v)

\* A runtime in the loop of applyDir can always go on with some file.
THEOREM NextFileExists ==
    ASSUME \A r \in Runtimes : IsFiniteSet(Known[r])
    PROVE  Spec => []NextFile
<1>1. IInv => NextFile
  <2> SUFFICES ASSUME IInv, NEW r \in Runtimes, todo[r] # {}
               PROVE  \E v \in todo[r] : First(r, v)
    BY DEF NextFile
  <2>1. todo[r] \in SUBSET Nat /\ IsFiniteSet(todo[r])
    <3>1. todo[r] \subseteq Known[r] /\ Known[r] \subseteq Nat
      BY ConstantsAssumption DEF IInv, PlaceOK
    <3> QED
      BY <3>1, FS_Subset
  <2>2. PICK v \in todo[r] : FirstOf(todo[r], v)
    BY <2>1, FirstExists
  <2> QED
    BY <2>2 DEF FirstOf, First
<1> QED
  BY <1>1, Invariant, PTL

InDir == {"checking", "executing", "recording", "committing"}
Underway(r) == pc[r] \notin {"down", "up"}

\* The files of its directory that a runtime has yet to look at.
Ahead(r) == IF pc[r] \in InDir THEN todo[r] ELSE Known[r]
\* The steps before the next file; the tenant's directory follows the public one.
StepsOf ==
    [l \in Labels |-> CASE l \in {"path", "executing"} -> 4 [] l \in {"schema", "recording"} -> 3
                        [] l \in {"table", "committing"} -> 2 [] l = "checking" -> 1
                        [] OTHER -> 0]
NextDir(r) == IF schema[r] = Public THEN 4 * Cardinality(Known[r]) + 4 ELSE 0

RunMeasure(r) == 4 * Cardinality(Ahead(r)) + StepsOf[pc[r]] + NextDir(r)

\* Every step of a runtime that has started brings it closer to the end of its
\* run, up or with an error, and the steps of others leave it where it is.
RunsShrink ==
    \A r \in Runtimes :
        Underway(r) =>
            \/ UNCHANGED <<pc[r], schema[r], todo[r], current[r]>>
            \/ ~Underway(r)'
            \/ RunMeasure(r)' < RunMeasure(r)
BoundedRuns ==
    \A r \in Runtimes :
        Underway(r) => RunMeasure(r) \in 0 .. 8 * Cardinality(Known[r]) + 8

LEMMA AheadFinite ==
    ASSUME TypeOK, PlaceOK, NEW r \in Runtimes, IsFiniteSet(Known[r])
    PROVE  /\ IsFiniteSet(Ahead(r)) /\ IsFiniteSet(todo[r])
           /\ Cardinality(Ahead(r)) \in 0 .. Cardinality(Known[r])
           /\ Cardinality(todo[r]) \in Nat /\ Cardinality(Known[r]) \in Nat
           /\ StepsOf[pc[r]] \in 0 .. 4
<1>1. Ahead(r) \subseteq Known[r] /\ todo[r] \subseteq Known[r]
  BY DEF PlaceOK, Ahead
<1>2. StepsOf[pc[r]] \in 0 .. 4
  BY DEF TypeOK, StepsOf, Labels
<1> QED
  BY <1>1, <1>2, FS_Subset, FS_CardinalityType

LEMMA OneFileLess ==
    ASSUME NEW T, IsFiniteSet(T), NEW v \in T
    PROVE  Cardinality(T \ {v}) = Cardinality(T) - 1
  BY FS_RemoveElement

\* A step of a runtime that does not end its run.
LEMMA RunShrinks ==
    ASSUME TypeOK, PlaceOK, TypeOK', PlaceOK', NEW r \in Runtimes, IsFiniteSet(Known[r]),
           Step(r) \/ SetPathFails(r) \/ Fail(r) \/ CommitLost(r), Underway(r), Underway(r)'
    PROVE  RunMeasure(r)' < RunMeasure(r)
<1> USE DEF TypeOK
<1>1. /\ Cardinality(Known[r]) \in Nat /\ Cardinality(todo[r]) \in Nat
      /\ Cardinality(Ahead(r)) \in Nat /\ IsFiniteSet(todo[r])
  BY AheadFinite
<1>2. StepsOf["path"] = 4 /\ StepsOf["schema"] = 3 /\ StepsOf["table"] = 2
      /\ StepsOf["checking"] = 1
      /\ StepsOf["executing"] = 4 /\ StepsOf["recording"] = 3 /\ StepsOf["committing"] = 2
  BY DEF StepsOf, Labels
\* The steps that keep the files ahead and the directory.
<1>3. ASSUME Ahead(r)' = Ahead(r), schema'[r] = schema[r],
             StepsOf[pc'[r]] < StepsOf[pc[r]], StepsOf[pc'[r]] \in Int, StepsOf[pc[r]] \in Int
      PROVE  RunMeasure(r)' < RunMeasure(r)
  <2>1. NextDir(r)' = NextDir(r) /\ NextDir(r) \in Nat
    BY <1>1, <1>3 DEF NextDir
  <2>2. Cardinality(Ahead(r)') = Cardinality(Ahead(r))
    BY <1>3
  <2> QED
    BY <1>1, <1>3, <2>1, <2>2 DEF RunMeasure
<1>4. CASE SetPath(r)
  BY <1>2, <1>3, <1>4 DEF SetPath, Ahead, InDir
<1>5. CASE SetPathFails(r)
  BY <1>2, <1>3, <1>5 DEF SetPathFails, Ahead, InDir
<1>6. CASE CreateSchema(r)
  BY <1>2, <1>3, <1>6 DEF CreateSchema, Ahead, InDir
<1>7. CASE CreateTable(r)
  <2>1. schema[r] \in exists
    BY <1>7 DEF CreateTable, Underway
  <2>2. pc[r] = "table" /\ pc'[r] = "checking" /\ todo'[r] = Known[r] /\ schema'[r] = schema[r]
    BY <1>7, <2>1 DEF CreateTable
  <2>3. Ahead(r)' = Ahead(r)
    BY <2>2 DEF Ahead, InDir
  <2> QED
    BY <1>2, <1>3, <2>2, <2>3
<1>8. CASE Check(r)
  <2>1. PICK v \in todo[r] :
          /\ pc[r] = "checking" /\ pc'[r] \in {"checking", "executing"}
          /\ todo'[r] = todo[r] \ {v} /\ schema'[r] = schema[r]
    BY <1>8 DEF Check
  <2>2. Cardinality(todo'[r]) = Cardinality(todo[r]) - 1
    <3>1. Cardinality(todo[r] \ {v}) = Cardinality(todo[r]) - 1
      BY <1>1, OneFileLess
    <3> QED
      BY <2>1, <3>1
  <2>3. Ahead(r) = todo[r] /\ Ahead(r)' = todo'[r]
    BY <2>1 DEF Ahead, InDir
  <2>4. NextDir(r)' = NextDir(r) /\ NextDir(r) \in Nat
    BY <1>1, <2>1 DEF NextDir
  <2>5. Cardinality(Ahead(r)') = Cardinality(Ahead(r)) - 1
    BY <2>2, <2>3
  <2>6. StepsOf[pc[r]] = 1 /\ StepsOf[pc'[r]] \in {1, 4}
    BY <1>2, <2>1
  <2> QED
    BY <1>1, <2>4, <2>5, <2>6 DEF RunMeasure
<1>9. CASE EndDir(r)
  <2>1. schema[r] = Public
    BY <1>9 DEF EndDir, Underway
  <2>2. /\ pc[r] = "checking" /\ todo[r] = {} /\ pc'[r] = "path"
        /\ schema'[r] = TenantOf[r] /\ TenantOf[r] # Public
    BY <1>9, <2>1, ConstantsAssumption DEF EndDir
  <2>3. Ahead(r) = {} /\ Ahead(r)' = Known[r]
    BY <2>2 DEF Ahead, InDir
  <2>4. Cardinality(Ahead(r)) = 0 /\ Cardinality(Ahead(r)') = Cardinality(Known[r])
    BY <2>3, FS_EmptySet
  <2>5. NextDir(r) = 4 * Cardinality(Known[r]) + 4 /\ NextDir(r)' = 0
    BY <2>1, <2>2 DEF NextDir
  <2>6. StepsOf[pc[r]] = 1 /\ StepsOf[pc'[r]] = 4
    BY <1>2, <2>2
  <2> QED
    BY <1>1, <2>4, <2>5, <2>6 DEF RunMeasure
<1>10. CASE Execute(r)
  BY <1>2, <1>3, <1>10 DEF Execute, Ahead, InDir
<1>11. CASE Record(r)
  <2>1. current[r] \notin recorded[schema[r]]
    BY <1>11 DEF Record, Underway
  <2> QED
    BY <1>2, <1>3, <1>11, <2>1 DEF Record, Ahead, InDir
<1>12. CASE Commit(r)
  BY <1>2, <1>3, <1>12 DEF Commit, Committed, Ahead, InDir
<1>13. CASE Open(r) \/ Fail(r) \/ CommitLost(r)
  BY <1>13 DEF Open, Fail, CommitLost, Underway
<1> QED
  BY <1>4, <1>5, <1>6, <1>7, <1>8, <1>9, <1>10, <1>11, <1>12, <1>13 DEF Step

\* A runtime that has started ends its run, up or with an error, within as many
\* steps of its own as RunMeasure says at its start: each of its two directories
\* costs at most four steps a file and four more.  No order of the steps of other
\* runtimes makes it look at a file twice.
THEOREM RunsAreBounded ==
    ASSUME \A r \in Runtimes : IsFiniteSet(Known[r])
    PROVE  Spec => []BoundedRuns /\ [][RunsShrink]_vars
<1>1. IInv => BoundedRuns
  <2> SUFFICES ASSUME IInv, NEW r \in Runtimes
               PROVE  RunMeasure(r) \in 0 .. 8 * Cardinality(Known[r]) + 8
    BY DEF BoundedRuns
  <2>1. /\ Cardinality(Ahead(r)) \in 0 .. Cardinality(Known[r])
        /\ Cardinality(Known[r]) \in Nat /\ StepsOf[pc[r]] \in 0 .. 4
    BY AheadFinite DEF IInv
  <2>2. NextDir(r) \in 0 .. 4 * Cardinality(Known[r]) + 4
    BY <2>1 DEF NextDir
  <2> QED
    BY <2>1, <2>2 DEF RunMeasure
<1>2. IInv /\ IInv' /\ [Next]_vars => [RunsShrink]_vars
  <2> SUFFICES ASSUME IInv, IInv', NEW q \in Runtimes,
                      Step(q) \/ SetPathFails(q) \/ Fail(q) \/ CommitLost(q),
                      NEW r \in Runtimes, Underway(r), Underway(r)'
               PROVE  \/ UNCHANGED <<pc[r], schema[r], todo[r], current[r]>>
                      \/ RunMeasure(r)' < RunMeasure(r)
    BY DEF Next, RunsShrink
  <2>1. CASE r = q
    BY <2>1, RunShrinks DEF IInv
  <2>2. CASE r # q
    <3>1. Outcome(q)
      BY Outcomes
    <3> USE <2>2 DEF IInv, TypeOK
    <3>2. CASE Moves(q) \/ GivesUp(q) \/ EntersDir(q) \/ LeavesPublic(q) \/ ComesUp(q)
      BY <3>2 DEF Moves, GivesUp, EntersDir, LeavesPublic, ComesUp
    <3>3. CASE Inserts(q) \/ Execute(q) \/ Commit(q) \/ CommitLost(q)
      BY <3>3 DEF Inserts, Execute, Commit, CommitLost
    <3>4. ASSUME NEW v \in todo[q], Skips(q, v) \/ Picks(q, v)
          PROVE  UNCHANGED <<pc[r], schema[r], todo[r], current[r]>>
      BY <3>4 DEF Skips, Picks
    <3> QED
      BY <3>1, <3>2, <3>3, <3>4 DEF Outcome
  <2> QED
    BY <2>1, <2>2
<1> QED
  BY <1>1, <1>2, Invariant, PTL DEF Spec
=============================================================================
