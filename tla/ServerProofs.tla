----------------------------- MODULE ServerProofs -----------------------------
(***************************************************************************)
(* Proofs about Server, for every environment the process can be started in*)
(* and every request: what is wired can run, production never credits an   *)
(* unpaid invoice, lifetimes stay within the cap, the key guards invoices, *)
(* and the limiter bounds each peer.                                       *)
(***************************************************************************)
EXTENDS Server, TLAPS, WellFoundedInduction

-----------------------------------------------------------------------------
(* The inductive invariant.                                                *)

\* The configuration is the environment's; only the receiving address changes
\* after it is loaded.
ConfigOK ==
  /\ phase \in {"load", "validate", "store", "address", "wire", "serving", "refused"}
  /\ env \in Environments
  /\ phase # "load" => cfg = Load(env) \/ \E r : cfg = [Load(env) EXCEPT !.receiving = r]
  /\ phase \in {"validate", "store", "address"} => cfg = Load(env)
  /\ phase = "serving" => svc = Some(NewService)

\* The receiving address main goes on with: normalized, or, outside production
\* only, as it was.
AddressOK ==
  phase \in {"wire", "serving"} =>
    LET text == env.TON_RECEIVING_ADDRESS
        norm == NormalizeOnNetwork(text[1], IsTestnet(cfg))
    IN  \/ text = None /\ cfg.receiving = None
        \/ text # None /\ norm # Invalid /\ cfg.receiving = Some(norm)
        \/ ~IsProd(cfg)

\* Nothing has happened before the process serves.
StartOK ==
  phase # "serving" =>
    /\ invoices = [i \in Ids |-> NoInvoice]
    /\ level = [k \in Keys |-> Burst] /\ work = [p \in Peers |-> 0] /\ elapsed = 0
    /\ response = NoResponse

\* An invoice carries the terms of its request.
TermsOK ==
  /\ DOMAIN invoices = Ids
  /\ \A i \in Stored :
       LET inv == invoices[i]
       IN  /\ inv = [payTo |-> inv.payTo, amount |-> inv.amount, lifetime |-> inv.lifetime,
                     status |-> inv.status, body |-> inv.body]
           /\ inv.body \in Bodies
           /\ inv.amount = inv.body.amount /\ inv.amount > 0
           /\ inv.lifetime = Lifetime(inv.body.seconds)
           /\ inv.payTo = Receiver(inv.body.payTo) /\ inv.payTo # Invalid

\* Every admitted request was paid for from the peer's own bucket, unless a proxy
\* is trusted to name the client.
LimiterOK ==
  /\ level \in [Keys -> 0 .. Burst] /\ work \in [Peers -> Nat] /\ elapsed \in Nat
  /\ phase = "serving" /\ ~cfg.trustProxy =>
       \A p \in Peers : work[p] + level[p] <= Burst + elapsed * Rate

IInv ==
  /\ ConfigOK
  /\ AddressOK
  /\ StartOK
  /\ TermsOK
  /\ LimiterOK
  /\ ProdPaidMeansPaid
  /\ KeyGuardsInvoices
  /\ AmountReadsBack

-----------------------------------------------------------------------------
(* Arithmetic.                                                             *)

LEMMA Remainder == \A x \in Int, d \in Nat \ {0} : x % d \in 0 .. d - 1
  OBVIOUS

LEMMA SmallRemainder == \A d \in Nat \ {0} : \A x \in 0 .. d - 1 : x % d = x
  OBVIOUS

LEMMA IntProduct == \A a, b \in Int : a * b \in Int
  OBVIOUS

LEMMA PositiveProduct == \A a, b \in Nat \ {0} : a * b \in Nat \ {0}
  OBVIOUS

LEMMA OneMore == \A d, r \in Nat : (d + 1) * r = d * r + r /\ d * r \in Nat
  OBVIOUS

\* An int64 is kept as it is, and the result of wrapping around is one.
LEMMA Int64Wraps ==
  ASSUME NEW n \in Int
  PROVE  Int64(n) \in Ints /\ (n \in Ints => Int64(n) = n)
<1> DEFINE d == 2 * (MaxInt + 1)
           x == n + MaxInt + 1
<1>1. MaxInt \in Nat /\ d \in Nat \ {0} /\ x \in Int
  BY ConfigAssumption
<1> HIDE DEF d
<1>2. x % d \in 0 .. d - 1 /\ (x \in 0 .. d - 1 => x % d = x)
  BY <1>1, Remainder, SmallRemainder
<1>3. Int64(n) = (x % d) - (MaxInt + 1)
  BY DEF Int64, d
<1>4. QED
  BY <1>1, <1>2, <1>3 DEF Ints, d

\* The smaller of two numbers.
LEMMA MinOfTwo ==
  ASSUME NEW a \in Int, NEW b \in Int
  PROVE  Min({a, b}) = IF a <= b THEN a ELSE b
<1> DEFINE m == IF a <= b THEN a ELSE b
<1>1. m \in {a, b} /\ \A y \in {a, b} : m <= y
  OBVIOUS
<1>2. \A z \in {a, b} : (\A y \in {a, b} : z <= y) => z = m
  OBVIOUS
<1> HIDE DEF m
<1>3. (CHOOSE z \in {a, b} : \A y \in {a, b} : z <= y) = m
  BY <1>1, <1>2
<1>4. QED
  BY <1>3 DEF Min, m

-----------------------------------------------------------------------------
(* Decimal digits, and the amount in words.                                *)

\* A set of numbers that is not empty has a least element.
LEMMA LeastElement ==
  ASSUME NEW T \in SUBSET Nat, T # {}
  PROVE  \E x \in T : \A y \in T : x <= y
<1>1. PICK x \in T : \A y \in T : ~(<<y, x>> \in OpToRel(<, Nat))
  BY WFMin, NatLessThanWellFounded, Zenon
<1>2. \A y \in T : ~(y < x)
  BY <1>1, Zenon DEF OpToRel
<1>3. QED
  BY <1>2

\* Induction up to a bound, with a set in the place of a predicate.
LEMMA UpTo ==
  ASSUME NEW m \in Nat, NEW S, 0 \in S,
         \A k \in 1 .. m : k - 1 \in S => k \in S
  PROVE  0 .. m \subseteq S
<1> SUFFICES ASSUME (0 .. m) \ S # {} PROVE FALSE
  OBVIOUS
<1> DEFINE T == (0 .. m) \ S
<1>1. T \in SUBSET Nat /\ T # {}
  OBVIOUS
<1> HIDE DEF T
<1>2. PICK x \in T : \A y \in T : x <= y
  BY <1>1, LeastElement
<1>3. x \in 1 .. m /\ x - 1 \in S
  BY <1>2 DEF T
<1>4. QED
  BY <1>2, <1>3 DEF T

\* The powers of ten up to the ninth.
LEMMA PowerOfTen ==
  ASSUME NEW k \in 0 .. 9
  PROVE  10 ^ k \in Nat \ {0} /\ (k > 0 => 10 ^ k = 10 * 10 ^ (k - 1))
<1> DEFINE j == k - 1
           P(m) == m \in Nat \ {0}
           Q(m, n) == m = 10 * n
<1>1. /\ P(10 ^ 0) /\ P(10 ^ 1) /\ P(10 ^ 2) /\ P(10 ^ 3) /\ P(10 ^ 4)
      /\ P(10 ^ 5) /\ P(10 ^ 6) /\ P(10 ^ 7) /\ P(10 ^ 8) /\ P(10 ^ 9)
  OBVIOUS
<1>2. /\ Q(10 ^ 1, 10 ^ 0) /\ Q(10 ^ 2, 10 ^ 1) /\ Q(10 ^ 3, 10 ^ 2)
      /\ Q(10 ^ 4, 10 ^ 3) /\ Q(10 ^ 5, 10 ^ 4) /\ Q(10 ^ 6, 10 ^ 5)
      /\ Q(10 ^ 7, 10 ^ 6) /\ Q(10 ^ 8, 10 ^ 7) /\ Q(10 ^ 9, 10 ^ 8)
  OBVIOUS
<1>3. \/ k = 0
      \/ k = 1 /\ j = 0
      \/ k = 2 /\ j = 1
      \/ k = 3 /\ j = 2
      \/ k = 4 /\ j = 3
      \/ k = 5 /\ j = 4
      \/ k = 6 /\ j = 5
      \/ k = 7 /\ j = 6
      \/ k = 8 /\ j = 7
      \/ k = 9 /\ j = 8
  OBVIOUS
<1> HIDE DEF j, P, Q
<1>4. P(10 ^ k)
  BY <1>1, <1>3, Zenon
<1>5. k = 0 \/ Q(10 ^ k, 10 ^ j)
  BY <1>2, <1>3, Zenon
<1> USE DEF P, Q
<1>6. QED
  BY <1>4, <1>5 DEF j

\* The same, to be instantiated.
LEMMA PowersOfTen ==
  /\ \A k \in 0 .. 9 : 10 ^ k \in Nat \ {0}
  /\ \A k \in 1 .. 9 : 10 ^ k = 10 * 10 ^ (k - 1)
<1>1. ASSUME NEW k \in 1 .. 9 PROVE 10 ^ k = 10 * 10 ^ (k - 1)
  <2>1. k \in 0 .. 9 /\ k > 0
    OBVIOUS
  <2>2. QED
    BY <2>1, PowerOfTen, Zenon
<1>2. QED
  BY <1>1, PowerOfTen, Zenon

LEMMA Quotient ==
  ASSUME NEW n \in Nat, NEW p \in Nat \ {0}
  PROVE  /\ n \div p \in Nat /\ n % p \in 0 .. p - 1
         /\ n = p * (n \div p) + (n % p)
OBVIOUS

\* Quotient and remainder are unique.
LEMMA QuotientUnique ==
  ASSUME NEW q \in Nat \ {0}, NEW x \in Nat, NEW y \in Nat,
         NEW v \in 0 .. q - 1, NEW w \in 0 .. q - 1, q * x + v = q * y + w
  PROVE  x = y
<1>1. ASSUME NEW a \in Nat, NEW b \in Nat, NEW c \in 0 .. q - 1, NEW d \in 0 .. q - 1,
             q * a + c = q * b + d, a < b
      PROVE  FALSE
  <2>1. PICK e \in Nat : b = a + 1 + e
    <3>1. b - a - 1 \in Nat /\ b = a + 1 + (b - a - 1)
      BY <1>1
    <3>2. QED BY <3>1
  <2>2. q * b = q * a + q + q * e /\ q * e \in Nat /\ q * a \in Nat
    BY <2>1
  <2>3. QED
    BY <1>1, <2>2
<1>2. QED
  BY <1>1

\* Dividing once more by ten drops the last digit.
LEMMA DropDigit ==
  ASSUME NEW n \in Nat, NEW p \in Nat \ {0}
  PROVE  n \div p = 10 * (n \div (10 * p)) + ((n \div p) % 10)
<1> DEFINE a == n \div p
           r == n % p
           q == 10 * p
           c == a \div 10
           t == a % 10
           u == p * t + r
<1>1. a \in Nat /\ r \in 0 .. p - 1 /\ n = p * a + r
  BY Quotient
<1>2. q \in Nat \ {0}
  OBVIOUS
<1> HIDE DEF a, r
<1>3. c \in Nat /\ t \in 0 .. 9 /\ a = 10 * c + t
  BY <1>1, Quotient
<1> HIDE DEF c, t
<1>4. u \in 0 .. q - 1
  <2>1. p * t \in Nat /\ p * t <= p * 9
    BY <1>3
  <2>2. QED
    BY <1>1, <2>1
<1>5. n = q * c + u
  <2>1. p * a = q * c + p * t
    BY <1>1, <1>3
  <2>2. p * t \in Int /\ q * c \in Int
    BY <1>3
  <2>3. QED
    BY <1>1, <2>1, <2>2
<1> HIDE DEF q, u
<1>6. n \div q \in Nat /\ n % q \in 0 .. q - 1 /\ n = q * (n \div q) + (n % q)
  BY <1>2, Quotient
<1>7. n \div q = c
  BY <1>2, <1>3, <1>4, <1>5, <1>6, QuotientUnique
<1>8. QED
  BY <1>3, <1>7 DEF a, q, t

\* Ten to the power of the places before and after a point.
LEMMA PowersAdd ==
  ASSUME NEW D \in 0 .. 9, NEW L \in 0 .. D
  PROVE  10 ^ L * 10 ^ (D - L) = 10 ^ D
<1> DEFINE S == {l \in 0 .. D : 10 ^ l * 10 ^ (D - l) = 10 ^ D}
<1>1. 0 \in S
  <2>1. 10 ^ 0 = 1 /\ D - 0 = D
    OBVIOUS
  <2>0. 10 ^ D \in Nat \ {0}
    BY PowersOfTen, Zenon
  <2>2. 10 ^ 0 * 10 ^ (D - 0) = 10 ^ D
    BY <2>0, <2>1
  <2>3. QED
    BY <2>2
<1>2. ASSUME NEW l \in 1 .. D, l - 1 \in S PROVE l \in S
  <2> DEFINE a == 10 ^ (l - 1)
             b == 10 ^ (D - l)
  <2>0. l \in 1 .. 9 /\ l - 1 \in 0 .. 9 /\ D - l \in 0 .. 9
    OBVIOUS
  <2>1. a \in Nat \ {0} /\ b \in Nat \ {0}
    BY <2>0, PowersOfTen, Zenon
  <2>2. 10 ^ l = 10 * a
    BY <2>0, PowersOfTen, Zenon
  <2>3. 10 ^ (D - (l - 1)) = 10 * b
    <3> DEFINE e == D - (l - 1)
    <3>1. e \in 1 .. 9 /\ e - 1 = D - l
      OBVIOUS
    <3> HIDE DEF e
    <3>2. 10 ^ e = 10 * 10 ^ (e - 1)
      BY <3>1, PowersOfTen, Zenon
    <3>3. QED
      BY <3>1, <3>2 DEF e
  <2>4. a * 10 ^ (D - (l - 1)) = 10 ^ D
    BY <1>2
  <2> HIDE DEF a, b
  <2>5. a * (10 * b) = (10 * a) * b
    BY <2>1
  <2>6. 10 ^ l * b = 10 ^ D
    BY <2>2, <2>3, <2>4, <2>5
  <2>7. QED
    BY <2>6 DEF b
<1> HIDE DEF S
<1>3. 0 .. D \subseteq S
  BY <1>1, <1>2, UpTo
<1>4. QED
  BY <1>3 DEF S

\* A digit less is a division by ten.
LEMMA NextPlace ==
  ASSUME NEW D \in 0 .. 9, NEW f \in Nat, NEW k \in 1 .. D
  PROVE  /\ f \div 10 ^ (D - k) \in Nat /\ f \div 10 ^ (D - (k - 1)) \in Nat
         /\ f \div 10 ^ (D - k)
              = 10 * (f \div 10 ^ (D - (k - 1))) + ((f \div 10 ^ (D - k)) % 10)
<1> DEFINE e == D - (k - 1)
           p == 10 ^ (e - 1)
<1>1. e \in 1 .. 9 /\ e - 1 = D - k /\ e - 1 \in 0 .. 9
  OBVIOUS
<1> HIDE DEF e
<1>2. p \in Nat \ {0} /\ 10 ^ e = 10 * p
  BY <1>1, PowersOfTen, Zenon
<1>3. p = 10 ^ (D - k)
  BY <1>1
<1> HIDE DEF p
<1>4. f \div p \in Nat /\ f \div (10 * p) \in Nat
  <2>1. 10 * p \in Nat \ {0}
    BY <1>2
  <2>2. QED
    BY <1>2, <2>1, Quotient, Zenon
<1>5. f \div p = 10 * (f \div (10 * p)) + ((f \div p) % 10)
  BY <1>2, DropDigit
<1>6. f \div p = 10 * (f \div 10 ^ e) + ((f \div p) % 10) /\ f \div 10 ^ e \in Nat
  BY <1>2, <1>4, <1>5
<1>7. QED
  BY <1>3, <1>4, <1>6 DEF e

\* The digits at the first L of D places of f, and a reader's running totals.
DigitsOf(f, D, L, digits) == \A k \in 1 .. L : digits[k] = (f \div 10 ^ (D - k)) % 10

Totals(g, w, L, digits) ==
  g = [k \in 0 .. L |-> IF k = 0 THEN w ELSE 10 * g[k - 1] + digits[k]]

TotalsAre(w, L, digits, sum) ==
  (\E g : Totals(g, w, L, digits)) /\ (\A g : Totals(g, w, L, digits) => g[L] = sum)

\* Reading the digits of f after w.
LEMMA RunningTotal ==
  ASSUME NEW D \in 0 .. 9, NEW w \in Nat, NEW f \in Nat, f < 10 ^ D,
         NEW L \in 0 .. D, NEW digits, DigitsOf(f, D, L, digits)
  PROVE  TotalsAre(w, L, digits, w * 10 ^ L + (f \div 10 ^ (D - L)))
<1> USE DEF DigitsOf, Totals
<1> DEFINE T(k) == w * 10 ^ k + (f \div 10 ^ (D - k))
           Eqn(g) == Totals(g, w, L, digits)
<1>1. T(0) = w
  <2>1. 10 ^ 0 = 1 /\ D - 0 = D
    OBVIOUS
  <2> DEFINE p == 10 ^ D
  <2>2. p \in Nat \ {0} /\ f < p
    BY PowersOfTen, Zenon
  <2> HIDE DEF p
  <2>3. f = p * 0 + f /\ f \in 0 .. p - 1
    BY <2>2
  <2>4. f \div p \in Nat /\ f % p \in 0 .. p - 1 /\ f = p * (f \div p) + (f % p)
    BY <2>2, Quotient
  <2>5. f \div p = 0
    BY <2>2, <2>3, <2>4, QuotientUnique
  <2>6. f \div 10 ^ (D - 0) = 0
    BY <2>1, <2>5 DEF p
  <2>7. w * 10 ^ 0 = w
    BY <2>1
  <2>8. QED
    BY <2>6, <2>7
<1>2. ASSUME NEW k \in 1 .. L PROVE T(k) = 10 * T(k - 1) + digits[k]
  <2> DEFINE a == 10 ^ (k - 1)
             b == f \div 10 ^ (D - (k - 1))
             c == f \div 10 ^ (D - k)
  <2>0. k \in 1 .. 9 /\ k - 1 \in 0 .. 9
    OBVIOUS
  <2>1. a \in Nat \ {0} /\ 10 ^ k = 10 * a
    BY <2>0, PowersOfTen, Zenon
  <2>2. b \in Nat /\ c \in Nat /\ c = 10 * b + digits[k] /\ digits[k] \in Nat
    <3>1. k \in 1 .. D
      OBVIOUS
    <3>2. b \in Nat /\ c \in Nat /\ c = 10 * b + (c % 10)
      BY <3>1, NextPlace
    <3>3. digits[k] = c % 10
      OBVIOUS
    <3> HIDE DEF b, c
    <3>4. c % 10 \in Nat
      BY <3>2
    <3>5. QED
      BY <3>2, <3>3, <3>4
  <2> HIDE DEF a, b, c
  <2>3. w * (10 * a) + c = 10 * (w * a + b) + digits[k]
    <3>1. w * (10 * a) = 10 * (w * a) /\ w * a \in Nat
      BY <2>1
    <3>2. QED
      BY <2>2, <3>1
  <2>4. T(k) = w * (10 * a) + c
    BY <2>1 DEF c
  <2>5. T(k - 1) = w * a + b
    BY DEF a, b
  <2> HIDE DEF T
  <2>6. QED
    BY <2>3, <2>4, <2>5
<1> HIDE DEF T
<1>3. \E g : Eqn(g)
  <2> DEFINE g == [k \in 0 .. L |-> T(k)]
  <2>1. ASSUME NEW k \in 0 .. L
        PROVE  T(k) = IF k = 0 THEN w ELSE 10 * g[k - 1] + digits[k]
    <3>1. CASE k = 0
      BY <1>1, <3>1
    <3>2. CASE k # 0
      <4>1. k \in 1 .. L /\ k - 1 \in 0 .. L
        BY <3>2
      <4>2. QED
        BY <1>2, <3>2, <4>1
    <3>3. QED
      BY <3>1, <3>2
  <2>2. Eqn(g)
    BY <2>1
  <2>3. QED
    BY <2>2
<1>4. ASSUME NEW g, Eqn(g) PROVE g[L] = T(L)
  <2> DEFINE S == {k \in 0 .. L : g[k] = T(k)}
  <2>1. 0 \in S
    <3>1. 0 \in 0 .. L
      OBVIOUS
    <3>2. g[0] = w
      BY <1>4, <3>1
    <3>3. QED
      BY <1>1, <3>1, <3>2
  <2>2. ASSUME NEW k \in 1 .. L, k - 1 \in S PROVE k \in S
    <3>1. k \in 0 .. L /\ k # 0
      OBVIOUS
    <3>2. g[k] = 10 * g[k - 1] + digits[k]
      BY <1>4, <3>1
    <3>3. g[k - 1] = T(k - 1)
      BY <2>2
    <3>4. QED
      BY <1>2, <3>1, <3>2, <3>3
  <2> HIDE DEF S
  <2>3. 0 .. L \subseteq S
    BY <2>1, <2>2, UpTo
  <2>4. L \in S
    BY <2>3
  <2>5. QED
    BY <2>4 DEF S
<1>5. QED
  BY <1>3, <1>4 DEF T, TotalsAre

\* Trailing zeros can be left out.
LEMMA TrailingZeros ==
  ASSUME NEW D \in 0 .. 9, NEW f \in Nat, NEW L \in 0 .. D,
         \A k \in (L + 1) .. D : (f \div 10 ^ (D - k)) % 10 = 0
  PROVE  f = (f \div 10 ^ (D - L)) * 10 ^ (D - L)
<1> DEFINE S == {e \in 0 .. D - L : f = (f \div 10 ^ e) * 10 ^ e}
<1>1. 0 \in S
  <2>1. 10 ^ 0 = 1 /\ 0 \in 0 .. D - L
    OBVIOUS
  <2>2. f \div 1 = f
    BY Quotient
  <2>3. QED
    BY <2>1, <2>2
<1>2. ASSUME NEW e \in 1 .. D - L, e - 1 \in S PROVE e \in S
  <2> DEFINE k == D - (e - 1)
             a == 10 ^ (e - 1)
             b == f \div 10 ^ e
             c == f \div 10 ^ (e - 1)
  <2>1. k \in (L + 1) .. D /\ D - k = e - 1 /\ D - (k - 1) = e /\ k \in 1 .. D
    OBVIOUS
  <2>0. e \in 1 .. 9 /\ e - 1 \in 0 .. 9
    OBVIOUS
  <2>2. a \in Nat \ {0} /\ 10 ^ e = 10 * a
    BY <2>0, PowersOfTen, Zenon
  <2> HIDE DEF k
  <2>3. b \in Nat /\ c \in Nat /\ c = 10 * b + (c % 10) /\ c % 10 = 0
    BY <2>1, NextPlace
  <2>4. f = c * a
    BY <1>2
  <2> HIDE DEF a, b, c
  <2>5. f = b * (10 * a)
    BY <2>2, <2>3, <2>4
  <2>6. f = b * 10 ^ e
    BY <2>2, <2>5
  <2>7. QED
    BY <2>6 DEF b
<1> HIDE DEF S
<1>3. D - L \in Nat
  OBVIOUS
<1>4. 0 .. D - L \subseteq S
  BY <1>1, <1>2, <1>3, UpTo
<1>5. D - L \in S
  BY <1>3, <1>4
<1>6. QED
  BY <1>5 DEF S

\* The last of finitely many positions.
LEMMA LastPosition ==
  ASSUME NEW m \in Nat, NEW S \in SUBSET (1 .. m), S # {}
  PROVE  Max(S) \in S /\ \A k \in S : k <= Max(S)
<1> DEFINE T == {m - k : k \in S}
<1>1. T \in SUBSET Nat /\ T # {}
  OBVIOUS
<1> HIDE DEF T
<1>2. PICK t \in T : \A u \in T : t <= u
  BY <1>1, LeastElement
<1>3. PICK x \in S : t = m - x
  BY <1>2 DEF T
<1>4. \A k \in S : k <= x
  <2> SUFFICES ASSUME NEW k \in S PROVE k <= x
    OBVIOUS
  <2>1. m - k \in T
    BY DEF T
  <2>2. QED
    BY <1>2, <1>3, <2>1
<1>5. \E y \in S : \A k \in S : y >= k
  BY <1>4
<1>6. Max(S) \in S /\ \A k \in S : Max(S) >= k
  BY <1>5 DEF Max
<1>7. QED
  BY <1>6

\* NanoToTONString loses nothing: what it writes reads back as the amount.
LEMMA AmountInWords ==
  ASSUME NEW n \in Nat
  PROVE  ReadBack(NanoToTONString(n)) = n
<1> DEFINE D == Decimals
           w == n \div Nano
           f == n % Nano
           digit(k) == (f \div 10 ^ (D - k)) % 10
           text == NanoToTONString(n)
           L == Len(text.digits)
<1>1. D \in 1 .. 9 /\ D \in 0 .. 9
  BY ServerAssumption
<1>2. Nano = 10 ^ D /\ 10 ^ D \in Nat \ {0}
  BY <1>1, PowersOfTen, Zenon DEF Nano
<1>3. w \in Nat /\ f \in 0 .. Nano - 1 /\ n = Nano * w + f
  BY <1>2, Quotient
<1>4. f \in Nat /\ f < 10 ^ D
  BY <1>2, <1>3
<1>5. /\ text.whole = w
      /\ L \in 0 .. D
      /\ \A k \in 1 .. L : text.digits[k] = digit(k)
      /\ \A k \in (L + 1) .. D : digit(k) = 0
  <2>1. text.whole = w
    BY DEF NanoToTONString
  <2>2. CASE f = 0
    <3>1. text.digits = << >> /\ L = 0
      BY <2>2 DEF NanoToTONString
    <3>2. ASSUME NEW k \in 1 .. D PROVE digit(k) = 0
      <4> DEFINE p == 10 ^ (D - k)
      <4>1. D - k \in 0 .. 9
        BY <1>1
      <4>2. p \in Nat \ {0}
        BY <4>1, PowersOfTen, Zenon
      <4> HIDE DEF p
      <4>3. 0 = p * 0 + 0 /\ 0 \in 0 .. p - 1 /\ 0 \in Nat
        BY <4>2
      <4>4. 0 \div p \in Nat /\ 0 % p \in 0 .. p - 1 /\ 0 = p * (0 \div p) + (0 % p)
        BY <4>2, <4>3, Quotient
      <4>5. 0 \div p = 0
        BY <4>2, <4>3, <4>4, QuotientUnique
      <4>6. (0 \div p) % 10 = 0
        BY <4>5
      <4>7. QED
        BY <2>2, <4>6 DEF p
    <3> HIDE DEF digit, text
    <3>3. QED
      BY <1>1, <2>1, <3>1, <3>2
  <2>3. CASE f # 0
    <3> DEFINE pad == Padded(n)
               sig == Significant(n)
               last == Max(sig)
    <3>1. pad = [k \in 1 .. D |-> digit(k)] /\ sig = {k \in 1 .. D : digit(k) # 0}
      BY DEF Padded, Significant
    <3>2. text.digits = SubSeq(pad, 1, last)
      BY <2>3 DEF NanoToTONString
    <3> HIDE DEF text, digit, pad, sig
    <3>3. sig # {}
      <4> SUFFICES ASSUME sig = {} PROVE FALSE
        OBVIOUS
      <4>1. 0 \in 0 .. D /\ \A k \in (0 + 1) .. D : digit(k) = 0
        BY <1>1, <3>1
      <4>2. \A k \in (0 + 1) .. D : (f \div 10 ^ (D - k)) % 10 = 0
        BY <4>1 DEF digit
      <4>3. f = (f \div 10 ^ (D - 0)) * 10 ^ (D - 0)
        BY <1>1, <1>4, <4>1, <4>2, TrailingZeros
      <4>4. D - 0 = D
        BY <1>1
      <4> DEFINE p == 10 ^ D
                 q == f \div p
      <4>5. f = q * p /\ p \in Nat \ {0} /\ f < p
        BY <1>2, <1>4, <4>3, <4>4, Zenon
      <4>6. q \in Nat
        BY <1>4, <4>5, Quotient, Zenon
      <4> HIDE DEF p, q
      <4>7. q = 0 \/ q * p >= p
        BY <4>5, <4>6
      <4>8. QED
        BY <1>4, <2>3, <4>5, <4>6, <4>7
    <3>4. last \in sig /\ \A k \in sig : k <= last
      <4>1. D \in Nat /\ sig \in SUBSET (1 .. D)
        BY <1>1, <3>1
      <4>2. QED
        BY <3>3, <4>1, LastPosition, Zenon
    <3> HIDE DEF last
    <3>5. last \in 1 .. D
      BY <3>1, <3>4
    <3>6. L = last /\ \A k \in 1 .. last : text.digits[k] = digit(k)
      BY <1>1, <3>1, <3>2, <3>5
    <3>7. \A k \in (last + 1) .. D : digit(k) = 0
      BY <1>1, <3>1, <3>4, <3>5
    <3>8. QED
      BY <1>1, <2>1, <3>5, <3>6, <3>7
  <2>4. QED
    BY <2>2, <2>3
<1> HIDE DEF text, w, f, L
<1>6. \A k \in 1 .. L : text.digits[k] = (f \div 10 ^ (D - k)) % 10
  BY <1>5
<1>7. \A k \in (L + 1) .. D : (f \div 10 ^ (D - k)) % 10 = 0
  BY <1>5
<1> DEFINE q == f \div 10 ^ (D - L)
           a == 10 ^ L
           b == 10 ^ (D - L)
<1>8. ReadBack(text) = (w * a + q) * b
  <2> DEFINE total == CHOOSE g : Totals(g, w, L, text.digits)
  <2>1. DigitsOf(f, D, L, text.digits)
    BY <1>6 DEF DigitsOf
  <2>2. D \in 0 .. 9 /\ w \in Nat /\ f \in Nat /\ f < 10 ^ D /\ L \in 0 .. D
    BY <1>1, <1>3, <1>4, <1>5
  <2>3. TotalsAre(w, L, text.digits, w * a + q)
    BY <2>1, <2>2, RunningTotal, Zenon
  <2>4. total[L] = w * a + q
    BY <2>3, Zenon DEF TotalsAre
  <2>5. ReadBack(text) = total[L] * b
    BY <1>5 DEF ReadBack, L, Totals
  <2>6. QED
    BY <2>4, <2>5, Zenon
<1>9. f = q * b
  BY <1>1, <1>4, <1>5, <1>7, TrailingZeros
<1>10. a * b = Nano
  BY <1>1, <1>2, <1>5, PowersAdd
<1>11. a \in Nat \ {0} /\ b \in Nat \ {0} /\ q \in Nat
  <2>1. L \in 0 .. 9 /\ D - L \in 0 .. 9
    BY <1>1, <1>5
  <2>2. a \in Nat \ {0} /\ b \in Nat \ {0}
    BY <2>1, PowersOfTen, Zenon
  <2>3. QED
    BY <1>4, <2>2, Quotient, Zenon
<1> HIDE DEF a, b, q
<1>12. (w * a + q) * b = w * (a * b) + q * b
  BY <1>3, <1>11
<1>13. QED
  BY <1>2, <1>3, <1>8, <1>9, <1>10, <1>11, <1>12 DEF text

-----------------------------------------------------------------------------
(* The configuration.                                                      *)

\* A number from the environment, or the default, is an int.
LEMMA NumberLoaded ==
  ASSUME NEW x, x = None \/ \E n \in Ints : x = Some(n),
         NEW def \in Ints
  PROVE  orDefault(x, def) \in Ints
BY DEF orDefault, None, Some

LEMMA SecondsAreInts == \A n \in Ints : Seconds(n) \in Ints
<1>1. \A n \in Ints : n * Second \in Int
  BY IntProduct, ConfigAssumption DEF Ints
<1>2. QED
  BY <1>1, Int64Wraps DEF Seconds

\* Every duration and count that is loaded is an int64.
LEMMA LoadedInts ==
  ASSUME NEW e \in Environments
  PROVE  /\ Load(e).defaultTTL \in Ints /\ Load(e).maxTTL \in Ints
         /\ Load(e).pollInterval \in Ints /\ Load(e).pollWorkers \in Int
<1>1. /\ DefaultTTLSeconds \in Ints /\ MaxTTLSeconds \in Ints /\ PollSeconds \in Ints
  <2>1. \A n \in Nat \ {0} : n * Second <= MaxInt => n \in Ints
    <3>1. \A n, c \in Nat \ {0} : n <= n * c
      OBVIOUS
    <3>2. \A n \in Nat \ {0} : n * Second \in Int
      BY IntProduct, ConfigAssumption
    <3>3. QED
      BY <3>1, <3>2, ConfigAssumption DEF Ints
  <2>2. QED
    BY <2>1, ConfigAssumption
<1>2. /\ orDefault(e.TON_DEFAULT_TTL_SECONDS, DefaultTTLSeconds) \in Ints
      /\ orDefault(e.TON_MAX_TTL_SECONDS, MaxTTLSeconds) \in Ints
      /\ orDefault(e.TON_POLL_INTERVAL_SECONDS, PollSeconds) \in Ints
  BY <1>1, NumberLoaded, EnvironmentAssumption
<1>3. orDefault(e.TON_POLL_CONCURRENCY, PollWorkers) \in Int
  <2>1. e.TON_POLL_CONCURRENCY = None \/ \E n \in Ints : e.TON_POLL_CONCURRENCY = Some(n)
    BY EnvironmentAssumption
  <2>2. QED
    BY <2>1, ConfigAssumption DEF orDefault, None, Some, Ints
<1>4. QED
  BY <1>2, <1>3, SecondsAreInts DEF Load

\* What the later steps read of the configuration.
LEMMA ConfigFields ==
  ASSUME ConfigOK, phase # "load"
  PROVE  /\ cfg.env = Load(env).env /\ cfg.network = Load(env).network
         /\ cfg.defaultTTL = Load(env).defaultTTL /\ cfg.maxTTL = Load(env).maxTTL
         /\ cfg.pollInterval = Load(env).pollInterval
         /\ cfg.pollWorkers = Load(env).pollWorkers
<1>1. CASE \E r : cfg = [Load(env) EXCEPT !.receiving = r]
  BY <1>1 DEF Load
<1>2. QED
  BY <1>1 DEF ConfigOK

\* The server's own idea of production is the environment's.
LEMMA ProdIsProd ==
  ASSUME ConfigOK, phase # "load"
  PROVE  Prod <=> IsProd(cfg)
<1>1. env.TON_ENV = None \/ env.TON_ENV = Some(env.TON_ENV[1])
  BY EnvironmentAssumption DEF ConfigOK
<1>2. IsProd(Load(env)) <=> env.TON_ENV # None /\ env.TON_ENV[1] \in {"prod", "production"}
  BY DEF IsProd, Load
<1>3. Prod <=> env.TON_ENV # None /\ env.TON_ENV[1] \in {"prod", "production"}
  <2>1. ASSUME NEW v PROVE /\ <<v>> # << >> /\ <<v>>[1] = v
                           /\ <<v>> = <<"prod">> <=> v = "prod"
                           /\ <<v>> = <<"production">> <=> v = "production"
    OBVIOUS
  <2>2. CASE env.TON_ENV = None
    BY <2>1, <2>2 DEF Prod, Some, None
  <2>3. CASE env.TON_ENV = Some(env.TON_ENV[1])
    BY <2>1, <2>3 DEF Prod, Some, None
  <2>4. QED
    BY <1>1, <2>2, <2>3
<1>4. QED
  BY <1>2, <1>3, ConfigFields DEF IsProd

\* Wired values can be run with.
LEMMA WiringFromConfig == ConfigOK => WiringSane
<1> SUFFICES ASSUME ConfigOK, phase = "serving" PROVE WiringSane
  BY DEF WiringSane
<1>1. /\ cfg.defaultTTL \in Int /\ cfg.maxTTL \in Int
      /\ cfg.pollInterval \in Int /\ cfg.pollWorkers \in Int
  <2>1. env \in Environments
    BY DEF ConfigOK
  <2>2. QED
    BY <2>1, ConfigFields, LoadedInts, ConfigAssumption DEF Ints
<1>2. /\ DefaultTTLSeconds * Second \in Nat \ {0} /\ MaxTTLSeconds * Second \in Nat \ {0}
      /\ PollSeconds * Second \in Nat \ {0}
  BY PositiveProduct, ConfigAssumption
<1>3. service = NewService
  BY DEF ConfigOK, service, Some
<1>4. QED
  BY <1>1, <1>2, <1>3 DEF WiringSane, NewService, Interval, Concurrency

-----------------------------------------------------------------------------
(* What the two halves of Next leave alone.                                *)

Serve == Request \/ (\E i \in Ids : Poll(i) \/ Pay(i)) \/ Tick

LEMMA StartFrame == StartUp => phase # "serving" /\ phase # "refused" /\ UNCHANGED <<env, running>>
BY DEF StartUp, LoadConfig, Validate, OpenStore, CheckAddress, Wire, Goto, Refuse

LEMMA RequestFrame == Request => phase = "serving" /\ UNCHANGED <<startVars, ledger, elapsed>>
BY DEF Request, healthz, getInvoice, invoiceQR, Limited, invoiceStatus, createInvoice

\* Nobody pays before there is an invoice, and there is none before the process serves.
LEMMA ServeFrame ==
  ASSUME StartOK, Serve
  PROVE  phase = "serving" /\ UNCHANGED startVars
<1>1. CASE Request
  BY <1>1, RequestFrame
<1>2. CASE \E i \in Ids : Poll(i)
  BY <1>2 DEF Poll
<1>3. CASE \E i \in Ids : Pay(i)
  BY <1>3 DEF Pay, StartOK
<1>4. CASE Tick
  BY <1>4 DEF Tick
<1>5. QED
  BY <1>1, <1>2, <1>3, <1>4 DEF Serve

LEMMA Halves == Next <=> StartUp \/ Serve
BY DEF Next, Serve

-----------------------------------------------------------------------------
(* The configuration and the receiving address.                            *)

LEMMA NewServiceFrame == UNCHANGED cfg => UNCHANGED NewService
BY DEF NewService, IsProd, IsTestnet, Interval, Concurrency

LEMMA ConfigFrame == ConfigOK /\ AddressOK /\ UNCHANGED startVars => ConfigOK' /\ AddressOK'
BY NewServiceFrame DEF ConfigOK, AddressOK, startVars, IsProd, IsTestnet

LEMMA ConfigStart ==
  ASSUME ConfigOK, StartUp
  PROVE  ConfigOK'
<1>1. CASE LoadConfig
  BY <1>1 DEF LoadConfig, ConfigOK, Goto
<1>2. CASE Validate
  BY <1>2 DEF Validate, ConfigOK, Goto, Refuse
<1>3. CASE OpenStore
  BY <1>3 DEF OpenStore, ConfigOK, Goto, Refuse
<1>4. CASE CheckAddress
  <2>1. cfg = Load(env)
    BY <1>4 DEF CheckAddress, ConfigOK
  <2>2. cfg' = Load(env) \/ \E r : cfg' = [Load(env) EXCEPT !.receiving = r]
    BY <1>4, <2>1 DEF CheckAddress
  <2>3. QED
    BY <1>4, <2>2 DEF CheckAddress, ConfigOK, Goto, Refuse
<1>5. CASE Wire
  BY <1>5, NewServiceFrame DEF Wire, ConfigOK, Goto
<1>6. QED
  BY <1>1, <1>2, <1>3, <1>4, <1>5 DEF StartUp

LEMMA AddressStart ==
  ASSUME ConfigOK, AddressOK, StartUp
  PROVE  AddressOK'
<1>1. CASE LoadConfig
  BY <1>1 DEF LoadConfig, AddressOK, Goto
<1>2. CASE Validate
  BY <1>2 DEF Validate, AddressOK, Goto, Refuse
<1>3. CASE OpenStore
  BY <1>3 DEF OpenStore, AddressOK, Goto, Refuse
<1>4. CASE CheckAddress
  <2> DEFINE text == env.TON_RECEIVING_ADDRESS
             norm == NormalizeOnNetwork(text[1], IsTestnet(Load(env)))
  <2>1. cfg = Load(env) /\ env' = env
    BY <1>4 DEF CheckAddress, ConfigOK
  <2>2. cfg.receiving = text
    BY <2>1 DEF Load
  <2>3. CASE phase' = "refused"
    BY <2>3 DEF AddressOK
  <2>4. CASE phase' # "refused"
    <3>1. /\ ~(text # None /\ norm = Invalid /\ IsProd(Load(env)))
          /\ cfg' = [Load(env) EXCEPT !.receiving =
                       IF text = None \/ norm = Invalid THEN text ELSE Some(norm)]
      BY <1>4, <2>1, <2>2, <2>4 DEF CheckAddress, Refuse, Goto
    <3>2. /\ cfg'.receiving = IF text = None \/ norm = Invalid THEN text ELSE Some(norm)
          /\ cfg'.env = Load(env).env /\ cfg'.network = Load(env).network
      BY <3>1 DEF Load
    <3>3. IsProd(cfg') = IsProd(Load(env)) /\ IsTestnet(cfg') = IsTestnet(Load(env))
      BY <3>2 DEF IsProd, IsTestnet
    <3>4. QED
      BY <2>1, <3>1, <3>2, <3>3 DEF AddressOK
  <2>5. QED
    BY <2>3, <2>4
<1>5. CASE Wire
  BY <1>5 DEF Wire, AddressOK, Goto
<1>6. QED
  BY <1>1, <1>2, <1>3, <1>4, <1>5 DEF StartUp

LEMMA StartStep ==
  ASSUME StartOK, StartUp \/ Serve
  PROVE  StartOK'
<1>1. CASE StartUp
  BY <1>1, StartFrame DEF StartOK, running
<1>2. CASE Serve
  BY <1>2, ServeFrame DEF StartOK, startVars
<1>3. QED
  BY <1>1, <1>2

-----------------------------------------------------------------------------
(* The key.                                                                *)

\* A response shows an invoice only to a request that is authorized.
LEMMA ShownToAuthorized ==
  ASSUME Request
  PROVE  response'.view = NoInvoice \/ authorized(response'.key)
<1>1. ASSUME NEW code, NEW key, NEW view, NEW amount, NEW size,
             Respond(code, key, view, amount, size)
      PROVE  response'.view = view /\ response'.key = key
  BY <1>1 DEF Respond
<1>2. ASSUME NEW code, NEW key, Error(code, key)
      PROVE  response'.view = NoInvoice
  BY <1>1, <1>2 DEF Error
<1>3. ASSUME NEW code, NEW key, NEW inv, invoiceView(key, code, inv)
      PROVE  response'.key = key
  BY <1>1, <1>3 DEF invoiceView
<1>4. ASSUME NEW key, NEW i, NEW mayFail, 200 \in Outcomes(key, i, mayFail)
      PROVE  authorized(key)
  BY <1>4 DEF Outcomes
<1>5. CASE healthz
  BY <1>5, <1>2 DEF healthz
<1>6. ASSUME NEW key, NEW i, getInvoice(key, i)
      PROVE  response'.view = NoInvoice \/ authorized(response'.key)
  BY <1>6, <1>2, <1>3, <1>4 DEF getInvoice
<1>7. ASSUME NEW key, NEW i, NEW size, invoiceQR(key, i, size)
      PROVE  response'.view = NoInvoice \/ authorized(response'.key)
  BY <1>7, <1>1, <1>2, <1>4 DEF invoiceQR
<1>8. ASSUME NEW peer, NEW xff, NEW key, Limited(peer, xff, key)
      PROVE  response'.view = NoInvoice
  BY <1>8, <1>2 DEF Limited
<1>9. ASSUME NEW peer, NEW xff, NEW key, NEW i, invoiceStatus(peer, xff, key, i)
      PROVE  response'.view = NoInvoice \/ authorized(response'.key)
  <2>1. \E code \in Outcomes(key, i, MayMiss \/ IsPending(i)) :
          IF code = 200 THEN invoiceView(key, 200, invoices'[i]) ELSE Error(code, key)
    BY <1>9 DEF invoiceStatus
  <2>2. QED
    BY <2>1, <1>2, <1>3, <1>4
<1>10. ASSUME NEW peer, NEW xff, NEW key, NEW i, NEW body, createInvoice(peer, xff, key, i, body)
       PROVE  response'.view = NoInvoice \/ authorized(response'.key)
  <2>1. \/ \E code : Error(code, key)
        \/ authorized(key) /\ invoiceView(key, 201, invoices'[i])
    BY <1>10 DEF createInvoice
  <2>2. QED
    BY <2>1, <1>2, <1>3
<1>11. QED
  BY <1>5, <1>6, <1>7, <1>8, <1>9, <1>10 DEF Request

LEMMA KeyStep ==
  ASSUME StartOK, KeyGuardsInvoices, StartUp \/ Serve
  PROVE  KeyGuardsInvoices'
<1>1. CASE StartUp
  <2>1. response' = NoResponse
    BY <1>1, StartFrame DEF StartOK, running
  <2>2. QED
    BY <2>1 DEF KeyGuardsInvoices, NoResponse
<1>2. CASE Request
  BY <1>2, RequestFrame, ShownToAuthorized DEF KeyGuardsInvoices, authorized, startVars
<1>3. CASE Serve /\ ~Request
  <2>1. response' = NoResponse
    BY <1>3 DEF Serve, Poll, Pay, Tick, Silent
  <2>2. QED
    BY <2>1 DEF KeyGuardsInvoices, NoResponse
<1>4. QED
  BY <1>1, <1>2, <1>3

-----------------------------------------------------------------------------
(* The limiter.                                                            *)

LEMMA LimiterFrame ==
  LimiterOK /\ UNCHANGED <<startVars, level, work, elapsed>> => LimiterOK'
BY DEF LimiterOK, startVars

\* An admitted request is paid for by the client the limiter takes it for.
LEMMA LimiterAdmit ==
  ASSUME LimiterOK, UNCHANGED <<startVars, elapsed>>,
         NEW peer \in Peers, NEW xff \in Forwarded, Admitted(peer, xff)
  PROVE  LimiterOK'
<1> DEFINE k == clientIP(peer, xff)
<1>1. k \in Keys /\ (~cfg.trustProxy => k = peer)
  BY DEF clientIP, Keys
<1>2. /\ level[k] >= 1 /\ level' = [level EXCEPT ![k] = level[k] - 1]
      /\ work' = [work EXCEPT ![peer] = work[peer] + 1]
  BY DEF Admitted, Bucket!Admit
<1> HIDE DEF k
<1>3. level \in [Keys -> 0 .. Burst] /\ work \in [Peers -> Nat] /\ elapsed \in Nat
  BY DEF LimiterOK
<1>4. level' \in [Keys -> 0 .. Burst] /\ work' \in [Peers -> Nat] /\ elapsed' \in Nat
  BY <1>1, <1>2, <1>3, ServerAssumption
<1>5. ASSUME phase = "serving", ~cfg.trustProxy, NEW p \in Peers
      PROVE  work'[p] + level'[p] <= Burst + elapsed * Rate
  <2>1. work[p] + level[p] <= Burst + elapsed * Rate
    BY <1>5 DEF LimiterOK
  <2>2. p \in Keys /\ level[p] \in Int /\ work[p] \in Int
    BY <1>3, ServerAssumption DEF Keys
  <2>3. work'[p] + level'[p] = work[p] + level[p]
    BY <1>1, <1>2, <1>3, <1>5, <2>2
  <2>4. QED
    BY <2>1, <2>3
<1>6. QED
  BY <1>4, <1>5 DEF LimiterOK, startVars

\* A unit of time puts at most Rate into a bucket.
LEMMA LimiterTick ==
  ASSUME LimiterOK, Tick
  PROVE  LimiterOK'
<1>1. level \in [Keys -> 0 .. Burst] /\ work \in [Peers -> Nat] /\ elapsed \in Nat
  BY DEF LimiterOK
<1>2. /\ level' = [k \in Keys |-> IF Burst < level[k] + Rate THEN Burst ELSE level[k] + Rate]
      /\ elapsed' = elapsed + 1 /\ UNCHANGED <<startVars, work>>
  BY DEF Tick, Bucket!Refill, Bucket!Least
<1>3. level' \in [Keys -> 0 .. Burst] /\ elapsed' \in Nat
  BY <1>1, <1>2, ServerAssumption
<1>4. elapsed' * Rate = elapsed * Rate + Rate /\ elapsed * Rate \in Nat
  BY <1>1, <1>2, OneMore, ServerAssumption
<1>5. ASSUME phase = "serving", ~cfg.trustProxy, NEW p \in Peers
      PROVE  work[p] + level'[p] <= Burst + elapsed' * Rate
  <2>1. work[p] + level[p] <= Burst + elapsed * Rate
    BY <1>5 DEF LimiterOK
  <2>2. p \in Keys /\ level[p] \in Nat /\ work[p] \in Nat
    BY <1>1, ServerAssumption DEF Keys
  <2>3. level'[p] \in Nat /\ level'[p] <= level[p] + Rate
    BY <1>2, <2>2, ServerAssumption
  <2>4. QED
    BY <1>4, <2>1, <2>2, <2>3, ServerAssumption
<1>6. QED
  BY <1>1, <1>2, <1>3, <1>5 DEF LimiterOK, startVars

LEMMA LimiterStep ==
  ASSUME StartOK, LimiterOK, StartUp \/ Serve
  PROVE  LimiterOK'
<1>1. CASE StartUp
  <2>1. /\ level' = [k \in Keys |-> Burst] /\ work' = [p \in Peers |-> 0] /\ elapsed' = 0
    BY <1>1, StartFrame DEF StartOK, running
  <2>2. level' \in [Keys -> 0 .. Burst] /\ work' \in [Peers -> Nat] /\ elapsed' \in Nat
    BY <2>1, ServerAssumption
  <2>3. \A p \in Peers : work'[p] + level'[p] <= Burst + elapsed' * Rate
    BY <2>1, ServerAssumption DEF Keys
  <2>4. QED
    BY <2>2, <2>3 DEF LimiterOK
<1>2. CASE Request
  <2>1. \/ UNCHANGED <<level, work>>
        \/ \E peer \in Peers, xff \in Forwarded : Admitted(peer, xff)
    BY <1>2 DEF Request, healthz, getInvoice, invoiceQR, Limited, invoiceStatus,
                createInvoice, Unlimited, Bucket!Refuse
  <2>2. QED
    BY <1>2, <2>1, RequestFrame, LimiterFrame, LimiterAdmit
<1>3. CASE \E i \in Ids : Poll(i) \/ Pay(i)
  BY <1>3, LimiterFrame DEF Poll, Pay, Unlimited
<1>4. CASE Tick
  BY <1>4, LimiterTick
<1>5. QED
  BY <1>1, <1>2, <1>3, <1>4 DEF Serve

-----------------------------------------------------------------------------
(* Invoices.                                                               *)

\* A check changes an invoice's status only, to paid only on such a verdict.
LEMMA CheckedEffect ==
  ASSUME TermsOK, NEW i \in Ids, IsPending(i), Checked(i)
  PROVE  \E status :
           /\ status = "paid" => "paid" \in Verdict(i)
           /\ invoices' = [invoices EXCEPT ![i] =
                [payTo |-> invoices[i].payTo, amount |-> invoices[i].amount,
                 lifetime |-> invoices[i].lifetime, status |-> status,
                 body |-> invoices[i].body]]
<1> DEFINE inv == invoices[i]
<1>1. inv = [payTo |-> inv.payTo, amount |-> inv.amount, lifetime |-> inv.lifetime,
             status |-> inv.status, body |-> inv.body]
  BY DEF TermsOK, Stored, IsPending
<1>2. PICK verdict \in Verdict(i) :
        \E s \in {"pending", IF verdict = "paid" THEN "paid" ELSE "expired"} :
          invoices' = [invoices EXCEPT ![i].status = s]
  BY DEF Checked
<1> PICK status \in {"pending", IF verdict = "paid" THEN "paid" ELSE "expired"} :
      invoices' = [invoices EXCEPT ![i].status = status]
  BY <1>2
<1>3. status = "paid" => "paid" \in Verdict(i)
  BY <1>2
<1>4. [inv EXCEPT !.status = status] =
        [payTo |-> inv.payTo, amount |-> inv.amount, lifetime |-> inv.lifetime,
         status |-> status, body |-> inv.body]
  BY <1>1
<1>5. invoices' = [invoices EXCEPT ![i] = [inv EXCEPT !.status = status]]
  BY <1>2
<1>6. QED
  BY <1>3, <1>4, <1>5

\* What a serving step may do to the invoices.
LEMMA InvoiceSteps ==
  ASSUME Serve
  PROVE  \/ UNCHANGED invoices
         \/ \E i \in Ids : IsPending(i) /\ Checked(i) /\ UNCHANGED ledger
         \/ \E i \in Ids, body \in Bodies :
              /\ body.amount > 0 /\ Receiver(body.payTo) # Invalid
              /\ invoices' = [invoices EXCEPT ![i] = NewInvoice(body)]
              /\ UNCHANGED ledger
<1>1. CASE Request
  BY <1>1 DEF Request, healthz, getInvoice, invoiceQR, Limited, invoiceStatus, createInvoice
<1>2. CASE \E i \in Ids : Poll(i) \/ Pay(i)
  BY <1>2 DEF Poll, Pay
<1>3. CASE Tick
  BY <1>3 DEF Tick
<1>4. QED
  BY <1>1, <1>2, <1>3 DEF Serve

LEMMA LedgerGrows == StartUp \/ Serve => ledger \subseteq ledger'
BY StartFrame, RequestFrame DEF Serve, Poll, Pay, Tick, running

LEMMA ServiceFrame ==
  ASSUME UNCHANGED svc
  PROVE  /\ \A n : Lifetime(n)' = Lifetime(n)
         /\ \A t : Receiver(t)' = Receiver(t)
BY DEF Lifetime, Receiver, service

\* The terms hold where they did, and for what is written.
LEMMA TermsStep ==
  ASSUME StartOK, TermsOK, StartUp \/ Serve
  PROVE  TermsOK'
<1> DEFINE Terms(inv) ==
      /\ inv = [payTo |-> inv.payTo, amount |-> inv.amount, lifetime |-> inv.lifetime,
                status |-> inv.status, body |-> inv.body]
      /\ inv.body \in Bodies
      /\ inv.amount = inv.body.amount /\ inv.amount > 0
      /\ inv.lifetime = Lifetime(inv.body.seconds)
      /\ inv.payTo = Receiver(inv.body.payTo) /\ inv.payTo # Invalid
<1>1. CASE StartUp
  BY <1>1, StartFrame DEF StartOK, TermsOK, Stored, running
<1>2. CASE Serve
  <2>1. DOMAIN invoices = Ids /\ \A i \in Ids : invoices[i] # NoInvoice => Terms(invoices[i])
    BY DEF TermsOK, Stored
  <2>2. UNCHANGED svc
    BY <1>2, ServeFrame DEF startVars
  <2>3. SUFFICES DOMAIN invoices' = Ids
                 /\ \A i \in Ids : invoices'[i] # NoInvoice => Terms(invoices'[i])
    BY <2>2, <2>3, ServiceFrame DEF TermsOK, Stored
  <2>4. CASE UNCHANGED invoices
    BY <2>1, <2>4
  <2>5. ASSUME NEW i \in Ids, IsPending(i), Checked(i)
        PROVE  /\ DOMAIN invoices' = Ids
               /\ \A j \in Ids : invoices'[j] # NoInvoice => Terms(invoices'[j])
    <3> DEFINE inv == invoices[i]
    <3>1. Terms(inv)
      BY <2>1, <2>5 DEF IsPending
    <3>2. PICK s : invoices' = [invoices EXCEPT ![i] =
              [payTo |-> inv.payTo, amount |-> inv.amount, lifetime |-> inv.lifetime,
               status |-> s, body |-> inv.body]]
      BY <2>5, CheckedEffect
    <3>3. Terms([payTo |-> inv.payTo, amount |-> inv.amount, lifetime |-> inv.lifetime,
                 status |-> s, body |-> inv.body])
      BY <3>1
    <3> HIDE DEF Terms
    <3>4. QED
      BY <2>1, <3>2, <3>3
  <2>6. ASSUME NEW i \in Ids, NEW body \in Bodies, body.amount > 0,
               Receiver(body.payTo) # Invalid,
               invoices' = [invoices EXCEPT ![i] = NewInvoice(body)]
        PROVE  /\ DOMAIN invoices' = Ids
               /\ \A j \in Ids : invoices'[j] # NoInvoice => Terms(invoices'[j])
    <3>1. Terms(NewInvoice(body))
      BY <2>6 DEF NewInvoice
    <3> HIDE DEF Terms
    <3>2. QED
      BY <2>1, <2>6, <3>1
  <2>7. QED
    BY <1>2, <2>4, <2>5, <2>6, InvoiceSteps
<1>3. QED
  BY <1>1, <1>2

\* A response that shows an invoice shows one that is stored, with its amount in
\* words or as a picture of some size.
LEMMA ShownIsStored ==
  ASSUME Request
  PROVE  \/ response'.view = NoInvoice
         \/ response'.size # 0
         \/ \E i \in Ids : /\ response'.view = invoices'[i]
                          /\ response'.amount = NanoToTONString(invoices'[i].amount)
<1> DEFINE Goal ==
      \/ response'.view = NoInvoice
      \/ response'.size # 0
      \/ \E i \in Ids : /\ response'.view = invoices'[i]
                       /\ response'.amount = NanoToTONString(invoices'[i].amount)
<1>1. ASSUME NEW code, NEW key, NEW view, NEW amount, NEW size,
             Respond(code, key, view, amount, size)
      PROVE  response'.view = view /\ response'.amount = amount /\ response'.size = size
  BY <1>1 DEF Respond
<1>2. ASSUME NEW code, NEW key, Error(code, key)
      PROVE  Goal
  BY <1>1, <1>2 DEF Error
<1>3. ASSUME NEW code, NEW key, NEW i \in Ids, invoiceView(key, code, invoices'[i])
      PROVE  Goal
  BY <1>1, <1>3 DEF invoiceView
<1> HIDE DEF Goal
<1>4. ASSUME healthz
      PROVE  Goal
  BY <1>4, <1>2 DEF healthz
<1>5. ASSUME NEW key, NEW i \in Ids, getInvoice(key, i)
      PROVE  Goal
  <2>1. UNCHANGED invoices
    BY <1>5 DEF getInvoice
  <2>2. \E code : invoiceView(key, 200, invoices[i]) \/ Error(code, key)
    BY <1>5 DEF getInvoice
  <2>3. QED
    BY <2>1, <2>2, <1>2, <1>3
<1>6. ASSUME NEW key, NEW i \in Ids, NEW size \in Sizes, invoiceQR(key, i, size)
      PROVE  Goal
  <2>1. \/ Respond(200, key, invoices[i], NoAmount, PNGSize(size))
        \/ \E code : Error(code, key)
    BY <1>6 DEF invoiceQR
  <2>2. PNGSize(size) # 0
    BY ServerAssumption DEF PNGSize
  <2>3. QED
    BY <1>1, <1>2, <2>1, <2>2 DEF Goal
<1>7. ASSUME NEW peer, NEW xff, NEW key, Limited(peer, xff, key)
      PROVE  Goal
  BY <1>7, <1>2 DEF Limited
<1>8. ASSUME NEW peer, NEW xff, NEW key, NEW i \in Ids, invoiceStatus(peer, xff, key, i)
      PROVE  Goal
  <2>1. \E code \in Outcomes(key, i, MayMiss \/ IsPending(i)) :
          IF code = 200 THEN invoiceView(key, 200, invoices'[i]) ELSE Error(code, key)
    BY <1>8 DEF invoiceStatus
  <2>2. QED
    BY <2>1, <1>2, <1>3
<1>9. ASSUME NEW peer, NEW xff, NEW key, NEW i \in Ids, NEW body,
             createInvoice(peer, xff, key, i, body)
      PROVE  Goal
  <2>1. (\E code : Error(code, key)) \/ invoiceView(key, 201, invoices'[i])
    BY <1>9 DEF createInvoice
  <2>2. QED
    BY <2>1, <1>2, <1>3
<1>10. Goal
  BY <1>4, <1>5, <1>6, <1>7, <1>8, <1>9 DEF Request
<1>11. QED
  BY <1>10 DEF Goal

LEMMA AmountStep ==
  ASSUME StartOK, TermsOK', StartUp \/ Serve
  PROVE  AmountReadsBack'
<1>1. CASE StartUp
  <2>1. response' = NoResponse
    BY <1>1, StartFrame DEF StartOK, running
  <2>2. QED
    BY <2>1 DEF AmountReadsBack, NoResponse
<1>2. CASE Request
  <2> SUFFICES ASSUME response'.view # NoInvoice, response'.size = 0
               PROVE  response'.view.amount = ReadBack(response'.amount)
    BY DEF AmountReadsBack, ReadBack
  <2>1. PICK i \in Ids : /\ response'.view = invoices'[i]
                         /\ response'.amount = NanoToTONString(invoices'[i].amount)
    BY <1>2, ShownIsStored
  <2>2. invoices'[i].amount \in Nat
    BY <2>1, ServerAssumption DEF TermsOK, Stored
  <2>3. QED
    BY <2>1, <2>2, AmountInWords
<1>3. CASE Serve /\ ~Request
  <2>1. response' = NoResponse
    BY <1>3 DEF Serve, Poll, Pay, Tick, Silent
  <2>2. QED
    BY <2>1 DEF AmountReadsBack, NoResponse
<1>4. QED
  BY <1>1, <1>2, <1>3

\* A refusal is all that a refused request leaves behind.
LEMMA RefusedStep ==
  ASSUME StartOK, [Next]_vars, response'.code \in {401, 429}
  PROVE  UNCHANGED <<invoices, polls, ledger>>
<1>1. ASSUME NEW code, NEW key, NEW view, NEW amount, NEW size,
             Respond(code, key, view, amount, size)
      PROVE  response'.code = code
  BY <1>1 DEF Respond
<1>2. ASSUME NEW code, NEW key, Error(code, key)
      PROVE  response'.code = code
  BY <1>1, <1>2 DEF Error
<1>3. ASSUME NEW code, NEW key, NEW inv, invoiceView(key, code, inv)
      PROVE  response'.code = code
  BY <1>1, <1>3 DEF invoiceView
<1>4. CASE UNCHANGED vars \/ StartUp
  BY <1>4, StartFrame DEF vars, running
<1>5. CASE Serve /\ ~Request
  <2>1. response' = NoResponse
    BY <1>5 DEF Serve, Poll, Pay, Tick, Silent
  <2>2. QED
    BY <2>1 DEF NoResponse
<1>6. CASE \/ healthz
           \/ \E key, i : getInvoice(key, i)
           \/ \E key, i, size : invoiceQR(key, i, size)
           \/ \E peer, xff, key : Limited(peer, xff, key)
  BY <1>6 DEF healthz, getInvoice, invoiceQR, Limited
<1>7. ASSUME NEW peer, NEW xff, NEW key, NEW i, invoiceStatus(peer, xff, key, i)
      PROVE  UNCHANGED <<invoices, polls, ledger>>
  <2>1. PICK code \in Outcomes(key, i, MayMiss \/ IsPending(i)) :
          IF code = 200 THEN invoiceView(key, 200, invoices'[i]) ELSE Error(code, key)
    BY <1>7 DEF invoiceStatus
  <2>2. code \in {401, 429}
    BY <2>1, <1>2, <1>3
  <2>3. ~authorized(key)
    BY <2>1, <2>2 DEF Outcomes
  <2>4. QED
    BY <1>7, <2>3 DEF invoiceStatus
<1>8. ASSUME NEW peer, NEW xff, NEW key, NEW i, NEW body, createInvoice(peer, xff, key, i, body)
      PROVE  UNCHANGED <<invoices, polls, ledger>>
  <2>1. UNCHANGED invoices \/ invoiceView(key, 201, invoices'[i])
    BY <1>8 DEF createInvoice
  <2>2. UNCHANGED <<polls, ledger>>
    BY <1>8 DEF createInvoice
  <2>3. QED
    BY <2>1, <2>2, <1>3
<1>9. CASE Request
  BY <1>6, <1>7, <1>8, <1>9 DEF Request
<1>10. QED
  BY <1>4, <1>5, <1>9, Halves

\* In production the verifier reads the ledger.
LEMMA PaidStep ==
  ASSUME ConfigOK, StartOK, TermsOK, ProdPaidMeansPaid, StartUp \/ Serve
  PROVE  ProdPaidMeansPaid'
<1>1. CASE StartUp
  BY <1>1, StartFrame DEF StartOK, ProdPaidMeansPaid, Stored, running
<1>2. CASE Serve
  <2>1. phase = "serving" /\ UNCHANGED startVars /\ env' = env
    BY <1>2, ServeFrame DEF startVars
  <2>2. SUFFICES ASSUME Prod, NEW j \in Ids, invoices'[j] # NoInvoice,
                        invoices'[j].status = "paid"
                 PROVE  j \in ledger'
    BY <2>1 DEF ProdPaidMeansPaid, Stored, Prod
  <2>3. ledger \subseteq ledger'
    BY <1>2, LedgerGrows
  <2>4. invoices[j] # NoInvoice /\ invoices[j].status = "paid" => j \in ledger
    BY <2>2 DEF ProdPaidMeansPaid, Stored
  <2>5. CASE invoices'[j] = invoices[j]
    BY <2>2, <2>3, <2>4, <2>5
  <2>6. ASSUME NEW i \in Ids, IsPending(i), Checked(i), invoices'[j] # invoices[j]
        PROVE  j \in ledger
    <3>1. PICK s :
           /\ s = "paid" => "paid" \in Verdict(i)
           /\ invoices' = [invoices EXCEPT ![i] =
                [payTo |-> invoices[i].payTo, amount |-> invoices[i].amount,
                 lifetime |-> invoices[i].lifetime, status |-> s,
                 body |-> invoices[i].body]]
      BY <2>6, CheckedEffect
    <3>2. j = i /\ s = "paid"
      BY <2>2, <2>6, <3>1 DEF TermsOK
    <3>3. service.verifier = "ton"
      BY <2>1, <2>2, ProdIsProd DEF ConfigOK, service, Some, NewService
    <3>4. QED
      BY <3>1, <3>2, <3>3 DEF Verdict
  <2>7. ASSUME NEW i \in Ids, NEW body \in Bodies,
               invoices' = [invoices EXCEPT ![i] = NewInvoice(body)],
               invoices'[j] # invoices[j]
        PROVE  FALSE
    BY <2>2, <2>7 DEF TermsOK, NewInvoice
  <2>8. QED
    BY <1>2, <2>3, <2>5, <2>6, <2>7, InvoiceSteps
<1>3. QED
  BY <1>1, <1>2

-----------------------------------------------------------------------------
(* Lifetimes.                                                              *)

LEMMA LifetimeFromTerms == ConfigOK /\ StartOK /\ TermsOK => LifetimeWithinCap
<1> SUFFICES ASSUME ConfigOK, StartOK, TermsOK, NEW i \in Stored
             PROVE  LET inv   == invoices[i]
                        asked == inv.body.seconds * Second
                    IN  /\ 0 < inv.lifetime /\ inv.lifetime <= service.maxTTL
                        /\ 0 < asked /\ asked <= MaxInt =>
                             inv.lifetime = Min({asked, service.maxTTL})
  BY DEF LifetimeWithinCap
<1> DEFINE n     == invoices[i].body.seconds
           asked == n * Second
           ttl   == IF Seconds(n) <= 0 THEN service.defaultTTL ELSE Seconds(n)
<1>1. phase = "serving"
  BY DEF StartOK, Stored
<1>2. /\ service.defaultTTL > 0 /\ service.maxTTL > 0
  BY <1>1, WiringFromConfig DEF WiringSane
<1>3. service.defaultTTL \in Int /\ service.maxTTL \in Int
  <2>1. service = NewService /\ env \in Environments
    BY <1>1 DEF ConfigOK, service, Some
  <2>2. cfg.defaultTTL \in Int /\ cfg.maxTTL \in Int
    BY <1>1, <2>1, ConfigFields, LoadedInts, ConfigAssumption DEF Ints
  <2>3. DefaultTTLSeconds * Second \in Int /\ MaxTTLSeconds * Second \in Int
    BY IntProduct, ConfigAssumption
  <2>4. QED
    BY <2>1, <2>2, <2>3 DEF NewService
<1>4. invoices[i].body \in Bodies /\ invoices[i].lifetime = Lifetime(n)
  BY DEF TermsOK, Stored
<1>5. n \in Ints /\ asked \in Int /\ Seconds(n) \in Int
  BY <1>4, ServerAssumption, SecondsAreInts, IntProduct, ConfigAssumption DEF Ints
<1>6. 0 < asked /\ asked <= MaxInt => Seconds(n) = asked
  BY <1>5, Int64Wraps, ConfigAssumption DEF Seconds, Ints
<1> HIDE DEF n, asked
<1>7. ttl \in Int /\ ttl > 0 /\ (0 < asked /\ asked <= MaxInt => ttl = asked)
  BY <1>2, <1>3, <1>5, <1>6
<1>8. invoices[i].lifetime = Min({ttl, service.maxTTL})
  BY <1>4 DEF Lifetime
<1> HIDE DEF ttl
<1>9. Min({ttl, service.maxTTL}) = IF ttl <= service.maxTTL THEN ttl ELSE service.maxTTL
  BY <1>3, <1>7, MinOfTwo
<1>10. 0 < invoices[i].lifetime /\ invoices[i].lifetime <= service.maxTTL
  BY <1>2, <1>3, <1>7, <1>8, <1>9
<1>11. 0 < asked /\ asked <= MaxInt => invoices[i].lifetime = Min({asked, service.maxTTL})
  BY <1>7, <1>8
<1>12. QED
  BY <1>10, <1>11 DEF asked, n

-----------------------------------------------------------------------------
(* Addresses.                                                              *)

\* What Parse and String make of a well-formed friendly text.
LEMMA FriendlyParses ==
  ASSUME NEW a \in {"url", "std"}, NEW t \in Tags, NEW wc \in {0, 255}, NEW h \in Hashes
  PROVE  LET s == Friendly(a, t, wc, h, crc16(t, wc, h))
         IN  /\ s \in Spellings /\ s.form # "raw"
             /\ Parse(s) = [wc |-> IF wc = 255 THEN -1 ELSE 0, hash |-> h,
                            bounceable |-> t \in {17, 145}, testnet |-> t >= 128]
             /\ Parse(s) # Invalid
             /\ Parse(s).testnet = (t >= 128)
             /\ String(Parse(s)) = Friendly("url", t, wc, h, crc16(t, wc, h))
<1> DEFINE s == Friendly(a, t, wc, h, crc16(t, wc, h))
           b == [wc |-> IF wc = 255 THEN -1 ELSE 0, hash |-> h,
                 bounceable |-> t \in {17, 145}, testnet |-> t >= 128]
<1>1. s \in Spellings
  BY DEF Spellings
<1>2. s # Garbage /\ s.form # "raw"
  BY <1>1, TextAssumption DEF Friendly
<1>3. t \in {17, 81, 145, 209}
  BY DEF Tags, tagBounceable, tagNonBounceable, tagTestnet
<1>4. /\ 17 % 128 = 17 /\ 81 % 128 = 81 /\ 145 % 128 = 17 /\ 209 % 128 = 81
  OBVIOUS
<1>5. /\ t % 128 \in {17, 81} /\ (t % 128 = 17 <=> t \in {17, 145})
  BY <1>3, <1>4
<1>6. s.tag = t /\ s.wc = wc /\ s.hash = h /\ s.crc = crc16(t, wc, h)
  BY DEF Friendly
<1>7. parseFriendly(s) = b
  BY <1>5, <1>6 DEF parseFriendly, tagBounceable, tagNonBounceable, tagTestnet
<1>8. Parse(s) = b
  BY <1>2, <1>7 DEF Parse
<1>9. b # Invalid
  BY DEF Invalid
<1>10. b.bounceable = (t \in {17, 145}) /\ b.testnet = (t >= 128)
  BY Zenon
<1>11. String(b) = Friendly("url", t, wc, h, crc16(t, wc, h))
  <2>1. (IF b.bounceable THEN 17 ELSE 81) + (IF b.testnet THEN 128 ELSE 0) = t
    <3>1. (IF t \in {17, 145} THEN 17 ELSE 81) + (IF t >= 128 THEN 128 ELSE 0) = t
      BY <1>3
    <3> HIDE DEF b
    <3>2. /\ (IF b.bounceable THEN 17 ELSE 81) = (IF t \in {17, 145} THEN 17 ELSE 81)
          /\ (IF b.testnet THEN 128 ELSE 0) = (IF t >= 128 THEN 128 ELSE 0)
      BY <1>10, Zenon
    <3>3. QED
      BY <3>1, <3>2
  <2>2. (IF b.wc = -1 THEN 255 ELSE 0) = wc
    OBVIOUS
  <2>3. b.hash = h
    OBVIOUS
  <2> HIDE DEF b
  <2>4. QED
    BY <2>1, <2>2, <2>3 DEF String, tagBounceable, tagNonBounceable, tagTestnet
<1>12. Parse(s).testnet = (t >= 128)
  <2> HIDE DEF b, s
  <2>1. QED
    BY <1>8, <1>10, Zenon
<1>13. QED
  BY <1>1, <1>2, <1>8, <1>9, <1>11, <1>12, Zenon

\* A text that normalizes is well-formed; the result names the same account and,
\* on mainnet, is its own normal form.
LEMMA NormalForm ==
  ASSUME NEW s, IsText(s), NEW testnet \in BOOLEAN, NormalizeOnNetwork(s, testnet) # Invalid
  PROVE  LET norm == NormalizeOnNetwork(s, testnet)
         IN  /\ {s, norm} \subseteq Spellings
             /\ Account(norm) = Account(s)
             /\ ~testnet => NormalizeOnNetwork(norm, FALSE) = norm
<1> DEFINE norm == NormalizeOnNetwork(s, testnet)
<1>1. /\ Parse(s) # Invalid /\ s # Garbage
      /\ norm = String(Parse(s))
      /\ s.form # "raw" => Parse(s).testnet = testnet
  BY DEF NormalizeOnNetwork, Parse
<1>2. CASE s = Raw(s.wc, s.hash) /\ s.hash \in Hashes \cup {BadHash}
  <2> DEFINE wc == IF s.wc = -1 THEN 255 ELSE 0
  <2>1. s.form = "raw"
    BY <1>2 DEF Raw
  <2>2. s.wc \in {0, -1} /\ s.hash \in Hashes
        /\ Parse(s) = [wc |-> s.wc, hash |-> s.hash, bounceable |-> TRUE, testnet |-> FALSE]
    BY <1>1, <1>2, <2>1 DEF Parse, parseRaw
  <2>3. s \in Spellings
    BY <1>2, <2>2 DEF Spellings
  <2>4. norm = Friendly("url", 17, wc, s.hash, crc16(17, wc, s.hash))
    BY <1>1, <2>2 DEF String, tagBounceable, tagTestnet
  <2>5. 17 \in Tags /\ wc \in {0, 255}
    BY DEF Tags, tagBounceable, tagNonBounceable, tagTestnet
  <2>6. /\ norm \in Spellings /\ norm.form # "raw"
        /\ Parse(norm) = [wc |-> IF wc = 255 THEN -1 ELSE 0, hash |-> s.hash,
                          bounceable |-> 17 \in {17, 145}, testnet |-> 17 >= 128]
        /\ Parse(norm) # Invalid /\ Parse(norm).testnet = (17 >= 128)
        /\ String(Parse(norm)) = norm
    BY <2>2, <2>4, <2>5, FriendlyParses
  <2>7. /\ Parse(norm).wc = s.wc /\ Parse(norm).hash = s.hash /\ Parse(norm).testnet = FALSE
        /\ Parse(s).wc = s.wc /\ Parse(s).hash = s.hash
    <3> HIDE DEF norm
    <3>1. (IF wc = 255 THEN -1 ELSE 0) = s.wc /\ (17 >= 128) = FALSE
      BY <2>2
    <3>2. Parse(s).wc = s.wc /\ Parse(s).hash = s.hash
      BY <2>2
    <3> HIDE DEF wc
    <3>3. Parse(norm).wc = (IF wc = 255 THEN -1 ELSE 0) /\ Parse(norm).hash = s.hash
      BY <2>6
    <3>4. Parse(norm).testnet = FALSE
      BY <2>6, <3>1, Zenon
    <3>5. QED
      BY <3>1, <3>2, <3>3, <3>4
  <2> HIDE DEF norm
  <2>8. Account(norm) = Account(s) /\ NormalizeOnNetwork(norm, FALSE) = norm
    BY <2>6, <2>7 DEF Account, NormalizeOnNetwork
  <2>9. QED
    BY <2>3, <2>6, <2>8 DEF norm
<1>3. CASE /\ s = Friendly(s.alphabet, s.tag, s.wc, s.hash, s.crc)
           /\ s.alphabet \in {"url", "std"} /\ s.tag \in 0 .. 255 /\ s.hash \in Hashes
  <2>1. s.form # "raw"
    BY <1>3 DEF Friendly
  <2>2. /\ s.tag % 128 \in {17, 81} /\ s.wc \in {0, 255}
        /\ s.crc = crc16(s.tag, s.wc, s.hash)
    BY <1>1, <2>1 DEF Parse, parseFriendly, tagBounceable, tagNonBounceable, tagTestnet
  <2>3. s.tag \in Tags
    <3>1. s.tag \in {17, 81, 145, 209}
      BY <1>3, <2>2
    <3>2. QED
      BY <3>1 DEF Tags, tagBounceable, tagNonBounceable, tagTestnet
  <2>4. s = Friendly(s.alphabet, s.tag, s.wc, s.hash, crc16(s.tag, s.wc, s.hash))
    BY <1>3, <2>2
  <2>5. s \in Spellings
    BY <1>3, <2>2, <2>3, <2>4, FriendlyParses
  <2> DEFINE b == [wc |-> IF s.wc = 255 THEN -1 ELSE 0, hash |-> s.hash,
                   bounceable |-> s.tag \in {17, 145}, testnet |-> s.tag >= 128]
  <2>6. Parse(s) = b /\ norm = Friendly("url", s.tag, s.wc, s.hash, crc16(s.tag, s.wc, s.hash))
    BY <1>1, <1>3, <2>2, <2>3, <2>4, FriendlyParses
  <2>7. /\ norm \in Spellings /\ norm.form # "raw" /\ Parse(norm) = b
        /\ Parse(norm) # Invalid /\ String(Parse(norm)) = norm
    BY <1>3, <2>2, <2>3, <2>6, FriendlyParses
  <2> HIDE DEF norm, b
  <2>8. Account(norm) = Account(s)
    BY <2>6, <2>7 DEF Account
  <2>9. ~testnet => NormalizeOnNetwork(norm, FALSE) = norm
    BY <1>1, <2>1, <2>6, <2>7 DEF NormalizeOnNetwork
  <2>10. QED
    BY <2>5, <2>7, <2>8, <2>9 DEF norm
<1>4. QED
  BY <1>1, <1>2, <1>3 DEF IsText

LEMMA AddressesFromTerms ==
  ConfigOK /\ AddressOK /\ StartOK /\ TermsOK => ProdAddressesCanonical
<1> SUFFICES ASSUME ConfigOK, AddressOK, StartOK, TermsOK, Prod, NEW i \in Stored
             PROVE  LET inv == invoices[i]
                        named == IF inv.body.payTo # None THEN inv.body.payTo[1]
                                 ELSE env.TON_RECEIVING_ADDRESS[1]
                    IN  /\ {named, inv.payTo} \subseteq Spellings
                        /\ Account(inv.payTo) = Account(named)
                        /\ ~service.testnet => NormalizeOnNetwork(inv.payTo, FALSE) = inv.payTo
  BY DEF ProdAddressesCanonical
<1> DEFINE inv   == invoices[i]
           text  == env.TON_RECEIVING_ADDRESS
           named == IF inv.body.payTo # None THEN inv.body.payTo[1] ELSE text[1]
<1>1. phase = "serving" /\ IsProd(cfg) /\ env \in Environments
  BY ProdIsProd DEF StartOK, Stored, ConfigOK
<1>2. service = NewService
  BY <1>1 DEF ConfigOK, service, Some
<1>3. service.payTo = cfg.receiving /\ service.testnet = IsTestnet(cfg)
  BY <1>2 DEF NewService
<1>4. service.testnet \in BOOLEAN
  BY <1>3 DEF IsTestnet
<1>5. inv.body \in Bodies /\ inv.payTo = Receiver(inv.body.payTo) /\ inv.payTo # Invalid
  BY DEF TermsOK, Stored
<1>6. inv.payTo = NormalizeOnNetwork(named, service.testnet) /\ IsText(named)
  <2>1. CASE inv.body.payTo # None
    BY <1>5, <2>1, EnvironmentAssumption DEF Receiver
  <2>2. CASE inv.body.payTo = None
    <3>1. service.payTo # None /\ inv.payTo = service.payTo[1]
      BY <1>5, <2>2 DEF Receiver
    <3>2. text # None /\ service.payTo = Some(NormalizeOnNetwork(text[1], service.testnet))
      BY <1>1, <1>3, <3>1 DEF AddressOK
    <3>3. IsText(text[1])
      BY <1>1, <3>2, EnvironmentAssumption
    <3>4. QED
      BY <2>2, <3>1, <3>2, <3>3 DEF Some
  <2>3. QED
    BY <2>1, <2>2
<1> HIDE DEF named
<1>7. /\ {named, inv.payTo} \subseteq Spellings
      /\ Account(inv.payTo) = Account(named)
      /\ ~service.testnet => NormalizeOnNetwork(inv.payTo, FALSE) = inv.payTo
  BY <1>4, <1>5, <1>6, NormalForm
<1>8. QED
  BY <1>7 DEF named

-----------------------------------------------------------------------------
(* Theorems.                                                               *)

LEMMA Inductive == Spec => []IInv
<1>1. Init => IInv
  <2> SUFFICES ASSUME Init PROVE IInv
    OBVIOUS
  <2>1. ConfigOK /\ AddressOK /\ StartOK
    BY DEF Init, ConfigOK, AddressOK, StartOK, Bucket!Init
  <2>2. TermsOK /\ ProdPaidMeansPaid
    BY DEF Init, TermsOK, ProdPaidMeansPaid, Stored
  <2>3. LimiterOK
    BY ServerAssumption DEF Init, LimiterOK, Bucket!Init
  <2>4. KeyGuardsInvoices /\ AmountReadsBack
    BY DEF Init, KeyGuardsInvoices, AmountReadsBack, NoResponse
  <2>5. QED
    BY <2>1, <2>2, <2>3, <2>4 DEF IInv
<1>2. IInv /\ [Next]_vars => IInv'
  <2> SUFFICES ASSUME IInv, [Next]_vars PROVE IInv'
    OBVIOUS
  <2>1. CASE Next
    <3>1. ConfigOK' /\ AddressOK'
      BY <2>1, Halves, ConfigStart, AddressStart, ServeFrame, ConfigFrame DEF IInv
    <3>2. StartOK' /\ TermsOK' /\ LimiterOK' /\ KeyGuardsInvoices' /\ ProdPaidMeansPaid'
      BY <2>1, Halves, StartStep, TermsStep, LimiterStep, KeyStep, PaidStep DEF IInv
    <3>3. AmountReadsBack'
      BY <2>1, <3>2, Halves, AmountStep DEF IInv
    <3>4. QED
      BY <3>1, <3>2, <3>3 DEF IInv
  <2>2. CASE UNCHANGED vars
    <3>1. ConfigOK' /\ AddressOK'
      BY <2>2, ConfigFrame DEF IInv, vars, startVars
    <3>2. StartOK' /\ LimiterOK' /\ KeyGuardsInvoices' /\ ProdPaidMeansPaid'
      BY <2>2 DEF IInv, vars, StartOK, LimiterOK, KeyGuardsInvoices, ProdPaidMeansPaid,
                  Stored, Prod
    <3>3. TermsOK'
      BY <2>2, ServiceFrame DEF IInv, vars, TermsOK, Stored
    <3>4. AmountReadsBack'
      BY <2>2 DEF IInv, vars, AmountReadsBack, ReadBack
    <3>5. QED
      BY <3>1, <3>2, <3>3, <3>4 DEF IInv
  <2>3. QED
    BY <2>1, <2>2
<1>3. QED
  BY <1>1, <1>2, PTL DEF Spec

\* Whatever numbers the environment holds, the poller's ticker and slots and the
\* lifetimes are wired with values they can run with.
THEOREM WiringAlwaysSane == Spec => []WiringSane
<1>1. IInv => WiringSane
  BY WiringFromConfig DEF IInv
<1>2. QED
  BY <1>1, Inductive, PTL

\* A production server, under either name, never has the mock credit an invoice.
THEOREM ProdNeverMocks == Spec => []ProdPaidMeansPaid
<1>1. IInv => ProdPaidMeansPaid
  BY DEF IInv
<1>2. QED
  BY <1>1, Inductive, PTL

\* Every address a production server stores is well-formed, names the account it
\* was given, and on mainnet is the one text stored for that account.
THEOREM AddressesStayCanonical == Spec => []ProdAddressesCanonical
<1>1. IInv => ProdAddressesCanonical
  BY AddressesFromTerms DEF IInv
<1>2. QED
  BY <1>1, Inductive, PTL

\* No request and no environment gives an invoice a lifetime that is not positive
\* or is above the cap, however the products wrap around.
THEOREM LifetimesCapped == Spec => []LifetimeWithinCap
<1>1. IInv => LifetimeWithinCap
  BY LifetimeFromTerms DEF IInv
<1>2. QED
  BY <1>1, Inductive, PTL

\* With a key configured, no response shows an invoice to a request without it.
THEOREM KeyAlwaysGuards == Spec => []KeyGuardsInvoices
<1>1. IInv => KeyGuardsInvoices
  BY DEF IInv
<1>2. QED
  BY <1>1, Inductive, PTL

\* The amount in words of every response is the amount of the invoice it shows, for
\* every amount and up to nine decimals, the code's number among them.
THEOREM AmountsReadBack == Spec => []AmountReadsBack
<1>1. IInv => AmountReadsBack
  BY DEF IInv
<1>2. QED
  BY <1>1, Inductive, PTL

\* A request that is over the limit or does not present the key changes no invoice
\* and makes the verifier do nothing.
THEOREM RefusalsHaveNoEffect == Spec => RefusedHasNoEffect
<1>1. IInv /\ [Next]_vars => [response'.code \in {401, 429} => UNCHANGED <<invoices, polls, ledger>>]_vars
  BY RefusedStep DEF IInv
<1>2. QED
  BY <1>1, Inductive, PTL DEF Spec, RefusedHasNoEffect

\* A peer of a server without a trusted proxy is admitted at most its burst and
\* what time has earned it, whatever header it sends.
THEOREM PeersBounded == Spec => []WorkPerPeerBounded
<1>1. IInv => WorkPerPeerBounded
  <2> SUFFICES ASSUME IInv, phase = "serving", ~cfg.trustProxy, NEW p \in Peers
               PROVE  work[p] <= Burst + elapsed * Rate
    BY DEF WorkPerPeerBounded
  <2>1. work[p] + level[p] <= Burst + elapsed * Rate /\ work[p] \in Nat /\ level[p] \in Nat
    BY ServerAssumption DEF IInv, LimiterOK, Keys
  <2>2. elapsed * Rate \in Nat
    BY OneMore, ServerAssumption DEF IInv, LimiterOK
  <2>3. QED
    BY <2>1, <2>2, ServerAssumption
<1>2. QED
  BY <1>1, Inductive, PTL
=============================================================================
