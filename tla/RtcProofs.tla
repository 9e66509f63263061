----------------------------- MODULE RtcProofs -----------------------------
(***************************************************************************)
(* Module Rtc is proved for every calendar, rate, width and bound, and for *)
(* files with any registers: none of its computations takes a register out *)
(* of the hardware's range, a cartridge that is not dirty holds the        *)
(* registers of its save, no anchor and no save is ever ahead of the time  *)
(* of the page, and what a program sees is the chip of module RtcChip,     *)
(* which counts every millisecond by itself.                               *)
(*                                                                         *)
(* The last one needs what the recursive functions compute.  Induction is  *)
(* stated for a set of numbers and follows from the library's theorem on   *)
(* minimal elements; the recursions of Normalized, Settled and AfterGap    *)
(* count down, so that they have solutions.  Then one second is the same   *)
(* for the loop, the calendar arithmetic and the chip, for a legal time or *)
(* not; a leap of n + 1 seconds is one second and a leap of n; and the     *)
(* registers after a leap are told by the sum of the phase they had and    *)
(* the ticks of the time that passed (Reached), which a millisecond of the *)
(* chip moves on by its ticks.                                             *)
(***************************************************************************)
EXTENDS Rtc, WellFoundedInduction, TLAPS

-----------------------------------------------------------------------------
(* Induction and recursion over the numbers. *)

\* The order of the numbers, as a relation.
LessThan == OpToRel(<, Nat)

\* No set of numbers descends for ever.
LEMMA LessThanIsWellFounded == IsWellFoundedOn(LessThan, Nat)
BY NatLessThanWellFounded DEF LessThan

\* The order as a relation.
LEMMA LessThanOrders == \A x, y \in Nat : x < y => <<x, y>> \in LessThan
<1> SUFFICES ASSUME NEW x \in Nat, NEW y \in Nat, x < y PROVE <<x, y>> \in LessThan
  OBVIOUS
<1>1. <<x, y>> \in Nat \X Nat
  OBVIOUS
<1>2. <<x, y>>[1] < <<x, y>>[2]
  OBVIOUS
<1> QED BY <1>1, <1>2, Zenon DEF LessThan, OpToRel

\* Induction, for a set of numbers.
LEMMA Induction ==
  ASSUME NEW P, 0 \in P, \A n \in Nat : n \in P => n + 1 \in P
  PROVE  \A n \in Nat : n \in P
<1> DEFINE T == Nat \ P
<1> SUFFICES ASSUME T # {} PROVE FALSE
  OBVIOUS
<1>1. T \subseteq Nat
  OBVIOUS
<1> HIDE DEF T
<1>2. PICK x \in T : \A y \in T : ~(<<y, x>> \in LessThan)
  BY <1>1, LessThanIsWellFounded, WFMin
<1>3. x \in Nat /\ x \notin P
  BY DEF T
<1>4. x # 0 /\ x - 1 \in Nat /\ x - 1 < x
  BY <1>3
<1>5. <<x - 1, x>> \in LessThan
  BY <1>3, <1>4, LessThanOrders, Zenon
<1>6. x - 1 \notin T
  BY <1>2, <1>5, Zenon
<1>7. x - 1 \in P
  BY <1>4, <1>6 DEF T
<1>8. (x - 1) + 1 \in P
  BY <1>4, <1>7
<1> QED BY <1>3, <1>8

\* A recursion that stops at Stop with the values of B, and else goes on at F.
\* Every step of it lowers m by one.
CountsDown(S, Stop, F, m) ==
  \A s \in S : /\ m[s] \in Nat
               /\ s \notin Stop => F[s] \in S /\ m[s] # 0 /\ m[F[s]] = m[s] - 1

\* g solves the recursion wherever m is at most n.
Solves(g, n, S, Stop, B, F, m) ==
  \A s \in S : m[s] <= n => g[s] = IF s \in Stop THEN B[s] ELSE g[F[s]]

\* Two solutions agree as far as both of them go.
LEMMA SolutionsAgree ==
  ASSUME NEW S, NEW Stop, NEW B, NEW F, NEW m, CountsDown(S, Stop, F, m),
         NEW g, NEW h, NEW n \in Nat, Solves(g, n, S, Stop, B, F, m), Solves(h, n, S, Stop, B, F, m)
  PROVE  \A s \in S : m[s] <= n => g[s] = h[s]
<1> DEFINE Q(k) == \A s \in S : m[s] = k /\ k <= n => g[s] = h[s]
           P == {k \in Nat : Q(k)}
<1>1. 0 \in P
  BY DEF Solves, CountsDown
<1>2. ASSUME NEW k \in Nat, k \in P PROVE k + 1 \in P
  <2>1. SUFFICES ASSUME k + 1 <= n, NEW s \in S, m[s] = k + 1 PROVE g[s] = h[s]
    OBVIOUS
  <2>2. CASE s \in Stop
    BY <2>1, <2>2 DEF Solves
  <2>3. CASE s \notin Stop
    <3>1. F[s] \in S /\ m[F[s]] = k
      BY <2>1, <2>3 DEF CountsDown
    <3>2. g[F[s]] = h[F[s]]
      BY <1>2, <2>1, <3>1
    <3> QED BY <2>1, <2>3, <3>2 DEF Solves
  <2> QED BY <2>2, <2>3
<1> HIDE DEF P
<1>3. \A k \in Nat : k \in P
  BY <1>1, <1>2, Induction
<1>4. \A k \in Nat : Q(k)
  BY <1>3 DEF P
<1>5. \A s \in S : m[s] \in Nat
  BY DEF CountsDown
<1> QED BY <1>4, <1>5

\* There is a solution that goes as far as one likes.
LEMMA SolutionsExist ==
  ASSUME NEW S, NEW Stop, NEW B, NEW F, NEW m, CountsDown(S, Stop, F, m)
  PROVE  \A n \in Nat : \E g : Solves(g, n, S, Stop, B, F, m)
<1> DEFINE P == {n \in Nat : \E g : Solves(g, n, S, Stop, B, F, m)}
<1>1. 0 \in P
  <2> DEFINE g == [s \in S |-> B[s]]
  <2>1. Solves(g, 0, S, Stop, B, F, m)
    BY DEF Solves, CountsDown
  <2> QED BY <2>1
<1>2. ASSUME NEW n \in Nat, n \in P PROVE n + 1 \in P
  <2>1. PICK g : Solves(g, n, S, Stop, B, F, m)
    BY <1>2
  <2> DEFINE h == [s \in S |-> IF m[s] # n + 1 THEN g[s] ELSE IF s \in Stop THEN B[s] ELSE g[F[s]]]
  <2>2. Solves(h, n + 1, S, Stop, B, F, m)
    <3> SUFFICES ASSUME NEW s \in S, m[s] <= n + 1
                 PROVE  h[s] = IF s \in Stop THEN B[s] ELSE h[F[s]]
      BY DEF Solves
    <3>1. m[s] \in Nat /\ (s \notin Stop => F[s] \in S /\ m[s] # 0 /\ m[F[s]] = m[s] - 1)
      BY DEF CountsDown
    <3>2. s \notin Stop => h[F[s]] = g[F[s]]
      BY <3>1
    <3>3. CASE m[s] = n + 1
      BY <3>2, <3>3
    <3>4. CASE m[s] # n + 1
      <4>1. m[s] <= n /\ h[s] = g[s]
        BY <3>1, <3>4
      <4> QED BY <2>1, <3>2, <4>1 DEF Solves
    <3> QED BY <3>3, <3>4
  <2> QED BY <2>2
<1> HIDE DEF P
<1>3. \A n \in Nat : n \in P
  BY <1>1, <1>2, Induction
<1> QED BY <1>3 DEF P

\* A recursion that counts down has a solution.
LEMMA Recursion ==
  ASSUME NEW S, NEW Stop, NEW B, NEW F, NEW m, CountsDown(S, Stop, F, m)
  PROVE  \E g : g = [s \in S |-> IF s \in Stop THEN B[s] ELSE g[F[s]]]
<1> DEFINE Part(n) == CHOOSE g : Solves(g, n, S, Stop, B, F, m)
           G == [s \in S |-> Part(m[s])[s]]
<1>1. \A n \in Nat : Solves(Part(n), n, S, Stop, B, F, m)
  BY SolutionsExist
<1> HIDE DEF Part
<1>2. \A s \in S : G[s] = Part(m[s])[s]
  OBVIOUS
<1>3. G = [s \in S |-> G[s]]
  OBVIOUS
<1> HIDE DEF G
<1>4. ASSUME NEW s \in S PROVE G[s] = IF s \in Stop THEN B[s] ELSE G[F[s]]
  <2>1. m[s] \in Nat /\ (s \notin Stop => F[s] \in S /\ m[s] # 0 /\ m[F[s]] = m[s] - 1)
    BY DEF CountsDown
  <2>2. Solves(Part(m[s]), m[s], S, Stop, B, F, m)
    BY <1>1, <2>1
  <2>3. Part(m[s])[s] = IF s \in Stop THEN B[s] ELSE Part(m[s])[F[s]]
    BY <2>1, <2>2 DEF Solves
  <2>4. CASE s \in Stop
    BY <1>2, <2>3, <2>4
  <2>5. CASE s \notin Stop
    <3>1. m[s] - 1 \in Nat /\ F[s] \in S /\ m[F[s]] = m[s] - 1
      BY <2>1, <2>5
    <3>2. Solves(Part(m[s] - 1), m[s] - 1, S, Stop, B, F, m)
      BY <1>1, <3>1
    <3>3. Solves(Part(m[s]), m[s] - 1, S, Stop, B, F, m)
      <4>1. \A t \in S : m[t] \in Nat
        BY DEF CountsDown
      <4> QED BY <2>1, <2>2, <4>1 DEF Solves
    <3>4. Part(m[s])[F[s]] = Part(m[s] - 1)[F[s]]
      <4> DEFINE k == m[s] - 1
      <4>1. k \in Nat /\ m[F[s]] <= k /\ F[s] \in S
        BY <3>1
      <4>2. Solves(Part(k), k, S, Stop, B, F, m) /\ Solves(Part(m[s]), k, S, Stop, B, F, m)
        BY <3>2, <3>3
      <4> HIDE DEF k
      <4>3. Part(m[s])[F[s]] = Part(k)[F[s]]
        BY <4>1, <4>2, SolutionsAgree
      <4> QED BY <4>3 DEF k
    <3>5. G[F[s]] = Part(m[s] - 1)[F[s]]
      BY <1>2, <3>1
    <3> QED BY <1>2, <2>3, <2>5, <3>4, <3>5
  <2> QED BY <2>4, <2>5
<1>5. G = [s \in S |-> IF s \in Stop THEN B[s] ELSE G[F[s]]]
  BY <1>3, <1>4
<1> QED BY <1>5

-----------------------------------------------------------------------------
(* Products and division. *)

\* A product of natural numbers is one.
LEMMA Products ==
  ASSUME NEW a \in Nat, NEW b \in Nat
  PROVE  a * b \in Nat
OBVIOUS

\* More multiples are not less.
LEMMA ProductsGrow ==
  ASSUME NEW a \in Nat, NEW b \in Nat, NEW c \in Nat, a <= b
  PROVE  a * c <= b * c
<1>1. (b - a) * c \in Nat
  <2>1. b - a \in Nat
    OBVIOUS
  <2> QED BY <2>1, Products
<1>2. (b - a) * c = b * c - a * c
  OBVIOUS
<1> QED BY <1>1, <1>2

\* What division by d means.
LEMMA Division ==
  ASSUME NEW x \in Nat, NEW d \in Nat \ {0}
  PROVE  /\ x \div d \in Nat /\ x % d \in 0 .. d - 1
         /\ x = (x \div d) * d + (x % d)
OBVIOUS

\* Whoever finds a quotient and a remainder has found the ones of division.
LEMMA DivisionIsUnique ==
  ASSUME NEW d \in Nat \ {0}, NEW q \in Nat, NEW r \in 0 .. d - 1, NEW x, x = q * d + r
  PROVE  x \div d = q /\ x % d = r
<1>1. x \in Nat
  BY Products
<1> DEFINE p == x \div d
           s == x % d
<1>2. p \in Nat /\ s \in 0 .. d - 1 /\ x = p * d + s
  BY <1>1, Division
<1> HIDE DEF p, s
<1>3. ~(p < q)
  <2> SUFFICES ASSUME p + 1 <= q PROVE FALSE
    BY <1>2
  <2>1. (p + 1) * d <= q * d
    BY <1>2, ProductsGrow
  <2>2. (p + 1) * d = p * d + d
    BY <1>2
  <2> QED BY <1>2, <2>1, <2>2, Products
<1>4. ~(q < p)
  <2> SUFFICES ASSUME q + 1 <= p PROVE FALSE
    BY <1>2
  <2>1. (q + 1) * d <= p * d
    BY <1>2, ProductsGrow
  <2>2. (q + 1) * d = q * d + d
    BY <1>2
  <2> QED BY <1>2, <2>1, <2>2, Products
<1>5. p = q
  BY <1>2, <1>3, <1>4
<1>6. s = r
  BY <1>2, <1>5, Products
<1> QED BY <1>5, <1>6 DEF p, s

\* A number below the divisor is its own remainder.
LEMMA DivisionOfSmall ==
  ASSUME NEW d \in Nat \ {0}, NEW x \in 0 .. d - 1
  PROVE  x \div d = 0 /\ x % d = x
<1>1. x = 0 * d + x
  OBVIOUS
<1> QED BY <1>1, DivisionIsUnique

\* The next number has the next remainder, or the next quotient.
LEMMA DivisionOfNext ==
  ASSUME NEW x \in Nat, NEW d \in Nat \ {0}
  PROVE  /\ x % d = d - 1 => (x + 1) % d = 0 /\ (x + 1) \div d = x \div d + 1
         /\ x % d # d - 1 => (x + 1) % d = (x % d) + 1 /\ (x + 1) \div d = x \div d
<1> DEFINE p == x \div d
           s == x % d
<1>1. p \in Nat /\ s \in 0 .. d - 1 /\ x = p * d + s
  BY Division
<1> HIDE DEF p, s
<1>2. CASE s = d - 1
  <2>1. x + 1 = (p + 1) * d + 0
    BY <1>1, <1>2
  <2>2. (x + 1) \div d = p + 1 /\ (x + 1) % d = 0
    <3> DEFINE y == x + 1
               q == p + 1
    <3>1. q \in Nat /\ 0 \in 0 .. d - 1 /\ y = q * d + 0
      BY <1>1, <2>1
    <3> HIDE DEF y, q
    <3>2. y \div d = q /\ y % d = 0
      BY <3>1, DivisionIsUnique
    <3> QED BY <3>2 DEF y, q
  <2> QED BY <1>2, <2>2 DEF p, s
<1>3. CASE s # d - 1
  <2>1. x + 1 = p * d + (s + 1) /\ s + 1 \in 0 .. d - 1
    BY <1>1, <1>3, Products
  <2>2. (x + 1) \div d = p /\ (x + 1) % d = s + 1
    <3> DEFINE y == x + 1
               r == s + 1
    <3>1. r \in 0 .. d - 1 /\ y = p * d + r
      BY <2>1
    <3> HIDE DEF y, r
    <3>2. y \div d = p /\ y % d = r
      BY <1>1, <3>1, DivisionIsUnique
    <3> QED BY <3>2 DEF y, r
  <2> QED BY <1>3, <2>2 DEF p, s
<1> QED BY <1>2, <1>3

\* To divide by a product is to divide twice.
LEMMA DivisionTwice ==
  ASSUME NEW x \in Nat, NEW d \in Nat \ {0}, NEW e \in Nat \ {0}
  PROVE  /\ x \div (e * d) = (x \div d) \div e
         /\ x % (e * d) = (((x \div d) % e) * d) + (x % d)
<1> DEFINE u == x \div d
           s == x % d
           w == u \div e
           m == u % e
<1>1. u \in Nat /\ s \in 0 .. d - 1 /\ x = u * d + s
  BY Division
<1>2. w \in Nat /\ m \in 0 .. e - 1 /\ u = w * e + m
  BY <1>1, Division
<1> HIDE DEF u, s, w, m
<1>3. x = w * (e * d) + (m * d + s)
  BY <1>1, <1>2
<1>4. e * d \in Nat \ {0}
  BY Products
<1>5. m * d + s \in 0 .. e * d - 1
  <2>1. (m + 1) * d <= e * d
    BY <1>2, ProductsGrow
  <2>2. (m + 1) * d = m * d + d
    BY <1>2
  <2> QED BY <1>1, <1>2, <2>1, <2>2, Products
<1> DEFINE c == e * d
           r == m * d + s
<1>6. c \in Nat \ {0} /\ r \in 0 .. c - 1 /\ x = w * c + r
  BY <1>3, <1>4, <1>5
<1> HIDE DEF c, r
<1>7. x \div c = w /\ x % c = r
  BY <1>2, <1>6, DivisionIsUnique
<1> QED BY <1>7 DEF u, s, w, m, c, r

-----------------------------------------------------------------------------
(* The time of day. *)

\* The seconds of a time of day, where S seconds are a minute and M minutes an hour.
OfDay(h, m, s, M, S) == (h * M + m) * S + s

\* t seconds of a day are h hours, m minutes and s seconds.
Shows(t, h, m, s, H, M, S) ==
  /\ t \in 0 .. (H * M * S) - 1
  /\ t % S = s
  /\ (t \div S) % M = m
  /\ t \div (M * S) = h

\* t is the last second of its day.
EndsDay(t, H, M, S) ==
  t = (H * M * S) - 1 <=>
    t % S = S - 1 /\ (t \div S) % M = M - 1 /\ t \div (M * S) = H - 1

\* The time one second after t.
Continues(t, M, S) ==
  /\ (t + 1) % S = IF t % S = S - 1 THEN 0 ELSE (t % S) + 1
  /\ ((t + 1) \div S) % M =
       IF t % S # S - 1 THEN (t \div S) % M
       ELSE IF (t \div S) % M = M - 1 THEN 0 ELSE ((t \div S) % M) + 1
  /\ (t + 1) \div (M * S) =
       IF t % S = S - 1 /\ (t \div S) % M = M - 1 THEN (t \div (M * S)) + 1 ELSE t \div (M * S)

\* A time of day in hours, minutes and seconds, from its seconds.
LEMMA Digits ==
  ASSUME NEW S \in Nat \ {0}, NEW M \in Nat \ {0}, NEW H \in Nat \ {0}, NEW t \in 0 .. (H * M * S) - 1
  PROVE  /\ t % S \in 0 .. S - 1
         /\ (t \div S) % M \in 0 .. M - 1
         /\ t \div (M * S) \in 0 .. H - 1
         /\ t \div (M * S) = (t \div S) \div M
         /\ t = OfDay(t \div (M * S), (t \div S) % M, t % S, M, S)
<1> DEFINE s == t % S
           u == t \div S
           m == u % M
           h == u \div M
<1>1. t \in Nat /\ H * M \in Nat /\ H * M * S \in Nat
  BY Products
<1>2. s \in 0 .. S - 1 /\ u \in Nat /\ t = u * S + s
  BY <1>1, Division
<1>3. t \div (M * S) = h
  BY <1>1, DivisionTwice
<1> HIDE DEF s, u
<1>4. m \in 0 .. M - 1 /\ h \in Nat /\ u = h * M + m
  BY <1>2, Division
<1> HIDE DEF m, h
<1>5. h <= H - 1
  <2> SUFFICES ASSUME H <= h PROVE FALSE
    BY <1>4
  <2>1. H * M <= h * M
    BY <1>4, ProductsGrow
  <2>2. H * M <= u
    BY <1>1, <1>4, <2>1, Products
  <2>3. (H * M) * S <= u * S
    BY <1>1, <1>2, <2>2, ProductsGrow
  <2>4. u * S \in Nat
    BY <1>2, Products
  <2> QED BY <1>1, <1>2, <2>3, <2>4
<1>6. t = (h * M + m) * S + s
  BY <1>2, <1>4
<1>7. t = OfDay(h, m, s, M, S)
  BY <1>6 DEF OfDay
<1> QED BY <1>2, <1>3, <1>4, <1>5, <1>7 DEF s, u, m, h

\* A time of day shows the hours, minutes and seconds that it was made of.
LEMMA DigitsOf ==
  ASSUME NEW S \in Nat \ {0}, NEW M \in Nat \ {0}, NEW H \in Nat \ {0},
         NEW s \in 0 .. S - 1, NEW m \in 0 .. M - 1, NEW h \in 0 .. H - 1
  PROVE  Shows(OfDay(h, m, s, M, S), h, m, s, H, M, S)
<1> DEFINE t == OfDay(h, m, s, M, S)
           u == h * M + m
<1>1. u \in Nat /\ u + 1 <= H * M /\ H * M \in Nat
  <2>1. (h + 1) * M <= H * M /\ (h + 1) * M = h * M + M /\ h * M \in Nat /\ H * M \in Nat
    BY ProductsGrow, Products
  <2> QED BY <2>1
<1>2. u \div M = h /\ u % M = m
  BY <1>1, DivisionIsUnique
<1> HIDE DEF u
<1>3. t = u * S + s
  BY DEF u, OfDay
<1> HIDE DEF t
<1>4. t \div S = u /\ t % S = s
  BY <1>1, <1>3, DivisionIsUnique
<1>5. t \in Nat /\ t <= (H * M * S) - 1
  <2>1. (u + 1) * S <= (H * M) * S /\ (u + 1) * S = u * S + S /\ u * S \in Nat
    BY <1>1, ProductsGrow, Products
  <2> QED BY <1>1, <1>3, <2>1, Products
<1>6. t \div (M * S) = (t \div S) \div M
  BY <1>5, DivisionTwice
<1>7. t \in 0 .. (H * M * S) - 1
  BY <1>5, Products
<1> QED BY <1>2, <1>4, <1>6, <1>7 DEF t, Shows

\* The last second of the day, and no other, is that of the last minute of the last hour.
LEMMA LastDigits ==
  ASSUME NEW S \in Nat \ {0}, NEW M \in Nat \ {0}, NEW H \in Nat \ {0}, NEW t \in 0 .. (H * M * S) - 1
  PROVE  EndsDay(t, H, M, S)
<1> DEFINE s == S - 1
           m == M - 1
           h == H - 1
           last == OfDay(h, m, s, M, S)
<1>1. s \in 0 .. S - 1 /\ m \in 0 .. M - 1 /\ h \in 0 .. H - 1
  OBVIOUS
<1>0. last = (H * M * S) - 1
  BY DEF OfDay
<1> HIDE DEF s, m, h
<1>2. Shows(last, h, m, s, H, M, S)
  BY <1>1, DigitsOf
<1>3. t = OfDay(t \div (M * S), (t \div S) % M, t % S, M, S)
  BY Digits
<1>4. ASSUME t % S = s, (t \div S) % M = m, t \div (M * S) = h PROVE t = last
  BY <1>3, <1>4
<1> HIDE DEF last
<1> QED BY <1>0, <1>2, <1>4 DEF s, m, h, Shows, EndsDay

\* A second later the time of day has moved as a clock does.
LEMMA NextDigits ==
  ASSUME NEW S \in Nat \ {0}, NEW M \in Nat \ {0}, NEW t \in Nat
  PROVE  Continues(t, M, S)
<1> DEFINE n == t + 1
           s == t % S
           u == t \div S
           m == u % M
           h == u \div M
<1>1. t \in Nat /\ n \in Nat
  OBVIOUS
<1>2. /\ s = S - 1 => n % S = 0 /\ n \div S = u + 1
      /\ s # S - 1 => n % S = s + 1 /\ n \div S = u
  BY <1>1, DivisionOfNext
<1>3. t \div (M * S) = h /\ n \div (M * S) = (n \div S) \div M
  BY <1>1, DivisionTwice
<1>4. u \in Nat
  BY <1>1, Division
<1> HIDE DEF s, u, n
<1>5. /\ m = M - 1 => (u + 1) % M = 0 /\ (u + 1) \div M = h + 1
      /\ m # M - 1 => (u + 1) % M = m + 1 /\ (u + 1) \div M = h
  BY <1>4, DivisionOfNext
<1>6. n % S = IF s = S - 1 THEN 0 ELSE s + 1
  BY <1>2
<1>7. (n \div S) % M = IF s # S - 1 THEN m ELSE IF m = M - 1 THEN 0 ELSE m + 1
  BY <1>2, <1>5
<1>8. n \div (M * S) = IF s = S - 1 /\ m = M - 1 THEN h + 1 ELSE h
  BY <1>2, <1>3, <1>5
<1> HIDE DEF m, h
<1> QED BY <1>3, <1>6, <1>7, <1>8 DEF n, s, u, m, h, Continues

-----------------------------------------------------------------------------

-----------------------------------------------------------------------------
(* The chip. *)

\* The calendar's limits, the sizes of its registers and of the variables for them.
LEMMA Positive ==
  /\ Millis \in Nat \ {0} /\ Ticks \in Nat \ {0} /\ LowDays \in Nat \ {0} /\ Days \in Nat \ {0}
  /\ \A field \in Fields : /\ Limit[field] \in Nat \ {0} /\ Size[field] \in Nat \ {0}
                           /\ Limit[field] <= Size[field] /\ Size[field] <= Byte
  /\ Byte \in Nat /\ Word \in Nat /\ Millis <= Word /\ Ticks <= Word /\ Days <= Word
  /\ Millis * Ticks \in Nat \ {0}
<1>1. Millis * Ticks \in Nat \ {0}
  BY RtcAssumption, Products
<1>2. /\ Millis \in Nat \ {0} /\ Ticks \in Nat \ {0} /\ LowDays \in Nat \ {0} /\ Days \in Nat \ {0}
      /\ Byte \in Nat /\ Word \in Nat /\ Millis <= Word /\ Ticks <= Word /\ Days <= Word
  BY RtcAssumption DEF Days
<1>3. \A field \in Fields : /\ Limit[field] \in Nat \ {0} /\ Size[field] \in Nat \ {0}
                            /\ Limit[field] <= Size[field] /\ Size[field] <= Byte
  BY RtcAssumption
<1> QED BY <1>1, <1>2, <1>3

\* A counter of the chip moves into its width, whatever it held.
LEMMA UpInRange ==
  ASSUME NEW field \in Fields, NEW value \in Nat
  PROVE  Chip!Up(value, field) \in 0 .. Size[field] - 1
<1>1. Size[field] \in Nat \ {0}
  BY Positive
<1>2. (value + 1) % Size[field] \in 0 .. Size[field] - 1
  <2> DEFINE next == value + 1
             size == Size[field]
  <2>1. next \in Nat /\ size \in Nat \ {0}
    BY <1>1
  <2> HIDE DEF next, size
  <2>2. next % size \in 0 .. size - 1
    BY <2>1, Division
  <2> QED BY <2>2 DEF next, size
<1> QED BY <1>1, <1>2 DEF Chip!Up

\* The registers of the chip, one by one.
LEMMA ChipFields ==
  ASSUME NEW v \in Chip!Registers
  PROVE  /\ v = [ phase |-> v.phase, seconds |-> v.seconds, minutes |-> v.minutes, hours |-> v.hours,
                  days |-> v.days, halted |-> v.halted, day_carry |-> v.day_carry ]
         /\ v.phase \in Nat /\ v.seconds \in Nat /\ v.minutes \in Nat /\ v.hours \in Nat
         /\ v.days \in Nat /\ v.halted \in BOOLEAN /\ v.day_carry \in BOOLEAN
BY DEF Chip!Registers

Minute(v) == Chip!Carries(v.seconds, "seconds")
Hour(v) == Minute(v) /\ Chip!Carries(v.minutes, "minutes")
Day(v) == Hour(v) /\ Chip!Carries(v.hours, "hours")
Date1(v) == IF Day(v) THEN v.days + 1 ELSE v.days

\* What a second does to the registers of the chip, one by one.
LEMMA SecondFields ==
  ASSUME NEW v \in Chip!Registers
  PROVE  Chip!Second(v) =
           [ phase |-> v.phase,
             seconds |-> Chip!Up(v.seconds, "seconds"),
             minutes |-> IF Minute(v) THEN Chip!Up(v.minutes, "minutes") ELSE v.minutes,
             hours |-> IF Hour(v) THEN Chip!Up(v.hours, "hours") ELSE v.hours,
             days |-> IF Chip!Legal(v) THEN Date1(v) % Days ELSE v.days,
             halted |-> v.halted,
             day_carry |-> v.day_carry \/ (Chip!Legal(v) /\ Date1(v) > Days - 1) ]
<1> DEFINE s == Chip!Up(v.seconds, "seconds")
           m == IF Minute(v) THEN Chip!Up(v.minutes, "minutes") ELSE v.minutes
           h == IF Hour(v) THEN Chip!Up(v.hours, "hours") ELSE v.hours
           d == IF Chip!Legal(v) THEN Date1(v) % Days ELSE v.days
           c == v.day_carry \/ (Chip!Legal(v) /\ Date1(v) > Days - 1)
<1>1. Chip!Second(v) = [v EXCEPT !.seconds = s, !.minutes = m, !.hours = h, !.days = d, !.day_carry = c]
  BY Zenon DEF Chip!Second, Minute, Hour, Day, Date1, Days
<1> HIDE DEF s, m, h, d, c
<1>2. Chip!Second(v) = [ phase |-> v.phase, seconds |-> s, minutes |-> m, hours |-> h, days |-> d,
                         halted |-> v.halted, day_carry |-> c ]
  BY <1>1, ChipFields
<1> QED BY <1>2 DEF s, m, h, d, c

\* A second leaves the registers of the chip numbers.
LEMMA SecondInRange ==
  ASSUME NEW v \in Chip!Registers
  PROVE  Chip!Second(v) \in Chip!Registers
<1> DEFINE s == Chip!Up(v.seconds, "seconds")
           m == IF Minute(v) THEN Chip!Up(v.minutes, "minutes") ELSE v.minutes
           h == IF Hour(v) THEN Chip!Up(v.hours, "hours") ELSE v.hours
           d == IF Chip!Legal(v) THEN Date1(v) % Days ELSE v.days
           c == v.day_carry \/ (Chip!Legal(v) /\ Date1(v) > Days - 1)
<1>0. \A field \in Fields : Size[field] \in Nat \ {0}
  BY Positive
<1>1. s \in Nat
  BY <1>0, ChipFields, UpInRange DEF Fields
<1>2. m \in Nat
  BY <1>0, ChipFields, UpInRange DEF Fields
<1>3. h \in Nat
  BY <1>0, ChipFields, UpInRange DEF Fields
<1>4. d \in Nat
  <2>1. v.days \in Nat /\ Date1(v) \in Nat /\ Days \in Nat \ {0}
    BY ChipFields, Positive DEF Date1
  <2>2. Date1(v) % Days \in Nat
    BY <2>1, Division
  <2> QED BY <2>1, <2>2
<1>5. c \in BOOLEAN
  BY ChipFields
<1>6. Chip!Second(v) = [ phase |-> v.phase, seconds |-> s, minutes |-> m, hours |-> h, days |-> d,
                         halted |-> v.halted, day_carry |-> c ]
  BY SecondFields
<1> HIDE DEF s, m, h, d, c
<1>7. v.phase \in Nat /\ v.halted \in BOOLEAN
  BY ChipFields
<1> QED BY <1>1, <1>2, <1>3, <1>4, <1>5, <1>6, <1>7 DEF Chip!Registers

\* A phase of its own, and everything else of a chip's registers.
AtPhase(v, phase) == [v EXCEPT !.phase = phase]

\* The registers at another phase, one by one.
LEMMA AtPhaseFields ==
  ASSUME NEW v \in Chip!Registers, NEW phase \in Nat
  PROVE  /\ AtPhase(v, phase) =
              [ phase |-> phase, seconds |-> v.seconds, minutes |-> v.minutes, hours |-> v.hours,
                days |-> v.days, halted |-> v.halted, day_carry |-> v.day_carry ]
         /\ AtPhase(v, phase) \in Chip!Registers
<1>1. AtPhase(v, phase) =
        [ phase |-> phase, seconds |-> v.seconds, minutes |-> v.minutes, hours |-> v.hours,
          days |-> v.days, halted |-> v.halted, day_carry |-> v.day_carry ]
  BY ChipFields DEF AtPhase
<1> QED BY <1>1, ChipFields DEF Chip!Registers

\* A legal time, one counter at a time.
LEMMA LegalTime ==
  ASSUME NEW v
  PROVE  Chip!Legal(v) <=> /\ v.seconds < Limit["seconds"] /\ v.minutes < Limit["minutes"]
                           /\ v.hours < Limit["hours"]
<1>1. DOMAIN Limit = {"seconds", "minutes", "hours"}
  BY RtcAssumption DEF Fields
<1> QED BY <1>1, Zenon DEF Chip!Legal

\* The phase and the calendar move apart.
LEMMA SecondAtPhase ==
  ASSUME NEW v \in Chip!Registers, NEW phase \in Nat
  PROVE  Chip!Second(AtPhase(v, phase)) = AtPhase(Chip!Second(v), phase)
<1> DEFINE w == AtPhase(v, phase)
<1>1. /\ w \in Chip!Registers /\ w.phase = phase
      /\ w.seconds = v.seconds /\ w.minutes = v.minutes /\ w.hours = v.hours
      /\ w.days = v.days /\ w.halted = v.halted /\ w.day_carry = v.day_carry
  BY AtPhaseFields
<1> HIDE DEF w
<1>2. (Minute(w) <=> Minute(v)) /\ (Hour(w) <=> Hour(v)) /\ Date1(w) = Date1(v)
  BY <1>1 DEF Minute, Hour, Day, Date1
<1>3. Chip!Legal(w) <=> Chip!Legal(v)
  BY <1>1, LegalTime
<1>4. /\ Chip!Second(w).phase = phase
      /\ Chip!Second(w).seconds = Chip!Second(v).seconds
      /\ Chip!Second(w).minutes = Chip!Second(v).minutes
      /\ Chip!Second(w).hours = Chip!Second(v).hours
  BY <1>1, <1>2, SecondFields
<1>5. /\ Chip!Second(w).days = Chip!Second(v).days
      /\ Chip!Second(w).halted = Chip!Second(v).halted
      /\ Chip!Second(w).day_carry = Chip!Second(v).day_carry
  BY <1>1, <1>2, <1>3, SecondFields
<1>6. Chip!Second(w) \in Chip!Registers /\ Chip!Second(v) \in Chip!Registers
  BY <1>1, SecondInRange
<1>7. AtPhase(Chip!Second(v), phase) =
        [ phase |-> phase, seconds |-> Chip!Second(v).seconds, minutes |-> Chip!Second(v).minutes,
          hours |-> Chip!Second(v).hours, days |-> Chip!Second(v).days,
          halted |-> Chip!Second(v).halted, day_carry |-> Chip!Second(v).day_carry ]
  BY <1>6, AtPhaseFields
<1>8. Chip!Second(w) =
        [ phase |-> Chip!Second(w).phase, seconds |-> Chip!Second(w).seconds, minutes |-> Chip!Second(w).minutes,
          hours |-> Chip!Second(w).hours, days |-> Chip!Second(w).days,
          halted |-> Chip!Second(w).halted, day_carry |-> Chip!Second(w).day_carry ]
  BY <1>6, ChipFields
<1> QED BY <1>4, <1>5, <1>7, <1>8 DEF w

\* One second less.
LEMMA DivisionOfRest ==
  ASSUME NEW x \in Nat, NEW d \in Nat \ {0}, ~(x < d)
  PROVE  x - d \in Nat /\ x \div d # 0 /\ (x - d) \div d = (x \div d) - 1
<1> DEFINE p == x \div d
           s == x % d
           q == p - 1
           y == x - d
<1>1. p \in Nat /\ s \in 0 .. d - 1 /\ x = p * d + s
  BY Division
<1> HIDE DEF p, s
<1>2. p # 0
  <2>1. 0 * d = 0
    OBVIOUS
  <2> QED BY <1>1, <2>1
<1>3. q \in Nat /\ (q + 1) * d = q * d + d /\ q + 1 = p
  BY <1>1, <1>2
<1>4. y = q * d + s
  <2> DEFINE j == p * d
             k == q * d
  <2>1. j = k + d /\ j \in Nat /\ k \in Nat
    BY <1>1, <1>3, Products
  <2>2. x = j + s
    BY <1>1
  <2> HIDE DEF j, k, q
  <2>3. y = k + s
    BY <1>1, <2>1, <2>2
  <2> QED BY <2>3 DEF k
<1>5. y \in Nat
  OBVIOUS
<1> HIDE DEF q, y
<1>6. y \div d = q
  BY <1>1, <1>3, <1>4, DivisionIsUnique
<1> QED BY <1>2, <1>5, <1>6 DEF p, q, y

\* The recursive definition of Settled holds: the phase counts down.
LEMMA SettledUnfolds ==
  ASSUME NEW v \in Chip!Registers
  PROVE  Chip!Settled[v] =
           IF v.phase < Millis * Ticks THEN v
           ELSE Chip!Settled[Chip!Second(AtPhase(v, v.phase - Millis * Ticks))]
<1> DEFINE Next1(w) == Chip!Second([w EXCEPT !.phase = @ - Millis * Ticks])
           S == Chip!Registers
           Stop == {w \in S : w.phase < Millis * Ticks}
           B == [w \in S |-> w]
           F == [w \in S |-> Next1(w)]
           m == [w \in S |-> w.phase \div (Millis * Ticks)]
           Unfolds(f) == f = [w \in S |-> IF w.phase < Millis * Ticks THEN w ELSE f[Next1(w)]]
<1>1. ASSUME NEW w \in S
      PROVE  /\ w.phase \div (Millis * Ticks) \in Nat
             /\ ~(w.phase < Millis * Ticks) =>
                  /\ Next1(w) \in S
                  /\ w.phase \div (Millis * Ticks) # 0
                  /\ Next1(w).phase \div (Millis * Ticks) = (w.phase \div (Millis * Ticks)) - 1
  <2> DEFINE second == Millis * Ticks
             p == w.phase
  <2>1. second \in Nat \ {0} /\ p \in Nat
    BY Positive, ChipFields
  <2>2. Next1(w) = Chip!Second(AtPhase(w, p - second))
    BY DEF AtPhase
  <2> HIDE DEF second, p, Next1
  <2>3. p \div second \in Nat
    BY <2>1, Division
  <2>4. ASSUME ~(p < second)
        PROVE  /\ Next1(w) \in S /\ p \div second # 0
               /\ Next1(w).phase \div second = (p \div second) - 1
    <3>1. p - second \in Nat /\ p \div second # 0 /\ (p - second) \div second = (p \div second) - 1
      BY <2>1, <2>4, DivisionOfRest
    <3> DEFINE y == p - second
               x == AtPhase(w, y)
    <3>2. y \in Nat
      BY <3>1
    <3> HIDE DEF y
    <3>3. x \in Chip!Registers /\ x.phase = y
      BY <3>2, AtPhaseFields
    <3>4. Next1(w) = Chip!Second(x)
      BY <2>2 DEF y
    <3> HIDE DEF x
    <3>5. Next1(w) \in Chip!Registers /\ Next1(w).phase = y
      BY <3>3, <3>4, SecondFields, SecondInRange
    <3> QED BY <3>1, <3>5 DEF y
  <2> QED BY <2>3, <2>4 DEF second, p
<1> HIDE DEF S
<1>2. CountsDown(S, Stop, F, m)
  <2> HIDE DEF Next1
  <2> QED BY <1>1 DEF CountsDown
<1> HIDE DEF Stop, B, F, m
<1>3. PICK f : f = [w \in S |-> IF w \in Stop THEN B[w] ELSE f[F[w]]]
  BY <1>2, Recursion
<1> USE DEF Stop, B, F
<1>4. Unfolds(f)
  <2> HIDE DEF Next1
  <2> QED BY <1>3
<1>5. Chip!Settled = CHOOSE h : Unfolds(h)
  BY DEF Chip!Settled, S
<1> HIDE DEF Unfolds
<1>6. Unfolds(Chip!Settled)
  BY <1>4, <1>5
<1> USE DEF Unfolds
<1>7. v \in S
  BY DEF S
<1>8. Next1(v) = Chip!Second(AtPhase(v, v.phase - Millis * Ticks))
  BY DEF AtPhase
<1> HIDE DEF Next1
<1> QED BY <1>6, <1>7, <1>8

\* The settled registers are those of a chip.
LEMMA SettledInRange ==
  ASSUME NEW v \in Chip!Registers
  PROVE  Chip!Settled[v] \in Chip!Registers
<1> DEFINE second == Millis * Ticks
           Q(n) == \A w \in Chip!Registers : w.phase \div second = n => Chip!Settled[w] \in Chip!Registers
           P == {n \in Nat : Q(n)}
<1>0. second \in Nat \ {0}
  BY Positive
<1>1. ASSUME NEW w \in Chip!Registers, w.phase < second
      PROVE  Chip!Settled[w] \in Chip!Registers
  BY <1>1, SettledUnfolds
<1>2. ASSUME NEW w \in Chip!Registers, ~(w.phase < second)
      PROVE  \E x \in Chip!Registers : /\ Chip!Settled[w] = Chip!Settled[x]
                                       /\ w.phase \div second # 0
                                       /\ x.phase \div second = (w.phase \div second) - 1
  <2> DEFINE p == w.phase
             y == p - second
             z == AtPhase(w, y)
             x == Chip!Second(z)
  <2>1. p \in Nat
    BY ChipFields
  <2>2. Chip!Settled[w] = Chip!Settled[x]
    BY <1>2, SettledUnfolds
  <2>3. ~(p < second)
    BY <1>2
  <2> HIDE DEF second
  <2>4. y \in Nat /\ p \div second # 0 /\ y \div second = (p \div second) - 1
    <3> HIDE DEF p
    <3> QED BY <1>0, <2>1, <2>3, DivisionOfRest
  <2> HIDE DEF y
  <2>5. z \in Chip!Registers /\ z.phase = y
    BY <2>4, AtPhaseFields
  <2> HIDE DEF z
  <2>6. x \in Chip!Registers /\ x.phase = y
    BY <2>5, SecondFields, SecondInRange
  <2> HIDE DEF x
  <2> QED BY <2>2, <2>4, <2>6
<1> HIDE DEF second
<1>3. 0 \in P
  BY <1>1, <1>2
<1>4. ASSUME NEW n \in Nat, n \in P PROVE n + 1 \in P
  <2> SUFFICES ASSUME NEW w \in Chip!Registers, w.phase \div second = n + 1
               PROVE  Chip!Settled[w] \in Chip!Registers
    OBVIOUS
  <2>1. CASE w.phase < second
    BY <1>1, <2>1
  <2>2. CASE ~(w.phase < second)
    <3>1. PICK x \in Chip!Registers : /\ Chip!Settled[w] = Chip!Settled[x]
                                      /\ x.phase \div second = (w.phase \div second) - 1
      BY <1>2, <2>2
    <3>2. x.phase \div second = n
      BY <3>1
    <3>3. Chip!Settled[x] \in Chip!Registers
      BY <1>4, <3>2
    <3> QED BY <3>1, <3>3
  <2> QED BY <2>1, <2>2
<1> HIDE DEF P
<1>5. \A n \in Nat : n \in P
  BY <1>3, <1>4, Induction
<1>6. v.phase \div second \in Nat
  BY <1>0, ChipFields, Division
<1> QED BY <1>5, <1>6 DEF P

\* A millisecond keeps the registers those of a chip.
LEMMA MillisecondInRange ==
  ASSUME NEW v \in Chip!Registers
  PROVE  /\ Chip!Millisecond(v) \in Chip!Registers
         /\ ~v.halted => Chip!Millisecond(v) = Chip!Settled[AtPhase(v, v.phase + Ticks)]
<1>1. v.phase + Ticks \in Nat
  BY ChipFields, Positive
<1>2. Chip!Millisecond(v) = IF v.halted THEN v ELSE Chip!Settled[AtPhase(v, v.phase + Ticks)]
  BY DEF Chip!Millisecond, AtPhase
<1>3. AtPhase(v, v.phase + Ticks) \in Chip!Registers
  BY <1>1, AtPhaseFields
<1> QED BY <1>2, <1>3, SettledInRange

\* The recursive definition of AfterGap holds: the gap counts down.
LEMMA AfterGapUnfolds ==
  ASSUME NEW gap \in Chip!Gaps
  PROVE  Chip!AfterGap[gap] =
           IF gap.milliseconds = 0 THEN gap.registers
           ELSE Chip!AfterGap[[ registers |-> Chip!Millisecond(gap.registers),
                                milliseconds |-> gap.milliseconds - 1 ]]
<1> DEFINE Next1(g) == [ registers |-> Chip!Millisecond(g.registers), milliseconds |-> g.milliseconds - 1 ]
           S == Chip!Gaps
           Stop == {g \in S : g.milliseconds = 0}
           B == [g \in S |-> g.registers]
           F == [g \in S |-> Next1(g)]
           m == [g \in S |-> g.milliseconds]
           Unfolds(f) == f = [g \in S |-> IF g.milliseconds = 0 THEN g.registers ELSE f[Next1(g)]]
<1>1. \A g \in S : g.registers \in Chip!Registers /\ g.milliseconds \in Nat
  BY DEF Chip!Gaps
<1>2. \A g \in S : g.milliseconds # 0 => Next1(g) \in S
  BY <1>1, MillisecondInRange DEF Chip!Gaps
<1> HIDE DEF S
<1>3. CountsDown(S, Stop, F, m)
  BY <1>1, <1>2 DEF CountsDown
<1> HIDE DEF Stop, B, F, m
<1>4. PICK f : f = [g \in S |-> IF g \in Stop THEN B[g] ELSE f[F[g]]]
  BY <1>3, Recursion
<1> USE DEF Stop, B, F
<1>5. Unfolds(f)
  BY <1>4
<1>6. Chip!AfterGap = CHOOSE h : Unfolds(h)
  BY DEF Chip!AfterGap, S
<1> HIDE DEF Unfolds
<1>7. Unfolds(Chip!AfterGap)
  BY <1>5, <1>6
<1> USE DEF Unfolds
<1>8. gap \in S
  BY DEF S
<1> QED BY <1>7, <1>8

\* The milliseconds of a gap pass one by one.
LEMMA AfterUnfolds ==
  ASSUME NEW v \in Chip!Registers
  PROVE  /\ Chip!After(v, 0) = v
         /\ \A n \in Nat : Chip!After(v, n + 1) = Chip!After(Chip!Millisecond(v), n)
<1>1. Chip!After(v, 0) = v
  <2> DEFINE gap == [registers |-> v, milliseconds |-> 0]
  <2>1. gap \in Chip!Gaps /\ gap.milliseconds = 0 /\ gap.registers = v
    BY DEF Chip!Gaps
  <2>2. Chip!After(v, 0) = Chip!AfterGap[gap]
    BY DEF Chip!After
  <2> HIDE DEF gap
  <2> QED BY <2>1, <2>2, AfterGapUnfolds
<1>2. ASSUME NEW n \in Nat PROVE Chip!After(v, n + 1) = Chip!After(Chip!Millisecond(v), n)
  <2> DEFINE gap == [registers |-> v, milliseconds |-> n + 1]
             next == [registers |-> Chip!Millisecond(v), milliseconds |-> n]
  <2>1. gap \in Chip!Gaps /\ gap.milliseconds # 0 /\ gap.milliseconds - 1 = n /\ gap.registers = v
    BY DEF Chip!Gaps
  <2>2. Chip!After(v, n + 1) = Chip!AfterGap[gap]
    BY DEF Chip!After
  <2>3. Chip!After(Chip!Millisecond(v), n) = Chip!AfterGap[next]
    BY DEF Chip!After
  <2> HIDE DEF gap
  <2>4. Chip!AfterGap[gap] = Chip!AfterGap[[ registers |-> Chip!Millisecond(gap.registers),
                                             milliseconds |-> gap.milliseconds - 1 ]]
    BY <2>1, AfterGapUnfolds
  <2>5. Chip!AfterGap[gap] = Chip!AfterGap[next]
    BY <2>1, <2>4
  <2> QED BY <2>2, <2>3, <2>5
<1> QED BY <1>1, <1>2

\* Two gaps in a row are one.
LEMMA AfterSum ==
  \A n \in Nat : \A v \in Chip!Registers :
     /\ Chip!After(v, n) \in Chip!Registers
     /\ \A m \in Nat : Chip!After(v, n + m) = Chip!After(Chip!After(v, n), m)
<1> DEFINE Q(n) == \A v \in Chip!Registers :
                     /\ Chip!After(v, n) \in Chip!Registers
                     /\ \A m \in Nat : Chip!After(v, n + m) = Chip!After(Chip!After(v, n), m)
           P == {n \in Nat : Q(n)}
<1>1. 0 \in P
  <2>1. \A m \in Nat : 0 + m = m
    OBVIOUS
  <2>2. \A v \in Chip!Registers : Chip!After(v, 0) = v
    BY AfterUnfolds
  <2>3. Q(0)
    BY <2>1, <2>2
  <2> QED BY <2>3
<1>2. ASSUME NEW n \in Nat, n \in P PROVE n + 1 \in P
  <2>1. Q(n)
    BY <1>2
  <2>2. ASSUME NEW v \in Chip!Registers
        PROVE  /\ Chip!After(v, n + 1) \in Chip!Registers
               /\ \A m \in Nat : Chip!After(v, (n + 1) + m) = Chip!After(Chip!After(v, n + 1), m)
    <3> DEFINE w == Chip!Millisecond(v)
    <3>1. w \in Chip!Registers
      BY MillisecondInRange
    <3>2. \A k \in Nat : Chip!After(v, k + 1) = Chip!After(w, k)
      BY AfterUnfolds
    <3> HIDE DEF w
    <3>3. Chip!After(v, n + 1) = Chip!After(w, n)
      BY <3>2
    <3>4. ASSUME NEW m \in Nat
          PROVE  Chip!After(v, (n + 1) + m) = Chip!After(Chip!After(v, n + 1), m)
      <4>1. (n + 1) + m = (n + m) + 1 /\ n + m \in Nat
        OBVIOUS
      <4>2. Chip!After(v, (n + m) + 1) = Chip!After(w, n + m)
        BY <3>2, <4>1
      <4>3. Chip!After(w, n + m) = Chip!After(Chip!After(w, n), m)
        BY <2>1, <3>1
      <4> QED BY <3>3, <4>1, <4>2, <4>3
    <3> QED BY <2>1, <3>1, <3>3, <3>4
  <2>3. Q(n + 1)
    BY <2>2
  <2> QED BY <2>3
<1> HIDE DEF P
<1>3. \A n \in Nat : n \in P
  BY <1>1, <1>2, Induction
<1> QED BY <1>3 DEF P

\* The last millisecond of a gap.
LEMMA AfterNext ==
  ASSUME NEW v \in Chip!Registers, NEW n \in Nat
  PROVE  Chip!After(v, n + 1) = Chip!Millisecond(Chip!After(v, n))
<1> DEFINE w == Chip!After(v, n)
<1>1. w \in Chip!Registers /\ Chip!After(v, n + 1) = Chip!After(w, 1)
  BY AfterSum
<1> HIDE DEF w
<1>2. Chip!Millisecond(w) \in Chip!Registers
  BY <1>1, MillisecondInRange
<1>3. Chip!After(w, 0 + 1) = Chip!After(Chip!Millisecond(w), 0)
  BY <1>1, AfterUnfolds
<1>4. Chip!After(w, 1) = Chip!After(Chip!Millisecond(w), 0)
  BY <1>3
<1>5. Chip!After(Chip!Millisecond(w), 0) = Chip!Millisecond(w)
  BY <1>2, AfterUnfolds
<1> QED BY <1>1, <1>4, <1>5 DEF w

\* A halted chip stands still.
LEMMA AfterHalted ==
  ASSUME NEW v \in Chip!Registers, v.halted
  PROVE  \A n \in Nat : Chip!After(v, n) = v
<1> DEFINE P == {n \in Nat : Chip!After(v, n) = v}
<1>1. 0 \in P
  BY AfterUnfolds
<1>2. ASSUME NEW n \in Nat, n \in P PROVE n + 1 \in P
  <2>1. Chip!After(v, n + 1) = Chip!Millisecond(v)
    BY <1>2, AfterNext
  <2>2. Chip!Millisecond(v) = v
    BY DEF Chip!Millisecond
  <2> QED BY <2>1, <2>2
<1> HIDE DEF P
<1>3. \A n \in Nat : n \in P
  BY <1>1, <1>2, Induction
<1> QED BY <1>3 DEF P
-----------------------------------------------------------------------------
(* The registers. *)

\* The registers of the cartridge, one by one.
LEMMA RegisterFields ==
  ASSUME NEW r \in Registers
  PROVE  /\ r = [ subsecond_ticks |-> r.subsecond_ticks,
                  subsecond_tick_thousandths |-> r.subsecond_tick_thousandths,
                  seconds |-> r.seconds, minutes |-> r.minutes, hours |-> r.hours,
                  days |-> r.days, halted |-> r.halted, day_carry |-> r.day_carry ]
         /\ r.subsecond_ticks \in 0 .. Word - 1
         /\ r.subsecond_tick_thousandths \in 0 .. Word - 1
         /\ r.seconds \in 0 .. Byte - 1 /\ r.minutes \in 0 .. Byte - 1 /\ r.hours \in 0 .. Byte - 1
         /\ r.days \in 0 .. Word - 1
         /\ r.halted \in BOOLEAN /\ r.day_carry \in BOOLEAN
BY DEF Registers

\* They hold numbers.
LEMMA RegisterNumbers ==
  ASSUME NEW r \in Registers
  PROVE  /\ r.subsecond_ticks \in Nat /\ r.subsecond_tick_thousandths \in Nat
         /\ r.seconds \in Nat /\ r.minutes \in Nat /\ r.hours \in Nat /\ r.days \in Nat
BY RegisterFields, Positive

Phase(r) == r.subsecond_ticks * Millis + r.subsecond_tick_thousandths

\* The registers of the cartridge are those of a chip.
LEMMA ViewInRange ==
  ASSUME NEW r \in Registers
  PROVE  View(r) \in Chip!Registers /\ Phase(r) \in Nat
<1>1. Phase(r) \in Nat
  BY RegisterNumbers, Positive, Products DEF Phase
<1>2. r.halted \in BOOLEAN /\ r.day_carry \in BOOLEAN
  BY RegisterFields
<1> QED BY <1>1, <1>2, RegisterNumbers DEF View, Phase, Chip!Registers

\* The calendar moved to a time, and the rest left alone.
Moved(r, s, m, h, d, c) ==
  [r EXCEPT !.seconds = s, !.minutes = m, !.hours = h, !.days = d, !.day_carry = c]

\* The moved registers, one by one.
LEMMA MovedFields ==
  ASSUME NEW r \in Registers, NEW s, NEW m, NEW h, NEW d, NEW c
  PROVE  Moved(r, s, m, h, d, c) =
           [ subsecond_ticks |-> r.subsecond_ticks,
             subsecond_tick_thousandths |-> r.subsecond_tick_thousandths,
             seconds |-> s, minutes |-> m, hours |-> h,
             days |-> d, halted |-> r.halted, day_carry |-> c ]
<1> DEFINE Fields8(s1, m1, h1, d1, c1) ==
             [ subsecond_ticks |-> r.subsecond_ticks,
               subsecond_tick_thousandths |-> r.subsecond_tick_thousandths,
               seconds |-> s1, minutes |-> m1, hours |-> h1,
               days |-> d1, halted |-> r.halted, day_carry |-> c1 ]
           v == [r EXCEPT !.seconds = s]
           w == [v EXCEPT !.minutes = m]
           x == [w EXCEPT !.hours = h]
           y == [x EXCEPT !.days = d]
           z == [y EXCEPT !.day_carry = c]
<1>1. Moved(r, s, m, h, d, c) = z
  BY DEF Moved
<1>2. r = Fields8(r.seconds, r.minutes, r.hours, r.days, r.day_carry)
  BY RegisterFields
<1>3. v = Fields8(s, r.minutes, r.hours, r.days, r.day_carry)
  BY <1>2
<1> HIDE DEF v
<1>4. w = Fields8(s, m, r.hours, r.days, r.day_carry)
  BY <1>3
<1> HIDE DEF w
<1>5. x = Fields8(s, m, h, r.days, r.day_carry)
  BY <1>4
<1> HIDE DEF x
<1>6. y = Fields8(s, m, h, d, r.day_carry)
  BY <1>5
<1> HIDE DEF y
<1>7. z = Fields8(s, m, h, d, c)
  BY <1>6
<1> HIDE DEF z
<1> QED BY <1>1, <1>7

\* A calendar moved within the ranges leaves the registers in theirs.
\* A calendar moved within the hardware's ranges fits the variables.
LEMMA MovedInRange ==
  ASSUME NEW r \in Registers,
         NEW s \in 0 .. Byte - 1, NEW m \in 0 .. Byte - 1, NEW h \in 0 .. Byte - 1,
         NEW d \in 0 .. Word - 1, NEW c \in BOOLEAN
  PROVE  Moved(r, s, m, h, d, c) \in Registers
BY RegisterFields, MovedFields DEF Registers

\* What the chip sees of moved registers.
LEMMA MovedView ==
  ASSUME NEW r \in Registers, NEW s, NEW m, NEW h, NEW d, NEW c
  PROVE  View(Moved(r, s, m, h, d, c)) =
           [ phase |-> Phase(r), seconds |-> s, minutes |-> m, hours |-> h, days |-> d,
             halted |-> r.halted, day_carry |-> c ]
<1> DEFINE x == Moved(r, s, m, h, d, c)
<1>1. /\ x.subsecond_ticks = r.subsecond_ticks
      /\ x.subsecond_tick_thousandths = r.subsecond_tick_thousandths
      /\ x.seconds = s /\ x.minutes = m /\ x.hours = h
      /\ x.days = d /\ x.halted = r.halted /\ x.day_carry = c
  BY MovedFields
<1> HIDE DEF x
<1>2. View(x) = [ phase |-> Phase(r), seconds |-> s, minutes |-> m, hours |-> h, days |-> d,
                  halted |-> r.halted, day_carry |-> c ]
  BY <1>1 DEF View, Phase
<1> QED BY <1>2 DEF x

\* tick_rtc_second, one register at a time.
FullMinute(r) == r.seconds = Limit["seconds"] - 1
FullHour(r) == FullMinute(r) /\ r.minutes = Limit["minutes"] - 1
FullDay(r) == FullHour(r) /\ r.hours = Limit["hours"] - 1

\* tick_rtc_second moves seconds, minutes, hours and days as far as they carry.
LEMMA TickMoves ==
  ASSUME NEW r \in Registers
  PROVE  TickSecond(r) =
           Moved(r, Chip!Up(r.seconds, "seconds"),
                 IF FullMinute(r) THEN Chip!Up(r.minutes, "minutes") ELSE r.minutes,
                 IF FullHour(r) THEN Chip!Up(r.hours, "hours") ELSE r.hours,
                 IF FullDay(r) THEN (IF r.days = Days - 1 THEN 0 ELSE (r.days + 1) % Word) ELSE r.days,
                 r.day_carry \/ (FullDay(r) /\ r.days = Days - 1))
<1> DEFINE s == (r.seconds + 1) % Size["seconds"]
           m == (r.minutes + 1) % Size["minutes"]
           h == (r.hours + 1) % Size["hours"]
           d == IF r.days = Days - 1 THEN 0 ELSE (r.days + 1) % Word
           c == r.day_carry \/ r.days = Days - 1
<1>1. /\ Chip!Up(r.seconds, "seconds") = IF FullMinute(r) THEN 0 ELSE s
      /\ Chip!Up(r.minutes, "minutes") = IF r.minutes = Limit["minutes"] - 1 THEN 0 ELSE m
      /\ Chip!Up(r.hours, "hours") = IF r.hours = Limit["hours"] - 1 THEN 0 ELSE h
  BY DEF Chip!Up, Chip!Carries, FullMinute
<1>2. TickSecond(r) =
        IF ~FullMinute(r) THEN [r EXCEPT !.seconds = s]
        ELSE IF ~FullHour(r) THEN [r EXCEPT !.seconds = 0, !.minutes = m]
        ELSE IF ~FullDay(r) THEN [r EXCEPT !.seconds = 0, !.minutes = 0, !.hours = h]
        ELSE [r EXCEPT !.seconds = 0, !.minutes = 0, !.hours = 0, !.days = d, !.day_carry = c]
  BY DEF TickSecond, FullMinute, FullHour, FullDay
<1> HIDE DEF s, m, h, d, c
<1>3. CASE ~FullMinute(r)
  <2>1. [r EXCEPT !.seconds = s] = Moved(r, s, r.minutes, r.hours, r.days, r.day_carry)
    BY RegisterFields DEF Moved
  <2>2. ~FullHour(r) /\ ~FullDay(r)
    BY <1>3 DEF FullHour, FullDay
  <2> QED BY <1>1, <1>2, <1>3, <2>1, <2>2, RegisterFields
<1>4. CASE FullMinute(r) /\ ~FullHour(r)
  <2>1. [r EXCEPT !.seconds = 0, !.minutes = m] = Moved(r, 0, m, r.hours, r.days, r.day_carry)
    BY RegisterFields DEF Moved
  <2>2. ~FullDay(r) /\ r.minutes # Limit["minutes"] - 1
    BY <1>4 DEF FullHour, FullDay
  <2> QED BY <1>1, <1>2, <1>4, <2>1, <2>2, RegisterFields
<1>5. CASE FullMinute(r) /\ FullHour(r) /\ ~FullDay(r)
  <2>1. [r EXCEPT !.seconds = 0, !.minutes = 0, !.hours = h] = Moved(r, 0, 0, h, r.days, r.day_carry)
    BY RegisterFields DEF Moved
  <2>2. r.minutes = Limit["minutes"] - 1 /\ r.hours # Limit["hours"] - 1
    BY <1>5 DEF FullHour, FullDay
  <2> QED BY <1>1, <1>2, <1>5, <2>1, <2>2, RegisterFields
<1>6. CASE FullMinute(r) /\ FullHour(r) /\ FullDay(r)
  <2>1. r.minutes = Limit["minutes"] - 1 /\ r.hours = Limit["hours"] - 1
    BY <1>6 DEF FullHour, FullDay
  <2>2. c = (r.day_carry \/ (FullDay(r) /\ r.days = Days - 1))
    BY <1>6 DEF c
  <2>3. [r EXCEPT !.seconds = 0, !.minutes = 0, !.hours = 0, !.days = d, !.day_carry = c] = Moved(r, 0, 0, 0, d, c)
    BY DEF Moved
  <2> QED BY <1>1, <1>2, <1>6, <2>1, <2>2, <2>3, RegisterFields DEF d
<1> QED BY <1>3, <1>4, <1>5, <1>6

\* What the chip sees of the registers, one by one.
LEMMA ViewFields ==
  ASSUME NEW r
  PROVE  /\ View(r).phase = Phase(r) /\ View(r).seconds = r.seconds
         /\ View(r).minutes = r.minutes /\ View(r).hours = r.hours
         /\ View(r).days = r.days /\ View(r).halted = r.halted
         /\ View(r).day_carry = r.day_carry
BY DEF View, Phase


\* A counter that is counted keeps to the hardware's range, another keeps its value.
LEMMA UpFits ==
  ASSUME NEW field \in Fields, NEW value \in 0 .. Byte - 1
  PROVE  Chip!Up(value, field) \in 0 .. Size[field] - 1 /\ Chip!Up(value, field) \in 0 .. Byte - 1
<1>1. Size[field] \in Nat \ {0} /\ Size[field] <= Byte /\ Byte \in Nat /\ value \in Nat
  BY Positive
<1>2. Chip!Up(value, field) \in 0 .. Size[field] - 1
  BY <1>1, UpInRange
<1> QED BY <1>1, <1>2

\* The six counters of x are those of r, or in the hardware's ranges.
Kept(x, r) ==
  /\ x.subsecond_ticks \in 0 .. Ticks - 1 \/ x.subsecond_ticks = r.subsecond_ticks
  /\ x.subsecond_tick_thousandths \in 0 .. Millis - 1
       \/ x.subsecond_tick_thousandths = r.subsecond_tick_thousandths
  /\ x.seconds \in 0 .. Size["seconds"] - 1 \/ x.seconds = r.seconds
  /\ x.minutes \in 0 .. Size["minutes"] - 1 \/ x.minutes = r.minutes
  /\ x.hours \in 0 .. Size["hours"] - 1 \/ x.hours = r.hours
  /\ x.days \in 0 .. Days - 1 \/ x.days = r.days

\* What one second more makes of the registers.
Ticked(x, r) ==
  /\ x \in Registers /\ x.halted = r.halted
  /\ Phase(x) = Phase(r)
  /\ View(x) = Chip!Second(View(r))
  /\ Kept(x, r)

\* tick_rtc_second is the second of the chip, for values that are no time of day.
LEMMA TickIsSecond ==
  ASSUME NEW r \in Registers, ~InCalendar(r)
  PROVE  Ticked(TickSecond(r), r)
<1> DEFINE s == Chip!Up(r.seconds, "seconds")
           m == IF FullMinute(r) THEN Chip!Up(r.minutes, "minutes") ELSE r.minutes
           h == IF FullHour(r) THEN Chip!Up(r.hours, "hours") ELSE r.hours
           d == r.days
           c == r.day_carry
           v == View(r)
<1>1. /\ v \in Chip!Registers
      /\ v.phase = Phase(r) /\ v.seconds = r.seconds /\ v.minutes = r.minutes /\ v.hours = r.hours
      /\ v.days = r.days /\ v.halted = r.halted /\ v.day_carry = r.day_carry
  BY ViewInRange, ViewFields
<1> HIDE DEF v
<1>2. (Minute(v) <=> FullMinute(r)) /\ (Hour(v) <=> FullHour(r))
  BY <1>1 DEF Minute, Hour, FullMinute, FullHour, Chip!Carries
<1>3. ~(r.seconds < Limit["seconds"] /\ r.minutes < Limit["minutes"] /\ r.hours < Limit["hours"])
  BY DEF InCalendar, Fields
<1>4. ~FullDay(r)
  <2>1. /\ Limit["seconds"] \in Nat \ {0} /\ Limit["minutes"] \in Nat \ {0}
        /\ Limit["hours"] \in Nat \ {0}
    BY Positive DEF Fields
  <2> QED BY <1>3, <2>1 DEF FullDay, FullHour, FullMinute
<1>5. ~Chip!Legal(v)
  BY <1>1, <1>3, LegalTime
<1>6. v.day_carry \in BOOLEAN
  BY <1>1, ChipFields
<1>7. Chip!Second(v) = [ phase |-> Phase(r), seconds |-> s, minutes |-> m, hours |-> h, days |-> d,
                         halted |-> r.halted, day_carry |-> c ]
  <2>1. /\ s = Chip!Up(v.seconds, "seconds")
        /\ m = IF Minute(v) THEN Chip!Up(v.minutes, "minutes") ELSE v.minutes
        /\ h = IF Hour(v) THEN Chip!Up(v.hours, "hours") ELSE v.hours
    BY <1>1, <1>2
  <2>2. (v.day_carry \/ (Chip!Legal(v) /\ Date1(v) > Days - 1)) = c
    BY <1>1, <1>5, <1>6
  <2> HIDE DEF s, m, h, d, c
  <2>3. d = v.days
    BY <1>1 DEF d
  <2> QED BY <1>1, <1>5, <2>1, <2>2, <2>3, SecondFields
<1>8. TickSecond(r) = Moved(r, s, m, h, d, c)
  <2>1. (r.day_carry \/ (FullDay(r) /\ r.days = Days - 1)) = c
    BY <1>1, <1>4, <1>6
  <2> HIDE DEF s, m, h, c
  <2>2. TickSecond(r) = Moved(r, s, m, h, d, r.day_carry \/ (FullDay(r) /\ r.days = Days - 1))
    BY <1>4, TickMoves DEF s, m, h
  <2> QED BY <2>1, <2>2
<1>9. /\ s \in 0 .. Byte - 1 /\ m \in 0 .. Byte - 1 /\ h \in 0 .. Byte - 1
      /\ d \in 0 .. Word - 1 /\ c \in BOOLEAN
  BY RegisterFields, UpFits DEF Fields
<1>10. /\ s \in 0 .. Size["seconds"] - 1
       /\ m \in 0 .. Size["minutes"] - 1 \/ m = r.minutes
       /\ h \in 0 .. Size["hours"] - 1 \/ h = r.hours
       /\ d = r.days
  BY RegisterFields, UpFits DEF Fields
<1> HIDE DEF s, m, h, d, c
<1> DEFINE x == Moved(r, s, m, h, d, c)
<1>11. /\ x \in Registers /\ x.halted = r.halted
       /\ x.subsecond_ticks = r.subsecond_ticks
       /\ x.subsecond_tick_thousandths = r.subsecond_tick_thousandths
       /\ x.seconds = s /\ x.minutes = m /\ x.hours = h /\ x.days = d
  BY <1>9, MovedInRange, MovedFields
<1>12. View(x) = Chip!Second(v)
  BY <1>7, MovedView
<1> HIDE DEF x
<1>13. Ticked(x, r)
  BY <1>10, <1>11, <1>12 DEF Ticked, Kept, Phase, v
<1> QED BY <1>8, <1>13 DEF x

\* The same, in the order of the calendar arithmetic.
Stored(r, s, m, h, d, c) ==
  [r EXCEPT !.day_carry = c, !.days = d, !.hours = h, !.minutes = m, !.seconds = s]

\* The order of the updates does not matter.
LEMMA StoredIsMoved ==
  ASSUME NEW r \in Registers, NEW s, NEW m, NEW h, NEW d, NEW c
  PROVE  Stored(r, s, m, h, d, c) = Moved(r, s, m, h, d, c)
<1> DEFINE Fields8(s1, m1, h1, d1, c1) ==
             [ subsecond_ticks |-> r.subsecond_ticks,
               subsecond_tick_thousandths |-> r.subsecond_tick_thousandths,
               seconds |-> s1, minutes |-> m1, hours |-> h1,
               days |-> d1, halted |-> r.halted, day_carry |-> c1 ]
           v == [r EXCEPT !.day_carry = c]
           w == [v EXCEPT !.days = d]
           x == [w EXCEPT !.hours = h]
           y == [x EXCEPT !.minutes = m]
           z == [y EXCEPT !.seconds = s]
<1>1. Stored(r, s, m, h, d, c) = z
  BY DEF Stored
<1>2. r = Fields8(r.seconds, r.minutes, r.hours, r.days, r.day_carry)
  BY RegisterFields
<1>3. v = Fields8(r.seconds, r.minutes, r.hours, r.days, c)
  BY <1>2
<1> HIDE DEF v
<1>4. w = Fields8(r.seconds, r.minutes, r.hours, d, c)
  BY <1>3
<1> HIDE DEF w
<1>5. x = Fields8(r.seconds, r.minutes, h, d, c)
  BY <1>4
<1> HIDE DEF x
<1>6. y = Fields8(r.seconds, m, h, d, c)
  BY <1>5
<1> HIDE DEF y
<1>7. z = Fields8(s, m, h, d, c)
  BY <1>6
<1> HIDE DEF z
<1>8. Moved(r, s, m, h, d, c) = Fields8(s, m, h, d, c)
  BY MovedFields
<1> QED BY <1>1, <1>7, <1>8

\* A legal counter carries at its limit and otherwise moves up by one.
LEMMA UpLegal ==
  ASSUME NEW field \in Fields, NEW value \in 0 .. Limit[field] - 1
  PROVE  Chip!Up(value, field) = IF value = Limit[field] - 1 THEN 0 ELSE value + 1
<1>1. Limit[field] \in Nat \ {0} /\ Size[field] \in Nat \ {0} /\ Limit[field] <= Size[field]
  BY Positive
<1>2. CASE value = Limit[field] - 1
  BY <1>2 DEF Chip!Up, Chip!Carries
<1>3. CASE value # Limit[field] - 1
  <2> DEFINE next == value + 1
             size == Size[field]
  <2>1. next \in Nat /\ next <= Limit[field] - 1 /\ size \in Nat \ {0} /\ Limit[field] <= size
    BY <1>1, <1>3
  <2>2. Chip!Up(value, field) = next % size
    BY <1>3 DEF Chip!Up, Chip!Carries
  <2> HIDE DEF next, size
  <2>3. next \in 0 .. size - 1
    BY <1>1, <2>1
  <2>4. next % size = next
    BY <2>1, <2>3, DivisionOfSmall
  <2> QED BY <1>3, <2>2, <2>4 DEF next
<1> QED BY <1>2, <1>3

\* A day has a whole number of hours, minutes and seconds.
LEMMA DayLength ==
  /\ SecondsPerDay = Limit["hours"] * Limit["minutes"] * Limit["seconds"]
  /\ SecondsPerDay \in Nat \ {0}
<1> DEFINE S == Limit["seconds"]
           M == Limit["minutes"]
           H == Limit["hours"]
<1>1. S \in Nat \ {0} /\ M \in Nat \ {0} /\ H \in Nat \ {0}
  BY Positive DEF Fields
<1>2. SecondsPerDay = H * M * S
  BY DEF SecondsPerDay
<1> HIDE DEF S, M, H
<1>3. H * M \in Nat \ {0}
  BY <1>1, Products
<1>4. (H * M) * S \in Nat \ {0}
  BY <1>1, <1>3, Products
<1> QED BY <1>2, <1>4 DEF S, M, H

\* The registers at second t of day d, counted from the day 0 of r.
At(r, t, d) ==
  Moved(r, t % Limit["seconds"], (t \div Limit["seconds"]) % Limit["minutes"],
        t \div (Limit["minutes"] * Limit["seconds"]),
        d % Days, r.day_carry \/ d > Days - 1)

Base(r) == OfDay(r.hours, r.minutes, r.seconds, Limit["minutes"], Limit["seconds"])
Time(r, n) == (Base(r) + n) % SecondsPerDay
Date(r, n) == r.days + ((Base(r) + n) \div SecondsPerDay)

\* What holds of the registers at second t of day d.
AtFacts(x, r, t, d) ==
  /\ x \in Registers /\ InCalendar(x) /\ x.halted = r.halted /\ Phase(x) = Phase(r)
  /\ Base(x) = t /\ x.days = d % Days /\ x.day_carry = (r.day_carry \/ d > Days - 1)
  /\ Kept(x, r)

\* A time of day is within the ranges of the registers, and is read back as it is.
LEMMA AtInRange ==
  ASSUME NEW r \in Registers, NEW t \in 0 .. SecondsPerDay - 1, NEW d \in Nat
  PROVE  AtFacts(At(r, t, d), r, t, d)
<1> DEFINE S == Limit["seconds"]
           M == Limit["minutes"]
           H == Limit["hours"]
           s == t % S
           m == (t \div S) % M
           h == t \div (M * S)
           e == d % Days
           c == r.day_carry \/ d > Days - 1
<1>1. /\ S \in Nat \ {0} /\ M \in Nat \ {0} /\ H \in Nat \ {0}
      /\ S <= Size["seconds"] /\ M <= Size["minutes"] /\ H <= Size["hours"]
      /\ Size["seconds"] \in Nat /\ Size["minutes"] \in Nat /\ Size["hours"] \in Nat
      /\ Size["seconds"] <= Byte /\ Size["minutes"] <= Byte /\ Size["hours"] <= Byte
      /\ Days \in Nat \ {0} /\ Days <= Word /\ Byte \in Nat /\ Word \in Nat
  BY Positive DEF Fields
<1>2. t \in 0 .. (H * M * S) - 1
  BY DayLength
<1> HIDE DEF S, M, H
<1>3. s \in 0 .. S - 1 /\ m \in 0 .. M - 1 /\ h \in 0 .. H - 1 /\ t = OfDay(h, m, s, M, S)
  BY <1>1, <1>2, Digits
<1>4. e \in 0 .. Days - 1
  BY <1>1, Division
<1>5. c \in BOOLEAN
  BY Zenon
<1>6. At(r, t, d) = Moved(r, s, m, h, e, c)
  BY DEF At, S, M
<1> HIDE DEF s, m, h, e
<1>7. s \in 0 .. Size["seconds"] - 1 /\ m \in 0 .. Size["minutes"] - 1 /\ h \in 0 .. Size["hours"] - 1
  BY <1>1, <1>3
<1>8. s \in 0 .. Byte - 1 /\ m \in 0 .. Byte - 1 /\ h \in 0 .. Byte - 1 /\ e \in 0 .. Word - 1
  BY <1>1, <1>4, <1>7
<1> HIDE DEF c
<1> DEFINE x == Moved(r, s, m, h, e, c)
<1>9. x \in Registers
  BY <1>5, <1>8, MovedInRange
<1>10. /\ x.halted = r.halted /\ x.seconds = s /\ x.minutes = m /\ x.hours = h
       /\ x.days = e /\ x.day_carry = c
       /\ x.subsecond_ticks = r.subsecond_ticks
       /\ x.subsecond_tick_thousandths = r.subsecond_tick_thousandths
  BY MovedFields
<1> HIDE DEF x
<1>11. InCalendar(x)
  BY <1>1, <1>3, <1>10 DEF InCalendar, Fields, S, M, H
<1>12. Base(x) = t
  BY <1>3, <1>10 DEF Base, S, M
<1>13. Kept(x, r) /\ Phase(x) = Phase(r)
  BY <1>4, <1>7, <1>10 DEF Kept, Phase
<1> QED BY <1>6, <1>9, <1>10, <1>11, <1>12, <1>13 DEF x, e, c, AtFacts

\* The calendar arithmetic moves the registers to a time of day and a date.
LEMMA AddMoves ==
  ASSUME NEW r \in Registers, NEW n \in Nat
  PROVE  AddSeconds(r, n) = At(r, Time(r, n), Date(r, n))
<1> DEFINE total == (r.hours * Limit["minutes"] + r.minutes) * Limit["seconds"] + r.seconds + n
           t == total % SecondsPerDay
           d == r.days + (total \div SecondsPerDay)
           s == t % Limit["seconds"]
           m == (t \div Limit["seconds"]) % Limit["minutes"]
           h == t \div (Limit["minutes"] * Limit["seconds"])
           e == d % Days
           c == r.day_carry \/ d > Days - 1
<1>1. AddSeconds(r, n) = Stored(r, s, m, h, e, c)
  BY DEF AddSeconds, Stored
<1>2. At(r, t, d) = Moved(r, s, m, h, e, c)
  BY DEF At
<1>3. total = Base(r) + n
  BY DEF Base, OfDay
<1> HIDE DEF total
<1>4. t = Time(r, n) /\ d = Date(r, n)
  BY <1>3 DEF Time, Date
<1> HIDE DEF t, d, s, m, h, e, c
<1>5. AddSeconds(r, n) = Moved(r, s, m, h, e, c)
  BY <1>1, StoredIsMoved
<1> QED BY <1>2, <1>4, <1>5


\* The time of day that registers in the calendar hold.
LEMMA BaseInDay ==
  ASSUME NEW r \in Registers, InCalendar(r)
  PROVE  /\ Base(r) \in 0 .. SecondsPerDay - 1
         /\ Shows(Base(r), r.hours, r.minutes, r.seconds, Limit["hours"], Limit["minutes"], Limit["seconds"])
<1> DEFINE S == Limit["seconds"]
           M == Limit["minutes"]
           H == Limit["hours"]
           t == Base(r)
<1>1. S \in Nat \ {0} /\ M \in Nat \ {0} /\ H \in Nat \ {0}
  BY Positive DEF Fields
<1>2. r.seconds \in 0 .. S - 1 /\ r.minutes \in 0 .. M - 1 /\ r.hours \in 0 .. H - 1
  <2>1. r.seconds < S /\ r.minutes < M /\ r.hours < H
    BY DEF InCalendar, Fields
  <2> QED BY <1>1, <2>1, RegisterNumbers
<1>3. t = OfDay(r.hours, r.minutes, r.seconds, M, S)
  BY DEF Base
<1>4. SecondsPerDay = H * M * S
  BY DayLength
<1> HIDE DEF S, M, H, t
<1>5. Shows(t, r.hours, r.minutes, r.seconds, H, M, S)
  BY <1>1, <1>2, <1>3, DigitsOf
<1>6. t \in 0 .. SecondsPerDay - 1
  BY <1>4, <1>5 DEF Shows
<1> QED BY <1>5, <1>6 DEF t, S, M, H

\* The calendar arithmetic yields a time of day.
LEMMA AddInRange ==
  ASSUME NEW r \in Registers, InCalendar(r), NEW n \in Nat
  PROVE  /\ Time(r, n) \in 0 .. SecondsPerDay - 1 /\ Date(r, n) \in Nat
         /\ AtFacts(AddSeconds(r, n), r, Time(r, n), Date(r, n))
<1>1. SecondsPerDay \in Nat \ {0} /\ r.days \in Nat /\ Base(r) \in Nat
  BY DayLength, RegisterNumbers, BaseInDay
<1> DEFINE x == Base(r) + n
<1>2. x \in Nat
  BY <1>1
<1> HIDE DEF x
<1>3. x \div SecondsPerDay \in Nat /\ x % SecondsPerDay \in 0 .. SecondsPerDay - 1
  BY <1>1, <1>2, Division
<1>4. Time(r, n) \in 0 .. SecondsPerDay - 1 /\ Date(r, n) \in Nat
  BY <1>1, <1>3 DEF Time, Date, x
<1> QED BY <1>4, AddMoves, AtInRange

\* A second more at second t of day d.
NextTime(t) == IF t = SecondsPerDay - 1 THEN 0 ELSE t + 1
NextDate(t, d) == IF t = SecondsPerDay - 1 THEN d + 1 ELSE d

\* The time of day and the date one second later.
LEMMA TimeMovesOn ==
  ASSUME NEW r \in Registers, InCalendar(r)
  PROVE  Time(r, 1) = NextTime(Base(r)) /\ Date(r, 1) = NextDate(Base(r), r.days)
<1> DEFINE t == Base(r)
<1>1. SecondsPerDay \in Nat \ {0} /\ r.days \in Nat /\ t \in 0 .. SecondsPerDay - 1
  BY DayLength, RegisterNumbers, BaseInDay
<1>2. Time(r, 1) = (t + 1) % SecondsPerDay /\ Date(r, 1) = r.days + ((t + 1) \div SecondsPerDay)
  BY DEF Time, Date
<1> HIDE DEF t
<1> DEFINE p == t \div SecondsPerDay
           s == t % SecondsPerDay
<1>3. p = 0 /\ s = t /\ t \in Nat
  BY <1>1, DivisionOfSmall
<1>4. /\ t = SecondsPerDay - 1 => (t + 1) % SecondsPerDay = 0 /\ (t + 1) \div SecondsPerDay = 1
      /\ t # SecondsPerDay - 1 => (t + 1) % SecondsPerDay = t + 1 /\ (t + 1) \div SecondsPerDay = 0
  <2>1. /\ s = SecondsPerDay - 1 => (t + 1) % SecondsPerDay = 0 /\ (t + 1) \div SecondsPerDay = p + 1
        /\ s # SecondsPerDay - 1 => (t + 1) % SecondsPerDay = s + 1 /\ (t + 1) \div SecondsPerDay = p
    BY <1>1, <1>3, DivisionOfNext
  <2> HIDE DEF p, s
  <2> QED BY <1>3, <2>1
<1> DEFINE x == (t + 1) % SecondsPerDay
           y == (t + 1) \div SecondsPerDay
<1>5. /\ t = SecondsPerDay - 1 => x = 0 /\ y = 1
      /\ t # SecondsPerDay - 1 => x = t + 1 /\ y = 0
      /\ Time(r, 1) = x /\ Date(r, 1) = r.days + y
  BY <1>2, <1>4
<1> HIDE DEF x, y
<1>6. Time(r, 1) = NextTime(t) /\ Date(r, 1) = NextDate(t, r.days)
  BY <1>1, <1>5 DEF NextTime, NextDate
<1> QED BY <1>6 DEF t

\* The calendar arithmetic for one second is the second of the chip.
LEMMA AddIsSecond ==
  ASSUME NEW r \in Registers, InCalendar(r)
  PROVE  Ticked(AddSeconds(r, 1), r)
<1> DEFINE S == Limit["seconds"]
           M == Limit["minutes"]
           H == Limit["hours"]
           s == r.seconds
           m == r.minutes
           h == r.hours
           d == r.days
           t == Base(r)
           n == NextTime(t)
           f == NextDate(t, d)
           v == View(r)
<1>1. /\ S \in Nat \ {0} /\ M \in Nat \ {0} /\ H \in Nat \ {0} /\ Days \in Nat \ {0}
  BY Positive DEF Fields
<1>2. t \in 0 .. SecondsPerDay - 1 /\ t \in 0 .. (H * M * S) - 1 /\ t \in Nat /\ SecondsPerDay = H * M * S
  BY DayLength, BaseInDay
<1>3. t % S = s /\ (t \div S) % M = m /\ t \div (M * S) = h
  BY BaseInDay DEF Shows
<1>4. AddSeconds(r, 1) = At(r, n, f)
  BY AddMoves, TimeMovesOn
<1>5. s < S /\ m < M /\ h < H
  BY DEF InCalendar, Fields
<1>6. s \in Nat /\ m \in Nat /\ h \in Nat /\ d \in Nat
  BY RegisterNumbers
<1>7. /\ v \in Chip!Registers /\ v.phase = Phase(r)
      /\ v.seconds = s /\ v.minutes = m /\ v.hours = h /\ v.days = d
      /\ v.halted = r.halted /\ v.day_carry = r.day_carry
  BY ViewInRange, ViewFields
<1>8. AtFacts(AddSeconds(r, 1), r, Time(r, 1), Date(r, 1))
  BY AddInRange
<1> HIDE DEF t, v
<1>9. s \in 0 .. S - 1 /\ m \in 0 .. M - 1 /\ h \in 0 .. H - 1
  BY <1>1, <1>5, <1>6
<1> HIDE DEF s, m, h, d
<1>10. t = SecondsPerDay - 1 <=> s = S - 1 /\ m = M - 1 /\ h = H - 1
  <2> HIDE DEF S, M, H
  <2>1. EndsDay(t, H, M, S)
    BY <1>1, <1>2, LastDigits
  <2> QED BY <1>2, <1>3, <2>1 DEF EndsDay
<1>11. /\ (t + 1) % S = IF s = S - 1 THEN 0 ELSE s + 1
       /\ ((t + 1) \div S) % M = IF s # S - 1 THEN m ELSE IF m = M - 1 THEN 0 ELSE m + 1
       /\ (t + 1) \div (M * S) = IF s = S - 1 /\ m = M - 1 THEN h + 1 ELSE h
  <2> HIDE DEF S, M, H
  <2>1. Continues(t, M, S)
    BY <1>1, <1>2, NextDigits
  <2> QED BY <1>3, <2>1 DEF Continues
<1>12. 0 % S = 0 /\ (0 \div S) % M = 0 /\ 0 \div (M * S) = 0
  <2> HIDE DEF S, M, H
  <2>1. 0 \in 0 .. S - 1 /\ 0 \in 0 .. M - 1 /\ 0 \in 0 .. H - 1
    BY <1>1
  <2>2. Shows(OfDay(0, 0, 0, M, S), 0, 0, 0, H, M, S)
    BY <1>1, <2>1, DigitsOf
  <2>3. OfDay(0, 0, 0, M, S) = 0
    BY <1>1 DEF OfDay
  <2> QED BY <2>2, <2>3 DEF Shows
<1>13. /\ n % S = IF s = S - 1 THEN 0 ELSE s + 1
       /\ (n \div S) % M = IF s # S - 1 THEN m ELSE IF m = M - 1 THEN 0 ELSE m + 1
       /\ n \div (M * S) = IF s = S - 1 /\ m = M - 1 THEN (IF h = H - 1 THEN 0 ELSE h + 1) ELSE h
  <2> HIDE DEF S, M, H
  <2>1. CASE t = SecondsPerDay - 1
    BY <1>10, <1>12, <2>1 DEF NextTime
  <2>2. CASE t # SecondsPerDay - 1
    BY <1>9, <1>10, <1>11, <2>2 DEF NextTime
  <2> QED BY <2>1, <2>2
<1>14. /\ Chip!Up(s, "seconds") = IF s = S - 1 THEN 0 ELSE s + 1
       /\ Chip!Up(m, "minutes") = IF m = M - 1 THEN 0 ELSE m + 1
       /\ Chip!Up(h, "hours") = IF h = H - 1 THEN 0 ELSE h + 1
  BY <1>9, UpLegal DEF Fields
<1>15. /\ Minute(v) <=> s = S - 1
       /\ Hour(v) <=> s = S - 1 /\ m = M - 1
       /\ Day(v) <=> t = SecondsPerDay - 1
  BY <1>7, <1>10 DEF Minute, Hour, Day, Chip!Carries
<1>16. Chip!Legal(v)
  BY <1>5, <1>7, LegalTime
<1>17. Date1(v) = f
  BY <1>7, <1>15 DEF Date1, NextDate
<1> DEFINE s2 == Chip!Up(s, "seconds")
           m2 == IF Minute(v) THEN Chip!Up(m, "minutes") ELSE m
           h2 == IF Hour(v) THEN Chip!Up(h, "hours") ELSE h
           e2 == f % Days
           c2 == r.day_carry \/ f > Days - 1
<1>18. s2 = n % S /\ m2 = (n \div S) % M /\ h2 = n \div (M * S)
  <2> HIDE DEF S, M, H, n, f
  <2> QED BY <1>13, <1>14, <1>15
<1>19. Chip!Second(v) = [ phase |-> Phase(r), seconds |-> s2, minutes |-> m2, hours |-> h2, days |-> e2,
                          halted |-> r.halted, day_carry |-> c2 ]
  <2>1. (v.day_carry \/ (Chip!Legal(v) /\ Date1(v) > Days - 1)) = c2
    <3> DEFINE late == f > Days - 1
               late0 == Date1(v) > Days - 1
    <3>1. late = late0
      BY <1>17
    <3> HIDE DEF late, late0
    <3>2. (v.day_carry \/ (Chip!Legal(v) /\ late0)) <=> (r.day_carry \/ late)
      BY <1>7, <1>16, <3>1
    <3>3. (v.day_carry \/ (Chip!Legal(v) /\ late0)) \in BOOLEAN /\ (r.day_carry \/ late) \in BOOLEAN
      BY Zenon
    <3>4. (v.day_carry \/ (Chip!Legal(v) /\ late0)) = (r.day_carry \/ late)
      BY <3>2, <3>3, Zenon
    <3> QED BY <3>4, Zenon DEF late, late0
  <2>2. /\ s2 = Chip!Up(v.seconds, "seconds")
        /\ m2 = IF Minute(v) THEN Chip!Up(v.minutes, "minutes") ELSE v.minutes
        /\ h2 = IF Hour(v) THEN Chip!Up(v.hours, "hours") ELSE v.hours
    BY <1>7
  <2>3. e2 = IF Chip!Legal(v) THEN Date1(v) % Days ELSE v.days
    BY <1>16, <1>17
  <2> HIDE DEF s2, m2, h2, e2, c2
  <2> QED BY <1>7, <2>1, <2>2, <2>3, SecondFields
<1>20. At(r, n, f) = Moved(r, n % S, (n \div S) % M, n \div (M * S), e2, c2)
  BY DEF At
<1> HIDE DEF n, f, s2, m2, h2, e2, c2
<1>21. At(r, n, f) = Moved(r, s2, m2, h2, e2, c2)
  BY <1>18, <1>20
<1>22. View(At(r, n, f)) = Chip!Second(v)
  BY <1>19, <1>21, MovedView
<1> QED BY <1>4, <1>8, <1>22 DEF AtFacts, Ticked, v

\* A whole number of days changes nothing but the quotient.
LEMMA DivisionShift ==
  ASSUME NEW d \in Nat \ {0}, NEW q \in Nat, NEW y \in Nat
  PROVE  (q * d + y) \div d = q + (y \div d) /\ (q * d + y) % d = y % d
<1> DEFINE p == y \div d
           s == y % d
           z == q + p
           x == q * d + y
<1>1. p \in Nat /\ s \in 0 .. d - 1 /\ y = p * d + s
  BY Division
<1> HIDE DEF p, s
<1>2. z \in Nat /\ z * d = q * d + p * d
  BY <1>1
<1>3. x = z * d + s
  <2> DEFINE j == q * d
             k == p * d
  <2>1. j \in Nat /\ k \in Nat /\ z * d = j + k /\ y = k + s
    BY <1>1, <1>2, Products
  <2> HIDE DEF j, k, z
  <2>2. j + y = z * d + s
    BY <1>1, <2>1
  <2> QED BY <2>2 DEF j
<1> HIDE DEF z, x
<1>4. x \div d = z /\ x % d = s
  BY <1>1, <1>2, <1>3, DivisionIsUnique
<1> QED BY <1>4 DEF x, z, p, s

\* A counter of days that wraps keeps the remainder, and remembers that it wrapped.
LEMMA WrapsOnce ==
  ASSUME NEW d \in Nat, NEW e \in Nat
  PROVE  /\ ((d % Days) + e) % Days = (d + e) % Days
         /\ d > Days - 1 \/ (d % Days) + e > Days - 1 <=> d + e > Days - 1
<1>1. Days \in Nat \ {0}
  BY Positive
<1> DEFINE q == d \div Days
           s == d % Days
           y == s + e
<1>2. q \in Nat /\ s \in 0 .. Days - 1 /\ d = q * Days + s
  BY <1>1, Division
<1>3. d \in 0 .. Days - 1 => s = d
  BY <1>1, DivisionOfSmall
<1> HIDE DEF q, s
<1>4. y \in Nat /\ d + e = q * Days + y
  <2> DEFINE j == q * Days
  <2>1. j \in Nat /\ d = j + s
    BY <1>1, <1>2, Products
  <2> HIDE DEF j
  <2>2. y \in Nat /\ d + e = j + y
    BY <1>2, <2>1
  <2> QED BY <2>2 DEF j
<1>5. (q * Days + y) % Days = y % Days
  <2> HIDE DEF y
  <2> QED BY <1>1, <1>2, <1>4, DivisionShift
<1>6. (d + e) % Days = y % Days
  BY <1>4, <1>5
<1>7. d > Days - 1 \/ y > Days - 1 <=> d + e > Days - 1
  BY <1>1, <1>2, <1>3
<1> QED BY <1>6, <1>7 DEF y, s

\* The calendar arithmetic may be done in two parts.
LEMMA AddTwice ==
  ASSUME NEW r \in Registers, InCalendar(r), NEW j \in Nat, NEW k \in Nat
  PROVE  AddSeconds(AddSeconds(r, j), k) = AddSeconds(r, j + k)
<1> DEFINE x == AddSeconds(r, j)
           t == Time(r, j)
           d == Date(r, j)
           b == Base(r)
           q == (b + j) \div SecondsPerDay
           e == (t + k) \div SecondsPerDay
<1>1. /\ SecondsPerDay \in Nat \ {0} /\ b \in Nat /\ r.days \in Nat
      /\ t \in 0 .. SecondsPerDay - 1 /\ d \in Nat /\ AtFacts(x, r, t, d)
  BY DayLength, BaseInDay, RegisterNumbers, AddInRange
<1>2. x \in Registers /\ InCalendar(x) /\ Base(x) = t /\ x.days = d % Days
      /\ x.day_carry = (r.day_carry \/ d > Days - 1)
  BY <1>1 DEF AtFacts
<1>3. t = (b + j) % SecondsPerDay /\ d = r.days + q
  BY DEF Time, Date
<1>4. Time(x, k) = (t + k) % SecondsPerDay /\ Date(x, k) = (d % Days) + e
  BY <1>2 DEF Time, Date
<1>5. /\ Time(r, j + k) = (b + (j + k)) % SecondsPerDay
      /\ Date(r, j + k) = r.days + ((b + (j + k)) \div SecondsPerDay)
  BY DEF Time, Date
<1>6. x = At(r, t, d)
  BY AddMoves
<1> HIDE DEF x, t, d, b
<1>7. q \in Nat /\ b + j = q * SecondsPerDay + t
  <2> DEFINE z == b + j
  <2>1. z \in Nat
    BY <1>1
  <2> HIDE DEF z
  <2>2. z \div SecondsPerDay \in Nat /\ z = (z \div SecondsPerDay) * SecondsPerDay + (z % SecondsPerDay)
    BY <1>1, <2>1, Division
  <2> QED BY <1>3, <2>2 DEF z
<1> DEFINE y == t + k
<1>8. y \in Nat /\ e = y \div SecondsPerDay
  BY <1>1
<1>9. b + (j + k) = q * SecondsPerDay + y
  <2> DEFINE z == q * SecondsPerDay
  <2>1. z \in Nat /\ b + j = z + t
    BY <1>1, <1>7, Products
  <2> HIDE DEF z, q
  <2>2. b + (j + k) = z + y
    BY <1>1, <2>1
  <2> QED BY <2>2 DEF z
<1> HIDE DEF q, e
<1>10. Time(r, j + k) = y % SecondsPerDay /\ Date(r, j + k) = r.days + (q + e)
  <2> HIDE DEF y
  <2>1. (q * SecondsPerDay + y) \div SecondsPerDay = q + (y \div SecondsPerDay)
        /\ (q * SecondsPerDay + y) % SecondsPerDay = y % SecondsPerDay
    BY <1>1, <1>7, <1>8, DivisionShift
  <2> QED BY <1>5, <1>8, <1>9, <2>1
<1>11. e \in Nat
  <2> HIDE DEF y
  <2> QED BY <1>1, <1>8, Division
<1>12. Time(x, k) = Time(r, j + k) /\ Date(r, j + k) = d + e
  BY <1>1, <1>3, <1>4, <1>7, <1>10, <1>11
<1> DEFINE u == Time(r, j + k)
           f == d + e
           g == (d % Days) + e
           c == x.day_carry \/ g > Days - 1
           c2 == r.day_carry \/ f > Days - 1
           S == Limit["seconds"]
           M == Limit["minutes"]
<1>13. AddSeconds(x, k) = At(x, u, g) /\ AddSeconds(r, j + k) = At(r, u, f)
  <2>1. j + k \in Nat
    OBVIOUS
  <2>2. AddSeconds(x, k) = At(x, Time(x, k), Date(x, k))
    BY <1>2, AddMoves
  <2>3. AddSeconds(r, j + k) = At(r, Time(r, j + k), Date(r, j + k))
    BY <2>1, AddMoves
  <2> QED BY <1>4, <1>12, <2>2, <2>3
<1>14. g % Days = f % Days
  BY <1>1, <1>11, WrapsOnce
<1>15. c = c2
  <2> DEFINE early == d > Days - 1
             now == g > Days - 1
             ever == f > Days - 1
  <2>1. early \/ now <=> ever
    BY <1>1, <1>11, WrapsOnce
  <2>2. x.day_carry = (r.day_carry \/ early)
    BY <1>2
  <2> HIDE DEF early, now, ever
  <2>3. (x.day_carry \/ now) <=> (r.day_carry \/ ever)
    BY <2>1, <2>2
  <2>4. (x.day_carry \/ now) \in BOOLEAN /\ (r.day_carry \/ ever) \in BOOLEAN
    BY Zenon
  <2>5. (x.day_carry \/ now) = (r.day_carry \/ ever)
    BY <2>3, <2>4, Zenon
  <2> QED BY <2>5, Zenon DEF now, ever
<1>16. /\ At(x, u, g) = Moved(x, u % S, (u \div S) % M, u \div (M * S), g % Days, c)
       /\ At(r, u, f) = Moved(r, u % S, (u \div S) % M, u \div (M * S), f % Days, c2)
  BY DEF At
<1>17. /\ x.subsecond_ticks = r.subsecond_ticks /\ x.halted = r.halted
       /\ x.subsecond_tick_thousandths = r.subsecond_tick_thousandths
  BY <1>6, MovedFields DEF At
<1> DEFINE s == u % S
           m == (u \div S) % M
           h == u \div (M * S)
           w == f % Days
<1>18. At(x, u, g) = Moved(x, s, m, h, w, c2) /\ At(r, u, f) = Moved(r, s, m, h, w, c2)
  BY <1>14, <1>15, <1>16
<1> HIDE DEF s, m, h, w, c2, u, f, g
<1>19. Moved(x, s, m, h, w, c2) = Moved(r, s, m, h, w, c2)
  BY <1>2, <1>17, MovedFields
<1> QED BY <1>13, <1>18, <1>19 DEF x

-----------------------------------------------------------------------------
(* The calendar in leaps. *)

\* One second of the registers, as advance_rtc_seconds(1) makes it.
OneSecond(r) == IF InCalendar(r) THEN AddSeconds(r, 1) ELSE TickSecond(r)

\* It is the second of the chip, for legal and illegal values.
LEMMA OneSecondIsSecond ==
  ASSUME NEW r \in Registers
  PROVE  Ticked(OneSecond(r), r)
BY TickIsSecond, AddIsSecond, Zenon DEF OneSecond

\* The recursive definition of Normalized holds: the loop counts down.
LEMMA NormalizedUnfolds ==
  ASSUME NEW leap \in Leaps
  PROVE  Normalized[leap] =
           IF leap.seconds = 0 \/ InCalendar(leap.rtc) THEN leap
           ELSE Normalized[[rtc |-> TickSecond(leap.rtc), seconds |-> leap.seconds - 1]]
<1> DEFINE Next1(l) == [rtc |-> TickSecond(l.rtc), seconds |-> l.seconds - 1]
           S == Leaps
           Stop == {l \in S : l.seconds = 0 \/ InCalendar(l.rtc)}
           B == [l \in S |-> l]
           F == [l \in S |-> Next1(l)]
           m == [l \in S |-> l.seconds]
           Unfolds(f) == f = [l \in S |-> IF l.seconds = 0 \/ InCalendar(l.rtc) THEN l ELSE f[Next1(l)]]
<1>1. \A l \in S : l.rtc \in Registers /\ l.seconds \in Nat
  BY DEF Leaps
<1>2. \A l \in S : l.seconds # 0 /\ ~InCalendar(l.rtc) => Next1(l) \in S
  BY <1>1, TickIsSecond DEF Leaps, Ticked
<1> HIDE DEF S
<1>3. CountsDown(S, Stop, F, m)
  BY <1>1, <1>2 DEF CountsDown
<1> HIDE DEF Stop, B, F, m
<1>4. PICK f : f = [l \in S |-> IF l \in Stop THEN B[l] ELSE f[F[l]]]
  BY <1>3, Recursion
<1> USE DEF Stop, B, F
<1>5. Unfolds(f)
  BY <1>4
<1>6. Normalized = CHOOSE h : Unfolds(h)
  BY DEF Normalized, S
<1> HIDE DEF Unfolds
<1>7. Unfolds(Normalized)
  BY <1>5, <1>6
<1> USE DEF Unfolds
<1>8. leap \in S
  BY DEF S
<1> QED BY <1>7, <1>8


\* Registers and the seconds that they have to go.
L(r, n) == [rtc |-> r, seconds |-> n]

\* Leaps of the loop, one by one.
LEMMA LoopUnfolds ==
  ASSUME NEW r \in Registers, NEW n \in Nat
  PROVE  /\ n = 0 \/ InCalendar(r) => Normalized[L(r, n)] = L(r, n)
         /\ ~InCalendar(r) => Normalized[L(r, n + 1)] = Normalized[L(TickSecond(r), n)]
<1>1. ASSUME n = 0 \/ InCalendar(r) PROVE Normalized[L(r, n)] = L(r, n)
  <2>1. L(r, n) \in Leaps /\ L(r, n).rtc = r /\ L(r, n).seconds = n
    BY DEF Leaps, L
  <2> QED BY <1>1, <2>1, NormalizedUnfolds
<1>2. ASSUME ~InCalendar(r) PROVE Normalized[L(r, n + 1)] = Normalized[L(TickSecond(r), n)]
  <2>1. L(r, n + 1) \in Leaps /\ L(r, n + 1).rtc = r /\ L(r, n + 1).seconds = n + 1
    BY DEF Leaps, L
  <2>2. n + 1 # 0 /\ (n + 1) - 1 = n
    OBVIOUS
  <2>3. Normalized[L(r, n + 1)] =
          Normalized[[rtc |-> TickSecond(L(r, n + 1).rtc), seconds |-> L(r, n + 1).seconds - 1]]
    <3> QED BY <1>2, <2>1, <2>2, NormalizedUnfolds
  <2> QED BY <2>1, <2>2, <2>3 DEF L
<1> QED BY <1>1, <1>2

\* A leap begins with one second.
LEMMA AdvanceFirst ==
  ASSUME NEW r \in Registers, ~r.halted, NEW n \in Nat
  PROVE  /\ AdvanceSeconds(r, 0) = r
         /\ AdvanceSeconds(r, n + 1) = AdvanceSeconds(OneSecond(r), n)
<1> DEFINE y == OneSecond(r)
           left == Normalized[L(r, n + 1)]
           rest == Normalized[L(y, n)]
<1>1. AdvanceSeconds(r, 0) = r
  BY DEF AdvanceSeconds
<1>2. y \in Registers /\ ~y.halted
  BY OneSecondIsSecond DEF Ticked
<1>3. AdvanceSeconds(r, n + 1) = IF left.seconds = 0 THEN left.rtc ELSE AddSeconds(left.rtc, left.seconds)
  BY DEF AdvanceSeconds, L
<1>4. /\ n = 0 => AdvanceSeconds(y, n) = y
      /\ n # 0 => AdvanceSeconds(y, n) = IF rest.seconds = 0 THEN rest.rtc ELSE AddSeconds(rest.rtc, rest.seconds)
  BY <1>2 DEF AdvanceSeconds, L
<1>5. ASSUME InCalendar(r) PROVE AdvanceSeconds(r, n + 1) = AdvanceSeconds(y, n)
  <2>1. left = L(r, n + 1)
    <3> DEFINE k == n + 1
    <3>1. k \in Nat
      OBVIOUS
    <3> HIDE DEF k
    <3>2. Normalized[L(r, k)] = L(r, k)
      BY <1>5, <3>1, LoopUnfolds
    <3> QED BY <3>2 DEF k
  <2>2. AdvanceSeconds(r, n + 1) = AddSeconds(r, n + 1)
    <3>1. left.seconds = n + 1 /\ left.rtc = r /\ n + 1 # 0
      BY <2>1 DEF L
    <3> HIDE DEF left
    <3> QED BY <1>3, <3>1
  <2>3. y = AddSeconds(r, 1)
    BY <1>5 DEF OneSecond
  <2>4. CASE n = 0
    <3>1. AdvanceSeconds(y, n) = y /\ n + 1 = 1
      BY <1>4, <2>4
    <3> HIDE DEF y
    <3> QED BY <2>2, <2>3, <3>1
  <2>5. CASE n # 0
    <3>1. InCalendar(y)
      BY <1>5, <2>3, AddInRange DEF AtFacts
    <3> HIDE DEF y
    <3>2. rest = L(y, n)
      BY <1>2, <3>1, LoopUnfolds
    <3>3. rest.seconds = n /\ rest.rtc = y
      BY <3>2 DEF L
    <3> HIDE DEF rest
    <3>4. AdvanceSeconds(y, n) = AddSeconds(y, n)
      BY <1>4, <2>5, <3>3
    <3>5. AddSeconds(AddSeconds(r, 1), n) = AddSeconds(r, 1 + n)
      BY <1>5, AddTwice
    <3>6. 1 + n = n + 1
      OBVIOUS
    <3> QED BY <2>2, <2>3, <3>4, <3>5, <3>6
  <2> QED BY <2>4, <2>5
<1>6. ASSUME ~InCalendar(r) PROVE AdvanceSeconds(r, n + 1) = AdvanceSeconds(y, n)
  <2>1. y = TickSecond(r)
    BY <1>6 DEF OneSecond
  <2>2. left = rest
    BY <1>6, <2>1, LoopUnfolds
  <2>3. CASE n = 0
    <3> HIDE DEF y
    <3>1. rest = L(y, n)
      BY <1>2, <2>3, LoopUnfolds
    <3>2. rest.seconds = 0 /\ rest.rtc = y
      BY <2>3, <3>1 DEF L
    <3> HIDE DEF left, rest
    <3> QED BY <1>3, <1>4, <2>2, <2>3, <3>2
  <2>4. CASE n # 0
    <3> HIDE DEF left, rest, y
    <3> QED BY <1>3, <1>4, <2>2, <2>4
  <2> QED BY <2>3, <2>4
<1> QED BY <1>1, <1>5, <1>6

\* What a leap of seconds keeps.
Advanced(x, r) ==
  x \in Registers /\ x.halted = r.halted /\ Phase(x) = Phase(r) /\ Kept(x, r)

\* A counter that is kept twice is kept.
LEMMA KeptTwice ==
  ASSUME NEW x, NEW y, NEW z, Kept(x, y), Kept(y, z)
  PROVE  Kept(x, z)
BY Zenon DEF Kept

\* What is kept by one second is kept by a leap.
LEMMA AdvanceInRange ==
  \A n \in Nat : \A r \in Registers : ~r.halted => Advanced(AdvanceSeconds(r, n), r)
<1> DEFINE Q(n) == \A r \in Registers : ~r.halted => Advanced(AdvanceSeconds(r, n), r)
           P == {n \in Nat : Q(n)}
<1>1. 0 \in P
  BY AdvanceFirst DEF Advanced, Kept
<1>2. ASSUME NEW n \in Nat, n \in P PROVE n + 1 \in P
  <2> SUFFICES ASSUME NEW r \in Registers, ~r.halted PROVE Advanced(AdvanceSeconds(r, n + 1), r)
    OBVIOUS
  <2> DEFINE y == OneSecond(r)
             x == AdvanceSeconds(r, n + 1)
  <2>1. y \in Registers /\ y.halted = r.halted /\ Phase(y) = Phase(r) /\ Kept(y, r)
    BY OneSecondIsSecond DEF Ticked
  <2>2. x = AdvanceSeconds(y, n)
    BY AdvanceFirst
  <2> HIDE DEF y
  <2>3. Advanced(AdvanceSeconds(y, n), y)
    BY <1>2, <2>1
  <2> HIDE DEF x
  <2>4. Advanced(x, y)
    BY <2>2, <2>3
  <2>5. Kept(x, r)
    BY <2>1, <2>4, KeptTwice DEF Advanced
  <2>6. Advanced(x, r)
    BY <2>1, <2>4, <2>5 DEF Advanced
  <2> QED BY <2>6 DEF x
<1> HIDE DEF P
<1>3. \A n \in Nat : n \in P
  BY <1>1, <1>2, Induction
<1> QED BY <1>3 DEF P

\* Two leaps of seconds are one.
LEMMA AdvanceTwice ==
  \A n \in Nat : \A r \in Registers : ~r.halted =>
     \A k \in Nat : AdvanceSeconds(r, n + k) = AdvanceSeconds(AdvanceSeconds(r, n), k)
<1> DEFINE Q(n) == \A r \in Registers : ~r.halted =>
                     \A k \in Nat : AdvanceSeconds(r, n + k) = AdvanceSeconds(AdvanceSeconds(r, n), k)
           P == {n \in Nat : Q(n)}
<1>1. 0 \in P
  <2>1. \A k \in Nat : 0 + k = k
    OBVIOUS
  <2>2. \A r \in Registers : ~r.halted => AdvanceSeconds(r, 0) = r
    BY AdvanceFirst
  <2>3. Q(0)
    BY <2>1, <2>2
  <2> QED BY <2>3
<1>2. ASSUME NEW n \in Nat, n \in P PROVE n + 1 \in P
  <2> SUFFICES ASSUME NEW r \in Registers, ~r.halted, NEW k \in Nat
               PROVE  AdvanceSeconds(r, (n + 1) + k) = AdvanceSeconds(AdvanceSeconds(r, n + 1), k)
    OBVIOUS
  <2> DEFINE y == OneSecond(r)
  <2>1. y \in Registers /\ ~y.halted
    BY OneSecondIsSecond DEF Ticked
  <2>2. \A j \in Nat : AdvanceSeconds(r, j + 1) = AdvanceSeconds(y, j)
    BY AdvanceFirst
  <2> HIDE DEF y
  <2>3. (n + 1) + k = (n + k) + 1 /\ n + k \in Nat
    OBVIOUS
  <2>4. AdvanceSeconds(r, (n + k) + 1) = AdvanceSeconds(y, n + k)
    BY <2>2, <2>3
  <2>5. AdvanceSeconds(y, n + k) = AdvanceSeconds(AdvanceSeconds(y, n), k)
    BY <1>2, <2>1
  <2> QED BY <2>2, <2>3, <2>4, <2>5
<1> HIDE DEF P
<1>3. \A n \in Nat : n \in P
  BY <1>1, <1>2, Induction
<1> QED BY <1>3 DEF P

\* The calendar leaps without regard to the phase.
LEMMA AdvanceAtPhase ==
  \A n \in Nat : \A r, w \in Registers : \A phase \in Nat :
     ~r.halted /\ ~w.halted /\ View(w) = AtPhase(View(r), phase) =>
       View(AdvanceSeconds(w, n)) = AtPhase(View(AdvanceSeconds(r, n)), phase)
<1> DEFINE Q(n) == \A r, w \in Registers : \A phase \in Nat :
                     ~r.halted /\ ~w.halted /\ View(w) = AtPhase(View(r), phase) =>
                       View(AdvanceSeconds(w, n)) = AtPhase(View(AdvanceSeconds(r, n)), phase)
           P == {n \in Nat : Q(n)}
<1>1. 0 \in P
  <2>1. \A r \in Registers : ~r.halted => AdvanceSeconds(r, 0) = r
    BY AdvanceFirst
  <2>2. Q(0)
    BY <2>1, Zenon
  <2> QED BY <2>2
<1>2. ASSUME NEW n \in Nat, n \in P PROVE n + 1 \in P
  <2> SUFFICES ASSUME NEW r \in Registers, NEW w \in Registers, NEW phase \in Nat,
                      ~r.halted, ~w.halted, View(w) = AtPhase(View(r), phase)
               PROVE  View(AdvanceSeconds(w, n + 1)) = AtPhase(View(AdvanceSeconds(r, n + 1)), phase)
    OBVIOUS
  <2> DEFINE y == OneSecond(r)
             z == OneSecond(w)
  <2>1. /\ y \in Registers /\ ~y.halted /\ View(y) = Chip!Second(View(r))
        /\ z \in Registers /\ ~z.halted /\ View(z) = Chip!Second(View(w))
    BY OneSecondIsSecond DEF Ticked
  <2>2. AdvanceSeconds(r, n + 1) = AdvanceSeconds(y, n) /\ AdvanceSeconds(w, n + 1) = AdvanceSeconds(z, n)
    BY AdvanceFirst
  <2> HIDE DEF y, z
  <2>3. View(r) \in Chip!Registers
    BY ViewInRange
  <2>4. View(z) = AtPhase(View(y), phase)
    BY <2>1, <2>3, SecondAtPhase
  <2>5. View(AdvanceSeconds(z, n)) = AtPhase(View(AdvanceSeconds(y, n)), phase)
    BY <1>2, <2>1, <2>4
  <2> QED BY <2>2, <2>5
<1> HIDE DEF P
<1>3. \A n \in Nat : n \in P
  BY <1>1, <1>2, Induction
<1> QED BY <1>3 DEF P

-----------------------------------------------------------------------------
(* The phase, which counts parts of a second, in leaps. *)

\* Only the last phase that is set counts.
LEMMA AtPhaseTwice ==
  ASSUME NEW v \in Chip!Registers, NEW phase \in Nat, NEW other
  PROVE  /\ AtPhase(v, phase) \in Chip!Registers
         /\ AtPhase(v, phase).phase = phase
         /\ AtPhase(v, phase).halted = v.halted
         /\ AtPhase(AtPhase(v, phase), other) = AtPhase(v, other)
<1> DEFINE w == [ phase |-> phase, seconds |-> v.seconds, minutes |-> v.minutes, hours |-> v.hours,
                  days |-> v.days, halted |-> v.halted, day_carry |-> v.day_carry ]
           x == [ phase |-> other, seconds |-> v.seconds, minutes |-> v.minutes, hours |-> v.hours,
                  days |-> v.days, halted |-> v.halted, day_carry |-> v.day_carry ]
<1>1. AtPhase(v, phase) = w /\ AtPhase(v, other) = x /\ w \in Chip!Registers
  BY ChipFields, AtPhaseFields DEF AtPhase
<1>2. w.phase = phase /\ w.halted = v.halted /\ [w EXCEPT !.phase = other] = x
  OBVIOUS
<1>3. AtPhase(w, other) = [w EXCEPT !.phase = other]
  BY Zenon DEF AtPhase
<1> HIDE DEF w, x
<1> QED BY <1>1, <1>2, <1>3

\* The registers once the phase that they had, or were given, is a total: the
\* whole seconds of it have been counted.
Reached(r, total) ==
  AtPhase(View(AdvanceSeconds(r, total \div (Millis * Ticks))), total % (Millis * Ticks))

\* The whole seconds in a phase are those of a leap.
LEMMA SettledAdvances ==
  \A n \in Nat : \A r \in Registers : ~r.halted =>
     \A p \in 0 .. Millis * Ticks - 1 :
       Chip!Settled[AtPhase(View(r), n * (Millis * Ticks) + p)] = AtPhase(View(AdvanceSeconds(r, n)), p)
<1> DEFINE second == Millis * Ticks
           Q(n) == \A r \in Registers : ~r.halted =>
                     \A p \in 0 .. second - 1 :
                       Chip!Settled[AtPhase(View(r), n * second + p)] = AtPhase(View(AdvanceSeconds(r, n)), p)
           P == {n \in Nat : Q(n)}
<1>1. second \in Nat \ {0}
  BY Positive
<1>2. \A v \in Chip!Registers :
        Chip!Settled[v] = IF v.phase < second THEN v
                          ELSE Chip!Settled[Chip!Second(AtPhase(v, v.phase - second))]
  BY SettledUnfolds
<1> HIDE DEF second
<1>3. 0 \in P
  <2> SUFFICES ASSUME NEW r \in Registers, ~r.halted, NEW p \in 0 .. second - 1
               PROVE  Chip!Settled[AtPhase(View(r), 0 * second + p)] = AtPhase(View(AdvanceSeconds(r, 0)), p)
    OBVIOUS
  <2> DEFINE v == View(r)
             u == AtPhase(v, p)
  <2>1. 0 * second + p = p /\ p \in Nat /\ p < second
    BY <1>1
  <2>2. AdvanceSeconds(r, 0) = r
    BY AdvanceFirst
  <2>3. v \in Chip!Registers
    BY ViewInRange
  <2> HIDE DEF v
  <2>4. u \in Chip!Registers /\ u.phase = p
    BY <2>1, <2>3, AtPhaseFields
  <2> HIDE DEF u
  <2>5. Chip!Settled[u] = u
    BY <1>2, <2>1, <2>4
  <2> QED BY <2>1, <2>2, <2>5 DEF u, v
<1>4. ASSUME NEW n \in Nat, n \in P PROVE n + 1 \in P
  <2> SUFFICES ASSUME NEW r \in Registers, ~r.halted, NEW p \in 0 .. second - 1
               PROVE  Chip!Settled[AtPhase(View(r), (n + 1) * second + p)] =
                        AtPhase(View(AdvanceSeconds(r, n + 1)), p)
    OBVIOUS
  <2> DEFINE v == View(r)
             y == OneSecond(r)
             later == (n + 1) * second + p
             phase == n * second + p
             u == AtPhase(v, later)
  <2>1. phase \in Nat /\ later = phase + second
    <3>1. n * second \in Nat /\ (n + 1) * second = n * second + second
      BY <1>1, Products
    <3> QED BY <1>1, <3>1
  <2>2. v \in Chip!Registers
    BY ViewInRange
  <2>3. y \in Registers /\ ~y.halted /\ View(y) = Chip!Second(v)
    BY OneSecondIsSecond DEF Ticked
  <2>4. AdvanceSeconds(r, n + 1) = AdvanceSeconds(y, n)
    BY AdvanceFirst
  <2> HIDE DEF v, y, later
  <2>5. Chip!Settled[AtPhase(View(y), phase)] = AtPhase(View(AdvanceSeconds(y, n)), p)
    BY <1>4, <2>3
  <2> HIDE DEF phase
  <2>6. later \in Nat /\ ~(later < second) /\ later - second = phase
    BY <1>1, <2>1
  <2>7. u \in Chip!Registers /\ u.phase = later /\ AtPhase(u, phase) = AtPhase(v, phase)
    BY <2>1, <2>2, <2>6, AtPhaseTwice
  <2> HIDE DEF u
  <2>8. Chip!Settled[u] = Chip!Settled[Chip!Second(AtPhase(v, phase))]
    BY <1>2, <2>6, <2>7
  <2>9. Chip!Second(AtPhase(v, phase)) = AtPhase(View(y), phase)
    BY <2>1, <2>2, <2>3, SecondAtPhase
  <2> QED BY <2>4, <2>5, <2>8, <2>9 DEF u, v, later
<1> HIDE DEF P
<1>5. \A n \in Nat : n \in P
  BY <1>3, <1>4, Induction
<1> QED BY <1>5 DEF P, second

\* A chip that was given a phase settles to the registers that have reached it.
LEMMA SettledReaches ==
  ASSUME NEW r \in Registers, ~r.halted, NEW t \in Nat
  PROVE  Chip!Settled[AtPhase(View(r), t)] = Reached(r, t)
<1> DEFINE second == Millis * Ticks
           n == t \div second
           p == t % second
<1>1. n \in Nat /\ p \in 0 .. second - 1 /\ t = n * second + p
  <2>1. second \in Nat \ {0}
    BY Positive
  <2> HIDE DEF second
  <2> QED BY <2>1, Division
<1> HIDE DEF n, p
<1>2. Chip!Settled[AtPhase(View(r), n * second + p)] = AtPhase(View(AdvanceSeconds(r, n)), p)
  BY <1>1, SettledAdvances
<1> QED BY <1>1, <1>2 DEF Reached, n, p

\* To go on from whole seconds is to go on from the start.
LEMMA ReachedSum ==
  ASSUME NEW r \in Registers, ~r.halted, NEW k \in Nat, NEW t \in Nat
  PROVE  Reached(AdvanceSeconds(r, k), t) = Reached(r, k * (Millis * Ticks) + t)
<1> DEFINE second == Millis * Ticks
           n == t \div second
           p == t % second
           total == k * second + t
<1>1. second \in Nat \ {0}
  BY Positive
<1> HIDE DEF second
<1>2. n \in Nat
  BY <1>1, Division
<1>3. total \div second = k + n /\ total % second = p
  BY <1>1, DivisionShift
<1>4. AdvanceSeconds(r, k + n) = AdvanceSeconds(AdvanceSeconds(r, k), n)
  BY <1>2, AdvanceTwice
<1> HIDE DEF n, p, total
<1>5. Reached(r, total) = AtPhase(View(AdvanceSeconds(r, total \div second)), total % second)
  BY DEF Reached, second
<1>6. Reached(AdvanceSeconds(r, k), t) = AtPhase(View(AdvanceSeconds(AdvanceSeconds(r, k), n)), p)
  BY DEF Reached, second, n, p
<1>7. Reached(r, total) = Reached(AdvanceSeconds(r, k), t)
  BY <1>3, <1>4, <1>5, <1>6
<1> QED BY <1>7 DEF total, second

\* One millisecond adds its ticks to the total.
LEMMA MillisecondReaches ==
  ASSUME NEW r \in Registers, ~r.halted
  PROVE  /\ Chip!Millisecond(View(r)) = Reached(r, Phase(r) + Ticks)
         /\ \A total \in Nat : Chip!Millisecond(Reached(r, total)) = Reached(r, total + Ticks)
<1>1. Ticks \in Nat /\ Phase(r) \in Nat /\ View(r) \in Chip!Registers
  BY Positive, ViewInRange
<1>2. Chip!Millisecond(View(r)) = Reached(r, Phase(r) + Ticks)
  <2> DEFINE v == View(r)
             t == Phase(r) + Ticks
  <2>1. ~v.halted /\ v.phase + Ticks = t
    BY ViewFields
  <2> HIDE DEF v
  <2>2. Chip!Millisecond(v) = Chip!Settled[AtPhase(v, t)]
    BY <1>1, <2>1, MillisecondInRange DEF v
  <2>3. t \in Nat
    BY <1>1
  <2> HIDE DEF t
  <2>4. Chip!Settled[AtPhase(v, t)] = Reached(r, t)
    BY <2>3, SettledReaches DEF v
  <2> QED BY <2>2, <2>4 DEF v, t
<1>3. ASSUME NEW total \in Nat PROVE Chip!Millisecond(Reached(r, total)) = Reached(r, total + Ticks)
  <2> DEFINE second == Millis * Ticks
             k == total \div second
             p == total % second
             z == AdvanceSeconds(r, k)
             v == View(z)
             u == AtPhase(v, p)
             t == p + Ticks
  <2>1. k \in Nat /\ p \in Nat /\ total = k * second + p
    <3>1. second \in Nat \ {0}
      BY Positive
    <3> HIDE DEF second
    <3> QED BY <3>1, Division
  <2>2. Reached(r, total) = u
    BY DEF Reached
  <2> HIDE DEF k, p
  <2>3. z \in Registers /\ z.halted = r.halted
    BY <2>1, AdvanceInRange DEF Advanced
  <2>4. Reached(z, t) = Reached(r, k * second + t)
    BY <1>1, <2>1, ReachedSum
  <2> HIDE DEF z
  <2>5. v \in Chip!Registers /\ ~v.halted
    BY <2>3, ViewInRange, ViewFields
  <2>6. Chip!Settled[AtPhase(v, t)] = Reached(z, t)
    BY <1>1, <2>1, <2>3, SettledReaches
  <2> HIDE DEF v
  <2>7. u \in Chip!Registers /\ u.phase = p /\ ~u.halted /\ AtPhase(u, t) = AtPhase(v, t)
    BY <2>1, <2>5, AtPhaseTwice
  <2> HIDE DEF u
  <2>8. Chip!Millisecond(u) = Chip!Settled[AtPhase(v, t)]
    BY <2>7, MillisecondInRange
  <2>9. k * second + t = total + Ticks
    <3>1. k * second \in Nat
      <4>1. second \in Nat
        BY Positive
      <4> HIDE DEF second
      <4> QED BY <2>1, <4>1, Products
    <3> DEFINE x == k * second
    <3>2. x \in Nat /\ total = x + p /\ k * second = x
      BY <2>1, <3>1
    <3> HIDE DEF x, second
    <3> QED BY <1>1, <2>1, <3>2
  <2> QED BY <2>2, <2>4, <2>6, <2>8, <2>9
<1> QED BY <1>2, <1>3

\* The thousandths, ticks and seconds after f milliseconds of T ticks each.
CarriesOver(st, tt, f, M, T) ==
  LET th == tt + f * T
      ticks == st + (th \div M)
      phase == (ticks % T) * M + (th % M)
  IN /\ th % M \in 0 .. M - 1 /\ ticks % T \in 0 .. T - 1
     /\ phase \in 0 .. (M * T) - 1
     /\ ticks \div T \in Nat
     /\ (st * M + tt) + f * T = (ticks \div T) * (M * T) + phase

\* The carries of the subsecond counters lose nothing, wherever they start.
LEMMA PhaseArithmetic ==
  ASSUME NEW M \in Nat \ {0}, NEW T \in Nat \ {0}, NEW st \in Nat, NEW tt \in Nat, NEW f \in Nat
  PROVE  CarriesOver(st, tt, f, M, T)
<1> DEFINE th == tt + f * T
           a == th \div M
           b == th % M
           ticks == st + a
           c == ticks \div T
           e == ticks % T
           phase == e * M + b
<1>1. th \in Nat
  BY Products
<1> DEFINE fT == f * T
<1>2. a \in Nat /\ b \in 0 .. M - 1 /\ th = a * M + b
  <2> HIDE DEF th
  <2> QED BY <1>1, Division
<1>3. th = tt + fT /\ fT \in Nat
  BY Products
<1> HIDE DEF th, a, b, fT
<1>4. ticks \in Nat
  BY <1>2
<1>5. c \in Nat /\ e \in 0 .. T - 1 /\ ticks = c * T + e
  <2> HIDE DEF ticks
  <2> QED BY <1>4, Division
<1> HIDE DEF c, e
<1>6. (st * M + tt) + fT = c * (M * T) + phase
  <2>1. (st + a) * M = st * M + a * M
    BY <1>2
  <2>2. (c * T + e) * M = c * (M * T) + e * M
    BY <1>5
  <2>3. st * M + a * M = c * (M * T) + e * M
    BY <1>5, <2>1, <2>2
  <2>4. st * M \in Nat /\ a * M \in Nat /\ e * M \in Nat /\ c * (M * T) \in Nat
    BY <1>2, <1>5, Products
  <2> DEFINE x1 == st * M
             x2 == a * M
             x3 == e * M
             x4 == c * (M * T)
  <2>5. x1 \in Nat /\ x2 \in Nat /\ x3 \in Nat /\ x4 \in Nat /\ x1 + x2 = x4 + x3
    BY <2>3, <2>4
  <2>6. tt + fT = x2 + b
    BY <1>2, <1>3
  <2>7. (x1 + tt) + fT = x4 + (x3 + b)
    <3> HIDE DEF x1, x2, x3, x4
    <3> QED BY <1>2, <1>3, <2>5, <2>6
  <2> QED BY <2>7
<1>7. phase \in 0 .. (M * T) - 1
  <2>1. (e + 1) * M <= T * M /\ (e + 1) * M = e * M + M /\ e * M \in Nat
    BY <1>5, ProductsGrow, Products
  <2> QED BY <1>2, <1>5, <2>1
<1> HIDE DEF phase
<1>8. b \in 0 .. M - 1 /\ e \in 0 .. T - 1
  BY <1>2, <1>5
<1> QED BY <1>1, <1>4, <1>5, <1>6, <1>7, <1>8 DEF th, a, b, c, e, fT, phase, CarriesOver

\* What a leap of milliseconds makes of the registers.
LeapForm(x, r, ms) ==
  /\ x \in Registers /\ x.halted = r.halted /\ Kept(x, r)
  /\ View(x) = Reached(r, Phase(r) + ms * Ticks)

\* The registers with other subsecond counters, one by one.
LEMMA Rephased ==
  ASSUME NEW r \in Registers, NEW b \in 0 .. Millis - 1, NEW e \in 0 .. Ticks - 1
  PROVE  LET w == [r EXCEPT !.subsecond_tick_thousandths = b, !.subsecond_ticks = e] IN
         /\ w \in Registers /\ w.halted = r.halted /\ Kept(w, r)
         /\ View(w) = AtPhase(View(r), e * Millis + b)
<1> DEFINE w == [r EXCEPT !.subsecond_tick_thousandths = b, !.subsecond_ticks = e]
           phase == e * Millis + b
<1>1. w = [ subsecond_ticks |-> e, subsecond_tick_thousandths |-> b,
            seconds |-> r.seconds, minutes |-> r.minutes, hours |-> r.hours,
            days |-> r.days, halted |-> r.halted, day_carry |-> r.day_carry ]
  <2> DEFINE y == [r EXCEPT !.subsecond_tick_thousandths = b]
             z == [y EXCEPT !.subsecond_ticks = e]
  <2>1. w = z
    OBVIOUS
  <2>2. y = [ subsecond_ticks |-> r.subsecond_ticks, subsecond_tick_thousandths |-> b,
              seconds |-> r.seconds, minutes |-> r.minutes, hours |-> r.hours,
              days |-> r.days, halted |-> r.halted, day_carry |-> r.day_carry ]
    BY RegisterFields
  <2> HIDE DEF y
  <2>3. z = [ subsecond_ticks |-> e, subsecond_tick_thousandths |-> b,
              seconds |-> r.seconds, minutes |-> r.minutes, hours |-> r.hours,
              days |-> r.days, halted |-> r.halted, day_carry |-> r.day_carry ]
    BY <2>2
  <2> HIDE DEF z, w
  <2> QED BY <2>1, <2>3
<1>2. b \in 0 .. Word - 1 /\ e \in 0 .. Word - 1
  BY Positive
<1> HIDE DEF w
<1>3. w \in Registers
  BY <1>1, <1>2, RegisterFields DEF Registers
<1>4. View(w) = [ phase |-> phase, seconds |-> r.seconds, minutes |-> r.minutes,
                  hours |-> r.hours, days |-> r.days, halted |-> r.halted,
                  day_carry |-> r.day_carry ]
  BY <1>1 DEF View
<1>5. phase \in Nat
  <2>1. e \in Nat /\ b \in Nat /\ Millis \in Nat
    BY Positive
  <2> QED BY <2>1, Products
<1> HIDE DEF phase
<1>6. View(r) \in Chip!Registers
  BY ViewInRange
<1>7. AtPhase(View(r), phase) =
        [ phase |-> phase, seconds |-> View(r).seconds, minutes |-> View(r).minutes,
          hours |-> View(r).hours, days |-> View(r).days, halted |-> View(r).halted,
          day_carry |-> View(r).day_carry ]
  BY <1>5, <1>6, AtPhaseFields
<1>8. View(w) = AtPhase(View(r), phase)
  BY <1>4, <1>7, ViewFields
<1>9. Kept(w, r)
  BY <1>1 DEF Kept
<1>10. w.halted = r.halted
  BY <1>1
<1> QED BY <1>3, <1>8, <1>9, <1>10 DEF w, phase

\* advance_rtc_milliseconds, for a clock that runs.
LEMMA LeapReaches ==
  ASSUME NEW r \in Registers, ~r.halted, NEW ms \in Nat
  PROVE  LeapForm(AdvanceRegisters(r, ms), r, ms)
<1> DEFINE q == ms \div Millis
           f == ms % Millis
           whole == AdvanceSeconds(r, q)
           th == r.subsecond_tick_thousandths + f * Ticks
           ticks == r.subsecond_ticks + (th \div Millis)
           b == th % Millis
           e == ticks % Ticks
           c == ticks \div Ticks
           w == [whole EXCEPT !.subsecond_tick_thousandths = b, !.subsecond_ticks = e]
           x == AdvanceSeconds(w, c)
           y == AdvanceSeconds(whole, c)
           phase == e * Millis + b
           second == Millis * Ticks
           total == Phase(r) + ms * Ticks
<1>1. AdvanceRegisters(r, ms) = x
  BY DEF AdvanceRegisters
<1>2. /\ Millis \in Nat \ {0} /\ Ticks \in Nat \ {0} /\ second \in Nat \ {0}
      /\ r.subsecond_ticks \in Nat /\ r.subsecond_tick_thousandths \in Nat /\ Phase(r) \in Nat
  BY Positive, RegisterNumbers, ViewInRange
<1>3. q \in Nat /\ f \in Nat /\ ms = q * Millis + f
  <2>1. Millis \in Nat \ {0}
    BY <1>2
  <2>2. ms \div Millis \in Nat /\ ms % Millis \in 0 .. Millis - 1
        /\ ms = (ms \div Millis) * Millis + (ms % Millis)
    BY <2>1, Division
  <2>3. f \in Nat
    <3> HIDE DEF q
    <3> QED BY <2>1, <2>2
  <2> QED BY <2>2, <2>3
<1> HIDE DEF q, f
<1>4. /\ b \in 0 .. Millis - 1 /\ e \in 0 .. Ticks - 1
      /\ phase \in 0 .. second - 1
      /\ c \in Nat
      /\ Phase(r) + f * Ticks = c * second + phase
  <2>1. CarriesOver(r.subsecond_ticks, r.subsecond_tick_thousandths, f, Millis, Ticks)
    BY <1>2, <1>3, PhaseArithmetic
  <2> QED BY <2>1, Zenon DEF CarriesOver, Phase
<1> HIDE DEF th, ticks, b, e, c
<1>5. whole \in Registers /\ whole.halted = r.halted /\ Kept(whole, r)
  BY <1>3, AdvanceInRange DEF Advanced
<1>6. y = AdvanceSeconds(r, q + c)
  BY <1>3, <1>4, AdvanceTwice
<1> HIDE DEF whole
<1>7. w \in Registers /\ w.halted = whole.halted /\ Kept(w, whole) /\ View(w) = AtPhase(View(whole), phase)
  BY <1>4, <1>5, Rephased
<1> HIDE DEF w
<1>8. x \in Registers /\ x.halted = w.halted /\ Kept(x, w)
  BY <1>4, <1>5, <1>7, AdvanceInRange DEF Advanced
<1>9. View(x) = AtPhase(View(y), phase)
  <2>1. phase \in Nat
    BY <1>2, <1>4
  <2> HIDE DEF phase
  <2> QED BY <1>4, <1>5, <1>7, <2>1, AdvanceAtPhase
<1> HIDE DEF x, y, phase
<1>10. total \div second = q + c /\ total % second = phase
  <2> DEFINE n == q + c
             fT == f * Ticks
             qs == q * second
             cs == c * second
             pr == Phase(r)
  <2>1. n \in Nat /\ fT \in Nat /\ qs \in Nat /\ cs \in Nat /\ pr \in Nat /\ phase \in Nat
    <3> HIDE DEF second
    <3> QED BY <1>2, <1>3, <1>4, Products
  <2>2. ms * Ticks = qs + fT
    BY <1>2, <1>3
  <2>3. n * second = qs + cs
    <3> HIDE DEF second
    <3> QED BY <1>2, <1>3, <1>4
  <2>4. pr + fT = cs + phase /\ total = pr + ms * Ticks
    BY <1>4
  <2>5. total = n * second + phase
    <3> DEFINE mT == ms * Ticks
               ns == n * second
    <3>1. mT = qs + fT /\ ns = qs + cs /\ pr + fT = cs + phase /\ total = pr + mT
      BY <2>2, <2>3, <2>4
    <3>2. total = ns + phase
      <4> HIDE DEF mT, ns, pr, cs, fT, qs, total
      <4> QED BY <2>1, <3>1
    <3> QED BY <3>2
  <2> HIDE DEF n, total, second
  <2>6. total \div second = n /\ total % second = phase
    BY <1>2, <1>4, <2>1, <2>5, DivisionIsUnique
  <2> QED BY <2>6 DEF n
<1> HIDE DEF second, total
<1>11. Reached(r, total) = AtPhase(View(AdvanceSeconds(r, total \div second)), total % second)
  BY DEF Reached, second
<1>12. View(x) = Reached(r, total)
  BY <1>6, <1>9, <1>10, <1>11
<1>13. Kept(x, r)
  BY <1>5, <1>7, <1>8, KeptTwice
<1> QED BY <1>1, <1>5, <1>7, <1>8, <1>12, <1>13 DEF LeapForm, total

\* A leap of some milliseconds counts them one by one.
LEMMA LeapIsTicks ==
  ASSUME NEW r \in Registers, ~r.halted, NEW ms \in Nat, ms # 0
  PROVE  LET x == AdvanceRegisters(r, ms) IN
         x \in Registers /\ x.halted = r.halted /\ View(x) = Chip!After(View(r), ms) /\ Kept(x, r)
<1> DEFINE v == View(r)
           total(n) == Phase(r) + (n + 1) * Ticks
           P == {n \in Nat : Chip!After(v, n + 1) = Reached(r, total(n))}
<1>1. v \in Chip!Registers /\ Phase(r) \in Nat /\ Ticks \in Nat
  BY ViewInRange, Positive
<1>2. \A n \in Nat : total(n) \in Nat /\ total(n + 1) = total(n) + Ticks
  <2> SUFFICES ASSUME NEW n \in Nat PROVE total(n) \in Nat /\ total(n + 1) = total(n) + Ticks
    OBVIOUS
  <2>1. (n + 1) * Ticks \in Nat /\ ((n + 1) + 1) * Ticks = (n + 1) * Ticks + Ticks
    BY <1>1, Products
  <2> QED BY <1>1, <2>1
<1>3. total(0) = Phase(r) + Ticks
  BY <1>1
<1>4. Chip!Millisecond(v) = Reached(r, Phase(r) + Ticks)
  BY MillisecondReaches
<1> HIDE DEF v, total
<1>5. 0 \in P
  <2>1. Chip!After(v, 0 + 1) = Chip!Millisecond(Chip!After(v, 0)) /\ Chip!After(v, 0) = v
    BY <1>1, AfterNext, AfterUnfolds
  <2> QED BY <1>3, <1>4, <2>1
<1>6. ASSUME NEW n \in Nat, n \in P PROVE n + 1 \in P
  <2>1. Chip!After(v, (n + 1) + 1) = Chip!Millisecond(Chip!After(v, n + 1))
    BY <1>1, AfterNext
  <2>2. Chip!Millisecond(Reached(r, total(n))) = Reached(r, total(n) + Ticks)
    BY <1>2, MillisecondReaches
  <2> QED BY <1>2, <1>6, <2>1, <2>2
<1> HIDE DEF P
<1>7. \A n \in Nat : n \in P
  BY <1>5, <1>6, Induction
<1>8. Chip!After(v, ms) = Reached(r, Phase(r) + ms * Ticks)
  <2> DEFINE n == ms - 1
  <2>1. n \in Nat /\ n + 1 = ms
    OBVIOUS
  <2> HIDE DEF n
  <2>2. Chip!After(v, n + 1) = Reached(r, total(n))
    BY <1>7, <2>1 DEF P
  <2> QED BY <2>1, <2>2 DEF total
<1>9. LeapForm(AdvanceRegisters(r, ms), r, ms)
  BY LeapReaches
<1> QED BY <1>8, <1>9 DEF LeapForm, v

-----------------------------------------------------------------------------
(* The anchor, the save and the dirty flag. *)

\* A cartridge record, with any registers.
CartOK(c) ==
  /\ c = [ rtc |-> c.rtc, latched |-> c.latched, latch_armed |-> c.latch_armed,
           anchor |-> c.anchor, anchored |-> c.anchored, dirty |-> c.dirty ]
  /\ c.anchor \in Nat

PageOK(p) ==
  /\ p = [clock |-> p.clock, minimum_rtc_utc |-> p.minimum_rtc_utc]
  /\ p.clock \in Nat /\ p.minimum_rtc_utc \in Nat

SaveOK(s) ==
  s = [exists |-> s.exists, registers |-> s.registers, saved_at |-> s.saved_at] /\ s.saved_at \in Nat

Inv ==
  /\ CartOK(cart) /\ PageOK(page) /\ SaveOK(saved)
  /\ NothingIsFromTheFuture
  /\ CleanMeansSaved
  /\ ~saved.exists => saved.registers = FreshRtc

-----------------------------------------------------------------------------
\* The record updates of Advance and LoadRegisters, one field at a time.
LEMMA DirtyUpdate ==
  ASSUME NEW c, CartOK(c), NEW b, NEW d, d = [c EXCEPT !.dirty = b]
  PROVE  /\ CartOK(d) /\ d.dirty = b
         /\ d.rtc = c.rtc /\ d.anchor = c.anchor /\ d.anchored = c.anchored
BY DEF CartOK

\* To anchor a cartridge changes nothing else.
LEMMA AnchoredUpdate ==
  ASSUME NEW c, CartOK(c), NEW b, NEW d, d = [c EXCEPT !.anchored = b]
  PROVE  CartOK(d) /\ d.rtc = c.rtc /\ d.anchor = c.anchor
BY DEF CartOK

\* New registers come with the dirty flag.
LEMMA LeapUpdate ==
  ASSUME NEW c, CartOK(c), NEW r
  PROVE  LET d == [c EXCEPT !.rtc = r, !.dirty = TRUE] IN
         CartOK(d) /\ d.rtc = r /\ d.anchor = c.anchor /\ d.anchored = c.anchored /\ d.dirty
<1> DEFINE x == [c EXCEPT !.rtc = r]
           y == [x EXCEPT !.dirty = TRUE]
<1>1. CartOK(x) /\ x.rtc = r /\ x.anchor = c.anchor /\ x.anchored = c.anchored
  BY DEF CartOK
<1>2. [c EXCEPT !.rtc = r, !.dirty = TRUE] = y
  OBVIOUS
<1> HIDE DEF x
<1>3. /\ CartOK(y) /\ y.dirty = TRUE
      /\ y.rtc = x.rtc /\ y.anchor = x.anchor /\ y.anchored = x.anchored
  BY <1>1, DirtyUpdate
<1> HIDE DEF y
<1> QED BY <1>1, <1>2, <1>3

\* A loaded cartridge holds the loaded registers and is not anchored.
LEMMA LoadUpdate ==
  ASSUME NEW c, CartOK(c), NEW registers
  PROVE  LET d == LoadRegisters(c, registers) IN
         CartOK(d) /\ d.rtc = registers /\ d.anchor = 0
<1> DEFINE w == [c EXCEPT !.rtc = registers]
           x == [w EXCEPT !.dirty = FALSE]
           y == [x EXCEPT !.anchor = 0]
           z == [y EXCEPT !.anchored = FALSE]
<1>1. CartOK(w) /\ w.rtc = registers
  BY DEF CartOK
<1>2. LoadRegisters(c, registers) = z
  BY DEF LoadRegisters
<1> HIDE DEF w
<1>3. CartOK(x) /\ x.rtc = registers
  BY <1>1, DirtyUpdate, SMTT(30)
<1> HIDE DEF x
<1>4. CartOK(y) /\ y.rtc = registers /\ y.anchor = 0
  BY <1>3 DEF CartOK
<1> HIDE DEF y
<1>5. CartOK(z) /\ z.rtc = registers /\ z.anchor = 0
  BY <1>4, AnchoredUpdate
<1> HIDE DEF z
<1> QED BY <1>2, <1>5

\* Registers leap only together with the dirty flag.
LEMMA AdvanceFacts ==
  ASSUME NEW c, CartOK(c), NEW milliseconds
  PROVE  LET d == Advance(c, milliseconds) IN
         /\ CartOK(d) /\ d.anchor = c.anchor /\ d.anchored = c.anchored
         /\ ~d.dirty => ~c.dirty /\ d.rtc = c.rtc
<1> DEFINE d == [c EXCEPT !.rtc = AdvanceRegisters(c.rtc, milliseconds), !.dirty = TRUE]
<1>1. Advance(c, milliseconds) = c \/ Advance(c, milliseconds) = d
  BY DEF Advance
<1>2. CartOK(d) /\ d.anchor = c.anchor /\ d.anchored = c.anchored /\ d.dirty
  BY LeapUpdate
<1> HIDE DEF d
<1> QED BY <1>1, <1>2

\* A look at the clock moves the anchor to now, at most.
LEMMA SyncFacts ==
  ASSUME NEW c, CartOK(c), NEW now \in Nat
  PROVE  LET d == Sync(c, now) IN
         /\ CartOK(d) /\ (d.anchor = c.anchor \/ d.anchor = now)
         /\ ~d.dirty => ~c.dirty /\ d.rtc = c.rtc
<1> DEFINE a == Advance(c, now - c.anchor)
<1>1. /\ CartOK(a) /\ a.anchor = c.anchor
      /\ ~a.dirty => ~c.dirty /\ a.rtc = c.rtc
  BY AdvanceFacts
<1>2. \/ Sync(c, now) = [c EXCEPT !.anchor = now, !.anchored = TRUE]
      \/ Sync(c, now) = c
      \/ Sync(c, now) = [a EXCEPT !.anchor = now]
  BY DEF Sync
<1> HIDE DEF a
<1>3. CASE Sync(c, now) = [c EXCEPT !.anchor = now, !.anchored = TRUE]
  BY <1>3 DEF CartOK
<1>4. CASE Sync(c, now) = c
  BY <1>4
<1>5. CASE Sync(c, now) = [a EXCEPT !.anchor = now]
  BY <1>1, <1>5 DEF CartOK
<1> QED BY <1>2, <1>3, <1>4, <1>5

\* The time of the page is one of two and not behind either.
LEMMA UtcFacts ==
  ASSUME NEW p, PageOK(p)
  PROVE  Utc(p) \in Nat /\ p.clock <= Utc(p) /\ p.minimum_rtc_utc <= Utc(p)
BY DEF Utc, PageOK

\* A restored save, caught up to the time of the page.
LEMMA RestoreFacts ==
  ASSUME NEW c, CartOK(c), NEW p, PageOK(p), NEW save, SaveOK(save)
  PROVE  LET restored == Restore(c, p, save) IN
         /\ CartOK(restored.cart) /\ PageOK(restored.page)
         /\ restored.cart.anchor <= Utc(restored.page)
         /\ save.saved_at <= Utc(restored.page)
         /\ ~restored.cart.dirty => restored.cart.rtc = save.registers
<1> DEFINE reached == IF Utc(p) >= save.saved_at THEN Utc(p) ELSE save.saved_at
           loaded == LoadRegisters(c, save.registers)
           advanced == Advance(loaded, reached - save.saved_at)
           synced == Sync(advanced, reached)
           q == [p EXCEPT !.minimum_rtc_utc = reached]
<1>1. reached \in Nat /\ save.saved_at <= reached
  BY UtcFacts DEF SaveOK
<1>2. Restore(c, p, save) = [cart |-> synced, page |-> q]
  BY DEF Restore
<1> HIDE DEF reached
<1>3. PageOK(q) /\ q.minimum_rtc_utc = reached
  BY <1>1 DEF PageOK
<1>4. PageOK(q) => reached <= Utc(q)
  BY <1>3, UtcFacts
<1>5. CartOK(loaded) /\ loaded.anchor = 0 /\ loaded.rtc = save.registers
  BY LoadUpdate DEF SaveOK
<1> HIDE DEF loaded, q
<1>6. /\ CartOK(advanced) /\ advanced.anchor = 0
      /\ ~advanced.dirty => advanced.rtc = save.registers
  BY <1>5, AdvanceFacts
<1> HIDE DEF advanced
<1>7. /\ CartOK(synced) /\ (synced.anchor = 0 \/ synced.anchor = reached)
      /\ ~synced.dirty => synced.rtc = save.registers
  BY <1>1, <1>6, SyncFacts
<1> HIDE DEF synced
<1>8. Utc(q) \in Nat
  BY <1>3, UtcFacts
<1>9. synced.anchor <= Utc(q) /\ save.saved_at <= Utc(q)
  BY <1>1, <1>3, <1>4, <1>7, <1>8 DEF SaveOK
<1> QED BY <1>2, <1>3, <1>7, <1>9

\* An inserted cartridge holds its save, or zeros if there is none.
LEMMA InstallFacts ==
  ASSUME SaveOK(saved), ~saved.exists => saved.registers = FreshRtc, NEW p, PageOK(p)
  PROVE  LET installed == Install(p) IN
         /\ CartOK(installed.cart) /\ PageOK(installed.page)
         /\ installed.cart.anchor <= Utc(installed.page)
         /\ saved.exists => saved.saved_at <= Utc(installed.page)
         /\ ~installed.cart.dirty => installed.cart.rtc = saved.registers
<1>1. CartOK(FreshCart) /\ FreshCart.anchor = 0 /\ FreshCart.rtc = FreshRtc
  BY DEF CartOK, FreshCart
<1>2. CASE saved.exists
  BY <1>1, <1>2, RestoreFacts DEF Install
<1>3. CASE ~saved.exists
  <2>1. Install(p) = [cart |-> FreshCart, page |-> p]
    BY <1>3 DEF Install
  <2>2. 0 <= Utc(p)
    BY UtcFacts
  <2> QED BY <1>1, <1>3, <2>1, <2>2
<1> QED BY <1>2, <1>3

-----------------------------------------------------------------------------
\* A file is a save that exists.
LEMMA FilesAreSaves ==
  ASSUME NEW file \in Files
  PROVE  SaveOK(file) /\ file.exists = TRUE /\ file.registers \in Registers /\ file.saved_at \in Nat
<1>1. file \in [exists : {TRUE}, registers : Registers, saved_at : Nat]
  BY InputAssumption
<1> HIDE DEF Registers
<1>2. file = [exists |-> file.exists, registers |-> file.registers, saved_at |-> file.saved_at]
  BY <1>1
<1>3. file.exists = TRUE /\ file.registers \in Registers /\ file.saved_at \in Nat
  BY <1>1
<1> QED BY <1>2, <1>3 DEF SaveOK

\* The invariant holds at the start.
LEMMA InitInv == Init => Inv
<1> SUFFICES ASSUME Init PROVE Inv
  OBVIOUS
<1> DEFINE p == [clock |-> 0, minimum_rtc_utc |-> 0]
           installed == Install(p)
<1>1. SaveOK(saved) /\ (~saved.exists => saved.registers = FreshRtc)
  <2>1. CASE saved = NoSave
    <3> DEFINE none == [exists |-> FALSE, registers |-> FreshRtc, saved_at |-> 0]
    <3>1. SaveOK(none)
      BY DEF SaveOK
    <3>2. none.registers = FreshRtc
      OBVIOUS
    <3>3. saved = none
      BY <2>1 DEF NoSave
    <3> HIDE DEF none
    <3> QED BY <3>1, <3>2, <3>3
  <2>2. CASE saved \in Files
    BY <2>2, FilesAreSaves
  <2> QED BY <2>1, <2>2 DEF Init
<1>2. PageOK(p)
  BY DEF PageOK
<1>3. cart = installed.cart /\ page = installed.page
  BY DEF Init
<1> HIDE DEF p
<1>4. /\ CartOK(installed.cart) /\ PageOK(installed.page)
      /\ installed.cart.anchor <= Utc(installed.page)
      /\ saved.exists => saved.saved_at <= Utc(installed.page)
      /\ ~installed.cart.dirty => installed.cart.rtc = saved.registers
  BY <1>1, <1>2, InstallFacts
<1> HIDE DEF installed
<1> QED BY <1>1, <1>3, <1>4 DEF Inv, NothingIsFromTheFuture, CleanMeansSaved, Now

\* A step that only moves the cartridge, and moves it soundly, keeps the invariant.
LEMMA CartStep ==
  ASSUME Inv, UNCHANGED <<page, saved>>, CartOK(cart'), cart'.anchor <= Now,
         ~cart'.dirty => ~cart.dirty /\ cart'.rtc = cart.rtc
  PROVE  Inv'
<1>1. CartOK(cart') /\ CartOK(cart)' /\ PageOK(page)' /\ SaveOK(saved)'
  BY DEF Inv, CartOK, PageOK, SaveOK
<1>2. Now' = Now
  BY DEF Now, Utc
<1> QED BY <1>1, <1>2 DEF Inv, NothingIsFromTheFuture, CleanMeansSaved

\* Every step keeps the invariant.
LEMMA StepInv ==
  ASSUME Inv, [Next]_vars
  PROVE  Inv'
<1> DEFINE synced == Sync(cart, Now)
<1>1. Now \in Nat
  BY UtcFacts DEF Inv, Now
<1>2. /\ CartOK(synced) /\ synced.anchor <= Now
      /\ ~synced.dirty => ~cart.dirty /\ synced.rtc = cart.rtc
  BY <1>1, SyncFacts DEF Inv, NothingIsFromTheFuture
<1>3. CASE WriteClock
  <2>1. PICK write \in ProgramWrites : cart' = StoreRegister(synced, write)
    BY <1>3 DEF WriteClock
  <2> DEFINE r == WriteRegister(synced.rtc, write)
  <2>2. cart' = [synced EXCEPT !.rtc = r, !.dirty = TRUE]
    BY <2>1 DEF StoreRegister
  <2> HIDE DEF synced, r
  <2>3. CartOK(cart') /\ cart'.anchor = synced.anchor /\ cart'.dirty
    BY <1>2, <2>2, LeapUpdate
  <2>4. UNCHANGED <<page, saved>>
    BY <1>3 DEF WriteClock, Access
  <2> QED BY <1>2, <2>3, <2>4, CartStep
<1>4. CASE WriteRam
  <2>1. cart' = [synced EXCEPT !.dirty = TRUE] /\ UNCHANGED <<page, saved>>
    BY <1>4 DEF WriteRam, Access
  <2> HIDE DEF synced
  <2>2. CartOK(cart') /\ cart'.anchor = synced.anchor /\ cart'.dirty
    BY <1>2, <2>1 DEF CartOK
  <2> QED BY <1>2, <2>1, <2>2, CartStep
<1>5. CASE Look
  <2>1. cart' = synced /\ UNCHANGED <<page, saved>>
    BY <1>5 DEF Look
  <2> QED BY <1>2, <2>1, CartStep
<1>6. CASE ArmLatch \/ DisarmLatch
  <2>1. PICK armed \in BOOLEAN : cart' = [cart EXCEPT !.latch_armed = armed]
    BY <1>6 DEF ArmLatch, DisarmLatch
  <2>2. /\ CartOK(cart') /\ cart'.anchor = cart.anchor
        /\ cart'.dirty = cart.dirty /\ cart'.rtc = cart.rtc
    BY <2>1 DEF Inv, CartOK
  <2>3. UNCHANGED <<page, saved>>
    BY <1>6 DEF ArmLatch, DisarmLatch
  <2> QED BY <2>2, <2>3, CartStep DEF Inv, NothingIsFromTheFuture
<1>7. CASE Latch
  <2> DEFINE r == WholeSeconds(synced.rtc)
             latching == [synced EXCEPT !.latched = r]
  <2>1. cart' = [latching EXCEPT !.latch_armed = FALSE] /\ UNCHANGED <<page, saved>>
    BY <1>7 DEF Latch, Access
  <2> HIDE DEF synced, r
  <2>2. /\ CartOK(latching) /\ latching.anchor = synced.anchor
        /\ latching.dirty = synced.dirty /\ latching.rtc = synced.rtc
    BY <1>2 DEF CartOK
  <2> HIDE DEF latching
  <2>3. /\ CartOK(cart') /\ cart'.anchor = latching.anchor
        /\ cart'.dirty = latching.dirty /\ cart'.rtc = latching.rtc
    BY <2>1, <2>2 DEF CartOK
  <2> QED BY <1>2, <2>1, <2>2, <2>3, CartStep
<1>8. CASE PassTime
  <2>1. page' = [page EXCEPT !.clock = @ + 1] /\ UNCHANGED <<cart, saved>>
    BY <1>8 DEF PassTime
  <2>2. PageOK(page') /\ page'.clock = page.clock + 1 /\ page'.minimum_rtc_utc = page.minimum_rtc_utc
    BY <2>1 DEF Inv, PageOK
  <2>3. Now' \in Nat /\ Now <= Now'
    BY <1>1, <2>2 DEF Inv, PageOK, Now, Utc
  <2>4. CartOK(cart)' /\ SaveOK(saved)' /\ PageOK(page)'
    BY <2>1, <2>2 DEF Inv, CartOK, SaveOK, PageOK
  <2>5. cart.anchor \in Nat /\ saved.saved_at \in Nat
    BY DEF Inv, CartOK, SaveOK
  <2>6. NothingIsFromTheFuture'
    BY <1>1, <2>1, <2>3, <2>5 DEF Inv, NothingIsFromTheFuture
  <2> QED BY <2>1, <2>4, <2>6 DEF Inv, CleanMeansSaved
<1>9. ASSUME NEW clear_dirty \in BOOLEAN, MakePortableSave(clear_dirty) PROVE Inv'
  <2> DEFINE clean == synced.dirty /\ ~clear_dirty
  <2>1. /\ saved' = [exists |-> TRUE, registers |-> synced.rtc, saved_at |-> Now]
        /\ cart' = [synced EXCEPT !.dirty = clean] /\ page' = page
    BY <1>9 DEF MakePortableSave, SaveOf
  <2> HIDE DEF synced, clean
  <2>2. CartOK(cart') /\ cart'.anchor = synced.anchor /\ cart'.rtc = synced.rtc
    BY <1>2, <2>1 DEF CartOK
  <2>3. SaveOK(saved') /\ saved'.exists /\ saved'.registers = synced.rtc /\ saved'.saved_at = Now
    BY <1>1, <2>1 DEF SaveOK
  <2>4. Now' = Now /\ PageOK(page)'
    BY <2>1 DEF Inv, Now, PageOK, Utc
  <2>5. CartOK(cart)' /\ SaveOK(saved)'
    BY <2>2, <2>3 DEF CartOK, SaveOK
  <2>6. NothingIsFromTheFuture'
    BY <1>1, <1>2, <2>2, <2>3, <2>4 DEF NothingIsFromTheFuture
  <2> QED BY <2>2, <2>3, <2>4, <2>5, <2>6 DEF Inv, CleanMeansSaved
<1>10. CASE InsertCartridge
  <2>1. PICK clock \in 0 .. MaxTime :
          LET installed == Install([clock |-> clock, minimum_rtc_utc |-> 0]) IN
          cart' = installed.cart /\ page' = installed.page
    BY <1>10 DEF InsertCartridge
  <2> DEFINE p == [clock |-> clock, minimum_rtc_utc |-> 0]
             installed == Install(p)
  <2>2. PageOK(p)
    BY DEF PageOK
  <2>3. cart' = installed.cart /\ page' = installed.page
    BY <2>1
  <2> HIDE DEF p
  <2>4. /\ CartOK(installed.cart) /\ PageOK(installed.page)
        /\ installed.cart.anchor <= Utc(installed.page)
        /\ saved.exists => saved.saved_at <= Utc(installed.page)
        /\ ~installed.cart.dirty => installed.cart.rtc = saved.registers
    BY <2>2, InstallFacts DEF Inv
  <2> HIDE DEF installed
  <2>5. saved' = saved
    BY <1>10 DEF InsertCartridge
  <2> QED BY <2>3, <2>4, <2>5 DEF Inv, NothingIsFromTheFuture, CleanMeansSaved, Now, CartOK, PageOK, SaveOK, Utc
<1>11. CASE ImportSave
  <2>1. PICK file \in Files : Import(file)
    BY <1>11 DEF ImportSave
  <2>2. SaveOK(file) /\ file.exists = TRUE
    BY FilesAreSaves
  <2> DEFINE imported == Restore(cart, page, file)
             c == imported.cart
             t == Utc(imported.page)
  <2>3. /\ CartOK(c) /\ PageOK(imported.page) /\ c.anchor <= t /\ file.saved_at <= t
        /\ ~c.dirty => c.rtc = file.registers
    BY <2>2, RestoreFacts DEF Inv
  <2>4. /\ page' = imported.page
        /\ \/ cart' = c /\ saved' = file
           \/ cart' = [c EXCEPT !.dirty = FALSE] /\ saved' = SaveOf(c, t)
    BY <2>1 DEF Import
  <2> HIDE DEF c
  <2>5. Now' = t /\ t \in Nat /\ PageOK(page)'
    <3>1. Now' = t /\ PageOK(page')
      BY <2>3, <2>4 DEF Now, Utc
    <3> QED BY <2>3, <3>1, UtcFacts DEF PageOK
  <2> HIDE DEF t, imported
  <2>6. CASE cart' = c /\ saved' = file
    <3>1. CartOK(cart)' /\ SaveOK(saved)'
      BY <2>2, <2>3, <2>6 DEF CartOK, SaveOK
    <3>2. NothingIsFromTheFuture' /\ CleanMeansSaved' /\ saved'.exists = TRUE
      BY <2>2, <2>3, <2>5, <2>6 DEF NothingIsFromTheFuture, CleanMeansSaved
    <3> QED BY <2>5, <3>1, <3>2 DEF Inv
  <2>7. CASE cart' = [c EXCEPT !.dirty = FALSE] /\ saved' = SaveOf(c, t)
    <3>1. CartOK(cart') /\ cart'.rtc = c.rtc /\ cart'.anchor = c.anchor
      BY <2>3, <2>7, DirtyUpdate
    <3>2. SaveOK(saved') /\ saved'.exists = TRUE /\ saved'.registers = c.rtc /\ saved'.saved_at = t
      BY <2>5, <2>7 DEF SaveOf, SaveOK
    <3>3. CartOK(cart)' /\ SaveOK(saved)'
      BY <3>1, <3>2 DEF CartOK, SaveOK
    <3>4. NothingIsFromTheFuture' /\ CleanMeansSaved'
      BY <2>3, <2>5, <3>1, <3>2 DEF NothingIsFromTheFuture, CleanMeansSaved
    <3> QED BY <2>5, <3>2, <3>3, <3>4 DEF Inv
  <2> QED BY <2>4, <2>6, <2>7
<1>12. CASE UNCHANGED vars
  BY <1>12 DEF vars, Inv, NothingIsFromTheFuture, CleanMeansSaved, Now, CartOK, PageOK, SaveOK, Utc
<1> QED BY <1>3, <1>4, <1>5, <1>6, <1>7, <1>8, <1>9, <1>10, <1>11, <1>12 DEF Next

\* The invariant always holds.
LEMMA Always == Spec => []Inv
<1>1. Inv /\ [Next]_vars => Inv'
  BY StepInv
<1> QED BY <1>1, InitInv, PTL DEF Spec

\* A cartridge that is not dirty holds the registers of its save, or zeros.
THEOREM CleanCartridgeIsSaved == Spec => []CleanMeansSaved
<1>1. Inv => CleanMeansSaved
  BY DEF Inv
<1> QED BY <1>1, Always, PTL

\* Time is never counted twice: no anchor and no save lies in the future.
THEOREM TimeIsNotCountedTwice == Spec => []NothingIsFromTheFuture
<1>1. Inv => NothingIsFromTheFuture
  BY DEF Inv
<1> QED BY <1>1, Always, PTL

-----------------------------------------------------------------------------
(* The cartridge shows what the chip shows. *)

Carts ==
  [ rtc : Registers, latched : Registers, latch_armed : BOOLEAN,
    anchor : Nat, anchored : BOOLEAN, dirty : BOOLEAN ]

Pages == [clock : Nat, minimum_rtc_utc : Nat]

Saves == [exists : BOOLEAN, registers : Registers, saved_at : Nat]

Budgets == [accesses : Nat, saves : Nat, loads : Nat]

\* What a leap leaves alone.
SameCart(d, c) ==
  /\ d.latched = c.latched /\ d.latch_armed = c.latch_armed
  /\ d.anchor = c.anchor /\ d.anchored = c.anchored

\* The clock of a cartridge has leapt some milliseconds.
Leapt(d, c, ms) ==
  /\ d \in Carts /\ SameCart(d, c)
  /\ View(d.rtc) = Chip!After(View(c.rtc), ms)
  /\ Kept(d.rtc, c.rtc)

\* A register keeps to its range, or its value, if nothing happens to it.
LEMMA KeptAlone == ASSUME NEW r PROVE Kept(r, r)
BY Zenon DEF Kept

\* advance_rtc_milliseconds leaps as far as the chip counts, and touches no other field.
LEMMA AdvanceLeaps ==
  ASSUME NEW c \in Carts, NEW ms \in Nat
  PROVE  Leapt(Advance(c, ms), c, ms)
<1> DEFINE r == c.rtc
           v == View(r)
<1>1. r \in Registers /\ v \in Chip!Registers /\ v.halted = r.halted
  BY ViewInRange, ViewFields DEF Carts
<1>2. CASE r.halted \/ ms = 0
  <2>1. Advance(c, ms) = c
    BY <1>2 DEF Advance
  <2>2. Chip!After(v, ms) = v
    <3> HIDE DEF v
    <3> QED BY <1>1, <1>2, AfterHalted, AfterUnfolds
  <2> QED BY <2>1, <2>2, KeptAlone DEF Leapt, SameCart
<1>3. CASE ~r.halted /\ ms # 0
  <2> DEFINE x == AdvanceRegisters(r, ms)
             d == [c EXCEPT !.rtc = x, !.dirty = TRUE]
  <2>1. Advance(c, ms) = d
    BY <1>3 DEF Advance
  <2>2. x \in Registers /\ View(x) = Chip!After(v, ms) /\ Kept(x, r)
    BY <1>1, <1>3, LeapIsTicks
  <2> HIDE DEF x, v
  <2>3. d \in Carts /\ d.rtc = x /\ SameCart(d, c)
    BY <2>2 DEF Carts, SameCart
  <2> HIDE DEF d
  <2> QED BY <2>1, <2>2, <2>3 DEF Leapt, v
<1> QED BY <1>2, <1>3

\* The registers that a look at the clock would show.
LiveOf(c, now) == View(IF c.anchored THEN Sync(c, now).rtc ELSE c.rtc)

\* A look at the clock, at a time that is not behind its anchor: it shows d.
Looked(d, c, now) ==
  /\ d \in Carts /\ d.latched = c.latched /\ d.latch_armed = c.latch_armed
  /\ d.anchored = TRUE /\ d.anchor = now
  /\ View(d.rtc) = LiveOf(c, now)
  /\ c.anchored => View(d.rtc) = Chip!After(View(c.rtc), now - c.anchor)
  /\ ~c.anchored => d.rtc = c.rtc
  /\ Kept(d.rtc, c.rtc)

\* sync_rtc brings the registers to what the chip shows now.
LEMMA SyncLooks ==
  ASSUME NEW c \in Carts, NEW now \in Nat, c.anchor <= now
  PROVE  Looked(Sync(c, now), c, now)
<1>0. c.anchor \in Nat /\ c.anchored \in BOOLEAN /\ c.rtc \in Registers
  BY DEF Carts
<1>1. CASE ~c.anchored
  <2> DEFINE d == [c EXCEPT !.anchor = now, !.anchored = TRUE]
  <2>1. Sync(c, now) = d
    BY <1>1 DEF Sync
  <2>2. /\ d \in Carts /\ d.latched = c.latched /\ d.latch_armed = c.latch_armed
        /\ d.anchored = TRUE /\ d.anchor = now /\ d.rtc = c.rtc
    BY DEF Carts
  <2> HIDE DEF d
  <2> QED BY <1>1, <2>1, <2>2, KeptAlone DEF Looked, LiveOf
<1>2. CASE c.anchored /\ now <= c.anchor
  <2>1. Sync(c, now) = c /\ c.anchor = now
    BY <1>0, <1>2 DEF Sync
  <2>2. now - c.anchor = 0
    BY <2>1
  <2>3. Chip!After(View(c.rtc), 0) = View(c.rtc)
    BY <1>0, ViewInRange, AfterUnfolds
  <2>4. c.anchored = TRUE
    BY <1>0, <1>2
  <2> QED BY <1>2, <2>1, <2>2, <2>3, <2>4, KeptAlone DEF Looked, LiveOf
<1>3. CASE c.anchored /\ ~(now <= c.anchor)
  <2> DEFINE ms == now - c.anchor
             a == Advance(c, ms)
             d == [a EXCEPT !.anchor = now]
  <2>1. Sync(c, now) = d
    BY <1>3 DEF Sync
  <2>2. ms \in Nat
    BY <1>0
  <2>3. Leapt(a, c, ms)
    BY <2>2, AdvanceLeaps
  <2>4. c.anchored = TRUE
    BY <1>0, <1>3
  <2> HIDE DEF a
  <2>5. /\ d \in Carts /\ d.latched = c.latched /\ d.latch_armed = c.latch_armed
        /\ d.anchored = TRUE /\ d.anchor = now /\ d.rtc = a.rtc
    BY <2>3, <2>4 DEF Leapt, SameCart, Carts
  <2> HIDE DEF d
  <2> QED BY <1>3, <2>1, <2>3, <2>5 DEF Leapt, Looked, LiveOf
<1> QED BY <1>1, <1>2, <1>3

\* Registers that were brought up to now are those that are shown.
LEMMA LiveNow ==
  ASSUME NEW c \in Carts, NEW now \in Nat, c.anchored, c.anchor = now
  PROVE  LiveOf(c, now) = View(c.rtc)
BY DEF LiveOf, Sync

\* A cartridge that is not anchored stands still.
LEMMA LiveFresh ==
  ASSUME NEW c \in Carts, NEW now, ~c.anchored
  PROVE  LiveOf(c, now) = View(c.rtc)
BY DEF LiveOf

\* A millisecond passes.
LEMMA LiveMovesOn ==
  ASSUME NEW c \in Carts, NEW now \in Nat, c.anchor <= now
  PROVE  LiveOf(c, now + 1) = IF c.anchored THEN Chip!Millisecond(LiveOf(c, now)) ELSE LiveOf(c, now)
<1>1. c.anchor \in Nat /\ c.anchored \in BOOLEAN /\ c.rtc \in Registers
  BY DEF Carts
<1>2. CASE ~c.anchored
  BY <1>2, LiveFresh
<1>3. CASE c.anchored
  <2> DEFINE ms == now - c.anchor
             v == View(c.rtc)
  <2>1. ms \in Nat /\ (now + 1) - c.anchor = ms + 1 /\ now + 1 \in Nat /\ c.anchor <= now + 1
    BY <1>1
  <2>2. v \in Chip!Registers
    BY <1>1, ViewInRange
  <2>3. Looked(Sync(c, now), c, now)
    BY SyncLooks
  <2>4. Looked(Sync(c, now + 1), c, now + 1)
    <3> DEFINE next == now + 1
    <3>1. next \in Nat /\ c.anchor <= next
      BY <2>1
    <3> HIDE DEF next
    <3>2. Looked(Sync(c, next), c, next)
      BY <3>1, SyncLooks
    <3> QED BY <3>2 DEF next
  <2>5. LiveOf(c, now) = Chip!After(v, ms)
    BY <1>3, <2>3 DEF Looked
  <2>6. LiveOf(c, now + 1) = Chip!After(v, ms + 1)
    BY <1>3, <2>1, <2>4 DEF Looked
  <2> HIDE DEF v, ms
  <2>7. Chip!After(v, ms + 1) = Chip!Millisecond(Chip!After(v, ms))
    BY <2>1, <2>2, AfterNext
  <2> QED BY <1>3, <2>5, <2>6, <2>7
<1> QED BY <1>2, <1>3

\* A page of the right type is a record of its two times.
LEMMA PagesOK == ASSUME NEW p \in Pages PROVE PageOK(p)
BY DEF Pages, PageOK

\* A restored save, caught up with the time that has passed since.
CaughtUp(restored, c, save) ==
  /\ restored.cart \in Carts /\ restored.page \in Pages
  /\ restored.cart.latched = c.latched
  /\ restored.cart.anchored = TRUE
  /\ restored.cart.anchor = Utc(restored.page)
  /\ save.saved_at <= Utc(restored.page)
  /\ View(restored.cart.rtc) = Chip!After(View(save.registers), Utc(restored.page) - save.saved_at)
  /\ Kept(restored.cart.rtc, save.registers)

\* A restored save has counted all the time since, and is anchored to now.
LEMMA RestoreCatchesUp ==
  ASSUME NEW c \in Carts, NEW p \in Pages, NEW save \in Saves
  PROVE  CaughtUp(Restore(c, p, save), c, save)
<1> DEFINE reached == IF Utc(p) >= save.saved_at THEN Utc(p) ELSE save.saved_at
           ms == reached - save.saved_at
           loaded == LoadRegisters(c, save.registers)
           advanced == Advance(loaded, ms)
           synced == Sync(advanced, reached)
           q == [p EXCEPT !.minimum_rtc_utc = reached]
<1>1. save.saved_at \in Nat /\ save.registers \in Registers
  BY DEF Saves
<1>2. Utc(p) \in Nat /\ p.clock \in Nat /\ p.clock <= Utc(p)
  BY PagesOK, UtcFacts DEF PageOK
<1>3. reached \in Nat /\ save.saved_at <= reached /\ p.clock <= reached /\ ms \in Nat
  BY <1>1, <1>2
<1>4. Restore(c, p, save) = [cart |-> synced, page |-> q]
  BY DEF Restore
<1> HIDE DEF reached, ms
<1>5. q \in Pages /\ Utc(q) = reached
  <2>1. q \in Pages /\ q.clock = p.clock /\ q.minimum_rtc_utc = reached
    BY <1>3 DEF Pages
  <2> HIDE DEF q
  <2> QED BY <1>2, <1>3, <2>1 DEF Utc
<1>6. /\ loaded \in Carts /\ loaded.rtc = save.registers /\ loaded.anchor = 0
      /\ loaded.anchored = FALSE /\ loaded.latched = c.latched
  <2> DEFINE v == [c EXCEPT !.rtc = save.registers, !.dirty = FALSE]
             w == [v EXCEPT !.anchor = 0, !.anchored = FALSE]
  <2>1. loaded = w
    BY DEF LoadRegisters
  <2>2. v \in Carts /\ v.rtc = save.registers /\ v.latched = c.latched
    BY <1>1 DEF Carts
  <2> HIDE DEF v
  <2>3. /\ w \in Carts /\ w.rtc = save.registers /\ w.anchor = 0
        /\ w.anchored = FALSE /\ w.latched = c.latched
    BY <2>2 DEF Carts
  <2> HIDE DEF w, loaded
  <2> QED BY <2>1, <2>3
<1> HIDE DEF loaded, q
<1>7. Leapt(advanced, loaded, ms)
  BY <1>3, <1>6, AdvanceLeaps
<1> HIDE DEF advanced
<1>8. /\ advanced \in Carts /\ advanced.anchor = 0 /\ advanced.anchored = FALSE
      /\ advanced.latched = c.latched
      /\ View(advanced.rtc) = Chip!After(View(save.registers), ms)
      /\ Kept(advanced.rtc, save.registers)
  BY <1>6, <1>7 DEF Leapt, SameCart
<1>9. Looked(synced, advanced, reached)
  BY <1>3, <1>8, SyncLooks
<1> HIDE DEF synced
<1>10. /\ synced \in Carts /\ synced.latched = c.latched /\ synced.anchored = TRUE
       /\ synced.anchor = reached /\ synced.rtc = advanced.rtc
  BY <1>8, <1>9 DEF Looked
<1> QED BY <1>3, <1>4, <1>5, <1>8, <1>10 DEF CaughtUp, ms

-----------------------------------------------------------------------------
(* Writes of the program. *)

\* A value fits in the day counter with a bit above its low byte.
LEMMA DayCounter ==
  ASSUME NEW high \in 0 .. 1, NEW low \in 0 .. LowDays - 1
  PROVE  high * LowDays + low \in 0 .. Days - 1
<1>1. LowDays \in Nat \ {0}
  BY Positive
<1>2. CASE high = 0
  <2>1. high * LowDays = 0
    BY <1>1, <1>2
  <2> QED BY <1>1, <2>1 DEF Days
<1>3. CASE high = 1
  <2>1. high * LowDays = LowDays
    BY <1>1, <1>3
  <2> QED BY <1>1, <2>1 DEF Days
<1> QED BY <1>2, <1>3

\* The bit above the low byte of the day counter, and the low byte.
LEMMA DayHalves ==
  ASSUME NEW days \in Nat
  PROVE  (days \div LowDays) % 2 \in 0 .. 1 /\ days % LowDays \in 0 .. LowDays - 1
<1> DEFINE q == days \div LowDays
<1>1. LowDays \in Nat \ {0}
  BY Positive
<1>2. q \in Nat /\ days % LowDays \in 0 .. LowDays - 1
  BY <1>1, Division
<1> HIDE DEF q
<1>3. q % 2 \in 0 .. 1
  BY <1>2
<1> QED BY <1>2, <1>3 DEF q

\* The registers x are r after a write to one of them.
Written(x, r) == x \in Registers /\ Chip!WriteOne(View(r), View(x)) /\ Kept(x, r)

\* What a program writes fits in the registers.
LEMMA Fits ==
  /\ \A field \in Fields : \A value \in 0 .. Size[field] - 1 : value \in 0 .. Byte - 1
  /\ \A days \in 0 .. Days - 1 : days \in 0 .. Word - 1
  /\ 0 \in 0 .. Ticks - 1 /\ 0 \in 0 .. Millis - 1 /\ 0 \in 0 .. Word - 1
BY Positive

\* A write to the seconds also resets the phase.
LEMMA WriteSeconds ==
  ASSUME NEW r \in Registers, NEW value \in 0 .. Size["seconds"] - 1
  PROVE  Written([r EXCEPT !.seconds = value, !.subsecond_ticks = 0, !.subsecond_tick_thousandths = 0], r)
<1> DEFINE a == [r EXCEPT !.seconds = value]
           b == [a EXCEPT !.subsecond_ticks = 0]
           x == [b EXCEPT !.subsecond_tick_thousandths = 0]
           f == "seconds"
           v == View(r)
           u == [v EXCEPT ![f] = value]
           w == [u EXCEPT !.phase = 0]
<1>0. /\ 0 \in 0 .. Ticks - 1 /\ 0 \in 0 .. Millis - 1 /\ 0 \in 0 .. Word - 1
      /\ value \in 0 .. Byte - 1
  BY Fits DEF Fields
<1>1. a \in Registers
  BY <1>0 DEF Registers
<1>2. a = [ subsecond_ticks |-> r.subsecond_ticks, subsecond_tick_thousandths |-> r.subsecond_tick_thousandths,
            seconds |-> value, minutes |-> r.minutes, hours |-> r.hours,
            days |-> r.days, halted |-> r.halted, day_carry |-> r.day_carry ]
  BY RegisterFields
<1> HIDE DEF a
<1>3. b \in Registers
  BY <1>0, <1>1 DEF Registers
<1>4. b = [ subsecond_ticks |-> 0, subsecond_tick_thousandths |-> r.subsecond_tick_thousandths,
            seconds |-> value, minutes |-> r.minutes, hours |-> r.hours,
            days |-> r.days, halted |-> r.halted, day_carry |-> r.day_carry ]
  BY <1>2
<1> HIDE DEF b
<1>5. x \in Registers
  BY <1>0, <1>3 DEF Registers
<1>6. x = [ subsecond_ticks |-> 0, subsecond_tick_thousandths |-> 0,
            seconds |-> value, minutes |-> r.minutes, hours |-> r.hours,
            days |-> r.days, halted |-> r.halted, day_carry |-> r.day_carry ]
  BY <1>4
<1>7. [r EXCEPT !.seconds = value, !.subsecond_ticks = 0, !.subsecond_tick_thousandths = 0] = x
  BY DEF a, b
<1> HIDE DEF x
<1>8. Phase(x) = 0
  BY <1>6, Positive DEF Phase
<1>9. View(x) = [ phase |-> 0, seconds |-> value, minutes |-> r.minutes, hours |-> r.hours,
                  days |-> r.days, halted |-> r.halted, day_carry |-> r.day_carry ]
  <2>1. View(x) = [ phase |-> Phase(x), seconds |-> x.seconds, minutes |-> x.minutes, hours |-> x.hours,
                    days |-> x.days, halted |-> x.halted, day_carry |-> x.day_carry ]
    BY Zenon DEF View, Phase
  <2> QED BY <1>6, <1>8, <2>1
<1>10. v = [ phase |-> Phase(r), seconds |-> r.seconds, minutes |-> r.minutes, hours |-> r.hours,
             days |-> r.days, halted |-> r.halted, day_carry |-> r.day_carry ]
  BY Zenon DEF View, Phase
<1> HIDE DEF v
<1>11. u = [ phase |-> Phase(r), seconds |-> value, minutes |-> r.minutes, hours |-> r.hours,
             days |-> r.days, halted |-> r.halted, day_carry |-> r.day_carry ]
  BY <1>10
<1>12. [v EXCEPT ![f] = value, !.phase = IF f = "seconds" THEN 0 ELSE @] = w
  OBVIOUS
<1> HIDE DEF u
<1>13. w = View(x)
  BY <1>9, <1>11
<1>14. f \in DOMAIN Limit
  BY RtcAssumption DEF Fields
<1> HIDE DEF w, f
<1>15. Chip!WriteOne(v, View(x))
  <2>1. View(x) = [v EXCEPT ![f] = value, !.phase = IF f = "seconds" THEN 0 ELSE @] /\ value \in 0 .. Size[f] - 1
    BY <1>12, <1>13 DEF f
  <2> HIDE DEF x
  <2> QED BY <1>14, <2>1 DEF Chip!WriteOne
<1>16. Kept(x, r)
  BY <1>0, <1>6 DEF Kept
<1> QED BY <1>5, <1>7, <1>15, <1>16 DEF Written, v

\* A write to the minutes.
LEMMA WriteMinutes ==
  ASSUME NEW r \in Registers, NEW value \in 0 .. Size["minutes"] - 1
  PROVE  Written([r EXCEPT !["minutes"] = value], r)
<1> DEFINE x == [r EXCEPT !["minutes"] = value]
           f == "minutes"
           v == View(r)
           u == [v EXCEPT ![f] = value]
           w == [u EXCEPT !.phase = IF f = "seconds" THEN 0 ELSE @]
<1>0. value \in 0 .. Byte - 1
  BY Fits DEF Fields
<1>1. x \in Registers
  BY <1>0 DEF Registers
<1>2. x = [ subsecond_ticks |-> r.subsecond_ticks, subsecond_tick_thousandths |-> r.subsecond_tick_thousandths,
            seconds |-> r.seconds, minutes |-> value, hours |-> r.hours,
            days |-> r.days, halted |-> r.halted, day_carry |-> r.day_carry ]
  BY RegisterFields
<1> HIDE DEF x
<1>3. View(x) = [ phase |-> Phase(r), seconds |-> r.seconds, minutes |-> value, hours |-> r.hours,
                  days |-> r.days, halted |-> r.halted, day_carry |-> r.day_carry ]
  <2>1. View(x) = [ phase |-> Phase(x), seconds |-> x.seconds, minutes |-> x.minutes, hours |-> x.hours,
                    days |-> x.days, halted |-> x.halted, day_carry |-> x.day_carry ]
    BY Zenon DEF View, Phase
  <2>2. Phase(x) = Phase(r)
    BY <1>2 DEF Phase
  <2> QED BY <1>2, <2>1, <2>2
<1>4. v = [ phase |-> Phase(r), seconds |-> r.seconds, minutes |-> r.minutes, hours |-> r.hours,
            days |-> r.days, halted |-> r.halted, day_carry |-> r.day_carry ]
  BY Zenon DEF View, Phase
<1> HIDE DEF v
<1>5. u = [ phase |-> Phase(r), seconds |-> r.seconds, minutes |-> value, hours |-> r.hours,
            days |-> r.days, halted |-> r.halted, day_carry |-> r.day_carry ]
  BY <1>4
<1>6. [v EXCEPT ![f] = value, !.phase = IF f = "seconds" THEN 0 ELSE @] = w
  <2>1. u.phase = v.phase
    BY <1>4, <1>5
  <2> QED BY <2>1
<1> HIDE DEF u
<1>7. w = View(x)
  BY <1>3, <1>5
<1>8. f \in DOMAIN Limit
  BY RtcAssumption DEF Fields
<1> HIDE DEF w, f
<1>9. Chip!WriteOne(v, View(x))
  <2>1. View(x) = [v EXCEPT ![f] = value, !.phase = IF f = "seconds" THEN 0 ELSE @] /\ value \in 0 .. Size[f] - 1
    BY <1>6, <1>7 DEF f
  <2> HIDE DEF x
  <2> QED BY <1>8, <2>1 DEF Chip!WriteOne
<1>10. Kept(x, r)
  BY <1>2 DEF Kept
<1> QED BY <1>1, <1>9, <1>10 DEF Written, v, x

\* A write to the hours.
LEMMA WriteHours ==
  ASSUME NEW r \in Registers, NEW value \in 0 .. Size["hours"] - 1
  PROVE  Written([r EXCEPT !["hours"] = value], r)
<1> DEFINE x == [r EXCEPT !["hours"] = value]
           f == "hours"
           v == View(r)
           u == [v EXCEPT ![f] = value]
           w == [u EXCEPT !.phase = IF f = "seconds" THEN 0 ELSE @]
<1>0. value \in 0 .. Byte - 1
  BY Fits DEF Fields
<1>1. x \in Registers
  BY <1>0 DEF Registers
<1>2. x = [ subsecond_ticks |-> r.subsecond_ticks, subsecond_tick_thousandths |-> r.subsecond_tick_thousandths,
            seconds |-> r.seconds, minutes |-> r.minutes, hours |-> value,
            days |-> r.days, halted |-> r.halted, day_carry |-> r.day_carry ]
  BY RegisterFields
<1> HIDE DEF x
<1>3. View(x) = [ phase |-> Phase(r), seconds |-> r.seconds, minutes |-> r.minutes, hours |-> value,
                  days |-> r.days, halted |-> r.halted, day_carry |-> r.day_carry ]
  <2>1. View(x) = [ phase |-> Phase(x), seconds |-> x.seconds, minutes |-> x.minutes, hours |-> x.hours,
                    days |-> x.days, halted |-> x.halted, day_carry |-> x.day_carry ]
    BY Zenon DEF View, Phase
  <2>2. Phase(x) = Phase(r)
    BY <1>2 DEF Phase
  <2> QED BY <1>2, <2>1, <2>2
<1>4. v = [ phase |-> Phase(r), seconds |-> r.seconds, minutes |-> r.minutes, hours |-> r.hours,
            days |-> r.days, halted |-> r.halted, day_carry |-> r.day_carry ]
  BY Zenon DEF View, Phase
<1> HIDE DEF v
<1>5. u = [ phase |-> Phase(r), seconds |-> r.seconds, minutes |-> r.minutes, hours |-> value,
            days |-> r.days, halted |-> r.halted, day_carry |-> r.day_carry ]
  BY <1>4
<1>6. [v EXCEPT ![f] = value, !.phase = IF f = "seconds" THEN 0 ELSE @] = w
  <2>1. u.phase = v.phase
    BY <1>4, <1>5
  <2> QED BY <2>1
<1> HIDE DEF u
<1>7. w = View(x)
  BY <1>3, <1>5
<1>8. f \in DOMAIN Limit
  BY RtcAssumption DEF Fields
<1> HIDE DEF w, f
<1>9. Chip!WriteOne(v, View(x))
  <2>1. View(x) = [v EXCEPT ![f] = value, !.phase = IF f = "seconds" THEN 0 ELSE @] /\ value \in 0 .. Size[f] - 1
    BY <1>6, <1>7 DEF f
  <2> HIDE DEF x
  <2> QED BY <1>8, <2>1 DEF Chip!WriteOne
<1>10. Kept(x, r)
  BY <1>2 DEF Kept
<1> QED BY <1>1, <1>9, <1>10 DEF Written, v, x

\* A write to the low byte of the day counter.
LEMMA WriteDays ==
  ASSUME NEW r \in Registers, NEW low \in 0 .. LowDays - 1
  PROVE  Written([r EXCEPT !.days = ((@ \div LowDays) % 2) * LowDays + low], r)
<1> DEFINE d == ((r.days \div LowDays) % 2) * LowDays + low
           x == [r EXCEPT !.days = d]
           v == View(r)
           u == [v EXCEPT !.days = d]
<1>0. d \in 0 .. Days - 1
  <2> DEFINE high == (r.days \div LowDays) % 2
  <2>1. high \in 0 .. 1
    BY RegisterNumbers, DayHalves
  <2> HIDE DEF high
  <2> QED BY <2>1, DayCounter DEF high
<1>1. v.days = r.days
  BY ViewFields
<1> HIDE DEF d
<1>2. x \in Registers
  <2>1. d \in 0 .. Word - 1
    BY <1>0, Fits
  <2> QED BY <2>1 DEF Registers
<1>3. x = [ subsecond_ticks |-> r.subsecond_ticks, subsecond_tick_thousandths |-> r.subsecond_tick_thousandths,
            seconds |-> r.seconds, minutes |-> r.minutes, hours |-> r.hours,
            days |-> d, halted |-> r.halted, day_carry |-> r.day_carry ]
  BY RegisterFields
<1> HIDE DEF x
<1>4. View(x) = [ phase |-> Phase(r), seconds |-> r.seconds, minutes |-> r.minutes, hours |-> r.hours,
                  days |-> d, halted |-> r.halted, day_carry |-> r.day_carry ]
  <2>1. View(x) = [ phase |-> Phase(x), seconds |-> x.seconds, minutes |-> x.minutes, hours |-> x.hours,
                    days |-> x.days, halted |-> x.halted, day_carry |-> x.day_carry ]
    BY Zenon DEF View, Phase
  <2>2. Phase(x) = Phase(r)
    BY <1>3 DEF Phase
  <2> QED BY <1>3, <2>1, <2>2
<1>5. v = [ phase |-> Phase(r), seconds |-> r.seconds, minutes |-> r.minutes, hours |-> r.hours,
            days |-> r.days, halted |-> r.halted, day_carry |-> r.day_carry ]
  BY Zenon DEF View, Phase
<1> HIDE DEF v
<1>6. u = View(x)
  BY <1>4, <1>5
<1>7. View(x) = [v EXCEPT !.days = ((@ \div LowDays) % 2) * LowDays + low]
  BY <1>1, <1>6 DEF u, d
<1>8. Chip!WriteOne(v, View(x))
  BY <1>7 DEF Chip!WriteOne
<1>9. [r EXCEPT !.days = ((@ \div LowDays) % 2) * LowDays + low] = x
  BY DEF x, d
<1>10. Kept(x, r)
  BY <1>0, <1>3 DEF Kept
<1> QED BY <1>2, <1>8, <1>9, <1>10 DEF Written, v

\* A write to the bit above it, the halt bit and the carry.
LEMMA WriteControl ==
  ASSUME NEW r \in Registers, NEW high \in 0 .. 1, NEW halted \in BOOLEAN, NEW carry \in BOOLEAN
  PROVE  Written([r EXCEPT !.days = high * LowDays + (@ % LowDays), !.halted = halted, !.day_carry = carry], r)
<1> DEFINE d == high * LowDays + (r.days % LowDays)
           a == [r EXCEPT !.days = d]
           b == [a EXCEPT !.halted = halted]
           x == [b EXCEPT !.day_carry = carry]
           v == View(r)
           s == [v EXCEPT !.days = d]
           t == [s EXCEPT !.halted = halted]
           u == [t EXCEPT !.day_carry = carry]
<1>0. d \in 0 .. Days - 1
  <2> DEFINE low == r.days % LowDays
  <2>1. low \in 0 .. LowDays - 1
    BY RegisterNumbers, DayHalves
  <2> HIDE DEF low
  <2> QED BY <2>1, DayCounter DEF low
<1>1. v.days = r.days
  BY ViewFields
<1>2. [r EXCEPT !.days = high * LowDays + (@ % LowDays), !.halted = halted, !.day_carry = carry] = x
  OBVIOUS
<1>3. [v EXCEPT !.days = high * LowDays + (@ % LowDays), !.halted = halted, !.day_carry = carry] = u
  <2> HIDE DEF v
  <2> QED BY <1>1
<1> HIDE DEF d
<1>4. /\ a \in Registers
      /\ a = [ subsecond_ticks |-> r.subsecond_ticks,
               subsecond_tick_thousandths |-> r.subsecond_tick_thousandths,
               seconds |-> r.seconds, minutes |-> r.minutes, hours |-> r.hours,
               days |-> d, halted |-> r.halted, day_carry |-> r.day_carry ]
  <2>1. d \in 0 .. Word - 1
    BY <1>0, Fits
  <2> QED BY <2>1, RegisterFields DEF Registers
<1> HIDE DEF a
<1>5. /\ b \in Registers
      /\ b = [ subsecond_ticks |-> r.subsecond_ticks,
               subsecond_tick_thousandths |-> r.subsecond_tick_thousandths,
               seconds |-> r.seconds, minutes |-> r.minutes, hours |-> r.hours,
               days |-> d, halted |-> halted, day_carry |-> r.day_carry ]
  BY <1>4 DEF Registers
<1> HIDE DEF b
<1>6. /\ x \in Registers
      /\ x = [ subsecond_ticks |-> r.subsecond_ticks,
               subsecond_tick_thousandths |-> r.subsecond_tick_thousandths,
               seconds |-> r.seconds, minutes |-> r.minutes, hours |-> r.hours,
               days |-> d, halted |-> halted, day_carry |-> carry ]
  BY <1>5 DEF Registers
<1> HIDE DEF x
<1>7. View(x) = [ phase |-> Phase(r), seconds |-> r.seconds, minutes |-> r.minutes, hours |-> r.hours,
                  days |-> d, halted |-> halted, day_carry |-> carry ]
  <2>1. View(x) = [ phase |-> Phase(x), seconds |-> x.seconds, minutes |-> x.minutes, hours |-> x.hours,
                    days |-> x.days, halted |-> x.halted, day_carry |-> x.day_carry ]
    BY Zenon DEF View, Phase
  <2>2. Phase(x) = Phase(r)
    BY <1>6 DEF Phase
  <2> QED BY <1>6, <2>1, <2>2
<1>8. v = [ phase |-> Phase(r), seconds |-> r.seconds, minutes |-> r.minutes, hours |-> r.hours,
            days |-> r.days, halted |-> r.halted, day_carry |-> r.day_carry ]
  BY Zenon DEF View, Phase
<1> HIDE DEF v
<1>9. s = [ phase |-> Phase(r), seconds |-> r.seconds, minutes |-> r.minutes, hours |-> r.hours,
            days |-> d, halted |-> r.halted, day_carry |-> r.day_carry ]
  BY <1>8
<1> HIDE DEF s
<1>10. t = [ phase |-> Phase(r), seconds |-> r.seconds, minutes |-> r.minutes, hours |-> r.hours,
             days |-> d, halted |-> halted, day_carry |-> r.day_carry ]
  BY <1>9
<1> HIDE DEF t
<1>11. u = View(x)
  BY <1>7, <1>10
<1>12. Chip!WriteOne(v, View(x))
  <2>1. View(x) = [v EXCEPT !.days = high * LowDays + (@ % LowDays), !.halted = halted, !.day_carry = carry]
    BY <1>3, <1>11
  <2> QED BY <2>1 DEF Chip!WriteOne
<1>13. Kept(x, r)
  BY <1>0, <1>6 DEF Kept
<1> QED BY <1>2, <1>6, <1>12, <1>13 DEF Written, v

\* Whatever a program writes is a write to the chip, and keeps the ranges.
LEMMA WriteKeeps ==
  ASSUME NEW r \in Registers, NEW write \in ProgramWrites
  PROVE  Written(WriteRegister(r, write), r)
<1>1. write \in Writes
  BY InputAssumption
<1>2. CASE write.select = "seconds" /\ write.value \in 0 .. Size["seconds"] - 1
  <2>1. WriteRegister(r, write) =
          [r EXCEPT !.seconds = write.value, !.subsecond_ticks = 0, !.subsecond_tick_thousandths = 0]
    BY <1>2 DEF WriteRegister
  <2> QED BY <1>2, <2>1, WriteSeconds
<1>3. CASE write.select = "minutes" /\ write.value \in 0 .. Size["minutes"] - 1
  <2>1. WriteRegister(r, write) = [r EXCEPT !["minutes"] = write.value]
    BY <1>3 DEF WriteRegister
  <2> QED BY <1>3, <2>1, WriteMinutes
<1>4. CASE write.select = "hours" /\ write.value \in 0 .. Size["hours"] - 1
  <2>1. WriteRegister(r, write) = [r EXCEPT !["hours"] = write.value]
    BY <1>4 DEF WriteRegister
  <2> QED BY <1>4, <2>1, WriteHours
<1>5. CASE write.select = "days" /\ write.value \in 0 .. LowDays - 1
  <2>1. WriteRegister(r, write) = [r EXCEPT !.days = ((@ \div LowDays) % 2) * LowDays + write.value]
    BY <1>5 DEF WriteRegister
  <2> QED BY <1>5, <2>1, WriteDays
<1>6. CASE /\ write.select = "control" /\ write.high \in 0 .. 1
           /\ write.halted \in BOOLEAN /\ write.day_carry \in BOOLEAN
  <2>1. WriteRegister(r, write) =
          [r EXCEPT !.days = write.high * LowDays + (@ % LowDays),
                    !.halted = write.halted, !.day_carry = write.day_carry]
    BY <1>6 DEF WriteRegister
  <2>2. Written([r EXCEPT !.days = write.high * LowDays + (@ % LowDays),
                          !.halted = write.halted, !.day_carry = write.day_carry], r)
    BY <1>6, WriteControl
  <2> QED BY <2>1, <2>2, Zenon
<1>7. \/ write.select = "seconds" /\ write.value \in 0 .. Size["seconds"] - 1
      \/ write.select = "minutes" /\ write.value \in 0 .. Size["minutes"] - 1
      \/ write.select = "hours" /\ write.value \in 0 .. Size["hours"] - 1
      \/ write.select = "days" /\ write.value \in 0 .. LowDays - 1
      \/ /\ write.select = "control" /\ write.high \in 0 .. 1
         /\ write.halted \in BOOLEAN /\ write.day_carry \in BOOLEAN
  BY <1>1 DEF Writes, Fields
<1> QED BY <1>2, <1>3, <1>4, <1>5, <1>6, <1>7

\* The registers x are r without the part of a second.
Whole(x, r) == x \in Registers /\ View(x) = [View(r) EXCEPT !.phase = 0]

\* The latched copy is the chip's registers without their phase.
LEMMA WholeIsLatched ==
  ASSUME NEW r \in Registers
  PROVE  Whole(WholeSeconds(r), r)
<1> DEFINE a == [r EXCEPT !.subsecond_ticks = 0]
           x == [a EXCEPT !.subsecond_tick_thousandths = 0]
           v == View(r)
<1>0. 0 \in 0 .. Word - 1
  BY Fits
<1>1. /\ a \in Registers
      /\ a = [ subsecond_ticks |-> 0,
               subsecond_tick_thousandths |-> r.subsecond_tick_thousandths,
               seconds |-> r.seconds, minutes |-> r.minutes, hours |-> r.hours,
               days |-> r.days, halted |-> r.halted, day_carry |-> r.day_carry ]
  BY <1>0, RegisterFields DEF Registers
<1>2. WholeSeconds(r) = x
  BY DEF WholeSeconds
<1> HIDE DEF a
<1>3. /\ x \in Registers
      /\ x = [ subsecond_ticks |-> 0,
               subsecond_tick_thousandths |-> 0,
               seconds |-> r.seconds, minutes |-> r.minutes, hours |-> r.hours,
               days |-> r.days, halted |-> r.halted, day_carry |-> r.day_carry ]
  BY <1>0, <1>1 DEF Registers
<1> HIDE DEF x
<1>4. View(x) = [ phase |-> 0, seconds |-> r.seconds, minutes |-> r.minutes, hours |-> r.hours,
                  days |-> r.days, halted |-> r.halted, day_carry |-> r.day_carry ]
  <2>1. View(x) = [ phase |-> Phase(x), seconds |-> x.seconds, minutes |-> x.minutes, hours |-> x.hours,
                    days |-> x.days, halted |-> x.halted, day_carry |-> x.day_carry ]
    BY Zenon DEF View, Phase
  <2>2. Phase(x) = 0
    BY <1>3, Positive DEF Phase
  <2> QED BY <1>3, <2>1, <2>2
<1>5. v = [ phase |-> Phase(r), seconds |-> r.seconds, minutes |-> r.minutes, hours |-> r.hours,
            days |-> r.days, halted |-> r.halted, day_carry |-> r.day_carry ]
  BY Zenon DEF View, Phase
<1> HIDE DEF v
<1>6. View(x) = [v EXCEPT !.phase = 0]
  BY <1>4, <1>5
<1> QED BY <1>2, <1>3, <1>6 DEF Whole, v

\* The ranges of the hardware's registers, one by one.
LEMMA HardwareRanges ==
  /\ DOMAIN Hardware = {"subsecond_ticks", "subsecond_tick_thousandths",
                        "seconds", "minutes", "hours", "days"}
  /\ Hardware["subsecond_ticks"] = 0 .. Ticks - 1
  /\ Hardware["subsecond_tick_thousandths"] = 0 .. Millis - 1
  /\ Hardware["seconds"] = 0 .. Size["seconds"] - 1
  /\ Hardware["minutes"] = 0 .. Size["minutes"] - 1
  /\ Hardware["hours"] = 0 .. Size["hours"] - 1
  /\ Hardware["days"] = 0 .. Days - 1
BY DEF Hardware

\* What is kept is in its range or as it was, one by one or by name.
LEMMA KeptByName ==
  ASSUME NEW x, NEW r, Kept(x, r)
  PROVE  \A name \in DOMAIN Hardware : x[name] \in Hardware[name] \/ x[name] = r[name]
BY HardwareRanges DEF Kept

\* A cartridge without a save starts from zero.
LEMMA FreshIsZero ==
  /\ FreshRtc \in Registers /\ View(FreshRtc) = Chip!Zero /\ FreshCart \in Carts
  /\ \A r : Kept(r, FreshRtc) => \A name \in DOMAIN Hardware : r[name] \in Hardware[name]
<1>1. /\ 0 \in 0 .. Ticks - 1 /\ 0 \in 0 .. Millis - 1 /\ 0 \in 0 .. Days - 1
      /\ 0 \in 0 .. Size["seconds"] - 1 /\ 0 \in 0 .. Size["minutes"] - 1 /\ 0 \in 0 .. Size["hours"] - 1
      /\ 0 \in 0 .. Byte - 1 /\ 0 \in 0 .. Word - 1
  BY Positive DEF Fields
<1>2. FreshRtc \in Registers
  BY <1>1 DEF FreshRtc, Registers
<1>3. View(FreshRtc) = Chip!Zero
  <2>1. 0 * Millis + 0 = 0
    BY Positive
  <2> QED BY <2>1 DEF FreshRtc, View, Chip!Zero
<1>4. FreshCart \in Carts
  BY <1>2 DEF FreshCart, Carts
<1>5. ASSUME NEW r, Kept(r, FreshRtc), NEW name \in DOMAIN Hardware PROVE r[name] \in Hardware[name]
  <2>1. r[name] \in Hardware[name] \/ r[name] = FreshRtc[name]
    BY <1>5, KeptByName
  <2>2. FreshRtc[name] = 0
    BY HardwareRanges DEF FreshRtc
  <2>3. 0 \in Hardware[name]
    BY <1>1, HardwareRanges
  <2> QED BY <2>1, <2>2, <2>3
<1> QED BY <1>2, <1>3, <1>4, <1>5

-----------------------------------------------------------------------------
(* The steps of the cartridge and of the page, as the chip sees them. *)

\* What the type invariant says of each variable.
LEMMA Types == TypeOK <=> cart \in Carts /\ page \in Pages /\ saved \in Saves /\ budget \in Budgets
BY DEF TypeOK, Carts, Pages, Saves, Budgets

\* The cartridges and files that were loaded, as the chip counts them.
Loads == MaxLoads - budget.loads

\* What the bounds leave is a number, and only a load is a load.
LEMMA Spending ==
  ASSUME budget \in Budgets, NEW what \in {"accesses", "saves", "loads"}, Spend(what)
  PROVE  budget' \in Budgets /\ Loads' = IF what = "loads" THEN Loads + 1 ELSE Loads
<1>1. budget' = [budget EXCEPT ![what] = @ - 1] /\ budget[what] > 0 /\ MaxLoads \in Nat
  BY RtcAssumption DEF Spend
<1>2. budget[what] \in Nat /\ budget[what] - 1 \in Nat /\ budget.loads \in Nat
  BY <1>1 DEF Budgets
<1>3. budget' \in Budgets
  BY <1>1, <1>2 DEF Budgets
<1>4. budget'.loads = IF what = "loads" THEN budget.loads - 1 ELSE budget.loads
  BY <1>1, <1>2 DEF Budgets
<1> QED BY <1>1, <1>2, <1>3, <1>4 DEF Loads

\* The milliseconds since the save, as the chip counts them.
Away == IF saved.exists THEN Now - saved.saved_at ELSE 0

\* An inserted cartridge has caught up with its save, or holds zeros.
Installed(installed) ==
  /\ installed.cart \in Carts /\ installed.page \in Pages
  /\ saved.exists => CaughtUp(installed, FreshCart, saved)
  /\ ~saved.exists => installed.cart = FreshCart

\* An inserted cartridge is restored from the save, or starts from zero.
LEMMA InstallCatchesUp ==
  ASSUME saved \in Saves, NEW p \in Pages
  PROVE  Installed(Install(p))
<1>1. CASE saved.exists
  <2>1. Install(p) = Restore(FreshCart, p, saved)
    BY <1>1 DEF Install
  <2>2. CaughtUp(Restore(FreshCart, p, saved), FreshCart, saved)
    BY FreshIsZero, RestoreCatchesUp
  <2> QED BY <1>1, <2>1, <2>2 DEF Installed, CaughtUp
<1>2. CASE ~saved.exists
  <2>1. Install(p) = [cart |-> FreshCart, page |-> p]
    BY <1>2 DEF Install
  <2> QED BY <1>2, <2>1, FreshIsZero DEF Installed
<1> QED BY <1>1, <1>2

\* The dirty flag is no business of the chip.
LEMMA DirtyKeeps ==
  ASSUME NEW c \in Carts, NEW b \in BOOLEAN, NEW d, d = [c EXCEPT !.dirty = b]
  PROVE  d \in Carts /\ SameCart(d, c) /\ d.rtc = c.rtc
BY DEF Carts, SameCart

\* Nor is the state of the latch's two writes.
LEMMA ArmKeeps ==
  ASSUME NEW c \in Carts, NEW b \in BOOLEAN, NEW d, d = [c EXCEPT !.latch_armed = b]
  PROVE  /\ d \in Carts /\ d.rtc = c.rtc /\ d.latched = c.latched
         /\ d.anchor = c.anchor /\ d.anchored = c.anchored /\ d.dirty = c.dirty
BY DEF Carts

\* A cartridge with new registers.
LEMMA RtcUpdate ==
  ASSUME NEW c \in Carts, NEW r \in Registers, NEW d, d = [c EXCEPT !.rtc = r, !.dirty = TRUE]
  PROVE  d \in Carts /\ SameCart(d, c) /\ d.rtc = r
BY DEF Carts, SameCart

Latched(c, r) == [c EXCEPT !.latched = r, !.latch_armed = FALSE]

\* A cartridge with a new latched copy.
LEMMA LatchUpdate ==
  ASSUME NEW c \in Carts, NEW r \in Registers
  PROVE  /\ Latched(c, r) \in Carts /\ Latched(c, r).rtc = c.rtc /\ Latched(c, r).latched = r
         /\ Latched(c, r).anchor = c.anchor /\ Latched(c, r).anchored = c.anchored
<1> DEFINE a == [c EXCEPT !.latched = r]
           d == [a EXCEPT !.latch_armed = FALSE]
<1>1. /\ a \in Carts /\ a.rtc = c.rtc /\ a.latched = r
      /\ a.anchor = c.anchor /\ a.anchored = c.anchored
  BY DEF Carts
<1>2. Latched(c, r) = d
  BY DEF Latched
<1> HIDE DEF a
<1>3. /\ d \in Carts /\ d.rtc = a.rtc /\ d.latched = a.latched
      /\ d.anchor = a.anchor /\ d.anchored = a.anchored
  BY <1>1, ArmKeeps
<1> HIDE DEF d
<1> QED BY <1>1, <1>2, <1>3

-----------------------------------------------------------------------------
\* Registers are in their ranges, or as in the save.
Ranged == Kept(cart.rtc, saved.registers)

\* The chip sees a step of the cartridge as one of its own, or not at all.
Seen == TypeOK' /\ Ranged' /\ [Chip!Next]_Chip!chip

\* The type invariant after a step, from the type of each variable.
LEMMA TypesNext ==
  ASSUME cart' \in Carts, page' \in Pages, saved' \in Saves, budget' \in Budgets
  PROVE  TypeOK'
BY DEF TypeOK, Carts, Pages, Saves, Budgets

\* A look at the clock that leaves what it shows: the chip is powered up, or rests.
LEMMA LookIsPowerUp ==
  ASSUME UNCHANGED <<page, saved>>, TypeOK, Ranged, cart' \in Carts, budget' \in Budgets,
         Loads' = Loads, Kept(cart'.rtc, cart.rtc),
         cart'.latched = cart.latched, LiveOf(cart', Now') = LiveOf(cart, Now),
         cart'.anchored = TRUE \/ cart'.anchored = cart.anchored
  PROVE  Seen
<1>1. TypeOK'
  BY Types, TypesNext
<1>2. Now' = Now
  BY DEF Now, Utc
<1>3. Ranged'
  BY KeptTwice DEF Ranged
<1>4. CASE cart'.anchored = TRUE
  <2>1. Chip!PowerUp
    BY <1>2, <1>4 DEF Chip!PowerUp, LiveOf, Loads
  <2> QED BY <1>1, <1>3, <2>1 DEF Seen, Chip!Next
<1>5. CASE cart'.anchored = cart.anchored
  <2>1. UNCHANGED Chip!chip
    BY <1>2, <1>5 DEF Chip!chip, LiveOf, Loads
  <2> QED BY <1>1, <1>3, <2>1 DEF Seen
<1> QED BY <1>4, <1>5

\* A write of the program to a register.
LEMMA WriteIsSeen ==
  ASSUME Inv, TypeOK, Ranged, WriteClock
  PROVE  Seen
<1> DEFINE synced == Sync(cart, Now)
<1>1. Now \in Nat /\ cart.anchor <= Now /\ cart \in Carts
  BY UtcFacts, Types DEF Inv, Now, NothingIsFromTheFuture
<1>2. Looked(synced, cart, Now)
  BY <1>1, SyncLooks
<1>3. PICK write \in ProgramWrites : cart' = StoreRegister(synced, write)
  BY DEF WriteClock
<1>4. UNCHANGED <<page, saved>> /\ Now' = Now
  BY DEF WriteClock, Access, Now, Utc
<1>14. budget' \in Budgets /\ Loads' = Loads
  BY Types, Spending DEF WriteClock, Access
<1> DEFINE r == WriteRegister(synced.rtc, write)
<1>5. cart' = [synced EXCEPT !.rtc = r, !.dirty = TRUE]
  BY <1>3 DEF StoreRegister
<1>6. synced \in Carts /\ synced.rtc \in Registers
  BY <1>2 DEF Looked, Carts
<1>7. Written(r, synced.rtc)
  <2> DEFINE before == synced.rtc
  <2>1. before \in Registers
    BY <1>6
  <2> HIDE DEF before
  <2>2. Written(WriteRegister(before, write), before)
    BY <2>1, WriteKeeps
  <2> QED BY <2>2 DEF before
<1> HIDE DEF synced, r
<1>8. cart' \in Carts /\ SameCart(cart', synced) /\ cart'.rtc = r
  BY <1>5, <1>6, <1>7, RtcUpdate DEF Written
<1>9. cart'.anchored = TRUE /\ cart'.anchor = Now /\ cart'.latched = cart.latched
  BY <1>2, <1>8 DEF SameCart, Looked
<1>10. LiveOf(cart', Now') = View(r)
  BY <1>1, <1>4, <1>8, <1>9, LiveNow
<1>11. Chip!WriteOne(LiveOf(cart, Now), LiveOf(cart', Now'))
  BY <1>2, <1>7, <1>10 DEF Looked, Written
<1>12. Chip!Write
  BY <1>4, <1>9, <1>11, <1>14 DEF Chip!Write, LiveOf, Loads
<1>13. TypeOK'
  BY <1>4, <1>8, <1>14, Types, TypesNext
<1>15. Ranged'
  <2>1. Kept(r, synced.rtc) /\ Kept(synced.rtc, cart.rtc)
    BY <1>2, <1>7 DEF Written, Looked
  <2> QED BY <1>4, <1>8, <2>1, KeptTwice DEF Ranged
<1> QED BY <1>12, <1>13, <1>15 DEF Seen, Chip!Next

\* A write to RAM and any other look at the clock.
LEMMA LookIsSeen ==
  ASSUME Inv, TypeOK, Ranged, WriteRam \/ Look
  PROVE  Seen
<1> DEFINE synced == Sync(cart, Now)
<1>1. Now \in Nat /\ cart.anchor <= Now /\ cart \in Carts
  BY UtcFacts, Types DEF Inv, Now, NothingIsFromTheFuture
<1>2. Looked(synced, cart, Now)
  BY <1>1, SyncLooks
<1>3. UNCHANGED <<page, saved>> /\ Now' = Now
  BY DEF WriteRam, Look, Access, Now, Utc
<1>9. budget' \in Budgets /\ Loads' = Loads
  BY Types, Spending DEF WriteRam, Look, Access, Loads
<1>4. cart' = synced \/ cart' = [synced EXCEPT !.dirty = TRUE]
  BY DEF WriteRam, Look
<1>5. synced \in Carts
  BY <1>2 DEF Looked
<1> HIDE DEF synced
<1>6. cart' \in Carts /\ SameCart(cart', synced) /\ cart'.rtc = synced.rtc
  <2>1. CASE cart' = synced
    BY <1>5, <2>1 DEF SameCart
  <2>2. CASE cart' = [synced EXCEPT !.dirty = TRUE]
    BY <1>5, <2>2, DirtyKeeps
  <2> QED BY <1>4, <2>1, <2>2
<1>7. cart'.anchored = TRUE /\ cart'.anchor = Now /\ cart'.latched = cart.latched
  BY <1>2, <1>6 DEF SameCart, Looked
<1>8. LiveOf(cart', Now') = View(synced.rtc)
  BY <1>1, <1>3, <1>6, <1>7, LiveNow
<1> QED BY <1>2, <1>3, <1>6, <1>7, <1>8, <1>9, LookIsPowerUp DEF Looked

\* The latch is armed or disarmed.
LEMMA ArmIsSeen ==
  ASSUME Inv, TypeOK, Ranged, ArmLatch \/ DisarmLatch
  PROVE  Seen
<1>1. PICK armed \in BOOLEAN : cart' = [cart EXCEPT !.latch_armed = armed]
  BY DEF ArmLatch, DisarmLatch
<1>2. UNCHANGED <<page, saved>> /\ Now' = Now
  BY DEF ArmLatch, DisarmLatch, Now, Utc
<1>3. /\ cart' \in Carts /\ cart'.rtc = cart.rtc /\ cart'.latched = cart.latched
      /\ cart'.anchor = cart.anchor /\ cart'.anchored = cart.anchored
  BY <1>1, Types, ArmKeeps
<1>4. LiveOf(cart', Now') = LiveOf(cart, Now)
  <2>1. CASE cart.anchored = FALSE
    BY <1>3, <2>1 DEF LiveOf
  <2>2. CASE cart.anchored = TRUE
    <3>1. Now \in Nat /\ cart.anchor <= Now
      BY UtcFacts DEF Inv, Now, NothingIsFromTheFuture
    <3> DEFINE c == cart
               d == cart'
               now == Now
    <3>2. c \in Carts /\ d \in Carts /\ d.rtc = c.rtc /\ d.anchor = c.anchor /\ d.anchored = TRUE /\ c.anchored = TRUE
      BY <1>3, <2>2, Types
    <3> HIDE DEF c, d, now
    <3>3. Looked(Sync(c, now), c, now) /\ Looked(Sync(d, now), d, now)
      BY <3>1, <3>2, SyncLooks DEF now, c
    <3>4. LiveOf(d, now) = LiveOf(c, now)
      BY <3>2, <3>3 DEF Looked
    <3> QED BY <1>2, <3>4 DEF c, d, now
  <2> QED BY <2>1, <2>2, Types DEF Carts
<1>5. budget' \in Budgets /\ Loads' = Loads
  BY Types DEF ArmLatch, DisarmLatch, Loads
<1> QED BY <1>2, <1>3, <1>4, <1>5, KeptAlone, LookIsPowerUp

\* A program latches the registers.
LEMMA LatchIsSeen ==
  ASSUME Inv, TypeOK, Ranged, Latch
  PROVE  Seen
<1> DEFINE synced == Sync(cart, Now)
           r == WholeSeconds(synced.rtc)
<1>1. Now \in Nat /\ cart.anchor <= Now /\ cart \in Carts
  BY UtcFacts, Types DEF Inv, Now, NothingIsFromTheFuture
<1>2. Looked(synced, cart, Now)
  BY <1>1, SyncLooks
<1>3. UNCHANGED <<page, saved>> /\ Now' = Now
  BY DEF Latch, Access, Now, Utc
<1>13. budget' \in Budgets /\ Loads' = Loads
  BY Types, Spending DEF Latch, Access
<1>4. cart' = Latched(synced, r)
  BY DEF Latch, Latched
<1>5. synced \in Carts /\ synced.rtc \in Registers
  BY <1>2 DEF Looked, Carts
<1>6. Whole(r, synced.rtc)
  BY <1>5, WholeIsLatched
<1> HIDE DEF synced, r
<1>7. /\ cart' \in Carts /\ cart'.rtc = synced.rtc /\ cart'.latched = r
      /\ cart'.anchor = synced.anchor /\ cart'.anchored = synced.anchored
  <2>1. r \in Registers
    BY <1>6 DEF Whole
  <2> QED BY <1>4, <1>5, <2>1, LatchUpdate
<1>8. cart'.anchored = TRUE /\ cart'.anchor = Now
  BY <1>2, <1>7 DEF Looked
<1>9. LiveOf(cart', Now') = LiveOf(cart, Now)
  <2>1. LiveOf(cart', Now') = View(synced.rtc)
    BY <1>1, <1>3, <1>7, <1>8, LiveNow
  <2> QED BY <1>2, <2>1 DEF Looked
<1>10. View(cart'.latched) = [LiveOf(cart, Now) EXCEPT !.phase = 0]
  <2>1. View(synced.rtc) = LiveOf(cart, Now)
    BY <1>2 DEF Looked
  <2>2. View(r) = [View(synced.rtc) EXCEPT !.phase = 0]
    BY <1>6 DEF Whole
  <2> QED BY <1>7, <2>1, <2>2, Zenon
<1>11. Chip!Latch
  BY <1>3, <1>8, <1>9, <1>10, <1>13 DEF Chip!Latch, LiveOf, Loads
<1>12. TypeOK'
  BY <1>3, <1>7, <1>13, Types, TypesNext
<1>14. Ranged'
  <2>1. Kept(synced.rtc, cart.rtc)
    BY <1>2 DEF Looked
  <2> QED BY <1>3, <1>7, <2>1, KeptTwice DEF Ranged
<1> QED BY <1>11, <1>12, <1>14 DEF Seen, Chip!Next

\* A millisecond passes, unless the page waits for a save that it restored.
LEMMA PassIsSeen ==
  ASSUME Inv, TypeOK, Ranged, PassTime
  PROVE  Seen
<1>1. Now \in Nat /\ cart.anchor <= Now /\ cart \in Carts /\ page \in Pages /\ saved \in Saves
  BY UtcFacts, Types DEF Inv, Now, NothingIsFromTheFuture
<1>2. page' = [page EXCEPT !.clock = @ + 1] /\ UNCHANGED <<cart, saved>>
  BY DEF PassTime
<1>3. /\ page' \in Pages /\ page'.clock = page.clock + 1
      /\ page'.minimum_rtc_utc = page.minimum_rtc_utc
  BY <1>1, <1>2 DEF Pages
<1>4. TypeOK' /\ Ranged' /\ Loads' = Loads
  <2>1. budget' = budget
    BY DEF PassTime
  <2> QED BY <1>2, <1>3, <2>1, Types, TypesNext DEF Ranged, Loads
<1>5. Now' = Now \/ Now' = Now + 1
  BY <1>1, <1>3 DEF Now, Utc, Pages
<1>6. CASE Now' = Now
  <2>1. UNCHANGED Chip!chip
    BY <1>2, <1>4, <1>6 DEF Chip!chip, LiveOf, Loads
  <2> QED BY <1>4, <2>1 DEF Seen
<1>7. CASE Now' = Now + 1
  <2>1. LiveOf(cart', Now') = IF cart.anchored THEN Chip!Millisecond(LiveOf(cart, Now)) ELSE LiveOf(cart, Now)
    BY <1>1, <1>2, <1>7, LiveMovesOn
  <2>2. Away' = IF saved.exists THEN Away + 1 ELSE Away
    <3>1. saved.saved_at \in Nat
      BY <1>1 DEF Saves
    <3> QED BY <1>1, <1>2, <1>7, <3>1 DEF Away
  <2>3. Chip!Pass
    BY <1>2, <1>4, <2>1, <2>2 DEF Chip!Pass, LiveOf, Away, Loads
  <2> QED BY <1>4, <2>3 DEF Seen, Chip!Next
<1> QED BY <1>5, <1>6, <1>7

\* A save is made.
LEMMA SaveIsSeen ==
  ASSUME Inv, TypeOK, Ranged, NEW clear_dirty \in BOOLEAN, MakePortableSave(clear_dirty)
  PROVE  Seen
<1> DEFINE synced == Sync(cart, Now)
           clean == synced.dirty /\ ~clear_dirty
<1>1. Now \in Nat /\ cart.anchor <= Now /\ cart \in Carts
  BY UtcFacts, Types DEF Inv, Now, NothingIsFromTheFuture
<1>2. Looked(synced, cart, Now)
  BY <1>1, SyncLooks
<1>3. page' = page /\ Now' = Now
  BY DEF MakePortableSave, Now, Utc
<1>4. /\ saved' = [exists |-> TRUE, registers |-> synced.rtc, saved_at |-> Now]
      /\ cart' = [synced EXCEPT !.dirty = clean]
  BY DEF MakePortableSave, SaveOf
<1>14. budget' \in Budgets /\ Loads' = Loads
  BY Types, Spending DEF MakePortableSave
<1>5. synced \in Carts /\ synced.rtc \in Registers /\ synced.dirty \in BOOLEAN
  BY <1>2 DEF Looked, Carts
<1>6. clean \in BOOLEAN
  BY <1>5
<1> HIDE DEF synced, clean
<1>7. cart' \in Carts /\ SameCart(cart', synced) /\ cart'.rtc = synced.rtc
  BY <1>4, <1>5, <1>6, DirtyKeeps
<1>8. /\ saved' \in Saves /\ saved'.exists = TRUE /\ saved'.registers = synced.rtc
      /\ saved'.saved_at = Now
  BY <1>1, <1>4, <1>5 DEF Saves
<1>9. cart'.anchored = TRUE /\ cart'.anchor = Now /\ cart'.latched = cart.latched
  BY <1>2, <1>7 DEF SameCart, Looked
<1>10. View(synced.rtc) = LiveOf(cart, Now) /\ LiveOf(cart', Now') = View(synced.rtc)
  <2>1. LiveOf(cart', Now') = View(synced.rtc)
    BY <1>1, <1>3, <1>7, <1>9, LiveNow
  <2> QED BY <1>2, <2>1 DEF Looked
<1>11. Away' = 0
  BY <1>1, <1>3, <1>8 DEF Away
<1>12. Chip!Save
  BY <1>3, <1>8, <1>9, <1>10, <1>11, <1>14 DEF Chip!Save, LiveOf, Away, Loads
<1>13. TypeOK'
  BY <1>3, <1>7, <1>8, <1>14, Types, TypesNext
<1>15. Ranged'
  BY <1>7, <1>8, KeptAlone DEF Ranged
<1> QED BY <1>12, <1>13, <1>15 DEF Seen, Chip!Next

\* A cartridge that has caught up with a save.
LEMMA CatchUpIsTakeUp ==
  ASSUME TypeOK, NEW c \in Carts, NEW p \in Pages, NEW save \in Saves, saved' \in Saves,
         CaughtUp([cart |-> c, page |-> p], FreshCart, save) \/ CaughtUp([cart |-> c, page |-> p], cart, save),
         page' = p, cart' \in Carts, SameCart(cart', c), cart'.rtc = c.rtc,
         \/ saved' = save
         \/ saved'.exists = TRUE /\ saved'.registers = c.rtc /\ saved'.saved_at = Utc(p),
         saved'.exists = TRUE, Spend("loads")
  PROVE  TypeOK' /\ Ranged' /\ Chip!TakeUp
<1> DEFINE now == Utc(p)
           i == [cart |-> c, page |-> p]
<1>0. i.cart = c /\ i.page = p
  OBVIOUS
<1> HIDE DEF i
<1>1. /\ c.anchored = TRUE /\ c.anchor = now /\ save.saved_at <= now
      /\ View(c.rtc) = Chip!After(View(save.registers), now - save.saved_at)
      /\ Kept(c.rtc, save.registers)
  BY <1>0 DEF CaughtUp, i
<1>2. now \in Nat /\ Now' = now /\ save.saved_at \in Nat
  <2>1. now \in Nat
    BY PagesOK, UtcFacts
  <2> QED BY <2>1 DEF Now, Utc, Saves
<1> HIDE DEF now
<1>3. cart'.anchored = TRUE /\ cart'.anchor = now
  BY <1>1 DEF SameCart
<1>4. LiveOf(cart', Now') = View(c.rtc)
  BY <1>2, <1>3, LiveNow
<1>5. budget' \in Budgets /\ Loads' = Loads + 1
  BY Types, Spending
<1>6. TypeOK'
  BY <1>5, TypesNext
<1>7. /\ Away' \in Nat /\ View(c.rtc) = Chip!After(View(saved'.registers), Away')
      /\ Kept(c.rtc, saved'.registers)
  <2>1. CASE saved' = save
    <3>1. Away' = now - save.saved_at
      BY <1>2, <2>1 DEF Away
    <3> QED BY <1>1, <1>2, <2>1, <3>1
  <2>2. CASE saved'.registers = c.rtc /\ saved'.saved_at = Utc(p)
    <3>1. Away' = 0
      BY <1>2, <2>2 DEF Away, now
    <3>2. View(c.rtc) \in Chip!Registers
      BY ViewInRange DEF Carts
    <3>3. Chip!After(View(c.rtc), 0) = View(c.rtc)
      BY <3>2, AfterUnfolds
    <3> QED BY <2>2, <3>1, <3>3, KeptAlone
  <2> QED BY <2>1, <2>2
<1>8. Chip!TakeUp
  BY <1>3, <1>4, <1>5, <1>7 DEF Chip!TakeUp, LiveOf, Away, Loads
<1>9. Ranged'
  BY <1>7 DEF Ranged
<1> QED BY <1>6, <1>8, <1>9

\* The cartridge is inserted.
LEMMA InsertIsSeen ==
  ASSUME Inv, TypeOK, Ranged, InsertCartridge
  PROVE  Seen
<1>1. PICK clock \in 0 .. MaxTime :
        LET installed == Install([clock |-> clock, minimum_rtc_utc |-> 0]) IN
        cart' = installed.cart /\ page' = installed.page
  BY DEF InsertCartridge
<1>2. saved' = saved /\ saved \in Saves /\ Spend("loads")
  BY Types DEF InsertCartridge
<1> DEFINE p == [clock |-> clock, minimum_rtc_utc |-> 0]
           installed == Install(p)
<1>3. p \in Pages
  BY DEF Pages
<1>4. cart' = installed.cart /\ page' = installed.page
  BY <1>1
<1> HIDE DEF p
<1>5. Installed(installed)
  BY <1>2, <1>3, InstallCatchesUp
<1> HIDE DEF installed
<1>6. cart' \in Carts /\ page' \in Pages /\ View(FreshCart.latched) = Chip!Zero
  BY <1>4, <1>5, FreshIsZero DEF Installed, FreshCart
<1>7. CASE saved.exists
  <2>1. /\ CaughtUp([cart |-> cart', page |-> page'], FreshCart, saved)
        /\ cart'.latched = FreshCart.latched
    BY <1>4, <1>5, <1>7 DEF Installed, CaughtUp
  <2>2. SameCart(cart', cart') /\ saved'.exists = TRUE
    BY <1>2, <1>7 DEF SameCart, Saves
  <2>3. TypeOK' /\ Ranged' /\ Chip!TakeUp
    <3> DEFINE c == cart'
               q == page'
               save == saved
    <3>1. /\ c \in Carts /\ q \in Pages /\ save \in Saves /\ saved' = save
          /\ CaughtUp([cart |-> c, page |-> q], FreshCart, save)
          /\ page' = q /\ cart' \in Carts /\ SameCart(cart', c) /\ cart'.rtc = c.rtc
      BY <1>2, <1>6, <2>1, <2>2
    <3> HIDE DEF c, q, save
    <3> QED BY <1>2, <2>2, <3>1, CatchUpIsTakeUp
  <2>4. Chip!Restore
    BY <1>2, <1>6, <1>7, <2>1, <2>3 DEF Chip!Restore
  <2> QED BY <2>3, <2>4 DEF Seen, Chip!Next
<1>8. CASE ~saved.exists
  <2>1. cart' = FreshCart
    BY <1>4, <1>5, <1>8 DEF Installed
  <2>2. cart'.anchored = FALSE /\ cart'.rtc = FreshRtc /\ cart'.latched = FreshRtc
    BY <2>1 DEF FreshCart
  <2>3. LiveOf(cart', Now') = Chip!Zero /\ View(cart'.latched) = Chip!Zero
    BY <2>2, FreshIsZero DEF LiveOf
  <2>4. Away' = Away
    BY <1>2, <1>8 DEF Away
  <2>5. budget' \in Budgets /\ Loads' = Loads + 1
    BY <1>2, Types, Spending
  <2>6. Chip!NewCartridge
    BY <1>2, <1>8, <2>2, <2>3, <2>4, <2>5 DEF Chip!NewCartridge, LiveOf, Away, Loads
  <2>7. TypeOK'
    BY <1>2, <1>6, <2>5, TypesNext
  <2>8. Ranged'
    BY <1>2, <1>8, <2>2, KeptAlone DEF Ranged, Inv
  <2> QED BY <2>6, <2>7, <2>8 DEF Seen, Chip!Next
<1> QED BY <1>7, <1>8

\* A save is imported into the running console.
LEMMA ImportIsSeen ==
  ASSUME Inv, TypeOK, Ranged, ImportSave
  PROVE  Seen
<1>1. PICK file \in Files : Import(file)
  BY DEF ImportSave
<1> DEFINE imported == Restore(cart, page, file)
           c == imported.cart
           p == imported.page
<1>2. file \in Saves /\ file.exists = TRUE /\ file.registers \in Registers
  <2>1. file = [exists |-> file.exists, registers |-> file.registers, saved_at |-> file.saved_at]
    BY FilesAreSaves DEF SaveOK
  <2>2. file.exists = TRUE /\ file.registers \in Registers /\ file.saved_at \in Nat
    BY FilesAreSaves
  <2>3. [exists |-> file.exists, registers |-> file.registers, saved_at |-> file.saved_at] \in Saves
    BY <2>2 DEF Saves
  <2> QED BY <2>1, <2>2, <2>3, Zenon
<1>3. CaughtUp(imported, cart, file)
  BY <1>2, Types, RestoreCatchesUp
<1>4. /\ Spend("loads") /\ page' = p
      /\ \/ cart' = c /\ saved' = file
         \/ cart' = [c EXCEPT !.dirty = FALSE] /\ saved' = SaveOf(c, Utc(p))
  BY <1>1 DEF Import
<1> HIDE DEF imported
<1>5. c \in Carts /\ p \in Pages /\ c.latched = cart.latched /\ CaughtUp([cart |-> c, page |-> p], cart, file)
  BY <1>3 DEF CaughtUp
<1>6. Utc(p) \in Nat /\ c.rtc \in Registers
  BY <1>5, PagesOK, UtcFacts DEF Carts
<1> HIDE DEF c, p
<1>7. cart' \in Carts /\ SameCart(cart', c) /\ cart'.rtc = c.rtc
  <2>1. CASE cart' = c
    BY <1>5, <2>1 DEF SameCart
  <2>2. CASE cart' = [c EXCEPT !.dirty = FALSE]
    BY <1>5, <2>2, DirtyKeeps
  <2> QED BY <1>4, <2>1, <2>2
<1>8. /\ saved' \in Saves /\ saved'.exists = TRUE /\ saved'.registers \in Registers
      /\ \/ saved' = file
         \/ saved'.exists = TRUE /\ saved'.registers = c.rtc /\ saved'.saved_at = Utc(p)
  <2>1. CASE saved' = file
    BY <1>2, <2>1
  <2>2. CASE saved' = SaveOf(c, Utc(p))
    BY <1>6, <2>2 DEF SaveOf, Saves
  <2> QED BY <1>4, <2>1, <2>2
<1>9. TypeOK' /\ Ranged' /\ Chip!TakeUp
  BY <1>2, <1>4, <1>5, <1>7, <1>8, CatchUpIsTakeUp
<1>10. View(saved'.registers) \in Chip!Registers
  BY <1>8, ViewInRange
<1>11. cart'.latched = cart.latched
  BY <1>5, <1>7 DEF SameCart
<1>12. Chip!Import
  BY <1>8, <1>9, <1>10, <1>11 DEF Chip!Import
<1> QED BY <1>9, <1>12 DEF Seen, Chip!Next

\* Every step of the cartridge and the page is a step of the chip, or none.
LEMMA StepIsSeen ==
  ASSUME Inv, TypeOK, Ranged, [Next]_vars
  PROVE  Seen
<1>1. CASE UNCHANGED vars
  <2>1. TypeOK' /\ Ranged'
    BY <1>1 DEF vars, TypeOK, Ranged
  <2>2. UNCHANGED Chip!chip
    BY <1>1 DEF vars, Chip!chip, Now, Utc
  <2> QED BY <2>1, <2>2 DEF Seen
<1>2. ASSUME NEW clear_dirty \in BOOLEAN, MakePortableSave(clear_dirty) PROVE Seen
  BY <1>2, SaveIsSeen
<1> QED BY <1>1, <1>2, WriteIsSeen, LookIsSeen, ArmIsSeen, LatchIsSeen, PassIsSeen,
           InsertIsSeen, ImportIsSeen DEF Next

\* What the player starts with.
LEMMA StartIsSeen ==
  ASSUME Init
  PROVE  TypeOK /\ Ranged /\ Chip!Init
<1> DEFINE p == [clock |-> 0, minimum_rtc_utc |-> 0]
           installed == Install(p)
<1>1. saved \in Saves
  <2>1. CASE saved = NoSave
    BY <2>1, FreshIsZero DEF NoSave, Saves
  <2>2. CASE saved \in Files
    <3>1. saved = [exists |-> saved.exists, registers |-> saved.registers, saved_at |-> saved.saved_at]
      BY <2>2, FilesAreSaves DEF SaveOK
    <3>2. saved.exists = TRUE /\ saved.registers \in Registers /\ saved.saved_at \in Nat
      BY <2>2, FilesAreSaves
    <3>3. [exists |-> saved.exists, registers |-> saved.registers, saved_at |-> saved.saved_at] \in Saves
      BY <3>2 DEF Saves
    <3> QED BY <3>1, <3>3, Zenon
  <2> QED BY <2>1, <2>2 DEF Init
<1>2. p \in Pages
  BY DEF Pages
<1>3. cart = installed.cart /\ page = installed.page
  BY DEF Init
<1> HIDE DEF p
<1>4. Installed(installed)
  BY <1>1, <1>2, InstallCatchesUp
<1> HIDE DEF installed
<1>5. cart \in Carts /\ page \in Pages /\ TypeOK /\ Loads = 0
  <2>1. budget = [accesses |-> MaxAccesses, saves |-> MaxSaves, loads |-> MaxLoads]
    BY DEF Init
  <2>2. budget \in Budgets /\ Loads = 0
    BY <2>1, RtcAssumption DEF Budgets, Loads
  <2> QED BY <1>1, <1>3, <1>4, <2>2, Types DEF Installed
<1>6. Now \in Nat /\ saved.saved_at \in Nat /\ View(saved.registers) \in Chip!Registers
  <2>1. saved.registers \in Registers /\ saved.saved_at \in Nat
    BY <1>1 DEF Saves
  <2> QED BY <1>5, <2>1, PagesOK, UtcFacts, ViewInRange DEF Now
<1>7. View(FreshCart.latched) = Chip!Zero /\ View(FreshCart.rtc) = Chip!Zero
  BY FreshIsZero DEF FreshCart
<1>8. CASE saved.exists
  <2>1. CaughtUp(installed, FreshCart, saved)
    BY <1>4, <1>8 DEF Installed
  <2>2. /\ cart.latched = FreshCart.latched /\ cart.anchored = TRUE /\ cart.anchor = Now
        /\ saved.saved_at <= Now /\ saved.exists = TRUE
        /\ View(cart.rtc) = Chip!After(View(saved.registers), Now - saved.saved_at)
    BY <1>1, <1>3, <1>8, <2>1 DEF CaughtUp, Now, Saves
  <2>3. LiveOf(cart, Now) = View(cart.rtc)
    BY <1>5, <1>6, <2>2, LiveNow
  <2>4. Away \in Nat /\ LiveOf(cart, Now) = Chip!After(View(saved.registers), Away)
    BY <1>6, <2>2, <2>3 DEF Away
  <2>5. Chip!Init
    BY <1>5, <1>6, <1>7, <2>2, <2>4 DEF Chip!Init, LiveOf, Away, Loads
  <2>6. Ranged
    BY <1>3, <2>1 DEF CaughtUp, Ranged
  <2> QED BY <1>5, <2>5, <2>6
<1>9. CASE ~saved.exists
  <2>1. cart = FreshCart
    BY <1>3, <1>4, <1>9 DEF Installed
  <2>2. cart.anchored = FALSE /\ LiveOf(cart, Now) = Chip!Zero /\ View(cart.latched) = Chip!Zero
    BY <1>7, <2>1 DEF FreshCart, LiveOf
  <2>3. Away \in Nat
    BY <1>9 DEF Away
  <2>4. Chip!Init
    BY <1>5, <1>6, <1>9, <2>2, <2>3 DEF Chip!Init, LiveOf, Away, Loads
  <2>5. saved.registers = FreshRtc /\ cart.rtc = FreshRtc
    BY <1>9, <2>1, InitInv DEF Inv, FreshCart
  <2>6. Ranged
    BY <2>5, KeptAlone DEF Ranged
  <2> QED BY <1>5, <2>4, <2>6
<1> QED BY <1>8, <1>9

\* The registers keep the widths of their variables, and what a file did not put
\* there keeps the ranges of the hardware.
LEMMA AlwaysTyped == Spec => [](Inv /\ TypeOK /\ Ranged)
<1>1. Init => Inv /\ TypeOK /\ Ranged
  BY InitInv, StartIsSeen
<1>2. (Inv /\ TypeOK /\ Ranged) /\ [Next]_vars => (Inv /\ TypeOK /\ Ranged)'
  BY StepInv, StepIsSeen DEF Seen
<1> QED BY <1>1, <1>2, PTL DEF Spec

\* No leap, tick or store takes a register out of the hardware's range: one that
\* is out of it still has the value that a file gave it.
THEOREM OnlyFilesBringOthers == Spec => []OnlyFilesLeaveTheRange
<1>1. Inv /\ Ranged => OnlyFilesLeaveTheRange
  <2> SUFFICES ASSUME Inv, Ranged, NEW name \in DOMAIN Hardware
               PROVE  \/ cart.rtc[name] \in Hardware[name]
                      \/ saved.exists /\ cart.rtc[name] = saved.registers[name]
    BY DEF OnlyFilesLeaveTheRange
  <2>1. CASE saved.exists
    <3> DEFINE r == cart.rtc
               s == saved.registers
    <3>1. Kept(r, s)
      BY DEF Ranged
    <3> HIDE DEF r, s
    <3>2. r[name] \in Hardware[name] \/ r[name] = s[name]
      BY <3>1, KeptByName
    <3> QED BY <2>1, <3>2 DEF r, s
  <2>2. CASE ~saved.exists
    BY <2>2, FreshIsZero DEF Inv, Ranged
  <2> QED BY <2>1, <2>2
<1> QED BY <1>1, AlwaysTyped, PTL

\* Registers computed in leaps are those of a chip that counts every millisecond.
THEOREM ClockIsTheChip == Spec => ImplementsChip
<1>1. Init => Chip!Init
  BY StartIsSeen
<1>2. (Inv /\ TypeOK /\ Ranged) /\ [Next]_vars => [Chip!Next]_Chip!chip
  BY StepIsSeen DEF Seen
<1> QED BY <1>1, <1>2, AlwaysTyped, PTL DEF Spec, Chip!Spec, ImplementsChip
=============================================================================
