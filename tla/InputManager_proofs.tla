-------------------------- MODULE InputManager_proofs --------------------------
(***************************************************************************)
(* Proofs about InputManager, for any sizes of surface and screen, any     *)
(* positions and keys, and any greatest tracking id; and about KeymapTable *)
(* with it, for any keymaps.  What is rounded, scaled and mapped comes     *)
(* first, then the state of the manager, then the engine and the overlay.  *)
(***************************************************************************)
EXTENDS KeymapTable, TLAPS

------------------------------------------------------------------------------
(* Rounding.                                                               *)

(* An integer quotient.                                                    *)
LEMMA Quotient ==
  ASSUME NEW a \in Int, NEW b \in Nat \ {0}
  PROVE  a \div b \in Int /\ b * (a \div b) <= a /\ a < b * (a \div b) + b
OBVIOUS

(* A product grows with its factor.                                        *)
LEMMA ProductGrows ==
  ASSUME NEW b \in Nat, NEW c \in Int, NEW d \in Int, c <= d
  PROVE  b * c \in Int /\ b * d \in Int /\ b * c <= b * d
OBVIOUS

(* And by at least that for each unit that the factor is greater.          *)
LEMMA ProductSteps ==
  ASSUME NEW b \in Nat, NEW c \in Int, NEW d \in Int, c < d
  PROVE  b * c \in Int /\ b * d \in Int /\ b * c + b <= b * d
OBVIOUS

(* A quotient is rounded to the nearest, and a tie away from zero.         *)
LEMMA Rounds ==
  ASSUME NEW a \in Int, NEW b \in Nat \ {0}
  PROVE  \E r, m \in Int :
            /\ r = Round(a, b) /\ m = b * r
            /\ 2*m <= 2*a + b /\ 2*a - b <= 2*m
            /\ a >= 0 => 2*a - b < 2*m
            /\ a < 0 => 2*m < 2*a + b
<1>1. CASE a >= 0
  <2> DEFINE q == (2*a + b) \div (2*b)
  <2>1. q \in Int /\ (2*b) * q <= 2*a + b /\ 2*a + b < (2*b) * q + 2*b
    <3>1. 2*a + b \in Int /\ 2*b \in Nat \ {0}
      OBVIOUS
    <3> QED
      BY <3>1, Quotient
  <2>2. (2*b) * q = 2*(b * q) /\ b * q \in Int
    BY <2>1
  <2>3. Round(a, b) = q
    BY <1>1 DEF Round
  <2> HIDE DEF q
  <2>4. PICK m \in Int : m = b * q
    BY <2>2
  <2>5. 2*m <= 2*a + b /\ 2*a - b < 2*m
    BY <2>1, <2>2, <2>4
  <2> QED
    BY <1>1, <2>1, <2>3, <2>4, <2>5
<1>2. CASE a < 0
  <2> DEFINE q == (b - 2*a) \div (2*b)
  <2>1. q \in Int /\ (2*b) * q <= b - 2*a /\ b - 2*a < (2*b) * q + 2*b
    <3>1. b - 2*a \in Int /\ 2*b \in Nat \ {0}
      OBVIOUS
    <3> QED
      BY <3>1, Quotient
  <2>2. (2*b) * q = 2*(b * q) /\ b * q \in Int
    BY <2>1
  <2>3. Round(a, b) = -q
    BY <1>2 DEF Round
  <2> HIDE DEF q
  <2>4. PICK m \in Int : m = b * q
    BY <2>2
  <2>5. b * (-q) = -m
    BY <2>1, <2>4
  <2>6. 2*(-m) < 2*a + b /\ 2*a - b <= 2*(-m)
    BY <2>1, <2>2, <2>4
  <2>7. -q \in Int /\ -m \in Int
    BY <2>1
  <2> QED
    BY <1>2, <2>3, <2>5, <2>6, <2>7
<1> QED
  BY <1>1, <1>2

(* A multiple is its own quotient.                                         *)
LEMMA RoundsExactly ==
  ASSUME NEW n \in Int, NEW b \in Nat \ {0}
  PROVE  Round(b * n, b) = n
<1>1. PICK a \in Int : a = b * n
  OBVIOUS
<1>2. PICK r \in Int, m \in Int : r = Round(a, b) /\ m = b * r /\ 2*m <= 2*a + b /\ 2*a - b <= 2*m
  BY Rounds
<1>3. ~(r < n)
  <2>1. r < n => m + b <= a
    BY <1>1, <1>2, ProductSteps
  <2> QED
    BY <1>2, <2>1
<1>4. ~(n < r)
  <2>1. n < r => a + b <= m
    BY <1>1, <1>2, ProductSteps
  <2> QED
    BY <1>2, <2>1
<1> QED
  BY <1>1, <1>2, <1>3, <1>4

(* Of the multiples of b, that of the rounded quotient is nearest to a.    *)
LEMMA NearestMultiple ==
  ASSUME NEW a \in Int, NEW b \in Nat \ {0}, NEW c \in Int
  PROVE  Abs(a - b * Round(a, b)) <= Abs(a - b * c)
<1>1. PICK r \in Int, m \in Int : r = Round(a, b) /\ m = b * r /\ 2*m <= 2*a + b /\ 2*a - b <= 2*m
  BY Rounds
<1>2. PICK n \in Int : n = b * c
  OBVIOUS
<1>3. c < r => n + b <= m
  BY <1>1, <1>2, ProductSteps
<1>4. r < c => m + b <= n
  BY <1>1, <1>2, ProductSteps
<1>5. c = r => n = m
  BY <1>1, <1>2
<1>6. Abs(a - m) <= Abs(a - n)
  <2>1. c < r \/ r < c \/ c = r
    BY <1>1
  <2>2. CASE n + b <= m
    BY <1>1, <1>2, <2>2 DEF Abs
  <2>3. CASE m + b <= n
    BY <1>1, <1>2, <2>3 DEF Abs
  <2>4. CASE n = m
    BY <1>1, <1>2, <2>4 DEF Abs
  <2> QED
    BY <1>3, <1>4, <1>5, <2>1, <2>2, <2>3, <2>4
<1> QED
  BY <1>1, <1>2, <1>6

(* Of the multiples by 0..hi, that of the quotient cut to them is.         *)
LEMMA NearestClamped ==
  ASSUME NEW a \in Int, NEW b \in Nat \ {0}, NEW hi \in Nat, NEW c \in 0 .. hi
  PROVE  /\ Clamp(Round(a, b), hi) \in 0 .. hi
         /\ Abs(a - b * Clamp(Round(a, b), hi)) <= Abs(a - b * c)
<1>1. PICK r \in Int, m \in Int : r = Round(a, b) /\ m = b * r /\ 2*m <= 2*a + b /\ 2*a - b <= 2*m
  BY Rounds
<1>2. PICK n \in Int : n = b * c
  OBVIOUS
<1>3. CASE r \in 0 .. hi
  <2>1. Clamp(r, hi) = r
    BY <1>3 DEF Clamp
  <2>2. c \in Int
    OBVIOUS
  <2> QED
    BY <1>1, <1>3, <2>1, <2>2, NearestMultiple
<1>4. CASE r < 0
  <2>1. Clamp(r, hi) = 0 /\ b * 0 = 0
    BY <1>4 DEF Clamp
  <2>2. m + b <= 0 /\ 0 <= n
    BY <1>1, <1>2, <1>4, <2>1, ProductSteps, ProductGrows
  <2>3. Abs(a - 0) <= Abs(a - n)
    BY <1>1, <1>2, <2>2 DEF Abs
  <2> QED
    BY <1>1, <1>2, <2>1, <2>3
<1>5. CASE r > hi
  <2>1. Clamp(r, hi) = hi
    BY <1>5 DEF Clamp
  <2>2. PICK h \in Int : h = b * hi
    OBVIOUS
  <2>3. h + b <= m
    BY <1>1, <1>5, <2>2, ProductSteps
  <2>4. n <= h
    BY <1>2, <2>2, ProductGrows
  <2>5. Abs(a - h) <= Abs(a - n)
    BY <1>1, <1>2, <2>2, <2>3, <2>4 DEF Abs
  <2> QED
    BY <1>1, <1>2, <2>1, <2>2, <2>5
<1> QED
  BY <1>1, <1>3, <1>4, <1>5

(* Quotients that are one apart or more are rounded to different numbers.  *)
LEMMA RoundsApart ==
  ASSUME NEW a \in Int, NEW d \in Int, NEW b \in Nat \ {0}, a + b <= d
  PROVE  Round(a, b) < Round(d, b)
<1>1. PICK r \in Int, m \in Int :
        /\ r = Round(a, b) /\ m = b * r
        /\ 2*m <= 2*a + b /\ 2*a - b <= 2*m
        /\ a >= 0 => 2*a - b < 2*m
        /\ a < 0 => 2*m < 2*a + b
  BY Rounds
<1>2. PICK s \in Int, n \in Int :
        /\ s = Round(d, b) /\ n = b * s
        /\ 2*n <= 2*d + b /\ 2*d - b <= 2*n
        /\ d >= 0 => 2*d - b < 2*n
        /\ d < 0 => 2*n < 2*d + b
  BY Rounds
<1>3. m < n
  BY <1>1, <1>2
<1>4. s <= r => n <= m
  BY <1>1, <1>2, ProductGrows
<1> QED
  BY <1>1, <1>2, <1>3, <1>4

------------------------------------------------------------------------------
(* Positions: a pixel is drawn, and a position mapped, by one proportion.  *)

(* Distances that are measured in another unit compare the same.           *)
LEMMA AbsScales ==
  ASSUME NEW d \in Nat, NEW e \in Nat, NEW x \in Int, NEW u \in Int, d * u = e * x
  PROVE  d * Abs(u) = e * Abs(x)
<1>1. PICK m \in Int : m = d * u
  OBVIOUS
<1>2. d * (-u) = -m /\ e * (-x) = -m
  BY <1>1
<1>3. (u >= 0 => m >= 0) /\ (u < 0 => m <= 0) /\ (x >= 0 => m >= 0) /\ (x < 0 => m <= 0)
  BY <1>1, ProductGrows
<1>4. (d * Abs(u) = m \/ d * Abs(u) = -m) /\ (e * Abs(x) = m \/ e * Abs(x) = -m)
  BY <1>1, <1>2 DEF Abs
<1>5. Abs(u) \in Nat /\ Abs(x) \in Nat
  BY DEF Abs
<1>6. d * Abs(u) >= 0 /\ e * Abs(x) >= 0
  BY <1>5, ProductGrows
<1> QED
  BY <1>1, <1>4, <1>6

(* So which is the shorter does not depend on the unit.                    *)
LEMMA Rescaled ==
  ASSUME NEW d \in Nat \ {0}, NEW e \in Nat, NEW x \in Int, NEW y \in Int,
         NEW u \in Int, NEW v \in Int, d * u = e * x, d * v = e * y, Abs(x) <= Abs(y)
  PROVE  Abs(u) <= Abs(v)
<1>1. Abs(x) \in Int /\ Abs(y) \in Int /\ Abs(u) \in Int /\ Abs(v) \in Int
  BY DEF Abs
<1>2. d * Abs(u) = e * Abs(x) /\ d * Abs(v) = e * Abs(y)
  BY AbsScales
<1>3. d * Abs(u) <= d * Abs(v)
  BY <1>1, <1>2, ProductGrows
<1>4. Abs(v) < Abs(u) => d * Abs(v) + d <= d * Abs(u)
  BY <1>1, ProductSteps
<1> QED
  BY <1>1, <1>3, <1>4

(* The pairs of sizes that Drawn chooses from, and the one that            *)
(* Recalculate takes.                                                      *)
Sizes == Nat \X Nat
Screens == (Nat \ {0}) \X (Nat \ {0})
Pairs(host, guest) == {<<host[1], guest[1]>>, <<host[2], guest[2]>>}
Fitting(host, guest) ==
    {s \in Pairs(host, guest) : \A j \in {1, 2} : guest[j] * s[1] <= host[j] * s[2]}
Tight(m) == <<m.num, m.den>>

(* The pair that is taken fits, and any other that does is the same        *)
(* proportion, so it makes no difference which is chosen.                  *)
LEMMA TightFits ==
  ASSUME NEW h \in Sizes, NEW g \in Screens
  PROVE  /\ Tight(Recalculate(h, g)) \in Fitting(h, g)
         /\ Fitting(h, g) \subseteq Nat \X (Nat \ {0})
         /\ \A s \in Fitting(h, g) :
                s[1] * Recalculate(h, g).den = s[2] * Recalculate(h, g).num
<1> DEFINE m == Recalculate(h, g)
<1>1. /\ h[1] \in Nat /\ h[2] \in Nat /\ g[1] \in Nat \ {0} /\ g[2] \in Nat \ {0}
  BY DEF Sizes, Screens
<1>2. Fitting(h, g) \subseteq Nat \X (Nat \ {0})
  BY <1>1 DEF Fitting, Pairs
<1>3. PICK a \in Nat, b \in Nat : a = h[1] * g[2] /\ b = h[2] * g[1]
  BY <1>1
<1>4. /\ g[1] * h[2] = b /\ g[2] * h[1] = a
      /\ g[1] * h[1] = h[1] * g[1] /\ g[2] * h[2] = h[2] * g[2]
      /\ g[1] * h[1] \in Nat /\ g[2] * h[2] \in Nat
  BY <1>1, <1>3
<1>5. \A s \in Pairs(h, g) :
        \/ s = <<h[1], g[1]>> /\ (s \in Fitting(h, g) <=> a <= b)
        \/ s = <<h[2], g[2]>> /\ (s \in Fitting(h, g) <=> b <= a)
  <2> SUFFICES ASSUME NEW s \in Pairs(h, g)
               PROVE  \/ s = <<h[1], g[1]>> /\ (s \in Fitting(h, g) <=> a <= b)
                      \/ s = <<h[2], g[2]>> /\ (s \in Fitting(h, g) <=> b <= a)
    OBVIOUS
  <2>1. CASE s = <<h[1], g[1]>>
    <3>1. s \in Fitting(h, g) <=> g[1] * h[1] <= h[1] * g[1] /\ g[2] * h[1] <= h[2] * g[1]
      BY <2>1 DEF Fitting, Pairs
    <3> QED
      BY <1>3, <1>4, <2>1, <3>1
  <2>2. CASE s = <<h[2], g[2]>>
    <3>1. s \in Fitting(h, g) <=> g[1] * h[2] <= h[1] * g[2] /\ g[2] * h[2] <= h[2] * g[2]
      BY <2>2 DEF Fitting, Pairs
    <3> QED
      BY <1>3, <1>4, <2>2, <3>1
  <2> QED
    BY <2>1, <2>2 DEF Pairs
<1>6. CASE a <= b
  <2>1. m.num = h[1] /\ m.den = g[1]
    BY <1>3, <1>6 DEF Recalculate
  <2>2. <<h[1], g[1]>> \in Fitting(h, g)
    BY <1>3, <1>4, <1>6 DEF Fitting, Pairs
  <2>3. \A s \in Fitting(h, g) : s[1] * g[1] = s[2] * h[1]
    <3> SUFFICES ASSUME NEW s \in Fitting(h, g) PROVE s[1] * g[1] = s[2] * h[1]
      OBVIOUS
    <3>1. s \in Pairs(h, g)
      BY DEF Fitting
    <3>2. CASE s = <<h[1], g[1]>>
      BY <1>4, <3>2
    <3>3. CASE s = <<h[2], g[2]>> /\ b <= a
      BY <1>3, <1>4, <1>6, <3>3
    <3> QED
      BY <1>5, <3>1, <3>2, <3>3
  <2> QED
    BY <1>2, <2>1, <2>2, <2>3 DEF Tight
<1>7. CASE b < a
  <2>1. m.num = h[2] /\ m.den = g[2]
    BY <1>3, <1>7 DEF Recalculate
  <2>2. <<h[2], g[2]>> \in Fitting(h, g)
    BY <1>3, <1>4, <1>7 DEF Fitting, Pairs
  <2>3. \A s \in Fitting(h, g) : s[1] * g[2] = s[2] * h[2]
    <3> SUFFICES ASSUME NEW s \in Fitting(h, g) PROVE s[1] * g[2] = s[2] * h[2]
      OBVIOUS
    <3>1. s \in Pairs(h, g)
      BY DEF Fitting
    <3>2. s = <<h[2], g[2]>>
      BY <1>3, <1>5, <1>7, <3>1
    <3> QED
      BY <1>4, <3>2
  <2> QED
    BY <1>2, <2>1, <2>2, <2>3 DEF Tight
<1> QED
  BY <1>3, <1>6, <1>7

(* A distance to where a pixel is drawn, in the units of either pair.      *)
LEMMA SameLine ==
  ASSUME NEW d \in Int, NEW n \in Int, NEW s \in Int, NEW e \in Int, s * d = e * n,
         NEW h \in Int, NEW g \in Int, NEW x \in Int, NEW k \in Int
  PROVE  d * (2*e*x - (h*e - g*s + 2*s*k)) = e * (2*d*x - (h*d - g*n) - 2*n*k)
OBVIOUS

(* How far a point of an axis is from where pixel c is drawn.              *)
Far(host, guest, i, x, c) ==
    LET d == Drawn(host, guest, i, c) IN Abs(d.unit * x - d.at)

(* The pixel of an axis that a position is mapped to is the nearest.       *)
LEMMA MappedIsNearest ==
  ASSUME NEW h \in Sizes, NEW g \in Screens, 0 \notin {h[1], h[2]},
         NEW p \in Int \X Int, NEW i \in {1, 2}, NEW c \in 0 .. g[i] - 1
  PROVE  /\ MapAxis(Recalculate(h, g), p, i) \in 0 .. g[i] - 1
         /\ Far(h, g, i, p[i], MapAxis(Recalculate(h, g), p, i)) <= Far(h, g, i, p[i], c)
<1> DEFINE m == Recalculate(h, g)
           q == MapAxis(m, p, i)
<1>1. /\ h[1] \in Nat \ {0} /\ h[2] \in Nat \ {0} /\ g[1] \in Nat \ {0} /\ g[2] \in Nat \ {0}
      /\ h[i] \in Nat \ {0} /\ g[i] \in Nat \ {0} /\ p[i] \in Int
  BY DEF Sizes, Screens
<1>2. /\ m.num \in Nat \ {0} /\ m.den \in Nat \ {0} /\ m.guest = g
      /\ m.box[i] = h[i]*m.den - g[i]*m.num
  BY <1>1 DEF Recalculate
<1>3. PICK d \in Nat \ {0}, n \in Nat \ {0}, y \in Nat \ {0}, z \in Nat \ {0}, x \in Int :
        d = m.den /\ n = m.num /\ y = h[i] /\ z = g[i] /\ x = p[i]
  BY <1>1, <1>2
<1> DEFINE a == 2*d*x - (y*d - z*n)
<1>4. q = Clamp(Round(a, 2*n), z - 1)
  BY <1>2, <1>3 DEF MapAxis
<1>5. PICK w \in Nat, e \in Nat \ {0} :
        /\ w*d = e*n
        /\ \A k : Drawn(h, g, i, k) = [at |-> y*e - z*w + 2*w*k, unit |-> 2*e]
  <2> DEFINE t == CHOOSE s \in Fitting(h, g) : TRUE
  <2>1. t \in Fitting(h, g)
    BY TightFits
  <2>2. t[1] \in Nat /\ t[2] \in Nat \ {0} /\ t[1]*d = t[2]*n
    BY <1>3, <2>1, TightFits
  <2>3. \A k : Drawn(h, g, i, k) = [at |-> y*t[2] - z*t[1] + 2*t[1]*k, unit |-> 2*t[2]]
    BY <1>3 DEF Drawn, Fitting, Pairs
  <2> HIDE DEF t
  <2> QED
    BY <2>2, <2>3
<1> HIDE DEF m, q
<1>6. a \in Int
  <2>1. 2*d*x \in Int /\ y*d \in Int /\ z*n \in Int
    OBVIOUS
  <2> QED
    BY <2>1
<1>7. ASSUME NEW k \in Int
      PROVE  \E u, v \in Int :
                /\ d*u = e*v /\ v = a - (2*n)*k
                /\ Far(h, g, i, p[i], k) = Abs(u)
  <2> DEFINE u == 2*e*x - (y*e - z*w + 2*w*k)
             v == a - (2*n)*k
  <2>1. u \in Int
    <3>1. y*e \in Int /\ z*w \in Int /\ 2*w*k \in Int /\ 2*e*x \in Int
      OBVIOUS
    <3> QED
      BY <3>1
  <2>2. v \in Int
    <3>1. (2*n)*k \in Int
      OBVIOUS
    <3> QED
      BY <1>6, <3>1
  <2>3. d*u = e*v
    <3>1. w*d = e*n
      BY <1>5
    <3>2. d*u = e*(2*d*x - (y*d - z*n) - 2*n*k)
      BY <3>1, SameLine
    <3>3. (2*n)*k = 2*n*k
      OBVIOUS
    <3> QED
      BY <3>2, <3>3
  <2>4. Far(h, g, i, p[i], k) = Abs(u)
    BY <1>3, <1>5 DEF Far
  <2> HIDE DEF u
  <2> QED
    BY <2>1, <2>2, <2>3, <2>4
<1> HIDE DEF a
<1>8. q \in 0 .. z - 1 /\ Abs(a - (2*n)*q) <= Abs(a - (2*n)*c)
  <2>1. 2*n \in Nat \ {0} /\ z - 1 \in Nat /\ c \in 0 .. z - 1
    BY <1>3
  <2> QED
    BY <1>4, <1>6, <2>1, NearestClamped
<1>9. q \in Int /\ c \in Int
  BY <1>8
<1>10. Far(h, g, i, p[i], q) <= Far(h, g, i, p[i], c)
  <2>1. PICK u \in Int, v \in Int :
            d*u = e*v /\ v = a - (2*n)*q /\ Far(h, g, i, p[i], q) = Abs(u)
    BY <1>7, <1>9
  <2>2. PICK s \in Int, t \in Int :
            d*s = e*t /\ t = a - (2*n)*c /\ Far(h, g, i, p[i], c) = Abs(s)
    BY <1>7, <1>9
  <2>3. Abs(v) <= Abs(t)
    BY <1>8, <2>1, <2>2
  <2>4. d*u = e*v /\ d*s = e*t
    BY <2>1, <2>2
  <2>5. Abs(u) <= Abs(s)
    BY <2>3, <2>4, Rescaled
  <2> QED
    BY <2>1, <2>2, <2>5
<1> QED
  BY <1>3, <1>8, <1>10 DEF m, q

(* PixelIsNearest of metrics that Recalculate made. *)
LEMMA RecalculatedIsNearest ==
  ASSUME metrics \in {Recalculate(h, g) : h \in HostSizes, g \in GuestSizes}
  PROVE  PixelIsNearest
<1>1. PICK h \in HostSizes, g \in GuestSizes : metrics = Recalculate(h, g)
  OBVIOUS
<1>2. h \in Sizes /\ g \in Screens /\ metrics.host = h /\ metrics.guest = g
  BY <1>1, SizeAssumption DEF Recalculate, Sizes, Screens
<1> SUFFICES ASSUME 0 \notin {h[1], h[2]}, NEW p \in Points, NEW i \in {1, 2},
                    NEW c \in 0 .. g[i] - 1
             PROVE  Far(h, g, i, p[i], MapHostToGuest(metrics, p)[i]) <= Far(h, g, i, p[i], c)
  BY <1>2 DEF PixelIsNearest, Far
<1>3. p \in Int \X Int
  BY SizeAssumption
<1>4. MapHostToGuest(metrics, p)[i] = MapAxis(Recalculate(h, g), p, i)
  BY <1>1 DEF MapHostToGuest
<1> QED
  BY <1>2, <1>3, <1>4, MappedIsNearest

------------------------------------------------------------------------------
(* The manager's invariant.                                                *)

(* What the properties need to be inductive: a device that cannot be       *)
(* reached has nothing down, only a pressed button pinches, and the grab's *)
(* last position is the pointer's, or from before a pinch moved it.        *)
Unreached ==
    socket # "open" =>
        device.keys = {} /\ ~device.touch /\ \A s \in Slots : device.slots[s] = Up
PinchIsHeld == pinch => button
LastFollows ==
    last # NoPoint => grabbed /\ (skipped \/ last = pointer)

IInv ==
    /\ TypeOK
    /\ NoGhostTouch
    /\ TwoFingers
    /\ Unreached
    /\ PinchIsHeld
    /\ LastFollows

(* TypeOK in three: the device, the metrics and what is left.              *)
Devices == [keys : SUBSET Keys, touch : BOOLEAN, slots : [Slots -> Ids], rel : Moves \cup {Still}]
Metrics == {Recalculate(h, g) : h \in HostSizes, g \in GuestSizes}
RestOK ==
    /\ socket \in {"none", "open", "broken"}
    /\ grabbed \in BOOLEAN /\ last \in Points \cup {NoPoint} /\ skipped \in BOOLEAN
    /\ pinch \in BOOLEAN /\ nextId \in Ids /\ here \in BOOLEAN /\ wrapped \in BOOLEAN
    /\ held \subseteq Keys /\ button \in BOOLEAN /\ pointer \in Points

(* TypeOK is the three of them.                                            *)
LEMMA TypesInThree == TypeOK <=> device \in Devices /\ metrics \in Metrics /\ RestOK
BY DEF TypeOK, Devices, Metrics, RestOK

------------------------------------------------------------------------------
(* Tracking ids.                                                           *)

(* A tracking id that is taken, and the next one to take, is an i32.       *)
LEMMA WrapInIds ==
  ASSUME NEW n \in Ids, NEW i \in {0, 1, 2}
  PROVE  Wrap(n + i) \in Ids
BY IdAssumption DEF Wrap, Ids

(* Two that are taken one after the other differ, unless one is negative.  *)
LEMMA WrapDiffers ==
  ASSUME NEW n \in Ids, Wrap(n) >= 0, Wrap(n + 1) >= 0
  PROVE  Wrap(n) # Wrap(n + 1) /\ Up \notin {Wrap(n), Wrap(n + 1)}
BY IdAssumption DEF Wrap, Ids, Up

------------------------------------------------------------------------------
(* Types.                                                                  *)

(* The initial state.                                                      *)
LEMMA InitInv == Init => IInv
<1> SUFFICES ASSUME Init PROVE IInv
  OBVIOUS
<1>1. NothingDown \in Devices
  BY IdAssumption DEF NothingDown, Devices, Ids, Up, Slots, Moves
<1>2. metrics \in Metrics /\ RestOK
  <2>1. 0 \in Ids
    BY IdAssumption DEF Ids
  <2>2. metrics \in Metrics
    BY DEF Init, Metrics
  <2>3. RestOK
    <3>1. /\ socket = "none" /\ grabbed = FALSE /\ last = NoPoint /\ skipped = FALSE
          /\ pinch = FALSE /\ nextId = 0 /\ here = FALSE /\ wrapped = FALSE
          /\ held = {} /\ button = FALSE /\ pointer \in Points
      BY DEF Init
    <3>2. QED
      BY <2>1, <3>1 DEF RestOK
  <2>4. QED
    BY <2>2, <2>3
<1>3. NoGhostTouch /\ TwoFingers /\ Unreached /\ PinchIsHeld /\ LastFollows
  BY DEF Init, NoGhostTouch, TwoFingers, Unreached, PinchIsHeld, LastFollows, NothingDown
<1>4. QED
  BY <1>1, <1>2, <1>3, TypesInThree DEF IInv, Init

(* Each batch makes a device of a device.                                  *)
LEMMA BatchTypes ==
  ASSUME TypeOK
  PROVE  /\ Quiet \in Devices
         /\ \A k \in Keys, pressed \in BOOLEAN : TranslateKey(k, pressed) \in Devices
         /\ \A p \in Points : TranslateRelativeMotion(Delta(p)) \in Devices
         /\ TranslateLeftPress \in Devices /\ TranslateLeftRelease \in Devices
         /\ TranslateRightClick \in Devices
         /\ \A ids \in [Slots -> Ids], down \in BOOLEAN : TranslatePinch(ids, down) \in Devices
         /\ NothingDown \in Devices
<1> USE DEF Devices, TypeOK
<1>1. Quiet \in Devices
  BY DEF Quiet
<1>2. ASSUME NEW k \in Keys, NEW pressed \in BOOLEAN PROVE TranslateKey(k, pressed) \in Devices
  BY <1>1, <1>2 DEF TranslateKey
<1>3. ASSUME NEW p \in Points PROVE TranslateRelativeMotion(Delta(p)) \in Devices
  <2>1. Delta(p) \in Moves \cup {Still}
    BY <1>3 DEF Delta, Moves
  <2>2. QED
    BY <1>1, <2>1 DEF TranslateRelativeMotion
<1>4. TranslateLeftPress \in Devices /\ TranslateLeftRelease \in Devices
  BY <1>1 DEF TranslateLeftPress, TranslateLeftRelease
<1>5. TranslateRightClick \in Devices
  BY <1>1 DEF TranslateRightClick
<1>6. ASSUME NEW ids \in [Slots -> Ids], NEW down \in BOOLEAN PROVE TranslatePinch(ids, down) \in Devices
  BY <1>1, <1>6 DEF TranslatePinch
<1>7. NothingDown \in Devices
  BY IdAssumption DEF NothingDown, Ids, Up, Slots, Moves
<1>8. QED
  BY <1>1, <1>2, <1>3, <1>4, <1>5, <1>6, <1>7

(* The device is one in every step.                                        *)
LEMMA DeviceStep == TypeOK /\ [Next]_vars => device' \in Devices
<1> SUFFICES ASSUME TypeOK, [Next]_vars PROVE device' \in Devices
  OBVIOUS
<1>1. device \in Devices
  BY TypesInThree
<1>2. /\ Quiet \in Devices /\ NothingDown \in Devices
      /\ TranslateLeftPress \in Devices /\ TranslateLeftRelease \in Devices
      /\ TranslateRightClick \in Devices
  BY BatchTypes
<1>3. ASSUME NEW k \in Keys, NEW pressed \in BOOLEAN, HandleKey(k, pressed) PROVE device' \in Devices
  <2>1. TranslateKey(k, pressed) \in Devices
    BY BatchTypes
  <2>2. QED
    BY <1>2, <1>3, <2>1 DEF HandleKey, Inject
<1>4. ASSUME NEW p \in Points, HandleMotion(p) PROVE device' \in Devices
  <2>1. TranslateRelativeMotion(Delta(p)) \in Devices
    BY BatchTypes
  <2>2. QED
    BY <1>2, <1>4, <2>1 DEF HandleMotion, Inject
<1>5. ASSUME PinchBegin PROVE device' \in Devices
  <2> DEFINE ids == [s \in Slots |-> Wrap(nextId + s)]
  <2>1. nextId \in Ids
    BY DEF TypeOK
  <2>2. ids \in [Slots -> Ids]
    BY <2>1, WrapInIds DEF Slots
  <2>3. TranslatePinch(ids, TRUE) \in Devices
    BY <2>2, BatchTypes
  <2>4. QED
    BY <1>2, <1>5, <2>3 DEF PinchBegin, Inject
<1>6. ASSUME PinchEnd PROVE device' \in Devices
  <2>1. [s \in Slots |-> Up] \in [Slots -> Ids]
    BY IdAssumption DEF Ids, Up
  <2>2. TranslatePinch([s \in Slots |-> Up], FALSE) \in Devices
    BY <2>1, BatchTypes
  <2>3. QED
    BY <1>2, <1>6, <2>2 DEF PinchEnd, Inject
<1>7. ASSUME NEW ctrl \in BOOLEAN, LeftPress(ctrl) PROVE device' \in Devices
  BY <1>2, <1>5, <1>7 DEF LeftPress, Inject
<1>8. CASE LeftRelease \/ RightPress \/ EndPinchIfActive
  BY <1>2, <1>6, <1>8 DEF LeftRelease, RightPress, EndPinchIfActive, Inject
<1>9. CASE Configure
  BY <1>2, <1>9 DEF Configure, Connect, Disconnected, UpdateHost, UpdateGuest
<1>10. CASE HandleScroll \/ ToggleGrab \/ ResetGrabPosition
  BY <1>2, <1>10 DEF HandleScroll, ToggleGrab, ResetGrabPosition, Inject
<1>11. CASE UNCHANGED vars
  BY <1>1, <1>11 DEF vars
<1>12. QED
  BY <1>3, <1>4, <1>7, <1>8, <1>9, <1>10, <1>11 DEF Next, Handle

(* The metrics are always those of a surface and a screen.                 *)
LEMMA MetricsStep == TypeOK /\ [Next]_vars => metrics' \in Metrics
<1> SUFFICES ASSUME TypeOK, [Next]_vars PROVE metrics' \in Metrics
  OBVIOUS
<1>1. PICK h \in HostSizes, g \in GuestSizes : metrics = Recalculate(h, g)
  BY DEF TypeOK
<1>2. metrics.host = h /\ metrics.guest = g
  BY <1>1 DEF Recalculate
<1>3. ASSUME NEW size \in HostSizes, UpdateHost(size) PROVE metrics' \in Metrics
  BY <1>2, <1>3 DEF UpdateHost, Metrics
<1>4. ASSUME NEW size \in GuestSizes, UpdateGuest(size) PROVE metrics' \in Metrics
  BY <1>2, <1>4 DEF UpdateGuest, Metrics
<1>5. CASE UNCHANGED metrics
  BY <1>1, <1>5 DEF Metrics
<1>6. QED
  BY <1>3, <1>4, <1>5 DEF Next, Configure, Handle, vars, Connect, Disconnected, HandleKey,
     HandleMotion, HandleScroll, LeftPress, LeftRelease, RightPress, ToggleGrab,
     ResetGrabPosition, EndPinchIfActive

(* The rest is of its types in every step.                                 *)
LEMMA RestStep == TypeOK /\ [Next]_vars => RestOK'
<1> SUFFICES ASSUME RestOK, [Next]_vars PROVE RestOK'
  BY TypesInThree
<1> USE DEF RestOK, gestureVars, grabVars, hostVars
<1>1. CASE Configure
  BY <1>1 DEF Configure, Connect, Disconnected, UpdateHost, UpdateGuest
<1>2. ASSUME NEW k \in Keys, NEW pressed \in BOOLEAN, HandleKey(k, pressed) PROVE RestOK'
  BY <1>2 DEF HandleKey
<1>3. ASSUME NEW p \in Points, HandleMotion(p) PROVE RestOK'
  BY <1>3 DEF HandleMotion
<1>4. CASE HandleScroll \/ ToggleGrab \/ ResetGrabPosition
  BY <1>4 DEF HandleScroll, ToggleGrab, ResetGrabPosition
<1>5. ASSUME NEW ctrl \in BOOLEAN, LeftPress(ctrl) PROVE RestOK'
  <2>1. Wrap(nextId + 2) \in Ids
    BY WrapInIds
  <2>2. QED
    BY <1>5, <2>1 DEF LeftPress, PinchBegin
<1>6. CASE LeftRelease \/ RightPress \/ EndPinchIfActive
  BY <1>6 DEF LeftRelease, RightPress, EndPinchIfActive, PinchEnd
<1>7. CASE UNCHANGED vars
  BY <1>7 DEF vars
<1>8. QED
  BY <1>1, <1>2, <1>3, <1>4, <1>5, <1>6, <1>7 DEF Next, Handle

(* The types are kept by every step.                                       *)
LEMMA TypeStep == TypeOK /\ [Next]_vars => TypeOK'
<1> SUFFICES ASSUME TypeOK, [Next]_vars PROVE TypeOK'
  OBVIOUS
<1>1. device' \in Devices /\ metrics' \in Metrics /\ RestOK'
  BY DeviceStep, MetricsStep, RestStep
<1>2. QED
  BY <1>1 DEF TypeOK, Devices, Metrics, RestOK

------------------------------------------------------------------------------
(* Steps.                                                                  *)

(* What a batch that is injected leaves on the device.                     *)
LEMMA InjectEffect ==
  ASSUME TypeOK, NEW batch, Inject(batch)
  PROVE  /\ socket = "open" => device' = batch
         /\ socket # "open" => device' = Quiet
BY DEF Inject

(* The fields of the batches.                                              *)
LEMMA BatchFields ==
  ASSUME TypeOK
  PROVE  /\ Quiet.keys = device.keys /\ Quiet.touch = device.touch
         /\ Quiet.slots = device.slots /\ Quiet.rel = Still
         /\ \A d : /\ TranslateRelativeMotion(d).keys = device.keys
                   /\ TranslateRelativeMotion(d).touch = device.touch
                   /\ TranslateRelativeMotion(d).slots = device.slots
                   /\ TranslateRelativeMotion(d).rel = d
         /\ /\ TranslateLeftPress.keys = device.keys /\ TranslateLeftPress.touch = TRUE
            /\ TranslateLeftPress.slots = device.slots /\ TranslateLeftPress.rel = Still
         /\ /\ TranslateLeftRelease.keys = device.keys /\ TranslateLeftRelease.touch = FALSE
            /\ TranslateLeftRelease.slots = device.slots /\ TranslateLeftRelease.rel = Still
         /\ /\ TranslateRightClick.keys = device.keys \ {Back}
            /\ TranslateRightClick.touch = device.touch
            /\ TranslateRightClick.slots = device.slots /\ TranslateRightClick.rel = Still
         /\ /\ NothingDown.keys = {} /\ NothingDown.touch = FALSE
            /\ NothingDown.slots = [s \in Slots |-> Up] /\ NothingDown.rel = Still
BY DEF TypeOK, Quiet, TranslateRelativeMotion, TranslateLeftPress,
   TranslateLeftRelease, TranslateRightClick, NothingDown

(* Those of a key's batch.                                                *)
LEMMA KeyFields ==
  ASSUME TypeOK, NEW k \in Keys, NEW pressed \in BOOLEAN
  PROVE  LET batch == TranslateKey(k, pressed)
         IN  /\ batch.touch = device.touch /\ batch.slots = device.slots /\ batch.rel = Still
             /\ batch.keys = IF pressed THEN device.keys \cup {k} ELSE device.keys \ {k}
BY DEF TypeOK, Quiet, TranslateKey

(* Those of a pinch's.                                                     *)
LEMMA PinchFields ==
  ASSUME TypeOK, NEW ids, NEW down \in BOOLEAN
  PROVE  LET batch == TranslatePinch(ids, down)
         IN  /\ batch.keys = device.keys /\ batch.rel = Still
             /\ batch.slots = ids /\ (batch.touch <=> down)
BY DEF TypeOK, Quiet, TranslatePinch

(* A pinch that begins: two different ids, if the device is reached.       *)
LEMMA PinchBegins ==
  ASSUME TypeOK, Unreached, PinchBegin
  PROVE  /\ device'.keys = device.keys /\ device'.rel = Still
         /\ pinch' /\ (here' <=> socket = "open")
         /\ socket # "open" => ~device'.touch /\ \A s \in Slots : device'.slots[s] = Up
         /\ socket = "open" /\ ~wrapped' =>
               device'.slots[0] # device'.slots[1] /\ Up \notin {device'.slots[0], device'.slots[1]}
<1> DEFINE ids == [s \in Slots |-> Wrap(nextId + s)]
<1>1. device' = IF socket = "open" THEN TranslatePinch(ids, TRUE) ELSE Quiet
  BY DEF PinchBegin, Inject
<1>2. nextId \in Ids /\ ids[0] = Wrap(nextId) /\ ids[1] = Wrap(nextId + 1)
  BY DEF TypeOK, Slots, Ids
<1>3. ids[0] \in Ids /\ ids[1] \in Ids
  <2>1. Wrap(nextId + 0) \in Ids /\ Wrap(nextId + 1) \in Ids
    BY <1>2, WrapInIds
  <2>2. QED
    BY <1>2, <2>1 DEF Slots
<1>4. ~wrapped' => ids[0] >= 0 /\ ids[1] >= 0
  <2>1. wrapped' = (wrapped \/ \E s \in Slots : ids[s] < 0)
    BY DEF PinchBegin
  <2>2. ~wrapped' => ~(ids[0] < 0) /\ ~(ids[1] < 0)
    BY <2>1 DEF Slots
  <2>3. QED
    BY <1>3, <2>2, IdAssumption DEF Ids
<1>5. ~wrapped' => ids[0] # ids[1] /\ Up \notin {ids[0], ids[1]}
  BY <1>2, <1>4, WrapDiffers
<1>6. socket = "open" => /\ device'.keys = device.keys /\ device'.rel = Still
                        /\ device'.slots = ids
  <2>1. TRUE \in BOOLEAN
    OBVIOUS
  <2>2. QED
    BY <1>1, <2>1, PinchFields
<1>7. socket # "open" => /\ device'.keys = device.keys /\ device'.rel = Still
                        /\ device'.slots = device.slots /\ device'.touch = device.touch
  BY <1>1, BatchFields
<1>8. pinch' /\ (here' <=> socket = "open")
  BY DEF PinchBegin
<1>9. CASE socket = "open"
  <2>1. ~wrapped' =>
            device'.slots[0] # device'.slots[1] /\ Up \notin {device'.slots[0], device'.slots[1]}
    BY <1>5, <1>6, <1>9
  <2>2. QED
    BY <1>6, <1>8, <1>9, <2>1
<1>10. CASE socket # "open"
  BY <1>7, <1>8, <1>10 DEF Unreached
<1>11. QED
  BY <1>9, <1>10

(* A pinch that ends: nothing is left of it, reached or not.               *)
LEMMA PinchEnds ==
  ASSUME TypeOK, Unreached, PinchEnd
  PROVE  /\ device'.keys = device.keys /\ device'.rel = Still
         /\ ~pinch' /\ ~device'.touch /\ \A s \in Slots : device'.slots[s] = Up
<1>1. device' = IF socket = "open" THEN TranslatePinch([s \in Slots |-> Up], FALSE) ELSE Quiet
  BY DEF PinchEnd, Inject
<1>2. ~pinch'
  BY DEF PinchEnd
<1>3. CASE socket = "open"
  <2>1. /\ device'.keys = device.keys /\ device'.rel = Still
        /\ device'.slots = [s \in Slots |-> Up] /\ (device'.touch <=> FALSE)
    <3>1. FALSE \in BOOLEAN
      OBVIOUS
    <3>2. QED
      BY <1>1, <1>3, <3>1, PinchFields
  <2>2. QED
    BY <1>2, <2>1
<1>4. CASE socket # "open"
  BY <1>1, <1>2, <1>4, BatchFields DEF Unreached
<1>5. QED
  BY <1>3, <1>4

Plain(batch) == batch.slots = device.slots

(* A batch that is no pinch's leaves the slots, and on a device that is    *)
(* not reached nothing.                                                    *)
LEMMA PlainBatch ==
  ASSUME TypeOK, Unreached, NEW batch, Plain(batch), Inject(batch)
  PROVE  /\ device'.slots = device.slots
         /\ socket = "open" => device' = batch
         /\ socket # "open" => /\ device'.keys = {} /\ ~device'.touch
                               /\ \A s \in Slots : device'.slots[s] = Up
<1>1. device' = IF socket = "open" THEN batch ELSE Quiet
  BY DEF Inject
<1>2. QED
  BY <1>1, BatchFields DEF Plain, Unreached

(* The guest's fingers, its touch and its keys, with what they rest on.    *)
Fingers == NoGhostTouch /\ TwoFingers /\ Unreached /\ PinchIsHeld

(* Fingers come and go with the button and the pinch.                      *)
LEMMA FingersStep == TypeOK /\ Fingers /\ [Next]_vars => Fingers'
<1> SUFFICES ASSUME TypeOK, Fingers, [Next]_vars PROVE Fingers'
  OBVIOUS
<1> USE DEF Fingers, NoGhostTouch, TwoFingers, Unreached, PinchIsHeld
<1>0. Unreached
  OBVIOUS
<1>1. CASE Connect \/ Disconnected
  <2>1. device' = NothingDown
    BY <1>1 DEF Connect, Disconnected
  <2>2. /\ device'.keys = {} /\ ~device'.touch /\ \A s \in Slots : device'.slots[s] = Up
    BY <2>1, BatchFields
  <2>3. QED
    BY <1>1, <2>2 DEF Connect, Disconnected, gestureVars, hostVars, Slots
<1>2. ASSUME device' = Quiet, UNCHANGED <<socket, gestureVars, held, button>> PROVE Fingers'
  <2>1. device'.keys = device.keys /\ device'.touch = device.touch /\ device'.slots = device.slots
    BY <1>2, BatchFields
  <2>2. QED
    BY <1>2, <2>1 DEF gestureVars
<1>3. ASSUME NEW k \in Keys, NEW pressed \in BOOLEAN, HandleKey(k, pressed) PROVE Fingers'
  <2>1. Plain(TranslateKey(k, pressed))
    BY KeyFields DEF Plain
  <2>2. Inject(TranslateKey(k, pressed)) /\ UNCHANGED <<socket, gestureVars, button>>
    BY <1>3 DEF HandleKey
  <2>3. CASE socket = "open"
    <3>1. device' = TranslateKey(k, pressed)
      BY <2>2, <2>3 DEF Inject
    <3>2. /\ device'.keys = IF pressed THEN device.keys \cup {k} ELSE device.keys \ {k}
          /\ device'.touch = device.touch /\ device'.slots = device.slots
      BY <3>1, KeyFields
    <3>3. held' = IF pressed THEN held \cup {k} ELSE held \ {k}
      BY <1>3 DEF HandleKey
    <3>4. QED
      BY <2>2, <2>3, <3>2, <3>3 DEF gestureVars
  <2>4. CASE socket # "open"
    <3>1. device'.keys = {} /\ ~device'.touch /\ \A s \in Slots : device'.slots[s] = Up
      BY <1>0, <2>1, <2>2, <2>4, PlainBatch
    <3>2. QED
      BY <2>2, <2>4, <3>1 DEF gestureVars
  <2>5. QED
    BY <2>3, <2>4
<1>4. ASSUME NEW p \in Points, HandleMotion(p) PROVE Fingers'
  <2>1. UNCHANGED <<socket, gestureVars, held, button>>
    BY <1>4 DEF HandleMotion
  <2>2. device' = Quiet \/ device' = TranslateRelativeMotion(Delta(p))
    BY <1>4 DEF HandleMotion, Inject
  <2>3. device'.keys = device.keys /\ device'.touch = device.touch /\ device'.slots = device.slots
    BY <2>2, BatchFields
  <2>4. QED
    BY <2>1, <2>3 DEF gestureVars
<1>5. ASSUME NEW ctrl \in BOOLEAN, LeftPress(ctrl) PROVE Fingers'
  <2>0. button' /\ ~button /\ UNCHANGED <<socket, held>>
    BY <1>5 DEF LeftPress
  <2>1. CASE PinchBegin
    BY <1>0, <2>0, <2>1, PinchBegins DEF Slots
  <2>2. CASE Inject(TranslateLeftPress) /\ UNCHANGED gestureVars
    <3>1. device' = Quiet \/ (socket = "open" /\ device' = TranslateLeftPress)
      BY <2>2 DEF Inject
    <3>2. /\ device'.keys = device.keys /\ device'.slots = device.slots
          /\ socket # "open" => device'.touch = device.touch
      BY <3>1, BatchFields
    <3>3. QED
      BY <2>0, <2>2, <3>2 DEF gestureVars
  <2>3. QED
    BY <1>5, <2>1, <2>2 DEF LeftPress
<1>6. CASE LeftRelease
  <2>0. ~button' /\ UNCHANGED <<socket, held>>
    BY <1>6 DEF LeftRelease
  <2>1. CASE PinchEnd
    BY <1>0, <2>0, <2>1, PinchEnds
  <2>2. CASE ~pinch /\ Inject(TranslateLeftRelease) /\ UNCHANGED gestureVars
    <3>1. (device' = Quiet /\ socket # "open") \/ device' = TranslateLeftRelease
      BY <2>2 DEF Inject
    <3>2. device'.keys = device.keys /\ device'.slots = device.slots /\ ~device'.touch
      BY <3>1, BatchFields
    <3>3. QED
      BY <2>0, <2>2, <3>2 DEF gestureVars
  <2>3. QED
    BY <1>6, <2>1, <2>2 DEF LeftRelease
<1>7. CASE RightPress
  <2>1. device' = Quiet \/ device' = TranslateRightClick
    BY <1>7 DEF RightPress, Inject
  <2>2. /\ device'.keys \subseteq device.keys
        /\ device'.touch = device.touch /\ device'.slots = device.slots
    BY <2>1, BatchFields
  <2>3. UNCHANGED <<socket, gestureVars, held, button>>
    BY <1>7 DEF RightPress, hostVars
  <2>4. QED
    BY <2>2, <2>3 DEF gestureVars
<1>8. CASE EndPinchIfActive
  <2>1. PinchEnd /\ UNCHANGED <<socket, held, button>>
    BY <1>8 DEF EndPinchIfActive, hostVars
  <2>2. QED
    BY <1>0, <2>1, PinchEnds
<1>9. CASE HandleScroll \/ ToggleGrab \/ ResetGrabPosition
  BY <1>2, <1>9 DEF HandleScroll, ToggleGrab, ResetGrabPosition, Inject, hostVars
<1>10. ASSUME NEW size, UpdateHost(size) \/ UpdateGuest(size) PROVE Fingers'
  BY <1>2, <1>10 DEF UpdateHost, UpdateGuest, hostVars
<1>11. CASE UNCHANGED vars
  BY <1>11 DEF vars, gestureVars, hostVars
<1>12. QED
  BY <1>1, <1>3, <1>4, <1>5, <1>6, <1>7, <1>8, <1>9, <1>10, <1>11 DEF Next, Configure, Handle

(* The grab's last position is the pointer's.                              *)
LEMMA LastStep == TypeOK /\ LastFollows /\ [Next]_vars => LastFollows'
<1> SUFFICES ASSUME TypeOK, LastFollows, [Next]_vars PROVE LastFollows'
  OBVIOUS
<1>1. CASE UNCHANGED <<grabVars, pointer>>
  BY <1>1 DEF LastFollows, grabVars
<1>2. CASE ToggleGrab \/ ResetGrabPosition
  BY <1>2 DEF ToggleGrab, ResetGrabPosition, LastFollows
<1>3. ASSUME NEW p \in Points, HandleMotion(p) PROVE LastFollows'
  BY <1>3 DEF HandleMotion, LastFollows, grabVars
<1>4. QED
  BY <1>1, <1>2, <1>3 DEF Next, Configure, Handle, vars, hostVars, Connect, Disconnected,
     UpdateHost, UpdateGuest, HandleKey, HandleScroll, LeftPress, LeftRelease, RightPress,
     EndPinchIfActive

------------------------------------------------------------------------------
(* The engine and the overlay.                                             *)

(* What the properties need to be inductive: what the engine has, and what *)
(* the overlay shows, has passed the checks of a load.                     *)
TableInv ==
    /\ active # NoKeymap =>
        active \in [keymap : Files, display : GuestSizes] /\ Validate(active.keymap)
    /\ overlay # NoKeymap =>
        overlay \in [keymap : Files, surface : HostSizes] /\ Validate(overlay.keymap)

(* Each operation of the engine and of the overlay keeps it.               *)
LEMMA TableStep ==
  ASSUME metrics \in Metrics, TableInv, Table
  PROVE  TableInv'
<1>1. metrics.host \in HostSizes /\ metrics.guest \in GuestSizes
  BY DEF Metrics, Recalculate
<1>2. ASSUME NEW f \in Files \cup {NoKeymap}, LoadStr(f) PROVE TableInv'
  <2>1. CASE Loads(f)
    BY <1>1, <1>2, <2>1 DEF LoadStr, Loads, TableInv
  <2>2. CASE ~Loads(f)
    BY <1>2, <2>2 DEF LoadStr, TableInv
  <2> QED
    BY <2>1, <2>2
<1>3. ASSUME NEW f \in Files \cup {NoKeymap}, ToggleOverlay(f) PROVE TableInv'
  <2>1. CASE ~visible /\ Loads(f)
    BY <1>1, <1>3, <2>1 DEF ToggleOverlay, Loads, TableInv
  <2>2. CASE ~(~visible /\ Loads(f))
    BY <1>3, <2>2 DEF ToggleOverlay, TableInv
  <2> QED
    BY <2>1, <2>2
<1>4. ASSUME Unload PROVE TableInv'
  BY <1>4 DEF Unload, TableInv
<1>5. ASSUME UpdateResolution PROVE TableInv'
  <2>1. /\ active' = [active EXCEPT !.display = metrics.guest] /\ overlay' = overlay
        /\ active \in [keymap : Files, display : GuestSizes] /\ Validate(active.keymap)
    BY <1>5 DEF UpdateResolution, Rescale, TableInv
  <2>2. active' \in [keymap : Files, display : GuestSizes] /\ active'.keymap = active.keymap
    BY <1>1, <2>1
  <2>3. Validate(active'.keymap)
    BY <2>1, <2>2
  <2> QED
    BY <2>1, <2>2, <2>3 DEF TableInv
<1> QED
  BY <1>2, <1>3, <1>4, <1>5 DEF Table

(* key_index has the binding of each key that is at one place.             *)
LEMMA KeyIndexed ==
  ASSUME NEW k \in Files, Validate(k), NEW p \in Places(k)
  PROVE  KeyIndex(k)[KeyAt(k, p)] = p[1]
<1> DEFINE key == KeyAt(k, p)
           Has(i) == /\ \E j \in DOMAIN k.bindings[i].keys : k.bindings[i].keys[j] = key
                     /\ \A q \in Places(k) : KeyAt(k, q) = key => q[1] <= i
<1>1. /\ p \in (DOMAIN k.bindings) \X (1 .. 4)
      /\ p[2] \in DOMAIN k.bindings[p[1]].keys /\ k.bindings[p[1]].keys[p[2]] = key
  BY DEF Places, KeyAt
<1>2. \A q \in Places(k) : KeyAt(k, q) = key => q = p
  BY DEF Validate
<1>3. p[1] \in DOMAIN k.bindings /\ p[1] \in Nat
  BY <1>1, FileAssumption
<1>4. Has(p[1])
  BY <1>1, <1>2, <1>3
<1>5. ASSUME NEW i \in DOMAIN k.bindings, Has(i) PROVE i = p[1]
  <2>1. PICK j \in DOMAIN k.bindings[i].keys : k.bindings[i].keys[j] = key
    BY <1>5
  <2>2. k.bindings[i].keys \in Seq(Names) /\ Len(k.bindings[i].keys) \in {1, 4}
    BY FileAssumption DEF IsBinding
  <2>3. j \in 1 .. 4
    BY <2>1, <2>2
  <2>4. <<i, j>> \in Places(k) /\ KeyAt(k, <<i, j>>) = key
    BY <2>1, <2>3 DEF Places, KeyAt
  <2> QED
    BY <1>2, <2>4
<1>6. KeyIndex(k)[key] = CHOOSE i \in DOMAIN k.bindings : Has(i)
  BY DEF KeyIndex
<1> HIDE DEF Has
<1> QED
  BY <1>3, <1>4, <1>5, <1>6

(* A distance has no direction.                                            *)
LEMMA AbsMinus ==
  ASSUME NEW m \in Int, NEW n \in Int
  PROVE  Abs(m - n) = Abs(n - m)
BY DEF Abs

(* The i32s are whole numbers, of both signs. *)
LEMMA Width ==
  /\ MaxInt \in Nat \ {0} /\ I32 \subseteq Int
  /\ \A n \in Int : Saturate(n) \in I32 /\ WrapInt(n) \in Int
  /\ \A n \in I32 : Saturate(n) = n
BY WidthAssumption DEF I32, Saturate, WrapInt

(* A coordinate that is scaled is an i32, by an authored 0 too.            *)
LEMMA ScaledIsInt ==
  ASSUME NEW x \in Int, NEW d \in Nat, NEW r \in Nat
  PROVE  ScaleAxis(x, d, r) \in I32
<1>1. CASE r > 0
  <2>1. Round(x * d, r) \in Int
    BY <1>1, Rounds
  <2> QED
    BY <1>1, <2>1, Width DEF ScaleAxis
<1>2. CASE ~(r > 0)
  BY <1>2, Width DEF ScaleAxis, I32
<1> QED
  BY <1>1, <1>2

(* It is as near as any of them. *)
LEMMA ScaledIsNearest ==
  ASSUME NEW x \in Int, NEW d \in Nat \ {0}, NEW r \in Nat \ {0}, NEW n \in I32
  PROVE  Abs(ScaleAxis(x, d, r) * r - x * d) <= Abs(n * r - x * d)
<1>1. PICK a \in Int : a = x * d
  OBVIOUS
<1>2. PICK q \in Int, m \in Int : q = Round(a, r) /\ m = r * q /\ 2*m <= 2*a + r /\ 2*a - r <= 2*m
  BY Rounds
<1>3. PICK c \in Int : c = Saturate(q) /\ c = ScaleAxis(x, d, r) /\ c \in I32
  <2>1. Saturate(q) \in I32 /\ Saturate(q) \in Int
    BY <1>2, Width
  <2>2. r > 0
    OBVIOUS
  <2>3. ScaleAxis(x, d, r) = Saturate(q)
    BY <1>1, <1>2, <2>2 DEF ScaleAxis
  <2> QED
    BY <2>1, <2>3
<1>4. PICK t \in Int, u \in Int : t = r * n /\ u = r * c
  BY Width
<1>5. n \in Int /\ -(MaxInt + 1) <= n /\ n <= MaxInt
  BY Width DEF I32
<1>6. Abs(a - u) <= Abs(a - t)
  <2>1. CASE c = q
    BY <1>1, <1>2, <1>4, <1>5, <2>1, NearestMultiple
  <2>2. CASE c < q
    <3>1. n <= c
      BY <1>2, <1>3, <1>5, <2>2, Width DEF Saturate
    <3>2. u + r <= m /\ t <= u
      BY <1>2, <1>4, <1>5, <2>2, <3>1, ProductSteps, ProductGrows
    <3> QED
      BY <1>1, <1>2, <1>4, <3>2 DEF Abs
  <2>3. CASE q < c
    <3>1. c <= n
      BY <1>2, <1>3, <1>5, <2>3, Width DEF Saturate
    <3>2. m + r <= u /\ u <= t
      BY <1>2, <1>4, <1>5, <2>3, <3>1, ProductSteps, ProductGrows
    <3> QED
      BY <1>1, <1>2, <1>4, <3>2 DEF Abs
  <2> QED
    BY <1>2, <1>3, <2>1, <2>2, <2>3
<1>7. u = c * r /\ t = n * r
  BY <1>4, <1>5
<1>8. Abs(a - u) = Abs(u - a) /\ Abs(a - t) = Abs(t - a)
  BY <1>1, <1>4, AbsMinus
<1> QED
  BY <1>1, <1>3, <1>6, <1>7, <1>8

(* Two that differ still do on a screen that is no smaller, short of what  *)
(* an i32 cannot hold.                                                     *)
LEMMA ScaledApart ==
  ASSUME NEW x \in Int, NEW y \in Int, x < y, NEW d \in Nat \ {0}, NEW r \in Nat \ {0}, r <= d
  PROVE  \/ ScaleAxis(x, d, r) < ScaleAxis(y, d, r)
         \/ ScaleAxis(x, d, r) \in {-(MaxInt + 1), MaxInt}
<1>1. PICK a \in Int, b \in Int : a = x * d /\ b = y * d
  OBVIOUS
<1>2. a + d <= b
  <2>1. d * x = a /\ d * y = b
    BY <1>1
  <2> QED
    BY <2>1, ProductSteps
<1>3. a + r <= b
  BY <1>2
<1>4. PICK m \in Int, n \in Int : m = Round(a, r) /\ n = Round(b, r) /\ m < n
  BY <1>1, <1>3, Rounds, RoundsApart
<1>5. ScaleAxis(x, d, r) = Saturate(m) /\ ScaleAxis(y, d, r) = Saturate(n)
  BY <1>1, <1>4 DEF ScaleAxis
<1> QED
  BY <1>4, <1>5, WidthAssumption DEF Saturate

(* A length that is an i32 stays positive there.                           *)
LEMMA ScaledIsPositive ==
  ASSUME NEW m \in Nat \ {0}, m <= MaxInt, NEW d \in Nat \ {0}, NEW r \in Nat \ {0}, r <= d
  PROVE  ScaleAxis(WrapInt(m), d, r) > 0
<1>1. WrapInt(m) = m
  BY WidthAssumption DEF WrapInt
<1>2. PICK z \in Int : z = 0
  OBVIOUS
<1>3. PICK a \in Int : a = m * d
  OBVIOUS
<1>4. r <= a
  <2>1. d * z = 0 /\ d * m = a
    BY <1>2, <1>3
  <2>2. z < m /\ m \in Int
    BY <1>2
  <2>3. d * z + d <= d * m
    BY <2>2, ProductSteps
  <2> QED
    BY <1>3, <2>1, <2>3
<1>5. Round(z, r) = 0
  <2>1. r * z = z
    BY <1>2
  <2>2. Round(r * z, r) = z
    BY RoundsExactly
  <2> QED
    BY <1>2, <2>1, <2>2
<1>6. z + r <= a
  BY <1>2, <1>4
<1>7. PICK q \in Int : q = Round(a, r) /\ q > 0
  BY <1>3, <1>5, <1>6, Rounds, RoundsApart
<1> QED
  BY <1>1, <1>3, <1>7, WidthAssumption DEF ScaleAxis, Saturate

(* What a scaled binding is. *)
IsScaled(k, g, b, s) ==
    /\ IsBinding(b)
    /\ g[1] \in Nat \ {0} /\ g[2] \in Nat \ {0}
    /\ k.resolution[1] \in Nat /\ k.resolution[2] \in Nat
    /\ s.type = b.type
    /\ \A j \in DOMAIN b.at, x \in {1, 2} :
        /\ b.at[j][x] \in Int
        /\ s.at[j][x] = ScaleAxis(b.at[j][x], g[x], k.resolution[x])
    /\ s.type = "joystick" => s.n = ScaleAxis(WrapInt(b.n), g[1], k.resolution[1])

LEMMA ScaledBinding ==
  ASSUME NEW k \in Files, NEW g \in GuestSizes, NEW i \in DOMAIN k.bindings
  PROVE  IsScaled(k, g, k.bindings[i], ScaleBinding([keymap |-> k, display |-> g], k.bindings[i]))
<1> DEFINE a == [keymap |-> k, display |-> g]
           b == k.bindings[i]
           s == ScaleBinding(a, b)
<1>1. IsBinding(b) /\ k.resolution \in Nat \X Nat
  BY FileAssumption
<1>2. g \in (Nat \ {0}) \X (Nat \ {0})
  BY SizeAssumption
<1>3. s.type = b.type
  BY DEF ScaleBinding
<1>4. ASSUME NEW j \in DOMAIN b.at, NEW x \in {1, 2}
      PROVE  /\ b.at[j][x] \in Int
             /\ s.at[j][x] = ScaleAxis(b.at[j][x], g[x], k.resolution[x])
  <2>1. b.at \in Seq(I32 \X I32)
    BY <1>1 DEF IsBinding
  <2>2. b.at[j] \in Int \X Int
    <3>1. b.at[j] \in I32 \X I32
      BY <2>1
    <3> QED
      BY <3>1, Width
  <2>3. s.at[j] = Scale(a, b.at[j])
    BY DEF ScaleBinding
  <2> QED
    BY <2>2, <2>3 DEF Scale
<1>5. s.type = "joystick" => s.n = ScaleAxis(WrapInt(b.n), g[1], k.resolution[1])
  BY DEF ScaleBinding, Scale
<1>6. /\ g[1] \in Nat \ {0} /\ g[2] \in Nat \ {0}
      /\ k.resolution[1] \in Nat /\ k.resolution[2] \in Nat
  BY <1>1, <1>2
<1> HIDE DEF s, b
<1> QED
  BY Zenon, <1>1, <1>3, <1>4, <1>5, <1>6 DEF IsScaled, s, b, a

(* An engine with a keymap that has passed the checks of a load.           *)
LEMMA LookedUp ==
  ASSUME NEW a \in [keymap : Files, display : GuestSizes], Validate(a.keymap),
         NEW p \in Places(a.keymap)
  PROVE  /\ a = [keymap |-> a.keymap, display |-> a.display]
         /\ a.keymap \in Files /\ a.display \in GuestSizes
         /\ p[1] \in DOMAIN a.keymap.bindings
         /\ Lookup(a, KeyAt(a.keymap, p)) = ScaleBinding(a, a.keymap.bindings[p[1]])
<1>1. a.keymap \in Files /\ a.display \in GuestSizes /\ a = [keymap |-> a.keymap, display |-> a.display]
  OBVIOUS
<1>2. p[1] \in DOMAIN a.keymap.bindings
  BY DEF Places
<1>3. KeyIndex(a.keymap)[KeyAt(a.keymap, p)] = p[1]
  BY <1>1, KeyIndexed
<1> QED
  BY <1>1, <1>2, <1>3 DEF Lookup

(* What the engine looks up touches where its file says.                   *)
LEMMA InvGivesTouches == TableInv => TouchesAreNearest
<1> DEFINE k == active.keymap
           g == active.display
           Near(n, m, i) == Abs(n * k.resolution[i] - m * g[i])
           sized == {i \in {1, 2} : k.resolution[i] > 0}
           grown == {i \in sized : k.resolution[i] <= g[i]}
<1> SUFFICES ASSUME TableInv, active # NoKeymap, NEW p \in Places(k)
             PROVE
               LET b == k.bindings[p[1]]
                   s == Lookup(active, KeyAt(k, p))
               IN  /\ s.type = b.type
                   /\ \A j \in DOMAIN b.at, i \in sized :
                        \A n \in {s.at[j][i] - 1, s.at[j][i] + 1} \cap I32 :
                            Near(s.at[j][i], b.at[j][i], i) <= Near(n, b.at[j][i], i)
                   /\ s.type = "joystick" /\ 1 \in grown /\ b.n <= MaxInt => s.n > 0
                   /\ s.type = "aim" => \A i \in grown :
                        \/ s.at[1][i] < s.at[2][i]
                        \/ s.at[1][i] \in {-(MaxInt + 1), MaxInt}
  BY Zenon DEF TouchesAreNearest
<1> DEFINE b == k.bindings[p[1]]
           s == Lookup(active, KeyAt(k, p))
<1>1. active \in [keymap : Files, display : GuestSizes] /\ Validate(k)
  BY DEF TableInv
<1>2. /\ active = [keymap |-> k, display |-> g] /\ k \in Files /\ g \in GuestSizes
      /\ p[1] \in DOMAIN k.bindings /\ s = ScaleBinding(active, b)
  BY <1>1, LookedUp
<1>3. /\ IsBinding(b)
      /\ g[1] \in Nat \ {0} /\ g[2] \in Nat \ {0}
      /\ k.resolution[1] \in Nat /\ k.resolution[2] \in Nat
      /\ s.type = b.type
      /\ \A j \in DOMAIN b.at, x \in {1, 2} :
            /\ b.at[j][x] \in Int
            /\ s.at[j][x] = ScaleAxis(b.at[j][x], g[x], k.resolution[x])
      /\ s.type = "joystick" => s.n = ScaleAxis(WrapInt(b.n), g[1], k.resolution[1])
  <2>1. IsScaled(k, g, k.bindings[p[1]],
                ScaleBinding([keymap |-> k, display |-> g], k.bindings[p[1]]))
    BY Zenon, <1>2, ScaledBinding
  <2>2. IsScaled(k, g, b, s)
    BY Zenon, <1>2, <2>1
  <2> HIDE DEF s, b, k, g
  <2> QED
    BY Zenon, <2>2 DEF IsScaled
<1>4. Fits(b)
  BY <1>1, <1>2 DEF Validate
<1> HIDE DEF s, b, k, g
<1>5. ASSUME NEW j \in DOMAIN b.at, NEW i \in sized, NEW n \in I32
      PROVE  Near(s.at[j][i], b.at[j][i], i) <= Near(n, b.at[j][i], i)
  <2>1. PICK x \in Int, d \in Nat \ {0}, r \in Nat \ {0} :
            x = b.at[j][i] /\ d = g[i] /\ r = k.resolution[i] /\ s.at[j][i] = ScaleAxis(x, d, r)
    BY <1>3
  <2> QED
    BY <2>1, ScaledIsNearest
<1>6. ASSUME s.type = "joystick", 1 \in grown, b.n <= MaxInt
      PROVE  s.n > 0
  <2>1. PICK d \in Nat \ {0}, r \in Nat \ {0} : d = g[1] /\ r = k.resolution[1] /\ r <= d
    BY <1>3, <1>6
  <2>2. PICK m \in Nat \ {0} : m = b.n
    BY <1>3, <1>4, <1>6, Width DEF IsBinding, Fits
  <2> QED
    BY <1>3, <1>6, <2>1, <2>2, ScaledIsPositive
<1>7. ASSUME s.type = "aim", NEW i \in grown
      PROVE  s.at[1][i] < s.at[2][i] \/ s.at[1][i] \in {-(MaxInt + 1), MaxInt}
  <2>1. b.at \in Seq(I32 \X I32) /\ Len(b.at) = 2
    BY <1>3, <1>7 DEF IsBinding
  <2>2. 1 \in DOMAIN b.at /\ 2 \in DOMAIN b.at
    BY <2>1
  <2>3. PICK d \in Nat \ {0}, r \in Nat \ {0} : d = g[i] /\ r = k.resolution[i] /\ r <= d
    BY <1>3, <1>7
  <2>4. PICK x \in Int : x = b.at[1][i] /\ s.at[1][i] = ScaleAxis(x, d, r)
    BY <1>3, <1>7, <2>2, <2>3
  <2>5. PICK y \in Int : y = b.at[2][i] /\ s.at[2][i] = ScaleAxis(y, d, r)
    BY <1>3, <1>7, <2>2, <2>3
  <2>6. x < y
    BY <1>3, <1>4, <1>7, <2>4, <2>5 DEF Fits
  <2> QED
    BY <2>3, <2>4, <2>5, <2>6, ScaledApart
<1> QED
  BY <1>3, <1>5, <1>6, <1>7 DEF s, b

------------------------------------------------------------------------------
(* Labels.                                                                 *)

(* The proportion by which labels are placed.                              *)
Larger(v, h) == IF v[1] * h[2] > h[1] * v[2] THEN 1 ELSE 2

(* It is that by which the picture is drawn, whichever pair of sizes both  *)
(* are given by.                                                           *)
LEMMA SameProportion ==
  ASSUME NEW h \in Sizes, NEW v \in Screens, NEW p \in Fitting(h, v)
  PROVE  p[1] * v[Larger(v, h)] = p[2] * h[Larger(v, h)]
<1> DEFINE t == Larger(v, h)
           m == Recalculate(h, v)
           s == IF h[1] * v[2] <= h[2] * v[1] THEN 1 ELSE 2
<1>1. /\ h[1] \in Nat /\ h[2] \in Nat /\ v[1] \in Nat \ {0} /\ v[2] \in Nat \ {0}
  BY DEF Sizes, Screens
<1>2. p \in Nat \X (Nat \ {0}) /\ p[1] * m.den = p[2] * m.num
  BY TightFits
<1>3. m.den = v[s] /\ m.num = h[s]
  BY DEF Recalculate
<1>4. PICK a \in Int, b \in Int : a = v[1] * h[2] /\ b = h[1] * v[2] /\ a = h[2] * v[1]
  BY <1>1
<1>5. s = (IF b <= a THEN 1 ELSE 2) /\ t = (IF a > b THEN 1 ELSE 2)
  BY <1>4 DEF Larger
<1>6. CASE s = t
  BY <1>2, <1>3, <1>6
<1>7. CASE s # t
  <2>1. a = b /\ s = 1 /\ t = 2
    BY <1>4, <1>5, <1>7
  <2>2. PICK x \in Nat, y \in Nat \ {0}, c \in Nat, w \in Nat, e \in Nat \ {0}, d \in Nat \ {0} :
          x = p[1] /\ y = p[2] /\ w = h[1] /\ c = h[2] /\ e = v[1] /\ d = v[2]
    BY <1>1, <1>2
  <2>3. x * e = y * w /\ e * c = w * d
    BY <1>2, <1>3, <1>4, <2>1, <2>2
  <2>4. x * d = y * c
    <3>1. e * (x * d) = e * (y * c)
      <4>1. PICK i \in Int, j \in Int : i = x * e /\ i = y * w /\ j = e * c /\ j = w * d
        BY <2>3
      <4>2. e * (x * d) = i * d /\ i * d = y * j /\ e * (y * c) = y * j
        BY <4>1
      <4> QED
        BY <4>2
    <3>2. PICK i \in Int, j \in Int : i = x * d /\ j = y * c
      OBVIOUS
    <3>3. ~(i < j) /\ ~(j < i)
      BY <3>1, <3>2, ProductSteps
    <3> QED
      BY <3>2, <3>3
  <2> QED
    BY <2>1, <2>2, <2>4
<1> QED
  BY <1>6, <1>7

(* Where a pixel is drawn is right of a label's edge by the inset.         *)
LEMMA SameSpot ==
  ASSUME NEW d \in Int, NEW n \in Int, NEW e \in Int, NEW w \in Int, w * d = e * n,
         NEW y \in Int, NEW z \in Int, NEW c \in Int, NEW q \in Int
  PROVE  (y*e - z*w + 2*w*c) * (2*d) - (y*d - z*n + 2*c*n - 2*d*q) * (2*e) = q * ((2*d) * (2*e))
<1>1. PICK k \in Int : k = w * d /\ k = e * n
  OBVIOUS
<1>2. (y*e - z*w + 2*w*c) * (2*d) = 2*(y*(e*d)) - 2*(z*k) + 4*(c*k)
  BY <1>1
<1>3. (y*d - z*n + 2*c*n - 2*d*q) * (2*e) = 2*(y*(e*d)) - 2*(z*k) + 4*(c*k) - 4*(q*(e*d))
  BY <1>1
<1>4. q * ((2*d) * (2*e)) = 4*(q*(e*d))
  OBVIOUS
<1>5. y*(e*d) \in Int /\ z*k \in Int /\ c*k \in Int /\ q*(e*d) \in Int
  OBVIOUS
<1> QED
  BY <1>2, <1>3, <1>4, <1>5

(* So it is under the label. *)
LEMMA LabelIsOver ==
  ASSUME NEW h \in Sizes, NEW v \in Screens, NEW i \in {1, 2}, NEW c \in Int, NEW u, NEW q,
         u = 2*v[Larger(v, h)],
         q = h[i]*v[Larger(v, h)] - v[i]*h[Larger(v, h)] + 2*c*h[Larger(v, h)]
                - 2*v[Larger(v, h)]*LabelInset
  PROVE  LET d == Drawn(h, v, i, c)
         IN  q * d.unit <= d.at * u /\ d.at * u < (q + LabelSize[i]*u) * d.unit
<1>1. /\ h[1] \in Nat /\ h[2] \in Nat /\ v[1] \in Nat \ {0} /\ v[2] \in Nat \ {0}
  BY DEF Sizes, Screens
<1>2. PICK s \in Fitting(h, v) :
        Drawn(h, v, i, c) = [at |-> h[i]*s[2] - v[i]*s[1] + 2*s[1]*c, unit |-> 2*s[2]]
  <2>1. Fitting(h, v) # {}
    BY TightFits
  <2>2. (CHOOSE s \in Fitting(h, v) : TRUE) \in Fitting(h, v)
    BY <2>1
  <2> QED
    BY <2>2 DEF Drawn, Fitting, Pairs
<1>3. PICK w \in Int, e \in Nat \ {0} : w = s[1] /\ e = s[2]
  BY TightFits
<1>4. PICK d \in Nat \ {0}, n \in Int, y \in Int, z \in Int :
        d = v[Larger(v, h)] /\ n = h[Larger(v, h)] /\ y = h[i] /\ z = v[i]
  BY <1>1 DEF Larger
<1>5. w * d = e * n
  BY <1>3, <1>4, SameProportion
<1>6. PICK r \in Int, k \in Int, a \in Int :
        /\ r = LabelInset /\ k = y*d - z*n + 2*c*n - 2*d*r /\ a = y*e - z*w + 2*w*c
  BY <1>3, <1>4, LabelAssumption
<1>7. q = k /\ u = 2*d /\ Drawn(h, v, i, c) = [at |-> a, unit |-> 2*e]
  BY <1>2, <1>3, <1>4, <1>6
<1>8. a * (2*d) - k * (2*e) = r * ((2*d) * (2*e))
  <2>1. (y*e - z*w + 2*w*c) * (2*d) - (y*d - z*n + 2*c*n - 2*d*r) * (2*e) = r * ((2*d) * (2*e))
    BY <1>5, SameSpot
  <2> QED
    BY <1>6, <2>1
<1>9. PICK f \in Nat \ {0} : f = (2*d) * (2*e)
  OBVIOUS
<1>10. PICK b \in Int, j \in Int : b = a * (2*d) /\ j = k * (2*e) /\ b - j = r * f
  BY <1>8, <1>9
<1>11. PICK l \in Int : l = LabelSize[i] /\ 0 <= r /\ r < l
  BY <1>6, LabelAssumption
<1>12. PICK t \in Int, m \in Int : t = f * r /\ m = f * l /\ t + f <= m
  BY <1>11, ProductSteps
<1>13. 0 <= t
  <2>1. f * 0 <= f * r
    BY <1>11, ProductGrows
  <2> QED
    BY <1>12, <2>1
<1>14. r * f = t
  BY <1>12
<1>15. (k + l*(2*d)) * (2*e) = j + m
  <2>1. (k + l*(2*d)) * (2*e) = k * (2*e) + l * ((2*d) * (2*e))
    OBVIOUS
  <2>2. l * f = m
    BY <1>12
  <2> QED
    BY <1>9, <1>10, <2>1, <2>2
<1>16. j <= b /\ b < j + m
  BY <1>9, <1>10, <1>12, <1>13, <1>14
<1> QED
  BY <1>7, <1>10, <1>11, <1>15, <1>16

(* A whole pixel is what a binding touches.                                *)
LEMMA PositionIsWhole ==
  ASSUME NEW k \in Files, NEW g \in GuestSizes, NEW i \in DOMAIN k.bindings
  PROVE  LET at == PrimaryPosition(ScaleBinding([keymap |-> k, display |-> g], k.bindings[i]))
         IN  at[1] \in Int /\ at[2] \in Int
<1> DEFINE a == [keymap |-> k, display |-> g]
           b == k.bindings[i]
           s == ScaleBinding(a, b)
<1>1. /\ IsBinding(b) /\ s.type = b.type
      /\ g[1] \in Nat \ {0} /\ g[2] \in Nat \ {0}
      /\ k.resolution[1] \in Nat /\ k.resolution[2] \in Nat
      /\ \A j \in DOMAIN b.at, x \in {1, 2} :
            /\ b.at[j][x] \in Int
            /\ s.at[j][x] = ScaleAxis(b.at[j][x], g[x], k.resolution[x])
  <2>1. IsScaled(k, g, b, s)
    BY Zenon, ScaledBinding
  <2> HIDE DEF s, b
  <2> QED
    BY Zenon, <2>1 DEF IsScaled
<1>2. b.at \in Seq(I32 \X I32) /\ Len(b.at) = IF b.type \in {"swipe", "aim"} THEN 2 ELSE 1
  BY <1>1 DEF IsBinding
<1>3. 1 \in DOMAIN b.at /\ (b.type = "aim" => 2 \in DOMAIN b.at)
  BY <1>2
<1> HIDE DEF s, b
<1>4. ASSUME NEW j \in DOMAIN b.at, NEW x \in {1, 2} PROVE s.at[j][x] \in Int
  <2>1. PICK c \in Int, d \in Nat, r \in Nat :
            c = b.at[j][x] /\ d = g[x] /\ r = k.resolution[x]
    BY <1>1
  <2>2. s.at[j][x] = ScaleAxis(c, d, r)
    BY <1>1, <2>1
  <2> QED
    BY <2>2, ScaledIsInt, Width
<1>5. CASE s.type = "aim"
  <2>1. ASSUME NEW x \in {1, 2} PROVE PrimaryPosition(s)[x] \in Int
    <3>1. PICK m \in Int, n \in Int : m = s.at[1][x] /\ n = s.at[2][x]
      BY <1>1, <1>3, <1>4, <1>5
    <3>2. PrimaryPosition(s)[x] = Middle(m, n)
      BY <1>5, <3>1 DEF PrimaryPosition
    <3>3. PICK o \in Int : o = WrapInt(m + n)
      BY Width
    <3> QED
      BY <3>2, <3>3 DEF Middle
  <2> QED
    BY <2>1 DEF s, b
<1>6. CASE s.type # "aim"
  <2>1. PrimaryPosition(s) = s.at[1]
    BY <1>6 DEF PrimaryPosition
  <2> QED
    BY <1>3, <1>4, <2>1 DEF s, b
<1> QED
  BY <1>5, <1>6

(* So the labels that are shown are over the engine's touches.             *)
LEMMA InvGivesLabels == TableInv => LabelCoversTouch
<1> DEFINE k == overlay.keymap
           h == metrics.host
           a == [keymap |-> k, display |-> Video]
           At(p) == PrimaryPosition(ScaleBinding(a, k.bindings[p[1]]))
<1> SUFFICES ASSUME TableInv, overlay # NoKeymap, active # NoKeymap,
                    overlay.keymap = active.keymap, overlay.surface = h,
                    Video = metrics.guest, Video = active.display,
                    NEW l \in Labels(overlay), NEW i \in {1, 2}
             PROVE
               LET d == Drawn(h, Video, i, PrimaryPosition(Lookup(active, l.key))[i])
               IN  /\ l.at[i] * d.unit <= d.at * l.unit
                   /\ d.at * l.unit < (l.at[i] + LabelSize[i]*l.unit) * d.unit
  BY Zenon DEF LabelCoversTouch
<1>1. /\ overlay \in [keymap : Files, surface : HostSizes] /\ Validate(k)
      /\ active \in [keymap : Files, display : GuestSizes]
  BY DEF TableInv
<1>2. active = a /\ k \in Files /\ Video \in GuestSizes
  BY <1>1
<1>3. h \in Sizes /\ Video \in Screens
  BY <1>1, <1>2, SizeAssumption DEF Sizes, Screens
<1> DEFINE t == Larger(Video, h)
<1>4. PICK p \in Places(k) :
        /\ l.key = KeyAt(k, p) /\ l.unit = 2*Video[t]
        /\ l.at[i] = h[i]*Video[t] - Video[i]*h[t] + 2*At(p)[i]*h[t] - 2*Video[t]*LabelInset
  <2>1. PICK x \in IF 0 \in {h[1], h[2]} THEN {} ELSE OverlayHints(a) :
            l = [key |-> x.key, unit |-> 2*Video[t],
                 at |-> [j \in {1, 2} |->
                    [n \in {1, 2} |-> h[n]*Video[t] - Video[n]*h[t]][j] + 2*x.position[j]*h[t]
                        - 2*Video[t]*LabelInset]]
    BY DEF Labels, UpdateOverlay, Larger
  <2>2. x \in OverlayHints(a)
    BY <2>1
  <2>3. PICK p \in Places(k) : x = [key |-> KeyAt(k, p), position |-> At(p)]
    BY <2>2 DEF OverlayHints
  <2> HIDE DEF At, t
  <2>4. /\ l.key = KeyAt(k, p) /\ l.unit = 2*Video[t]
        /\ l.at[i] = h[i]*Video[t] - Video[i]*h[t] + 2*At(p)[i]*h[t] - 2*Video[t]*LabelInset
    BY <2>1, <2>3
  <2> QED
    BY <2>4
<1>5. p[1] \in DOMAIN k.bindings /\ Lookup(active, l.key) = ScaleBinding(a, k.bindings[p[1]])
  BY <1>1, <1>2, <1>4, LookedUp
<1>6. PrimaryPosition(Lookup(active, l.key)) = At(p)
  BY <1>5
<1>7. At(p)[1] \in Int /\ At(p)[2] \in Int
  BY <1>2, <1>5, PositionIsWhole
<1> HIDE DEF At, h, k, a
<1>8. PICK c \in Int : c = At(p)[i]
  BY <1>7
<1>9. PICK q, u : q = l.at[i] /\ u = l.unit
  OBVIOUS
<1>10. /\ u = 2*Video[Larger(Video, h)]
       /\ q = h[i]*Video[Larger(Video, h)] - Video[i]*h[Larger(Video, h)]
                 + 2*c*h[Larger(Video, h)] - 2*Video[Larger(Video, h)]*LabelInset
  BY <1>4, <1>8, <1>9
<1>11. LET d == Drawn(h, Video, i, c)
       IN  q * d.unit <= d.at * u /\ d.at * u < (q + LabelSize[i]*u) * d.unit
  BY <1>3, <1>10, LabelIsOver
<1> QED
  BY <1>6, <1>8, <1>9, <1>11

------------------------------------------------------------------------------
(* The theorems.                                                           *)

(* The inductive invariant holds in every state. *)
THEOREM Inductive == Spec => []IInv
<1>1. IInv /\ [Next]_vars => IInv'
  BY TypeStep, FingersStep, LastStep DEF IInv, Fingers
<1>2. QED
  BY InitInv, <1>1, PTL DEF Spec

(* The types of the manager and of the guest's device. *)
THEOREM TypeCorrect == Spec => []TypeOK
<1>1. IInv => TypeOK
  BY DEF IInv
<1>2. QED
  BY <1>1, Inductive, PTL

(* No finger, touch or key of the guest's outlasts the host's.             *)
THEOREM NoGhosts == Spec => []NoGhostTouch
<1>1. IInv => NoGhostTouch
  BY DEF IInv
<1>2. QED
  BY <1>1, Inductive, PTL

(* A pinch shows the guest two different fingers. *)
THEOREM FingersDiffer == Spec => []TwoFingers
<1>1. IInv => TwoFingers
  BY DEF IInv
<1>2. QED
  BY <1>1, Inductive, PTL

(* A relative motion is what the pointer has travelled since the one       *)
(* before it.                                                              *)
THEOREM MotionCorrect == Spec => MotionIsTravel
<1>1. IInv /\ [Next]_vars => [device'.rel # Still => device'.rel = Minus(pointer', pointer) \/ skipped]_vars
  <2> SUFFICES ASSUME IInv, Next, device'.rel # Still, ~skipped
               PROVE  device'.rel = Minus(pointer', pointer)
    OBVIOUS
  <2>0. TypeOK /\ Unreached
    BY DEF IInv
  <2>1. ASSUME NEW p \in Points, HandleMotion(p) PROVE device'.rel = Minus(pointer', pointer)
    <3>1. device' = Quiet \/ (~pinch /\ grabbed /\ device' = TranslateRelativeMotion(Delta(p)))
      BY <2>1 DEF HandleMotion, Inject
    <3>2. device'.rel = Delta(p)
      BY <2>0, <3>1, BatchFields
    <3>3. last = pointer /\ pointer' = p
      BY <2>1, <3>2 DEF HandleMotion, Delta, IInv, LastFollows
    <3>4. QED
      BY <3>2, <3>3 DEF Delta
  <2>2. ASSUME NEW ctrl \in BOOLEAN, LeftPress(ctrl) PROVE FALSE
    <3>1. CASE PinchBegin
      BY <2>0, <3>1, PinchBegins
    <3>2. CASE Inject(TranslateLeftPress)
      BY <2>0, <3>2, BatchFields DEF Inject
    <3>3. QED
      BY <2>2, <3>1, <3>2 DEF LeftPress
  <2>3. CASE LeftRelease \/ EndPinchIfActive
    <3>1. CASE PinchEnd
      BY <2>0, <3>1, PinchEnds
    <3>2. CASE Inject(TranslateLeftRelease)
      BY <2>0, <3>2, BatchFields DEF Inject
    <3>3. QED
      BY <2>3, <3>1, <3>2 DEF LeftRelease, EndPinchIfActive
  <2>4. ASSUME NEW k \in Keys, NEW pressed \in BOOLEAN, HandleKey(k, pressed) PROVE FALSE
    BY <2>0, <2>4, BatchFields, KeyFields DEF HandleKey, Inject
  <2>5. CASE RightPress
    BY <2>0, <2>5, BatchFields DEF RightPress, Inject
  <2>6. CASE Connect \/ Disconnected
    BY <2>0, <2>6, BatchFields DEF Connect, Disconnected
  <2>7. CASE HandleScroll \/ ToggleGrab \/ ResetGrabPosition
    BY <2>0, <2>7, BatchFields DEF HandleScroll, ToggleGrab, ResetGrabPosition, Inject
  <2>8. ASSUME NEW size, UpdateHost(size) \/ UpdateGuest(size) PROVE FALSE
    BY <2>0, <2>8, BatchFields DEF UpdateHost, UpdateGuest
  <2>9. QED
    BY <2>1, <2>2, <2>3, <2>4, <2>5, <2>6, <2>7, <2>8 DEF Next, Configure, Handle
<1>2. QED
  BY <1>1, Inductive, PTL DEF Spec, MotionIsTravel

(* The pixel that a pointer is mapped to is drawn nearest to it, whatever  *)
(* the surface and the screen have become: map_host_to_guest.              *)
THEOREM PixelCorrect == Spec => []PixelIsNearest
<1>1. TypeOK => PixelIsNearest
  BY RecalculatedIsNearest DEF TypeOK
<1>2. QED
  BY <1>1, TypeCorrect, PTL

------------------------------------------------------------------------------
(* The theorems about KeymapTable.                                         *)

(* To the input manager, the engine and the overlay do nothing.            *)
THEOREM TableImplements == TSpec => Spec
<1>1. TInit => Init
  BY DEF TInit
<1>2. [TNext]_<<vars, tableVars>> => [Next]_vars
  BY DEF TNext
<1>3. QED
  BY <1>1, <1>2, PTL DEF TSpec, Spec

(* What the engine has and the overlay shows has passed validate_keymap.   *)
THEOREM KeymapsPassed == TSpec => []TableInv
<1>1. TInit => TableInv
  BY DEF TInit, TableInit, TableInv
<1>2. TypeOK /\ TableInv /\ [TNext]_<<vars, tableVars>> => TableInv'
  <2> SUFFICES ASSUME TypeOK, TableInv, [TNext]_<<vars, tableVars>> PROVE TableInv'
    OBVIOUS
  <2>1. CASE Table
    BY <2>1, TableStep, TypesInThree
  <2>2. CASE UNCHANGED tableVars
    BY <2>2 DEF tableVars, TableInv
  <2>3. QED
    BY <2>1, <2>2 DEF TNext
<1>3. QED
  BY <1>1, <1>2, TableImplements, TypeCorrect, PTL DEF TSpec

(* A binding touches nearest to where it was authored, of what an i32 can  *)
(* hold, however often the screen changed: ScaleFactors::scale, key_index. *)
THEOREM TouchesCorrect == TSpec => []TouchesAreNearest
BY KeymapsPassed, InvGivesTouches, PTL

(* A label is over where its key touches, while the window has the size    *)
(* that it was made for: update_overlay.                                   *)
THEOREM LabelsCorrect == TSpec => []LabelCoversTouch
BY KeymapsPassed, InvGivesLabels, PTL

==============================================================================
