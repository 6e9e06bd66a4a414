------------------------------ MODULE CurveProofs ------------------------------
(***************************************************************************)
(* Proofs about ScreenCurve: what the GE's list and the CPU's table make   *)
(* of a pixel is the curve of the settings, and lies where it should.      *)
(***************************************************************************)
EXTENDS ScreenCurve, WellFoundedInduction, TLAPS

-----------------------------------------------------------------------------
(* ScreenCurve: whole-number division *)

\* what a curve is a fraction of
W == 6502500

\* q is n divided by w, downwards
IsQuotient(q, n, w) == q \in Int /\ w * q <= n /\ n < w * q + w

LEMMA Quotient ==
  ASSUME NEW n \in Int, NEW w \in Nat, w > 0
  PROVE  IsQuotient(n \div w, n, w)
BY DEF IsQuotient

LEMMA Scaled == ASSUME NEW a \in Int, NEW b \in Int, NEW c \in Nat, a <= b PROVE c * a <= c * b /\ a * c <= b * c
OBVIOUS

\* the numbers a gamma and a temperature give
LEMMA StrengthRange == ASSUME NEW g \in 50 .. 200
  PROVE /\ Strength(g) \in -100 .. 100
        /\ g < 100 => Strength(g) = -(2 * (100 - g)) /\ Abs(Strength(g)) = 2 * (100 - g)
        /\ g >= 100 => Strength(g) = g - 100 /\ Abs(Strength(g)) = g - 100
BY DEF Strength, Abs

LEMMA GainRange == ASSUME NEW t \in 0 .. 200, NEW c \in Channels
  PROVE Gain(t, c) \in 0 .. 255
BY DEF Gain, Div, Channels

LEMMA DivNat == ASSUME NEW n \in Nat, NEW w \in Nat, w > 0
  PROVE Div(n, w) \in Nat /\ IsQuotient(Div(n, w), n, w)
BY DEF Div, IsQuotient

\* the curve of a display
\* ... that many of W
Numerator(G, S, x) == G * (x * 25500 + S * (x * (255 - x)))

LEMMA CurveNumber == ASSUME NEW g \in 50 .. 200, NEW t \in 0 .. 200, NEW c \in Channels, NEW x \in 0 .. 255
  PROVE IsQuotient(Curve(g, t, 3, c, x), Numerator(Gain(t, c), Strength(g), x), W)
<1> DEFINE G == Gain(t, c)  S == Strength(g)
           E == G * (x * 25500 + S * (x * (255 - x)))
<1>1. G \in Int /\ S \in Int
  <2>1. G \in 0 .. 255
    BY GainRange
  <2>2. S \in -100 .. 100
    BY StrengthRange
  <2> QED BY <2>1, <2>2
<1>2. Curve(g, t, 3, c, x) = (G * (x * 255 * 100 + S * x * (255 - x))) \div (25500 * 255)
  BY DEF Curve, MaxOf
<1>3. G * (x * 255 * 100 + S * x * (255 - x)) = E /\ E \in Int
  <2> HIDE DEF G, S
  <2>1. S * x * (255 - x) = S * (x * (255 - x)) /\ x * 255 * 100 = x * 25500
    BY <1>1
  <2> QED BY <1>1, <2>1
<1>4. 25500 * 255 = W /\ W \in Nat /\ W > 0
  BY SMT DEF W
<1> HIDE DEF E
<1>5. Curve(g, t, 3, c, x) = E \div W
  BY <1>2, <1>3, <1>4
<1> QED BY <1>3, <1>4, <1>5, Quotient DEF E, Numerator
-----------------------------------------------------------------------------
(* One pixel by the GE: its truncations and the curve's, in whole numbers *)

\* one pixel, both settings dark
LEMMA DrawnDark ==
  ASSUME NEW g \in 50 .. 99, NEW h \in 50 .. 99, NEW t \in 0 .. 200, NEW c \in Channels,
         NEW x \in 0 .. 255, NEW v, v[1] = g, v[2] = t, NEW tex, tex
  PROVE  Drawn(v, tex, h, c, x) \in Curve(g, t, 3, c, x) - 3 .. Curve(g, t, 3, c, x)
<1> DEFINE a == 2 * (100 - g)  G == Gain(t, c)  C == Curve(g, t, 3, c, x)
           V == VertexColour(g, t, c)  F == (x * V) \div 255  K == DarkFix(g, t, c)
           o == (F * x + x * K) \div 255
<1>1. a \in 0 .. 100 /\ Strength(g) = -a /\ Abs(Strength(g)) = a
  BY StrengthRange
<1>2. G \in 0 .. 255
  BY GainRange
<1>3. V \in Nat /\ IsQuotient(V, a * G, 100)
  <2>1. V = Div(a * G, 100)
    BY <1>1 DEF VertexColour
  <2>2. a * G \in Nat
    BY <1>1, <1>2
  <2> HIDE DEF a, G, V
  <2> QED BY <2>1, <2>2, DivNat
<1>4. K \in Nat /\ IsQuotient(K, (100 - a) * G, 100)
  <2>1. K = IF a > 0 THEN Div((100 - a) * G, 100) ELSE G
    BY <1>1 DEF DarkFix
  <2>2. a > 0
    OBVIOUS
  <2>3. (100 - a) * G \in Nat
    BY <1>1, <1>2
  <2> HIDE DEF a, G, K
  <2> QED BY <2>1, <2>2, <2>3, DivNat
<1>5. F \in Int /\ IsQuotient(F, x * V, 255)
  <2> HIDE DEF V
  <2> QED BY <1>3, Quotient
<1>6. o \in Int /\ IsQuotient(o, F * x + x * K, 255)
  <2> HIDE DEF F, K
  <2> QED BY <1>4, <1>5, Quotient
<1>7. C \in Int /\ IsQuotient(C, G * (x * 25500 - a * (x * (255 - x))), W)
  <2>1. IsQuotient(C, Numerator(G, Strength(g), x), W)
    <3>1. g \in 50 .. 200
      OBVIOUS
    <3> QED BY <3>1, CurveNumber, Zenon
  <2>2. x * 25500 + (-a) * (x * (255 - x)) = x * 25500 - a * (x * (255 - x))
    OBVIOUS
  <2> HIDE DEF a, C, G
  <2> QED BY <1>1, <2>1, <2>2 DEF IsQuotient, Numerator
<1> DEFINE out == Drawn(v, tex, h, c, x)
<1>10. out = IF o > 255 THEN 255 ELSE o
  BY DEF Drawn
<1>11. o \in Int /\ C \in Int
  BY <1>6, <1>7
<1> HIDE DEF a, G, V, F, K, C, o, out
<1>8. x \in Int
  OBVIOUS
<1>9. o \in C - 3 .. C /\ C <= 255
  <2> USE <1>1, <1>2, <1>3, <1>4, <1>5, <1>6, <1>7 DEF W, IsQuotient
  <2> DEFINE E == G * (x * 25500 - a * (x * (255 - x)))
  <2>1. E = 255 * (x * ((100 - a) * G)) + (x * x) * (a * G)
    OBVIOUS
  <2>2. x * (255 * F) <= x * (x * V) /\ x * (x * V) <= x * (255 * F) + 255 * x
    <3>1. x * V <= 255 * F + 255
      OBVIOUS
    <3>2. x * (x * V) <= x * (255 * F + 255)
      BY <3>1, Scaled
    <3> QED BY <3>2, Scaled
  <2>3. (x * x) * (100 * V) <= (x * x) * (a * G) /\ (x * x) * (a * G) <= (x * x) * (100 * V) + 100 * (x * x)
    <3>1. a * G <= 100 * V + 100 /\ x * x \in Nat
      OBVIOUS
    <3>2. (x * x) * (a * G) <= (x * x) * (100 * V + 100)
      BY <3>1, Scaled
    <3> QED BY <3>1, <3>2, Scaled
  <2>4. x * (100 * K) <= x * ((100 - a) * G) /\ x * ((100 - a) * G) <= x * (100 * K) + 100 * x
    <3>1. (100 - a) * G <= 100 * K + 100
      OBVIOUS
    <3>2. x * ((100 - a) * G) <= x * (100 * K + 100)
      BY <3>1, Scaled
    <3> QED BY <3>2, Scaled
  <2>5. x * x <= 255 * x
    OBVIOUS
  <2> DEFINE XF == x * F  XXV == x * (x * V)  XXAG == (x * x) * (a * G)  XK == x * K  XAG == x * ((100 - a) * G)  XX == x * x
  <2>6. 255 * o <= XF + XK /\ XF + XK < 255 * o + 255
    OBVIOUS
  <2>7. 255 * XF <= XXV /\ XXV <= 255 * XF + 255 * x
    BY <2>2
  <2>8. 100 * XXV <= XXAG /\ XXAG <= 100 * XXV + 100 * XX
    BY <2>3
  <2>9. 100 * XK <= XAG /\ XAG <= 100 * XK + 100 * x
    BY <2>4
  <2>10. E = 255 * XAG + XXAG /\ XX <= 255 * x /\ W * C <= E /\ E < W * C + W
    BY <2>1, <2>5
  <2>11. E <= 255 * W
    <3>1. x * (255 - x) >= 0 /\ x * 25500 - a * (x * (255 - x)) <= x * 25500
      OBVIOUS
    <3>2. G * (x * 25500 - a * (x * (255 - x))) <= G * (x * 25500)
      BY <3>1, Scaled
    <3>3. x * 25500 <= W
      OBVIOUS
    <3>4. G * (x * 25500) <= G * W /\ G * W <= 255 * W
      BY <3>3, Scaled, SMT
    <3> DEFINE gx == G * (x * 25500)  gw == G * W
    <3>5. E <= gx /\ gx <= gw /\ gw <= 255 * W /\ {E, gx, gw} \subseteq Int
      BY <3>2, <3>4, SMT
    <3> HIDE DEF E, gx, gw
    <3> QED BY <3>5, SMT
  <2>12. {XF, XXV, XXAG, XK, XAG, XX, E} \subseteq Int
    OBVIOUS
  <2> HIDE DEF E, XF, XXV, XXAG, XK, XAG, XX
  <2>13. C <= 255
    BY <2>10, <2>11, <2>12
  <2>14. o <= C
    BY <2>6, <2>7, <2>8, <2>9, <2>10, <2>12
  <2>15. o >= C - 3
    BY <2>6, <2>7, <2>8, <2>9, <2>10, <2>12
  <2> QED BY <2>13, <2>14, <2>15
<1>12. out = o
  BY <1>9, <1>10, <1>11
<1>13. out \in C - 3 .. C
  BY <1>9, <1>12
<1> QED BY <1>13 DEF C, out

\* ... a bright one
LEMMA DrawnBright ==
  ASSUME NEW g \in 101 .. 200, NEW h \in 100 .. 200, NEW t \in 0 .. 200, NEW c \in Channels,
         NEW x \in 0 .. 255, NEW v, v[1] = g, v[2] = t, NEW tex, tex
  PROVE  Drawn(v, tex, h, c, x) \in Curve(g, t, 3, c, x) - 3 .. Curve(g, t, 3, c, x)
<1> DEFINE s == g - 100  G == Gain(t, c)  C == Curve(g, t, 3, c, x)  y == 255 - x
           V == VertexColour(g, t, c)  F == (x * V) \div 255
           o == (F * y + x * G) \div 255
<1>1. s \in 0 .. 100 /\ Strength(g) = s /\ Abs(Strength(g)) = s
  BY StrengthRange
<1>2. G \in 0 .. 255
  BY GainRange
<1>3. V \in Nat /\ IsQuotient(V, s * G, 100)
  <2>1. V = Div(s * G, 100)
    BY <1>1 DEF VertexColour
  <2>2. s * G \in Nat
    BY <1>1, <1>2
  <2> HIDE DEF s, G, V
  <2> QED BY <2>1, <2>2, DivNat
<1>4. y \in 0 .. 255 /\ x + y = 255 /\ x \in Int
  OBVIOUS
<1>5. F \in Int /\ IsQuotient(F, x * V, 255)
  <2> HIDE DEF V
  <2> QED BY <1>3, Quotient DEF IsQuotient
<1>6. o \in Int /\ IsQuotient(o, F * y + x * G, 255)
  <2> HIDE DEF F, G, y
  <2> QED BY <1>2, <1>4, <1>5, Quotient DEF IsQuotient
<1>7. C \in Int /\ IsQuotient(C, G * (x * 25500 + s * (x * y)), W)
  <2>1. IsQuotient(C, Numerator(G, Strength(g), x), W)
    <3>1. g \in 50 .. 200
      OBVIOUS
    <3> QED BY <3>1, CurveNumber, Zenon
  <2> HIDE DEF s, C, G
  <2> QED BY <1>1, <2>1 DEF IsQuotient, Numerator
<1> DEFINE out == Drawn(v, tex, h, c, x)
<1>10. out = IF o > 255 THEN 255 ELSE o
  BY DEF Drawn
<1>11. o \in Int /\ C \in Int
  BY <1>6, <1>7
<1> HIDE DEF s, G, V, F, C, y, o, out
<1>9. o \in C - 3 .. C /\ C <= 255
  <2> USE <1>1, <1>2, <1>3, <1>4, <1>5, <1>6, <1>7 DEF W, IsQuotient
  <2> DEFINE E == G * (x * 25500 + s * (x * y))
  <2>1. E = 25500 * (x * G) + (x * y) * (s * G)
    OBVIOUS
  <2>2. y * (255 * F) <= y * (x * V) /\ y * (x * V) <= y * (255 * F) + 255 * y
    <3>1. x * V <= 255 * F + 255 /\ y \in Nat
      OBVIOUS
    <3>2. y * (x * V) <= y * (255 * F + 255)
      BY <3>1, Scaled
    <3> QED BY <3>1, <3>2, Scaled
  <2>3. (x * y) * (100 * V) <= (x * y) * (s * G) /\ (x * y) * (s * G) <= (x * y) * (100 * V) + 100 * (x * y)
    <3>1. s * G <= 100 * V + 100 /\ x * y \in Nat
      OBVIOUS
    <3>2. (x * y) * (s * G) <= (x * y) * (100 * V + 100)
      BY <3>1, Scaled
    <3> QED BY <3>1, <3>2, Scaled
  <2>5. x * y <= 255 * x
    OBVIOUS
  <2> DEFINE YF == y * F  XYV == y * (x * V)  XYSG == (x * y) * (s * G)  XG == x * G  XY == x * y
  <2>6. 255 * o <= YF + XG /\ YF + XG < 255 * o + 255
    OBVIOUS
  <2>7. 255 * YF <= XYV /\ XYV <= 255 * YF + 255 * y
    BY <2>2
  <2>8. 100 * XYV <= XYSG /\ XYSG <= 100 * XYV + 100 * XY
    BY <2>3
  <2>10. E = 25500 * XG + XYSG /\ XY <= 255 * x /\ W * C <= E /\ E < W * C + W
    BY <2>1, <2>5
  <2>11. E <= 255 * W
    <3>1. s * (x * y) <= 100 * (x * y)
      OBVIOUS
    <3>2. x * 25500 + s * (x * y) <= 100 * (x * (510 - x))
      BY <3>1
    <3>3. x * (510 - x) <= 255 * 255
      <4>1. y * y >= 0 /\ y = 255 - x
        OBVIOUS
      <4> QED BY <4>1
    <3>4. E <= G * W
      BY <3>2, <3>3, Scaled, SMT
    <3>5. G * W <= 255 * W /\ E \in Int
      BY SMT
    <3> HIDE DEF E
    <3> QED BY <3>4, <3>5, SMT
  <2>12. {YF, XYV, XYSG, XG, XY, E} \subseteq Int
    OBVIOUS
  <2> HIDE DEF E, YF, XYV, XYSG, XG, XY
  <2>13. C <= 255
    BY <2>10, <2>11, <2>12
  <2>14. o <= C
    BY <2>6, <2>7, <2>8, <2>10, <2>12
  <2>15. o >= C - 3
    BY <2>6, <2>7, <2>8, <2>10, <2>12, <2>1
  <2> QED BY <2>13, <2>14, <2>15
<1>12. out = o
  BY <1>9, <1>10, <1>11
<1>13. out \in C - 3 .. C
  BY <1>9, <1>12
<1> QED BY <1>13 DEF C, out

\* next to neutral, the settings may be on either side, and the strips with texture or without
NextTo(h) == IF h >= 100 THEN 99 .. 101 ELSE {100}

LEMMA DrawnNeutral ==
  ASSUME NEW h \in 99 .. 101, NEW g \in NextTo(h),
         NEW t \in 0 .. 200, NEW c \in Channels,
         NEW x \in 0 .. 255, NEW v, v[1] = g, v[2] = t, NEW tex
  PROVE  Drawn(v, tex, h, c, x) \in Curve(100, t, 3, c, x) .. Curve(100, t, 3, c, x) + 5
<1> DEFINE a == Abs(Strength(g))  G == Gain(t, c)  C == Curve(100, t, 3, c, x)  y == 255 - x
           V == VertexColour(g, t, c)  F == IF tex THEN (x * V) \div 255 ELSE V
           o == (F * y + x * G) \div 255
<1>0. g \in 99 .. 101 /\ (h >= 100 \/ g = 100)
  BY DEF NextTo
<1>1. a \in 0 .. 2 /\ (g = 100 => a = 0) /\ Strength(100) = 0
  BY <1>0, StrengthRange
<1>2. G \in 0 .. 255
  BY GainRange
<1>3. V \in 0 .. 5 /\ (g = 100 => V = 0)
  <2>1. V = Div(a * G, 100)
    BY DEF VertexColour
  <2>2. a * G \in 0 .. 510 /\ (g = 100 => a * G = 0)
    BY <1>1, <1>2
  <2> DEFINE n == a * G
  <2> HIDE DEF V, n
  <2>3. V \in Nat /\ IsQuotient(V, n, 100)
    <3>1. n \in Nat /\ V = Div(n, 100)
      <4> HIDE DEF a, G
      <4> QED BY <2>1, <2>2 DEF n
    <3>2. 100 \in Nat /\ 100 > 0
      OBVIOUS
    <3> QED BY <3>1, <3>2, DivNat, Zenon
  <2>4. V \in Nat /\ 100 * V <= n
    BY <2>3 DEF IsQuotient
  <2>5. n \in 0 .. 510 /\ (g = 100 => n = 0)
    BY <2>2 DEF n
  <2> QED BY <2>4, <2>5
<1>4. y \in 0 .. 255 /\ x + y = 255
  OBVIOUS
<1>5. F \in 0 .. 5 /\ (g = 100 => F = 0)
  <2>1. x * V \in 0 .. 5 * 255 /\ (g = 100 => x * V = 0)
    <3> HIDE DEF V
    <3> QED BY <1>3
  <2> DEFINE q == (x * V) \div 255
  <2>2. q \in 0 .. 5 /\ (g = 100 => q = 0)
    <3> HIDE DEF V
    <3> QED BY <2>1
  <2>3. F = q \/ F = V
    OBVIOUS
  <2> HIDE DEF q, F, V
  <2> QED BY <1>3, <2>2, <2>3
<1>6. o \in Int /\ IsQuotient(o, F * y + x * G, 255)
  <2> HIDE DEF F, G, y
  <2> QED BY <1>2, <1>4, <1>5, Quotient DEF IsQuotient
<1>7. C \in Int /\ IsQuotient(C, G * (x * 25500), W)
  <2>1. IsQuotient(C, Numerator(G, Strength(100), x), W)
    <3>1. 100 \in 50 .. 200
      OBVIOUS
    <3> QED BY <3>1, CurveNumber, Zenon
  <2>2. x * 25500 + 0 * (x * (255 - x)) = x * 25500
    OBVIOUS
  <2> HIDE DEF C, G
  <2> QED BY <1>1, <2>1, <2>2 DEF IsQuotient, Numerator
<1> DEFINE out == Drawn(v, tex, h, c, x)
<1>8. out = IF o > 255 THEN 255 ELSE o
  <2>1. CASE h >= 100
    BY <2>1 DEF Drawn
  <2>2. CASE h < 100
    <3>1. g = 100 /\ DarkFix(g, t, c) = G
      BY <1>0, <2>2, <1>1 DEF DarkFix
    <3>2. F * x + x * G = F * y + x * G
      <4> HIDE DEF F, G, y
      <4> QED BY <3>1, <1>2, <1>4, <1>5
    <3>3. out = LET q == (F * x + x * G) \div 255 IN IF q > 255 THEN 255 ELSE q
      BY <2>2, <3>1 DEF Drawn
    <3> HIDE DEF F, G, y, out
    <3> QED BY <3>2, <3>3
  <2> QED BY <2>1, <2>2
<1> HIDE DEF a, G, V, F, C, y, o, out
<1>9. o \in C .. C + 5 /\ C <= 255
  <2> USE DEF W, IsQuotient
  <2>1. F * y \in 0 .. 5 * 255
    BY <1>4, <1>5
  <2>2. 255 * C <= x * G /\ x * G < 255 * C + 255 /\ x * G \in Int
    BY <1>2, <1>7
  <2>3. x * G <= 255 * 255
    BY <1>2
  <2> QED BY <1>6, <1>7, <2>1, <2>2, <2>3
<1> QED BY <1>6, <1>7, <1>8, <1>9 DEF C, out
-----------------------------------------------------------------------------
(* The tables of the CPU *)

\* a channel of a pixel format goes up to one of these
Tops == {15, 31, 63, 255}

LEMMA TopOf == ASSUME NEW pf \in 0 .. 3, NEW c \in Channels
  PROVE MaxOf(pf, c) \in Tops /\ MaxOf(3, c) = 255
BY DEF MaxOf, Tops, Channels

\* v squared, in units of the largest value, rounded; and v moved towards or away from it
Square(m, v) == (v * v + m \div 2) \div m
Lifted(m, g, v) == v + Div((v - Square(m, v)) * Strength(g), 100)

LEMMA SquareNumber == ASSUME NEW m \in Tops, NEW v \in 0 .. m
  PROVE /\ Square(m, v) \in 0 .. v
        /\ 2 * (m * Square(m, v)) <= 2 * (v * v) + (m - 1)
        /\ 2 * (v * v) <= 2 * (m * Square(m, v)) + (m - 1)
<1> DEFINE h == m \div 2  q == Square(m, v)
<1>1. m \in Nat /\ m > 0 /\ h \in Nat /\ m = 2 * h + 1
  BY DEF Tops
<1>2. v * v \in Nat /\ v * v <= m * v
  BY <1>1
<1>3. IsQuotient(q, v * v + h, m)
  BY <1>1, <1>2, Quotient DEF Square
<1> HIDE DEF h, q
<1>4. m * q <= v * v + h /\ v * v + h < m * q + m /\ q \in Int
  BY <1>3 DEF IsQuotient
<1>5. q >= 0
  <2>1. SUFFICES ASSUME q <= -1 PROVE FALSE
    BY <1>4
  <2>2. m * q <= m * (-1)
    BY <2>1, <1>1, <1>4, Scaled
  <2> QED BY <2>2, <1>1, <1>2, <1>4
<1>6. q <= v
  <2>1. SUFFICES ASSUME v + 1 <= q PROVE FALSE
    BY <1>4
  <2>2. m * (v + 1) <= m * q
    BY <2>1, <1>1, <1>4, Scaled
  <2> QED BY <2>2, <1>1, <1>2, <1>4
<1>7. m * q \in Int
  BY <1>1, <1>4
<1> QED BY <1>1, <1>2, <1>4, <1>5, <1>6, <1>7 DEF q

LEMMA TruncOf == ASSUME NEW n \in Nat, NEW S \in -100 .. 100
  PROVE /\ S >= 0 => Div(n * S, 100) \in Nat /\ IsQuotient(Div(n * S, 100), n * S, 100)
        /\ S < 0 => -Div(n * S, 100) \in Nat /\ IsQuotient(-Div(n * S, 100), n * (-S), 100)
        /\ Div(n * S, 100) \in Int /\ Div(n * S, 100) \in -n .. n
        /\ 100 * Div(n * S, 100) - n * S \in -99 .. 99
<1> DEFINE p == n * S  r == n * (-S)  T == Div(p, 100)
<1>1. p \in Int /\ r = -p /\ p \in -(100 * n) .. 100 * n /\ (S >= 0 => p >= 0) /\ (S < 0 => r >= 0)
  OBVIOUS
<1>2. T = IF p < 0 THEN -(r \div 100) ELSE p \div 100
  BY <1>1 DEF Div
<1> HIDE DEF p, r, T
<1>3. S >= 0 => T \in Nat /\ IsQuotient(T, p, 100)
  BY <1>1, <1>2 DEF IsQuotient
<1>4. S < 0 => -T \in Nat /\ IsQuotient(-T, r, 100)
  BY <1>1, <1>2 DEF IsQuotient
<1>5. T \in -n .. n /\ 100 * T - p \in -99 .. 99
  <2>1. CASE S >= 0
    <3>1. T \in Nat /\ 100 * T <= p /\ p < 100 * T + 100
      BY <2>1, <1>3 DEF IsQuotient
    <3> QED BY <3>1, <1>1
  <2>2. CASE S < 0
    <3> DEFINE k == -T
    <3>1. k \in Nat /\ 100 * k <= r /\ r < 100 * k + 100
      BY <2>2, <1>4 DEF IsQuotient
    <3>2. T \in Int
      BY <1>1, <1>2
    <3>3. T = -k
      BY <3>2
    <3> HIDE DEF k
    <3> QED BY <3>1, <3>3, <1>1
  <2> QED BY <2>1, <2>2
<1> QED BY <1>3, <1>4, <1>5 DEF T, p, r

\* a table's entry needs no clamp
LEMMA TableNumber ==
  ASSUME NEW g \in 50 .. 200, NEW t \in 0 .. 200, NEW pf \in 0 .. 3, NEW c \in Channels,
         NEW m, m = MaxOf(pf, c), NEW v \in 0 .. m
  PROVE  /\ Lifted(m, g, v) \in 0 .. m
         /\ Table(g, t, pf, c, v) \in 0 .. m
         /\ IsQuotient(Table(g, t, pf, c, v), Lifted(m, g, v) * Gain(t, c) + 127, 255)
<1> DEFINE sq == Square(m, v)  n == v - sq  S == Strength(g)  G == Gain(t, c)  o == Lifted(m, g, v)
           T == Div(n * S, 100)  u == o * G + 127  out == u \div 255
<1>1. m \in Tops /\ m \in Nat
  BY TopOf DEF Tops
<1>2. sq \in 0 .. v /\ 2 * (v * v) <= 2 * (m * sq) + (m - 1)
  BY <1>1, SquareNumber
<1>3. G \in 0 .. 255
  BY GainRange
<1>4. S \in -100 .. 100
  BY StrengthRange
<1>5. n \in 0 .. v
  BY <1>2
<1>6. T \in -n .. n
  <2> HIDE DEF n, S
  <2>1. n \in Nat
    BY <1>5, <1>1
  <2> QED BY <1>4, <2>1, TruncOf, ZenonT(60)
<1>7. o = v + T
  BY DEF Lifted
<1> HIDE DEF sq, S, G, o, T
<1>8. o \in 0 .. m
  <2>1. o \in 0 .. v + n
    BY <1>5, <1>6, <1>7
  <2>2. v + n <= m
    <3>1. SUFFICES ASSUME v + n >= m + 1 PROVE FALSE
      BY <1>1, <1>5
    <3>2. m * (m + 1) <= m * (v + n)
      BY <3>1, <1>1, <1>5, Scaled
    <3>3. m * (v + n) = 2 * (m * v) - m * sq
      BY <1>1, <1>2
    <3>4. 2 * (m * v) <= m * m + v * v
      <4>1. (m - v) * (m - v) >= 0
        BY <1>1
      <4> QED BY <4>1, <1>1
    <3> QED BY <3>2, <3>3, <3>4, <1>1, <1>2 DEF Tops
  <2> QED BY <2>1, <2>2, <1>1, <1>2
<1>9. u \in Nat /\ u <= 255 * m + 127
  <2>1. o * G \in Nat /\ o * G <= o * 255
    BY <1>3, <1>8, <1>1, Scaled
  <2> QED BY <2>1, <1>8, <1>1
<1>10. Table(g, t, pf, c, v) = LET q == Div(u, 255) IN IF q < 0 THEN 0 ELSE IF q > m THEN m ELSE q
  BY DEF Table, o, Lifted, Square, S, G
<1> HIDE DEF u
<1>11. out \in 0 .. m /\ IsQuotient(out, u, 255) /\ Div(u, 255) = out
  BY <1>9, <1>1 DEF IsQuotient, Div
<1> HIDE DEF out
<1>12. Table(g, t, pf, c, v) = out
  BY <1>10, <1>11, <1>1
<1> QED BY <1>8, <1>11, <1>12 DEF o, u, G

\* a table is the curve, to within two steps
LEMMA TableNear ==
  ASSUME NEW g \in 50 .. 200, NEW t \in 0 .. 200, NEW pf \in 0 .. 3, NEW c \in Channels,
         NEW x \in 0 .. MaxOf(pf, c)
  PROVE  Table(g, t, pf, c, x) \in Curve(g, t, pf, c, x) - 2 .. Curve(g, t, pf, c, x) + 2
<1> DEFINE m == MaxOf(pf, c)  sq == Square(m, x)  n == x - sq  S == Strength(g)  G == Gain(t, c)
           o == Lifted(m, g, x)  T == Div(n * S, 100)  out == Table(g, t, pf, c, x)
           C == Curve(g, t, pf, c, x)
           N == G * (x * m * 100 + S * x * (m - x))
<1>1. m \in Tops /\ m \in 15 .. 255 /\ x \in 0 .. m
  BY TopOf DEF Tops
<1>2. sq \in 0 .. x /\ 2 * (m * sq) <= 2 * (x * x) + (m - 1) /\ 2 * (x * x) <= 2 * (m * sq) + (m - 1)
  BY <1>1, SquareNumber
<1>3. G \in 0 .. 255
  BY GainRange
<1>4. S \in -100 .. 100
  BY StrengthRange
<1>5. 100 * T - n * S \in -99 .. 99 /\ T \in Int
  <2> HIDE DEF m, sq, S
  <2>1. n \in Nat
    BY <1>1, <1>2
  <2> HIDE DEF n
  <2>2. 100 * T - n * S \in -99 .. 99 /\ T \in -n .. n
    BY <1>4, <2>1, TruncOf, ZenonT(60)
  <2> HIDE DEF T
  <2> QED BY <2>1, <2>2
<1>6. o = x + T
  BY DEF Lifted
<1>7. o \in 0 .. m /\ out \in 0 .. m /\ IsQuotient(out, o * G + 127, 255)
  BY TableNumber, ZenonT(60)
<1>8. C = N \div (25500 * m)
  BY DEF Curve
<1> HIDE DEF m, sq, S, G, o, T, out, C
<1>9. N \in Int /\ IsQuotient(C, N, 25500 * m)
  <2>1. N \in Int /\ 25500 * m \in Nat /\ 25500 * m > 0
    BY <1>1, <1>3, <1>4
  <2> HIDE DEF N
  <2> QED BY <2>1, <1>8, Quotient
<1> DEFINE M == 25500 * m  e == 100 * T - n * S  d == m * sq - x * x
           K == m * e - S * d
<1>10. n * S = (x - sq) * S /\ x * m * 100 + S * x * (m - x) = 100 * (m * o) - K
  <2>1. 100 * (m * o) = 100 * (m * x) + m * (100 * T)
    BY <1>1, <1>5, <1>6
  <2>2. m * (100 * T) = m * e + m * (n * S)
    BY <1>1, <1>5, <1>2, <1>4
  <2>3. m * (n * S) = S * (m * x) - S * (m * sq)
    BY <1>1, <1>2, <1>4
  <2>4. S * x * (m - x) = S * (m * x) - S * (x * x)
    BY <1>1, <1>2, <1>4
  <2>5. S * d = S * (m * sq) - S * (x * x)
    BY <1>1, <1>2, <1>4
  <2>6. x * m * 100 = 100 * (m * x)
    BY <1>1
  <2> DEFINE me == m * e  mns == m * (n * S)  smx == S * (m * x)  sms == S * (m * sq)  sxx == S * (x * x)  mx == m * x
             mt == m * (100 * T)  mo == m * o  sd == S * d  a == x * m * 100  b == S * x * (m - x)
  <2>7. {me, mns, smx, sms, sxx, mx, mt, mo, sd, a, b} \subseteq Int
    BY <1>1, <1>2, <1>4, <1>5, <1>6
  <2>8. a + b = 100 * mo - (me - sd)
    <3> HIDE DEF me, mns, smx, sms, sxx, mx, mt, mo, sd, a, b, n, e, d
    <3> QED BY <2>1, <2>2, <2>3, <2>4, <2>5, <2>6, <2>7 DEF me, mns, smx, sms, sxx, mx, mt, mo, sd, a, b
  <2> QED BY <2>8
<1>11. e \in -99 .. 99 /\ 2 * d \in -(m - 1) .. m - 1 /\ d \in Int
  BY <1>1, <1>2, <1>5
<1> HIDE DEF n, e, d
<1>12. K \in -(149 * m) .. 149 * m
  <2>1. m * e \in -(99 * m) .. 99 * m
    BY <1>1, <1>11
  <2>2. S * (2 * d) \in -(100 * (m - 1)) .. 100 * (m - 1)
    BY <1>1, <1>4, <1>11
  <2>3. S * (2 * d) = 2 * (S * d) /\ S * d \in Int
    BY <1>4, <1>11
  <2> QED BY <2>1, <2>2, <2>3, <1>1
<1> HIDE DEF K
<1>13. G * K \in -(255 * (149 * m)) .. 255 * (149 * m)
  BY <1>1, <1>3, <1>12
<1>14. N = 100 * (m * (o * G)) - G * K
  BY <1>10, <1>1, <1>3, <1>7, <1>12
<1>15. m * (o * G) = m * (255 * out) + m * (o * G - 255 * out) /\ m * (o * G - 255 * out) \in -(127 * m) .. 127 * m
  <2>1. o * G \in Int /\ out \in Int
    BY <1>1, <1>3, <1>7
  <2>2. o * G - 255 * out \in -127 .. 127
    BY <1>7, <2>1 DEF IsQuotient
  <2> DEFINE f == o * G - 255 * out
  <2>3. o * G = 255 * out + f
    BY <2>1
  <2> HIDE DEF f
  <2>4. m * f \in -(127 * m) .. 127 * m
    BY <1>1, <2>2 DEF f
  <2> QED BY <2>1, <2>4, <1>1 DEF f
<1>16. N - M * out \in -(50695 * m) .. 50695 * m
  <2> DEFINE mog == m * (o * G)  f == m * (o * G - 255 * out)  gk == G * K  mo == m * out
  <2>1. mog = 255 * mo + f /\ f \in -(127 * m) .. 127 * m /\ N = 100 * mog - gk /\ mo \in Int
    BY <1>14, <1>15, <1>1, <1>7
  <2>2. M * out = 25500 * mo
    BY <1>1, <1>7
  <2> HIDE DEF N, M, mog, f, gk, mo
  <2> QED BY <2>1, <2>2, <1>1, <1>13 DEF gk
<1>17. M * C <= N /\ N < M * C + M /\ C \in Int
  BY <1>9 DEF IsQuotient
<1> HIDE DEF N
<1>18. out - C \in -2 .. 2
  <2>1. 2 * M = 51000 * m /\ M > 0 /\ M \in Nat
    BY <1>1
  <2>2. M * (out - C) = M * out - M * C /\ out - C \in Int /\ {M * out, M * C} \subseteq Int
    BY <1>7, <1>17, <2>1, <1>1
  <2> DEFINE k == out - C
  <2>3. M * k \in -(2 * M) .. 3 * M - 1
    BY <2>1, <2>2, <1>1, <1>9, <1>16, <1>17
  <2>4. k \in Int
    BY <2>2
  <2> HIDE DEF k, M
  <2>5. k >= -2
    BY <2>1, <2>3, <2>4
  <2>6. k < 3
    BY <2>1, <2>3, <2>4
  <2> QED BY <2>4, <2>5, <2>6 DEF k
<1> QED BY <1>7, <1>17, <1>18, <1>1 DEF C, out

\* a table never swaps two brightnesses
LEMMA TableRises ==
  ASSUME NEW g \in 50 .. 200, NEW t \in 0 .. 200, NEW pf \in 0 .. 3, NEW c \in Channels,
         NEW x \in 0 .. MaxOf(pf, c), NEW y \in 0 .. MaxOf(pf, c), x < y
  PROVE  Table(g, t, pf, c, x) <= Table(g, t, pf, c, y)
<1> DEFINE m == MaxOf(pf, c)  sx == Square(m, x)  sy == Square(m, y)  S == Strength(g)  G == Gain(t, c)
           a == x - sx  b == y - sy  D == y - x
           Tx == Div(a * S, 100)  Ty == Div(b * S, 100)
           ox == Lifted(m, g, x)  oy == Lifted(m, g, y)
           p == Table(g, t, pf, c, x)  q == Table(g, t, pf, c, y)
<1>1. m \in Tops /\ m \in 15 .. 255 /\ x \in 0 .. m /\ y \in 0 .. m
  BY TopOf DEF Tops
<1>2. /\ sx \in 0 .. x /\ 2 * (m * sx) <= 2 * (x * x) + (m - 1) /\ 2 * (x * x) <= 2 * (m * sx) + (m - 1)
      /\ sy \in 0 .. y /\ 2 * (m * sy) <= 2 * (y * y) + (m - 1) /\ 2 * (y * y) <= 2 * (m * sy) + (m - 1)
  BY <1>1, SquareNumber
<1>3. G \in 0 .. 255
  BY GainRange
<1>4. S \in -100 .. 100
  BY StrengthRange
<1>5. ox = x + Tx /\ oy = y + Ty
  BY DEF Lifted
<1>6. ox \in 0 .. m /\ IsQuotient(p, ox * G + 127, 255) /\ oy \in 0 .. m /\ IsQuotient(q, oy * G + 127, 255)
  <2>1. ox \in 0 .. m /\ IsQuotient(p, ox * G + 127, 255)
    BY TableNumber, ZenonT(60)
  <2>2. oy \in 0 .. m /\ IsQuotient(q, oy * G + 127, 255)
    BY TableNumber, ZenonT(60)
  <2> QED BY <2>1, <2>2
<1> HIDE DEF m, sx, sy, S, G, ox, oy, p, q
<1>7. sy - sx \in 0 .. 2 * D
  <2>1. m * (sy - sx) = m * sy - m * sx /\ {m * sx, m * sy, x * x, y * y} \subseteq Int
    BY <1>1, <1>2
  <2>2. y * y - x * x = D * (x + y) /\ D >= 1 /\ x + y >= 1 /\ x + y <= 2 * m - 1
    BY <1>1
  <2>3. D * (x + y) >= 1 /\ D * (x + y) <= D * (2 * m - 1)
    BY <2>2, <1>1, Scaled
  <2>4. D * (2 * m - 1) = m * (2 * D) - D /\ D * (x + y) \in Int /\ m * (2 * D) \in Int
    BY <1>1
  <2> DEFINE k == sy - sx
  <2>5. m * k > -m /\ m * k < m * (2 * D) + m /\ m * k \in Int /\ k \in Int
    <3> DEFINE dxy == D * (x + y)  xx == x * x  yy == y * y  mx == m * sx  my == m * sy  d2 == m * (2 * D)  mk == m * k
    <3>1. k \in Int /\ mk \in Int
      BY <1>1, <1>2
    <3>2. mk = my - mx /\ yy - xx = dxy /\ dxy >= 1 /\ dxy <= d2 - D /\ {dxy, xx, yy, mx, my, d2, D} \subseteq Int
      BY <2>1, <2>2, <2>3, <2>4, <1>1
    <3>3. 2 * mx <= 2 * xx + (m - 1) /\ 2 * yy <= 2 * my + (m - 1) /\ 2 * my <= 2 * yy + (m - 1) /\ 2 * xx <= 2 * mx + (m - 1)
      BY <1>2
    <3>4. D >= 1
      BY <2>2
    <3> HIDE DEF dxy, xx, yy, mx, my, d2, mk, D
    <3>5. mk > -m /\ mk < d2 + m
      BY <3>1, <3>2, <3>3, <3>4, <1>1
    <3> QED BY <3>1, <3>5 DEF mk, d2
  <2>6. k >= 0
    <3>1. SUFFICES ASSUME k <= -1 PROVE FALSE
      BY <2>5
    <3>2. m * k <= m * (-1)
      BY <3>1, <2>5, <1>1, Scaled
    <3> QED BY <3>2, <2>5, <1>1
  <2>7. k <= 2 * D
    <3>1. SUFFICES ASSUME 2 * D + 1 <= k PROVE FALSE
      BY <2>5, <1>1
    <3>2. m * (2 * D + 1) <= m * k
      <4> HIDE DEF k
      <4> QED BY <3>1, <2>5, <1>1, Scaled
    <3>3. m * (2 * D + 1) = m * (2 * D) + m
      BY <1>1
    <3> QED BY <3>2, <3>3, <2>5, <1>1
  <2> QED BY <2>5, <2>6, <2>7, <1>1
<1>8. a \in Nat /\ b \in Nat /\ D \in Nat /\ b - a \in -D .. D
  BY <1>7, <1>1, <1>2
<1>9. ox <= oy
  <2> HIDE DEF a, b
  <2>0. D + x = y
    BY <1>1
  <2> HIDE DEF D
  <2>1. Tx <= Ty + D
    <3>1. CASE S >= 0
      <4>1. Tx \in Nat /\ IsQuotient(Tx, a * S, 100) /\ Ty \in Nat /\ IsQuotient(Ty, b * S, 100)
        BY <3>1, <1>4, <1>8, TruncOf
      <4>2. a * S <= b * S + 100 * D
        <5>1. a * S <= (b + D) * S
          BY <1>8, <3>1, <1>4, Scaled
        <5>2. (b + D) * S = b * S + D * S /\ D * S <= 100 * D
          BY <1>8, <1>4
        <5> QED BY <5>1, <5>2, <1>8, <1>4
      <4> HIDE DEF Tx, Ty
      <4> QED BY <4>1, <4>2, <1>4, <1>8 DEF IsQuotient
    <3>2. CASE S < 0
      <4> DEFINE i == -Tx  j == -Ty  R == -S
      <4>0. R \in 0 .. 100
        BY <3>2, <1>4
      <4>1. i \in Nat /\ IsQuotient(i, a * R, 100) /\ j \in Nat /\ IsQuotient(j, b * R, 100)
        <5>1. i \in Nat /\ IsQuotient(i, a * R, 100)
          BY <3>2, <1>4, <1>8, TruncOf, ZenonT(60)
        <5>2. j \in Nat /\ IsQuotient(j, b * R, 100)
          BY <3>2, <1>4, <1>8, TruncOf, ZenonT(60)
        <5> QED BY <5>1, <5>2
      <4>2. Tx \in Int /\ Ty \in Int
        BY <1>4, <1>8, TruncOf, Zenon
      <4>3. Tx = -i /\ Ty = -j
        BY <4>2
      <4> HIDE DEF Tx, Ty, i, j, R
      <4>4. b * R <= a * R + 100 * D
        <5>1. b * R <= (a + D) * R
          BY <1>8, <4>0, Scaled
        <5>2. (a + D) * R = a * R + D * R /\ D * R <= 100 * D
          BY <1>8, <4>0
        <5> QED BY <5>1, <5>2, <1>8, <4>0
      <4>5. j <= i + D
        BY <4>1, <4>4, <4>0, <1>8 DEF IsQuotient
      <4> QED BY <4>1, <4>3, <4>5, <1>8
    <3> QED BY <3>1, <3>2, <1>4
  <2>2. Tx \in Int /\ Ty \in Int
    BY <1>4, <1>8, TruncOf, Zenon
  <2> HIDE DEF Tx, Ty
  <2> QED BY <2>0, <2>1, <2>2, <1>1, <1>5, <1>8
<1>10. ox * G <= oy * G /\ {ox * G, oy * G} \subseteq Int
  BY <1>9, <1>1, <1>3, <1>6, Scaled
<1>11. p <= q
  <2> DEFINE i == ox * G  j == oy * G
  <2>1. i <= j /\ i \in Int /\ j \in Int
    BY <1>10
  <2> HIDE DEF i, j
  <2> QED BY <2>1, <1>6 DEF IsQuotient, i, j
<1> QED BY <1>11 DEF p, q

\* the gamma whose curve it is, of two a step apart
SideOf(g, h) == IF (g < 100 /\ h < 100) \/ (g > 100 /\ h > 100) THEN g ELSE 100

\* ... with texture if both are on one side
Textured(g, h, tex) == (g < 100 /\ h < 100 => tex) /\ (g > 100 /\ h > 100 => tex)

\* one pixel: the vertices are of g, the blend of h, a step apart at most
LEMMA PixelNumber ==
  ASSUME NEW g \in 50 .. 200, NEW h \in 50 .. 200, g \in h - 1 .. h + 1,
         NEW t \in 0 .. 200, NEW c \in Channels, NEW x \in 0 .. 255,
         NEW v, v[1] = g, v[2] = t, NEW tex,
         Textured(g, h, tex)
  PROVE  Abs(Drawn(v, tex, h, c, x) - Curve(SideOf(g, h), t, 3, c, x)) <= 5
<1> DEFINE out == Drawn(v, tex, h, c, x)
<1>0. \A s \in 50 .. 200 : Curve(s, t, 3, c, x) \in Int
  BY CurveNumber, Zenon DEF IsQuotient
<1>1. CASE g < 100 /\ h < 100
  <2>1. g \in 50 .. 99 /\ h \in 50 .. 99 /\ tex
    BY <1>1 DEF Textured
  <2>2. out \in Curve(g, t, 3, c, x) - 3 .. Curve(g, t, 3, c, x)
    BY <2>1, DrawnDark, ZenonT(60)
  <2> HIDE DEF out
  <2>3. Abs(out - Curve(g, t, 3, c, x)) <= 5
    BY <1>0, <2>2, <2>1 DEF Abs
  <2> QED BY <1>1, <2>3 DEF out, SideOf
<1>2. CASE g > 100 /\ h > 100
  <2>1. g \in 101 .. 200 /\ h \in 100 .. 200 /\ tex
    BY <1>2 DEF Textured
  <2>2. out \in Curve(g, t, 3, c, x) - 3 .. Curve(g, t, 3, c, x)
    BY <2>1, DrawnBright, ZenonT(60)
  <2> HIDE DEF out
  <2>3. Abs(out - Curve(g, t, 3, c, x)) <= 5
    BY <1>0, <2>2, <2>1 DEF Abs
  <2> QED BY <1>2, <2>3 DEF out, SideOf
<1>3. CASE ~(g < 100 /\ h < 100) /\ ~(g > 100 /\ h > 100)
  <2>1. h \in 99 .. 101 /\ g \in NextTo(h)
    BY <1>3 DEF NextTo
  <2>2. out \in Curve(100, t, 3, c, x) .. Curve(100, t, 3, c, x) + 5
    BY <2>1, DrawnNeutral, ZenonT(60)
  <2>3. Curve(100, t, 3, c, x) \in Int
    <3>1. 100 \in 50 .. 200
      OBVIOUS
    <3> QED BY <3>1, <1>0, Zenon
  <2> HIDE DEF out
  <2>4. Abs(out - Curve(100, t, 3, c, x)) <= 5
    <3> DEFINE C == Curve(100, t, 3, c, x)
    <3>1. C \in Int /\ out \in C .. C + 5
      BY <2>2, <2>3
    <3> HIDE DEF C
    <3>2. Abs(out - C) <= 5
      BY <3>1 DEF Abs
    <3> QED BY <3>2 DEF C
  <2> QED BY <1>3, <2>4 DEF out, SideOf
<1> QED BY <1>1, <1>2, <1>3

\* the texture bit is of the gamma the vertices are of, or of the one the pass ends with
TexturedFor(g0, g1, h, tex) == g1 \in {g0, h} /\ ((tex <=> h # 100) \/ (g1 = g0 /\ (tex <=> g0 # 100)))

NearCurve(g0, h, t, c, x, out) == \E s \in {g0, h} : Abs(out - Curve(s, t, 3, c, x)) <= 5

\* One pixel of a frame whose pass began at gamma g0 and ended at h, one step away at most:
\* the vertices are of one of the two, and so is the texture bit.
LEMMA PixelIsCurve ==
  ASSUME NEW g0 \in 50 .. 200, NEW h \in 50 .. 200, NEW g1, g0 \in h - 1 .. h + 1,
         NEW t \in 0 .. 200, NEW c \in Channels, NEW x \in 0 .. 255,
         NEW v, v[1] = g1, v[2] = t, NEW tex,
         TexturedFor(g0, g1, h, tex)
  PROVE  NearCurve(g0, h, t, c, x, Drawn(v, tex, h, c, x))
<1> DEFINE s == SideOf(g1, h)
<1>1. s \in {g0, h}
  BY DEF SideOf, TexturedFor
<1>2. g1 \in 50 .. 200 /\ g1 \in h - 1 .. h + 1
  BY DEF TexturedFor
<1>3. Textured(g1, h, tex)
  BY DEF Textured, TexturedFor
<1>4. Abs(Drawn(v, tex, h, c, x) - Curve(s, t, 3, c, x)) <= 5
  BY <1>2, <1>3, PixelNumber, Zenon
<1> QED BY <1>1, <1>4 DEF NearCurve

\* every set of numbers with a bound has a greatest
LEMMA GreatestOf ==
  ASSUME NEW b \in Int, NEW T \in SUBSET {n \in Int : n <= b}, T # {}
  PROVE  \E m \in T : \A n \in T : n <= m
<1> DEFINE R == OpToRel(<, Nat)  D == {b - n : n \in T}
<1>1. IsWellFoundedOn(R, Nat)
  BY NatLessThanWellFounded
<1>2. D \subseteq Nat /\ D # {}
  OBVIOUS
<1>3. \A i, j \in Nat : <<i, j>> \in R <=> i < j
  BY DEF OpToRel
<1> HIDE DEF R, D
<1>4. PICK d \in D : \A e \in D : ~(<<e, d>> \in R)
  BY <1>1, <1>2, WFMin
<1>5. PICK m \in T : d = b - m
  BY DEF D
<1>6. \A n \in T : n <= m
  <2>1. TAKE n \in T
  <2>2. b - n \in D
    BY DEF D
  <2>3. ~(b - n < d)
    BY <1>2, <1>3, <1>4, <2>2
  <2> QED BY <2>3, <1>5
<1> QED BY <1>6

\* ... the greatest height that fits, if 272 lines do
InVram(off, stride, b, h) == h \in Nat /\ off + h * stride * b <= Vram

Tallest(off, stride, b, top) ==
  LET fits == {h \in Lines .. top : h * stride * b <= Vram - off}
  IN IF top <= Lines THEN top
     ELSE IF fits = {} THEN Lines ELSE CHOOSE h \in fits : \A i \in fits : i <= h

LEMMA Room ==
  ASSUME NEW off \in Nat, NEW stride \in 64 .. 1024, NEW b \in Nat, NEW top \in Nat,
         InVram(off, stride, b, Lines)
  PROVE  /\ InVram(off, stride, b, Tallest(off, stride, b, top))
         /\ Tallest(off, stride, b, top) \in {top} \cup Lines .. top
<1> DEFINE fits == {h \in Lines .. top : h * stride * b <= Vram - off}
<1>0. Lines \in Nat /\ Vram \in Nat
  BY DEF Lines, Vram
<1>1. Lines \in Nat /\ Vram \in Nat /\ off + Lines * stride * b <= Vram
  BY <1>0 DEF InVram
<1>2. CASE top <= Lines
  <2>1. stride * b \in Nat /\ Lines * stride * b = Lines * (stride * b) /\ top * stride * b = top * (stride * b)
    BY <1>1
  <2>2. top * (stride * b) <= Lines * (stride * b) /\ {top * (stride * b), Lines * (stride * b)} \subseteq Int
    BY <1>1, <1>2, <2>1, Scaled
  <2>3. Tallest(off, stride, b, top) = top
    BY <1>2 DEF Tallest
  <2> QED BY <1>1, <1>2, <2>1, <2>2, <2>3 DEF InVram
<1>3. CASE top > Lines
  <2>1. Lines * stride * b \in Int
    BY <1>1
  <2>2. Lines \in fits
    BY <1>1, <1>3, <2>1
  <2>3. fits \in SUBSET {n \in Int : n <= top} /\ top \in Int
    BY <1>1
  <2> HIDE DEF fits
  <2>4. \E h \in fits : \A i \in fits : i <= h
    BY <2>2, <2>3, GreatestOf, Zenon
  <2> DEFINE k == CHOOSE h \in fits : \A i \in fits : i <= h
  <2>5. k \in fits
    BY <2>4
  <2> HIDE DEF k
  <2>6. k \in Nat /\ k * stride * b <= Vram - off
    BY <2>5, <1>1 DEF fits
  <2>7. k * stride * b \in Int
    BY <2>6
  <2>8. off + k * stride * b <= Vram
    BY <2>6, <2>7, <1>1
  <2>9. ~(top <= Lines) /\ fits # {}
    BY <1>1, <1>3, <2>2
  <2>10. Tallest(off, stride, b, top) = k
    BY <2>9 DEF Tallest, k, fits
  <2>11. k \in Lines .. top
    BY <2>5 DEF fits
  <2> QED BY <2>6, <2>8, <2>10, <2>11 DEF InVram
<1> QED BY <1>1, <1>2, <1>3

\* the size for a game's buffer: what it writes lies in VRAM
LEMMA CoverageFits ==
  ASSUME NEW tg \in PassTargets, NEW rw \in Int, NEW rh \in Heights
  PROVE  LET k == Coverage(tg, rw, rh)
         IN /\ k.w \in 64 .. 1024 /\ k.h \in 1 .. CovMaxH /\ k.w <= tg.stride
            /\ tg.off + k.h * tg.stride * Bpp(tg.pf) <= Vram
<1> DEFINE k == Coverage(tg, rw, rh)  top == Estimate(tg, rw, rh)  B == Bpp(tg.pf)
           stride == tg.stride  off == tg.off
<1>1. off \in Nat /\ stride \in 64 .. 1024 /\ B \in Nat /\ off + stride * Lines * B <= Vram
  BY CurveAssumption DEF PassTargets, Plausible, Bpp
<1>2. /\ k.w = IF stride > CovMaxW THEN CovMaxW ELSE stride
      /\ k.h = Tallest(off, stride, B, top)
  BY Zenon DEF Coverage, Tallest
<1>3. top \in 1 .. CovMaxH
  <2> DEFINE n == stride * Lines + 479
  <2> HIDE DEF stride, off, B
  <2>1. n \in Nat /\ n >= 480
    BY <1>1 DEF Lines
  <2> DEFINE e == n \div 480
  <2> HIDE DEF n
  <2>2. e \in Nat /\ e >= 1
    BY <2>1
  <2> HIDE DEF e
  <2> USE DEF stride, e, n
  <2> DEFINE h == IF rw \in 480 .. 1024 /\ rh \in Lines .. 512 THEN rh ELSE e
  <2>3. top = IF h > CovMaxH THEN CovMaxH ELSE h
    BY Zenon DEF Estimate
  <2> HIDE DEF stride, e, n, top
  <2>4. h \in Nat /\ h >= 1
    BY <2>2 DEF Lines
  <2> HIDE DEF h
  <2> QED BY <2>3, <2>4 DEF CovMaxH
<1> HIDE DEF k, top, B, stride, off
<1>4. k.h \in 1 .. CovMaxH /\ off + k.h * stride * B <= Vram
  <2>0. InVram(off, stride, B, Lines)
    BY <1>1 DEF InVram, Lines
  <2>1. InVram(off, stride, B, k.h) /\ k.h \in {top} \cup Lines .. top
    <3>1. top \in Nat
      BY <1>3
    <3> QED BY <1>1, <1>2, <2>0, <3>1, Room, ZenonT(60)
  <2>2. k.h \in 1 .. CovMaxH
    <3>1. \A n : n \in {top} \cup Lines .. top => n \in 1 .. CovMaxH
      BY <1>3 DEF Lines, CovMaxH
    <3> QED BY <2>1, <3>1, Zenon
  <2> QED BY <2>1, <2>2 DEF InVram
<1>5. k.w \in 64 .. 1024 /\ k.w <= stride
  BY <1>1, <1>2 DEF CovMaxW
<1> QED BY <1>4, <1>5 DEF k, B, stride, off

\* the strips of a width meet, begin at 0 and end at the width
LEMMA StripsMeet ==
  ASSUME NEW w \in Nat
  PROVE  LET s == StripsOf(w)
         IN s[1][1] = 0 /\ s[Strips][2] = w /\ \A i \in 1 .. Strips - 1 : s[i][2] = s[i + 1][1]
<1> DEFINE s == StripsOf(w)
<1>1. \A i \in 1 .. Strips : s[i] = <<((i - 1) * w) \div Strips, (i * w) \div Strips>>
  BY DEF StripsOf
<1> HIDE DEF s
<1>2. s[1][1] = ((1 - 1) * w) \div 15 /\ s[15][2] = (15 * w) \div 15
  <2>1. 1 \in 1 .. Strips /\ 15 \in 1 .. Strips
    BY DEF Strips
  <2> QED BY <1>1, <2>1 DEF Strips
<1>3. (1 - 1) * w = 0 /\ 0 \div 15 = 0 /\ (15 * w) \div 15 = w
  OBVIOUS
<1>4. ASSUME NEW i \in 1 .. Strips - 1 PROVE s[i][2] = s[i + 1][1]
  <2>1. i \in 1 .. Strips /\ i + 1 \in 1 .. Strips /\ (i + 1) - 1 = i
    BY DEF Strips
  <2>2. s[i][2] = (i * w) \div Strips
    BY <1>1, <2>1
  <2>3. s[i + 1][1] = (((i + 1) - 1) * w) \div Strips
    BY <1>1, <2>1
  <2> QED BY <2>1, <2>2, <2>3
<1>5. s[1][1] = 0 /\ s[15][2] = w
  BY <1>2, <1>3
<1> QED BY <1>4, <1>5 DEF s, Strips

LEMMA CurveIsNumber ==
  ASSUME NEW g \in 50 .. 200, NEW t \in 0 .. 200, NEW pf \in 0 .. 3, NEW c \in Channels,
         NEW x \in 0 .. MaxOf(pf, c)
  PROVE  Curve(g, t, pf, c, x) \in Int
<1> DEFINE m == MaxOf(pf, c)  S == Strength(g)  G == Gain(t, c)
<1>1. m \in 15 .. 255 /\ G \in 0 .. 255 /\ S \in -100 .. 100
  <2>1. m \in 15 .. 255
    BY TopOf DEF Tops
  <2>2. G \in 0 .. 255
    BY GainRange
  <2>3. S \in -100 .. 100
    BY StrengthRange
  <2> QED BY <2>1, <2>2, <2>3
<1>2. Curve(g, t, pf, c, x) = (G * (x * m * 100 + S * x * (m - x))) \div (25500 * m)
  BY DEF Curve
<1>3. x \in 0 .. m
  OBVIOUS
<1> HIDE DEF m, S, G
<1> DEFINE n == G * (x * m * 100 + S * x * (m - x))  w == 25500 * m
<1>4. n \in Int /\ w \in Nat /\ w > 0
  BY <1>1, <1>3
<1> HIDE DEF n, w
<1>5. n \div w \in Int
  BY <1>4, Quotient DEF IsQuotient
<1> QED BY <1>2, <1>5 DEF n, w

-----------------------------------------------------------------------------
(* The correction drawn: its inductive invariant, an action at a time *)

\* What a pass is built from while it is built: the settings are those it began with or one
\* step on; the vertices are of one of the two, and the texture bit too.
PassInv ==
  /\ gamma \in 50 .. 200 /\ temp \in 0 .. 200 /\ moved \in BOOLEAN
  /\ pc \in {"idle", "vertices", "list", "blend"}
  /\ began[1] \in 50 .. 200 /\ began[2] = temp
  /\ gamma \in began[1] - 1 .. began[1] + 1
  /\ ~moved => gamma = began[1]
  /\ pc = "idle" => ~moved
  /\ pc # "idle" => aim.w \in Nat
  /\ pc \in {"list", "blend"} =>
       /\ vtx[1] \in {began[1], gamma} /\ vtx[2] = temp
       /\ vtx[3] = aim.w
  /\ pc = "blend" => TexturedFor(began[1], vtx[1], gamma, texture)

CurveInv == PassInv /\ FrameIsCurve /\ InsideVram

\* ... of any frame
IsCurve(f) ==
  /\ f.by # "spoilt"
  /\ \A c \in DOMAIN f.out : \A x \in DOMAIN f.out[c] :
       \E s \in f.of :
         Abs(f.out[c][x] - Curve(s[1], s[2], f.pf, c, x)) <= IF f.by = "ge" THEN 5 ELSE 2
  /\ f.by = "cpu" =>
       \A c \in Channels : \A x, y \in DOMAIN f.out[c] : x < y => f.out[c][x] <= f.out[c][y]

LEMMA NoFrameIsCurve == IsCurve(NoFrame)
<1>1. NoFrame.out = <<>> /\ NoFrame.by = "none"
  BY DEF NoFrame
<1>2. DOMAIN NoFrame.out = {}
  BY <1>1
<1> QED BY <1>1, <1>2 DEF IsCurve

LEMMA CurveInitially == CurveInit => CurveInv
<1> SUFFICES ASSUME CurveInit PROVE CurveInv
  OBVIOUS
<1>1. FrameIsCurve
  <2>1. IsCurve(frame)
    BY NoFrameIsCurve DEF CurveInit
  <2> QED BY <2>1 DEF FrameIsCurve, IsCurve
<1>2. gamma \in 50 .. 200 /\ temp \in 0 .. 200
  BY CurveAssumption DEF CurveInit
<1>3. began[1] = gamma /\ began[2] = temp
  BY DEF CurveInit
<1>4. pc = "idle" /\ moved = FALSE
  BY DEF CurveInit
<1>5. PassInv
  <2>1. gamma \in began[1] - 1 .. began[1] + 1
    BY <1>2, <1>3
  <2> QED BY <1>2, <1>3, <1>4, <2>1, Zenon DEF PassInv
<1>6. InsideVram
  BY <1>4 DEF InsideVram
<1> QED BY <1>1, <1>5, <1>6 DEF CurveInv

LEMMA LoadKeeps == CurveInv /\ Load => CurveInv'
<1> SUFFICES ASSUME CurveInv, Load PROVE CurveInv'
  OBVIOUS
<1>1. FrameIsCurve'
  <2>1. IsCurve(frame')
    BY NoFrameIsCurve DEF Load
  <2> QED BY <2>1 DEF FrameIsCurve, IsCurve
<1>2. gamma' \in 50 .. 200 /\ temp' \in 0 .. 200
  BY CurveAssumption DEF Load
<1>3. began'[1] = gamma' /\ began'[2] = temp'
  BY DEF Load
<1>4. pc' = "idle" /\ moved' = FALSE
  BY DEF Load, CurveInv, PassInv
<1>5. PassInv'
  <2>1. gamma' \in began'[1] - 1 .. began'[1] + 1
    <3>1. ASSUME NEW g \in 50 .. 200 PROVE g \in g - 1 .. g + 1
      OBVIOUS
    <3>2. gamma' \in gamma' - 1 .. gamma' + 1
      BY <1>2, <3>1, Zenon
    <3> QED BY <3>2, <1>3, Zenon
  <2> QED BY <1>2, <1>3, <1>4, <2>1, Zenon DEF PassInv
<1>6. InsideVram'
  BY <1>4 DEF InsideVram
<1> QED BY <1>1, <1>5, <1>6 DEF CurveInv

LEMMA TuneKeeps == CurveInv /\ Tune => CurveInv'
<1> SUFFICES ASSUME CurveInv, Tune PROVE CurveInv'
  OBVIOUS
<1>1. FrameIsCurve' /\ InsideVram'
  BY DEF Tune, CurveInv, FrameIsCurve, InsideVram
<1>2. gamma' \in 50 .. 200 /\ gamma' \in began[1] - 1 .. began[1] + 1 /\ moved' = TRUE
  BY DEF Tune, CurveInv, PassInv, Near
<1>3. gamma = began[1] /\ UNCHANGED <<temp, began, vtx, aim, pc, texture>> /\ pc # "idle"
  BY DEF Tune, CurveInv, PassInv
<1>4. pc \in {"list", "blend"} => vtx[1] = began[1]
  BY <1>3 DEF CurveInv, PassInv
<1>5. pc = "blend" => TexturedFor(began[1], vtx[1], gamma', texture)
  BY <1>3, <1>4 DEF CurveInv, PassInv, TexturedFor
<1>6. PassInv'
  BY <1>2, <1>3, <1>4, <1>5 DEF PassInv, CurveInv
<1> QED BY <1>1, <1>6 DEF CurveInv

LEMMA PassDisplayKeeps == CurveInv /\ PassDisplay => CurveInv'
<1> SUFFICES ASSUME CurveInv, PassDisplay PROVE CurveInv'
  OBVIOUS
<1>1. FrameIsCurve'
  <2>1. IsCurve(frame')
    BY NoFrameIsCurve DEF PassDisplay
  <2> QED BY <2>1 DEF FrameIsCurve, IsCurve
<1>2. PICK tg \in PassTargets :
        aim' = [off |-> tg.off, stride |-> tg.stride, pf |-> tg.pf,
                w |-> IF tg.stride < 480 THEN tg.stride ELSE 480, h |-> Lines]
  BY DEF PassDisplay
<1>3. tg.stride \in 64 .. 1024 /\ tg.off + tg.stride * Lines * Bpp(tg.pf) <= Vram
  BY DEF PassTargets, Plausible
<1>4. /\ aim'.off = tg.off /\ aim'.stride = tg.stride /\ aim'.pf = tg.pf /\ aim'.h = Lines
      /\ aim'.w = IF tg.stride < 480 THEN tg.stride ELSE 480
  BY <1>2
<1>5. aim'.w \in Nat /\ aim'.w <= aim'.stride
  <2>1. PICK n \in 64 .. 1024 : n = tg.stride
    BY <1>3
  <2>2. aim'.stride = n /\ aim'.w = IF n < 480 THEN n ELSE 480
    BY <1>4, <2>1
  <2>3. (IF n < 480 THEN n ELSE 480) \in Nat /\ (IF n < 480 THEN n ELSE 480) <= n
    OBVIOUS
  <2> QED BY <2>2, <2>3
<1>6. aim'.off + aim'.h * aim'.stride * Bpp(aim'.pf) <= Vram
  <2>1. Lines * tg.stride = tg.stride * Lines
    BY <1>3 DEF Lines
  <2> QED BY <1>3, <1>4, <2>1, Zenon
<1>7. InsideVram'
  BY <1>5, <1>6 DEF InsideVram
<1>8. pc' = "vertices" /\ UNCHANGED <<gamma, temp, moved, began>>
  BY DEF PassDisplay
<1>9. PassInv'
  BY <1>5, <1>8 DEF PassInv, CurveInv
<1> QED BY <1>1, <1>7, <1>9 DEF CurveInv

LEMMA PassOffscreenKeeps == CurveInv /\ PassOffscreen => CurveInv'
<1> SUFFICES ASSUME CurveInv, PassOffscreen PROVE CurveInv'
  OBVIOUS
<1>1. FrameIsCurve'
  <2>1. IsCurve(frame')
    BY NoFrameIsCurve DEF PassOffscreen
  <2> QED BY <2>1 DEF FrameIsCurve, IsCurve
<1>2. PICK tg \in PassTargets, rw \in {479, 480}, rh \in Heights :
        /\ cov' = Coverage(tg, rw, rh)
        /\ aim' = [off |-> tg.off, stride |-> tg.stride, pf |-> tg.pf, w |-> cov'.w, h |-> cov'.h]
  BY DEF PassOffscreen
<1>3. /\ cov'.w \in 64 .. 1024 /\ cov'.h \in 1 .. CovMaxH /\ cov'.w <= tg.stride
      /\ tg.off + cov'.h * tg.stride * Bpp(tg.pf) <= Vram
  BY <1>2, CoverageFits
<1>4. /\ aim'.off = tg.off /\ aim'.stride = tg.stride /\ aim'.pf = tg.pf
      /\ aim'.h = cov'.h /\ aim'.w = cov'.w
  BY <1>2
<1>5. aim'.w \in Nat
  BY <1>3, <1>4
<1>6. InsideVram'
  <2>1. \A n : n \in 1 .. CovMaxH => n \in Nat
    BY DEF CovMaxH
  <2> QED BY <1>3, <1>4, <2>1, Zenon DEF InsideVram
<1>7. pc' = "vertices" /\ UNCHANGED <<gamma, temp, moved, began>>
  BY DEF PassOffscreen
<1>8. PassInv'
  BY <1>5, <1>7 DEF PassInv, CurveInv
<1> QED BY <1>1, <1>6, <1>8 DEF CurveInv

LEMMA VerticesKeeps == CurveInv /\ Vertices => CurveInv'
<1> SUFFICES ASSUME CurveInv, Vertices PROVE CurveInv'
  OBVIOUS
<1>1. FrameIsCurve' /\ InsideVram'
  BY DEF Vertices, CurveInv, FrameIsCurve, InsideVram
<1>2. vtx'[1] = gamma /\ vtx'[2] = temp /\ vtx'[3] = aim.w
  BY DEF Vertices
<1>3. pc' = "list" /\ pc = "vertices" /\ UNCHANGED <<gamma, temp, moved, aim, began>>
  BY DEF Vertices
<1>4. PassInv'
  BY <1>2, <1>3 DEF PassInv, CurveInv
<1> QED BY <1>1, <1>4 DEF CurveInv

LEMMA ListKeeps == CurveInv /\ List => CurveInv'
<1> SUFFICES ASSUME CurveInv, List PROVE CurveInv'
  OBVIOUS
<1>1. FrameIsCurve' /\ InsideVram'
  BY DEF List, CurveInv, FrameIsCurve, InsideVram
<1>2. pc = "list" /\ pc' = "blend" /\ UNCHANGED <<gamma, temp, moved, vtx, aim, began>>
  BY DEF List
<1>3. TexturedFor(began[1], vtx[1], gamma, texture')
  BY DEF List, TexturedFor, CurveInv, PassInv
<1>4. PassInv'
  BY <1>2, <1>3 DEF PassInv, CurveInv
<1> QED BY <1>1, <1>4 DEF CurveInv

LEMMA BlendKeeps == CurveInv /\ Blend => CurveInv'
<1> SUFFICES ASSUME CurveInv, Blend PROVE CurveInv'
  OBVIOUS
<1>1. \A r \in MustBeZero : r \in DOMAIN Common /\ Common[r] = 0
  BY DEF MustBeZero, Common
<1>2. frame' = [by |-> "ge", of |-> {began, <<gamma, temp>>}, pf |-> 3,
                out |-> [c \in Channels |-> [x \in Samples |-> Drawn(vtx, texture, gamma, c, x)]]]
  BY <1>1 DEF Blend
<1>3. /\ frame'.by = "ge" /\ frame'.of = {began, <<gamma, temp>>} /\ frame'.pf = 3
      /\ frame'.out = [c \in Channels |-> [x \in Samples |-> Drawn(vtx, texture, gamma, c, x)]]
  BY <1>2
<1>4. /\ DOMAIN frame'.out = Channels
      /\ \A c \in Channels : frame'.out[c] = [x \in Samples |-> Drawn(vtx, texture, gamma, c, x)]
  BY <1>3
<1>5. ASSUME NEW c \in Channels, NEW x \in DOMAIN frame'.out[c]
      PROVE  \E s \in frame'.of : Abs(frame'.out[c][x] - Curve(s[1], s[2], frame'.pf, c, x)) <= 5
  <2>1. x \in Samples /\ x \in 0 .. 255 /\ frame'.out[c][x] = Drawn(vtx, texture, gamma, c, x)
    <3>1. frame'.out[c] = [y \in Samples |-> Drawn(vtx, texture, gamma, c, y)]
      BY <1>4
    <3>2. x \in Samples /\ frame'.out[c][x] = Drawn(vtx, texture, gamma, c, x)
      BY <3>1
    <3> QED BY <3>2, CurveAssumption
  <2>2. /\ began[1] \in 50 .. 200 /\ gamma \in 50 .. 200 /\ began[1] \in gamma - 1 .. gamma + 1
        /\ vtx[2] = temp /\ temp \in 0 .. 200
        /\ TexturedFor(began[1], vtx[1], gamma, texture)
    BY DEF Blend, CurveInv, PassInv
  <2>3. NearCurve(began[1], gamma, temp, c, x, Drawn(vtx, texture, gamma, c, x))
    BY <2>1, <2>2, PixelIsCurve, Zenon
  <2>4. PICK s \in {began[1], gamma} : Abs(Drawn(vtx, texture, gamma, c, x) - Curve(s, temp, 3, c, x)) <= 5
    BY <2>3 DEF NearCurve
  <2>5. began[2] = temp
    BY DEF CurveInv, PassInv
  <2>6. PICK p \in frame'.of : p[1] = s /\ p[2] = temp
    BY <1>3, <2>4, <2>5
  <2> QED BY <1>3, <2>1, <2>4, <2>6
<1>6. IsCurve(frame')
  BY <1>3, <1>4, <1>5 DEF IsCurve
<1>7. FrameIsCurve'
  BY <1>6 DEF FrameIsCurve, IsCurve
<1>8. pc' = "idle" /\ began'[1] = gamma /\ began'[2] = temp /\ moved' = FALSE /\ UNCHANGED <<gamma, temp>>
  BY DEF Blend
<1>9. PassInv' /\ InsideVram'
  <2>1. gamma \in 50 .. 200 /\ temp \in 0 .. 200
    BY DEF CurveInv, PassInv
  <2>2. gamma' \in began'[1] - 1 .. began'[1] + 1
    BY <1>8, <2>1
  <2>3. PassInv'
    BY <1>8, <2>1, <2>2, Zenon DEF PassInv
  <2>4. InsideVram'
    BY <1>8 DEF InsideVram
  <2> QED BY <2>3, <2>4
<1> QED BY <1>7, <1>9 DEF CurveInv

LEMMA CopyKeeps == ASSUME NEW pf \in 0 .. 3 PROVE CurveInv /\ Copy(pf) => CurveInv'
<1> SUFFICES ASSUME CurveInv, Copy(pf) PROVE CurveInv'
  OBVIOUS
<1> DEFINE Low(c) == {y \in Samples : y <= MaxOf(pf, c)}
<1>1. lut'[1] = gamma /\ lut'[2] = temp /\ lut'[3] = pf
  BY DEF Copy
<1>2. /\ frame'.by = "cpu" /\ frame'.of = {<<gamma, temp>>} /\ frame'.pf = pf
      /\ frame'.out = [c \in Channels |-> [x \in Low(c) |-> Table(gamma, temp, pf, c, x)]]
  BY <1>1 DEF Copy
<1>3. gamma \in 50 .. 200 /\ temp \in 0 .. 200
  BY DEF CurveInv, PassInv
<1>4. DOMAIN frame'.out = Channels
  BY <1>2
<1>5. ASSUME NEW c \in Channels
      PROVE  /\ DOMAIN frame'.out[c] \subseteq 0 .. MaxOf(pf, c)
             /\ \A x \in DOMAIN frame'.out[c] : frame'.out[c][x] = Table(gamma, temp, pf, c, x)
  <2>1. MaxOf(pf, c) \in 15 .. 255
    BY TopOf DEF Tops
  <2>2. ASSUME NEW y \in Low(c) PROVE y \in 0 .. MaxOf(pf, c)
    <3>1. y \in 0 .. 255 /\ y <= MaxOf(pf, c)
      BY CurveAssumption
    <3> QED BY <2>1, <3>1
  <2> QED BY <1>2, <2>2
<1>6. ASSUME NEW c \in Channels, NEW x \in DOMAIN frame'.out[c]
      PROVE  \E s \in frame'.of : Abs(frame'.out[c][x] - Curve(s[1], s[2], frame'.pf, c, x)) <= 2
  <2> DEFINE C == Curve(gamma, temp, pf, c, x)  o == Table(gamma, temp, pf, c, x)
  <2>1. x \in 0 .. MaxOf(pf, c) /\ frame'.out[c][x] = o
    BY <1>5
  <2>2. o \in C - 2 .. C + 2
    BY <2>1, <1>3, TableNear, Zenon
  <2>3. C \in Int
    BY <2>1, <1>3, CurveIsNumber, Zenon
  <2>4. Abs(o - C) <= 2
    <3> HIDE DEF o, C
    <3> QED BY <2>2, <2>3 DEF Abs
  <2>5. <<gamma, temp>> \in frame'.of /\ <<gamma, temp>>[1] = gamma /\ <<gamma, temp>>[2] = temp
    BY <1>2
  <2> QED BY <1>2, <2>1, <2>4, <2>5
<1>7. ASSUME NEW c \in Channels, NEW x \in DOMAIN frame'.out[c], NEW y \in DOMAIN frame'.out[c], x < y
      PROVE  frame'.out[c][x] <= frame'.out[c][y]
  <2>1. x \in 0 .. MaxOf(pf, c) /\ y \in 0 .. MaxOf(pf, c)
    BY <1>5
  <2>2. Table(gamma, temp, pf, c, x) <= Table(gamma, temp, pf, c, y)
    BY <2>1, <1>3, <1>7, TableRises, Zenon
  <2> QED BY <1>5, <2>2
<1>8. IsCurve(frame')
  BY <1>2, <1>4, <1>6, <1>7 DEF IsCurve
<1>9. FrameIsCurve'
  BY <1>8 DEF FrameIsCurve, IsCurve
<1>10. PassInv' /\ InsideVram'
  BY DEF Copy, PassInv, InsideVram, CurveInv
<1> QED BY <1>9, <1>10 DEF CurveInv

LEMMA CurveStep == CurveInv /\ [CurveNext]_curveVars => CurveInv'
<1> SUFFICES ASSUME CurveInv, [CurveNext]_curveVars PROVE CurveInv'
  OBVIOUS
<1>1. ASSUME NEW pf \in 0 .. 3, Copy(pf) PROVE CurveInv'
  BY <1>1, CopyKeeps
<1>2. CASE UNCHANGED curveVars
  BY <1>2 DEF curveVars, CurveInv, PassInv, FrameIsCurve, InsideVram
<1> QED
  BY <1>1, <1>2, LoadKeeps, TuneKeeps, PassDisplayKeeps, PassOffscreenKeeps, VerticesKeeps,
     ListKeeps, BlendKeeps DEF CurveNext

\* Every corrected frame is the curve of the settings before or after the move, within the
\* frame's own columns, and inside VRAM: for every gamma, temperature, channel value, buffer
\* and pixel format (CurveIsDrawn).
THEOREM CurveAlwaysDrawn == CurveSpec => []CurveIsDrawn
<1>1. CurveInv /\ [CurveNext]_curveVars => CurveInv'
  BY CurveStep
<1>2. CurveInv => CurveIsDrawn
  <2> SUFFICES ASSUME CurveInv PROVE CurveIsDrawn
    OBVIOUS
  <2>1. ASSUME pc = "list" PROVE NoSeam
    <3>1. vtx[3] = aim.w /\ aim.w \in Nat
      BY <2>1 DEF CurveInv, PassInv
    <3> QED BY <3>1, StripsMeet DEF NoSeam
  <2>2. NoSeam
    BY <2>1 DEF NoSeam
  <2> QED BY <2>2 DEF CurveIsDrawn, CurveInv
<1> QED BY <1>1, <1>2, CurveInitially, PTL DEF CurveSpec

\* a channel's value fits its byte
Bytes(f) == \A c \in DOMAIN f.out : \A x \in DOMAIN f.out[c] : f.out[c][x] \in 0 .. 255

\* The vertices are of a gamma and a temperature that exist, and the list has its vertices before
\* it blends.
BuiltInv ==
  /\ Len(vtx) \in {0, 4} /\ Len(lut) \in {0, 3} /\ cov.w \in 64 .. CovMaxW /\ cov.h \in 1 .. CovMaxH
  /\ pc \in {"list", "blend"} => vtx[1] \in 50 .. 200
  /\ Bytes(frame)

LEMMA NoBytes == Bytes(NoFrame)
<1>1. DOMAIN NoFrame.out = {}
  BY DEF NoFrame
<1> QED BY <1>1 DEF Bytes

LEMMA CoverageSize ==
  ASSUME NEW tg \in PassTargets, NEW rw \in Int, NEW rh \in Heights
  PROVE  Coverage(tg, rw, rh).w \in 64 .. CovMaxW /\ Coverage(tg, rw, rh).h \in 1 .. CovMaxH
BY CoverageFits, SMT DEF CovMaxW

\* products and quotients of what is not negative are not
LEMMA TimesNat == ASSUME NEW a \in Nat, NEW b \in Nat PROVE a * b \in Nat
OBVIOUS

LEMMA OverNat == ASSUME NEW a \in Nat, NEW b \in Nat, b > 0 PROVE a \div b \in Nat
<1>1. PICK q : q = a \div b
  OBVIOUS
<1>2. q \in Int /\ b * q <= a /\ a < b * q + b
  BY <1>1
<1>3. q >= 0
  <2>1. SUFFICES ASSUME q <= -1 PROVE FALSE
    BY <1>2
  <2>2. b * q <= b * (-1)
    BY <2>1, <1>2, Scaled
  <2>3. b * (-1) = -b /\ b * q \in Int
    BY <1>2
  <2> QED BY <2>2, <2>3, <1>2
<1> QED BY <1>1, <1>2, <1>3

\* a pixel is a byte: the sums are of nothing negative, and capped
LEMMA DrawnFits ==
  ASSUME NEW v, v[1] \in 50 .. 200, v[2] \in 0 .. 200, NEW tex, NEW g \in 50 .. 200,
         NEW c \in Channels, NEW x \in 0 .. 255
  PROVE  Drawn(v, tex, g, c, x) \in 0 .. 255
<1>1. PICK S, G, A : S = Strength(v[1]) /\ G = Gain(v[2], c) /\ A = Abs(S)
  OBVIOUS
<1>2. S \in -100 .. 100 /\ G \in Nat /\ A \in Nat
  <2>1. S \in -100 .. 100
    BY <1>1, StrengthRange
  <2>2. G \in 0 .. 255
    BY <1>1, GainRange
  <2>3. A \in Nat
    BY <1>1, <2>1 DEF Abs
  <2> QED BY <2>1, <2>2, <2>3
<1>3. VertexColour(v[1], v[2], c) \in Nat
  <2>1. A * G \in Nat
    BY <1>2, TimesNat
  <2>2. Div(A * G, 100) \in Nat
    BY <2>1, DivNat
  <2> QED BY <2>2, <1>1 DEF VertexColour
<1>4. DarkFix(v[1], v[2], c) \in Nat
  <2>1. CASE S < 0
    <3>1. 100 + S \in Nat
      BY <1>2
    <3>2. (100 + S) * G \in Nat
      BY <3>1, <1>2, TimesNat
    <3>3. Div((100 + S) * G, 100) \in Nat
      BY <3>2, DivNat
    <3> QED BY <3>3, <2>1, <1>1 DEF DarkFix
  <2>2. CASE ~(S < 0)
    BY <2>2, <1>1, <1>2 DEF DarkFix
  <2> QED BY <2>1, <2>2
<1>5. PICK C, D : C = VertexColour(v[1], v[2], c) /\ D = DarkFix(v[1], v[2], c)
  OBVIOUS
<1>6. C \in Nat /\ D \in Nat
  BY <1>3, <1>4, <1>5
<1> DEFINE fragment == IF tex THEN (x * C) \div 255 ELSE C
<1>7. fragment \in Nat
  <2>1. x * C \in Nat
    BY <1>6, TimesNat
  <2>2. (x * C) \div 255 \in Nat
    BY <2>1, OverNat
  <2> QED BY <2>2, <1>6
<1> DEFINE out == IF g < 100 THEN (fragment * x + x * D) \div 255 ELSE (fragment * (255 - x) + x * G) \div 255
<1>8. Drawn(v, tex, g, c, x) = IF out > 255 THEN 255 ELSE out
  BY <1>1, <1>5 DEF Drawn
<1> HIDE DEF fragment
<1>9. out \in Nat
  <2>1. fragment * x \in Nat /\ x * D \in Nat /\ 255 - x \in Nat /\ x * G \in Nat
    BY <1>2, <1>6, <1>7, TimesNat
  <2>2. fragment * (255 - x) \in Nat
    BY <2>1, <1>7, TimesNat
  <2>3. fragment * x + x * D \in Nat /\ fragment * (255 - x) + x * G \in Nat
    BY <2>1, <2>2
  <2>4. (fragment * x + x * D) \div 255 \in Nat /\ (fragment * (255 - x) + x * G) \div 255 \in Nat
    BY <2>3, OverNat
  <2> QED BY <2>4
<1> HIDE DEF out
<1> QED BY <1>8, <1>9

LEMMA BuiltInitially == CurveInit => BuiltInv
<1> SUFFICES ASSUME CurveInit PROVE BuiltInv
  OBVIOUS
<1>1. frame = NoFrame /\ vtx = <<>> /\ lut = <<>> /\ cov = [w |-> 480, h |-> Lines] /\ pc = "idle"
  BY DEF CurveInit
<1>2. cov.w = 480 /\ cov.h = 272
  BY <1>1 DEF Lines
<1>3. Bytes(frame)
  BY <1>1, NoBytes
<1> QED BY <1>1, <1>2, <1>3 DEF BuiltInv, CovMaxW, CovMaxH

LEMMA BuiltStays == CurveInv /\ BuiltInv /\ [CurveNext]_curveVars => BuiltInv'
<1> SUFFICES ASSUME CurveInv, BuiltInv, [CurveNext]_curveVars PROVE BuiltInv'
  OBVIOUS
<1>0. gamma \in 50 .. 200 /\ temp \in 0 .. 200
  BY DEF CurveInv, PassInv
<1>1. CASE Load
  <2>1. frame' = NoFrame /\ pc = "idle" /\ UNCHANGED <<vtx, lut, cov, pc>>
    BY <1>1 DEF Load
  <2>2. Bytes(frame')
    BY <2>1, NoBytes
  <2> QED BY <2>1, <2>2 DEF BuiltInv
<1>2. CASE Tune
  BY <1>2 DEF Tune, BuiltInv, Bytes
<1>3. CASE PassDisplay
  <2>1. frame' = NoFrame /\ pc' = "vertices" /\ UNCHANGED <<vtx, lut, cov>>
    BY <1>3 DEF PassDisplay
  <2>2. Bytes(frame')
    BY <2>1, NoBytes
  <2> QED BY <2>1, <2>2 DEF BuiltInv
<1>4. CASE PassOffscreen
  <2>1. frame' = NoFrame /\ pc' = "vertices" /\ (vtx' = <<>> \/ vtx' = vtx) /\ lut' = lut
    BY <1>4 DEF PassOffscreen
  <2>2. Bytes(frame')
    BY <2>1, NoBytes
  <2>3. PICK tg \in PassTargets, rw \in {479, 480}, rh \in Heights : cov' = Coverage(tg, rw, rh)
    BY <1>4 DEF PassOffscreen
  <2>4. cov'.w \in 64 .. CovMaxW /\ cov'.h \in 1 .. CovMaxH
    BY <2>3, CoverageSize
  <2> QED BY <2>1, <2>2, <2>4 DEF BuiltInv
<1>5. CASE Vertices
  <2>1. vtx' = <<gamma, temp, aim.w, aim.h>> /\ UNCHANGED <<lut, cov, frame>>
    BY <1>5 DEF Vertices
  <2>2. Len(vtx') = 4 /\ vtx'[1] = gamma
    BY <2>1
  <2> QED BY <2>1, <2>2, <1>0 DEF BuiltInv, Bytes
<1>6. CASE List
  BY <1>6 DEF List, BuiltInv, Bytes
<1>7. CASE Blend
  <2>1. /\ frame'.out = [c \in Channels |-> [x \in Samples |-> Drawn(vtx, texture, gamma, c, x)]]
        /\ pc = "blend" /\ pc' = "idle" /\ UNCHANGED <<vtx, lut, cov>>
    BY <1>7 DEF Blend
  <2>2. vtx[1] \in 50 .. 200 /\ vtx[2] = temp
    BY <2>1 DEF BuiltInv, CurveInv, PassInv
  <2>3. ASSUME NEW c \in Channels, NEW x \in Samples PROVE frame'.out[c][x] \in 0 .. 255
    <3>1. x \in 0 .. 255
      BY CurveAssumption
    <3>2. Drawn(vtx, texture, gamma, c, x) \in 0 .. 255
      BY <3>1, <2>2, <1>0, DrawnFits
    <3>3. frame'.out[c][x] = Drawn(vtx, texture, gamma, c, x)
      BY <2>1
    <3> QED BY <3>2, <3>3
  <2>4. Bytes(frame')
    BY <2>1, <2>3, Zenon DEF Bytes
  <2> QED BY <2>1, <2>4 DEF BuiltInv
<1>8. ASSUME NEW pf \in 0 .. 3, Copy(pf) PROVE BuiltInv'
  <2>1. /\ lut' = <<gamma, temp, pf>> /\ pc = "idle" /\ UNCHANGED <<vtx, cov, pc>>
        /\ frame'.out = [c \in Channels |-> [x \in {y \in Samples : y <= MaxOf(pf, c)} |-> Table(gamma, temp, pf, c, x)]]
    <3>1. /\ lut' = <<gamma, temp, pf>> /\ pc = "idle" /\ UNCHANGED <<vtx, cov, pc>>
          /\ frame'.out = [c \in Channels |-> [x \in {y \in Samples : y <= MaxOf(pf, c)} |->
                             Table(lut'[1], lut'[2], lut'[3], c, x)]]
      BY <1>8 DEF Copy
    <3>2. lut'[1] = gamma /\ lut'[2] = temp /\ lut'[3] = pf
      BY <3>1
    <3> QED BY <3>1, <3>2
  <2>2. ASSUME NEW c \in Channels, NEW x \in {y \in Samples : y <= MaxOf(pf, c)}
        PROVE  frame'.out[c][x] \in 0 .. 255
    <3>1. PICK m : m = MaxOf(pf, c)
      OBVIOUS
    <3>2. m \in Tops
      BY <3>1, TopOf
    <3>3. x \in 0 .. m /\ \A y \in 0 .. m : y \in 0 .. 255
      BY <3>1, <3>2, CurveAssumption DEF Tops
    <3>4. Table(gamma, temp, pf, c, x) \in 0 .. m
      BY <3>1, <3>3, <1>0, TableNumber
    <3>5. frame'.out[c][x] = Table(gamma, temp, pf, c, x)
      BY <2>1
    <3> QED BY <3>3, <3>4, <3>5
  <2>3. Bytes(frame')
    BY <2>1, <2>2, Zenon DEF Bytes
  <2>4. Len(lut') = 3
    BY <2>1
  <2> QED BY <2>1, <2>3, <2>4 DEF BuiltInv
<1>9. CASE UNCHANGED curveVars
  BY <1>9 DEF curveVars, BuiltInv, Bytes
<1> QED BY <1>1, <1>2, <1>3, <1>4, <1>5, <1>6, <1>7, <1>8, <1>9 DEF CurveNext

LEMMA CurveTyped == CurveInv /\ BuiltInv => CurveTypeOK
BY DEF CurveInv, PassInv, BuiltInv, Bytes, CurveTypeOK

\* For every range of the settings and every value of a channel: a pass is built for a gamma and a
\* temperature that exist, covers a target of a size that exists, and what comes out of the blend
\* or the table fits its byte (st_build_vertices, st_cov_from_buffer, st_build_lut).
THEOREM CurveTypesHold == CurveSpec => []CurveTypeOK
<1>1. (CurveInv /\ BuiltInv) /\ [CurveNext]_curveVars => (CurveInv /\ BuiltInv)'
  BY CurveStep, BuiltStays
<1> QED BY <1>1, CurveInitially, BuiltInitially, CurveTyped, PTL DEF CurveSpec
=============================================================================
