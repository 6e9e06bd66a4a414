----------------------------- MODULE CheatDbProofs -----------------------------
(***************************************************************************)
(* Proofs about the database of FPS cheats; first the facts about counting *)
(* up and about folds that they and the proofs of the frame counter need.  *)
(***************************************************************************)
EXTENDS CheatDb, FiniteSetTheorems, WellFoundedInduction, TLAPS

\* up to n, one after the other
LEMMA StepByStep ==
  ASSUME NEW n \in Nat, NEW D, 0 \in D, \A k \in 0 .. n - 1 : k \in D => k + 1 \in D
  PROVE  0 .. n \subseteq D
<1> DEFINE R == OpToRel(<, Nat)  E == {k \in 0 .. n : k \notin D}
<1>1. IsWellFoundedOn(R, Nat)
  BY NatLessThanWellFounded
<1>2. \A i, j \in Nat : <<i, j>> \in R <=> i < j
  BY DEF OpToRel
<1>3. E \subseteq Nat
  OBVIOUS
<1>4. SUFFICES ASSUME E # {} PROVE FALSE
  OBVIOUS
<1> HIDE DEF R, E
<1>5. PICK d \in E : \A e \in E : ~(<<e, d>> \in R)
  BY <1>1, <1>3, <1>4, WFMin
<1>6. d \in 1 .. n /\ d \notin D
  BY <1>5 DEF E
<1>7. d - 1 \in 0 .. n - 1 /\ d - 1 \in Nat /\ d \in Nat /\ d - 1 < d /\ (d - 1) + 1 = d
  BY <1>6
<1>8. d - 1 \in D
  <2>1. d - 1 \in E \/ d - 1 \in D
    BY <1>7 DEF E
  <2>2. ~(d - 1 \in E)
    BY <1>2, <1>5, <1>7
  <2> QED BY <2>1, <2>2
<1> QED BY <1>6, <1>7, <1>8

\* the last of the first n
Greatest(S) == CHOOSE x \in S : \A y \in S : x >= y

\* what folding op over s from the left leaves, on every set of places
Iterates(g, op, start, s, n) == \A S \in SUBSET (1 .. n) :
  g[S] = IF S = {} THEN start ELSE op[g[S \ {Greatest(S)}], s[Greatest(S)]]

LEMMA FoldExists ==
  ASSUME NEW A, NEW B, NEW op \in [A \X B -> A], NEW start \in A, NEW n \in Nat, NEW s \in [1 .. n -> B]
  PROVE  \E g \in [SUBSET (1 .. n) -> A] : Iterates(g, op, start, s, n)
<1> DEFINE Ok(m, g) == \A S \in SUBSET (1 .. m) : g[S] = IF S = {} THEN start ELSE op[g[S \ {Greatest(S)}], s[Greatest(S)]]
           D == {m \in 0 .. n : \E g \in [SUBSET (1 .. m) -> A] : Ok(m, g)}
<1>1. 0 \in D
  <2> DEFINE g == [S \in SUBSET (1 .. 0) |-> start]
  <2>1. 1 .. 0 = {} /\ SUBSET (1 .. 0) = {{}}
    OBVIOUS
  <2>2. g \in [SUBSET (1 .. 0) -> A] /\ Ok(0, g)
    BY <2>1
  <2> HIDE DEF g, Ok
  <2>3. 0 \in 0 .. n
    OBVIOUS
  <2> QED BY <2>2, <2>3
<1>2. ASSUME NEW m \in 0 .. n - 1, m \in D PROVE m + 1 \in D
  <2>1. PICK g \in [SUBSET (1 .. m) -> A] : Ok(m, g)
    BY <1>2
  <2> DEFINE h == [S \in SUBSET (1 .. m + 1) |-> IF m + 1 \in S THEN op[g[S \ {m + 1}], s[m + 1]] ELSE g[S]]
  <2>2. \A S \in SUBSET (1 .. m + 1) : m + 1 \notin S => S \in SUBSET (1 .. m)
    OBVIOUS
  <2>3. \A S \in SUBSET (1 .. m + 1) : S \ {m + 1} \in SUBSET (1 .. m)
    OBVIOUS
  <2>4. s[m + 1] \in B /\ m + 1 \in 1 .. n /\ m + 1 \in 0 .. n
    OBVIOUS
  <2>5. h \in [SUBSET (1 .. m + 1) -> A]
    BY <2>2, <2>3, <2>4
  <2>6. ASSUME NEW S \in SUBSET (1 .. m + 1)
        PROVE  h[S] = IF S = {} THEN start ELSE op[h[S \ {Greatest(S)}], s[Greatest(S)]]
    <3>1. CASE m + 1 \in S
      <4>1. \A y \in S : m + 1 >= y
        OBVIOUS
      <4>2. \A x \in S : (\A y \in S : x >= y) => x = m + 1
        BY <3>1
      <4>3. Greatest(S) = m + 1
        BY <3>1, <4>1, <4>2 DEF Greatest
      <4>4. h[S] = op[g[S \ {m + 1}], s[m + 1]]
        BY <3>1
      <4>5. h[S \ {m + 1}] = g[S \ {m + 1}]
        BY <2>3
      <4> QED BY <3>1, <4>3, <4>4, <4>5
    <3>2. CASE m + 1 \notin S
      <4>1. S \in SUBSET (1 .. m) /\ h[S] = g[S]
        BY <3>2, <2>2
      <4>2. h[S \ {Greatest(S)}] = g[S \ {Greatest(S)}]
        BY <3>2
      <4> QED BY <2>1, <4>1, <4>2
    <3> QED BY <3>1, <3>2
  <2>7. Ok(m + 1, h)
    BY <2>6
  <2> HIDE DEF Ok, h
  <2> QED BY <2>4, <2>5, <2>7
<1>3. n \in D
  <2> HIDE DEF D
  <2>1. 0 .. n \subseteq D
    BY <1>1, <1>2, StepByStep
  <2>2. n \in 0 .. n
    OBVIOUS
  <2> QED BY <2>1, <2>2
<1>4. PICK g \in [SUBSET (1 .. n) -> A] : Ok(n, g)
  BY <1>3
<1>5. Iterates(g, op, start, s, n)
  BY <1>4 DEF Iterates
<1> QED BY <1>5

LEMMA GreatestIn ==
  ASSUME NEW n \in Nat, NEW S \in SUBSET (1 .. n), S # {}
  PROVE  Greatest(S) \in S
<1> DEFINE D == {m \in 0 .. n : \A T \in SUBSET (1 .. m) : T # {} => \E x \in T : \A y \in T : x >= y}
<1>1. 0 \in D
  <2>1. 1 .. 0 = {} /\ 0 \in 0 .. n
    OBVIOUS
  <2>2. \A T \in SUBSET {} : ~(T # {})
    OBVIOUS
  <2> QED BY <2>1, <2>2
<1>2. ASSUME NEW m \in 0 .. n - 1, m \in D PROVE m + 1 \in D
  <2>1. SUFFICES ASSUME NEW T \in SUBSET (1 .. m + 1), T # {} PROVE \E x \in T : \A y \in T : x >= y
    OBVIOUS
  <2>2. CASE m + 1 \in T
    BY <2>2
  <2>3. CASE m + 1 \notin T
    <3>1. T \in SUBSET (1 .. m)
      BY <2>3
    <3> QED BY <3>1, <2>1, <1>2
  <2> QED BY <2>2, <2>3
<1> HIDE DEF D
<1>3. n \in D
  <2>1. 0 .. n \subseteq D
    BY <1>1, <1>2, StepByStep
  <2>2. n \in 0 .. n
    OBVIOUS
  <2> QED BY <2>1, <2>2
<1>4. \E x \in S : \A y \in S : x >= y
  BY <1>3 DEF D
<1> QED BY <1>4 DEF Greatest

LEMMA GreatestUpTo ==
  ASSUME NEW i \in Nat, i > 0
  PROVE  Greatest(1 .. i) = i /\ (1 .. i) \ {i} = 1 .. i - 1 /\ 1 .. i # {}
<1>1. i \in 1 .. i /\ (\A y \in 1 .. i : i >= y) /\ \A x \in 1 .. i : (\A y \in 1 .. i : x >= y) => x = i
  OBVIOUS
<1>2. Greatest(1 .. i) = i
  BY <1>1 DEF Greatest
<1> QED BY <1>2

-----------------------------------------------------------------------------
(* The database of FPS cheats, for every database, every number of options *)
(* and every size of the pool: what has been offered is what walking over  *)
(* the lines so far offers, up to the cheat being read, and of that cheat  *)
(* is known what its code so far says. A line that follows changes neither *)
(* which lines are ours nor the code of a cheat that has ended.            *)

OptionRec == [name : {KeptName(n) : n \in Names}, off : Nat, cnt : Nat]
Offers    == [options : Seq(OptionRec), used : Nat]

LEMMA DbSizes == MaxOptions \in Nat \ {0} /\ MaxLines \in Nat \ {0} /\ MaxCheatLines \in Nat \ {0}
  BY DbAssumption

\* txt with one line more
LineMore(txt, line, nxt) ==
  /\ nxt \in Seq(Line) /\ Len(nxt) = Len(txt) + 1 /\ nxt[Len(txt) + 1] = line
  /\ \A i \in 1 .. Len(txt) : nxt[i] = txt[i]

LEMMA ReadsOn ==
  ASSUME NEW txt \in Seq(Line), NEW line \in Line
  PROVE  LineMore(txt, line, Append(txt, line))
  BY DEF LineMore

LEMMA CodeFinite ==
  ASSUME NEW txt \in Seq(Line), NEW i
  PROVE  IsFiniteSet(CodeOf(txt, i)) /\ Cardinality(CodeOf(txt, i)) \in Nat
<1>1. CodeOf(txt, i) \subseteq 1 .. Len(txt)
  BY DEF CodeOf, OurLines
<1>2. IsFiniteSet(1 .. Len(txt))
  <2>1. Len(txt) \in Nat
    OBVIOUS
  <2> QED BY <2>1, FS_Interval
<1>3. IsFiniteSet(CodeOf(txt, i))
  BY <1>1, <1>2, FS_Subset
<1> QED BY <1>3, FS_CardinalityType

LEMMA OfferTypes ==
  ASSUME NEW txt \in Seq(Line), NEW o \in Offers, NEW i
  PROVE  Offer(txt, o, i) \in Offers
<1>1. CASE Offer(txt, o, i) = o
  BY <1>1
<1>2. CASE Usable(txt, i)
  <2>1. i \in 1 .. Len(txt) /\ txt[i].t = "C"
    BY <1>2 DEF Usable, OurLines
  <2>2. txt[i] \in Line
    BY <2>1
  <2>3. txt[i].name \in Names
    BY <2>1, <2>2 DEF Line
  <2>4. PICK n \in Nat : n = Cardinality(CodeOf(txt, i))
    BY CodeFinite
  <2>5. PICK nm \in {KeptName(x) : x \in Names} : nm = KeptName(txt[i].name)
    BY <2>3
  <2>6. o.used \in Nat /\ o.options \in Seq(OptionRec) /\ o.used + n \in Nat
    BY DEF Offers
  <2>7. [name |-> nm, off |-> o.used, cnt |-> n] \in OptionRec
    BY <2>6 DEF OptionRec
  <2>8. Append(o.options, [name |-> nm, off |-> o.used, cnt |-> n]) \in Seq(OptionRec)
    BY <2>6, <2>7
  <2>9. [options |-> Append(o.options, [name |-> nm, off |-> o.used, cnt |-> n]), used |-> o.used + n] \in Offers
    BY <2>6, <2>8 DEF Offers
  <2> QED BY <2>4, <2>5, <2>9 DEF Offer
<1> QED BY <1>1, <1>2 DEF Offer

\* what a line means does not change when a line follows, but for the code of the last cheat
LEMMA OursBefore ==
  ASSUME NEW txt \in Seq(Line), NEW line \in Line, NEW nxt, LineMore(txt, line, nxt)
  PROVE  \A i \in 1 .. Len(txt) : i \in OurLines(nxt) <=> i \in OurLines(txt)
<1>1. Len(txt) \in Nat /\ Len(nxt) = Len(txt) + 1 /\ \A i \in 1 .. Len(txt) : nxt[i] = txt[i]
  BY DEF LineMore
<1>2. SUFFICES ASSUME NEW i \in 1 .. Len(txt) PROVE i \in OurLines(nxt) <=> i \in OurLines(txt)
  OBVIOUS
<1>3. i \in 1 .. Len(nxt)
  BY <1>1
<1>4. ASSUME NEW s \in 1 .. i - 1
      PROVE  /\ nxt[s] = txt[s] /\ (\A j \in 1 .. s - 1 : nxt[j] = txt[j])
             /\ \A j \in s + 1 .. i : nxt[j] = txt[j]
  <2>1. s \in 1 .. Len(txt) /\ (\A j \in 1 .. s - 1 : j \in 1 .. Len(txt)) /\ \A j \in s + 1 .. i : j \in 1 .. Len(txt)
    BY <1>1
  <2> QED BY <1>1, <2>1
<1>5. ASSUME NEW s \in 1 .. i - 1
      PROVE  (/\ Opens(nxt[s]) /\ (\A j \in 1 .. s - 1 : ~Opens(nxt[j])) /\ \A j \in s + 1 .. i : nxt[j].t # "S")
               <=> (/\ Opens(txt[s]) /\ (\A j \in 1 .. s - 1 : ~Opens(txt[j])) /\ \A j \in s + 1 .. i : txt[j].t # "S")
  BY <1>4
<1> QED BY <1>3, <1>5 DEF OurLines

\* ... the cheat at i has ended
Ended(txt, line, i) == line.t # "L" \/ \E k \in i + 1 .. Len(txt) : txt[k].t # "L"

LEMMA CodeBefore ==
  ASSUME NEW txt \in Seq(Line), NEW line \in Line, NEW nxt, LineMore(txt, line, nxt),
         NEW i \in 1 .. Len(txt), Ended(txt, line, i)
  PROVE  CodeOf(nxt, i) = CodeOf(txt, i)
<1>1. /\ Len(txt) \in Nat /\ Len(nxt) = Len(txt) + 1 /\ (\A j \in 1 .. Len(txt) : nxt[j] = txt[j])
      /\ nxt[Len(txt) + 1] = line
  BY DEF LineMore
<1>2. ASSUME NEW j \in CodeOf(nxt, i) PROVE j \in CodeOf(txt, i)
  <2>1. j \in OurLines(nxt) /\ j \in 1 .. Len(nxt) /\ j > i /\ \A k \in i + 1 .. j : nxt[k].t = "L"
    BY DEF CodeOf, OurLines
  <2>2. j # Len(txt) + 1
    <3>1. SUFFICES ASSUME j = Len(txt) + 1 PROVE FALSE
      OBVIOUS
    <3>2. j \in i + 1 .. j /\ line.t = "L"
      BY <1>1, <2>1, <3>1
    <3>3. PICK k \in i + 1 .. Len(txt) : txt[k].t # "L"
      BY <3>2 DEF Ended
    <3>4. k \in 1 .. Len(txt) /\ k \in i + 1 .. j
      BY <1>1, <3>1
    <3> QED BY <1>1, <2>1, <3>3, <3>4
  <2>3. j \in 1 .. Len(txt)
    BY <1>1, <2>1, <2>2
  <2>4. \A k \in i + 1 .. j : k \in 1 .. Len(txt)
    BY <1>1, <2>3
  <2>5. j \in OurLines(txt)
    BY <2>1, <2>3, OursBefore
  <2> QED BY <1>1, <2>1, <2>4, <2>5 DEF CodeOf
<1>3. ASSUME NEW j \in CodeOf(txt, i) PROVE j \in CodeOf(nxt, i)
  <2>1. j \in OurLines(txt) /\ j \in 1 .. Len(txt) /\ j > i /\ \A k \in i + 1 .. j : txt[k].t = "L"
    BY DEF CodeOf, OurLines
  <2>2. \A k \in i + 1 .. j : k \in 1 .. Len(txt)
    BY <1>1, <2>1
  <2>3. j \in OurLines(nxt)
    BY <2>1, OursBefore
  <2> QED BY <1>1, <2>1, <2>2, <2>3 DEF CodeOf
<1> QED BY <1>2, <1>3

LEMMA OfferBefore ==
  ASSUME NEW txt \in Seq(Line), NEW line \in Line, NEW nxt, LineMore(txt, line, nxt),
         NEW i \in 1 .. Len(txt), Ended(txt, line, i), NEW o
  PROVE  Offer(nxt, o, i) = Offer(txt, o, i)
<1>1. CodeOf(nxt, i) = CodeOf(txt, i)
  BY CodeBefore
<1>2. nxt[i] = txt[i] /\ (i \in OurLines(nxt) <=> i \in OurLines(txt)) /\ \A j \in 1 .. Len(txt) : nxt[j] = txt[j]
  BY OursBefore DEF LineMore
<1>3. \A j \in CodeOf(txt, i) : nxt[j] = txt[j]
  BY <1>2 DEF CodeOf, OurLines
<1>4. Usable(nxt, i) <=> Usable(txt, i)
  BY <1>1, <1>2, <1>3 DEF Usable
<1> QED BY <1>1, <1>2, <1>4 DEF Offer

LEMMA NoOffer ==
  ASSUME NEW txt, NEW i, NEW o, ~Usable(txt, i)
  PROVE  Offer(txt, o, i) = o
  BY DEF Offer

\* o is offered of the first k lines
Offered(txt, k, o) ==
  \E g \in [0 .. k -> Offers] :
    g[0] = Nothing /\ (\A i \in 1 .. k : g[i] = Offer(txt, g[i - 1], i)) /\ g[k] = o

LEMMA OfferedNone == ASSUME NEW txt PROVE Offered(txt, 0, Nothing)
<1> DEFINE g == [i \in 0 .. 0 |-> Nothing]
<1>1. Nothing \in Offers
  BY DEF Nothing, Offers
<1>2. g \in [0 .. 0 -> Offers] /\ g[0] = Nothing /\ \A i \in 1 .. 0 : FALSE
  BY <1>1
<1> HIDE DEF g
<1> QED BY <1>2 DEF Offered

LEMMA OfferedNext ==
  ASSUME NEW txt \in Seq(Line), NEW k \in Nat, NEW o, Offered(txt, k, o)
  PROVE  o \in Offers /\ Offered(txt, k + 1, Offer(txt, o, k + 1))
<1>1. PICK g \in [0 .. k -> Offers] :
        g[0] = Nothing /\ (\A i \in 1 .. k : g[i] = Offer(txt, g[i - 1], i)) /\ g[k] = o
  BY DEF Offered
<1>2. o \in Offers
  BY <1>1
<1>3. PICK p \in Offers : p = Offer(txt, o, k + 1)
  BY <1>2, OfferTypes
<1> DEFINE h == [i \in 0 .. k + 1 |-> IF i = k + 1 THEN p ELSE g[i]]
<1>4. h \in [0 .. k + 1 -> Offers]
  BY <1>1
<1>5. \A i \in 0 .. k : h[i] = g[i]
  BY <1>1
<1>6. h[k + 1] = p
  OBVIOUS
<1> HIDE DEF h
<1>7. h[0] = Nothing
  BY <1>1, <1>5
<1>8. ASSUME NEW i \in 1 .. k + 1 PROVE h[i] = Offer(txt, h[i - 1], i)
  <2>1. CASE i = k + 1
    <3>1. i - 1 = k /\ k \in 0 .. k
      BY <2>1
    <3> QED BY <1>1, <1>3, <1>5, <1>6, <2>1, <3>1
  <2>2. CASE i # k + 1
    <3>1. i \in 1 .. k /\ i \in 0 .. k /\ i - 1 \in 0 .. k
      BY <2>2
    <3> QED BY <1>1, <1>5, <3>1
  <2> QED BY <2>1, <2>2
<1>9. Offered(txt, k + 1, p)
  BY <1>4, <1>6, <1>7, <1>8 DEF Offered
<1> QED BY <1>2, <1>3, <1>9

Same(txt, nxt, k) == \A i \in 1 .. k, o \in Offers : Offer(nxt, o, i) = Offer(txt, o, i)

LEMMA OfferedSame ==
  ASSUME NEW txt, NEW nxt, NEW k \in Nat, Same(txt, nxt, k), NEW o, Offered(txt, k, o)
  PROVE  Offered(nxt, k, o)
<1>1. PICK g \in [0 .. k -> Offers] :
        g[0] = Nothing /\ (\A i \in 1 .. k : g[i] = Offer(txt, g[i - 1], i)) /\ g[k] = o
  BY DEF Offered
<1>2. ASSUME NEW i \in 1 .. k PROVE g[i] = Offer(nxt, g[i - 1], i)
  <2>1. g[i - 1] \in Offers
    BY <1>1
  <2> QED BY <1>1, <2>1 DEF Same
<1> QED BY <1>1, <1>2 DEF Offered

LEMMA OfferedOn ==
  ASSUME NEW txt \in Seq(Line), NEW k \in Nat, NEW n \in Nat, k <= n, NEW o, Offered(txt, k, o),
         \A i \in k + 1 .. n : ~Usable(txt, i)
  PROVE  Offered(txt, n, o)
<1> DEFINE D == {i \in 0 .. n - k : Offered(txt, k + i, o)}
<1>1. 0 \in D /\ n - k \in Nat /\ n - k \in 0 .. n - k /\ k + (n - k) = n
  OBVIOUS
<1>2. ASSUME NEW i \in 0 .. (n - k) - 1, i \in D PROVE i + 1 \in D
  <2>1. k + (i + 1) = (k + i) + 1 /\ k + i \in Nat /\ i + 1 \in 0 .. n - k /\ (k + i) + 1 \in k + 1 .. n
    OBVIOUS
  <2>2. Offered(txt, (k + i) + 1, Offer(txt, o, (k + i) + 1))
    BY <1>2, <2>1, OfferedNext
  <2>3. Offer(txt, o, (k + i) + 1) = o
    BY <2>1, NoOffer
  <2> QED BY <2>1, <2>2, <2>3
<1> HIDE DEF D
<1>3. n - k \in D
  BY <1>1, <1>2, StepByStep
<1> QED BY <1>1, <1>3 DEF D

\* ... which is what folding Offer over all lines gives
LEMMA OfferedIs ==
  ASSUME NEW txt \in Seq(Line), NEW o, Offered(txt, Len(txt), o)
  PROVE  WholeOffer(txt) = o
<1> DEFINE n == Len(txt)  s == [i \in 1 .. n |-> i]  A == Offers  D == DOMAIN s
           It(g) == [S \in SUBSET D |-> IF S = {} THEN Nothing ELSE Offer(txt, g[S \ {Greatest(S)}], s[Greatest(S)])]
           op == [x \in A \X (1 .. n) |-> Offer(txt, x[1], x[2])]
<1>0. n \in Nat
  OBVIOUS
<1>1. WholeOffer(txt) = (CHOOSE g : g = It(g))[D]
  BY DEF WholeOffer, FoldLeft, MapThenFoldSet, Max, Greatest
<1> HIDE DEF n
<1>2. D = 1 .. n /\ Nothing \in A /\ s \in [1 .. n -> 1 .. n] /\ \A i \in 1 .. n : s[i] = i
  BY DEF Nothing, Offers
<1>3. op \in [A \X (1 .. n) -> A] /\ \A a \in A, b \in 1 .. n : op[a, b] = Offer(txt, a, b)
  <2>1. \A a \in A, b \in 1 .. n : Offer(txt, a, b) \in A
    BY OfferTypes
  <2> HIDE DEF A
  <2> QED BY <2>1
<1> HIDE DEF op, D, A, s
<1>4. \E g : g = It(g)
  <2>0. \E g \in [SUBSET (1 .. n) -> A] : Iterates(g, op, Nothing, s, n)
    <3>1. PICK B : B = 1 .. n
      OBVIOUS
    <3>2. op \in [A \X B -> A] /\ Nothing \in A /\ n \in Nat /\ s \in [1 .. n -> B]
      BY <1>0, <1>2, <1>3, <3>1
    <3> QED BY <3>2, FoldExists, Zenon
  <2>1. PICK g \in [SUBSET (1 .. n) -> A] : \A S \in SUBSET (1 .. n) :
           g[S] = IF S = {} THEN Nothing ELSE op[g[S \ {Greatest(S)}], s[Greatest(S)]]
    BY <2>0 DEF Iterates
  <2>2. ASSUME NEW S \in SUBSET D
        PROVE  g[S] = IF S = {} THEN Nothing ELSE Offer(txt, g[S \ {Greatest(S)}], s[Greatest(S)])
    <3>1. CASE S = {}
      BY <1>2, <2>1, <3>1
    <3>2. CASE S # {}
      <4>1. Greatest(S) \in 1 .. n
        BY <1>0, <1>2, <3>2, GreatestIn
      <4>2. g[S \ {Greatest(S)}] \in A /\ s[Greatest(S)] \in 1 .. n
        BY <1>2, <2>1, <4>1
      <4> QED BY <1>2, <1>3, <2>1, <3>2, <4>2
    <3> QED BY <3>1, <3>2
  <2>3. g = [S \in SUBSET D |-> g[S]]
    BY <1>2
  <2>4. [S \in SUBSET D |-> g[S]] = It(g)
    BY <2>2
  <2> QED BY <2>3, <2>4
<1>5. PICK g : g = (CHOOSE h : h = It(h))
  OBVIOUS
<1>6. g = It(g)
  BY <1>4, <1>5
<1>7. g[1 .. 0] = Nothing
  <2>1. 1 .. 0 = {} /\ {} \in SUBSET D
    OBVIOUS
  <2> QED BY <2>1, <1>6
<1>8. ASSUME NEW i \in 1 .. n PROVE g[1 .. i] = Offer(txt, g[1 .. i - 1], i)
  <2>1. Greatest(1 .. i) = i /\ (1 .. i) \ {i} = 1 .. i - 1 /\ 1 .. i # {}
    <3>1. i \in Nat /\ i > 0
      BY <1>0
    <3> QED BY <3>1, GreatestUpTo
  <2>2. 1 .. i \in SUBSET D
    <3>1. 1 .. i \subseteq 1 .. n
      BY <1>0
    <3> QED BY <3>1, <1>2
  <2>3. g[1 .. i] = Offer(txt, g[(1 .. i) \ {Greatest(1 .. i)}], s[Greatest(1 .. i)])
    <3>1. \A S \in SUBSET D : S # {} => g[S] = Offer(txt, g[S \ {Greatest(S)}], s[Greatest(S)])
      BY <1>6
    <3> QED BY <2>1, <2>2, <3>1
  <2>4. s[i] = i
    BY <1>2
  <2> QED BY <2>1, <2>3, <2>4
<1>9. PICK f \in [0 .. n -> Offers] :
        f[0] = Nothing /\ (\A i \in 1 .. n : f[i] = Offer(txt, f[i - 1], i)) /\ f[n] = o
  BY DEF Offered, n
<1> DEFINE E == {i \in 0 .. n : g[1 .. i] = f[i]}
<1>10. 0 \in E
  BY <1>0, <1>7, <1>9
<1>11. ASSUME NEW i \in 0 .. n - 1, i \in E PROVE i + 1 \in E
  <2>1. i + 1 \in 1 .. n /\ i + 1 \in 0 .. n /\ (i + 1) - 1 = i
    BY <1>0
  <2>2. g[1 .. i + 1] = Offer(txt, g[1 .. i], i + 1)
    BY <1>8, <2>1
  <2>3. f[i + 1] = Offer(txt, f[i], i + 1)
    BY <1>9, <2>1
  <2> QED BY <1>11, <2>1, <2>2, <2>3
<1> HIDE DEF E
<1>12. n \in E
  <2>1. n \in 0 .. n
    BY <1>0
  <2>2. 0 .. n \subseteq E
    BY <1>0, <1>10, <1>11, StepByStep
  <2> QED BY <2>1, <2>2
<1>13. g[1 .. n] = o
  BY <1>9, <1>12 DEF E
<1> QED BY <1>2, <1>1, <1>5, <1>13

NoSection(txt) == \A j \in 1 .. Len(txt) : ~Opens(txt[j])
\* the next line is ours, unless it is a section
InSection(txt) ==
  \E s \in 1 .. Len(txt) : /\ Opens(txt[s]) /\ \A j \in 1 .. s - 1 : ~Opens(txt[j])
                           /\ \A j \in s + 1 .. Len(txt) : txt[j].t # "S"
NoHead(txt) == \A j \in OurLines(txt) : txt[j].t # "C"
\* the cheat at h is the one being read
IsLast(txt, h) ==
  h \in 1 .. Len(txt) /\ h \in OurLines(txt) /\ txt[h].t = "C" /\ \A j \in h + 1 .. Len(txt) : txt[j].t = "L"
\* ... and c is what is known of it
CurIs(txt, c, h) ==
  /\ c.fps = txt[h].fps /\ c.name = txt[h].name
  /\ c.fps => LET m == Len(txt) - h
              IN /\ c.lines = IF m <= MaxCheatLines THEN m ELSE MaxCheatLines
                 /\ c.unsup <=> (m > MaxCheatLines \/ \E j \in h + 1 .. h + c.lines : ~txt[j].good)
                 /\ c.real <=> \E j \in h + 1 .. h + c.lines : txt[j].real

LEMMA LineTypes ==
  ASSUME NEW line \in Line
  PROVE  /\ line.t \in {"S", "C", "L"}
         /\ line.t = "S" => line.own \in BOOLEAN
         /\ line.t = "C" => line.name \in Names /\ line.fps \in BOOLEAN
         /\ line.t = "L" => line.good \in BOOLEAN /\ line.real \in BOOLEAN
  BY DEF Line

LEMMA BeforeSection ==
  ASSUME NEW txt \in Seq(Line), NEW line \in Line, NEW nxt, LineMore(txt, line, nxt), NoSection(txt)
  PROVE  OurLines(nxt) = {} /\ OurLines(txt) = {} /\ (~Opens(line) => NoSection(nxt)) /\ (Opens(line) => InSection(nxt))
<1>1. /\ Len(txt) \in Nat /\ Len(nxt) = Len(txt) + 1 /\ (\A i \in 1 .. Len(txt) : nxt[i] = txt[i])
      /\ nxt[Len(txt) + 1] = line
  BY DEF LineMore
<1>2. \A j \in 1 .. Len(txt) : ~Opens(txt[j]) /\ ~Opens(nxt[j])
  BY <1>1 DEF NoSection
<1>3. OurLines(txt) = {}
  <2>1. ASSUME NEW i \in 1 .. Len(txt), NEW s \in 1 .. i - 1 PROVE ~Opens(txt[s])
    <3>1. s \in 1 .. Len(txt)
      BY <1>1
    <3> QED BY <1>2, <3>1
  <2> QED BY <2>1 DEF OurLines
<1>4. OurLines(nxt) = {}
  <2>1. ASSUME NEW i \in 1 .. Len(nxt), NEW s \in 1 .. i - 1 PROVE ~Opens(nxt[s])
    <3>1. s \in 1 .. Len(txt)
      BY <1>1
    <3> QED BY <1>2, <3>1
  <2> QED BY <2>1 DEF OurLines
<1>5. \A j \in 1 .. Len(nxt) : j \in 1 .. Len(txt) \/ j = Len(txt) + 1
  BY <1>1
<1>6. ~Opens(line) => NoSection(nxt)
  BY <1>1, <1>2, <1>5 DEF NoSection
<1>7. Opens(line) => InSection(nxt)
  <2>1. SUFFICES ASSUME Opens(line) PROVE InSection(nxt)
    OBVIOUS
  <2>2. Len(nxt) \in 1 .. Len(nxt) /\ Opens(nxt[Len(nxt)])
    BY <1>1, <2>1
  <2>3. \A j \in 1 .. Len(nxt) - 1 : ~Opens(nxt[j])
    BY <1>1, <1>2
  <2>4. \A j \in Len(nxt) + 1 .. Len(nxt) : nxt[j].t # "S"
    BY <1>1
  <2> QED BY <2>2, <2>3, <2>4 DEF InSection
<1> QED BY <1>3, <1>4, <1>6, <1>7

LEMMA StillInSection ==
  ASSUME NEW txt \in Seq(Line), NEW line \in Line, NEW nxt, LineMore(txt, line, nxt), InSection(txt), line.t # "S"
  PROVE  InSection(nxt) /\ Len(txt) + 1 \in OurLines(nxt)
<1>1. /\ Len(txt) \in Nat /\ Len(nxt) = Len(txt) + 1 /\ (\A i \in 1 .. Len(txt) : nxt[i] = txt[i])
      /\ nxt[Len(txt) + 1] = line
  BY DEF LineMore
<1>2. PICK s \in 1 .. Len(txt) : /\ Opens(txt[s]) /\ \A j \in 1 .. s - 1 : ~Opens(txt[j])
                                 /\ \A j \in s + 1 .. Len(txt) : txt[j].t # "S"
  BY DEF InSection
<1>3. s \in 1 .. Len(nxt) /\ s \in 1 .. (Len(txt) + 1) - 1 /\ Len(txt) + 1 \in 1 .. Len(nxt)
  BY <1>1
<1>4. Opens(nxt[s]) /\ \A j \in 1 .. s - 1 : ~Opens(nxt[j])
  <2>1. \A j \in 1 .. s - 1 : j \in 1 .. Len(txt)
    BY <1>1
  <2> QED BY <1>1, <1>2, <2>1
<1>5. \A j \in s + 1 .. Len(txt) + 1 : nxt[j].t # "S"
  <2>1. TAKE j \in s + 1 .. Len(txt) + 1
  <2>2. CASE j = Len(txt) + 1
    BY <1>1, <2>2
  <2>3. CASE j # Len(txt) + 1
    <3>1. j \in s + 1 .. Len(txt) /\ j \in 1 .. Len(txt)
      BY <1>1, <2>3
    <3> QED BY <1>1, <1>2, <3>1
  <2> QED BY <2>2, <2>3
<1>6. InSection(nxt)
  BY <1>1, <1>3, <1>4, <1>5 DEF InSection
<1>7. Len(txt) + 1 \in OurLines(nxt)
  BY <1>3, <1>4, <1>5 DEF OurLines
<1> QED BY <1>6, <1>7

\* the code of the last cheat is all that follows it
LEMMA LastCode ==
  ASSUME NEW txt \in Seq(Line), NEW h, IsLast(txt, h)
  PROVE  CodeOf(txt, h) = h + 1 .. Len(txt) /\ Cardinality(CodeOf(txt, h)) = Len(txt) - h
<1>1. Len(txt) \in Nat /\ h \in 1 .. Len(txt) /\ h \in OurLines(txt) /\ \A j \in h + 1 .. Len(txt) : txt[j].t = "L"
  BY DEF IsLast
<1>2. PICK s \in 1 .. h - 1 : /\ Opens(txt[s]) /\ \A j \in 1 .. s - 1 : ~Opens(txt[j])
                              /\ \A j \in s + 1 .. h : txt[j].t # "S"
  BY <1>1 DEF OurLines
<1>3. ASSUME NEW j \in h + 1 .. Len(txt) PROVE j \in CodeOf(txt, h)
  <2>1. j \in 1 .. Len(txt) /\ s \in 1 .. j - 1 /\ j > h
    BY <1>1
  <2>2. ASSUME NEW k \in s + 1 .. j PROVE txt[k].t # "S"
    <3>1. CASE k <= h
      <4>1. k \in s + 1 .. h
        BY <3>1, <1>1
      <4> QED BY <1>2, <4>1
    <3>2. CASE k > h
      <4>1. k \in h + 1 .. Len(txt)
        BY <3>2, <1>1
      <4> QED BY <1>1, <4>1
    <3> QED BY <3>1, <3>2, <1>1
  <2>3. j \in OurLines(txt)
    BY <1>2, <2>1, <2>2 DEF OurLines
  <2>4. \A k \in h + 1 .. j : txt[k].t = "L"
    BY <1>1, <2>1
  <2> QED BY <2>1, <2>3, <2>4 DEF CodeOf
<1>4. ASSUME NEW j \in CodeOf(txt, h) PROVE j \in h + 1 .. Len(txt)
  <2>1. j \in 1 .. Len(txt) /\ j > h
    BY DEF CodeOf, OurLines
  <2> QED BY <1>1, <2>1
<1>5. CodeOf(txt, h) = h + 1 .. Len(txt)
  BY <1>3, <1>4
<1>6. Cardinality(h + 1 .. Len(txt)) = Len(txt) - h
  <2>1. h + 1 \in Int /\ Len(txt) \in Int
    BY <1>1
  <2>2. Cardinality(h + 1 .. Len(txt)) = IF h + 1 > Len(txt) THEN 0 ELSE Len(txt) - (h + 1) + 1
    BY <2>1, FS_Interval
  <2> QED BY <1>1, <2>2
<1> QED BY <1>5, <1>6

\* what is committed is what is offered
LEMMA CommitOffers ==
  ASSUME NEW txt \in Seq(Line), NEW h, IsLast(txt, h), NEW c, CurIs(txt, c, h),
         NEW o \in Offers
  PROVE  Offer(txt, o, h) = [options |-> Commit(c, o.options, o.used), used |-> CommitUsed(c, o.options, o.used)]
<1>1. Len(txt) \in Nat /\ h \in 1 .. Len(txt) /\ h \in OurLines(txt) /\ txt[h].t = "C" /\ txt[h] \in Line
      /\ \A j \in h + 1 .. Len(txt) : txt[j].t = "L"
  BY DEF IsLast
<1>2. PICK m \in Nat : m = Len(txt) - h
  <2>1. Len(txt) \in Nat /\ h \in 1 .. Len(txt)
    BY <1>1
  <2> QED BY <2>1
<1>3. CodeOf(txt, h) = h + 1 .. Len(txt) /\ Cardinality(CodeOf(txt, h)) = m
  BY <1>2, LastCode
<1>4. MaxCheatLines \in Nat /\ MaxCheatLines > 0
  BY DbSizes
<1>5. txt[h].fps \in BOOLEAN /\ c.fps = txt[h].fps /\ c.name = txt[h].name
  BY <1>1, LineTypes DEF CurIs
<1>6. Usable(txt, h) <=> c.fps /\ c.real /\ ~c.unsup /\ c.lines > 0
  <2>1. CASE ~c.fps
    BY <1>5, <2>1 DEF Usable
  <2>2. CASE c.fps
    <3>1. /\ c.lines = IF m <= MaxCheatLines THEN m ELSE MaxCheatLines
          /\ c.unsup <=> (m > MaxCheatLines \/ \E j \in h + 1 .. h + c.lines : ~txt[j].good)
          /\ c.real <=> \E j \in h + 1 .. h + c.lines : txt[j].real
      BY <1>2, <2>2 DEF CurIs
    <3>2. CASE m > MaxCheatLines
      <4>1. c.unsup /\ m \notin 1 .. MaxCheatLines
        BY <1>4, <3>1, <3>2
      <4> QED BY <1>3, <4>1 DEF Usable
    <3>3. CASE ~(m > MaxCheatLines)
      <4>1. c.lines = m /\ h + c.lines = Len(txt) /\ (m \in 1 .. MaxCheatLines <=> c.lines > 0)
        <5>1. m <= MaxCheatLines
          BY <1>4, <3>3
        <5>2. c.lines = m
          BY <3>1, <5>1
        <5>3. h \in Int /\ Len(txt) \in Int
          BY <1>1
        <5>4. h + m = Len(txt) /\ (m \in 1 .. MaxCheatLines <=> m > 0)
          BY <1>2, <1>4, <5>1, <5>3
        <5> QED BY <5>2, <5>4
      <4>2. c.unsup <=> \E j \in h + 1 .. Len(txt) : ~txt[j].good
        BY <3>1, <3>3, <4>1
      <4>3. c.real <=> \E j \in h + 1 .. Len(txt) : txt[j].real
        BY <3>1, <4>1
      <4> QED BY <1>1, <1>3, <1>5, <2>2, <4>1, <4>2, <4>3 DEF Usable
    <3> QED BY <3>2, <3>3
  <2> QED BY <1>5, <2>1, <2>2
<1>7. Usable(txt, h) => c.lines = m
  <2>1. SUFFICES ASSUME Usable(txt, h) PROVE c.lines = m
    OBVIOUS
  <2>2. m \in 1 .. MaxCheatLines /\ c.fps
    BY <1>3, <1>5, <2>1 DEF Usable
  <2> QED BY <1>2, <1>4, <2>2 DEF CurIs
<1>8. CASE Usable(txt, h) /\ Len(o.options) < MaxOptions /\ o.used + m <= MaxLines
  <2>1. Keep(c, o.options, o.used) /\ c.lines = m
    BY <1>6, <1>7, <1>8 DEF Keep
  <2>2. PICK r : r = [name |-> KeptName(c.name), off |-> o.used, cnt |-> c.lines]
    OBVIOUS
  <2>3. Commit(c, o.options, o.used) = Append(o.options, r)
    BY <2>1, <2>2 DEF Commit
  <2>4. Append(o.options, r) # o.options
    <3>1. o.options \in Seq(OptionRec)
      BY DEF Offers
    <3>2. Len(Append(o.options, r)) = Len(o.options) + 1 /\ Len(o.options) \in Nat
      BY <3>1
    <3> QED BY <3>2
  <2>5. CommitUsed(c, o.options, o.used) = o.used + m
    BY <2>1, <2>3, <2>4 DEF CommitUsed
  <2>6. Offer(txt, o, h) = [options |-> Append(o.options, r), used |-> o.used + m]
    BY <1>3, <1>5, <1>8, <2>1, <2>2 DEF Offer
  <2> QED BY <2>3, <2>5, <2>6
<1>9. CASE ~(Usable(txt, h) /\ Len(o.options) < MaxOptions /\ o.used + m <= MaxLines)
  <2>1. ~Keep(c, o.options, o.used)
    BY <1>6, <1>7, <1>9 DEF Keep
  <2>2. Commit(c, o.options, o.used) = o.options /\ CommitUsed(c, o.options, o.used) = o.used
    BY <2>1 DEF Commit, CommitUsed
  <2>3. Offer(txt, o, h) = o
    BY <1>3, <1>9 DEF Offer
  <2> QED BY <2>2, <2>3 DEF Offers
<1> QED BY <1>8, <1>9

\* nothing is committed of no cheat
LEMMA CommitNothing ==
  ASSUME NEW o, NEW n
  PROVE  Commit(NoCheat, o, n) = o /\ CommitUsed(NoCheat, o, n) = n
  BY DEF Commit, CommitUsed, Keep, NoCheat

Cheats == [fps : BOOLEAN, name : Names \cup {""}, unsup : BOOLEAN, real : BOOLEAN, lines : Nat]

\* the cheat begun at line, and c with line as its next
CheatFrom(line) == [NoCheat EXCEPT !.fps = line.fps, !.name = line.name]
WithCode(c, line) ==
  IF ~c.fps THEN c
  ELSE IF c.lines >= MaxCheatLines THEN [c EXCEPT !.unsup = TRUE]
  ELSE [c EXCEPT !.lines = @ + 1, !.unsup = @ \/ ~line.good, !.real = @ \/ line.real]

LEMMA CodeKnown ==
  ASSUME NEW txt \in Seq(Line), NEW line \in Line, line.t = "L", NEW nxt, LineMore(txt, line, nxt),
         NEW h, IsLast(txt, h), InSection(txt), NEW c \in Cheats, CurIs(txt, c, h),
         NEW d, d = WithCode(c, line)
  PROVE  d \in Cheats /\ IsLast(nxt, h) /\ CurIs(nxt, d, h)
<1>0. d = IF ~c.fps THEN c
          ELSE IF c.lines >= MaxCheatLines THEN [c EXCEPT !.unsup = TRUE]
          ELSE [c EXCEPT !.lines = @ + 1, !.unsup = @ \/ ~line.good, !.real = @ \/ line.real]
  BY DEF WithCode
<1>1. /\ Len(txt) \in Nat /\ Len(nxt) = Len(txt) + 1 /\ (\A i \in 1 .. Len(txt) : nxt[i] = txt[i])
      /\ nxt[Len(txt) + 1] = line
  BY DEF LineMore
<1>2. h \in 1 .. Len(txt) /\ h \in OurLines(txt) /\ txt[h].t = "C" /\ \A j \in h + 1 .. Len(txt) : txt[j].t = "L"
  BY DEF IsLast
<1>3. c.fps \in BOOLEAN /\ c.unsup \in BOOLEAN /\ c.real \in BOOLEAN /\ c.lines \in Nat
  BY DEF Cheats
<1>4. line.good \in BOOLEAN /\ line.real \in BOOLEAN
  BY LineTypes
<1>5. d \in Cheats
  <2>1. [c EXCEPT !.unsup = TRUE] \in Cheats
    BY DEF Cheats
  <2>2. [c EXCEPT !.lines = @ + 1, !.unsup = @ \/ ~line.good, !.real = @ \/ line.real] \in Cheats
    <3>1. PICK n \in Nat, u \in BOOLEAN, r \in BOOLEAN :
            n = c.lines + 1 /\ u = (c.unsup \/ ~line.good) /\ r = (c.real \/ line.real)
      <4>1. c.lines + 1 \in Nat
        BY <1>3
      <4>2. (c.unsup \/ ~line.good) \in BOOLEAN /\ (c.real \/ line.real) \in BOOLEAN
        OBVIOUS
      <4> QED BY <4>1, <4>2
    <3>2. [c EXCEPT !.lines = n, !.unsup = u, !.real = r] \in Cheats
      BY DEF Cheats
    <3>3. [c EXCEPT !.lines = @ + 1, !.unsup = @ \/ ~line.good, !.real = @ \/ line.real]
            = [c EXCEPT !.lines = n, !.unsup = u, !.real = r]
      <4>1. [c EXCEPT !.lines = @ + 1, !.unsup = @ \/ ~line.good, !.real = @ \/ line.real]
              = [c EXCEPT !.lines = c.lines + 1, !.unsup = c.unsup \/ ~line.good, !.real = c.real \/ line.real]
        BY Zenon DEF Cheats
      <4>2. u = (c.unsup \/ ~line.good)
        BY <3>1
      <4> QED BY <3>1, <4>1, Zenon
    <3> QED BY <3>2, <3>3
  <2> QED BY <1>0, <2>1, <2>2
<1>6. IsLast(nxt, h)
  <2>1. h \in 1 .. Len(nxt) /\ nxt[h] = txt[h]
    BY <1>1, <1>2
  <2>2. h \in OurLines(nxt)
    BY <1>2, OursBefore
  <2>3. ASSUME NEW j \in h + 1 .. Len(nxt) PROVE nxt[j].t = "L"
    <3>1. CASE j = Len(txt) + 1
      BY <1>1, <3>1
    <3>2. CASE j # Len(txt) + 1
      <4>1. j \in h + 1 .. Len(txt) /\ j \in 1 .. Len(txt)
        BY <1>1, <1>2, <3>2
      <4> QED BY <1>1, <1>2, <4>1
    <3> QED BY <3>1, <3>2
  <2> QED BY <1>2, <2>1, <2>2, <2>3 DEF IsLast
<1>7. CurIs(nxt, d, h)
  <2>0. nxt[h] = txt[h] /\ c.fps = txt[h].fps /\ c.name = txt[h].name
    BY <1>1, <1>2 DEF CurIs
  <2>1. CASE ~c.fps
    BY <1>0, <2>0, <2>1 DEF CurIs
  <2>2. CASE c.fps
    <3>1. PICK m \in Nat : m = Len(txt) - h /\ h + m = Len(txt)
      <4>1. Len(txt) \in Nat /\ h \in 1 .. Len(txt)
        BY <1>1, <1>2
      <4> QED BY <4>1
    <3>2. /\ c.lines = IF m <= MaxCheatLines THEN m ELSE MaxCheatLines
          /\ c.unsup <=> (m > MaxCheatLines \/ \E j \in h + 1 .. h + c.lines : ~txt[j].good)
          /\ c.real <=> \E j \in h + 1 .. h + c.lines : txt[j].real
      BY <2>2, <3>1 DEF CurIs
    <3>3. MaxCheatLines \in Nat /\ MaxCheatLines > 0 /\ Len(nxt) - h = m + 1 /\ h \in Nat
      BY <1>1, <1>2, <3>1, DbSizes
    <3>4. \A j \in h + 1 .. h + c.lines : nxt[j] = txt[j]
      <4>1. c.lines <= m
        BY <3>2, <3>3
      <4>2. \A j \in h + 1 .. h + c.lines : j \in 1 .. Len(txt)
        BY <1>3, <3>1, <3>3, <4>1
      <4> QED BY <1>1, <4>2
    <3>5. CASE c.lines >= MaxCheatLines
      <4>1. c.lines = MaxCheatLines /\ m + 1 > MaxCheatLines /\ ~(m + 1 <= MaxCheatLines)
        BY <3>2, <3>3, <3>5
      <4>2. d.fps = c.fps /\ d.name = c.name /\ d.unsup = TRUE /\ d.real = c.real /\ d.lines = c.lines
        BY <1>0, <2>2, <3>5 DEF Cheats
      <4>3. d.real <=> \E j \in h + 1 .. h + d.lines : nxt[j].real
        BY <3>2, <3>4, <4>2
      <4> QED BY <2>0, <3>3, <4>1, <4>2, <4>3 DEF CurIs
    <3>6. CASE ~(c.lines >= MaxCheatLines)
      <4>1. c.lines = m /\ m + 1 <= MaxCheatLines /\ ~(m > MaxCheatLines) /\ ~(m + 1 > MaxCheatLines)
        BY <3>2, <3>3, <3>6
      <4>2. /\ d.fps = c.fps /\ d.name = c.name /\ d.lines = m + 1
            /\ d.unsup = (c.unsup \/ ~line.good) /\ d.real = (c.real \/ line.real)
        BY <1>0, <2>2, <3>6, <4>1 DEF Cheats
      <4>3. /\ \A j \in h + 1 .. h + (m + 1) : j \in h + 1 .. h + m \/ j = Len(txt) + 1
            /\ Len(txt) + 1 \in h + 1 .. h + (m + 1) /\ \A j \in h + 1 .. h + m : j \in h + 1 .. h + (m + 1)
        BY <3>1, <3>3
      <4>4. (\E j \in h + 1 .. h + m : ~txt[j].good) \/ ~line.good <=> \E j \in h + 1 .. h + (m + 1) : ~nxt[j].good
        BY <1>1, <3>4, <4>1, <4>3
      <4>5. (\E j \in h + 1 .. h + m : txt[j].real) \/ line.real <=> \E j \in h + 1 .. h + (m + 1) : nxt[j].real
        BY <1>1, <3>4, <4>1, <4>3
      <4>6. c.unsup <=> \E j \in h + 1 .. h + m : ~txt[j].good
        BY <3>2, <4>1
      <4>7. c.real <=> \E j \in h + 1 .. h + m : txt[j].real
        BY <3>2, <4>1
      <4>8. d.unsup <=> \E j \in h + 1 .. h + (m + 1) : ~nxt[j].good
        BY <1>3, <1>4, <4>2, <4>4, <4>6
      <4>9. d.real <=> \E j \in h + 1 .. h + (m + 1) : nxt[j].real
        BY <1>3, <1>4, <4>2, <4>5, <4>7
      <4> QED BY <2>0, <3>3, <4>1, <4>2, <4>8, <4>9 DEF CurIs
    <3> QED BY <3>5, <3>6
  <2> QED BY <1>3, <2>1, <2>2
<1> QED BY <1>5, <1>6, <1>7

LEMMA CheatBegun ==
  ASSUME NEW txt \in Seq(Line), NEW line \in Line, line.t = "C", NEW nxt, LineMore(txt, line, nxt), InSection(txt),
         NEW d, d = CheatFrom(line)
  PROVE  d \in Cheats /\ IsLast(nxt, Len(txt) + 1) /\ CurIs(nxt, d, Len(txt) + 1)
<1>1. Len(txt) \in Nat /\ Len(nxt) = Len(txt) + 1 /\ nxt[Len(txt) + 1] = line
  BY DEF LineMore
<1>2. Len(txt) + 1 \in OurLines(nxt)
  BY StillInSection
<1>3. line.fps \in BOOLEAN /\ line.name \in Names
  BY LineTypes
<1>4. d.fps = line.fps /\ d.name = line.name /\ d.unsup = FALSE /\ d.real = FALSE /\ d.lines = 0
  BY DEF CheatFrom, NoCheat
<1>5. d \in Cheats
  BY <1>3 DEF Cheats, CheatFrom, NoCheat
<1>6. IsLast(nxt, Len(txt) + 1)
  BY <1>1, <1>2 DEF IsLast
<1>7. Len(nxt) - (Len(txt) + 1) = 0 /\ 0 <= MaxCheatLines /\ ~(0 > MaxCheatLines)
      /\ ~\E j \in (Len(txt) + 1) + 1 .. (Len(txt) + 1) + 0 : TRUE
  BY <1>1, DbSizes
<1>8. CurIs(nxt, d, Len(txt) + 1)
  BY <1>1, <1>4, <1>7 DEF CurIs
<1> QED BY <1>5, <1>6, <1>8

\* the cheat being read, offered with those before it
LEMMA LastOffered ==
  ASSUME NEW txt \in Seq(Line), NEW h, IsLast(txt, h), NEW c, CurIs(txt, c, h), NEW opts, NEW n,
         Offered(txt, h - 1, [options |-> opts, used |-> n])
  PROVE  Offered(txt, Len(txt), [options |-> Commit(c, opts, n), used |-> CommitUsed(c, opts, n)])
<1>1. Len(txt) \in Nat /\ h \in 1 .. Len(txt) /\ h - 1 \in Nat /\ (h - 1) + 1 = h /\ h \in Nat /\ h <= Len(txt)
  <2>1. Len(txt) \in Nat /\ h \in 1 .. Len(txt)
    BY DEF IsLast
  <2> QED BY <2>1
<1>2. PICK o : o = [options |-> opts, used |-> n]
  OBVIOUS
<1>3. o.options = opts /\ o.used = n
  BY <1>2
<1>4. o \in Offers /\ Offered(txt, h, Offer(txt, o, h))
  BY <1>1, <1>2, OfferedNext
<1>5. Offer(txt, o, h) = [options |-> Commit(c, opts, n), used |-> CommitUsed(c, opts, n)]
  BY <1>3, <1>4, CommitOffers
<1>6. \A i \in h + 1 .. Len(txt) : ~Usable(txt, i)
  BY DEF IsLast, Usable
<1>7. Offered(txt, Len(txt), Offer(txt, o, h))
  BY <1>1, <1>4, <1>6, OfferedOn
<1> QED BY <1>5, <1>7

\* a line that is no code leaves the offer as it was
LEMMA OfferStands ==
  ASSUME NEW txt \in Seq(Line), NEW line \in Line, line.t # "L", NEW nxt, LineMore(txt, line, nxt),
         NEW o, Offered(txt, Len(txt), o)
  PROVE  Offered(nxt, Len(txt), o) /\ (line.t = "S" => Offered(nxt, Len(nxt), o))
<1>1. Len(txt) \in Nat /\ Len(nxt) = Len(txt) + 1 /\ nxt[Len(txt) + 1] = line /\ nxt \in Seq(Line)
  BY DEF LineMore
<1>2. Same(txt, nxt, Len(txt))
  <2>1. ASSUME NEW i \in 1 .. Len(txt), NEW o1 \in Offers PROVE Offer(nxt, o1, i) = Offer(txt, o1, i)
    <3>1. Ended(txt, line, i)
      BY DEF Ended
    <3> QED BY <3>1, OfferBefore
  <2> QED BY <2>1 DEF Same
<1>3. Offered(nxt, Len(txt), o)
  BY <1>1, <1>2, OfferedSame
<1>4. ASSUME line.t = "S" PROVE Offered(nxt, Len(nxt), o)
  <2>1. \A i \in Len(txt) + 1 .. Len(nxt) : ~Usable(nxt, i)
    <3>1. \A i \in Len(txt) + 1 .. Len(nxt) : i = Len(txt) + 1
      BY <1>1
    <3> QED BY <1>1, <1>4, <3>1 DEF Usable
  <2>2. Len(nxt) \in Nat /\ Len(txt) <= Len(nxt)
    BY <1>1
  <2> QED BY <1>1, <1>3, <2>1, <2>2, OfferedOn
<1> QED BY <1>3, <1>4

\* ... and code leaves what was offered before its cheat
LEMMA OfferStays ==
  ASSUME NEW txt \in Seq(Line), NEW line \in Line, NEW nxt, LineMore(txt, line, nxt),
         NEW h, IsLast(txt, h), NEW o, Offered(txt, h - 1, o)
  PROVE  Offered(nxt, h - 1, o)
<1>1. Len(txt) \in Nat /\ h \in 1 .. Len(txt) /\ h - 1 \in Nat /\ txt[h].t = "C"
  <2>1. Len(txt) \in Nat /\ h \in 1 .. Len(txt) /\ txt[h].t = "C"
    BY DEF IsLast
  <2> QED BY <2>1
<1>2. Same(txt, nxt, h - 1)
  <2>1. ASSUME NEW i \in 1 .. h - 1, NEW o1 \in Offers PROVE Offer(nxt, o1, i) = Offer(txt, o1, i)
    <3>1. i \in 1 .. Len(txt) /\ h \in i + 1 .. Len(txt)
      BY <1>1
    <3>2. Ended(txt, line, i)
      BY <1>1, <3>1 DEF Ended
    <3> QED BY <3>1, <3>2, OfferBefore
  <2> QED BY <2>1 DEF Same
<1> QED BY <1>1, <1>2, OfferedSame

LEMMA NothingOffered ==
  ASSUME NEW txt \in Seq(Line), NoHead(txt)
  PROVE  Offered(txt, Len(txt), Nothing)
<1>1. Len(txt) \in Nat /\ 0 \in Nat /\ 0 <= Len(txt)
  OBVIOUS
<1>2. \A i \in 0 + 1 .. Len(txt) : ~Usable(txt, i)
  BY DEF NoHead, Usable
<1> QED BY <1>1, <1>2, OfferedNone, OfferedOn

\* before the first cheat of our section; inside one; behind the section
NoneBegun(txt, c, o)   == c = NoCheat /\ o = Nothing /\ NoHead(txt)
OneBegun(txt, c, o) == \E h : IsLast(txt, h) /\ CurIs(txt, c, h) /\ Offered(txt, h - 1, o)
AllOffered(txt, c, o)   == c = NoCheat /\ Offered(txt, Len(txt), o)

\* o with the cheat c committed
Committed(c, o) == [options |-> Commit(c, o.options, o.used), used |-> CommitUsed(c, o.options, o.used)]

LEMMA OfferTyped ==
  ASSUME NEW txt \in Seq(Line), NEW c, NEW o, NoneBegun(txt, c, o) \/ OneBegun(txt, c, o) \/ AllOffered(txt, c, o)
  PROVE  o \in Offers
<1>1. CASE NoneBegun(txt, c, o)
  BY <1>1 DEF NoneBegun, Nothing, Offers
<1>2. CASE OneBegun(txt, c, o)
  <2>1. PICK h : IsLast(txt, h) /\ Offered(txt, h - 1, o)
    BY <1>2 DEF OneBegun
  <2>2. h - 1 \in Nat
    <3>1. h \in 1 .. Len(txt)
      BY <2>1 DEF IsLast
    <3> QED BY <3>1
  <2> QED BY <2>1, <2>2, OfferedNext
<1>3. CASE AllOffered(txt, c, o)
  <2>1. Len(txt) \in Nat /\ Offered(txt, Len(txt), o)
    BY <1>3 DEF AllOffered
  <2> QED BY <2>1, OfferedNext
<1> QED BY <1>1, <1>2, <1>3

LEMMA EndsOffered ==
  ASSUME NEW txt \in Seq(Line), NEW c, NEW o, NoneBegun(txt, c, o) \/ OneBegun(txt, c, o) \/ AllOffered(txt, c, o)
  PROVE  Offered(txt, Len(txt), Committed(c, o))
<1>0. o \in Offers
  BY OfferTyped
<1>1. o = [options |-> o.options, used |-> o.used]
  BY <1>0 DEF Offers
<1>2. c = NoCheat => Committed(c, o) = o
  BY <1>1, CommitNothing DEF Committed
<1>3. CASE NoneBegun(txt, c, o)
  BY <1>2, <1>3, NothingOffered DEF NoneBegun
<1>4. CASE AllOffered(txt, c, o)
  BY <1>2, <1>4 DEF AllOffered
<1>5. CASE OneBegun(txt, c, o)
  <2>1. PICK h : IsLast(txt, h) /\ CurIs(txt, c, h) /\ Offered(txt, h - 1, o)
    BY <1>5 DEF OneBegun
  <2>2. Offered(txt, h - 1, [options |-> o.options, used |-> o.used])
    BY <1>1, <2>1
  <2> QED BY <2>1, <2>2, LastOffered DEF Committed
<1> QED BY <1>3, <1>4, <1>5

LEMMA SectionLineRead ==
  ASSUME NEW txt \in Seq(Line), NEW line \in Line, line.t = "S", NEW nxt, LineMore(txt, line, nxt),
         NEW c, NEW o, NoneBegun(txt, c, o) \/ OneBegun(txt, c, o)
  PROVE  AllOffered(nxt, NoCheat, Committed(c, o))
<1>1. Offered(txt, Len(txt), Committed(c, o))
  BY EndsOffered
<1>2. Offered(nxt, Len(nxt), Committed(c, o))
  BY <1>1, OfferStands
<1> QED BY <1>2 DEF AllOffered

LEMMA CheatLineRead ==
  ASSUME NEW txt \in Seq(Line), NEW line \in Line, line.t = "C", NEW nxt, LineMore(txt, line, nxt), InSection(txt),
         NEW c, NEW o, NoneBegun(txt, c, o) \/ OneBegun(txt, c, o),
         NEW d, d = CheatFrom(line)
  PROVE  d \in Cheats /\ OneBegun(nxt, d, Committed(c, o))
<1>1. Offered(txt, Len(txt), Committed(c, o))
  BY EndsOffered
<1>2. Offered(nxt, Len(txt), Committed(c, o))
  BY <1>1, OfferStands
<1>3. PICK h : h = Len(txt) + 1 /\ h - 1 = Len(txt)
  <2>1. Len(txt) \in Nat
    OBVIOUS
  <2> QED BY <2>1
<1>4. d \in Cheats /\ IsLast(nxt, h) /\ CurIs(nxt, d, h)
  BY <1>3, CheatBegun
<1>5. Offered(nxt, h - 1, Committed(c, o))
  BY <1>2, <1>3
<1> QED BY <1>4, <1>5 DEF OneBegun

\* without a cheat yet, no line but a cheat of our section begins one
LEMMA StillEarly ==
  ASSUME NEW txt \in Seq(Line), NEW line \in Line, line.t # "C", NEW nxt, LineMore(txt, line, nxt), NoHead(txt)
  PROVE  NoHead(nxt)
<1>1. /\ Len(txt) \in Nat /\ Len(nxt) = Len(txt) + 1 /\ (\A i \in 1 .. Len(txt) : nxt[i] = txt[i])
      /\ nxt[Len(txt) + 1] = line
  BY DEF LineMore
<1>2. SUFFICES ASSUME NEW j \in OurLines(nxt) PROVE nxt[j].t # "C"
  BY DEF NoHead
<1>3. j \in 1 .. Len(txt) \/ j = Len(txt) + 1
  <2>1. j \in 1 .. Len(nxt)
    BY DEF OurLines
  <2> QED BY <1>1, <2>1
<1>4. CASE j = Len(txt) + 1
  BY <1>1, <1>4
<1>5. CASE j \in 1 .. Len(txt)
  <2>1. j \in OurLines(txt)
    BY <1>5, OursBefore
  <2> QED BY <1>1, <1>5, <2>1 DEF NoHead
<1> QED BY <1>3, <1>4, <1>5

LEMMA CodeLineRead ==
  ASSUME NEW txt \in Seq(Line), NEW line \in Line, line.t = "L", NEW nxt, LineMore(txt, line, nxt), InSection(txt),
         NEW c \in Cheats, NEW o, NoneBegun(txt, c, o) \/ OneBegun(txt, c, o),
         NEW d, d = WithCode(c, line)
  PROVE  d \in Cheats /\ (NoneBegun(nxt, d, o) \/ OneBegun(nxt, d, o))
<1>1. CASE NoneBegun(txt, c, o)
  <2>1. c = NoCheat /\ o = Nothing /\ NoHead(nxt)
    BY <1>1, StillEarly DEF NoneBegun
  <2>2. d = NoCheat
    BY <2>1 DEF WithCode, NoCheat
  <2> QED BY <2>1, <2>2 DEF NoneBegun
<1>2. CASE OneBegun(txt, c, o)
  <2>1. PICK h : IsLast(txt, h) /\ CurIs(txt, c, h) /\ Offered(txt, h - 1, o)
    BY <1>2 DEF OneBegun
  <2>2. d \in Cheats /\ IsLast(nxt, h) /\ CurIs(nxt, d, h)
    BY <2>1, CodeKnown
  <2>3. Offered(nxt, h - 1, o)
    BY <2>1, OfferStays
  <2> QED BY <2>2, <2>3 DEF OneBegun
<1> QED BY <1>1, <1>2

(***** the pool *****)

Slices(opts, n) ==
  /\ \A i \in 1 .. Len(opts) : opts[i].off = IF i = 1 THEN 0 ELSE opts[i - 1].off + opts[i - 1].cnt
  /\ n = IF opts = <<>> THEN 0 ELSE opts[Len(opts)].off + opts[Len(opts)].cnt
  /\ n <= MaxLines

LEMMA CommitSlices ==
  ASSUME NEW o \in Offers, Slices(o.options, o.used), NEW c \in Cheats
  PROVE  Slices(Committed(c, o).options, Committed(c, o).used)
<1>1. PICK opts \in Seq(OptionRec), n \in Nat : o.options = opts /\ o.used = n
  BY DEF Offers
<1>2. CASE ~Keep(c, opts, n)
  <2>1. Committed(c, o).options = opts /\ Committed(c, o).used = n
    BY <1>1, <1>2 DEF Committed, Commit, CommitUsed
  <2> QED BY <1>1, <2>1
<1>3. CASE Keep(c, opts, n)
  <2>1. PICK r : r = [name |-> KeptName(c.name), off |-> n, cnt |-> c.lines]
    OBVIOUS
  <2>2. PICK a : a = Append(opts, r)
    OBVIOUS
  <2>3. Len(opts) \in Nat /\ Len(a) = Len(opts) + 1 /\ a[Len(opts) + 1] = r /\ \A i \in 1 .. Len(opts) : a[i] = opts[i]
    BY <2>2
  <2>4. a # opts /\ a # <<>>
    BY <2>3
  <2>5. Committed(c, o).options = a /\ Committed(c, o).used = n + c.lines
    <3>1. Commit(c, opts, n) = a
      BY <1>3, <2>1, <2>2 DEF Commit
    <3>2. CommitUsed(c, opts, n) = n + c.lines
      BY <2>4, <3>1 DEF CommitUsed
    <3> QED BY <1>1, <3>1, <3>2 DEF Committed
  <2>6. n + c.lines <= MaxLines
    BY <1>3 DEF Keep
  <2>7. n + c.lines = a[Len(a)].off + a[Len(a)].cnt
    BY <2>1, <2>3
  <2>8. ASSUME NEW i \in 1 .. Len(a) PROVE a[i].off = IF i = 1 THEN 0 ELSE a[i - 1].off + a[i - 1].cnt
    <3>1. CASE i = Len(opts) + 1
      <4>1. a[i].off = n
        BY <2>1, <2>3, <3>1
      <4>2. CASE opts = <<>>
        <5>1. i = 1 /\ n = 0
          BY <1>1, <3>1, <4>2 DEF Slices
        <5> QED BY <4>1, <5>1
      <4>3. CASE opts # <<>>
        <5>1. Len(opts) \in 1 .. Len(opts) /\ i # 1 /\ i - 1 = Len(opts)
          BY <3>1, <4>3
        <5>2. n = opts[Len(opts)].off + opts[Len(opts)].cnt
          BY <1>1, <4>3 DEF Slices
        <5> QED BY <2>3, <4>1, <5>1, <5>2
      <4> QED BY <4>2, <4>3
    <3>2. CASE i # Len(opts) + 1
      <4>1. i \in 1 .. Len(opts) /\ (i # 1 => i - 1 \in 1 .. Len(opts))
        BY <2>3, <3>2
      <4>2. opts[i].off = IF i = 1 THEN 0 ELSE opts[i - 1].off + opts[i - 1].cnt
        BY <1>1, <4>1 DEF Slices
      <4> QED BY <2>3, <4>1, <4>2
    <3> QED BY <3>1, <3>2
  <2>9. Slices(a, n + c.lines)
    BY <2>4, <2>6, <2>7, <2>8 DEF Slices
  <2> QED BY <2>5, <2>9
<1> QED BY <1>2, <1>3

(***** the invariant *****)

OfferNow == [options |-> options, used |-> used]

DbTypes ==
  text \in Seq(Line) /\ inGame \in BOOLEAN /\ done \in BOOLEAN /\ cur \in Cheats /\ dbStage \in {"reading", "ready"}
Where == ~done => IF inGame THEN InSection(text) ELSE NoSection(text)
Progress ==
  IF dbStage = "reading" /\ ~done
  THEN NoneBegun(text, cur, OfferNow) \/ (inGame /\ OneBegun(text, cur, OfferNow))
  ELSE AllOffered(text, cur, OfferNow)
DbInv == DbTypes /\ Where /\ Progress /\ Slices(options, used)

LEMMA NoCheatIs == NoCheat \in Cheats
  BY DEF NoCheat, Cheats

LEMMA ReadLineKeeps == DbInv /\ ReadLine => DbInv'
<1> SUFFICES ASSUME DbInv, ReadLine PROVE DbInv'
  OBVIOUS
<1>1. PICK line \in Line : text' = Append(text, line) /\ (SectionLine(line) \/ CheatLine(line) \/ CodeLine(line))
  BY DEF ReadLine
<1>2. PICK txt, nxt, c, o, d, p : txt = text /\ nxt = text' /\ c = cur /\ o = OfferNow /\ d = cur' /\ p = OfferNow'
  OBVIOUS
<1>3. txt \in Seq(Line) /\ nxt = Append(txt, line) /\ LineMore(txt, line, nxt)
  BY <1>1, <1>2, ReadsOn DEF DbInv, DbTypes
<1>4. nxt \in Seq(Line)
  BY <1>3 DEF LineMore
<1>5. /\ dbStage = "reading" /\ dbStage' = "reading" /\ done = FALSE /\ inGame \in BOOLEAN /\ c \in Cheats
      /\ NoneBegun(txt, c, o) \/ (inGame /\ OneBegun(txt, c, o))
      /\ (IF inGame THEN InSection(txt) ELSE NoSection(txt)) /\ Slices(options, used)
  BY <1>2 DEF DbInv, DbTypes, Where, Progress, ReadLine
<1>6. o \in Offers /\ o.options = options /\ o.used = used /\ p.options = options' /\ p.used = used'
      /\ p = [options |-> options', used |-> used']
  BY <1>2, <1>3, <1>5, OfferTyped DEF OfferNow
<1>7. SUFFICES /\ inGame' \in BOOLEAN /\ done' \in BOOLEAN /\ d \in Cheats
               /\ ~done' => IF inGame' THEN InSection(nxt) ELSE NoSection(nxt)
               /\ IF ~done' THEN NoneBegun(nxt, d, p) \/ (inGame' /\ OneBegun(nxt, d, p)) ELSE AllOffered(nxt, d, p)
               /\ Slices(p.options, p.used)
  BY <1>2, <1>4, <1>5, <1>6 DEF DbInv, DbTypes, Where, Progress
<1>8. Slices(o.options, o.used)
  BY <1>5, <1>6
<1>9. Slices(Committed(c, o).options, Committed(c, o).used)
  BY <1>5, <1>6, <1>8, CommitSlices
<1>10. CASE SectionLine(line)
  <2>1. line.t = "S" /\ d = NoCheat /\ done' = inGame /\ inGame' = (inGame \/ line.own)
    BY <1>2, <1>10 DEF SectionLine
  <2>2. p = Committed(c, o)
    BY <1>2, <1>6, <1>10 DEF SectionLine, Committed
  <2>3. CASE inGame
    <3>1. AllOffered(nxt, d, p)
      BY <1>3, <1>5, <2>1, <2>2, SectionLineRead
    <3> QED BY <1>9, <2>1, <2>2, <2>3, <3>1, NoCheatIs
  <2>4. CASE ~inGame
    <3>1. OurLines(nxt) = {} /\ (~Opens(line) => NoSection(nxt)) /\ (Opens(line) => InSection(nxt))
      BY <1>3, <1>5, <2>4, BeforeSection
    <3>2. line.own \in BOOLEAN /\ (Opens(line) <=> line.own)
      BY <2>1, LineTypes DEF Opens
    <3>3. NoHead(nxt)
      BY <3>1 DEF NoHead
    <3>4. c = NoCheat /\ o = Nothing
      BY <1>5, <2>4 DEF NoneBegun
    <3>5. p = Nothing
      BY <2>2, <3>4, CommitNothing DEF Committed, Nothing
    <3>6. NoneBegun(nxt, d, p)
      BY <2>1, <3>3, <3>5 DEF NoneBegun
    <3>7. done' = FALSE /\ inGame' = line.own
      BY <1>5, <2>1, <2>4, <3>2
    <3> QED BY <1>9, <2>1, <2>2, <3>1, <3>2, <3>6, <3>7, NoCheatIs
  <2> QED BY <2>3, <2>4
<1>11. CASE CheatLine(line)
  <2>1. line.t = "C" /\ inGame' = inGame /\ done' = done
    BY <1>11 DEF CheatLine
  <2>2. CASE inGame
    <3>1. d = CheatFrom(line)
      BY <1>2, <1>11, <2>2 DEF CheatLine, CheatFrom
    <3>2. p = Committed(c, o)
      BY <1>2, <1>6, <1>11, <2>2 DEF CheatLine, Committed
    <3>3. d \in Cheats /\ OneBegun(nxt, d, p)
      BY <1>3, <1>5, <2>1, <2>2, <3>1, <3>2, CheatLineRead
    <3>4. InSection(nxt)
      BY <1>3, <1>5, <2>1, <2>2, StillInSection
    <3>5. done' = FALSE /\ inGame' = TRUE /\ Slices(p.options, p.used)
      BY <1>5, <1>9, <2>1, <2>2, <3>2
    <3> QED BY <3>3, <3>4, <3>5
  <2>3. CASE ~inGame
    <3>1. d = c /\ p = o
      BY <1>2, <1>11, <2>3 DEF CheatLine, OfferNow
    <3>2. OurLines(nxt) = {} /\ (~Opens(line) => NoSection(nxt))
      BY <1>3, <1>5, <2>3, BeforeSection
    <3>3. NoSection(nxt) /\ NoHead(nxt)
      BY <2>1, <3>2 DEF Opens, NoHead
    <3>4. NoneBegun(nxt, d, p)
      <4>1. NoneBegun(txt, c, o)
        BY <1>5, <2>3
      <4> QED BY <3>1, <3>3, <4>1 DEF NoneBegun
    <3>5. done' = FALSE /\ inGame' = FALSE /\ Slices(p.options, p.used) /\ d \in Cheats
      BY <1>5, <1>8, <2>1, <2>3, <3>1
    <3> QED BY <3>3, <3>4, <3>5
  <2> QED BY <2>2, <2>3
<1>12. CASE CodeLine(line)
  <2>1. line.t = "L" /\ inGame' = inGame /\ done' = done /\ p = o
    BY <1>2, <1>12 DEF CodeLine, OfferNow
  <2>2. CASE inGame
    <3>1. d = WithCode(c, line)
      BY <1>2, <1>12, <2>2 DEF CodeLine, WithCode
    <3>2. d \in Cheats /\ (NoneBegun(nxt, d, o) \/ OneBegun(nxt, d, o))
      BY <1>3, <1>5, <2>1, <2>2, <3>1, CodeLineRead
    <3>3. InSection(nxt)
      BY <1>3, <1>5, <2>1, <2>2, StillInSection
    <3>4. done' = FALSE /\ inGame' = TRUE /\ Slices(p.options, p.used)
      BY <1>5, <1>8, <2>1, <2>2
    <3> QED BY <2>1, <3>2, <3>3, <3>4
  <2>3. CASE ~inGame
    <3>1. d = c
      BY <1>2, <1>12, <2>3 DEF CodeLine
    <3>2. OurLines(nxt) = {} /\ (~Opens(line) => NoSection(nxt))
      BY <1>3, <1>5, <2>3, BeforeSection
    <3>3. NoSection(nxt) /\ NoHead(nxt)
      BY <2>1, <3>2 DEF Opens, NoHead
    <3>4. NoneBegun(nxt, d, p)
      <4>1. NoneBegun(txt, c, o)
        BY <1>5, <2>3
      <4> QED BY <2>1, <3>1, <3>3, <4>1 DEF NoneBegun
    <3>5. done' = FALSE /\ inGame' = FALSE /\ Slices(p.options, p.used) /\ d \in Cheats
      BY <1>5, <1>8, <2>1, <2>3, <3>1
    <3> QED BY <3>3, <3>4, <3>5
  <2> QED BY <2>2, <2>3
<1> QED BY <1>1, <1>10, <1>11, <1>12

LEMMA FinishKeeps == DbInv /\ Finish => DbInv'
<1> SUFFICES ASSUME DbInv, Finish PROVE DbInv'
  OBVIOUS
<1>1. PICK txt, c, o, p : txt = text /\ c = cur /\ o = OfferNow /\ p = OfferNow'
  OBVIOUS
<1>2. /\ txt \in Seq(Line) /\ c \in Cheats /\ (NoneBegun(txt, c, o) \/ OneBegun(txt, c, o) \/ AllOffered(txt, c, o))
      /\ Slices(options, used)
  BY <1>1 DEF DbInv, DbTypes, Progress
<1>3. o \in Offers /\ o.options = options /\ o.used = used /\ p.options = options' /\ p.used = used'
  BY <1>1, <1>2, OfferTyped DEF OfferNow
<1>4. p = Committed(c, o)
  BY <1>1, <1>3 DEF Finish, Committed, OfferNow
<1>5. Slices(p.options, p.used)
  <2>1. Slices(o.options, o.used)
    BY <1>2, <1>3
  <2> QED BY <1>2, <1>3, <1>4, <2>1, CommitSlices
<1>6. AllOffered(txt, NoCheat, p)
  BY <1>2, <1>4, EndsOffered DEF AllOffered
<1>7. text' = txt /\ inGame' = inGame /\ done' = done /\ cur' = NoCheat /\ dbStage' = "ready"
  BY <1>1 DEF Finish
<1>8. DbTypes'
  BY <1>7, <1>1, NoCheatIs DEF DbInv, DbTypes
<1>9. Where'
  BY <1>7, <1>1 DEF DbInv, Where
<1>10. Progress'
  BY <1>1, <1>6, <1>7 DEF Progress
<1> QED BY <1>3, <1>5, <1>8, <1>9, <1>10 DEF DbInv

\* At boot nothing has been read.
LEMMA DbBegins == DbInit => DbInv
<1> SUFFICES ASSUME DbInit PROVE DbInv
  OBVIOUS
<1>1. text = <<>> /\ ~inGame /\ ~done /\ cur = NoCheat /\ OfferNow = Nothing /\ dbStage = "reading"
      /\ options = <<>> /\ used = 0 /\ inGame = FALSE /\ done = FALSE
  BY DEF DbInit, OfferNow, Nothing
<1>2. <<>> \in Seq(Line) /\ Len(<<>>) = 0 /\ 1 .. 0 = {}
  OBVIOUS
<1>3. DbTypes
  BY <1>1, <1>2, NoCheatIs DEF DbTypes
<1>4. NoSection(text)
  BY <1>1, <1>2 DEF NoSection
<1>5. NoneBegun(text, cur, OfferNow)
  BY <1>1, <1>2 DEF NoneBegun, NoHead, OurLines
<1>6. Slices(options, used)
  BY <1>1, <1>2, DbSizes DEF Slices
<1> QED BY <1>1, <1>3, <1>4, <1>5, <1>6 DEF DbInv, Where, Progress

LEMMA DbStep == DbInv /\ [DbNext]_dbVars => DbInv'
<1> SUFFICES ASSUME DbInv, [DbNext]_dbVars PROVE DbInv'
  OBVIOUS
<1>1. CASE ReadLine
  BY <1>1, ReadLineKeeps
<1>2. CASE Finish
  BY <1>2, FinishKeeps
<1>3. CASE UNCHANGED <<text, inGame, done, cur, options, used, dbStage>>
  BY <1>3 DEF DbInv, DbTypes, Where, Progress, OfferNow
<1> QED BY <1>1, <1>2, <1>3 DEF DbNext, CycleOption, Reboot, dbVars

LEMMA DbInvHolds == DbSpec => []DbInv
BY DbBegins, DbStep, PTL DEF DbSpec

\* Reading the database line by line (proc_line, commit_cur), and starting the game again, offers
\* what the database says read as a whole: the usable FPS cheats of the running game's section
\* alone, in order, each with its own code, one that does not fit passed over for a later one that
\* does; and their code lies in the pool without a gap and within it.
THEOREM OptionsAreTheDatabase == DbSpec => []DatabaseOffered
<1>1. DbInv => DatabaseOffered
  <2> SUFFICES ASSUME DbInv PROVE DatabaseOffered
    OBVIOUS
  <2>1. PICK txt, o : txt = text /\ o = OfferNow
    OBVIOUS
  <2>2. txt \in Seq(Line)
    BY <2>1 DEF DbInv, DbTypes
  <2>3. ASSUME dbStage = "ready" PROVE OfferNow = WholeOffer(text)
    <3>1. Offered(txt, Len(txt), o)
      BY <2>1, <2>3 DEF DbInv, Progress, AllOffered
    <3>2. WholeOffer(txt) = o
      BY <2>2, <3>1, OfferedIs
    <3> QED BY <2>1, <3>2
  <2>4. OffersSection
    BY <2>3 DEF OffersSection, OfferNow
  <2>5. PoolIsSliced
    BY DEF DbInv, Slices, PoolIsSliced
  <2> QED BY <2>4, <2>5 DEF DatabaseOffered
<1> QED BY <1>1, DbInvHolds, PTL

\* no more options than there is room for, no more code of a cheat than is kept, and the active
\* option is one
OptionsInv == Len(options) <= MaxOptions /\ cur.lines <= MaxCheatLines /\ activeOption \in 0 .. Len(options)

\* of a set of places one is the first
LEMMA FirstPlace ==
  ASSUME NEW n \in Nat, NEW S \in SUBSET (1 .. n), S # {}
  PROVE  (CHOOSE i \in S : \A j \in S : i <= j) \in S
<1> DEFINE R == OpToRel(<, Nat)
<1>1. IsWellFoundedOn(R, Nat)
  BY NatLessThanWellFounded
<1>2. \A i, j \in Nat : <<i, j>> \in R <=> i < j
  BY DEF OpToRel
<1>3. S \subseteq Nat
  OBVIOUS
<1> HIDE DEF R
<1>4. PICK i \in S : \A j \in S : ~(<<j, i>> \in R)
  BY <1>1, <1>3, WFMin
<1>5. ASSUME NEW j \in S PROVE i <= j
  <2>1. i \in Nat /\ j \in Nat
    BY <1>3
  <2>2. ~(j < i)
    BY <1>2, <1>4, <2>1
  <2> QED BY <2>1, <2>2
<1> QED BY <1>5

LEMMA SelectedIsOne ==
  ASSUME NEW opts \in Seq(OptionRec)
  PROVE  Selected(opts) \in 0 .. Len(opts)
<1> DEFINE same == {i \in 1 .. Len(opts) : opts[i].name = kept}
<1>1. Len(opts) \in Nat /\ same \in SUBSET (1 .. Len(opts))
  OBVIOUS
<1>2. Selected(opts) = IF kept = "" \/ same = {} THEN 0 ELSE CHOOSE i \in same : \A j \in same : i <= j
  BY DEF Selected
<1> HIDE DEF same
<1>3. CASE kept = "" \/ same = {}
  <2>1. Selected(opts) = 0
    BY <1>2, <1>3
  <2> QED BY <1>1, <2>1
<1>4. CASE ~(kept = "" \/ same = {})
  <2>1. (CHOOSE i \in same : \A j \in same : i <= j) \in same
    BY <1>1, <1>4, FirstPlace
  <2>2. PICK i \in same : Selected(opts) = i
    BY <1>2, <1>4, <2>1
  <2>3. i \in 0 .. Len(opts)
    BY <1>1
  <2> QED BY <2>2, <2>3
<1> QED BY <1>3, <1>4

\* what is offered, before a step and after it
LEMMA OptionsTyped == DbInv => options \in Seq(OptionRec) /\ used \in Nat /\ cur \in Cheats /\ used <= MaxLines
<1> SUFFICES ASSUME DbInv PROVE options \in Seq(OptionRec) /\ used \in Nat /\ cur \in Cheats /\ used <= MaxLines
  OBVIOUS
<1>1. OfferNow \in Offers
  BY OfferTyped DEF DbInv, DbTypes, Progress
<1> QED BY <1>1 DEF OfferNow, Offers, DbInv, DbTypes, Slices

\* a cheat is offered only while there is room for an option
LEMMA CommitRoom ==
  ASSUME NEW opts \in Seq(OptionRec), NEW c \in Cheats, NEW n \in Nat, Len(opts) <= MaxOptions
  PROVE  Len(opts) <= Len(Commit(c, opts, n)) /\ Len(Commit(c, opts, n)) <= MaxOptions /\ Len(Commit(c, opts, n)) \in Nat
<1> DEFINE e == [name |-> KeptName(c.name), off |-> n, cnt |-> c.lines]
<1>1. Len(opts) \in Nat /\ Len(Append(opts, e)) = Len(opts) + 1
  OBVIOUS
<1>2. Commit(c, opts, n) = IF Keep(c, opts, n) THEN Append(opts, e) ELSE opts
  BY DEF Commit
<1> HIDE DEF e
<1>3. CASE Keep(c, opts, n)
  <2>1. Len(opts) < MaxOptions /\ MaxOptions \in Nat
    BY <1>3, DbSizes DEF Keep
  <2> QED BY <1>1, <1>2, <1>3, <2>1
<1>4. CASE ~Keep(c, opts, n)
  BY <1>1, <1>2, <1>4
<1> QED BY <1>3, <1>4

\* the cheat that is read grows only up to what is kept of one
LEMMA CurRoom ==
  ASSUME DbInv, cur.lines <= MaxCheatLines, ReadLine
  PROVE  cur'.lines <= MaxCheatLines
<1>1. PICK c \in Cheats : c = cur
  BY DEF DbInv, DbTypes
<1>2. c.lines \in Nat /\ c.lines <= MaxCheatLines /\ MaxCheatLines \in Nat /\ 0 <= MaxCheatLines
  <2>1. c.lines \in Nat
    BY DEF Cheats
  <2>2. MaxCheatLines \in Nat /\ 0 <= MaxCheatLines
    BY DbSizes
  <2> QED BY <1>1, <2>1, <2>2
<1>3. PICK line \in Line : SectionLine(line) \/ CheatLine(line) \/ CodeLine(line)
  BY DEF ReadLine
<1>4. CASE cur' = NoCheat
  <2>1. NoCheat.lines = 0
    BY DEF NoCheat
  <2> QED BY <1>2, <1>4, <2>1
<1>5. CASE cur' = cur
  BY <1>1, <1>2, <1>5
<1>6. CASE CheatLine(line) /\ inGame
  <2>1. cur' = [NoCheat EXCEPT !.fps = line.fps, !.name = line.name]
    BY <1>6 DEF CheatLine
  <2>2. cur'.lines = 0
    BY <2>1 DEF NoCheat
  <2> QED BY <1>2, <2>2
<1>7. CASE CodeLine(line) /\ cur' # cur
  <2>1. CASE cur.lines >= MaxCheatLines
    <3>1. cur' = [c EXCEPT !.unsup = TRUE]
      BY <1>1, <1>7, <2>1 DEF CodeLine
    <3>2. cur'.lines = c.lines
      BY <3>1 DEF Cheats
    <3> QED BY <1>2, <3>2
  <2>2. CASE ~(cur.lines >= MaxCheatLines)
    <3>1. cur' = [c EXCEPT !.lines = @ + 1, !.unsup = @ \/ ~line.good, !.real = @ \/ line.real]
      BY <1>1, <1>7, <2>2 DEF CodeLine
    <3>2. cur'.lines = c.lines + 1
      BY <3>1 DEF Cheats
    <3> QED BY <1>1, <1>2, <2>2, <3>2
  <2> QED BY <2>1, <2>2
<1> QED BY <1>3, <1>4, <1>5, <1>6, <1>7 DEF SectionLine, CheatLine

LEMMA OptionsStay == ASSUME DbInv, DbInv', OptionsInv, [DbNext]_dbVars PROVE OptionsInv'
<1>1. options \in Seq(OptionRec) /\ used \in Nat /\ cur \in Cheats
  BY OptionsTyped
<1>2. Len(options) <= MaxOptions /\ cur.lines <= MaxCheatLines /\ activeOption \in 0 .. Len(options) /\ Len(options) \in Nat
  BY <1>1 DEF OptionsInv
<1>3. PICK n \in Nat : n = Len(options')
  <2>1. OfferNow' \in Offers
    BY OfferTyped DEF DbInv, DbTypes, Progress
  <2>2. options' \in Seq(OptionRec)
    BY <2>1 DEF OfferNow, Offers
  <2> QED BY <2>2
<1>4. ASSUME options' = Commit(cur, options, used) PROVE Len(options) <= n /\ n <= MaxOptions
  BY <1>1, <1>2, <1>3, <1>4, CommitRoom
<1>5. CASE ReadLine
  <2>1. options' = options \/ options' = Commit(cur, options, used)
    BY <1>5 DEF ReadLine, SectionLine, CheatLine, CodeLine
  <2>2. Len(options) <= n /\ n <= MaxOptions
    BY <1>2, <1>3, <1>4, <2>1
  <2>3. activeOption' = activeOption
    BY <1>5 DEF ReadLine
  <2>4. cur'.lines <= MaxCheatLines
    BY <1>2, <1>5, CurRoom
  <2> QED BY <1>2, <1>3, <2>2, <2>3, <2>4 DEF OptionsInv
<1>6. CASE Finish
  <2>1. options' = Commit(cur, options, used) /\ cur' = NoCheat /\ activeOption' = Selected(options')
    BY <1>6 DEF Finish
  <2>2. options' \in Seq(OptionRec)
    <3>1. OfferNow' \in Offers
      BY OfferTyped DEF DbInv, DbTypes, Progress
    <3> QED BY <3>1 DEF OfferNow, Offers
  <2>3. Selected(options') \in 0 .. Len(options')
    BY <2>2, SelectedIsOne
  <2>4. NoCheat.lines <= MaxCheatLines
    BY DbSizes DEF NoCheat
  <2> QED BY <1>3, <1>4, <2>1, <2>3, <2>4 DEF OptionsInv
<1>7. CASE CycleOption
  <2>1. options' = options /\ cur' = cur /\ \E dir \in {-1, 1} : activeOption' = Cycled(dir)
    BY <1>7 DEF CycleOption
  <2>2. activeOption' \in 0 .. Len(options)
    BY <1>2, <2>1 DEF Cycled
  <2> QED BY <1>2, <2>1, <2>2 DEF OptionsInv
<1>8. CASE Reboot
  <2>1. options' = options /\ cur' = cur /\ activeOption' = Selected(options)
    BY <1>8 DEF Reboot
  <2>2. Selected(options) \in 0 .. Len(options)
    BY <1>1, SelectedIsOne
  <2> QED BY <1>2, <2>1, <2>2 DEF OptionsInv
<1>9. CASE UNCHANGED dbVars
  BY <1>2, <1>9 DEF dbVars, OptionsInv
<1> QED BY <1>5, <1>6, <1>7, <1>8, <1>9 DEF DbNext

LEMMA OptionsBegin == DbInit => OptionsInv
<1> SUFFICES ASSUME DbInit PROVE OptionsInv
  OBVIOUS
<1>1. options = <<>> /\ activeOption = 0 /\ cur.lines = 0
  BY DEF DbInit, NoCheat
<1>2. Len(<<>>) = 0
  OBVIOUS
<1> QED BY <1>1, <1>2, DbSizes DEF OptionsInv

LEMMA DbTyped == DbInv /\ OptionsInv => DbTypeOK
<1> SUFFICES ASSUME DbInv, OptionsInv PROVE DbTypeOK
  OBVIOUS
<1>1. options \in Seq(OptionRec) /\ used \in Nat /\ cur \in Cheats /\ used <= MaxLines /\ dbStage \in {"reading", "ready"}
  BY OptionsTyped DEF DbInv, DbTypes
<1>2. cur.lines \in Nat /\ Len(options) \in Nat /\ MaxOptions \in Nat /\ MaxLines \in Nat /\ MaxCheatLines \in Nat
  <2>1. cur.lines \in Nat
    BY <1>1 DEF Cheats
  <2>2. Len(options) \in Nat
    BY <1>1
  <2>3. MaxOptions \in Nat /\ MaxLines \in Nat /\ MaxCheatLines \in Nat
    BY DbSizes
  <2> QED BY <2>1, <2>2, <2>3
<1> QED BY <1>1, <1>2 DEF OptionsInv, DbTypeOK

\* For every database: no more options than the menu has room for, no more code than the pool or a
\* cheat may have, and the active option is Stock or one of them, across a boot and a kept name
\* the database no longer knows (commit_cur, proc_line, cheats_load_selection, cheats_fps_cycle).
THEOREM DbTypesHold == DbSpec => []DbTypeOK
<1>1. OptionsInv /\ DbInv /\ DbInv' /\ [DbNext]_dbVars => OptionsInv'
  BY OptionsStay
<1> QED
  BY <1>1, OptionsBegin, DbTyped, DbInvHolds, PTL DEF DbSpec
===============================================================================
