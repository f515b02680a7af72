------------------------------ MODULE WireProofs ------------------------------
(***************************************************************************)
(* Theorems about what travels over a connection: its bytes (Framing) and  *)
(* its touches (TouchInput).  Both are defined by recursion over sequences *)
(* of any length, so the first part is about recursion and induction: the  *)
(* library's theorems on them take operators, which no prover here can     *)
(* instantiate; the same facts about sets and functions, derived from the  *)
(* well-foundedness of < on Nat, can be cited.                             *)
(***************************************************************************)
EXTENDS Framing, TouchInput, WellFoundedInduction, SequenceTheorems, TLAPS

-----------------------------------------------------------------------------
(* Induction and recursion *)

\* A set of natural numbers that is not empty has a least element.
LEMMA LeastNumber ==
  ASSUME NEW S \in SUBSET Nat, S # {}
  PROVE  \E n \in S : \A m \in S : n <= m
<1>. DEFINE R == OpToRel(<, Nat)
<1>1. \A x, y \in Nat : x < y => <<x, y>> \in R
  BY DEF OpToRel
<1>2. IsWellFoundedOn(R, Nat)
  BY NatLessThanWellFounded
<1>. HIDE DEF R
<1>3. PICK n \in S : \A m \in S : <<m, n>> \notin R
  BY <1>2, WFMin
<1>4. ASSUME NEW m \in S PROVE n <= m
  <2>1. ~ (m < n)
    BY <1>1, <1>3
  <2>. QED BY <2>1
<1>. QED BY <1>4

\* A set with 0 and with the successors of its members has all numbers.
LEMMA Induction ==
  ASSUME NEW S, 0 \in S, \A n \in Nat : n \in S => n + 1 \in S
  PROVE  Nat \subseteq S
<1>1. SUFFICES ASSUME Nat \ S # {} PROVE FALSE
  OBVIOUS
<1>2. PICK n \in Nat \ S : \A m \in Nat \ S : n <= m
  BY <1>1, LeastNumber
<1>3. n # 0 /\ n - 1 \in Nat /\ n - 1 \in S
  BY <1>2
<1>. QED BY <1>2, <1>3

\* g takes N steps of F.
Repeats(g, N, F) == \A i \in 1..N : g[i] = F[<<i, g[i - 1]>>]

\* h begins like g, and goes on like g wherever it has done so.
Follows(h, g, N) ==
    /\ h[0] = g[0]
    /\ \A i \in 1..N : h[i - 1] = g[i - 1] => h[i] = g[i]

\* Repeating a step N times defines a function.
LEMMA Recursion ==
  ASSUME NEW T, NEW c \in T, NEW N \in Nat, NEW F \in [(1..N) \X T -> T]
  PROVE  \E g \in [0..N -> T] : g[0] = c /\ Repeats(g, N, F)
<1>. DEFINE Good(g, m) == g[0] = c /\ \A i \in 1..m : g[i] = F[<<i, g[i - 1]>>]
            S == {m \in Nat : m <= N => \E g \in [0..N -> T] : Good(g, m)}
<1>1. 0 \in S
  <2>1. [i \in 0..N |-> c] \in [0..N -> T] /\ Good([i \in 0..N |-> c], 0)
    OBVIOUS
  <2>. HIDE DEF Good
  <2>. QED BY <2>1
<1>2. ASSUME NEW m \in Nat, m \in S PROVE m + 1 \in S
  <2>1. SUFFICES ASSUME m + 1 <= N PROVE \E g \in [0..N -> T] : Good(g, m + 1)
    OBVIOUS
  <2>2. PICK g \in [0..N -> T] : Good(g, m)
    BY <1>2, <2>1
  <2>. DEFINE f == [g EXCEPT ![m + 1] = F[<<m + 1, g[m]>>]]
  <2>3. m \in 0..N /\ m + 1 \in 1..N /\ m + 1 \in 0..N /\ g[m] \in T
    BY <2>1, <2>2
  <2>4. f \in [0..N -> T]
    BY <2>3
  <2>5. f[m + 1] = F[<<m + 1, g[m]>>] /\ \A i \in 0..m : f[i] = g[i]
    BY <2>1, <2>3
  <2>. HIDE DEF f
  <2>6. Good(f, m + 1)
    <3>1. f[0] = c
      BY <2>2, <2>5
    <3>2. ASSUME NEW i \in 1..m + 1 PROVE f[i] = F[<<i, f[i - 1]>>]
      <4>1. CASE i = m + 1
        <5>1. f[m] = g[m] /\ i - 1 = m
          BY <2>5, <4>1
        <5>. QED BY <2>5, <4>1, <5>1
      <4>2. CASE i # m + 1
        <5>1. i \in 1..m /\ i \in 0..m /\ i - 1 \in 0..m
          BY <4>2
        <5>2. f[i] = g[i] /\ f[i - 1] = g[i - 1]
          BY <2>5, <5>1
        <5>. QED BY <2>2, <5>1, <5>2
      <4>. QED BY <4>1, <4>2
    <3>. QED BY <3>1, <3>2
  <2>. QED BY <2>4, <2>6
<1>3. PICK g \in [0..N -> T] : Good(g, N)
  <2>. HIDE DEF S
  <2>1. N \in S
    BY <1>1, <1>2, Induction
  <2>. QED BY <2>1 DEF S
<1>. QED BY <1>3 DEF Repeats

\* It is the only one that takes these steps.
LEMMA RecursionUnique ==
  ASSUME NEW N \in Nat, NEW g, NEW h, Follows(h, g, N)
  PROVE  \A i \in 0..N : h[i] = g[i]
<1>. DEFINE E == {i \in Nat : i <= N => h[i] = g[i]}
<1>1. 0 \in E
  BY DEF Follows
<1>2. ASSUME NEW m \in Nat, m \in E PROVE m + 1 \in E
  <2>1. CASE m + 1 <= N
    <3>1. h[m] = g[m] /\ m + 1 \in 1..N /\ (m + 1) - 1 = m
      BY <1>2, <2>1
    <3>. QED BY <3>1 DEF Follows
  <2>. QED BY <2>1
<1>3. Nat \subseteq E
  <2>. HIDE DEF E
  <2>. QED BY <1>1, <1>2, Induction
<1>. QED BY <1>3

-----------------------------------------------------------------------------
(* TouchInput: what events do to touches *)

Touches == UNION {[D -> 0..Scale * DisplayWidth] : D \in SUBSET Fingers}

LEMMA Sizes ==
  /\ Places \subseteq Int
  /\ MaxFingers \in Nat \ {0} /\ ViewWidth \in Nat \ {0} /\ Scale \in Nat \ {0}
  /\ DisplayWidth \in Nat \ {0} /\ MaxQueue \in Nat \ {0} /\ MaxWire \in Nat \ {0}
  /\ MaxSessions \in Nat \ {0}
BY SizesAssumption

\* A greater factor, a greater product.
LEMMA Monotone ==
  ASSUME NEW a \in Int, NEW b \in Int, NEW c \in Nat, a <= b
  PROVE  a * c <= b * c
<1>1. (b - a) * c >= 0
  OBVIOUS
<1>2. (b - a) * c = b * c - a * c
  OBVIOUS
<1>. QED BY <1>1, <1>2

\* A coordinate is on the scale, and less than a step of it away from the finger.
THEOREM NormalizedIsNear ==
  ASSUME NEW x \in Places
  PROVE  Normalized(x) \in 0..Scale /\ At(ToDisplay(Normalized(x)), x)
<1>. DEFINE q == (x * Scale) \div ViewWidth
            n == Normalized(x)
<1>1. /\ x \in Int /\ x * Scale \in Int /\ q \in Int
      /\ ViewWidth * q <= x * Scale /\ x * Scale < ViewWidth * q + ViewWidth
  BY Sizes
<1>2. n = IF q < 0 THEN 0 ELSE IF q > Scale THEN Scale ELSE q
  BY DEF Normalized
<1>. HIDE DEF q, n
<1>3. n \in 0..Scale /\ n \in Int
  BY <1>1, <1>2, Sizes
<1>4. /\ Inside(x) \in Int
      /\ n * ViewWidth <= Inside(x) * Scale
      /\ Inside(x) * Scale < n * ViewWidth + ViewWidth
  <2>1. CASE x < 0
    <3>1. x * Scale < 0
      BY <1>1, <2>1, Sizes
    <3>2. q < 0
      BY <1>1, <3>1, Sizes
    <3>. QED BY <1>2, <2>1, <3>2, Sizes DEF Inside
  <2>2. CASE x > ViewWidth
    <3>1. x * Scale >= (ViewWidth + 1) * Scale
      BY <1>1, <2>2, Monotone, Sizes
    <3>2. ViewWidth * q + ViewWidth > ViewWidth * Scale
      BY <1>1, <3>1, Sizes
    <3>3. q >= Scale
      BY <1>1, <3>2, Sizes
    <3>4. n = Scale
      BY <1>1, <1>2, <3>3, Sizes
    <3>. QED BY <2>2, <3>4, Sizes, <1>1 DEF Inside
  <2>3. CASE 0 <= x /\ x <= ViewWidth
    <3>1. Inside(x) = x
      BY <1>1, <2>3, Sizes DEF Inside
    <3>2. x * Scale >= 0 /\ x * Scale <= ViewWidth * Scale
      BY <1>1, <2>3, Monotone, Sizes
    <3>3. q >= 0
      BY <1>1, <3>2, Sizes
    <3>4. q <= Scale
      BY <1>1, <3>2, Sizes
    <3>5. n = q
      BY <1>1, <1>2, <3>3, <3>4, Sizes
    <3>. QED BY <1>1, <3>1, <3>5, Sizes
  <2>. QED BY <1>1, <2>1, <2>2, <2>3, Sizes
<1>5. At(ToDisplay(n), x)
  <2>. DEFINE a == Inside(x) * Scale
              b == n * ViewWidth
  <2>1. a \in Int /\ b \in Int /\ 0 <= a - b /\ a - b < ViewWidth
    BY <1>3, <1>4, Sizes
  <2>. HIDE DEF a, b
  <2>2. 0 <= (a - b) * DisplayWidth /\ (a - b) * DisplayWidth < DisplayWidth * ViewWidth
    <3>1. (a - b) \in 0..ViewWidth - 1
      BY <2>1, Sizes
    <3>2. (a - b) * DisplayWidth <= (ViewWidth - 1) * DisplayWidth
      BY <3>1, Monotone, Sizes
    <3>. QED BY <3>1, <3>2, Sizes
  <2>3. Inside(x) * DisplayWidth * Scale - n * DisplayWidth * ViewWidth = (a - b) * DisplayWidth
    BY <1>3, <1>4, Sizes DEF a, b
  <2>. QED BY <2>2, <2>3 DEF At, ToDisplay
<1>. QED BY <1>3, <1>5 DEF n

\* Touches stay touches.
LEMMA InjectedType ==
  ASSUME NEW t \in Touches, NEW e \in Events
  PROVE  Injected(t, e) \in Touches
<1>1. DOMAIN t \subseteq Fingers /\ t \in [DOMAIN t -> 0..Scale * DisplayWidth]
  BY DEF Touches
<1>2. e.slot \in Fingers /\ e.x \in 0..Scale
  BY DEF Events
<1>3. ToDisplay(e.x) \in 0..Scale * DisplayWidth
  <2>1. e.x * DisplayWidth <= Scale * DisplayWidth
    BY <1>2, Monotone, Sizes
  <2>2. e.x * DisplayWidth \in Nat
    BY <1>2, Sizes
  <2>. QED BY <2>1, <2>2, Sizes DEF ToDisplay
<1>4. Without(t, e.slot) \in Touches
  <2>1. Without(t, e.slot) \in [DOMAIN t \ {e.slot} -> 0..Scale * DisplayWidth]
    BY <1>1 DEF Without
  <2>2. DOMAIN t \ {e.slot} \in SUBSET Fingers
    BY <1>1
  <2>. QED BY <2>1, <2>2 DEF Touches
<1>5. Put(t, e.slot, ToDisplay(e.x)) \in Touches
  <2>1. Put(t, e.slot, ToDisplay(e.x)) \in [DOMAIN t \cup {e.slot} -> 0..Scale * DisplayWidth]
    BY <1>1, <1>3 DEF Put
  <2>2. DOMAIN t \cup {e.slot} \in SUBSET Fingers
    BY <1>1, <1>2
  <2>. QED BY <2>1, <2>2 DEF Touches
<1>. QED BY <1>4, <1>5 DEF Injected

\* AfterAll is what its recursion says.
LEMMA AfterAllDef ==
  ASSUME NEW t \in Touches, NEW s \in Seq(Events)
  PROVE  \E g \in [0..Len(s) -> Touches] :
            /\ g[0] = t
            /\ \A i \in 1..Len(s) : g[i] = Injected(g[i - 1], s[i])
            /\ AfterAll(t, s) = g[Len(s)]
<1>. DEFINE F == [p \in (1..Len(s)) \X Touches |-> Injected(p[2], s[p[1]])]
            Solves(g) ==
              g = [i \in 0..Len(s) |-> IF i = 0 THEN t ELSE Injected(g[i - 1], s[i])]
            h == CHOOSE g : Solves(g)
<1>1. Len(s) \in Nat
  OBVIOUS
<1>2. F \in [(1..Len(s)) \X Touches -> Touches]
  BY InjectedType
<1>3. \A i \in 1..Len(s), u \in Touches : F[<<i, u>>] = Injected(u, s[i])
  OBVIOUS
<1>. HIDE DEF F
<1>4. PICK g \in [0..Len(s) -> Touches] : g[0] = t /\ Repeats(g, Len(s), F)
  BY <1>1, <1>2, Recursion
<1>5. \A i \in 1..Len(s) : g[i] = Injected(g[i - 1], s[i])
  <2>1. \A i \in 1..Len(s) : i - 1 \in 0..Len(s)
    OBVIOUS
  <2>. QED BY <1>3, <1>4, <2>1 DEF Repeats
<1>6. Solves(g)
  BY <1>4, <1>5 DEF Repeats
<1>7. Solves(h)
  <2>. HIDE DEF Solves
  <2>. QED BY <1>6
<1>8. h[0] = t /\ \A i \in 1..Len(s) : h[i] = Injected(h[i - 1], s[i])
  <2>. HIDE DEF h
  <2>. QED BY <1>1, <1>7
<1>9. h[Len(s)] = g[Len(s)]
  <2>. HIDE DEF h
  <2>1. Follows(h, g, Len(s))
    BY <1>4, <1>5, <1>8 DEF Follows
  <2>2. \A i \in 0..Len(s) : h[i] = g[i]
    BY <1>1, <2>1, RecursionUnique
  <2>. QED BY <1>1, <2>2
<1>10. AfterAll(t, s) = h[Len(s)]
  BY DEF AfterAll
<1>. QED BY <1>4, <1>5, <1>9, <1>10 DEF Repeats
\* No events change nothing.
LEMMA AfterAllEmpty ==
  ASSUME NEW t \in Touches
  PROVE  AfterAll(t, <<>>) = t
<1>1. <<>> \in Seq(Events) /\ Len(<<>>) = 0
  OBVIOUS
<1>2. PICK g \in [0..Len(<<>>) -> Touches] : g[0] = t /\ AfterAll(t, <<>>) = g[Len(<<>>)]
  BY <1>1, AfterAllDef
<1>. QED BY <1>1, <1>2

LEMMA AfterAllType ==
  ASSUME NEW t \in Touches, NEW s \in Seq(Events)
  PROVE  AfterAll(t, s) \in Touches
<1>1. Len(s) \in 0..Len(s)
  OBVIOUS
<1>. QED BY <1>1, AfterAllDef

\* g injects s, and h, d steps later, injects r, which is the same n events.
Lags(h, r, g, s, n, d) ==
    /\ h[d] = g[0]
    /\ \A i \in 1..n : /\ r[i + d] = s[i]
                       /\ g[i] = Injected(g[i - 1], s[i])
                       /\ h[i + d] = Injected(h[i + d - 1], r[i + d])

\* Then they agree in the end.
LEMMA SameSteps ==
  ASSUME NEW n \in Nat, NEW d \in Nat, NEW g, NEW h, NEW s, NEW r,
         Lags(h, r, g, s, n, d)
  PROVE  h[n + d] = g[n]
<1>. DEFINE E == {i \in Nat : i <= n => h[i + d] = g[i]}
<1>1. 0 \in E
  BY DEF Lags
<1>2. ASSUME NEW m \in Nat, m \in E PROVE m + 1 \in E
  <2>1. CASE m + 1 <= n
    <3>1. h[m + d] = g[m] /\ m + 1 \in 1..n /\ (m + 1) - 1 = m /\ (m + 1) + d - 1 = m + d
      BY <1>2, <2>1
    <3>2. /\ r[(m + 1) + d] = s[m + 1]
          /\ g[m + 1] = Injected(g[m], s[m + 1])
          /\ h[(m + 1) + d] = Injected(h[m + d], r[(m + 1) + d])
      BY <3>1 DEF Lags
    <3>. QED BY <3>1, <3>2
  <2>. QED BY <2>1
<1>3. Nat \subseteq E
  <2>. HIDE DEF E
  <2>. QED BY <1>1, <1>2, Induction
<1>. QED BY <1>3

\* A further event is injected last.
LEMMA AfterAllAppend ==
  ASSUME NEW t \in Touches, NEW s \in Seq(Events), NEW e \in Events
  PROVE  AfterAll(t, Append(s, e)) = Injected(AfterAll(t, s), e)
<1>. DEFINE r == Append(s, e)
            n == Len(s)
<1>1. /\ r \in Seq(Events) /\ Len(r) = n + 1 /\ n \in Nat
      /\ r[n + 1] = e /\ \A i \in 1..n : r[i] = s[i]
  OBVIOUS
<1>. HIDE DEF r
<1>2. PICK g \in [0..n -> Touches] :
        /\ g[0] = t
        /\ \A i \in 1..n : g[i] = Injected(g[i - 1], s[i])
        /\ AfterAll(t, s) = g[n]
  BY AfterAllDef
<1>3. PICK h \in [0..Len(r) -> Touches] :
        /\ h[0] = t
        /\ \A i \in 1..Len(r) : h[i] = Injected(h[i - 1], r[i])
        /\ AfterAll(t, r) = h[Len(r)]
  BY <1>1, AfterAllDef
<1>. HIDE DEF n
<1>4. h[n + 0] = g[n]
  <2>1. \A i \in 1..n : /\ i + 0 = i /\ i + 0 - 1 = i - 1 /\ i \in 1..Len(r)
    BY <1>1
  <2>2. Lags(h, r, g, s, n, 0)
    BY <1>1, <1>2, <1>3, <2>1 DEF Lags
  <2>. QED BY <1>1, <2>2, SameSteps
<1>5. h[n + 1] = Injected(h[n], e)
  <2>1. n + 1 \in 1..Len(r) /\ (n + 1) - 1 = n
    BY <1>1
  <2>. QED BY <1>1, <1>3, <2>1
<1>6. n + 0 = n
  BY <1>1
<1>. QED BY <1>1, <1>2, <1>3, <1>4, <1>5, <1>6 DEF r

\* The first event may as well have been injected already.
LEMMA AfterAllTail ==
  ASSUME NEW t \in Touches, NEW r \in Seq(Events), r # <<>>
  PROVE  AfterAll(Injected(t, Head(r)), Tail(r)) = AfterAll(t, r)
<1>. DEFINE s == Tail(r)
            n == Len(s)
            u == Injected(t, Head(r))
<1>1. /\ s \in Seq(Events) /\ Len(r) = n + 1 /\ n \in Nat
      /\ r[1] = Head(r) /\ Head(r) \in Events /\ \A i \in 1..n : r[i + 1] = s[i]
  OBVIOUS
<1>. HIDE DEF s
<1>2. u \in Touches
  BY <1>1, InjectedType
<1>. HIDE DEF u
<1>3. PICK g \in [0..n -> Touches] :
        /\ g[0] = u
        /\ \A i \in 1..n : g[i] = Injected(g[i - 1], s[i])
        /\ AfterAll(u, s) = g[n]
  BY <1>1, <1>2, AfterAllDef
<1>4. PICK h \in [0..Len(r) -> Touches] :
        /\ h[0] = t
        /\ \A i \in 1..Len(r) : h[i] = Injected(h[i - 1], r[i])
        /\ AfterAll(t, r) = h[Len(r)]
  BY AfterAllDef
<1>. HIDE DEF n
<1>5. h[1] = g[0]
  <2>1. 1 \in 1..Len(r) /\ 1 - 1 = 0
    BY <1>1
  <2>. QED BY <1>1, <1>3, <1>4, <2>1 DEF u
<1>6. h[n + 1] = g[n]
  <2>1. \A i \in 1..n : i + 1 \in 1..Len(r)
    BY <1>1
  <2>2. Lags(h, r, g, s, n, 1)
    BY <1>1, <1>3, <1>4, <1>5, <2>1 DEF Lags
  <2>. QED BY <1>1, <2>2, SameSteps
<1>. QED BY <1>1, <1>3, <1>4, <1>6 DEF s, u

\* What one more finger adds to the events of a motion.
MovesStep(places, i, u) ==
    IF i - 1 \in DOMAIN places
      THEN Append(u, Event("move", i - 1, Normalized(places[i - 1])))
      ELSE u

\* Moves is what its recursion says.
LEMMA MovesDef ==
  ASSUME NEW places, places \in [DOMAIN places -> Places]
  PROVE  \E g \in [0..MaxFingers -> Seq(Events)] :
            /\ g[0] = <<>>
            /\ \A i \in 1..MaxFingers : g[i] = MovesStep(places, i, g[i - 1])
            /\ Moves(places) = g[MaxFingers]
<1>. DEFINE F == [p \in (1..MaxFingers) \X Seq(Events) |-> MovesStep(places, p[1], p[2])]
            Solves(g) ==
              g = [n \in 0..MaxFingers |->
                     IF n = 0 THEN <<>>
                     ELSE IF n - 1 \in DOMAIN places
                     THEN Append(g[n - 1], Event("move", n - 1, Normalized(places[n - 1])))
                     ELSE g[n - 1]]
            h == CHOOSE g : Solves(g)
<1>1. MaxFingers \in Nat /\ <<>> \in Seq(Events)
  BY Sizes
<1>2. ASSUME NEW i \in 1..MaxFingers, NEW u \in Seq(Events)
      PROVE  MovesStep(places, i, u) \in Seq(Events)
  <2>1. CASE i - 1 \in DOMAIN places
    <3>1. i - 1 \in Fingers /\ Normalized(places[i - 1]) \in 0..Scale
      BY <1>1, <2>1, NormalizedIsNear DEF Fingers
    <3>2. Event("move", i - 1, Normalized(places[i - 1])) \in Events
      BY <3>1 DEF Event, Events
    <3>. QED BY <2>1, <3>2 DEF MovesStep
  <2>2. CASE i - 1 \notin DOMAIN places
    BY <2>2 DEF MovesStep
  <2>. QED BY <2>1, <2>2
<1>3. F \in [(1..MaxFingers) \X Seq(Events) -> Seq(Events)]
  BY <1>2
<1>4. \A i \in 1..MaxFingers, u \in Seq(Events) : F[<<i, u>>] = MovesStep(places, i, u)
  OBVIOUS
<1>. HIDE DEF F
<1>5. PICK g \in [0..MaxFingers -> Seq(Events)] : g[0] = <<>> /\ Repeats(g, MaxFingers, F)
  BY <1>1, <1>3, Recursion
<1>6. g[0] = <<>> /\ \A i \in 1..MaxFingers : g[i] = MovesStep(places, i, g[i - 1])
  <2>1. \A i \in 1..MaxFingers : i - 1 \in 0..MaxFingers
    BY <1>1
  <2>. QED BY <1>4, <1>5, <2>1 DEF Repeats
<1>7. Solves(g)
  <2>1. ASSUME NEW n \in 0..MaxFingers
        PROVE  g[n] = IF n = 0 THEN <<>>
                      ELSE IF n - 1 \in DOMAIN places
                      THEN Append(g[n - 1], Event("move", n - 1, Normalized(places[n - 1])))
                      ELSE g[n - 1]
    <3>1. n # 0 => n \in 1..MaxFingers
      BY <1>1
    <3>. QED BY <1>6, <3>1 DEF MovesStep
  <2>. QED BY <2>1
<1>8. Solves(h)
  <2>. HIDE DEF Solves
  <2>. QED BY <1>7
<1>9. h[0] = <<>> /\ \A i \in 1..MaxFingers : h[i] = MovesStep(places, i, h[i - 1])
  <2>. HIDE DEF h
  <2>1. ASSUME NEW n \in 0..MaxFingers
        PROVE  h[n] = IF n = 0 THEN <<>>
                      ELSE IF n - 1 \in DOMAIN places
                      THEN Append(h[n - 1], Event("move", n - 1, Normalized(places[n - 1])))
                      ELSE h[n - 1]
    BY <1>8
  <2>2. 0 \in 0..MaxFingers /\ \A i \in 1..MaxFingers : i \in 0..MaxFingers /\ i # 0
    BY <1>1
  <2>. QED BY <2>1, <2>2 DEF MovesStep
<1>10. h[MaxFingers] = g[MaxFingers]
  <2>. HIDE DEF h
  <2>1. Follows(h, g, MaxFingers)
    BY <1>5, <1>6, <1>9 DEF Follows
  <2>2. \A i \in 0..MaxFingers : h[i] = g[i]
    BY <1>1, <2>1, RecursionUnique
  <2>. QED BY <1>1, <2>2
<1>11. Moves(places) = h[MaxFingers]
  BY DEF Moves
<1>. QED BY <1>6, <1>10, <1>11

\* A motion takes every touch that is down, and whose finger is, to its finger.
LEMMA AfterMoves ==
  ASSUME NEW places, places \in [DOMAIN places -> Places],
         NEW t \in Touches, NEW s \in Seq(Events)
  PROVE  /\ Moves(places) \in Seq(Events)
         /\ DOMAIN AfterAll(t, s \o Moves(places)) = DOMAIN AfterAll(t, s)
         /\ \A f \in DOMAIN AfterAll(t, s) :
               AfterAll(t, s \o Moves(places))[f] =
                  IF f \in DOMAIN places THEN ToDisplay(Normalized(places[f]))
                                         ELSE AfterAll(t, s)[f]
<1>. DEFINE A == AfterAll(t, s)
            X(f) == ToDisplay(Normalized(places[f]))
<1>1. PICK g \in [0..MaxFingers -> Seq(Events)] :
        /\ g[0] = <<>>
        /\ \A i \in 1..MaxFingers : g[i] = MovesStep(places, i, g[i - 1])
        /\ Moves(places) = g[MaxFingers]
  BY MovesDef
<1>. DEFINE B(n) == AfterAll(t, s \o g[n])
            Right(n) == /\ DOMAIN B(n) = DOMAIN A
                        /\ \A f \in DOMAIN A :
                              B(n)[f] = IF f \in DOMAIN places /\ f < n THEN X(f) ELSE A[f]
            E == {n \in Nat : n <= MaxFingers => Right(n)}
<1>2. A \in Touches /\ DOMAIN A \subseteq Fingers
  BY AfterAllType DEF Touches
<1>3. 0 \in E
  <2>1. s \o g[0] = s
    BY <1>1
  <2>2. \A f \in DOMAIN A : ~ (f < 0)
    BY <1>2, Sizes DEF Fingers
  <2>. QED BY <2>1, <2>2
<1>4. ASSUME NEW m \in Nat, m \in E PROVE m + 1 \in E
  <2>1. SUFFICES ASSUME m + 1 <= MaxFingers PROVE Right(m + 1)
    OBVIOUS
  <2>2. /\ m \in 0..MaxFingers /\ m + 1 \in 1..MaxFingers /\ (m + 1) - 1 = m
        /\ g[m] \in Seq(Events) /\ Right(m) /\ m \in Fingers
    BY <1>1, <1>4, <2>1, Sizes DEF Fingers
  <2>3. g[m + 1] = MovesStep(places, m + 1, g[m])
    BY <1>1, <2>2
  <2>4. CASE m \notin DOMAIN places
    <3>1. g[m + 1] = g[m]
      BY <2>2, <2>3, <2>4 DEF MovesStep
    <3>2. \A f \in DOMAIN A : f \in DOMAIN places => (f < m + 1 <=> f < m)
      BY <1>2, <2>2, <2>4, Sizes DEF Fingers
    <3>. QED BY <2>2, <3>1, <3>2
  <2>5. CASE m \in DOMAIN places
    <3>. DEFINE e == Event("move", m, Normalized(places[m]))
    <3>1. Normalized(places[m]) \in 0..Scale
      BY <2>5, NormalizedIsNear
    <3>2. e \in Events /\ e.type = "move" /\ e.slot = m /\ ToDisplay(e.x) = X(m)
      BY <2>2, <3>1 DEF Event, Events
    <3>3. g[m + 1] = Append(g[m], e)
      BY <2>2, <2>3, <2>5 DEF MovesStep
    <3>. HIDE DEF e
    <3>4. s \o g[m + 1] = Append(s \o g[m], e) /\ s \o g[m] \in Seq(Events)
      BY <2>2, <3>2, <3>3
    <3>5. B(m + 1) = Injected(B(m), e)
      BY <3>2, <3>4, AfterAllAppend
    <3>. HIDE DEF A, B, X
    <3>6. CASE m \notin DOMAIN B(m)
      <4>1. B(m + 1) = B(m)
        BY <3>2, <3>5, <3>6 DEF Injected
      <4>2. \A f \in DOMAIN A : f < m + 1 <=> f < m
        BY <1>2, <2>2, <3>6, Sizes DEF Fingers
      <4>. QED BY <2>2, <4>1, <4>2
    <3>7. CASE m \in DOMAIN B(m)
      <4>1. B(m + 1) = Put(B(m), m, X(m))
        BY <3>2, <3>5, <3>7 DEF Injected
      <4>2. DOMAIN B(m + 1) = DOMAIN A
        BY <2>2, <3>7, <4>1 DEF Put
      <4>3. ASSUME NEW f \in DOMAIN A
            PROVE  B(m + 1)[f] = IF f \in DOMAIN places /\ f < m + 1 THEN X(f) ELSE A[f]
        <5>1. CASE f = m
          <6>1. B(m + 1)[f] = X(m)
            BY <2>2, <3>7, <4>1, <5>1 DEF Put
          <6>. QED BY <2>2, <2>5, <5>1, <6>1
        <5>2. CASE f # m
          <6>1. B(m + 1)[f] = B(m)[f]
            BY <2>2, <4>1, <5>2 DEF Put
          <6>2. f < m + 1 <=> f < m
            BY <1>2, <2>2, <5>2, Sizes DEF Fingers
          <6>. QED BY <2>2, <6>1, <6>2
        <5>. QED BY <5>1, <5>2
      <4>. QED BY <4>2, <4>3
    <3>. QED BY <3>6, <3>7
  <2>. QED BY <2>4, <2>5
<1>5. Right(MaxFingers)
  <2>1. Nat \subseteq E
    <3>. HIDE DEF E
    <3>. QED BY <1>3, <1>4, Induction
  <2>. QED BY <2>1, Sizes
<1>6. \A f \in DOMAIN A : f < MaxFingers
  BY <1>2, Sizes DEF Fingers
<1>7. Moves(places) \in Seq(Events)
  BY <1>1, Sizes
<1>. QED BY <1>1, <1>5, <1>6, <1>7

-----------------------------------------------------------------------------
(* TouchInput: the invariant *)

\* What gestures and sessions leave behind: a gesture that is not delivered has no
\* finger of this session, and slots a CANCEL left down have no finger on them.
GestureInv ==
    /\ session = 0 => link = "off" /\ ~heard /\ strayed = {}
    /\ link = "off" => wire = <<>> /\ touches = NoTouch
    /\ ~heard => own = {}
    /\ ~heard /\ Down # {} => strayed = {}
    /\ 0 \notin strayed /\ strayed \cap Down = {}

TouchInv == TypeOK /\ GestureInv /\ HostFollows

Pending == wire \o queue[session]
Later   == AfterAll(touches, Pending)

\* HostFollows in these terms.
LEMMA FollowsDef ==
  HostFollows <=> (link = "open" => /\ DOMAIN Later = own \cup strayed
                                    /\ \A f \in own : At(Later[f], glass[f]))
BY DEF HostFollows, Later, Pending

LEMMA LeastIsIn ==
  ASSUME NEW S \in SUBSET Nat, S # {}
  PROVE  Least(S) \in S
BY LeastNumber DEF Least

LEMMA TouchesType ==
  ASSUME TypeOK
  PROVE  /\ touches \in Touches
         /\ session # 0 => session \in Sessions /\ queue[session] \in Seq(Events)
                           /\ Pending \in Seq(Events)
<1>1. touches \in Touches
  BY DEF TypeOK, Touches
<1>2. ASSUME session # 0
      PROVE  session \in Sessions /\ queue[session] \in Seq(Events)
  BY <1>2, Sizes DEF TypeOK, Sessions
<1>3. ASSUME session # 0 PROVE Pending \in Seq(Events)
  <2>. DEFINE q == queue[session]
  <2>1. wire \in Seq(Events) /\ q \in Seq(Events)
    BY <1>2, <1>3 DEF TypeOK
  <2>. HIDE DEF q
  <2>2. wire \o q \in Seq(Events)
    BY <2>1
  <2>. QED BY <2>2 DEF Pending, q
<1>. QED BY <1>1, <1>2, <1>3

\* Events that are heard go to the end of the queue, and are injected last.
LEMMA Enqueued ==
  ASSUME TypeOK, session # 0, NEW es \in Seq(Events),
         Enqueue(TRUE, es), UNCHANGED <<session, wire, touches>>
  PROVE  /\ queue' \in [Sessions -> Seq(Events)]
         /\ \A s \in Sessions : s > session' => queue'[s] = <<>>
         /\ Later' = AfterAll(touches, Pending \o es)
<1>. DEFINE q == queue[session]
<1>1. session \in Sessions /\ q \in Seq(Events) /\ wire \in Seq(Events)
  BY TouchesType DEF TypeOK
<1>2. queue' = [queue EXCEPT ![session] = q \o es]
  BY DEF Enqueue
<1>3. q \o es \in Seq(Events)
  BY <1>1
<1>4. queue' \in [Sessions -> Seq(Events)] /\ queue'[session] = q \o es
  BY <1>1, <1>2, <1>3 DEF TypeOK
<1>5. \A s \in Sessions : s > session' => queue'[s] = <<>>
  <2>1. ASSUME NEW s \in Sessions, s > session PROVE queue'[s] = <<>>
    <3>1. s # session /\ queue[s] = <<>>
      BY <1>1, <2>1 DEF TypeOK, Sessions
    <3>. QED BY <1>2, <3>1 DEF TypeOK
  <2>. QED BY <2>1
<1>. HIDE DEF q
<1>6. wire \o (q \o es) = (wire \o q) \o es
  BY <1>1, ConcatAssociative
<1>7. Pending' = Pending \o es
  BY <1>4, <1>6 DEF Pending, q
<1>. QED BY <1>4, <1>5, <1>7 DEF Later

LEMMA TouchInit ==
  Init => TouchInv
<1>. SUFFICES ASSUME Init PROVE TouchInv
  OBVIOUS
<1>1. DOMAIN NoTouch = {} /\ NoTouch \in [{} -> Places]
      /\ NoTouch \in [{} -> 0..Scale * DisplayWidth]
  BY DEF NoTouch
<1>2. TypeOK
  <2>1. Down = {} /\ glass \in [Down -> Places]
    BY <1>1 DEF Init, Down
  <2>2. DOMAIN touches = {} /\ touches \in [{} -> 0..Scale * DisplayWidth]
    BY <1>1 DEF Init
  <2>3. <<>> \in Seq(Events) /\ queue = [s \in Sessions |-> <<>>]
    BY DEF Init
  <2>4. queue \in [Sessions -> Seq(Events)] /\ \A s \in Sessions : queue[s] = <<>>
    BY <2>3
  <2>5. session \in 0..MaxSessions /\ wire = <<>> /\ Len(wire) <= MaxWire
    BY Sizes DEF Init
  <2>. QED BY <2>1, <2>2, <2>3, <2>4, <2>5 DEF Init, TypeOK
<1>3. GestureInv
  BY <1>1 DEF Init, GestureInv, Down
<1>4. HostFollows
  BY DEF Init, HostFollows
<1>. QED BY <1>2, <1>3, <1>4 DEF TouchInv

LEMMA TouchDown ==
  TouchInv /\ FingerDown => TouchInv'
<1>. SUFFICES ASSUME TouchInv, FingerDown PROVE TouchInv'
  OBVIOUS
<1>. USE DEF TouchInv
<1>. DEFINE f == Least(Fingers \ Down)
<1>1. PICK x \in Places :
        /\ glass' = Put(glass, f, x)
        /\ heard' = IF Down = {} THEN session # 0 ELSE heard
        /\ Enqueue(heard', <<Event("down", f, Normalized(x))>>)
        /\ own' = IF heard' THEN own \cup {f} ELSE own
        /\ strayed' = IF heard' THEN strayed \ {f} ELSE strayed
  BY DEF FingerDown
<1>2. UNCHANGED <<session, link, wire, touches>>
  BY DEF FingerDown
<1>3. f \in Fingers /\ f \notin Down
  <2>1. Fingers \ Down \in SUBSET Nat /\ Fingers \ Down # {}
    <3>1. Fingers \subseteq Nat
      BY Sizes DEF Fingers
    <3>2. Down \subseteq Fingers /\ Down # Fingers
      BY DEF FingerDown, TypeOK
    <3>. QED BY <3>1, <3>2
  <2>. QED BY <2>1, LeastIsIn
<1>. HIDE DEF f
<1>4. /\ Down' = Down \cup {f} /\ glass' \in [Down' -> Places]
      /\ glass'[f] = x /\ \A g \in Down : glass'[g] = glass[g]
  BY <1>1, <1>3 DEF TypeOK, Put, Down
<1>. DEFINE e == Event("down", f, Normalized(x))
<1>5. /\ e \in Events /\ e.type = "down" /\ e.slot = f
      /\ At(ToDisplay(e.x), x)
  BY <1>3, NormalizedIsNear DEF Event, Events
<1>6. heard' \in BOOLEAN /\ (heard' => session # 0)
  BY <1>1 DEF TypeOK, GestureInv
<1>. HIDE DEF e
<1>7. CASE ~heard'
  <2>1. UNCHANGED <<queue, own, strayed>>
    BY <1>1, <1>7 DEF Enqueue
  <2>2. own = {} /\ strayed = {}
    BY <1>1, <1>7, <1>3 DEF GestureInv, TypeOK
  <2>3. TypeOK'
    BY <1>2, <1>3, <1>4, <1>6, <2>1, <2>2 DEF TypeOK, Down
  <2>4. GestureInv'
    BY <1>2, <1>7, <2>1, <2>2 DEF GestureInv
  <2>5. HostFollows'
    BY <1>2, <2>1, <2>2, FollowsDef DEF HostFollows
  <2>. QED BY <2>3, <2>4, <2>5
<1>8. CASE heard'
  <2>1. Enqueue(TRUE, <<e>>) /\ own' = own \cup {f} /\ strayed' = strayed \ {f}
    BY <1>1, <1>8 DEF Enqueue, e
  <2>2. session # 0 /\ <<e>> \in Seq(Events)
    BY <1>5, <1>6, <1>8
  <2>3. /\ queue' \in [Sessions -> Seq(Events)]
        /\ \A s \in Sessions : s > session' => queue'[s] = <<>>
        /\ Later' = AfterAll(touches, Pending \o <<e>>)
    BY <1>2, <2>1, <2>2, Enqueued
  <2>4. TypeOK'
    BY <1>2, <1>3, <1>4, <1>6, <2>1, <2>3 DEF TypeOK, Down
  <2>5. GestureInv'
    BY <1>2, <1>4, <1>8, <2>1, <2>2 DEF GestureInv
  <2>6. Pending \in Seq(Events) /\ touches \in Touches
    BY <2>2, TouchesType
  <2>7. Later' = Injected(Later, e)
    <3>1. Pending \o <<e>> = Append(Pending, e)
      BY <1>5, <2>6
    <3>. QED BY <1>5, <2>3, <2>6, <3>1, AfterAllAppend DEF Later
  <2>8. Later' = Put(Later, f, ToDisplay(e.x))
    BY <1>5, <2>7 DEF Injected
  <2>9. HostFollows'
    <3>1. SUFFICES ASSUME link = "open"
                   PROVE  /\ DOMAIN Later' = own' \cup strayed'
                          /\ \A g \in own' : At(Later'[g], glass'[g])
      BY <1>2, FollowsDef DEF HostFollows, Later, Pending
    <3>2. DOMAIN Later = own \cup strayed /\ \A g \in own : At(Later[g], glass[g])
      BY <3>1, FollowsDef
    <3>3. DOMAIN Later' = own' \cup strayed'
      BY <2>1, <2>8, <3>2 DEF Put
    <3>4. ASSUME NEW g \in own' PROVE At(Later'[g], glass'[g])
      <4>1. CASE g = f
        BY <1>4, <1>5, <2>8, <4>1 DEF Put
      <4>2. CASE g # f
        BY <1>4, <2>1, <2>8, <3>2, <4>2 DEF Put, TypeOK
      <4>. QED BY <4>1, <4>2
    <3>. QED BY <3>3, <3>4
  <2>. QED BY <2>4, <2>5, <2>9
<1>. QED BY <1>6, <1>7, <1>8

LEMMA TouchMove ==
  TouchInv /\ Move => TouchInv'
<1>. SUFFICES ASSUME TouchInv, Move PROVE TouchInv'
  OBVIOUS
<1>. USE DEF TouchInv
<1>. DEFINE es == Moves(glass')
<1>1. /\ glass' \in [Down -> Places] /\ Enqueue(heard, es)
      /\ UNCHANGED <<heard, session, link, wire, touches, own, strayed>>
  BY DEF Move
<1>2. Down' = Down /\ DOMAIN glass' = Down
  BY <1>1 DEF Down
<1>3. Pending \in Seq(Events) /\ touches \in Touches
      => /\ es \in Seq(Events)
         /\ DOMAIN AfterAll(touches, Pending \o es) = DOMAIN Later
         /\ \A g \in DOMAIN Later :
               AfterAll(touches, Pending \o es)[g] =
                  IF g \in DOMAIN glass' THEN ToDisplay(Normalized(glass'[g])) ELSE Later[g]
  BY <1>1, <1>2, AfterMoves DEF Later
<1>. HIDE DEF es
<1>4. GestureInv'
  BY <1>1, <1>2 DEF GestureInv
<1>5. CASE ~heard
  <2>1. queue' = queue /\ own = {}
    BY <1>1, <1>5 DEF Enqueue, GestureInv
  <2>2. TypeOK'
    BY <1>1, <1>2, <2>1 DEF TypeOK
  <2>3. HostFollows'
    BY <1>1, <2>1, FollowsDef DEF HostFollows
  <2>. QED BY <1>4, <2>2, <2>3
<1>6. CASE heard
  <2>1. session # 0 /\ Enqueue(TRUE, es)
    BY <1>1, <1>6 DEF GestureInv, Enqueue
  <2>2. Pending \in Seq(Events) /\ touches \in Touches
    BY <2>1, TouchesType
  <2>3. /\ queue' \in [Sessions -> Seq(Events)]
        /\ \A s \in Sessions : s > session' => queue'[s] = <<>>
        /\ Later' = AfterAll(touches, Pending \o es)
    BY <1>1, <1>3, <2>1, <2>2, Enqueued
  <2>4. TypeOK'
    BY <1>1, <1>2, <2>3 DEF TypeOK
  <2>5. HostFollows'
    <3>1. SUFFICES ASSUME link = "open"
                   PROVE  /\ DOMAIN Later' = own' \cup strayed'
                          /\ \A g \in own' : At(Later'[g], glass'[g])
      BY <1>1, FollowsDef DEF HostFollows, Later, Pending
    <3>2. DOMAIN Later = own \cup strayed
      BY <3>1, FollowsDef
    <3>3. ASSUME NEW g \in own' PROVE At(Later'[g], glass'[g])
      <4>1. g \in Down /\ g \in DOMAIN Later /\ glass'[g] \in Places
        BY <1>1, <3>2 DEF TypeOK
      <4>2. Later'[g] = ToDisplay(Normalized(glass'[g]))
        BY <1>2, <1>3, <2>2, <2>3, <4>1
      <4>. QED BY <4>1, <4>2, NormalizedIsNear
    <3>. QED BY <1>1, <1>3, <2>2, <2>3, <3>2, <3>3
  <2>. QED BY <1>4, <2>4, <2>5
<1>. QED BY <1>5, <1>6 DEF TypeOK

\* The end of one finger, by an event that lifts slot f.
LEMMA Lifted ==
  ASSUME TypeOK, session # 0, NEW e \in Events, e.type \in {"up", "cancel"},
         Enqueue(TRUE, <<e>>), UNCHANGED <<session, wire, touches>>
  PROVE  /\ queue' \in [Sessions -> Seq(Events)]
         /\ \A s \in Sessions : s > session' => queue'[s] = <<>>
         /\ DOMAIN Later' = DOMAIN Later \ {e.slot}
         /\ \A g \in DOMAIN Later' : Later'[g] = Later[g]
<1>1. <<e>> \in Seq(Events) /\ Pending \in Seq(Events) /\ touches \in Touches
  BY TouchesType
<1>2. /\ queue' \in [Sessions -> Seq(Events)]
      /\ \A s \in Sessions : s > session' => queue'[s] = <<>>
      /\ Later' = AfterAll(touches, Pending \o <<e>>)
  BY <1>1, Enqueued
<1>3. Pending \o <<e>> = Append(Pending, e)
  BY <1>1
<1>4. Later' = Injected(Later, e)
  BY <1>1, <1>2, <1>3, AfterAllAppend DEF Later
<1>5. Later' = Without(Later, e.slot)
  BY <1>4 DEF Injected
<1>. QED BY <1>2, <1>5 DEF Without

LEMMA TouchUp ==
  TouchInv /\ FingerUp => TouchInv'
<1>. SUFFICES ASSUME TouchInv, FingerUp PROVE TouchInv'
  OBVIOUS
<1>. USE DEF TouchInv
<1>1. PICK f \in Down :
        /\ glass' = Without(glass, f)
        /\ Enqueue(heard, <<Event("up", f, Normalized(glass[f]))>>)
        /\ heard' = (heard /\ Down # {f})
        /\ own' = own \ {f}
  BY DEF FingerUp
<1>2. UNCHANGED <<session, link, wire, touches, strayed>>
  BY DEF FingerUp
<1>. DEFINE e == Event("up", f, Normalized(glass[f]))
<1>3. e \in Events /\ e.type = "up" /\ e.slot = f
  <2>1. f \in Fingers /\ glass[f] \in Places
    BY DEF TypeOK
  <2>. QED BY <2>1, NormalizedIsNear DEF Event, Events
<1>. HIDE DEF e
<1>4. /\ Down' = Down \ {f} /\ glass' \in [Down' -> Places]
      /\ \A g \in Down' : glass'[g] = glass[g]
  BY <1>1 DEF TypeOK, Without, Down
<1>5. heard' \in BOOLEAN /\ (heard' => heard) /\ (heard /\ ~heard' => Down' = {})
  BY <1>1, <1>4 DEF TypeOK
<1>6. own' \subseteq Down' /\ strayed' \subseteq Fingers \ own' /\ Down' \subseteq Fingers
  BY <1>1, <1>2, <1>4 DEF TypeOK
<1>7. GestureInv'
  BY <1>1, <1>2, <1>4, <1>5, <1>6 DEF GestureInv
<1>8. CASE ~heard
  <2>1. queue' = queue /\ own = {} /\ own' = {}
    BY <1>1, <1>8 DEF Enqueue, GestureInv
  <2>2. TypeOK'
    BY <1>2, <1>4, <1>5, <1>6, <2>1 DEF TypeOK
  <2>3. HostFollows'
    BY <1>2, <2>1, FollowsDef DEF HostFollows
  <2>. QED BY <1>7, <2>2, <2>3
<1>9. CASE heard
  <2>1. session # 0 /\ Enqueue(TRUE, <<e>>)
    BY <1>1, <1>9 DEF GestureInv, Enqueue, e
  <2>2. /\ queue' \in [Sessions -> Seq(Events)]
        /\ \A s \in Sessions : s > session' => queue'[s] = <<>>
        /\ DOMAIN Later' = DOMAIN Later \ {f}
        /\ \A g \in DOMAIN Later' : Later'[g] = Later[g]
    BY <1>2, <1>3, <2>1, Lifted
  <2>3. TypeOK'
    BY <1>2, <1>4, <1>5, <1>6, <2>2 DEF TypeOK
  <2>4. HostFollows'
    <3>1. SUFFICES ASSUME link = "open"
                   PROVE  /\ DOMAIN Later' = own' \cup strayed'
                          /\ \A g \in own' : At(Later'[g], glass'[g])
      BY <1>2, FollowsDef DEF HostFollows, Later, Pending
    <3>2. DOMAIN Later = own \cup strayed /\ \A g \in own : At(Later[g], glass[g])
      BY <3>1, FollowsDef
    <3>3. f \notin strayed
      BY DEF GestureInv
    <3>4. DOMAIN Later' = own' \cup strayed'
      BY <1>1, <1>2, <2>2, <3>2, <3>3
    <3>. QED BY <1>1, <1>4, <1>6, <2>2, <3>2, <3>4
  <2>. QED BY <1>7, <2>3, <2>4
<1>. QED BY <1>8, <1>9 DEF TypeOK

LEMMA TouchCancel ==
  TouchInv /\ Cancel => TouchInv'
<1>. SUFFICES ASSUME TouchInv, Cancel PROVE TouchInv'
  OBVIOUS
<1>. USE DEF TouchInv
<1>. DEFINE e == Event("cancel", 0, 0)
<1>1. /\ glass' = NoTouch /\ heard' = FALSE /\ own' = {}
      /\ Enqueue(heard, <<e>>) /\ strayed' = strayed \cup (own \ {0})
      /\ UNCHANGED <<session, link, wire, touches>>
  BY DEF Cancel
<1>2. e \in Events /\ e.type = "cancel" /\ e.slot = 0
  BY Sizes DEF Event, Events, Fingers
<1>. HIDE DEF e
<1>3. Down' = {} /\ glass' \in [Down' -> Places]
  BY <1>1 DEF Down, NoTouch
<1>4. strayed' \subseteq Fingers \ own' /\ own' \subseteq Down' /\ Down' \subseteq Fingers
  BY <1>1, <1>3 DEF TypeOK
<1>5. GestureInv'
  BY <1>1, <1>3 DEF GestureInv
<1>6. CASE ~heard
  <2>1. queue' = queue /\ own = {} /\ strayed' = strayed
    BY <1>1, <1>6 DEF Enqueue, GestureInv
  <2>2. TypeOK'
    BY <1>1, <1>3, <1>4, <2>1 DEF TypeOK
  <2>3. HostFollows'
    BY <1>1, <2>1, FollowsDef DEF HostFollows
  <2>. QED BY <1>5, <2>2, <2>3
<1>7. CASE heard
  <2>1. session # 0 /\ Enqueue(TRUE, <<e>>)
    BY <1>1, <1>7 DEF GestureInv, Enqueue
  <2>2. /\ queue' \in [Sessions -> Seq(Events)]
        /\ \A s \in Sessions : s > session' => queue'[s] = <<>>
        /\ DOMAIN Later' = DOMAIN Later \ {0}
    BY <1>1, <1>2, <2>1, Lifted
  <2>3. TypeOK'
    BY <1>1, <1>3, <1>4, <2>2 DEF TypeOK
  <2>4. HostFollows'
    <3>1. SUFFICES ASSUME link = "open"
                   PROVE  DOMAIN Later' = own' \cup strayed'
      BY <1>1, FollowsDef DEF HostFollows, Later, Pending
    <3>2. DOMAIN Later = own \cup strayed
      BY <3>1, FollowsDef
    <3>3. 0 \notin strayed
      BY DEF GestureInv
    <3>. QED BY <1>1, <2>2, <3>2, <3>3
  <2>. QED BY <1>5, <2>3, <2>4
<1>. QED BY <1>6, <1>7 DEF TypeOK

LEMMA TouchSessions ==
  TouchInv /\ (Attach \/ CloseLink \/ HostEnds) => TouchInv'
<1>. SUFFICES ASSUME TouchInv, Attach \/ CloseLink \/ HostEnds PROVE TouchInv'
  OBVIOUS
<1>. USE DEF TouchInv
<1>1. CASE Attach
  <2>1. /\ link = "off" /\ session < MaxSessions /\ session' = session + 1 /\ link' = "open"
        /\ own' = {} /\ strayed' = {} /\ UNCHANGED <<glass, heard, queue, wire, touches>>
    BY <1>1 DEF Attach
  <2>2. session \in 0..MaxSessions /\ session' \in 0..MaxSessions /\ session' # 0
        /\ session' \in Sessions /\ session' > session
    BY <2>1, Sizes DEF TypeOK, Sessions
  <2>3. \A s \in Sessions : s > session' => s > session
    BY <2>1, <2>2 DEF Sessions
  <2>4. TypeOK'
    BY <2>1, <2>2, <2>3 DEF TypeOK, Down
  <2>5. GestureInv'
    BY <2>1, <2>2 DEF GestureInv
  <2>6. Pending' = <<>>
    <3>1. wire = <<>> /\ queue[session'] = <<>>
      BY <2>1, <2>2 DEF TypeOK, GestureInv
    <3>2. <<>> \o <<>> = <<>>
      OBVIOUS
    <3>. QED BY <2>1, <3>1, <3>2 DEF Pending
  <2>7. Later' = NoTouch
    <3>1. touches = NoTouch /\ touches \in Touches
      BY <2>1, TouchesType DEF GestureInv
    <3>. QED BY <2>1, <2>6, <3>1, AfterAllEmpty DEF Later
  <2>8. DOMAIN NoTouch = {}
    BY DEF NoTouch
  <2>9. HostFollows'
    BY <2>1, <2>7, <2>8, FollowsDef DEF HostFollows, Later, Pending
  <2>. QED BY <2>4, <2>5, <2>9
<1>2. CASE CloseLink
  <2>1. link' = "closing" /\ UNCHANGED <<glass, heard, session, queue, touches, own, strayed>>
    BY <1>2 DEF CloseLink
  <2>2. PICK n \in 0..Len(wire) : wire' = SubSeq(wire, 1, n)
    BY <1>2 DEF CloseLink
  <2>3. wire' \in Seq(Events) /\ Len(wire') <= MaxWire
    <3>1. wire \in Seq(Events) /\ Len(wire) <= MaxWire /\ Len(wire) \in Nat
      BY DEF TypeOK
    <3>2. wire' \in Seq(Events) /\ Len(wire') = n
      BY <2>2, <3>1
    <3>. QED BY <3>1, <3>2, Sizes
  <2>4. TypeOK'
    BY <2>1, <2>3 DEF TypeOK, Down
  <2>5. GestureInv'
    BY <1>2, <2>1 DEF GestureInv, CloseLink, Down
  <2>6. HostFollows'
    BY <2>1 DEF HostFollows
  <2>. QED BY <2>4, <2>5, <2>6
<1>3. CASE HostEnds
  <2>1. /\ wire = <<>> /\ link' = "off" /\ touches' = NoTouch
        /\ UNCHANGED <<glass, heard, session, queue, wire, own, strayed>>
    BY <1>3 DEF HostEnds
  <2>2. DOMAIN touches' \subseteq Fingers
        /\ touches' \in [DOMAIN touches' -> 0..Scale * DisplayWidth]
    BY <2>1 DEF NoTouch
  <2>3. TypeOK'
    BY <2>1, <2>2 DEF TypeOK, Down
  <2>4. GestureInv' /\ HostFollows'
    BY <2>1 DEF GestureInv, HostFollows, Down
  <2>. QED BY <2>3, <2>4
<1>. QED BY <1>1, <1>2, <1>3

LEMMA TouchWork ==
  ASSUME TouchInv, NEW s \in Sessions, Work(s)
  PROVE  TouchInv'
<1>. USE DEF TouchInv
<1>. DEFINE q == queue[s]
<1>1. /\ q \in Seq(Events) /\ q # <<>> /\ queue' = [queue EXCEPT ![s] = Tail(q)]
      /\ UNCHANGED <<glass, heard, session, link, touches, own, strayed>>
  BY DEF Work, TypeOK
<1>2. Head(q) \in Events /\ Tail(q) \in Seq(Events) /\ wire \in Seq(Events)
  BY <1>1 DEF TypeOK
<1>3. queue' \in [Sessions -> Seq(Events)] /\ queue'[s] = Tail(q)
      /\ \A r \in Sessions \ {s} : queue'[r] = queue[r]
  BY <1>1, <1>2 DEF TypeOK
<1>4. s <= session
  BY <1>1, Sizes DEF TypeOK, Sessions
<1>5. \A r \in Sessions : r > session' => queue'[r] = <<>>
  BY <1>1, <1>3, <1>4, Sizes DEF TypeOK, Sessions
<1>6. CASE s = session /\ link = "open"
  <2>1. Len(wire) < MaxWire /\ wire' = Append(wire, Head(q))
    BY <1>6 DEF Work
  <2>2. wire' \in Seq(Events) /\ Len(wire') <= MaxWire
    BY <1>2, <2>1, Sizes
  <2>3. TypeOK'
    BY <1>1, <1>3, <1>5, <2>2 DEF TypeOK, Down
  <2>4. GestureInv'
    BY <1>1, <1>6 DEF GestureInv, Down
  <2>5. Pending' = Pending
    <3>. HIDE DEF q
    <3>1. Append(wire, Head(q)) \o Tail(q) = wire \o q
      <4>1. Append(wire, Head(q)) = wire \o <<Head(q)>>
        BY <1>2
      <4>2. <<Head(q)>> \o Tail(q) = q
        BY <1>1
      <4>3. (wire \o <<Head(q)>>) \o Tail(q) = wire \o (<<Head(q)>> \o Tail(q))
        BY <1>2, ConcatAssociative
      <4>. QED BY <4>1, <4>2, <4>3
    <3>. QED BY <1>1, <1>3, <1>6, <2>1, <3>1 DEF Pending, q
  <2>6. HostFollows'
    BY <1>1, <2>5, FollowsDef DEF HostFollows, Later, Pending
  <2>. QED BY <2>3, <2>4, <2>6
<1>7. CASE ~ (s = session /\ link = "open")
  <2>1. wire' = wire
    BY <1>7 DEF Work
  <2>2. TypeOK'
    BY <1>1, <1>3, <1>5, <2>1 DEF TypeOK, Down
  <2>3. GestureInv'
    BY <1>1, <2>1 DEF GestureInv, Down
  <2>4. HostFollows'
    <3>1. SUFFICES ASSUME link = "open" PROVE HostFollows'
      BY <1>1 DEF HostFollows
    <3>2. session \in Sessions /\ session # s
      BY <1>4, <1>7, <3>1, TouchesType DEF Sessions
    <3>3. queue'[session] = queue[session]
      BY <1>3, <3>2
    <3>. QED BY <1>1, <2>1, <3>3 DEF HostFollows
  <2>. QED BY <2>2, <2>3, <2>4
<1>. QED BY <1>6, <1>7

LEMMA TouchInject ==
  TouchInv /\ Inject => TouchInv'
<1>. SUFFICES ASSUME TouchInv, Inject PROVE TouchInv'
  OBVIOUS
<1>. USE DEF TouchInv
<1>1. /\ wire # <<>> /\ touches' = Injected(touches, Head(wire)) /\ wire' = Tail(wire)
      /\ UNCHANGED <<glass, heard, session, link, queue, own, strayed>>
  BY DEF Inject
<1>2. /\ wire \in Seq(Events) /\ Head(wire) \in Events /\ wire' \in Seq(Events)
      /\ Len(wire') <= Len(wire) /\ Len(wire) \in Nat /\ Len(wire') \in Nat
  BY <1>1 DEF TypeOK
<1>3. touches \in Touches /\ touches' \in Touches
  BY <1>1, <1>2, TouchesType, InjectedType
<1>4. TypeOK'
  <2>1. DOMAIN touches' \subseteq Fingers
        /\ touches' \in [DOMAIN touches' -> 0..Scale * DisplayWidth]
    BY <1>3 DEF Touches
  <2>2. Len(wire') <= MaxWire
    BY <1>2, Sizes DEF TypeOK
  <2>. QED BY <1>1, <1>2, <2>1, <2>2 DEF TypeOK, Down
<1>5. link # "off" /\ session # 0
  BY <1>1 DEF GestureInv
<1>6. GestureInv'
  BY <1>1, <1>5 DEF GestureInv, Down
<1>7. Later' = Later
  <2>. DEFINE q == queue[session]
  <2>1. q \in Seq(Events) /\ Pending \in Seq(Events)
    BY <1>5, TouchesType
  <2>. HIDE DEF q
  <2>2. /\ Pending = wire \o q /\ Pending' = Tail(wire) \o q
    BY <1>1 DEF Pending, q
  <2>3. Pending # <<>> /\ Head(Pending) = Head(wire) /\ Tail(Pending) = Tail(wire) \o q
    <3>1. wire = <<Head(wire)>> \o Tail(wire) /\ Tail(wire) \in Seq(Events)
      BY <1>1, <1>2
    <3>2. Pending = <<Head(wire)>> \o (Tail(wire) \o q)
      BY <1>2, <2>1, <2>2, <3>1, ConcatAssociative
    <3>3. Tail(wire) \o q \in Seq(Events)
      BY <2>1, <3>1
    <3>. QED BY <1>2, <3>2, <3>3
  <2>4. AfterAll(Injected(touches, Head(Pending)), Tail(Pending)) = AfterAll(touches, Pending)
    BY <1>3, <2>1, <2>3, AfterAllTail
  <2>. QED BY <1>1, <2>2, <2>3, <2>4 DEF Later
<1>8. HostFollows'
  BY <1>1, <1>7, FollowsDef DEF HostFollows, Later, Pending
<1>. QED BY <1>4, <1>6, <1>8

LEMMA TouchInvariance == Spec => []TouchInv
<1>1. Init => TouchInv
  BY TouchInit
<1>2. TouchInv /\ [Next]_vars => TouchInv'
  <2>. SUFFICES ASSUME TouchInv, [Next]_vars PROVE TouchInv'
    OBVIOUS
  <2>1. CASE User
    BY <2>1, TouchDown, TouchMove, TouchUp, TouchCancel DEF User
  <2>2. CASE Attach \/ CloseLink \/ HostEnds
    BY <2>2, TouchSessions
  <2>3. CASE Inject
    BY <2>3, TouchInject
  <2>4. CASE \E s \in Sessions : Work(s)
    BY <2>4, TouchWork
  <2>5. CASE UNCHANGED vars
    BY <2>5 DEF vars, TouchInv, TypeOK, GestureInv, HostFollows, Down
  <2>. QED BY <2>1, <2>2, <2>3, <2>4, <2>5 DEF Next
<1>. QED BY <1>1, <1>2, PTL DEF Spec

\* Types: coordinates on the scale, touches on the display, events only in the queues
\* of sessions that began.
THEOREM TouchTypeCorrect == Spec => []TypeOK
<1>1. TouchInv => TypeOK
  BY DEF TouchInv
<1>. QED BY <1>1, TouchInvariance, PTL

\* The host follows the fingers (HostFollows), for any number of fingers, places and
\* sessions, and however many events wait in the unbounded queue.
THEOREM HostFollowsFingers == Spec => []HostFollows
<1>1. TouchInv => HostFollows
  BY DEF TouchInv
<1>. QED BY <1>1, TouchInvariance, PTL


-----------------------------------------------------------------------------
(* Framing: the bytes of a stream *)

LEMMA Format ==
  /\ Count \in Nat /\ Version \in Nat /\ MaxPayload \in Nat
  /\ Magic \in Seq(Nat) /\ Len(Magic) = 2 /\ Magic[1] \in Nat /\ Magic[2] \in Nat
  /\ Version # Magic[1] /\ Version # Magic[2]
  /\ \A c \in Contents : c.type \in Nat /\ c.payload \in Seq(Nat) /\ Len(c.payload) <= MaxPayload
<1>1. /\ Count \in Nat /\ Version \in Nat /\ MaxPayload \in Nat
      /\ Magic \in [1..2 -> Nat] /\ Version # Magic[1] /\ Version # Magic[2]
      /\ \A c \in Contents : c.type \in Nat /\ c.payload \in Seq(Nat) /\ Len(c.payload) <= MaxPayload
  BY FormatAssumption
<1>2. Magic \in Seq(Nat)
  <2>1. Magic \in UNION {[1..n -> Nat] : n \in Nat}
    BY <1>1
  <2>2. Seq(Nat) = UNION {[1..n -> Nat] : n \in Nat}
    BY SeqDef
  <2>. QED BY <2>1, <2>2
<1>3. Len(Magic) \in Nat /\ DOMAIN Magic = 1..Len(Magic)
  BY <1>2, LenProperties
<1>4. 1..Len(Magic) = 1..2
  BY <1>1, <1>3
<1>5. Len(Magic) = 2
  BY <1>3, <1>4
<1>. QED BY <1>1, <1>2, <1>5

\* Two sequences of numbers, one after the other.
LEMMA Concatenated ==
  ASSUME NEW s \in Seq(Nat), NEW t \in Seq(Nat)
  PROVE  /\ s \o t \in Seq(Nat) /\ Len(s \o t) = Len(s) + Len(t)
         /\ \A i \in 1..Len(s) : (s \o t)[i] = s[i]
         /\ \A i \in 1..Len(t) : (s \o t)[Len(s) + i] = t[i]
<1>1. Len(s) \in Nat /\ Len(t) \in Nat
  OBVIOUS
<1>2. /\ s \o t \in Seq(Nat) /\ Len(s \o t) = Len(s) + Len(t)
      /\ \A i \in 1..Len(s) + Len(t) : (s \o t)[i] = IF i <= Len(s) THEN s[i] ELSE t[i - Len(s)]
  BY ConcatProperties
<1>3. ASSUME NEW i \in 1..Len(t) PROVE (s \o t)[Len(s) + i] = t[i]
  BY <1>1, <1>2
<1>. QED BY <1>1, <1>2, <1>3

\* An encoded packet: the header's six fields, then the payload.
LEMMA Encoded ==
  ASSUME NEW c \in Contents, NEW n \in Nat
  PROVE  LET e == Encode(c, n) IN
         /\ e \in Seq(Nat) /\ Len(e) = HeaderSize + Len(c.payload)
         /\ e[1] = Magic[1] /\ e[2] = Magic[2] /\ e[3] = Version
         /\ e[4] = c.type /\ e[5] = n /\ e[6] = Len(c.payload)
         /\ \A j \in 1..Len(c.payload) : e[HeaderSize + j] = c.payload[j]
<1>. DEFINE f == <<Version, c.type, n, Len(c.payload)>>
            h == Magic \o f
            e == h \o c.payload
<1>1. /\ c.type \in Nat /\ c.payload \in Seq(Nat) /\ Len(c.payload) \in Nat
      /\ Magic \in Seq(Nat) /\ Len(Magic) = 2 /\ Version \in Nat
  BY Format
<1>2. f \in Seq(Nat) /\ Len(f) = 4
  BY <1>1
<1>3. f[1] = Version /\ f[2] = c.type /\ f[3] = n /\ f[4] = Len(c.payload)
  OBVIOUS
<1>4. Encode(c, n) = e
  BY DEF Encode
<1>. HIDE DEF f
<1>5. /\ h \in Seq(Nat) /\ Len(h) = Len(Magic) + Len(f)
      /\ \A i \in 1..Len(Magic) : h[i] = Magic[i]
      /\ \A i \in 1..Len(f) : h[Len(Magic) + i] = f[i]
  <2>. HIDE DEF h
  <2>1. h = Magic \o f
    BY DEF h
  <2>. QED BY <1>1, <1>2, <2>1, Concatenated
<1>. HIDE DEF h
<1>6. /\ e \in Seq(Nat) /\ Len(e) = Len(h) + Len(c.payload)
      /\ \A i \in 1..Len(h) : e[i] = h[i]
      /\ \A i \in 1..Len(c.payload) : e[Len(h) + i] = c.payload[i]
  <2>. HIDE DEF e
  <2>1. e = h \o c.payload
    BY DEF e
  <2>. QED BY <1>1, <1>5, <2>1, Concatenated
<1>. HIDE DEF e
<1>7. Len(h) = 6 /\ h[1] = Magic[1] /\ h[2] = Magic[2] /\ \A i \in 1..4 : h[2 + i] = f[i]
  BY <1>1, <1>2, <1>5
<1>8. h[3] = f[1] /\ h[4] = f[2] /\ h[5] = f[3] /\ h[6] = f[4]
  <2>1. h[2 + 1] = f[1] /\ h[2 + 2] = f[2] /\ h[2 + 3] = f[3] /\ h[2 + 4] = f[4]
    BY <1>7
  <2>. QED BY <2>1
<1>9. e[1] = h[1] /\ e[2] = h[2] /\ e[3] = h[3] /\ e[4] = h[4] /\ e[5] = h[5] /\ e[6] = h[6]
  BY <1>6, <1>7
<1>10. HeaderSize = Len(h)
  BY <1>7 DEF HeaderSize
<1>. HIDE DEF HeaderSize
<1>11. /\ e[1] = Magic[1] /\ e[2] = Magic[2] /\ e[3] = Version
       /\ e[4] = c.type /\ e[5] = n /\ e[6] = Len(c.payload)
  BY <1>3, <1>7, <1>8, <1>9
<1>. QED BY <1>4, <1>6, <1>10, <1>11

\* What the variables that never change are.
StreamType ==
    /\ receiver \in {"usbHost", "tcpHost", "client"}
    /\ leftover \in Seq(Nat)
    /\ receiver = "tcpHost" => leftover = <<>>
    /\ packets \in [1..Count -> Contents]

\* BytesUpTo is what its recursion says.
LEMMA BytesDef ==
  ASSUME StreamType
  PROVE  /\ BytesUpTo \in [0..Count -> Seq(Nat)]
         /\ BytesUpTo[0] = leftover
         /\ \A n \in 1..Count : BytesUpTo[n] = BytesUpTo[n - 1] \o Encode(packets[n], n)
<1>. DEFINE B == Seq(Nat)
            F == [p \in (1..Count) \X B |-> p[2] \o Encode(packets[p[1]], p[1])]
            Solves(g) ==
              g = [n \in 0..Count |-> IF n = 0 THEN leftover ELSE g[n - 1] \o Encode(packets[n], n)]
<1>0. Count \in Nat /\ leftover \in B
  BY Format DEF StreamType
<1>1. \A n \in 1..Count, s \in B : s \o Encode(packets[n], n) \in B
  <2>1. \A n \in 1..Count : Encode(packets[n], n) \in Seq(Nat)
    BY <1>0, Encoded DEF StreamType
  <2>. QED BY <2>1
<1>. HIDE DEF B
<1>2. F \in [(1..Count) \X B -> B]
  BY <1>1
<1>3. \A n \in 1..Count, s \in B : F[<<n, s>>] = s \o Encode(packets[n], n)
  OBVIOUS
<1>. HIDE DEF F
<1>4. PICK g \in [0..Count -> B] : g[0] = leftover /\ Repeats(g, Count, F)
  BY <1>0, <1>2, Recursion
<1>5. \A n \in 1..Count : g[n] = g[n - 1] \o Encode(packets[n], n)
  <2>1. \A n \in 1..Count : n - 1 \in 0..Count
    BY <1>0
  <2>. QED BY <1>3, <1>4, <2>1 DEF Repeats
<1>6. Solves(g)
  BY <1>0, <1>4, <1>5
<1>7. BytesUpTo = CHOOSE f : Solves(f)
  BY DEF BytesUpTo
<1>8. Solves(BytesUpTo)
  <2>. HIDE DEF Solves
  <2>. QED BY <1>6, <1>7
<1>9. /\ BytesUpTo = [n \in 0..Count |-> BytesUpTo[n]]
      /\ BytesUpTo[0] = leftover
      /\ \A n \in 1..Count : BytesUpTo[n] = BytesUpTo[n - 1] \o Encode(packets[n], n)
  BY <1>0, <1>8
<1>10. Follows(BytesUpTo, g, Count)
  BY <1>4, <1>5, <1>9 DEF Follows
<1>11. \A n \in 0..Count : BytesUpTo[n] = g[n]
  BY <1>0, <1>10, RecursionUnique
<1>12. BytesUpTo \in [0..Count -> B]
  BY <1>4, <1>9, <1>11
<1>. QED BY <1>9, <1>12 DEF B

\* All bytes begin with the bytes up to any packet.
LEMMA BytesBegin ==
  ASSUME StreamType, NEW n \in 0..Count, NEW m \in n..Count
  PROVE  /\ Len(BytesUpTo[n]) <= Len(BytesUpTo[m])
         /\ \A i \in 1..Len(BytesUpTo[n]) : BytesUpTo[m][i] = BytesUpTo[n][i]
<1>. DEFINE Begins(d) ==
              /\ Len(BytesUpTo[n]) <= Len(BytesUpTo[n + d])
              /\ \A i \in 1..Len(BytesUpTo[n]) : BytesUpTo[n + d][i] = BytesUpTo[n][i]
            S == {d \in Nat : n + d <= Count => Begins(d)}
<1>0. Count \in Nat /\ n \in Nat /\ \A k \in 0..Count : BytesUpTo[k] \in Seq(Nat) /\ Len(BytesUpTo[k]) \in Nat
  <2>1. \A k \in 0..Count : BytesUpTo[k] \in Seq(Nat)
    BY BytesDef
  <2>. QED BY <2>1, Format
<1>1. 0 \in S
  BY <1>0
<1>2. ASSUME NEW d \in Nat, d \in S PROVE d + 1 \in S
  <2>. SUFFICES ASSUME n + (d + 1) <= Count PROVE Begins(d + 1)
    OBVIOUS
  <2>1. Begins(d) /\ n + d \in 0..Count /\ n + (d + 1) \in 1..Count /\ (n + (d + 1)) - 1 = n + d
    BY <1>0, <1>2
  <2>. DEFINE s == BytesUpTo[n + d]
              e == Encode(packets[n + (d + 1)], n + (d + 1))
  <2>2. s \in Seq(Nat) /\ e \in Seq(Nat)
    <3>1. packets[n + (d + 1)] \in Contents /\ n + (d + 1) \in Nat
      BY <2>1 DEF StreamType
    <3>2. e \in Seq(Nat)
      BY <3>1, Encoded
    <3>. QED BY <1>0, <2>1, <3>2
  <2>3. BytesUpTo[n + (d + 1)] = s \o e
    BY <2>1, BytesDef
  <2>. HIDE DEF e, s
  <2>4. Len(s \o e) = Len(s) + Len(e) /\ \A i \in 1..Len(s) : (s \o e)[i] = s[i]
    BY <2>2
  <2>5. Len(s) \in Nat /\ Len(e) \in Nat /\ Len(BytesUpTo[n]) \in Nat
    BY <1>0, <2>2
  <2>. QED BY <2>1, <2>3, <2>4, <2>5 DEF s
<1>3. Nat \subseteq S
  <2>. HIDE DEF S
  <2>. QED BY <1>1, <1>2, Induction
<1>4. m - n \in Nat /\ n + (m - n) = m /\ m <= Count
  BY <1>0
<1>5. Begins(m - n)
  BY <1>3, <1>4
<1>. QED BY <1>4, <1>5

\* The bytes are bytes, and so are their lengths.
LEMMA BytesType ==
  ASSUME StreamType
  PROVE  /\ Bytes \in Seq(Nat) /\ Len(Bytes) \in Nat
         /\ \A n \in 0..Count : /\ BytesUpTo[n] \in Seq(Nat) /\ Len(BytesUpTo[n]) \in Nat
                                /\ Len(BytesUpTo[n]) <= Len(Bytes)
         /\ \A n \in 1..Count : n - 1 \in 0..Count /\ StartOf(n) = Len(BytesUpTo[n - 1]) /\ StartOf(n) \in Nat
<1>1. Count \in Nat /\ Count \in 0..Count
  BY Format
<1>2. \A n \in 0..Count : BytesUpTo[n] \in Seq(Nat)
  BY BytesDef
<1>3. \A n \in 0..Count : Len(BytesUpTo[n]) \in Nat
  BY <1>2
<1>4. ASSUME NEW n \in 0..Count PROVE Len(BytesUpTo[n]) <= Len(Bytes)
  <2>1. Count \in n..Count
    BY <1>1
  <2>. QED BY <2>1, BytesBegin DEF Bytes
<1>5. \A n \in 1..Count : n - 1 \in 0..Count
  BY <1>1
<1>. QED BY <1>1, <1>2, <1>3, <1>4, <1>5 DEF Bytes, StartOf

\* Packet n lies where it should, byte by byte.
LEMMA PacketBytes ==
  ASSUME StreamType, NEW n \in 1..Count
  PROVE  LET e == Encode(packets[n], n) IN
         /\ packets[n] \in Contents
         /\ Len(BytesUpTo[n]) = StartOf(n) + Len(e)
         /\ \A j \in 1..Len(e) : Bytes[StartOf(n) + j] = e[j]
<1>. DEFINE c == packets[n]
            e == Encode(c, n)
            b == BytesUpTo[n - 1]
<1>0. Count \in Nat /\ n \in Nat /\ n \in 0..Count /\ Count \in n..Count
  BY Format
<1>1. c \in Contents
  BY DEF StreamType
<1>2. e \in Seq(Nat) /\ b \in Seq(Nat) /\ StartOf(n) = Len(b)
  BY <1>0, <1>1, Encoded, BytesType
<1>3. BytesUpTo[n] = b \o e
  BY BytesDef
<1>. HIDE DEF c, e, b
<1>4. /\ Len(BytesUpTo[n]) = Len(b) + Len(e)
      /\ \A j \in 1..Len(e) : BytesUpTo[n][Len(b) + j] = e[j]
  BY <1>2, <1>3, Concatenated
<1>5. \A j \in 1..Len(BytesUpTo[n]) : Bytes[j] = BytesUpTo[n][j]
  BY <1>0, BytesBegin DEF Bytes
<1>6. Len(b) \in Nat /\ Len(e) \in Nat
  BY <1>2
<1>7. \A j \in 1..Len(e) : Len(b) + j \in 1..Len(BytesUpTo[n])
  BY <1>4, <1>6
<1>8. \A j \in 1..Len(e) : Bytes[Len(b) + j] = e[j]
  BY <1>4, <1>5, <1>7
<1>. QED BY <1>1, <1>2, <1>4, <1>8 DEF c, e, b

\* Where the reader looks for headers, one begins at place i.
HeaderAt(i) == IF receiver = "client" THEN MagicAt(i) ELSE Decodes(i)

\* What every receiver finds where packet n begins.
LEMMA PacketThere ==
  ASSUME StreamType, NEW n \in 1..Count
  PROVE  /\ Decodes(StartOf(n)) /\ MagicAt(StartOf(n)) /\ HeaderAt(StartOf(n))
         /\ LengthAt(StartOf(n)) <= MaxPayload
         /\ EndAt(StartOf(n)) = Len(BytesUpTo[n])
         /\ StartOf(n) + HeaderSize <= Len(BytesUpTo[n])
         /\ Is(PacketAt(StartOf(n)), n)
<1>. DEFINE i == StartOf(n)
            c == packets[n]
            e == Encode(c, n)
<1>1. /\ c \in Contents /\ i \in Nat
      /\ Len(BytesUpTo[n]) = i + Len(e)
      /\ \A j \in 1..Len(e) : Bytes[i + j] = e[j]
  BY PacketBytes, BytesType
<1>2. /\ c.type \in Nat /\ c.payload \in Seq(Nat) /\ Len(c.payload) <= MaxPayload
      /\ n \in Nat /\ Len(c.payload) \in Nat /\ Version \in Nat
      /\ Magic \in Seq(Nat) /\ Len(Magic) = 2 /\ Magic[1] \in Nat /\ Magic[2] \in Nat
  <2>1. /\ c.type \in Nat /\ c.payload \in Seq(Nat) /\ Len(c.payload) <= MaxPayload
        /\ n \in Nat /\ Version \in Nat
        /\ Magic \in Seq(Nat) /\ Len(Magic) = 2 /\ Magic[1] \in Nat /\ Magic[2] \in Nat
    BY <1>1, Format
  <2>2. Len(c.payload) \in Nat
    BY <2>1, LenProperties
  <2>. QED BY <2>1, <2>2
<1>3. /\ e \in Seq(Nat) /\ Len(e) = HeaderSize + Len(c.payload)
      /\ e[1] = Magic[1] /\ e[2] = Magic[2] /\ e[3] = Version
      /\ e[4] = c.type /\ e[5] = n /\ e[6] = Len(c.payload)
      /\ \A j \in 1..Len(c.payload) : e[HeaderSize + j] = c.payload[j]
  BY <1>1, <1>2, Encoded
<1>. DEFINE l == Len(c.payload)
            H == HeaderSize
<1>4. H = 6 /\ l \in Nat /\ Len(e) = H + l /\ \A j \in 1..l : e[H + j] = c.payload[j]
  BY <1>2, <1>3 DEF HeaderSize
<1>. HIDE DEF i, e, c, l, H
<1>5. /\ Bytes[i + 1] = Magic[1] /\ Bytes[i + 2] = Magic[2] /\ Bytes[i + 3] = Version
      /\ Bytes[i + 4] = c.type /\ Bytes[i + 5] = n /\ Bytes[i + 6] = l
  <2>1. 1 \in 1..Len(e) /\ 2 \in 1..Len(e) /\ 3 \in 1..Len(e) /\ 4 \in 1..Len(e) /\ 5 \in 1..Len(e) /\ 6 \in 1..Len(e)
    BY <1>4
  <2>. QED BY <1>1, <1>3, <2>1 DEF l
<1>6. \A j \in 1..l : Bytes[i + H + j] = c.payload[j]
  <2>1. \A j \in 1..l : H + j \in 1..Len(e) /\ i + (H + j) = i + H + j
    BY <1>1, <1>4
  <2>. QED BY <1>1, <1>4, <2>1
<1>7. LengthAt(i) = l /\ EndAt(i) = i + H + l /\ EndAt(i) = Len(BytesUpTo[n]) /\ i + H <= Len(BytesUpTo[n])
  <2>1. LengthAt(i) = l /\ EndAt(i) = i + H + l
    BY <1>5 DEF LengthAt, EndAt, H
  <2>. QED BY <1>1, <1>4, <2>1
<1>8. MagicAt(i)
  <2>. DEFINE s == SubSeq(Bytes, i + 1, i + 2)
  <2>1. i + 1 \in Int /\ i + 2 \in Int /\ i + 1 <= i + 2 /\ (i + 2) - (i + 1) + 1 = 2
        /\ \A j \in i + 1..i + 2 : j = i + 1 \/ j = i + 2
    BY <1>1
  <2>2. \A j \in i + 1..i + 2 : Bytes[j] \in Nat
    BY <1>2, <1>5, <2>1
  <2>3. /\ s \in Seq(Nat) /\ Len(s) = 2
        /\ \A j \in 1..2 : s[j] = Bytes[(i + 1) + j - 1]
    BY <2>1, <2>2, SubSeqProperties
  <2>4. s[1] = Bytes[i + 1] /\ s[2] = Bytes[i + 2]
    <3>1. (i + 1) + 1 - 1 = i + 1 /\ (i + 1) + 2 - 1 = i + 2
      BY <1>1
    <3>. QED BY <2>3, <3>1
  <2>. HIDE DEF s
  <2>5. \A j \in 1..Len(s) : s[j] = Magic[j]
    BY <1>5, <2>3, <2>4
  <2>6. s = Magic
    BY <1>2, <2>3, <2>5, SeqEqual
  <2>. QED BY <2>6 DEF MagicAt, s
<1>9. SubSeq(Bytes, i + H + 1, EndAt(i)) = c.payload
  <2>. DEFINE a == i + H + 1
              z == i + H + l
              s == SubSeq(Bytes, a, z)
  <2>1. a \in Int /\ z \in Int /\ z - a + 1 = l
    BY <1>1, <1>4
  <2>2. ASSUME NEW j \in a..z PROVE Bytes[j] \in Nat
    <3>1. j - (i + H) \in 1..l /\ i + H + (j - (i + H)) = j
      BY <1>1, <1>4
    <3>2. Bytes[j] = c.payload[j - (i + H)]
      BY <1>6, <3>1
    <3>. QED BY <1>2, <3>1, <3>2 DEF l
  <2>3. a + 1 - 1 = i + H + 1 /\ \A j \in 1..l : a + j - 1 = i + H + j
    BY <1>1, <1>4
  <2>. HIDE DEF a, z
  <2>4. /\ s \in Seq(Nat) /\ Len(s) = (IF a <= z THEN z - a + 1 ELSE 0)
        /\ \A j \in 1..z - a + 1 : s[j] = Bytes[a + j - 1]
    BY <2>1, <2>2, SubSeqProperties
  <2>. HIDE DEF s
  <2>5. Len(s) = l
    BY <1>4, <2>1, <2>4
  <2>6. \A j \in 1..Len(s) : s[j] = c.payload[j]
    BY <1>6, <2>1, <2>3, <2>4, <2>5
  <2>7. s = c.payload
    BY <1>2, <2>4, <2>5, <2>6, SeqEqual DEF l
  <2>. QED BY <1>7, <2>7 DEF s, a, z
<1>10. Decodes(i)
  BY <1>2, <1>5, <1>7, <1>8 DEF Decodes, VersionAt, l
<1>11. Is(PacketAt(i), n)
  BY <1>5, <1>9 DEF Is, PacketAt, i, c, H
<1>. QED BY <1>2, <1>7, <1>8, <1>10, <1>11 DEF HeaderAt, i, l, H

\* One packet after the other.
LEMMA StartsAscend ==
  ASSUME StreamType, NEW n \in 1..Count, NEW m \in 1..Count, n < m
  PROVE  StartOf(n) < Len(BytesUpTo[n]) /\ Len(BytesUpTo[n]) <= StartOf(m)
<1>1. /\ Count \in Nat /\ n \in 0..Count /\ m - 1 \in 0..Count /\ m - 1 \in n..Count
      /\ StartOf(n) \in Nat /\ Len(BytesUpTo[n]) \in Nat /\ StartOf(m) = Len(BytesUpTo[m - 1])
  BY Format, BytesType
<1>2. Len(BytesUpTo[n]) <= Len(BytesUpTo[m - 1])
  BY <1>1, BytesBegin
<1>3. StartOf(n) + HeaderSize <= Len(BytesUpTo[n])
  BY PacketThere
<1>. QED BY <1>1, <1>2, <1>3 DEF HeaderSize

\* A packet has one number, and it has it where that packet begins.
LEMMA Numbered ==
  ASSUME NEW p
  PROVE  /\ NumberOf(p) \in 0..Count
         /\ NumberOf(p) # 0 => NumberOf(p) \in 1..Count /\ Is(p, NumberOf(p))
         /\ \A n \in 1..Count : Is(p, n) => NumberOf(p) = n
<1>. DEFINE n == NumberOf(p)
<1>0. Count \in Nat
  BY Format
<1>1. ASSUME NEW k \in 1..Count, NEW m \in 1..Count, Is(p, k), Is(p, m) PROVE k = m
  <2>1. p.seq = k /\ p.seq = m
    BY <1>1 DEF Is
  <2>. QED BY <2>1
<1>2. CASE \E k \in 1..Count : Is(p, k)
  <2>1. n \in 1..Count /\ Is(p, n)
    BY <1>2 DEF NumberOf
  <2>. HIDE DEF n
  <2>. QED BY <1>0, <1>1, <2>1 DEF n
<1>3. CASE ~ \E k \in 1..Count : Is(p, k)
  <2>1. n = 0
    BY <1>3 DEF NumberOf
  <2>. QED BY <1>0, <1>3, <2>1
<1>. QED BY <1>2, <1>3

-----------------------------------------------------------------------------
(* Framing: what the bytes after a place hold *)

\* The packet announced at k is short enough and all there.
Complete(k) == LengthAt(k) <= MaxPayload /\ EndAt(k) <= Len(Bytes)

\* Every packet that any place can yield.
Packet == {PacketAt(k) : k \in {j \in 0..Len(Bytes) : j + HeaderSize <= Len(Bytes) /\ Complete(j)}}

\* The step of the recursion in PacketsFrom, h for what follows.
Yields(h, k) ==
    IF k + HeaderSize > Len(Bytes) THEN <<>>
    ELSE IF HeaderAt(k)
    THEN IF Complete(k) THEN <<PacketAt(k)>> \o h[EndAt(k)] ELSE <<>>
    ELSE h[k + 1]

\* g and h say the same of the places after k.
AgreeAfter(g, h, k) == \A j \in 0..Len(Bytes) : j > k => g[j] = h[j]

LEMMA PlaceAfter ==
  ASSUME StreamType, NEW k \in 0..Len(Bytes), k + HeaderSize <= Len(Bytes)
  PROVE  /\ LengthAt(k) \in Nat
         /\ EndAt(k) \in Nat /\ EndAt(k) = k + HeaderSize + LengthAt(k)
         /\ k + 1 \in 0..Len(Bytes) /\ k + 1 > k
         /\ Complete(k) => EndAt(k) \in 0..Len(Bytes) /\ EndAt(k) > k
<1>1. k \in Nat /\ Len(Bytes) \in Nat /\ Bytes \in Seq(Nat)
  BY BytesType
<1>2. k + 6 \in 1..Len(Bytes)
  BY <1>1 DEF HeaderSize
<1>3. LengthAt(k) \in Nat
  BY <1>1, <1>2 DEF LengthAt
<1>4. EndAt(k) = k + HeaderSize + LengthAt(k) /\ EndAt(k) \in Nat /\ EndAt(k) > k
  BY <1>1, <1>3 DEF EndAt, HeaderSize
<1>5. k + 1 \in 0..Len(Bytes) /\ k + 1 > k
  BY <1>1 DEF HeaderSize
<1>. QED BY <1>1, <1>3, <1>4, <1>5 DEF Complete

\* What a place yields depends on later places only.
LEMMA YieldsLater ==
  ASSUME NEW g, NEW h, NEW k \in 0..Len(Bytes), StreamType, AgreeAfter(g, h, k)
  PROVE  Yields(g, k) = Yields(h, k)
<1>1. CASE k + HeaderSize > Len(Bytes)
  BY <1>1 DEF Yields
<1>2. CASE k + HeaderSize <= Len(Bytes)
  <2>1. g[k + 1] = h[k + 1] /\ (Complete(k) => g[EndAt(k)] = h[EndAt(k)])
    BY <1>2, PlaceAfter DEF AgreeAfter
  <2>. QED BY <2>1 DEF Yields
<1>3. k + HeaderSize \in Nat /\ Len(Bytes) \in Nat
  BY BytesType DEF HeaderSize
<1>. QED BY <1>1, <1>2, <1>3

LEMMA YieldsType ==
  ASSUME NEW h \in [0..Len(Bytes) -> Seq(Packet)], NEW k \in 0..Len(Bytes), StreamType
  PROVE  Yields(h, k) \in Seq(Packet)
<1>0. k + HeaderSize \in Nat /\ Len(Bytes) \in Nat
  BY BytesType DEF HeaderSize
<1>1. CASE k + HeaderSize > Len(Bytes)
  BY <1>1 DEF Yields
<1>2. CASE k + HeaderSize <= Len(Bytes) /\ HeaderAt(k) /\ Complete(k)
  <2>1. EndAt(k) \in 0..Len(Bytes)
    BY <1>2, PlaceAfter
  <2>2. PacketAt(k) \in Packet
    BY <1>2 DEF Packet
  <2>3. Yields(h, k) = <<PacketAt(k)>> \o h[EndAt(k)]
    BY <1>0, <1>2 DEF Yields
  <2>. DEFINE p == PacketAt(k)
              t == h[EndAt(k)]
  <2>4. p \in Packet /\ t \in Seq(Packet)
    BY <2>1, <2>2
  <2>. HIDE DEF p, t
  <2>5. <<p>> \o t \in Seq(Packet)
    BY <2>4
  <2>. QED BY <2>3, <2>5 DEF p, t
<1>3. CASE k + HeaderSize <= Len(Bytes) /\ HeaderAt(k) /\ ~Complete(k)
  BY <1>0, <1>3 DEF Yields
<1>4. CASE k + HeaderSize <= Len(Bytes) /\ ~HeaderAt(k)
  <2>1. k + 1 \in 0..Len(Bytes)
    BY <1>4, PlaceAfter
  <2>. QED BY <1>0, <1>4, <2>1 DEF Yields
<1>. QED BY <1>0, <1>1, <1>2, <1>3, <1>4

\* The recursion has a solution: fill it in from the last place to the first.
LEMMA PacketsExist ==
  ASSUME StreamType
  PROVE  \E h \in [0..Len(Bytes) -> Seq(Packet)] : \A k \in 0..Len(Bytes) : h[k] = Yields(h, k)
<1>. DEFINE N == Len(Bytes)
            G == [0..N -> Seq(Packet)]
            Good(h, m) == \A k \in 0..N : k >= N - m => h[k] = Yields(h, k)
            S == {m \in Nat : m <= N => \E h \in G : Good(h, m)}
<1>0. N \in Nat /\ <<>> \in Seq(Packet)
  BY BytesType
<1>1. 0 \in S
  <2>1. [k \in 0..N |-> <<>>] \in G
    BY <1>0
  <2>2. ASSUME NEW h \in G, NEW k \in 0..N, k >= N - 0, h[k] = <<>> PROVE h[k] = Yields(h, k)
    <3>1. k + HeaderSize > Len(Bytes)
      BY <1>0, <2>2 DEF HeaderSize
    <3>. QED BY <2>2, <3>1 DEF Yields
  <2>3. \A k \in 0..N : [j \in 0..N |-> <<>>][k] = <<>>
    OBVIOUS
  <2>. HIDE DEF N
  <2>4. Good([k \in 0..N |-> <<>>], 0)
    BY <2>1, <2>2, <2>3
  <2>. HIDE DEF Good, G
  <2>. QED BY <2>1, <2>4
<1>2. ASSUME NEW m \in Nat, m \in S PROVE m + 1 \in S
  <2>1. SUFFICES ASSUME m + 1 <= N PROVE \E h \in G : Good(h, m + 1)
    OBVIOUS
  <2>2. PICK h \in G : Good(h, m)
    <3>. HIDE DEF Good, G, N
    <3>. QED BY <1>0, <1>2, <2>1
  <2>. DEFINE z == N - (m + 1)
              y == Yields(h, z)
              f == [h EXCEPT ![z] = y]
  <2>3. z \in 0..N
    BY <1>0, <2>1
  <2>4. y \in Seq(Packet)
    BY <2>3, YieldsType
  <2>. HIDE DEF y
  <2>5. f \in G /\ f[z] = y /\ \A j \in 0..N : j # z => f[j] = h[j]
    BY <2>3, <2>4
  <2>. HIDE DEF f
  <2>6. ASSUME NEW k \in 0..N, k >= N - (m + 1) PROVE f[k] = Yields(f, k)
    <3>1. \A j \in 0..N : j > k => f[j] = h[j]
      BY <1>0, <2>1, <2>5, <2>6
    <3>2. Yields(f, k) = Yields(h, k)
      BY <3>1, YieldsLater DEF AgreeAfter
    <3>3. CASE k = z
      BY <2>5, <3>2, <3>3 DEF y
    <3>4. CASE k # z
      <4>1. k >= N - m
        BY <1>0, <2>1, <2>6, <3>4
      <4>2. h[k] = Yields(h, k)
        BY <2>2, <4>1
      <4>. QED BY <2>5, <3>2, <3>4, <4>2
    <3>. QED BY <3>3, <3>4
  <2>. HIDE DEF N
  <2>7. Good(f, m + 1)
    BY <2>6
  <2>. HIDE DEF Good, G
  <2>. QED BY <2>5, <2>7
<1>3. PICK h \in G : Good(h, N)
  <2>1. N \in S
    <3>. HIDE DEF S
    <3>. QED BY <1>0, <1>1, <1>2, Induction
  <2>. HIDE DEF Good, G, N
  <2>. QED BY <1>0, <2>1
<1>4. \A k \in 0..N : h[k] = Yields(h, k)
  BY <1>0, <1>3
<1>. QED BY <1>3, <1>4

\* PacketsFrom is what its recursion says.
LEMMA PacketsDef ==
  ASSUME StreamType
  PROVE  \A k \in 0..Len(Bytes) :
            /\ PacketsFrom(k) \in Seq(Packet)
            /\ k + HeaderSize <= Len(Bytes) =>
                 /\ ~HeaderAt(k) => PacketsFrom(k) = PacketsFrom(k + 1)
                 /\ HeaderAt(k) /\ Complete(k) =>
                      PacketsFrom(k) = <<PacketAt(k)>> \o PacketsFrom(EndAt(k))
<1>. DEFINE N == Len(Bytes)
            Solves(f) ==
              f = [k \in 0..N |->
                     IF k + HeaderSize > N THEN <<>>
                     ELSE IF IF receiver = "client" THEN MagicAt(k) ELSE Decodes(k)
                     THEN IF LengthAt(k) > MaxPayload \/ EndAt(k) > N THEN <<>>
                          ELSE <<PacketAt(k)>> \o f[EndAt(k)]
                     ELSE f[k + 1]]
            a == CHOOSE f : Solves(f)
<1>0. N \in Nat /\ MaxPayload \in Nat /\ HeaderSize \in Nat
  BY BytesType, Format DEF HeaderSize
<1>1. ASSUME NEW f, NEW k \in 0..N
      PROVE  (IF k + HeaderSize > N THEN <<>>
              ELSE IF IF receiver = "client" THEN MagicAt(k) ELSE Decodes(k)
              THEN IF LengthAt(k) > MaxPayload \/ EndAt(k) > N THEN <<>>
                   ELSE <<PacketAt(k)>> \o f[EndAt(k)]
              ELSE f[k + 1]) = Yields(f, k)
  <2>1. CASE k + HeaderSize > N
    BY <2>1 DEF Yields
  <2>2. CASE k + HeaderSize <= N
    <3>1. ~(k + HeaderSize > N) /\ ((LengthAt(k) > MaxPayload \/ EndAt(k) > N) <=> ~Complete(k))
      BY <1>0, <2>2, PlaceAfter DEF Complete
    <3>2. (IF receiver = "client" THEN MagicAt(k) ELSE Decodes(k)) <=> HeaderAt(k)
      BY DEF HeaderAt
    <3>. DEFINE b1 == k + HeaderSize > N
                b2 == LengthAt(k) > MaxPayload \/ EndAt(k) > N
                b3 == IF receiver = "client" THEN MagicAt(k) ELSE Decodes(k)
                v == <<PacketAt(k)>> \o f[EndAt(k)]
    <3>3. Yields(f, k) = IF b1 THEN <<>> ELSE IF HeaderAt(k) THEN IF Complete(k) THEN v ELSE <<>> ELSE f[k + 1]
      BY DEF Yields
    <3>. HIDE DEF b1, b2, b3, v
    <3>4. ~b1 /\ (b2 <=> ~Complete(k)) /\ (b3 <=> HeaderAt(k))
      BY <3>1, <3>2 DEF b1, b2, b3
    <3>5. (IF b1 THEN <<>> ELSE IF b3 THEN IF b2 THEN <<>> ELSE v ELSE f[k + 1]) = Yields(f, k)
      BY <3>3, <3>4
    <3>. QED BY <3>5 DEF b1, b2, b3, v
  <2>. QED BY <1>0, <2>1, <2>2
<1>2. PICK h \in [0..N -> Seq(Packet)] : \A k \in 0..N : h[k] = Yields(h, k)
  BY PacketsExist
<1>3. Solves(h)
  <2>1. h = [k \in 0..N |-> h[k]]
    BY <1>2
  <2>2. \A k \in 0..N : h[k] =
              (IF k + HeaderSize > N THEN <<>>
               ELSE IF IF receiver = "client" THEN MagicAt(k) ELSE Decodes(k)
               THEN IF LengthAt(k) > MaxPayload \/ EndAt(k) > N THEN <<>>
                    ELSE <<PacketAt(k)>> \o h[EndAt(k)]
               ELSE h[k + 1])
    BY <1>1, <1>2
  <2>. HIDE DEF N
  <2>. QED BY <2>1, <2>2
<1>4. Solves(a)
  <2>. HIDE DEF Solves
  <2>. QED BY <1>3
<1>5. \A k \in 0..N : a[k] = Yields(a, k)
  <2>. HIDE DEF a
  <2>1. ASSUME NEW k \in 0..N
        PROVE a[k] =
              (IF k + HeaderSize > N THEN <<>>
               ELSE IF IF receiver = "client" THEN MagicAt(k) ELSE Decodes(k)
               THEN IF LengthAt(k) > MaxPayload \/ EndAt(k) > N THEN <<>>
                    ELSE <<PacketAt(k)>> \o a[EndAt(k)]
               ELSE a[k + 1])
    <3>. HIDE DEF N
    <3>. QED BY <1>4
  <2>. QED BY <1>1, <2>1
<1>6. \A k \in 0..N : a[k] = h[k]
  <2>. HIDE DEF a
  <2>. DEFINE Same(m) == \A k \in 0..N : k >= N - m => a[k] = h[k]
              S == {m \in Nat : Same(m)}
  <2>1. ASSUME NEW k \in 0..N, \A j \in 0..N : j > k => a[j] = h[j] PROVE a[k] = h[k]
    <3>1. Yields(a, k) = Yields(h, k)
      BY <2>1, YieldsLater DEF AgreeAfter
    <3>. QED BY <1>2, <1>5, <3>1
  <2>2. 0 \in S
    <3>1. ASSUME NEW k \in 0..N, k >= N - 0 PROVE a[k] = h[k]
      <4>1. \A j \in 0..N : j > k => a[j] = h[j]
        BY <1>0, <3>1
      <4>. QED BY <2>1, <4>1
    <3>. QED BY <3>1
  <2>3. ASSUME NEW m \in Nat, m \in S PROVE m + 1 \in S
    <3>1. ASSUME NEW k \in 0..N, k >= N - (m + 1) PROVE a[k] = h[k]
      <4>1. \A j \in 0..N : j > k => a[j] = h[j]
        <5>1. \A j \in 0..N : j > k => j >= N - m
          BY <1>0, <3>1
        <5>. QED BY <2>3, <5>1
      <4>. QED BY <2>1, <4>1
    <3>. QED BY <3>1
  <2>4. Same(N)
    <3>. HIDE DEF S
    <3>1. N \in S
      BY <1>0, <2>2, <2>3, Induction
    <3>. QED BY <3>1 DEF S
  <2>. QED BY <1>0, <2>4
<1>7. \A k \in 0..N : PacketsFrom(k) = a[k]
  BY DEF PacketsFrom
<1>. HIDE DEF a
<1>8. ASSUME NEW k \in 0..N, k + HeaderSize <= N
      PROVE  /\ ~HeaderAt(k) => PacketsFrom(k) = PacketsFrom(k + 1)
             /\ HeaderAt(k) /\ Complete(k) => PacketsFrom(k) = <<PacketAt(k)>> \o PacketsFrom(EndAt(k))
  <2>1. k + 1 \in 0..N /\ (Complete(k) => EndAt(k) \in 0..N) /\ ~(k + HeaderSize > N)
    BY <1>0, <1>8, PlaceAfter
  <2>2. a[k] = Yields(a, k)
    BY <1>5
  <2>3. /\ ~HeaderAt(k) => a[k] = a[k + 1]
        /\ HeaderAt(k) /\ Complete(k) => a[k] = <<PacketAt(k)>> \o a[EndAt(k)]
    BY <2>1, <2>2 DEF Yields
  <2>. QED BY <1>7, <2>1, <2>3
<1>. QED BY <1>2, <1>6, <1>7, <1>8

\* Places where no header begins yield what follows them.
LEMMA NoHeaders ==
  ASSUME StreamType, NEW a \in 0..Len(Bytes), NEW b \in 0..Len(Bytes),
         a <= b, b + HeaderSize <= Len(Bytes) + 1,
         \A k \in 0..Len(Bytes) : a <= k /\ k < b => ~HeaderAt(k)
  PROVE  PacketsFrom(a) = PacketsFrom(b)
<1>. DEFINE S == {d \in Nat : a + d <= b => PacketsFrom(a) = PacketsFrom(a + d)}
<1>0. a \in Nat /\ b \in Nat /\ Len(Bytes) \in Nat
  BY BytesType
<1>1. 0 \in S
  BY <1>0
<1>2. ASSUME NEW d \in Nat, d \in S PROVE d + 1 \in S
  <2>. SUFFICES ASSUME a + (d + 1) <= b PROVE PacketsFrom(a) = PacketsFrom(a + (d + 1))
    OBVIOUS
  <2>1. /\ a + d \in 0..Len(Bytes) /\ (a + d) + HeaderSize <= Len(Bytes)
        /\ a <= a + d /\ a + d < b /\ (a + d) + 1 = a + (d + 1)
    BY <1>0 DEF HeaderSize
  <2>2. PacketsFrom(a) = PacketsFrom(a + d)
    BY <1>0, <1>2, <2>1
  <2>3. PacketsFrom(a + d) = PacketsFrom((a + d) + 1)
    BY <2>1, PacketsDef
  <2>. QED BY <2>1, <2>2, <2>3
<1>3. Nat \subseteq S
  <2>. HIDE DEF S
  <2>. QED BY <1>1, <1>2, Induction
<1>4. b - a \in Nat /\ a + (b - a) = b
  BY <1>0
<1>. QED BY <1>0, <1>3, <1>4

-----------------------------------------------------------------------------
(* Framing: the inductive invariant *)

\* The first header at or after the place where the packet's reading began.
Found(i) ==
    /\ i \in Nat /\ first <= i /\ HeaderAt(i)
    /\ \A k \in 0..Len(Bytes) : first <= k /\ k < i => ~HeaderAt(k)

\* Where a receiver stands.
Position ==
    /\ fetched \in 0..Len(Bytes) /\ consumed \in 0..fetched /\ first \in 0..consumed
    /\ phase \in {"magic", "header", "payload"}
    /\ out \in Seq(Packet)
    /\ broken \in BOOLEAN

\* What it knows of the bytes between first and consumed.
Window ==
    /\ receiver # "client" => phase = "header" /\ first = consumed /\ ~broken
    /\ receiver = "client" =>
         /\ phase = "magic" =>
              /\ ~broken
              /\ \A k \in 0..Len(Bytes) : first <= k /\ k + 2 <= consumed => ~HeaderAt(k)
         /\ phase = "header" /\ ~broken => Found(consumed - 2)
         /\ phase = "payload" =>
              /\ ~broken /\ Found(consumed - HeaderSize)
              /\ LengthAt(consumed - HeaderSize) <= MaxPayload

Aligned == leftover = <<>> \/ \E j \in 1..Len(out) : NumberOf(out[j]) # 0
Recognised(n) == \E j \in 1..Len(out) : NumberOf(out[j]) = n

\* A receiver that has found the boundaries is at one of them, behind the packet
\* with the greatest number so far.
Settled ==
    Aligned =>
      /\ ~broken
      /\ \E n \in 0..Count :
            /\ first = Len(BytesUpTo[n])
            /\ n = 0 \/ Recognised(n)
            /\ \A j \in 1..Len(out) : NumberOf(out[j]) <= n

FramingInv ==
    StreamType /\ Position /\ Window /\ CutsAreInvisible /\ Settled /\ LostOnlySwallowed

\* Nothing that is said of the stream alone changes as long as it does not.
LEMMA SameStream ==
  ASSUME UNCHANGED stream
  PROVE  /\ BytesUpTo' = BytesUpTo /\ Bytes' = Bytes /\ Packet' = Packet
         /\ StreamType => StreamType'
         /\ \A i : /\ HeaderAt(i)' <=> HeaderAt(i)
                   /\ LengthAt(i)' = LengthAt(i)
                   /\ PacketsFrom(i)' = PacketsFrom(i)
         /\ \A n : StartOf(n)' = StartOf(n)
         /\ \A p, n : Is(p, n)' <=> Is(p, n)
         /\ \A p : NumberOf(p)' = NumberOf(p)
<1>1. BytesUpTo' = BytesUpTo
  BY DEF BytesUpTo, stream, Encode
<1>2. Bytes' = Bytes
  BY <1>1 DEF Bytes
<1>3. Packet' = Packet
  BY <1>2 DEF Packet, Complete, PacketAt, LengthAt, EndAt
<1>4. StreamType => StreamType'
  BY DEF StreamType, stream
<1>5. \A i : HeaderAt(i)' <=> HeaderAt(i)
  BY <1>2 DEF HeaderAt, MagicAt, Decodes, VersionAt, LengthAt, stream
<1>6. \A i : LengthAt(i)' = LengthAt(i)
  BY <1>2 DEF LengthAt
<1>7. \A i : PacketsFrom(i)' = PacketsFrom(i)
  BY DEF PacketsFrom, BytesUpTo, stream, Encode, Bytes, MagicAt, Decodes, LengthAt, EndAt,
         PacketAt, VersionAt
<1>8. \A n : StartOf(n)' = StartOf(n)
  BY <1>1 DEF StartOf
<1>9. \A p, n : Is(p, n)' <=> Is(p, n)
  BY <1>1 DEF Is, StartOf, stream
<1>10. \A p : NumberOf(p)' = NumberOf(p)
  BY <1>1 DEF NumberOf, Is, StartOf, stream
<1>. QED BY <1>1, <1>2, <1>3, <1>4, <1>5, <1>6, <1>7, <1>8, <1>9, <1>10

\* The boundaries found, and a header's worth of bytes left: here begins the
\* packet after the last one recognised.
LEMMA NextPacket ==
  ASSUME StreamType, Position, Settled, Aligned, first + HeaderSize <= Len(Bytes)
  PROVE  \E n \in 1..Count :
            /\ first = StartOf(n)
            /\ n = 1 \/ Recognised(n - 1)
            /\ \A j \in 1..Len(out) : NumberOf(out[j]) < n
<1>1. PICK m \in 0..Count :
            /\ first = Len(BytesUpTo[m])
            /\ m = 0 \/ Recognised(m)
            /\ \A j \in 1..Len(out) : NumberOf(out[j]) <= m
  BY DEF Settled
<1>2. Count \in Nat /\ first \in Nat /\ Len(Bytes) \in Nat
  BY Format, BytesType DEF Position
<1>3. m # Count
  BY <1>1, <1>2 DEF Bytes, HeaderSize
<1>. DEFINE n == m + 1
<1>4. n \in 1..Count /\ n - 1 = m
  BY <1>2, <1>3
<1>5. first = StartOf(n)
  BY <1>1, <1>4 DEF StartOf
<1>6. n = 1 \/ Recognised(n - 1)
  BY <1>1, <1>4
<1>7. \A j \in 1..Len(out) : NumberOf(out[j]) < n
  <2>1. \A j \in 1..Len(out) : NumberOf(out[j]) \in 0..Count
    BY Numbered
  <2>. QED BY <1>1, <1>2, <2>1
<1>. QED BY <1>4, <1>5, <1>6, <1>7

\* A packet that can be handed up: its header is the first there is, and it is all there.
Ready(i) ==
    /\ Found(i) /\ ~broken
    /\ i + HeaderSize <= fetched /\ LengthAt(i) <= MaxPayload /\ EndAt(i) <= fetched

LEMMA ReadyPlace ==
  ASSUME NEW i, StreamType, Position, Ready(i)
  PROVE  /\ i \in 0..Len(Bytes) /\ i + HeaderSize <= Len(Bytes) /\ Complete(i)
         /\ first \in 0..Len(Bytes) /\ first <= i /\ HeaderAt(i) /\ LengthAt(i) \in Nat
         /\ EndAt(i) \in 0..fetched /\ EndAt(i) > i /\ EndAt(i) = i + HeaderSize + LengthAt(i)
         /\ PacketAt(i) \in Packet
         /\ \A k \in 0..Len(Bytes) : first <= k /\ k < i => ~HeaderAt(k)
<1>1. /\ i \in Nat /\ first \in Nat /\ consumed \in Nat /\ fetched \in Nat /\ Len(Bytes) \in Nat
      /\ first <= i /\ HeaderAt(i) /\ fetched <= Len(Bytes) /\ first <= consumed /\ consumed <= fetched
      /\ \A k \in 0..Len(Bytes) : first <= k /\ k < i => ~HeaderAt(k)
  BY BytesType DEF Ready, Found, Position
<1>2. i + HeaderSize <= fetched /\ LengthAt(i) <= MaxPayload /\ EndAt(i) <= fetched
  BY DEF Ready
<1>3. i \in 0..Len(Bytes) /\ i + HeaderSize <= Len(Bytes) /\ first \in 0..Len(Bytes)
  BY <1>1, <1>2 DEF HeaderSize
<1>4. LengthAt(i) \in Nat /\ EndAt(i) \in Nat /\ EndAt(i) = i + HeaderSize + LengthAt(i) /\ EndAt(i) > i
  BY <1>3, PlaceAfter, <1>1 DEF HeaderSize
<1>5. Complete(i) /\ EndAt(i) \in 0..fetched
  BY <1>1, <1>2, <1>4 DEF Complete
<1>6. PacketAt(i) \in Packet
  BY <1>3, <1>5 DEF Packet
<1>. QED BY <1>1, <1>3, <1>4, <1>5, <1>6

\* The packet at a place, whose number is n or 0.
LEMMA ReadyNumber ==
  ASSUME NEW i, StreamType, Position, Ready(i)
  PROVE  /\ NumberOf(PacketAt(i)) # 0 =>
              /\ NumberOf(PacketAt(i)) \in 1..Count
              /\ i = StartOf(NumberOf(PacketAt(i)))
              /\ EndAt(i) = Len(BytesUpTo[NumberOf(PacketAt(i))])
         /\ \A n \in 1..Count : i = StartOf(n) => NumberOf(PacketAt(i)) = n
<1>1. ASSUME NEW n \in 1..Count, Is(PacketAt(i), n) PROVE i = StartOf(n)
  <2>1. PacketAt(i).at = StartOf(n)
    BY <1>1 DEF Is
  <2>. QED BY <2>1 DEF PacketAt
<1>2. ASSUME NEW n \in 1..Count, i = StartOf(n)
      PROVE  NumberOf(PacketAt(i)) = n /\ EndAt(i) = Len(BytesUpTo[n])
  BY <1>2, PacketThere, Numbered
<1>3. ASSUME NumberOf(PacketAt(i)) # 0
      PROVE  NumberOf(PacketAt(i)) \in 1..Count /\ Is(PacketAt(i), NumberOf(PacketAt(i)))
  BY <1>3, Numbered
<1>. QED BY <1>1, <1>2, <1>3

\* A receiver that has found the boundaries hands up the next packet and no other.
LEMMA ReadyIsNext ==
  ASSUME NEW i, StreamType, Position, Settled, Aligned, Ready(i)
  PROVE  /\ i = first
         /\ NumberOf(PacketAt(i)) \in 1..Count
         /\ NumberOf(PacketAt(i)) = 1 \/ Recognised(NumberOf(PacketAt(i)) - 1)
         /\ \A j \in 1..Len(out) : NumberOf(out[j]) < NumberOf(PacketAt(i))
<1>1. /\ i \in 0..Len(Bytes) /\ i + HeaderSize <= Len(Bytes) /\ first \in 0..Len(Bytes) /\ first <= i
      /\ \A k \in 0..Len(Bytes) : first <= k /\ k < i => ~HeaderAt(k)
  BY ReadyPlace
<1>2. Len(Bytes) \in Nat /\ first + HeaderSize <= Len(Bytes)
  BY <1>1, BytesType DEF HeaderSize
<1>3. PICK n \in 1..Count :
            /\ first = StartOf(n)
            /\ n = 1 \/ Recognised(n - 1)
            /\ \A j \in 1..Len(out) : NumberOf(out[j]) < n
  BY <1>2, NextPacket
<1>4. HeaderAt(first)
  BY <1>3, PacketThere
<1>5. i = first
  BY <1>1, <1>2, <1>4
<1>6. NumberOf(PacketAt(i)) = n
  BY <1>3, <1>5, ReadyNumber
<1>. QED BY <1>3, <1>5, <1>6

-----------------------------------------------------------------------------
(* Framing: what handing a packet up keeps *)

LEMMA AppendThen ==
  ASSUME NEW T, NEW s \in Seq(T), NEW t \in Seq(T), NEW p \in T
  PROVE  Append(s, p) \o t = s \o (<<p>> \o t)
<1>1. Append(s, p) = s \o <<p>> /\ <<p>> \in Seq(T)
  OBVIOUS
<1>. QED BY <1>1, ConcatAssociative

\* One packet more in out, with its number.
LEMMA OutGrows ==
  ASSUME NEW i, StreamType, Position, Ready(i), HandUp(i)
  PROVE  /\ UNCHANGED stream /\ out' \in Seq(Packet)
         /\ Len(out) \in Nat /\ Len(out') = Len(out) + 1
         /\ out'[Len(out) + 1] = PacketAt(i)
         /\ \A j \in 1..Len(out) : out'[j] = out[j] /\ j \in 1..Len(out')
         /\ \A j \in 1..Len(out') : j \in 1..Len(out) \/ j = Len(out) + 1
<1>. DEFINE p == PacketAt(i)
<1>1. out \in Seq(Packet) /\ p \in Packet /\ out' = Append(out, p) /\ UNCHANGED stream
  BY ReadyPlace DEF Position, HandUp
<1>. HIDE DEF p
<1>2. /\ out' \in Seq(Packet) /\ Len(out) \in Nat /\ Len(out') = Len(out) + 1
      /\ out'[Len(out) + 1] = p /\ \A j \in 1..Len(out) : out'[j] = out[j]
  BY <1>1
<1>3. /\ \A j \in 1..Len(out) : j \in 1..Len(out')
      /\ \A j \in 1..Len(out') : j \in 1..Len(out) \/ j = Len(out) + 1
  BY <1>2
<1>. QED BY <1>1, <1>2, <1>3 DEF p

\* What the stream will have yielded in the end stays the same.
LEMMA ReadyCuts ==
  ASSUME NEW i, StreamType, Position, CutsAreInvisible, Ready(i), HandUp(i)
  PROVE  CutsAreInvisible'
<1>. DEFINE p == PacketAt(i)
            t == PacketsFrom(EndAt(i))
<1>1. /\ i \in 0..Len(Bytes) /\ i + HeaderSize <= Len(Bytes) /\ Complete(i) /\ HeaderAt(i)
      /\ first \in 0..Len(Bytes) /\ first <= i
      /\ EndAt(i) \in 0..fetched /\ EndAt(i) > i /\ p \in Packet
      /\ \A k \in 0..Len(Bytes) : first <= k /\ k < i => ~HeaderAt(k)
  BY ReadyPlace
<1>2. fetched \in Nat /\ Len(Bytes) \in Nat /\ fetched <= Len(Bytes)
  BY BytesType DEF Position
<1>3. i + HeaderSize <= Len(Bytes) + 1 /\ EndAt(i) \in 0..Len(Bytes)
  BY <1>1, <1>2 DEF HeaderSize
<1>4. PacketsFrom(first) = PacketsFrom(i)
  BY <1>1, <1>3, NoHeaders
<1>5. PacketsFrom(i) = <<p>> \o t /\ t \in Seq(Packet)
  BY <1>1, <1>3, PacketsDef
<1>6. out \in Seq(Packet) /\ out \o PacketsFrom(first) = PacketsFrom(0)
  BY DEF Position, CutsAreInvisible
<1>7. /\ out' = Append(out, p) /\ first' = EndAt(i) /\ consumed' = EndAt(i) /\ fetched' = fetched
      /\ UNCHANGED stream
  BY DEF HandUp
<1>. HIDE DEF p, t
<1>8. out' \o t = out \o (<<p>> \o t)
  BY <1>1, <1>5, <1>6, <1>7, AppendThen
<1>9. out' \o t = PacketsFrom(0)
  BY <1>4, <1>5, <1>6, <1>8
<1>10. PacketsFrom(first)' = t /\ PacketsFrom(0)' = PacketsFrom(0)
  BY <1>7, SameStream DEF t
<1>11. first' <= consumed' /\ consumed' <= fetched'
  BY <1>1, <1>2, <1>7
<1>. QED BY <1>9, <1>10, <1>11 DEF CutsAreInvisible

\* The receiver is behind the packet with the greatest number.
LEMMA ReadySettled ==
  ASSUME NEW i, StreamType, Position, Settled, Ready(i), HandUp(i)
  PROVE  Settled'
<1>. DEFINE n == NumberOf(PacketAt(i))
            z == Len(out) + 1
<1>1. /\ Len(out) \in Nat /\ Len(out') = z /\ out'[z] = PacketAt(i)
      /\ \A j \in 1..Len(out) : out'[j] = out[j] /\ j \in 1..Len(out')
      /\ \A j \in 1..Len(out') : j \in 1..Len(out) \/ j = z
      /\ UNCHANGED stream
  BY OutGrows
<1>2. ~broken' /\ first' = EndAt(i) /\ leftover' = leftover
  BY DEF Ready, HandUp, stream
<1>3. \A p : NumberOf(p)' = NumberOf(p)
  BY <1>1, SameStream
<1>4. BytesUpTo' = BytesUpTo
  BY <1>1, SameStream
<1>5. \A j \in 1..Len(out) : NumberOf(out[j]) \in 0..Count
  BY Numbered
<1>6. CASE n # 0
  <2>1. n \in 1..Count /\ EndAt(i) = Len(BytesUpTo[n])
    BY <1>6, ReadyNumber
  <2>. HIDE DEF n
  <2>2. \A j \in 1..Len(out) : NumberOf(out[j]) <= n
    <3>1. CASE Aligned
      <4>1. \A j \in 1..Len(out) : NumberOf(out[j]) < n
        BY <3>1, ReadyIsNext DEF n
      <4>. QED BY <4>1, <2>1, <1>5
    <3>2. CASE ~Aligned
      <4>1. \A j \in 1..Len(out) : NumberOf(out[j]) = 0
        BY <3>2 DEF Aligned
      <4>. QED BY <2>1, <4>1
    <3>. QED BY <3>1, <3>2
  <2>3. \A j \in 1..Len(out') : NumberOf(out'[j]) <= n
    <3>1. NumberOf(out'[z]) <= n
      BY <1>1, <2>1 DEF n
    <3>. QED BY <1>1, <2>2, <3>1
  <2>4. z \in 1..Len(out') /\ NumberOf(out'[z]) = n
    BY <1>1 DEF n
  <2>5. n \in 0..Count /\ first' = Len(BytesUpTo[n])
    BY <1>2, <2>1
  <2>. QED BY <1>2, <1>3, <1>4, <2>3, <2>4, <2>5 DEF Settled, Recognised
<1>7. CASE n = 0
  <2>1. ~Aligned
    BY <1>7, ReadyIsNext
  <2>2. \A j \in 1..Len(out') : NumberOf(out'[j]) = 0
    BY <1>1, <1>7, <2>1 DEF Aligned
  <2>3. ~Aligned'
    BY <1>2, <1>3, <2>1, <2>2 DEF Aligned
  <2>. QED BY <2>3 DEF Settled
<1>. QED BY <1>6, <1>7

\* q never was sent and lies over the first byte of packet n.
LiesOver(q, n) ==
    NumberOf(q) = 0 /\ q.at < StartOf(n) /\ StartOf(n) < q.at + HeaderSize + Len(q.payload)

LEMMA SwallowedStays ==
  ASSUME UNCHANGED stream, NEW n,
         \E j \in 1..Len(out') : LiesOver(out'[j], n)
  PROVE  Swallowed(n)'
<1>1. PICK j \in 1..Len(out') : LiesOver(out'[j], n)
  OBVIOUS
<1>2. \A q, m : LiesOver(q, m)' <=> LiesOver(q, m)
  BY SameStream DEF LiesOver
<1>3. LiesOver(out[j], n)'
  BY <1>1, <1>2
<1>. QED BY <1>3 DEF Swallowed, LiesOver

\* What was handed up stays handed up.
LEMMA StaysOut ==
  ASSUME NEW i, StreamType, Position, Ready(i), HandUp(i), NEW n \in 1..Count,
         \/ \E j \in 1..Len(out) : Is(out[j], n)
         \/ Swallowed(n)
  PROVE  \/ \E j \in 1..Len(out') : Is(out[j], n)'
         \/ Swallowed(n)'
<1>1. /\ \A j \in 1..Len(out) : out'[j] = out[j] /\ j \in 1..Len(out')
      /\ UNCHANGED stream
  BY OutGrows
<1>2. /\ \A p, m : Is(p, m)' <=> Is(p, m)
      /\ \A p : NumberOf(p)' = NumberOf(p)
      /\ \A m : StartOf(m)' = StartOf(m)
  BY <1>1, SameStream
<1>3. CASE \E j \in 1..Len(out) : Is(out[j], n)
  BY <1>1, <1>2, <1>3
<1>4. CASE Swallowed(n)
  <2>1. PICK j \in 1..Len(out) : LiesOver(out[j], n)
    BY <1>4 DEF Swallowed, LiesOver
  <2>2. j \in 1..Len(out') /\ LiesOver(out'[j], n)
    BY <1>1, <2>1
  <2>. QED BY <1>1, <2>2, SwallowedStays
<1>. QED BY <1>3, <1>4

\* The payload of a packet is as long as its header says.
LEMMA PayloadLength ==
  ASSUME NEW i, StreamType, Position, Ready(i)
  PROVE  PacketAt(i).at = i /\ i + HeaderSize + Len(PacketAt(i).payload) = EndAt(i)
<1>. DEFINE l == LengthAt(i)
            a == i + HeaderSize + 1
            z == i + HeaderSize + l
            s == SubSeq(Bytes, a, z)
<1>1. /\ i \in Nat /\ l \in Nat /\ EndAt(i) = i + HeaderSize + l /\ Complete(i)
      /\ EndAt(i) \in Nat /\ HeaderSize = 6 /\ Len(Bytes) \in Nat /\ Bytes \in Seq(Nat)
  BY ReadyPlace, BytesType DEF HeaderSize
<1>2. z <= Len(Bytes)
  BY <1>1 DEF Complete
<1>3. a \in Int /\ z \in Int /\ z - a + 1 = l /\ (l = 0 <=> ~(a <= z)) /\ \A j \in a..z : j \in 1..Len(Bytes)
  <2>. HIDE DEF l
  <2>. QED BY <1>1, <1>2
<1>4. \A j \in a..z : Bytes[j] \in Nat
  BY <1>1, <1>3, ElementOfSeq
<1>. HIDE DEF a, z
<1>5. Len(s) = IF a <= z THEN z - a + 1 ELSE 0
  BY <1>3, <1>4, SubSeqProperties
<1>. HIDE DEF s
<1>6. Len(s) = l
  BY <1>3, <1>5
<1>7. PacketAt(i).at = i /\ PacketAt(i).payload = s
  BY <1>1 DEF PacketAt, s, a, z
<1>. QED BY <1>1, <1>6, <1>7

\* No packet is passed over, except where one that never was sent lies on it.
LEMMA ReadyLost ==
  ASSUME NEW i, StreamType, Position, LostOnlySwallowed, Ready(i), HandUp(i)
  PROVE  LostOnlySwallowed'
<1>. DEFINE p == PacketAt(i)
            z == Len(out) + 1
<1>1. /\ Len(out) \in Nat /\ Len(out') = z /\ out'[z] = p /\ z \in 1..Len(out')
      /\ UNCHANGED stream
  BY OutGrows
<1>2. /\ \A q, m : Is(q, m)' <=> Is(q, m)
      /\ \A q : NumberOf(q)' = NumberOf(q)
      /\ \A m : StartOf(m)' = StartOf(m)
  BY <1>1, SameStream
<1>3. /\ first' = EndAt(i)
      /\ i \in 0..Len(Bytes) /\ first \in 0..Len(Bytes) /\ first <= i /\ EndAt(i) > i /\ EndAt(i) \in Nat
      /\ \A k \in 0..Len(Bytes) : first <= k /\ k < i => ~HeaderAt(k)
  BY ReadyPlace DEF HandUp, Position
<1>4. p.at = i /\ i + HeaderSize + Len(p.payload) = EndAt(i)
  BY PayloadLength
<1>5. Len(Bytes) \in Nat
  BY BytesType
<1>. HIDE DEF p
<1>6. ASSUME NEW n \in 1..Count, first' > StartOf(n)
      PROVE  \/ \E j \in 1..Len(out') : Is(out[j], n)'
             \/ Swallowed(n)'
  <2>. DEFINE s == StartOf(n)
  <2>0. s \in Nat
    BY BytesType
  <2>1. CASE s < first
    <3>1. \/ \E j \in 1..Len(out) : Is(out[j], n)
          \/ Swallowed(n)
      BY <1>3, <2>0, <2>1 DEF LostOnlySwallowed
    <3>. QED BY <3>1, StaysOut
  <2>2. CASE first <= s /\ s < i
    <3>1. HeaderAt(s)
      BY PacketThere
    <3>. QED BY <1>3, <1>5, <2>0, <2>2, <3>1
  <2>3. CASE s = i
    <3>1. Is(p, n)
      BY <2>3, PacketThere DEF p
    <3>. QED BY <1>1, <1>2, <3>1
  <2>4. CASE i < s
    <3>1. s < EndAt(i)
      BY <1>3, <1>6, <2>0
    <3>2. NumberOf(p) = 0
      <4>. DEFINE m == NumberOf(p)
      <4>1. SUFFICES ASSUME m # 0 PROVE FALSE
        OBVIOUS
      <4>2. m \in 1..Count /\ i = StartOf(m) /\ EndAt(i) = Len(BytesUpTo[m])
        BY <4>1, ReadyNumber DEF p
      <4>. HIDE DEF m
      <4>3. n \in Nat /\ m \in Nat /\ Count \in Nat
        BY <4>2, Format
      <4>4. CASE n = m
        BY <1>3, <2>0, <2>4, <4>2, <4>4
      <4>5. CASE n < m
        <5>1. StartOf(n) < Len(BytesUpTo[n]) /\ Len(BytesUpTo[n]) <= StartOf(m)
          BY <4>2, <4>5, StartsAscend
        <5>2. Len(BytesUpTo[n]) \in Nat
          BY BytesType, Format
        <5>. QED BY <1>3, <2>0, <2>4, <4>2, <5>1, <5>2
      <4>6. CASE m < n
        <5>1. Len(BytesUpTo[m]) <= StartOf(n)
          BY <4>2, <4>6, StartsAscend
        <5>. QED BY <1>3, <2>0, <3>1, <4>2, <5>1
      <4>. QED BY <4>3, <4>4, <4>5, <4>6
    <3>3. LiesOver(out'[z], n)
      BY <1>1, <1>4, <2>4, <3>1, <3>2 DEF LiesOver
    <3>. QED BY <1>1, <3>3, SwallowedStays
  <2>5. i \in Nat /\ first \in Nat
    BY <1>3
  <2>. QED BY <2>0, <2>1, <2>2, <2>3, <2>4, <2>5
<1>7. ASSUME NEW n \in 1..Count, first' > StartOf(n)' PROVE first' > StartOf(n)
  BY <1>2, <1>7
<1>. QED BY <1>6, <1>7 DEF LostOnlySwallowed

-----------------------------------------------------------------------------
(* Framing: the steps *)

\* A step that neither hands up nor drops anything.
LEMMA OutStays ==
  ASSUME UNCHANGED <<stream, first, out>>
  PROVE  /\ CutsAreInvisible /\ first' <= consumed' /\ consumed' <= fetched' => CutsAreInvisible'
         /\ LostOnlySwallowed => LostOnlySwallowed'
         /\ Settled /\ (Aligned => ~broken') => Settled'
         /\ Aligned' <=> Aligned
<1>1. UNCHANGED stream /\ first' = first /\ out' = out /\ leftover' = leftover
  BY DEF stream
<1>2. /\ BytesUpTo' = BytesUpTo /\ \A i : PacketsFrom(i)' = PacketsFrom(i)
      /\ \A p, m : Is(p, m)' <=> Is(p, m)
      /\ \A p : NumberOf(p)' = NumberOf(p)
      /\ \A m : StartOf(m)' = StartOf(m)
  BY <1>1, SameStream
<1>3. CutsAreInvisible /\ first' <= consumed' /\ consumed' <= fetched' => CutsAreInvisible'
  BY <1>1, <1>2 DEF CutsAreInvisible
<1>4. Aligned' <=> Aligned
  BY <1>1, <1>2 DEF Aligned
<1>5. Settled /\ (Aligned => ~broken') => Settled'
  BY <1>1, <1>2, <1>4 DEF Settled, Recognised
<1>6. ASSUME LostOnlySwallowed, NEW n \in 1..Count, first' > StartOf(n)'
      PROVE  \/ \E j \in 1..Len(out') : Is(out[j], n)'
             \/ Swallowed(n)'
  <2>1. \/ \E j \in 1..Len(out) : Is(out[j], n)
        \/ \E j \in 1..Len(out) : LiesOver(out[j], n)
    BY <1>1, <1>2, <1>6 DEF LostOnlySwallowed, Swallowed, LiesOver
  <2>2. CASE \E j \in 1..Len(out) : Is(out[j], n)
    BY <1>1, <1>2, <2>2
  <2>3. CASE \E j \in 1..Len(out) : LiesOver(out[j], n)
    <3>1. \E j \in 1..Len(out') : LiesOver(out'[j], n)
      BY <1>1, <2>3
    <3>. QED BY <1>1, <3>1, SwallowedStays
  <2>. QED BY <2>1, <2>2, <2>3
<1>. QED BY <1>3, <1>4, <1>5, <1>6 DEF LostOnlySwallowed

\* The numbers in Position and what they are to each other.
LEMMA PositionOrder ==
  ASSUME StreamType, Position
  PROVE  /\ first \in Nat /\ consumed \in Nat /\ fetched \in Nat /\ Len(Bytes) \in Nat
         /\ first <= consumed /\ consumed <= fetched /\ fetched <= Len(Bytes)
BY BytesType DEF Position

LEMMA FramingInit == StreamInit => FramingInv
<1>. SUFFICES ASSUME StreamInit PROVE FramingInv
  OBVIOUS
<1>1. /\ receiver \in {"usbHost", "tcpHost", "client"}
      /\ receiver = "tcpHost" => leftover = <<>>
      /\ packets \in [1..Count -> Contents]
      /\ fetched = 0 /\ consumed = 0 /\ first = 0 /\ out = <<>> /\ broken = FALSE
      /\ phase = IF receiver = "client" THEN "magic" ELSE "header"
  BY DEF StreamInit
<1>2. leftover \in Seq(Nat)
  <2>1. CASE leftover = <<>>
    BY <2>1
  <2>2. CASE \E c \in Contents : leftover \in Torn(Encode(c, 0))
    <3>1. PICK c \in Contents : leftover \in Torn(Encode(c, 0))
      BY <2>2
    <3>. DEFINE e == Encode(c, 0)
    <3>2. e \in Seq(Nat)
      BY Encoded
    <3>. HIDE DEF e
    <3>3. PICK i \in 1..Len(e) : leftover = SubSeq(e, 1, i) \/ leftover = SubSeq(e, i, Len(e))
      BY <3>1, <3>2 DEF Torn, e
    <3>4. Len(e) \in Nat /\ i \in Int /\ 1 \in Int /\ Len(e) \in Int
      BY <3>2
    <3>5. /\ \A j \in 1..i : e[j] \in Nat
          /\ \A j \in i..Len(e) : e[j] \in Nat
      <4>1. \A j \in 1..Len(e) : e[j] \in Nat
        BY <3>2, ElementOfSeq
      <4>. QED BY <3>4, <4>1
    <3>6. SubSeq(e, 1, i) \in Seq(Nat)
      BY <3>4, <3>5, SubSeqProperties
    <3>7. SubSeq(e, i, Len(e)) \in Seq(Nat)
      BY <3>4, <3>5, SubSeqProperties
    <3>. QED BY <3>3, <3>6, <3>7
  <2>. QED BY <2>1, <2>2 DEF StreamInit
<1>3. StreamType
  BY <1>1, <1>2 DEF StreamType
<1>4. Len(Bytes) \in Nat /\ \A n \in 1..Count : StartOf(n) \in Nat
  BY <1>3, BytesType
<1>5. Position
  <2>1. 0 \in 0..Len(Bytes) /\ 0 \in 0..0 /\ out \in Seq(Packet)
    BY <1>1, <1>4
  <2>. QED BY <1>1, <2>1 DEF Position
<1>6. Window
  BY <1>1 DEF Window
<1>7. CutsAreInvisible
  <2>1. PacketsFrom(0) \in Seq(Packet)
    <3>1. 0 \in 0..Len(Bytes)
      BY <1>4
    <3>. QED BY <1>3, <3>1, PacketsDef
  <2>2. <<>> \o PacketsFrom(0) = PacketsFrom(0)
    BY <2>1, ConcatEmptySeq
  <2>. QED BY <1>1, <2>2 DEF CutsAreInvisible
<1>8. Settled
  <2>1. ASSUME Aligned PROVE first = Len(BytesUpTo[0]) /\ 0 \in 0..Count
    <3>1. leftover = <<>>
      BY <1>1, <2>1 DEF Aligned
    <3>2. BytesUpTo[0] = <<>> /\ Len(<<>>) = 0
      BY <1>3, <3>1, BytesDef
    <3>. QED BY <1>1, <3>2, Format
  <2>. QED BY <1>1, <2>1 DEF Settled
<1>9. LostOnlySwallowed
  BY <1>1, <1>4 DEF LostOnlySwallowed
<1>. QED BY <1>3, <1>5, <1>6, <1>7, <1>8, <1>9 DEF FramingInv

LEMMA FetchKeeps == FramingInv /\ Fetch => FramingInv'
<1>. SUFFICES ASSUME FramingInv, Fetch PROVE FramingInv'
  OBVIOUS
<1>. USE DEF FramingInv
<1>1. /\ fetched' \in (fetched + 1)..Len(Bytes) /\ UNCHANGED stream
      /\ consumed' = consumed /\ phase' = phase /\ first' = first /\ out' = out /\ broken' = broken
  BY DEF Fetch
<1>2. /\ Bytes' = Bytes /\ Packet' = Packet /\ StreamType'
      /\ \A i : (HeaderAt(i)' <=> HeaderAt(i)) /\ LengthAt(i)' = LengthAt(i)
  BY <1>1, SameStream
<1>3. Position'
  <2>1. fetched' \in 0..Len(Bytes) /\ consumed \in 0..fetched' /\ first \in 0..consumed
    BY <1>1, PositionOrder
  <2>. QED BY <1>1, <1>2, <2>1 DEF Position
<1>4. Window'
  BY <1>1, <1>2 DEF Window, Found, stream
<1>5. CutsAreInvisible' /\ LostOnlySwallowed' /\ Settled'
  <2>1. first' <= consumed' /\ consumed' <= fetched' /\ (Aligned => ~broken')
    BY <1>1, PositionOrder DEF Settled
  <2>. QED BY <1>1, <2>1, OutStays
<1>. QED BY <1>2, <1>3, <1>4, <1>5

\* What the hosts take is ready.
LEMMA HostTakeReady ==
  ASSUME FramingInv, HostTake
  PROVE  Ready(consumed) /\ HandUp(consumed) /\ receiver # "client"
<1>. USE DEF FramingInv
<1>1. /\ receiver # "client" /\ first = consumed /\ ~broken
      /\ fetched - consumed >= HeaderSize /\ Decodes(consumed) /\ fetched >= EndAt(consumed)
      /\ HandUp(consumed)
  BY DEF HostTake, Available, Window
<1>2. HeaderAt(consumed) /\ LengthAt(consumed) <= MaxPayload
  BY <1>1 DEF HeaderAt, Decodes
<1>3. consumed \in Nat /\ fetched \in Nat /\ Len(Bytes) \in Nat /\ consumed + HeaderSize <= fetched
  BY <1>1, PositionOrder DEF HeaderSize
<1>4. Found(consumed)
  BY <1>1, <1>2, <1>3 DEF Found
<1>5. consumed \in 0..Len(Bytes) /\ consumed + HeaderSize <= Len(Bytes)
  BY <1>3, PositionOrder DEF HeaderSize
<1>6. EndAt(consumed) \in Nat
  BY <1>5, PlaceAfter
<1>7. EndAt(consumed) <= fetched
  BY <1>1, <1>3, <1>6
<1>. QED BY <1>1, <1>2, <1>3, <1>4, <1>7 DEF Ready

\* And what the client takes.
LEMMA ClientPayloadReady ==
  ASSUME FramingInv, ClientPayload
  PROVE  Ready(consumed - HeaderSize) /\ HandUp(consumed - HeaderSize) /\ receiver = "client"
<1>. USE DEF FramingInv
<1>. DEFINE i == consumed - HeaderSize
<1>1. /\ receiver = "client" /\ ~broken /\ Found(i) /\ LengthAt(i) <= MaxPayload
      /\ fetched - consumed >= LengthAt(i) /\ HandUp(i)
  BY DEF ClientPayload, Available, Window
<1>2. /\ i \in Nat /\ i + HeaderSize = consumed /\ consumed \in Nat /\ fetched \in Nat
      /\ i \in 0..Len(Bytes) /\ i + HeaderSize <= Len(Bytes) /\ i + HeaderSize <= fetched
  <2>1. i \in Nat
    BY <1>1 DEF Found
  <2>. QED BY <2>1, PositionOrder DEF HeaderSize
<1>3. LengthAt(i) \in Nat /\ EndAt(i) = consumed + LengthAt(i)
  BY <1>2, PlaceAfter
<1>4. EndAt(i) <= fetched
  BY <1>1, <1>2, <1>3
<1>. QED BY <1>1, <1>2, <1>4 DEF Ready

\* A packet handed up: everything but Window.
LEMMA HandUpKeeps ==
  ASSUME FramingInv, NEW i, Ready(i), HandUp(i), phase' \in {"magic", "header", "payload"}
  PROVE  StreamType' /\ Position' /\ CutsAreInvisible' /\ Settled' /\ LostOnlySwallowed'
<1>. USE DEF FramingInv
<1>1. CutsAreInvisible' /\ Settled' /\ LostOnlySwallowed'
  BY ReadyCuts, ReadySettled, ReadyLost
<1>2. /\ UNCHANGED stream /\ out' \in Seq(Packet)
      /\ consumed' = EndAt(i) /\ first' = EndAt(i) /\ fetched' = fetched /\ broken' = broken
  BY OutGrows DEF HandUp
<1>3. Bytes' = Bytes /\ Packet' = Packet /\ StreamType'
  BY <1>2, SameStream
<1>4. EndAt(i) \in 0..fetched
  BY ReadyPlace
<1>5. Position'
  <2>1. EndAt(i) \in 0..EndAt(i) /\ fetched \in 0..Len(Bytes)
    BY <1>4, PositionOrder
  <2>. QED BY <1>2, <1>3, <1>4, <2>1 DEF Position
<1>. QED BY <1>1, <1>3, <1>5

LEMMA HostTakeKeeps == FramingInv /\ HostTake => FramingInv'
<1>. SUFFICES ASSUME FramingInv, HostTake PROVE FramingInv'
  OBVIOUS
<1>1. Ready(consumed) /\ HandUp(consumed) /\ receiver # "client"
  BY HostTakeReady
<1>2. phase = "header" /\ phase' = "header" /\ receiver' = receiver /\ ~broken
      /\ consumed' = first' /\ broken' = broken
  BY <1>1 DEF FramingInv, Window, HostTake, HandUp, stream
<1>3. StreamType' /\ Position' /\ CutsAreInvisible' /\ Settled' /\ LostOnlySwallowed'
  BY <1>1, <1>2, HandUpKeeps
<1>4. Window'
  BY <1>1, <1>2 DEF Window
<1>. QED BY <1>3, <1>4 DEF FramingInv

LEMMA ClientPayloadKeeps == FramingInv /\ ClientPayload => FramingInv'
<1>. SUFFICES ASSUME FramingInv, ClientPayload PROVE FramingInv'
  OBVIOUS
<1>1. Ready(consumed - HeaderSize) /\ HandUp(consumed - HeaderSize) /\ receiver = "client"
  BY ClientPayloadReady
<1>2. /\ phase' = "magic" /\ receiver' = receiver /\ ~broken /\ broken' = broken
      /\ consumed' = first'
  BY <1>1 DEF ClientPayload, HandUp, stream, Ready
<1>3. StreamType' /\ Position' /\ CutsAreInvisible' /\ Settled' /\ LostOnlySwallowed'
  BY <1>1, <1>2, HandUpKeeps
<1>4. Window'
  <2>1. first' \in Nat /\ consumed' = first' /\ Len(Bytes)' \in Nat
    <3>1. Bytes' = Bytes /\ EndAt(consumed - HeaderSize) \in Nat /\ first' = EndAt(consumed - HeaderSize)
      <4>1. UNCHANGED stream /\ first' = EndAt(consumed - HeaderSize)
        BY <1>1 DEF HandUp
      <4>2. EndAt(consumed - HeaderSize) \in 0..fetched
        BY <1>1, ReadyPlace DEF FramingInv
      <4>. QED BY <4>1, <4>2, SameStream
    <3>2. Len(Bytes) \in Nat
      BY BytesType DEF FramingInv
    <3>. QED BY <1>2, <3>1, <3>2
  <2>2. \A k \in 0..Len(Bytes)' : first' <= k => ~(k + 2 <= consumed')
    BY <2>1
  <2>. QED BY <1>1, <1>2, <2>2 DEF Window
<1>. QED BY <1>3, <1>4 DEF FramingInv

LEMMA HostSkipKeeps == FramingInv /\ HostSkip => FramingInv'
<1>. SUFFICES ASSUME FramingInv, HostSkip PROVE FramingInv'
  OBVIOUS
<1>. USE DEF FramingInv
<1>1. /\ receiver # "client" /\ phase = "header" /\ first = consumed /\ ~broken
      /\ fetched - consumed >= HeaderSize /\ ~Decodes(first)
      /\ consumed' = consumed + 1 /\ first' = consumed + 1
      /\ UNCHANGED stream /\ fetched' = fetched /\ phase' = phase /\ out' = out /\ broken' = broken
  BY DEF HostSkip, Available, Window
<1>2. /\ first \in Nat /\ fetched \in Nat /\ Len(Bytes) \in Nat /\ fetched <= Len(Bytes)
      /\ first + HeaderSize <= Len(Bytes) /\ first + 1 <= fetched
      /\ first \in 0..Len(Bytes) /\ first + 1 \in 0..Len(Bytes)
  BY <1>1, PositionOrder DEF HeaderSize
<1>3. /\ Bytes' = Bytes /\ Packet' = Packet /\ BytesUpTo' = BytesUpTo /\ StreamType'
      /\ \A i : PacketsFrom(i)' = PacketsFrom(i)
      /\ \A p, m : Is(p, m)' <=> Is(p, m)
      /\ \A p : NumberOf(p)' = NumberOf(p)
      /\ \A m : StartOf(m)' = StartOf(m)
  BY <1>1, SameStream
<1>4. \A n \in 1..Count : StartOf(n) # first
  BY <1>1, PacketThere
<1>5. Position'
  <2>1. first' \in 0..fetched /\ first' \in 0..first'
    BY <1>1, <1>2
  <2>. QED BY <1>1, <1>3, <2>1 DEF Position
<1>6. Window'
  BY <1>1 DEF Window, stream
<1>7. CutsAreInvisible'
  <2>1. ~HeaderAt(first)
    BY <1>1 DEF HeaderAt
  <2>2. PacketsFrom(first) = PacketsFrom(first + 1)
    BY <1>2, <2>1, PacketsDef
  <2>3. PacketsFrom(first)' = PacketsFrom(first + 1) /\ PacketsFrom(0)' = PacketsFrom(0)
    BY <1>1, <1>3
  <2>4. first' <= consumed' /\ consumed' <= fetched'
    BY <1>1, <1>2
  <2>. QED BY <1>1, <2>2, <2>3, <2>4 DEF CutsAreInvisible
<1>8. Settled'
  <2>1. ~Aligned
    BY <1>2, <1>4, NextPacket
  <2>2. ~Aligned'
    BY <1>1, <1>3, <2>1 DEF Aligned, stream
  <2>. QED BY <2>2 DEF Settled
<1>9. ASSUME NEW n \in 1..Count, first' > StartOf(n)'
      PROVE  \/ \E j \in 1..Len(out') : Is(out[j], n)'
             \/ Swallowed(n)'
  <2>1. StartOf(n) \in Nat /\ first > StartOf(n)
    <3>1. StartOf(n) \in Nat /\ StartOf(n) # first
      BY <1>4, BytesType
    <3>. QED BY <1>1, <1>2, <1>3, <1>9, <3>1
  <2>2. \/ \E j \in 1..Len(out) : Is(out[j], n)
        \/ \E j \in 1..Len(out) : LiesOver(out[j], n)
    BY <2>1 DEF LostOnlySwallowed, Swallowed, LiesOver
  <2>3. CASE \E j \in 1..Len(out) : Is(out[j], n)
    BY <1>1, <1>3, <2>3
  <2>4. CASE \E j \in 1..Len(out) : LiesOver(out[j], n)
    <3>1. \E j \in 1..Len(out') : LiesOver(out'[j], n)
      BY <1>1, <2>4
    <3>. QED BY <1>1, <3>1, SwallowedStays
  <2>. QED BY <2>2, <2>3, <2>4
<1>10. LostOnlySwallowed'
  BY <1>9 DEF LostOnlySwallowed
<1>. QED BY <1>3, <1>5, <1>6, <1>7, <1>8, <1>10

LEMMA ClientSlideKeeps == FramingInv /\ ClientSlide => FramingInv'
<1>. SUFFICES ASSUME FramingInv, ClientSlide PROVE FramingInv'
  OBVIOUS
<1>. USE DEF FramingInv
<1>1. /\ receiver = "client" /\ phase = "magic" /\ ~broken /\ fetched - consumed >= 1
      /\ \A k \in 0..Len(Bytes) : first <= k /\ k + 2 <= consumed => ~HeaderAt(k)
      /\ consumed' = consumed + 1
      /\ phase' = IF consumed' - first >= 2 /\ MagicAt(consumed' - 2) THEN "header" ELSE "magic"
      /\ UNCHANGED stream /\ fetched' = fetched /\ first' = first /\ out' = out /\ broken' = broken
  BY DEF ClientSlide, Available, Window
<1>2. /\ first \in Nat /\ consumed \in Nat /\ fetched \in Nat /\ Len(Bytes) \in Nat
      /\ fetched <= Len(Bytes) /\ first <= consumed /\ consumed + 1 <= fetched
  BY <1>1, PositionOrder
<1>3. /\ Bytes' = Bytes /\ Packet' = Packet /\ StreamType'
      /\ \A i : HeaderAt(i)' <=> HeaderAt(i)
  BY <1>1, SameStream
<1>4. Position'
  <2>1. consumed' \in 0..fetched /\ first \in 0..consumed'
    BY <1>1, <1>2
  <2>. QED BY <1>1, <1>3, <2>1 DEF Position
<1>5. CutsAreInvisible' /\ LostOnlySwallowed' /\ Settled'
  <2>1. first' <= consumed' /\ consumed' <= fetched' /\ (Aligned => ~broken')
    BY <1>1, <1>2
  <2>. QED BY <1>1, <2>1, OutStays
<1>6. receiver' = "client"
  BY <1>1 DEF stream
<1>7. CASE consumed' - first >= 2 /\ MagicAt(consumed' - 2)
  <2>1. phase' = "header"
    BY <1>1, <1>7
  <2>2. Found(consumed' - 2)
    <3>1. consumed' - 2 \in Nat /\ first <= consumed' - 2
      BY <1>1, <1>2, <1>7
    <3>2. HeaderAt(consumed' - 2)
      BY <1>1, <1>7 DEF HeaderAt
    <3>3. ASSUME NEW k \in 0..Len(Bytes), first <= k, k < consumed' - 2 PROVE ~HeaderAt(k)
      <4>1. k + 2 <= consumed
        BY <1>1, <1>2, <3>3
      <4>. QED BY <1>1, <3>3, <4>1
    <3>. QED BY <3>1, <3>2, <3>3 DEF Found
  <2>3. Found(consumed - 2)'
    BY <1>1, <1>3, <2>2 DEF Found
  <2>4. Window'
    BY <1>6, <2>1, <2>3 DEF Window
  <2>. QED BY <1>3, <1>4, <1>5, <2>4
<1>8. CASE ~(consumed' - first >= 2 /\ MagicAt(consumed' - 2))
  <2>1. phase' = "magic"
    BY <1>1, <1>8
  <2>2. ASSUME NEW k \in 0..Len(Bytes), first <= k, k + 2 <= consumed' PROVE ~HeaderAt(k)
    <3>1. CASE k + 2 <= consumed
      BY <1>1, <2>2, <3>1
    <3>2. CASE k + 2 = consumed'
      <4>1. k = consumed' - 2 /\ consumed' - first >= 2
        BY <1>1, <1>2, <2>2, <3>2
      <4>2. ~MagicAt(k)
        BY <1>8, <4>1
      <4>. QED BY <1>1, <4>2 DEF HeaderAt
    <3>. QED BY <1>1, <1>2, <2>2, <3>1, <3>2
  <2>3. Window'
    BY <1>1, <1>3, <1>6, <2>1, <2>2 DEF Window
  <2>. QED BY <1>3, <1>4, <1>5, <2>3
<1>. QED BY <1>7, <1>8

\* Where a receiver that has found the boundaries meets a header, it is a packet's.
LEMMA FoundIsPacket ==
  ASSUME NEW i, StreamType, Position, Settled, Aligned, Found(i), i + HeaderSize <= Len(Bytes)
  PROVE  LengthAt(i) <= MaxPayload
<1>1. /\ i \in Nat /\ first <= i /\ first \in Nat /\ Len(Bytes) \in Nat
      /\ \A k \in 0..Len(Bytes) : first <= k /\ k < i => ~HeaderAt(k)
  BY PositionOrder DEF Found
<1>2. first + HeaderSize <= Len(Bytes) /\ first \in 0..Len(Bytes)
  BY <1>1 DEF HeaderSize
<1>3. PICK n \in 1..Count : first = StartOf(n)
  BY <1>2, NextPacket
<1>4. HeaderAt(first) /\ LengthAt(first) <= MaxPayload
  BY <1>3, PacketThere
<1>5. i = first
  BY <1>1, <1>2, <1>4
<1>. QED BY <1>4, <1>5

LEMMA ClientHeaderKeeps == FramingInv /\ ClientHeader => FramingInv'
<1>. SUFFICES ASSUME FramingInv, ClientHeader PROVE FramingInv'
  OBVIOUS
<1>. USE DEF FramingInv
<1>. DEFINE i == consumed - 2
<1>1. /\ receiver = "client" /\ phase = "header" /\ ~broken /\ Found(i)
      /\ fetched - consumed >= HeaderSize - 2 /\ consumed' = consumed + HeaderSize - 2
      /\ IF LengthAt(i) <= MaxPayload
           THEN phase' = "payload" /\ broken' = broken
           ELSE broken' = TRUE /\ phase' = phase
      /\ UNCHANGED stream /\ fetched' = fetched /\ first' = first /\ out' = out
  BY DEF ClientHeader, Available, Window
<1>2. /\ first \in Nat /\ consumed \in Nat /\ fetched \in Nat /\ Len(Bytes) \in Nat
      /\ fetched <= Len(Bytes) /\ first <= consumed /\ consumed' <= fetched /\ consumed <= consumed'
      /\ consumed' \in Nat /\ consumed' - HeaderSize = i /\ i + HeaderSize <= Len(Bytes)
  BY <1>1, PositionOrder DEF HeaderSize
<1>3. /\ Bytes' = Bytes /\ Packet' = Packet /\ StreamType' /\ receiver' = "client"
      /\ \A k : (HeaderAt(k)' <=> HeaderAt(k)) /\ LengthAt(k)' = LengthAt(k)
  BY <1>1, SameStream DEF stream
<1>. HIDE DEF i
<1>4. Position'
  <2>1. consumed' \in 0..fetched /\ first \in 0..consumed'
    BY <1>2
  <2>. QED BY <1>1, <1>3, <2>1 DEF Position
<1>5. CutsAreInvisible' /\ LostOnlySwallowed' /\ Settled'
  <2>1. Aligned => ~broken'
    BY <1>1, <1>2, FoundIsPacket
  <2>2. first' <= consumed' /\ consumed' <= fetched'
    BY <1>1, <1>2
  <2>. QED BY <1>1, <2>1, <2>2, OutStays
<1>6. Window'
  <2>1. CASE LengthAt(i) <= MaxPayload
    <3>1. phase' = "payload" /\ ~broken'
      BY <1>1, <2>1
    <3>2. \A j : Found(j)' <=> Found(j)
      BY <1>1, <1>3 DEF Found
    <3>3. Found(consumed - HeaderSize)' /\ LengthAt(consumed - HeaderSize)' <= MaxPayload
      BY <1>1, <1>2, <1>3, <2>1, <3>2
    <3>. QED BY <1>3, <3>1, <3>3 DEF Window
  <2>2. CASE ~(LengthAt(i) <= MaxPayload)
    <3>1. phase' = "header" /\ broken'
      BY <1>1, <2>2
    <3>. QED BY <1>3, <3>1 DEF Window
  <2>. QED BY <2>1, <2>2
<1>. QED BY <1>3, <1>4, <1>5, <1>6

LEMMA FramingStep == FramingInv /\ [StreamNext]_streamVars => FramingInv'
<1>. SUFFICES ASSUME FramingInv, [StreamNext]_streamVars PROVE FramingInv'
  OBVIOUS
<1>1. CASE StreamNext
  BY <1>1, FetchKeeps, HostTakeKeeps, HostSkipKeeps, ClientSlideKeeps, ClientHeaderKeeps,
     ClientPayloadKeeps DEF StreamNext, Receiver
<1>2. CASE UNCHANGED streamVars
  <2>. USE DEF FramingInv
  <2>1. /\ UNCHANGED stream /\ UNCHANGED <<stream, first, out>>
        /\ fetched' = fetched /\ consumed' = consumed /\ phase' = phase /\ first' = first
        /\ out' = out /\ broken' = broken /\ receiver' = receiver
    BY <1>2 DEF streamVars, stream
  <2>2. /\ Bytes' = Bytes /\ Packet' = Packet /\ StreamType'
        /\ \A i : (HeaderAt(i)' <=> HeaderAt(i)) /\ LengthAt(i)' = LengthAt(i)
    BY <2>1, SameStream
  <2>3. Position'
    BY <2>1, <2>2 DEF Position
  <2>4. Window'
    BY <2>1, <2>2 DEF Window, Found
  <2>5. CutsAreInvisible' /\ LostOnlySwallowed' /\ Settled'
    <3>1. first' <= consumed' /\ consumed' <= fetched' /\ (Aligned => ~broken')
      BY <2>1, PositionOrder DEF Settled
    <3>. QED BY <2>1, <3>1, OutStays
  <2>. QED BY <2>2, <2>3, <2>4, <2>5
<1>. QED BY <1>1, <1>2

\* The invariant that the theorems on Framing are read off from: the types, where a
\* receiver stands between two headers, and the two properties themselves.
THEOREM FramingInvariance == StreamSpec => []FramingInv
<1>1. StreamInit => FramingInv
  BY FramingInit
<1>2. FramingInv /\ [StreamNext]_streamVars => FramingInv'
  BY FramingStep
<1>. QED BY <1>1, <1>2, PTL DEF StreamSpec

\* However the transport cuts the bytes into reads, read_packet, the reader thread and
\* readPacket hand up what the bytes as a whole say.
THEOREM CutsNeverShow == StreamSpec => []CutsAreInvisible
<1>1. FramingInv => CutsAreInvisible
  BY DEF FramingInv
<1>. QED BY <1>1, FramingInvariance, PTL

\* A packet that is missing lies under one that an earlier session's bytes announced.
THEOREM NothingElseIsLost == StreamSpec => []LostOnlySwallowed
<1>1. FramingInv => LostOnlySwallowed
  BY DEF FramingInv
<1>. QED BY <1>1, FramingInvariance, PTL

\* FramedStream.read_packet gives the connection up where a header cannot be
\* decoded.  Over TCP it never has to: with a header's worth of bytes at hand it
\* stands at the beginning of a packet that was sent.
TcpSeesPackets ==
    receiver = "tcpHost" /\ Available(HeaderSize) =>
        \E n \in 1..Count : consumed = StartOf(n) /\ Decodes(consumed)

\* FramedStream.read_packet has no way to skip a byte, and needs none.
THEOREM TcpMeetsPacketsOnly == StreamSpec => []TcpSeesPackets
<1>1. FramingInv => TcpSeesPackets
  <2>. SUFFICES ASSUME FramingInv, receiver = "tcpHost", Available(HeaderSize)
                PROVE  \E n \in 1..Count : consumed = StartOf(n) /\ Decodes(consumed)
    BY DEF TcpSeesPackets
  <2>. USE DEF FramingInv
  <2>1. Aligned
    BY DEF StreamType, Aligned
  <2>2. first = consumed /\ fetched - consumed >= HeaderSize
    BY DEF Window, Available
  <2>3. first + HeaderSize <= Len(Bytes)
    BY <2>2, PositionOrder DEF HeaderSize
  <2>4. PICK n \in 1..Count : first = StartOf(n)
    BY <2>1, <2>3, NextPacket
  <2>. QED BY <2>2, <2>4, PacketThere
<1>. QED BY <1>1, FramingInvariance, PTL

-----------------------------------------------------------------------------
(* Framing implements PacketStream *)

\* What PacketStream sees of out.
Received == [j \in 1..Len(out) |-> NumberOf(out[j])]

LEMMA ReceivedType ==
  ASSUME Position
  PROVE  /\ Len(out) \in Nat
         /\ Received \in Seq(0..Count) /\ Len(Received) = Len(out)
         /\ \A j \in 1..Len(out) : Received[j] = NumberOf(out[j])
<1>1. Len(out) \in Nat
  BY LenProperties DEF Position
<1>. DEFINE n == Len(out)
<1>2. \A j \in 1..n : NumberOf(out[j]) \in 0..Count
  BY Numbered
<1>3. Received = [j \in 1..n |-> NumberOf(out[j])]
  BY DEF Received
<1>. HIDE DEF n
<1>4. Received \in [1..n -> 0..Count]
  BY <1>2, <1>3
<1>5. Received \in Seq(0..Count)
  <2>1. n \in Nat
    BY <1>1 DEF n
  <2>2. Received \in UNION {[1..k -> 0..Count] : k \in Nat}
    BY <1>4, <2>1
  <2>3. Seq(0..Count) = UNION {[1..k -> 0..Count] : k \in Nat}
    BY SeqDef
  <2>. QED BY <2>2, <2>3
<1>6. Len(Received) \in Nat /\ DOMAIN Received = 1..Len(Received)
  BY <1>5, LenProperties
<1>7. 1..Len(Received) = 1..n /\ n \in Nat
  BY <1>1, <1>4, <1>6 DEF n
<1>8. Len(Received) = n
  <2>. DEFINE l == Len(Received)
  <2>1. l \in Nat /\ n \in Nat /\ \A j \in Nat : j \in 1..l <=> j \in 1..n
    BY <1>6, <1>7
  <2>. HIDE DEF l
  <2>2. (l \in 1..l <=> l \in 1..n) /\ (n \in 1..l <=> n \in 1..n)
    BY <2>1
  <2>3. l = n
    BY <2>1, <2>2
  <2>. QED BY <2>3 DEF l
<1>. QED BY <1>1, <1>3, <1>5, <1>8 DEF n

\* A packet handed up is received, with its number or as junk.
LEMMA ReceivedGrows ==
  ASSUME NEW i, StreamType, Position, Position', Ready(i), HandUp(i)
  PROVE  Received' = Append(Received, NumberOf(PacketAt(i)))
<1>. DEFINE n == NumberOf(PacketAt(i))
            r == Append(Received, n)
<1>1. /\ Len(out') = Len(out) + 1 /\ out'[Len(out) + 1] = PacketAt(i)
      /\ \A j \in 1..Len(out) : out'[j] = out[j]
      /\ \A j \in 1..Len(out') : j \in 1..Len(out) \/ j = Len(out) + 1
      /\ \A p : NumberOf(p)' = NumberOf(p)
  BY OutGrows, SameStream
<1>2. /\ Len(out) \in Nat /\ Received \in Seq(0..Count) /\ Len(Received) = Len(out)
      /\ \A j \in 1..Len(out) : Received[j] = NumberOf(out[j])
  BY ReceivedType
<1>3. n \in 0..Count
  BY Numbered
<1>. HIDE DEF n
<1>4. /\ r \in Seq(0..Count) /\ Len(r) = Len(out) + 1 /\ r[Len(out) + 1] = n
      /\ \A j \in 1..Len(out) : r[j] = Received[j]
  BY <1>2, <1>3
<1>. HIDE DEF r
<1>5. /\ Received' \in Seq(0..Count) /\ Len(Received') = Len(out')
      /\ \A j \in 1..Len(out') : Received'[j] = NumberOf(out[j])'
  <2>1. Position => /\ Received \in Seq(0..Count) /\ Len(Received) = Len(out)
                    /\ \A j \in 1..Len(out) : Received[j] = NumberOf(out[j])
    BY ReceivedType
  <2>2. (Position => /\ Received \in Seq(0..Count) /\ Len(Received) = Len(out)
                     /\ \A j \in 1..Len(out) : Received[j] = NumberOf(out[j]))'
    BY ReceivedType, PTL
  <2>. QED BY <2>2
<1>6. ASSUME NEW j \in 1..Len(out') PROVE Received'[j] = r[j]
  <2>1. Received'[j] = NumberOf(out'[j])
    BY <1>1, <1>5
  <2>2. CASE j \in 1..Len(out)
    BY <1>1, <1>2, <1>4, <2>1, <2>2
  <2>3. CASE j = Len(out) + 1
    BY <1>1, <1>4, <2>1, <2>3 DEF n
  <2>. QED BY <1>1, <2>2, <2>3
<1>7. Received' = r
  BY <1>1, <1>4, <1>5, <1>6, SeqEqual
<1>. QED BY <1>7 DEF r, n

\* The numbers received so far.
LEMMA NumbersAre ==
  ASSUME Position
  PROVE  Abstract!Numbers = {NumberOf(out[j]) : j \in 1..Len(out)}
<1>1. Abstract!Numbers = {Received[j] : j \in 1..Len(Received)}
  BY DEF Abstract!Numbers, Received
<1>2. Len(Received) = Len(out) /\ \A j \in 1..Len(out) : Received[j] = NumberOf(out[j])
  BY ReceivedType
<1>. QED BY <1>1, <1>2

\* A packet handed up is a packet received in its turn, or junk before the boundaries
\* are found.
LEMMA HandUpAbstract ==
  ASSUME NEW i, StreamType, Position, Position', Settled, Ready(i), HandUp(i)
  PROVE  Abstract!Next
<1>. DEFINE n == NumberOf(PacketAt(i))
            Numbers == {NumberOf(out[j]) : j \in 1..Len(out)}
<1>1. Received' = Append(Received, n) /\ ~broken /\ broken' = broken
  BY ReceivedGrows DEF Ready, HandUp
<1>2. /\ Len(out) \in Nat /\ Len(out') = Len(out) + 1 /\ out'[Len(out) + 1] = PacketAt(i)
      /\ \A j \in 1..Len(out) : out'[j] = out[j] /\ j \in 1..Len(out')
      /\ \A j \in 1..Len(out') : j \in 1..Len(out) \/ j = Len(out) + 1
      /\ \A p : NumberOf(p)' = NumberOf(p)
      /\ leftover' = leftover
  BY OutGrows, SameStream DEF stream
<1>3. Abstract!Numbers = Numbers
  BY NumbersAre
<1>4. CASE n # 0
  <2>1. n \in 1..Count
    BY <1>4, ReadyNumber
  <2>2. \A m \in Numbers : m < n
    <3>1. CASE Aligned
      BY <3>1, ReadyIsNext
    <3>2. CASE ~Aligned
      <4>1. \A j \in 1..Len(out) : NumberOf(out[j]) = 0
        BY <3>2 DEF Aligned
      <4>2. \A m \in Numbers : m = 0
        BY <4>1
      <4>. HIDE DEF n, Numbers
      <4>. QED BY <2>1, <4>2
    <3>. QED BY <3>1, <3>2
  <2>3. Aligned => n = 1 \/ n - 1 \in Numbers
    BY ReadyIsNext DEF Recognised
  <2>4. Aligned'
    <3>1. Len(out) + 1 \in 1..Len(out')
      BY <1>2
    <3>2. \E j \in 1..Len(out') : NumberOf(out'[j]) # 0
      BY <1>2, <1>4, <3>1
    <3>. QED BY <1>2, <3>2 DEF Aligned
  <2>. HIDE DEF n, Numbers
  <2>5. Abstract!Receive
    BY <1>1, <1>3, <2>1, <2>2, <2>3, <2>4 DEF Abstract!Receive, Aligned, Received
  <2>. QED BY <1>1, <2>5 DEF Abstract!Next
<1>5. CASE n = 0
  <2>1. ~Aligned
    BY <1>5, ReadyIsNext
  <2>2. ~Aligned'
    <3>1. \A j \in 1..Len(out') : NumberOf(out'[j]) = 0
      BY <1>2, <1>5, <2>1 DEF Aligned
    <3>. QED BY <1>2, <2>1, <3>1 DEF Aligned
  <2>. HIDE DEF n, Numbers
  <2>3. Abstract!Junk
    BY <1>1, <1>5, <2>1, <2>2 DEF Abstract!Junk, Aligned, Received
  <2>. QED BY <1>1, <2>3 DEF Abstract!Next
<1>. QED BY <1>4, <1>5

\* Every other step leaves PacketStream's variables alone, or gives up.
LEMMA StepAbstract ==
  ASSUME FramingInv, FramingInv', [StreamNext]_streamVars
  PROVE  [Abstract!Next]_Abstract!vars
<1>. USE DEF FramingInv
<1>1. ASSUME UNCHANGED <<stream, out, broken>> PROVE UNCHANGED Abstract!vars
  <2>1. out' = out /\ broken' = broken /\ leftover' = leftover /\ \A p : NumberOf(p)' = NumberOf(p)
    BY <1>1, SameStream DEF stream
  <2>2. [j \in 1..Len(out) |-> NumberOf(out[j])]' = [j \in 1..Len(out) |-> NumberOf(out[j])]
    BY <2>1
  <2>. QED BY <2>1, <2>2 DEF Abstract!vars
<1>2. CASE Fetch
  BY <1>1, <1>2 DEF Fetch
<1>3. CASE HostTake
  <2>1. Ready(consumed) /\ HandUp(consumed)
    BY <1>3, HostTakeReady
  <2>. QED BY <2>1, HandUpAbstract
<1>4. CASE HostSkip
  BY <1>1, <1>4 DEF HostSkip
<1>5. CASE ClientSlide
  BY <1>1, <1>5 DEF ClientSlide
<1>6. CASE ClientHeader
  <2>1. UNCHANGED <<stream, out, first>>
    BY <1>6 DEF ClientHeader
  <2>2. CASE broken' = broken
    BY <1>1, <2>1, <2>2
  <2>3. CASE broken' # broken
    <3>1. broken' /\ ~broken
      BY <1>6, <2>3 DEF ClientHeader, Available
    <3>2. out' = out /\ leftover' = leftover /\ \A p : NumberOf(p)' = NumberOf(p)
      BY <2>1, SameStream DEF stream
    <3>3. (Aligned' <=> Aligned) /\ ~Aligned
      BY <2>1, <3>1, OutStays DEF Settled
    <3>4. [j \in 1..Len(out) |-> NumberOf(out[j])]' = [j \in 1..Len(out) |-> NumberOf(out[j])]
      BY <3>2
    <3>5. Abstract!GiveUp
      BY <3>1, <3>2, <3>3, <3>4 DEF Abstract!GiveUp, Aligned
    <3>. QED BY <3>1, <3>5 DEF Abstract!Next
  <2>. QED BY <2>2, <2>3
<1>7. CASE ClientPayload
  <2>1. Ready(consumed - HeaderSize) /\ HandUp(consumed - HeaderSize)
    BY <1>7, ClientPayloadReady
  <2>. QED BY <2>1, HandUpAbstract
<1>8. CASE UNCHANGED streamVars
  BY <1>1, <1>8 DEF streamVars, stream
<1>. QED BY <1>2, <1>3, <1>4, <1>5, <1>6, <1>7, <1>8 DEF StreamNext, Receiver

LEMMA InitAbstract == StreamInit => Abstract!Init
<1>. SUFFICES ASSUME StreamInit PROVE Abstract!Init
  OBVIOUS
<1>1. out = <<>> /\ broken = FALSE
  BY DEF StreamInit
<1>2. [j \in 1..Len(out) |-> NumberOf(out[j])] = <<>>
  <2>1. Len(out) = 0 /\ 1..0 = {}
    BY <1>1
  <2>. QED BY <2>1
<1>. QED BY <1>1, <1>2, Format DEF Abstract!Init

\* Every receiver implements PacketStream: once it has found the packet boundaries it
\* hands up every packet, once, in order, and nothing else; before that it may hand up
\* junk, miss packets or give up.
THEOREM FramingImplementsPacketStream == StreamSpec => KeepsPromise
<1>1. StreamInit => Abstract!Init
  BY InitAbstract
<1>2. FramingInv /\ FramingInv' /\ [StreamNext]_streamVars => [Abstract!Next]_Abstract!vars
  BY StepAbstract
<1>. QED BY <1>1, <1>2, FramingInvariance, PTL DEF StreamSpec, KeepsPromise, Abstract!Safety

\* With nothing left over, what is handed up is what was sent: the packets themselves,
\* each at its place, from the first one on, none missing and none twice.
Lossless ==
    leftover = <<>> => \A j \in 1..Len(out) : j \in 1..Count /\ Is(out[j], j)

LEMMA LosslessHandUp ==
  ASSUME NEW i, FramingInv, Lossless, Ready(i), HandUp(i)
  PROVE  Lossless'
<1>. USE DEF FramingInv
<1>. DEFINE n == NumberOf(PacketAt(i))
            z == Len(out) + 1
<1>1. /\ Len(out) \in Nat /\ out'[z] = PacketAt(i) /\ leftover' = leftover
      /\ \A j \in 1..Len(out) : out'[j] = out[j]
      /\ \A j \in 1..Len(out') : j \in 1..Len(out) \/ j = z
      /\ \A p, m : Is(p, m)' <=> Is(p, m)
  BY OutGrows, SameStream DEF stream
<1>2. SUFFICES ASSUME leftover = <<>> PROVE \A j \in 1..Len(out') : j \in 1..Count /\ Is(out'[j], j)
  BY <1>1 DEF Lossless
<1>3. \A j \in 1..Len(out) : j \in 1..Count /\ Is(out[j], j) /\ NumberOf(out[j]) = j
  BY <1>2, Numbered DEF Lossless
<1>4. /\ n \in 1..Count /\ (n = 1 \/ Recognised(n - 1))
      /\ \A j \in 1..Len(out) : NumberOf(out[j]) < n
  BY <1>2, ReadyIsNext DEF Aligned
<1>5. Is(PacketAt(i), n)
  BY <1>4, Numbered
<1>. HIDE DEF n
<1>6. n = z
  <2>1. n \in Nat /\ n >= 1 /\ \A j \in 1..Len(out) : j < n
    BY <1>3, <1>4
  <2>2. Len(out) < n
    <3>1. CASE Len(out) = 0
      BY <2>1, <3>1
    <3>2. CASE Len(out) # 0
      <4>1. Len(out) \in 1..Len(out)
        BY <1>1, <3>2
      <4>. QED BY <2>1, <4>1
    <3>. QED BY <3>1, <3>2
  <2>3. n - 1 <= Len(out)
    <3>1. CASE n = 1
      BY <1>1, <3>1
    <3>2. CASE Recognised(n - 1)
      <4>1. PICK j \in 1..Len(out) : NumberOf(out[j]) = n - 1
        BY <3>2 DEF Recognised
      <4>. QED BY <1>1, <1>3, <4>1
    <3>. QED BY <1>4, <3>1, <3>2
  <2>. QED BY <1>1, <2>1, <2>2, <2>3
<1>. QED BY <1>1, <1>3, <1>4, <1>5, <1>6

\* What the code promises where no earlier session left anything: read_packet, the
\* reader thread and readPacket return the packets that write_packet and sendRaw sent.
THEOREM SentIsReceived == StreamSpec => []Lossless
<1>1. FramingInv /\ StreamInit => Lossless
  BY DEF StreamInit, Lossless
<1>2. FramingInv /\ Lossless /\ [StreamNext]_streamVars => Lossless'
  <2>. SUFFICES ASSUME FramingInv, Lossless, [StreamNext]_streamVars PROVE Lossless'
    OBVIOUS
  <2>1. ASSUME UNCHANGED <<stream, out>> PROVE Lossless'
    <3>1. out' = out /\ leftover' = leftover /\ \A p, m : Is(p, m)' <=> Is(p, m)
      BY <2>1, SameStream DEF stream
    <3>. QED BY <3>1 DEF Lossless
  <2>2. CASE HostTake
    BY <2>2, HostTakeReady, LosslessHandUp
  <2>3. CASE ClientPayload
    BY <2>3, ClientPayloadReady, LosslessHandUp
  <2>4. CASE Fetch \/ HostSkip \/ ClientSlide \/ ClientHeader \/ UNCHANGED streamVars
    BY <2>1, <2>4 DEF Fetch, HostSkip, ClientSlide, ClientHeader, streamVars, stream
  <2>. QED BY <2>2, <2>3, <2>4 DEF StreamNext, Receiver
<1>. QED BY <1>1, <1>2, FramingInvariance, FramingInit, PTL DEF StreamSpec

=============================================================================
