------------------------- MODULE InputActionsProofs -------------------------
(***************************************************************************)
(* What holds of InputActions for every desktop, every chord and any       *)
(* number of failing calls, checked by TLAPS.                              *)
(***************************************************************************)
EXTENDS InputActions, TLAPS, SequenceTheorems, WellFoundedInduction

-----------------------------------------------------------------------------
(* Induction, told of a set: a property of numbers is the set of those     *)
(* that have it.                                                           *)
LEMMA LeastNumber ==
  ASSUME NEW T \in SUBSET Nat, T # {}
  PROVE  \E n \in T : \A m \in T : n =< m
<1>1. PICK x \in T : \A y \in T : ~(<<y, x>> \in OpToRel(<, Nat))
  BY NatLessThanWellFounded, WFMin, Zenon
<1>2. \A y \in T : ~(y < x)
  BY <1>1, Zenon DEF OpToRel
<1> QED BY <1>2

LEMMA Induction ==
  ASSUME NEW S, 0 \in S, \A n \in Nat : n \in S => n + 1 \in S
  PROVE  Nat \subseteq S
<1>1. SUFFICES ASSUME Nat \ S # {} PROVE FALSE
  OBVIOUS
<1>2. PICK n \in Nat \ S : \A m \in Nat \ S : n =< m
  BY <1>1, LeastNumber
<1>3. n # 0
  OBVIOUS
<1>4. n - 1 \in Nat /\ n - 1 < n
  BY <1>3
<1>5. n - 1 \in S
  BY <1>4, <1>2
<1>6. (n - 1) + 1 \in S
  BY <1>4, <1>5
<1> QED BY <1>6, <1>2

-----------------------------------------------------------------------------
(* keys.rs.  The modifiers of a chord, one token at a time.                *)
Tokens == DOMAIN KeyOf

(* The list grown from the first n tokens: each modifier among them, once. *)
GrownFrom(toks, n, s) ==
  /\ s \in Seq(Modifiers)
  /\ {s[i] : i \in 1 .. Len(s)} = {ModifierOf[toks[i]] : i \in 1 .. n}
  /\ \A i, j \in 1 .. Len(s) : s[i] = s[j] => i = j

LEMMA PushGrows ==
  ASSUME NEW toks \in Seq(Tokens), NEW n \in 1 .. Len(toks), NEW s,
         GrownFrom(toks, n - 1, s), ModifierOf[toks[n]] \in Modifiers
  PROVE  GrownFrom(toks, n, Push(s, ModifierOf[toks[n]]))
<1> DEFINE m == ModifierOf[toks[n]]
<1>1. s \in Seq(Modifiers) /\ Len(s) \in Nat /\ \A i \in 1 .. Len(s) : s[i] \in Modifiers
  BY DEF GrownFrom
<1>2. {ModifierOf[toks[i]] : i \in 1 .. n} = {ModifierOf[toks[i]] : i \in 1 .. (n - 1)} \cup {m}
  <2>1. 1 .. n = (1 .. (n - 1)) \cup {n}
    OBVIOUS
  <2> QED BY <2>1
<1>3. Contains(s, m) <=> \E i \in 1 .. Len(s) : s[i] = m
  BY <1>1 DEF Contains
<1>0. {s[i] : i \in 1 .. Len(s)} = {ModifierOf[toks[i]] : i \in 1 .. (n - 1)}
  BY DEF GrownFrom
<1>4. CASE Contains(s, m)
  <2>1. Push(s, m) = s
    BY <1>4 DEF Push
  <2>2. m \in {s[i] : i \in 1 .. Len(s)}
    BY <1>3, <1>4
  <2>3. {s[i] : i \in 1 .. Len(s)} = {ModifierOf[toks[i]] : i \in 1 .. n}
    <3> HIDE DEF m
    <3> QED BY <1>0, <1>2, <2>2
  <2> QED BY <2>1, <2>3 DEF GrownFrom
<1>5. CASE ~Contains(s, m)
  <2>1. Push(s, m) = Append(s, m)
    BY <1>5 DEF Push
  <2>2. /\ Append(s, m) \in Seq(Modifiers) /\ Len(Append(s, m)) = Len(s) + 1
        /\ \A i \in 1 .. Len(s) : Append(s, m)[i] = s[i]
        /\ Append(s, m)[Len(s) + 1] = m
    BY <1>1, AppendProperties
  <2>3. 1 .. (Len(s) + 1) = (1 .. Len(s)) \cup {Len(s) + 1}
    BY <1>1
  <2>4. {Append(s, m)[i] : i \in 1 .. (Len(s) + 1)} = {s[i] : i \in 1 .. Len(s)} \cup {m}
    BY <2>2, <2>3
  <2>5. \A i, j \in 1 .. (Len(s) + 1) : Append(s, m)[i] = Append(s, m)[j] => i = j
    BY <1>3, <1>5, <2>2, <2>3 DEF GrownFrom
  <2>6. {Append(s, m)[i] : i \in 1 .. (Len(s) + 1)} = {ModifierOf[toks[i]] : i \in 1 .. n}
    <3> HIDE DEF m
    <3> QED BY <1>0, <1>2, <2>4
  <2>7. GrownFrom(toks, n, Append(s, m))
    <3> HIDE DEF m
    <3> QED BY <2>2, <2>5, <2>6 DEF GrownFrom
  <2> QED BY <2>1, <2>7
<1> QED BY <1>4, <1>5

LEMMA ChordModsGrown ==
  ASSUME NEW toks \in Seq(Tokens), \A i \in 1 .. Len(toks) : ModifierOf[toks[i]] \in Modifiers
  PROVE  GrownFrom(toks, Len(toks), ChordMods(toks))
<1> DEFINE N == Len(toks)
           Grows(f, n) == f = [i \in 0 .. n |-> IF i = 0 THEN << >> ELSE Push(f[i - 1], ModifierOf[toks[i]])]
           Good == {n \in Nat : n =< N => \E f : Grows(f, n) /\ \A i \in 0 .. n : GrownFrom(toks, i, f[i])}
<1>1. N \in Nat
  OBVIOUS
<1>2. 0 \in Good
  <2> DEFINE f == [i \in 0 .. 0 |-> << >>]
  <2>1. Grows(f, 0)
    OBVIOUS
  <2>2. GrownFrom(toks, 0, << >>)
    BY DEF GrownFrom
  <2>3. \A i \in 0 .. 0 : GrownFrom(toks, i, f[i])
    BY <2>2
  <2> QED BY <2>1, <2>3
<1>3. ASSUME NEW n \in Nat, n \in Good
      PROVE  n + 1 \in Good
  <2>1. SUFFICES ASSUME n + 1 =< N
                 PROVE  \E g : Grows(g, n + 1) /\ \A i \in 0 .. n + 1 : GrownFrom(toks, i, g[i])
    OBVIOUS
  <2>2. PICK f : Grows(f, n) /\ \A i \in 0 .. n : GrownFrom(toks, i, f[i])
    BY <1>1, <1>3, <2>1
  <2> DEFINE g == [i \in 0 .. n + 1 |-> IF i = n + 1 THEN Push(f[n], ModifierOf[toks[n + 1]]) ELSE f[i]]
  <2>3. \A i \in 0 .. n : g[i] = f[i]
    OBVIOUS
  <2>4. g[n + 1] = Push(f[n], ModifierOf[toks[n + 1]])
    OBVIOUS
  <2>5. \A i \in 0 .. n + 1 : g[i] = IF i = 0 THEN << >> ELSE Push(g[i - 1], ModifierOf[toks[i]])
    <3> SUFFICES ASSUME NEW i \in 0 .. n + 1
                 PROVE  g[i] = IF i = 0 THEN << >> ELSE Push(g[i - 1], ModifierOf[toks[i]])
      OBVIOUS
    <3>1. CASE i = n + 1
      <4>1. i - 1 = n /\ i # 0
        BY <3>1
      <4> HIDE DEF g
      <4> QED BY <3>1, <4>1, <2>3, <2>4
    <3>2. CASE i \in 0 .. n
      <4>1. f[i] = IF i = 0 THEN << >> ELSE Push(f[i - 1], ModifierOf[toks[i]])
        BY <2>2, <3>2
      <4>2. i # 0 => i - 1 \in 0 .. n
        BY <3>2
      <4> HIDE DEF g
      <4> QED BY <3>2, <4>1, <4>2, <2>3
    <3> QED BY <3>1, <3>2
  <2>6. Grows(g, n + 1)
    BY <2>5
  <2>7. GrownFrom(toks, n + 1, g[n + 1])
    <3>1. n + 1 \in 1 .. Len(toks) /\ (n + 1) - 1 = n /\ n \in 0 .. n
      BY <2>1
    <3>2. ModifierOf[toks[n + 1]] \in Modifiers
      BY <3>1
    <3>3. GrownFrom(toks, (n + 1) - 1, f[n])
      BY <2>2, <3>1
    <3> HIDE DEF g
    <3> QED BY <2>4, <3>1, <3>2, <3>3, PushGrows
  <2>8. \A i \in 0 .. n + 1 : GrownFrom(toks, i, g[i])
    <3>1. \A i \in 0 .. n + 1 : i = n + 1 \/ i \in 0 .. n
      OBVIOUS
    <3> HIDE DEF g
    <3> QED BY <2>2, <2>3, <2>7, <3>1
  <2> HIDE DEF g, Grows
  <2> QED BY <2>6, <2>8
<1>4. N \in Good
  <2> HIDE DEF Good
  <2>1. Nat \subseteq Good
    BY <1>2, <1>3, Induction
  <2> QED BY <1>1, <2>1
<1>5. PICK f : Grows(f, N) /\ \A i \in 0 .. N : GrownFrom(toks, i, f[i])
  BY <1>1, <1>4
<1> DEFINE h == CHOOSE g : Grows(g, N)
<1>6. Grows(h, N)
  BY <1>5, Zenon
<1>7. ChordMods(toks) = h[N]
  BY DEF ChordMods
<1> DEFINE Same == {n \in Nat : n =< N => h[n] = f[n]}
<1>8. N \in Same
  <2>1. \A i \in 0 .. N : /\ h[i] = IF i = 0 THEN << >> ELSE Push(h[i - 1], ModifierOf[toks[i]])
                          /\ f[i] = IF i = 0 THEN << >> ELSE Push(f[i - 1], ModifierOf[toks[i]])
    <3> HIDE DEF h
    <3> QED BY <1>5, <1>6
  <2>2. 0 \in Same
    <3> HIDE DEF h
    <3> QED BY <1>1, <2>1
  <2>3. ASSUME NEW n \in Nat, n \in Same PROVE n + 1 \in Same
    <3>1. SUFFICES ASSUME n + 1 =< N PROVE h[n + 1] = f[n + 1]
      OBVIOUS
    <3>2. n + 1 \in 0 .. N /\ n + 1 # 0 /\ (n + 1) - 1 = n
      BY <1>1, <3>1
    <3>3. h[n] = f[n]
      BY <1>1, <2>3, <3>1
    <3> HIDE DEF h
    <3> QED BY <2>1, <3>2, <3>3
  <2>4. Nat \subseteq Same
    <3> HIDE DEF Same
    <3> QED BY <2>2, <2>3, Induction
  <2> QED BY <1>1, <2>4
<1>9. h[N] = f[N] /\ GrownFrom(toks, N, f[N])
  BY <1>1, <1>5, <1>8
<1> HIDE DEF h
<1> QED BY <1>7, <1>9

LEMMA FrontFacts ==
  ASSUME NEW toks \in Seq(Tokens), toks # << >>
  PROVE  /\ Front(toks) \in Seq(Tokens) /\ Len(Front(toks)) = Len(toks) - 1
         /\ \A i \in 1 .. Len(Front(toks)) : Front(toks)[i] = toks[i]
         /\ Last(toks) \in Tokens
<1>1. Len(toks) \in Nat \ {0}
  OBVIOUS
<1>2. Front(toks) = SubSeq(toks, 1, Len(toks) - 1) /\ Last(toks) = toks[Len(toks)]
  BY DEF Front, Last
<1>3. PICK n \in Nat : n = Len(toks) - 1
  BY <1>1
<1>4. \A i \in 1 .. n : toks[i] \in Tokens
  BY <1>1, <1>3
<1>5. SubSeq(toks, 1, n) \in Seq(Tokens)
  BY <1>4
<1>6. Len(SubSeq(toks, 1, n)) = n /\ \A i \in 1 .. n : SubSeq(toks, 1, n)[i] = toks[i]
  OBVIOUS
<1> QED BY <1>1, <1>2, <1>3, <1>5, <1>6

(* What a chord that is not refused is made of.                            *)
LEMMA ParsedChord ==
  ASSUME NEW toks \in Chords, ParseChord(toks).key # NoKey
  PROVE  LET c == ParseChord(toks)
         IN  /\ c.mods \in Seq(Modifiers) /\ c.key \in Keys
             /\ Range(c.mods) = {ModifierOf[t] : t \in Range(Front(toks))} \ {NoModifier}
             /\ Distinct(c.mods)
<1> DEFINE c == ParseChord(toks)
           mods == Front(toks)
<1>1. toks \in Seq(Tokens) /\ toks # << >>
  BY ChordAssumption DEF Tokens
<1>2. /\ mods \in Seq(Tokens) /\ Len(mods) = Len(toks) - 1
      /\ \A i \in 1 .. Len(mods) : mods[i] = toks[i]
      /\ Last(toks) \in Tokens /\ Len(mods) \in Nat
  BY <1>1, FrontFacts
<1>3. Range(mods) = {mods[i] : i \in 1 .. Len(mods)}
  BY <1>2 DEF Range
<1>4. toks # <<Blank>>
  BY DEF ParseChord, Refused
<1>5. CASE toks = <<Blank, Blank>>
  <2>1. c = [mods |-> << >>, key |-> Plus]
    BY <1>4, <1>5 DEF ParseChord
  <2>2. Len(mods) = 1 /\ mods[1] = Blank
    BY <1>2, <1>5
  <2>3. Range(mods) = {Blank}
    BY <1>3, <2>2
  <2>4. {ModifierOf[t] : t \in Range(mods)} \ {NoModifier} = {}
    BY <2>3, ChordAssumption
  <2>5. c.mods = << >> /\ Range(c.mods) = {} /\ Distinct(c.mods) /\ c.mods \in Seq(Modifiers)
    BY <2>1 DEF Range, Distinct
  <2>6. c.key \in Keys
    BY <2>1, ChordAssumption
  <2> HIDE DEF c, mods
  <2> QED BY <2>4, <2>5, <2>6 DEF c, mods
<1>6. CASE toks # <<Blank, Blank>>
  <2>1. ~\E i \in DOMAIN mods : ModifierOf[mods[i]] = NoModifier
    BY <1>4, <1>6 DEF ParseChord, Refused
  <2>2. /\ c.mods = ChordMods(mods)
        /\ c.key = IF Last(toks) = Blank THEN Plus ELSE KeyOf[Last(toks)]
    BY <1>4, <1>6, <2>1 DEF ParseChord
  <2>3. \A i \in 1 .. Len(mods) : ModifierOf[mods[i]] \in Modifiers
    <3>1. \A i \in 1 .. Len(mods) : mods[i] \in Tokens
      BY <1>2
    <3> HIDE DEF mods
    <3> QED BY <1>2, <2>1, <3>1, ChordAssumption DEF Tokens
  <2>4. GrownFrom(mods, Len(mods), c.mods)
    <3> HIDE DEF mods, c
    <3> QED BY <1>2, <2>2, <2>3, ChordModsGrown
  <2>5. c.mods \in Seq(Modifiers) /\ Distinct(c.mods) /\ Range(c.mods) = {c.mods[i] : i \in 1 .. Len(c.mods)}
    <3> HIDE DEF mods, c
    <3> QED BY <2>4 DEF GrownFrom, Distinct, Range
  <2>6. Range(c.mods) = {ModifierOf[mods[i]] : i \in 1 .. Len(mods)}
    <3> HIDE DEF mods, c
    <3> QED BY <2>4, <2>5 DEF GrownFrom
  <2>7. {ModifierOf[mods[i]] : i \in 1 .. Len(mods)} = {ModifierOf[t] : t \in Range(mods)} \ {NoModifier}
    <3> HIDE DEF mods, c
    <3> QED BY <1>3, <2>3, ChordAssumption
  <2>8. c.key \in Keys
    <3>1. KeyOf[Last(toks)] \in Keys
      BY <1>2 DEF Keys, Range, Tokens
    <3> HIDE DEF mods, c
    <3> QED BY <2>2, <3>1, ChordAssumption
  <2> HIDE DEF c, mods
  <2> QED BY <2>5, <2>6, <2>7, <2>8 DEF c, mods
<1> QED BY <1>5, <1>6

-----------------------------------------------------------------------------
(* Arithmetic of the moves of a drag.                                      *)
LEMMA ProductGrows ==
  ASSUME NEW d \in Nat, NEW m \in Int, NEW n \in Int, m =< n
  PROVE  d * m =< d * n
<1>1. PICK k \in Nat : n = m + k
  <2>1. n - m \in Nat /\ n = m + (n - m)
    OBVIOUS
  <2> QED BY <2>1
<1>2. d * n = d * m + d * k /\ d * k \in Nat /\ d * m \in Int
  BY <1>1
<1> QED BY <1>2

LEMMA QuotientBetween ==
  ASSUME NEW d \in Nat \ {0}, NEW n \in Int, NEW lo \in Int, NEW hi \in Int,
         d * lo =< n, n < d * (hi + 1)
  PROVE  n \div d \in lo .. hi
<1> DEFINE q == n \div d
<1>1. q \in Int /\ d * q =< n /\ n < d * (q + 1)
  OBVIOUS
<1> HIDE DEF q
<1>2. lo =< q
  <2> SUFFICES ASSUME q + 1 =< lo PROVE FALSE
    BY <1>1
  <2>1. d * (q + 1) =< d * lo
    BY <1>1, ProductGrows
  <2> QED BY <1>1, <2>1
<1>3. q =< hi
  <2> SUFFICES ASSUME hi + 1 =< q PROVE FALSE
    BY <1>1
  <2>1. d * (hi + 1) =< d * q
    BY <1>1, ProductGrows
  <2> QED BY <1>1, <2>1
<1> QED BY <1>1, <1>2, <1>3 DEF q

LEMMA RoundBetween ==
  ASSUME NEW d \in Nat \ {0}, NEW n \in Int, NEW lo \in Int, NEW hi \in Int,
         d * lo =< n, n =< d * hi
  PROVE  G!Round(n, d) \in lo .. hi
<1>1. 2 * d \in Nat \ {0}
  OBVIOUS
<1>2. CASE n >= 0
  <2>1. (2 * d) * lo =< 2 * n + d /\ 2 * n + d < (2 * d) * (hi + 1)
    <3>1. (2 * d) * lo = 2 * (d * lo) /\ (2 * d) * (hi + 1) = 2 * (d * hi) + 2 * d
          /\ d * lo \in Int /\ d * hi \in Int
      OBVIOUS
    <3> QED BY <3>1
  <2>2. 2 * n + d \in Int
    OBVIOUS
  <2>3. (2 * n + d) \div (2 * d) \in lo .. hi
    BY <1>1, <2>1, <2>2, QuotientBetween
  <2> QED BY <1>2, <2>3 DEF G!Round
<1>3. CASE ~(n >= 0)
  <2>1. (2 * d) * (-hi) =< d - 2 * n /\ d - 2 * n < (2 * d) * (-lo + 1)
    <3>1. (2 * d) * (-hi) = -(2 * (d * hi)) /\ (2 * d) * (-lo + 1) = 2 * d - 2 * (d * lo)
          /\ d * lo \in Int /\ d * hi \in Int
      OBVIOUS
    <3> QED BY <3>1
  <2>2. d - 2 * n \in Int /\ -hi \in Int /\ -lo \in Int
    OBVIOUS
  <2>3. (d - 2 * n) \div (2 * d) \in (-hi) .. (-lo)
    BY <1>1, <2>1, <2>2, QuotientBetween
  <2>4. -((d - 2 * n) \div (2 * d)) \in lo .. hi
    BY <2>3
  <2> QED BY <1>3, <2>4 DEF G!Round
<1> QED BY <1>2, <1>3

(* The pointer never leaves the way from one end of a drag to the other.   *)
LEMMA AlongStaysBetween ==
  ASSUME NEW f \in Int, NEW t \in Int, NEW i \in 1 .. Steps
  PROVE  Along(f, t, i) \in G!Least(f, t) .. G!Greatest(f, t)
<1> DEFINE n == f * Steps + (t - f) * i
<1>1. Steps \in Nat \ {0}
  BY InputAssumption
<1>2. CASE f =< t
  <2>1. PICK k \in Nat : t = f + k
    <3>1. t - f \in Nat /\ t = f + (t - f)
      BY <1>2
    <3> QED BY <3>1
  <2>2. n = Steps * f + k * i /\ k * i \in Nat /\ Steps * f \in Int /\ Steps * t = Steps * f + k * Steps
        /\ k * Steps \in Nat
    BY <1>1, <2>1
  <2>3. k * i =< k * Steps
    BY <1>1, ProductGrows
  <2>4. n \in Int /\ Steps * f =< n /\ n =< Steps * t
    <3> HIDE DEF n
    <3> QED BY <2>2, <2>3
  <2>5. G!Round(n, Steps) \in f .. t
    <3> HIDE DEF n
    <3> QED BY <1>1, <2>4, RoundBetween
  <2> QED BY <1>2, <2>5 DEF Along, G!Least, G!Greatest
<1>3. CASE ~(f =< t)
  <2>1. PICK k \in Nat : f = t + k
    <3>1. f - t \in Nat /\ f = t + (f - t)
      BY <1>3
    <3> QED BY <3>1
  <2>2. n = Steps * f - k * i /\ k * i \in Nat /\ Steps * f \in Int /\ Steps * f = Steps * t + k * Steps
        /\ k * Steps \in Nat /\ Steps * t \in Int
    BY <1>1, <2>1
  <2>3. k * i =< k * Steps
    BY <1>1, ProductGrows
  <2>4. n \in Int /\ Steps * t =< n /\ n =< Steps * f
    <3> HIDE DEF n
    <3> QED BY <2>2, <2>3
  <2>5. G!Round(n, Steps) \in t .. f
    <3> HIDE DEF n
    <3> QED BY <1>1, <2>4, RoundBetween
  <2> QED BY <1>3, <2>5 DEF Along, G!Least, G!Greatest
<1> QED BY <1>2, <1>3

Between(a, i) == [x |-> Along(a.from.x, a.to.x, i), y |-> Along(a.from.y, a.to.y, i)]

LEMMA BetweenIsInside ==
  ASSUME NEW a, a.from \in Points, a.to \in Points, NEW i \in 1 .. Steps
  PROVE  /\ Between(a, i) \in [x : Int, y : Int]
         /\ Check(a.from) = "ok" /\ Check(a.to) = "ok" => Check(Between(a, i)) = "ok"
<1>1. a.from \in [x : Int, y : Int] /\ a.to \in [x : Int, y : Int] /\ Desktop \in [x : Int, y : Int, w : Nat, h : Nat]
  BY InputAssumption
<1>2. PICK fx \in Int, fy \in Int, tx \in Int, ty \in Int :
        fx = a.from.x /\ fy = a.from.y /\ tx = a.to.x /\ ty = a.to.y
  BY <1>1
<1>3. PICK u \in Int, v \in Int : u = Along(fx, tx, i) /\ v = Along(fy, ty, i)
      /\ u \in G!Least(fx, tx) .. G!Greatest(fx, tx) /\ v \in G!Least(fy, ty) .. G!Greatest(fy, ty)
  <2>1. Along(fx, tx, i) \in G!Least(fx, tx) .. G!Greatest(fx, tx)
    BY AlongStaysBetween
  <2>2. Along(fy, ty, i) \in G!Least(fy, ty) .. G!Greatest(fy, ty)
    BY AlongStaysBetween
  <2> QED BY <2>1, <2>2
<1>4. Between(a, i) = [x |-> u, y |-> v]
  BY <1>2, <1>3 DEF Between
<1>5. \A p : Check(p) = "ok" <=> /\ Desktop.w # 0 /\ Desktop.h # 0
                               /\ Desktop.x =< p.x /\ p.x =< Desktop.x + Desktop.w
                               /\ Desktop.y =< p.y /\ p.y =< Desktop.y + Desktop.h
  BY DEF Check, G!Inside, G!End, Span
<1>6. ASSUME Check(a.from) = "ok", Check(a.to) = "ok" PROVE Check([x |-> u, y |-> v]) = "ok"
  <2>1. /\ Desktop.w # 0 /\ Desktop.h # 0
        /\ Desktop.x =< fx /\ fx =< Desktop.x + Desktop.w /\ Desktop.y =< fy /\ fy =< Desktop.y + Desktop.h
        /\ Desktop.x =< tx /\ tx =< Desktop.x + Desktop.w /\ Desktop.y =< ty /\ ty =< Desktop.y + Desktop.h
    BY <1>2, <1>5, <1>6
  <2>2. /\ Desktop.x =< u /\ u =< Desktop.x + Desktop.w /\ Desktop.y =< v /\ v =< Desktop.y + Desktop.h
    BY <1>1, <1>3, <2>1 DEF G!Least, G!Greatest
  <2> QED BY <1>5, <2>1, <2>2
<1> QED BY <1>3, <1>4, <1>6

LEMMA EventTyped ==
  ASSUME NEW on, NEW fail \in Failures
  PROVE  /\ on \in [x : Int, y : Int] => MoveTo(on, fail) \in Events
         /\ on \in Buttons \cup Modifiers \cup Keys =>
              \A op \in {"press", "release", "click"} : Event(op, on, fail) \in Events
         /\ on \in {"vertical", "horizontal", "text"} =>
              \A op \in {"scroll", "text"} : Event(op, on, fail) \in Events
BY DEF Events, MoveTo, Event

(* A drag: move to one end and press, which end it if they fail; moves     *)
(* that never leave the desktop; and the release, whatever happened.       *)
LEMMA DragShape ==
  ASSUME NEW a, a.from \in Points, a.to \in Points, a.button \in Buttons
  PROVE  LET s == DragScript(a)
         IN  /\ s \in Seq(Events) /\ Len(s) = Steps + 3
             /\ s[1] = MoveTo(a.from, "stop") /\ s[2] = Event("press", a.button, "stop")
             /\ \A i \in 3 .. Steps + 2 : s[i] = MoveTo(Between(a, i - 2), "break")
             /\ s[Steps + 3] = Event("release", a.button, "note")
<1> DEFINE first == <<MoveTo(a.from, "stop"), Event("press", a.button, "stop")>>
           moves == [i \in 1 .. Steps |-> MoveTo(Between(a, i), "break")]
           last  == <<Event("release", a.button, "note")>>
<1>1. Steps \in Nat /\ Points \subseteq [x : Int, y : Int]
  BY InputAssumption
<1>2. {"stop", "break", "note"} \subseteq Failures
  BY DEF Failures
<1>3. MoveTo(a.from, "stop") \in Events /\ Event("press", a.button, "stop") \in Events
      /\ Event("release", a.button, "note") \in Events
  BY <1>1, <1>2, EventTyped
<1>4. \A i \in 1 .. Steps : MoveTo(Between(a, i), "break") \in Events
  BY <1>2, EventTyped, BetweenIsInside
<1>5. /\ first \in Seq(Events) /\ Len(first) = 2
      /\ first[1] = MoveTo(a.from, "stop") /\ first[2] = Event("press", a.button, "stop")
      /\ last \in Seq(Events) /\ Len(last) = 1 /\ last[1] = Event("release", a.button, "note")
  BY <1>3
<1>6. moves \in Seq(Events) /\ Len(moves) = Steps
  BY <1>1, <1>4
<1>7. DragScript(a) = (first \o moves) \o last
  BY DEF DragScript, Between
<1>8. \A i \in 1 .. Steps : moves[i] = MoveTo(Between(a, i), "break")
  OBVIOUS
<1> HIDE DEF first, moves, last
<1>9. /\ first \o moves \in Seq(Events) /\ Len(first \o moves) = Steps + 2
      /\ \A i \in 1 .. Steps + 2 : (first \o moves)[i] = IF i <= 2 THEN first[i] ELSE moves[i - 2]
  <2>1. /\ first \o moves \in Seq(Events) /\ Len(first \o moves) = Len(first) + Len(moves)
        /\ \A i \in 1 .. Len(first) + Len(moves) :
             (first \o moves)[i] = IF i <= Len(first) THEN first[i] ELSE moves[i - Len(first)]
    BY <1>5, <1>6, ConcatProperties
  <2> QED BY <1>1, <1>5, <1>6, <2>1
<1>10. /\ (first \o moves) \o last \in Seq(Events) /\ Len((first \o moves) \o last) = Steps + 3
       /\ \A i \in 1 .. Steps + 3 : ((first \o moves) \o last)[i] =
            IF i <= Steps + 2 THEN (first \o moves)[i] ELSE last[i - (Steps + 2)]
  <2> DEFINE fm == first \o moves
  <2> HIDE DEF fm
  <2>1. fm \in Seq(Events) /\ Len(fm) = Steps + 2
    BY <1>9 DEF fm
  <2>2. /\ fm \o last \in Seq(Events) /\ Len(fm \o last) = Len(fm) + Len(last)
        /\ \A i \in 1 .. Len(fm) + Len(last) :
             (fm \o last)[i] = IF i <= Len(fm) THEN fm[i] ELSE last[i - Len(fm)]
    BY <1>5, <2>1, ConcatProperties
  <2>3. Len(fm) + Len(last) = Steps + 3
    BY <1>1, <1>5, <2>1
  <2> QED BY <2>1, <2>2, <2>3 DEF fm
<1>11. \A i \in 3 .. Steps + 2 : i - 2 \in 1 .. Steps /\ i \in 1 .. Steps + 3 /\ i \in 1 .. Steps + 2
  BY <1>1
<1>12. \A i \in 3 .. Steps + 2 : ((first \o moves) \o last)[i] = MoveTo(Between(a, i - 2), "break")
  BY <1>1, <1>8, <1>9, <1>10, <1>11
<1>13. /\ ((first \o moves) \o last)[1] = first[1] /\ ((first \o moves) \o last)[2] = first[2]
       /\ ((first \o moves) \o last)[Steps + 3] = last[1]
  BY <1>1, <1>9, <1>10
<1> QED BY <1>5, <1>7, <1>10, <1>12, <1>13

(* A chord: its modifiers pressed in order, its key, and its modifiers     *)
(* released in the opposite order.                                         *)
LEMMA ChordShape ==
  ASSUME NEW c, c.mods \in Seq(Modifiers), c.key \in Keys
  PROVE  LET s == ChordScript(c)
             n == Len(c.mods)
         IN  /\ s \in Seq(Events) /\ Len(s) = 2 * n + 1
             /\ \A i \in 1 .. n : s[i] = Event("press", c.mods[i], "stop")
             /\ s[n + 1] = Event("click", c.key, "note")
             /\ \A i \in n + 2 .. 2 * n + 1 : s[i] = Event("release", c.mods[2 * n + 2 - i], "ignore")
<1> DEFINE down == [i \in DOMAIN c.mods |-> Event("press", c.mods[i], "stop")]
           key  == <<Event("click", c.key, "note")>>
           up   == [i \in DOMAIN c.mods |-> Event("release", Reverse(c.mods)[i], "ignore")]
<1>1. PICK n \in Nat : n = Len(c.mods) /\ DOMAIN c.mods = 1 .. n
  OBVIOUS
<1>2. {"stop", "note", "ignore"} \subseteq Failures
  BY DEF Failures
<1>3. \A i \in 1 .. n : c.mods[i] \in Modifiers /\ Reverse(c.mods)[i] = c.mods[n - i + 1] /\ n - i + 1 \in 1 .. n
  <2>1. \A i \in 1 .. n : Reverse(c.mods)[i] = c.mods[(n - i) + 1]
    BY <1>1 DEF Reverse
  <2> QED BY <1>1, <2>1
<1>4. /\ down \in Seq(Events) /\ Len(down) = n /\ \A i \in 1 .. n : down[i] = Event("press", c.mods[i], "stop")
  <2>1. \A i \in 1 .. n : Event("press", c.mods[i], "stop") \in Events
    BY <1>2, <1>3, EventTyped
  <2> QED BY <1>1, <2>1
<1>5. /\ up \in Seq(Events) /\ Len(up) = n
      /\ \A i \in 1 .. n : up[i] = Event("release", c.mods[n - i + 1], "ignore")
  <2>1. \A i \in 1 .. n : Reverse(c.mods)[i] \in Modifiers
    BY <1>3
  <2>2. \A i \in 1 .. n : Event("release", Reverse(c.mods)[i], "ignore") \in Events
    BY <1>2, <2>1, EventTyped
  <2> QED BY <1>1, <1>3, <2>2
<1>6. key \in Seq(Events) /\ Len(key) = 1 /\ key[1] = Event("click", c.key, "note")
  BY <1>2, EventTyped
<1>7. ChordScript(c) = (down \o key) \o up
  BY DEF ChordScript
<1> HIDE DEF down, key, up
<1> DEFINE dk == down \o key
<1>8. /\ dk \in Seq(Events) /\ Len(dk) = n + 1
      /\ \A i \in 1 .. n + 1 : dk[i] = IF i <= n THEN down[i] ELSE key[i - n]
  <2>1. /\ down \o key \in Seq(Events) /\ Len(down \o key) = Len(down) + Len(key)
        /\ \A i \in 1 .. Len(down) + Len(key) :
             (down \o key)[i] = IF i <= Len(down) THEN down[i] ELSE key[i - Len(down)]
    BY <1>4, <1>6, ConcatProperties
  <2> QED BY <1>4, <1>6, <2>1
<1> HIDE DEF dk
<1>9. /\ dk \o up \in Seq(Events) /\ Len(dk \o up) = 2 * n + 1
      /\ \A i \in 1 .. 2 * n + 1 : (dk \o up)[i] = IF i <= n + 1 THEN dk[i] ELSE up[i - (n + 1)]
  <2>1. /\ dk \o up \in Seq(Events) /\ Len(dk \o up) = Len(dk) + Len(up)
        /\ \A i \in 1 .. Len(dk) + Len(up) :
             (dk \o up)[i] = IF i <= Len(dk) THEN dk[i] ELSE up[i - Len(dk)]
    BY <1>5, <1>8, ConcatProperties
  <2>2. Len(dk) + Len(up) = 2 * n + 1
    BY <1>5, <1>8
  <2> QED BY <1>5, <1>8, <2>1, <2>2
<1>10. \A i \in 1 .. n : (dk \o up)[i] = Event("press", c.mods[i], "stop")
  BY <1>4, <1>8, <1>9
<1>11. (dk \o up)[n + 1] = Event("click", c.key, "note")
  BY <1>6, <1>8, <1>9
<1>12. \A i \in n + 2 .. 2 * n + 1 : (dk \o up)[i] = Event("release", c.mods[2 * n + 2 - i], "ignore")
  <2>1. \A i \in n + 2 .. 2 * n + 1 : /\ i \in 1 .. 2 * n + 1 /\ ~(i <= n + 1) /\ i - (n + 1) \in 1 .. n
                                       /\ n - (i - (n + 1)) + 1 = 2 * n + 2 - i
    OBVIOUS
  <2> QED BY <1>5, <1>9, <2>1
<1> QED BY <1>1, <1>7, <1>9, <1>10, <1>11, <1>12 DEF dk

-----------------------------------------------------------------------------
(* What an event of a script may be, by its place in it.                   *)
Fits(a, i, e) ==
  /\ e \in Events
  /\ e.op = "move" => \/ i = 1 /\ e.fail = "stop" /\ a.kind # "drag"
                      \/ a.kind = "drag" /\ Check(e.on) = "ok"
  /\ e.fail = "ignore" => a.kind = "key" /\ e.op = "release"
  /\ e.fail = "break" => a.kind = "drag"
  /\ e.fail = "note" => a.kind \in {"drag", "key"}
  /\ a.kind # "key" /\ e.op \in {"press", "release", "click"} => e.on \in Buttons
  /\ e.op = "press" => a.kind \in {"drag", "key"} \/ (a.kind = "button" /\ a.down)

LEMMA ActionFields ==
  ASSUME NEW a \in Actions
  PROVE  /\ a.kind \in {"move", "click", "button", "drag", "scroll", "type", "key"}
         /\ a.kind = "move" => a.at \in Points
         /\ a.kind = "click" => a.at \in Points /\ a.button \in Buttons /\ a.count \in {0, 2, 9}
         /\ a.kind = "button" => a.button \in Buttons /\ a.down \in BOOLEAN
         /\ a.kind = "drag" => a.from \in Points /\ a.to \in Points /\ a.button \in Buttons
         /\ a.kind = "scroll" => a.at = << >> \/ \E p \in Points : a.at = <<p>>
         /\ a.kind = "key" => a.chord \in Chords
BY DEF Actions

LEMMA KeyScript ==
  ASSUME NEW a \in Actions, a.kind = "key", Verdict(a) = "ok"
  PROVE  LET c == ParseChord(a.chord)
         IN  /\ Script(a) = ChordScript(c) /\ c.mods \in Seq(Modifiers) /\ c.key \in Keys
             /\ Range(c.mods) = {ModifierOf[t] : t \in Range(Front(a.chord))} \ {NoModifier}
             /\ Distinct(c.mods)
<1>1. Script(a) = ChordScript(ParseChord(a.chord))
  BY DEF Script
<1>2. ParseChord(a.chord).key # NoKey
  BY DEF Verdict
<1>3. a.chord \in Chords
  BY ActionFields
<1> QED BY <1>1, <1>2, <1>3, ParsedChord

LEMMA DragScriptOf ==
  ASSUME NEW a \in Actions, a.kind = "drag", Verdict(a) = "ok"
  PROVE  Script(a) = DragScript(a) /\ Check(a.from) = "ok" /\ Check(a.to) = "ok"
BY DEF Script, Verdict

LEMMA ScriptFits ==
  ASSUME NEW a \in Actions, Verdict(a) = "ok"
  PROVE  /\ Script(a) \in Seq(Events)
         /\ \A i \in 1 .. Len(Script(a)) : Fits(a, i, Script(a)[i])
<1>1. Points \subseteq [x : Int, y : Int] /\ "stop" \in Failures
  BY InputAssumption DEF Failures
<1>2. ASSUME a.kind = "move" PROVE Script(a) \in Seq(Events) /\ \A i \in 1 .. Len(Script(a)) : Fits(a, i, Script(a)[i])
  <2>1. Script(a) = <<MoveTo(a.at, "stop")>> /\ MoveTo(a.at, "stop") \in Events
    BY <1>1, <1>2, ActionFields, EventTyped DEF Script
  <2>2. Fits(a, 1, MoveTo(a.at, "stop"))
    BY <1>2, <2>1 DEF Fits, MoveTo, Event
  <2> QED BY <2>1, <2>2
<1>3. ASSUME a.kind = "click" PROVE Script(a) \in Seq(Events) /\ \A i \in 1 .. Len(Script(a)) : Fits(a, i, Script(a)[i])
  <2> DEFINE e == Event("click", a.button, "stop")
             clicks == [i \in 1 .. G!Clamp(a.count, 1, 3) |-> e]
  <2>1. PICK k \in Nat : k = G!Clamp(a.count, 1, 3)
    BY <1>3, ActionFields DEF G!Clamp, G!Least, G!Greatest
  <2>2. Script(a) = <<MoveTo(a.at, "stop")>> \o clicks /\ MoveTo(a.at, "stop") \in Events /\ e \in Events
    BY <1>1, <1>3, ActionFields, EventTyped DEF Script
  <2>3. Fits(a, 1, MoveTo(a.at, "stop"))
    BY <1>3, <2>2 DEF Fits, MoveTo, Event
  <2>4. \A i \in Nat : Fits(a, i, e)
    BY <1>3, <2>2, ActionFields DEF Fits, Event
  <2>5. clicks \in Seq(Events) /\ Len(clicks) = k /\ \A i \in 1 .. k : clicks[i] = e
    <3> HIDE DEF e
    <3>1. e \in Events
      BY <2>2
    <3>2. clicks = [i \in 1 .. k |-> e]
      BY <2>1
    <3> HIDE DEF clicks
    <3> QED BY <3>1, <3>2
  <2> HIDE DEF e, clicks
  <2>6. <<MoveTo(a.at, "stop")>> \in Seq(Events) /\ Len(<<MoveTo(a.at, "stop")>>) = 1
        /\ <<MoveTo(a.at, "stop")>>[1] = MoveTo(a.at, "stop")
    BY <2>2
  <2>7. /\ Script(a) \in Seq(Events) /\ Len(Script(a)) = 1 + k
        /\ \A i \in 1 .. 1 + k : Script(a)[i] = IF i <= 1 THEN MoveTo(a.at, "stop") ELSE clicks[i - 1]
    <3> DEFINE m == <<MoveTo(a.at, "stop")>>
    <3>1. /\ m \o clicks \in Seq(Events) /\ Len(m \o clicks) = Len(m) + Len(clicks)
          /\ \A i \in 1 .. Len(m) + Len(clicks) :
               (m \o clicks)[i] = IF i <= Len(m) THEN m[i] ELSE clicks[i - Len(m)]
      <4> HIDE DEF m
      <4> QED BY <2>5, <2>6, ConcatProperties DEF m
    <3>2. \A i \in 1 .. 1 + k : i <= 1 => i = 1
      OBVIOUS
    <3> HIDE DEF m
    <3> QED BY <2>2, <2>5, <2>6, <3>1, <3>2 DEF m
  <2>8. \A i \in 1 .. 1 + k : ~(i <= 1) => i - 1 \in 1 .. k
    OBVIOUS
  <2>9. \A i \in 1 .. 1 + k : Fits(a, i, Script(a)[i])
    <3>1. \A i \in 1 .. 1 + k : i <= 1 => i = 1
      OBVIOUS
    <3> QED BY <2>3, <2>4, <2>5, <2>7, <2>8, <3>1
  <2> QED BY <2>7, <2>9
<1>4. ASSUME a.kind = "button" PROVE Script(a) \in Seq(Events) /\ \A i \in 1 .. Len(Script(a)) : Fits(a, i, Script(a)[i])
  <2> DEFINE e == Event(IF a.down THEN "press" ELSE "release", a.button, "stop")
  <2>1. Script(a) = <<e>> /\ e \in Events
    BY <1>1, <1>4, ActionFields, EventTyped DEF Script
  <2>2. Fits(a, 1, e)
    BY <1>4, <2>1, ActionFields DEF Fits, Event
  <2> HIDE DEF e
  <2> QED BY <2>1, <2>2
<1>5. ASSUME a.kind = "drag" PROVE Script(a) \in Seq(Events) /\ \A i \in 1 .. Len(Script(a)) : Fits(a, i, Script(a)[i])
  <2> DEFINE s == Script(a)
  <2>1. a.from \in Points /\ a.to \in Points /\ a.button \in Buttons
    BY <1>5, ActionFields
  <2>2. s = DragScript(a) /\ Check(a.from) = "ok" /\ Check(a.to) = "ok"
    BY <1>5, DragScriptOf
  <2> HIDE DEF s
  <2>3. /\ s \in Seq(Events) /\ Len(s) = Steps + 3
        /\ s[1] = MoveTo(a.from, "stop") /\ s[2] = Event("press", a.button, "stop")
        /\ \A i \in 3 .. Steps + 2 : s[i] = MoveTo(Between(a, i - 2), "break")
        /\ s[Steps + 3] = Event("release", a.button, "note")
    BY <2>1, <2>2, DragShape
  <2>4. PICK k \in Nat : k = Steps
    BY InputAssumption
  <2>5. \A i \in 1 .. k + 3 : s[i] \in Events
    BY <2>3, <2>4
  <2>6. Fits(a, 1, s[1]) /\ Fits(a, 2, s[2]) /\ Fits(a, k + 3, s[k + 3])
    <3>1. s[1] \in Events /\ s[2] \in Events /\ s[k + 3] \in Events
      BY <2>5
    <3> QED BY <1>5, <2>1, <2>2, <2>3, <2>4, <3>1 DEF Fits, MoveTo, Event
  <2>7. ASSUME NEW i \in 3 .. k + 2 PROVE Fits(a, i, s[i])
    <3>1. i - 2 \in 1 .. Steps /\ i \in 1 .. k + 3
      BY <2>4
    <3>2. Check(Between(a, i - 2)) = "ok"
      BY <2>1, <2>2, <3>1, BetweenIsInside
    <3>3. s[i] = MoveTo(Between(a, i - 2), "break") /\ s[i] \in Events
      BY <2>3, <2>4, <2>5, <3>1
    <3> QED BY <1>5, <3>2, <3>3 DEF Fits, MoveTo, Event
  <2>8. \A i \in 1 .. k + 3 : i = 1 \/ i = 2 \/ i = k + 3 \/ i \in 3 .. k + 2
    OBVIOUS
  <2>9. \A i \in 1 .. k + 3 : Fits(a, i, s[i])
    BY <2>6, <2>7, <2>8
  <2> QED BY <2>3, <2>4, <2>9 DEF s
<1>6. ASSUME a.kind = "scroll" PROVE Script(a) \in Seq(Events) /\ \A i \in 1 .. Len(Script(a)) : Fits(a, i, Script(a)[i])
  <2> DEFINE m == IF a.at = << >> THEN << >> ELSE <<MoveTo(a.at[1], "stop")>>
             v == IF a.dy = 0 THEN << >> ELSE <<Event("scroll", "vertical", "stop")>>
             h == IF a.dx = 0 THEN << >> ELSE <<Event("scroll", "horizontal", "stop")>>
  <2>1. Script(a) = (m \o v) \o h
    BY <1>6 DEF Script, ScrollScript
  <2>2. /\ a.at # << >> => MoveTo(a.at[1], "stop") \in Events
        /\ Event("scroll", "vertical", "stop") \in Events /\ Event("scroll", "horizontal", "stop") \in Events
    BY <1>1, <1>6, ActionFields, EventTyped
  <2>3. /\ a.at # << >> => Fits(a, 1, MoveTo(a.at[1], "stop"))
        /\ \A i : Fits(a, i, Event("scroll", "vertical", "stop")) /\ Fits(a, i, Event("scroll", "horizontal", "stop"))
    BY <1>6, <2>2 DEF Fits, MoveTo, Event
  <2>4. m \in Seq(Events) /\ Len(m) \in 0 .. 1 /\ \A i \in 1 .. Len(m) : i = 1 /\ Fits(a, i, m[i])
    BY <2>2, <2>3
  <2>5. v \in Seq(Events) /\ Len(v) \in 0 .. 1 /\ \A i \in 1 .. Len(v) : \A j : Fits(a, j, v[i])
    BY <2>2, <2>3
  <2>6. h \in Seq(Events) /\ Len(h) \in 0 .. 1 /\ \A i \in 1 .. Len(h) : \A j : Fits(a, j, h[i])
    BY <2>2, <2>3
  <2> HIDE DEF m, v, h
  <2> DEFINE mv == m \o v
  <2>7. mv \in Seq(Events) /\ Len(mv) \in Nat /\ \A i \in 1 .. Len(mv) : Fits(a, i, mv[i])
    <3>1. /\ m \o v \in Seq(Events) /\ Len(m \o v) = Len(m) + Len(v)
          /\ \A i \in 1 .. Len(m) + Len(v) : (m \o v)[i] = IF i <= Len(m) THEN m[i] ELSE v[i - Len(m)]
      BY <2>4, <2>5, ConcatProperties
    <3>2. \A i \in 1 .. Len(m) + Len(v) : IF i <= Len(m) THEN i \in 1 .. Len(m) ELSE i - Len(m) \in 1 .. Len(v)
      BY <2>4, <2>5
    <3>3. \A i \in 1 .. Len(m) + Len(v) : Fits(a, i, (m \o v)[i])
      BY <2>4, <2>5, <3>1, <3>2
    <3> QED BY <2>4, <2>5, <3>1, <3>3
  <2> HIDE DEF mv
  <2>8. /\ mv \o h \in Seq(Events) /\ Len(mv \o h) = Len(mv) + Len(h)
        /\ \A i \in 1 .. Len(mv) + Len(h) : (mv \o h)[i] = IF i <= Len(mv) THEN mv[i] ELSE h[i - Len(mv)]
    BY <2>6, <2>7, ConcatProperties
  <2>9. \A i \in 1 .. Len(mv) + Len(h) : IF i <= Len(mv) THEN i \in 1 .. Len(mv) ELSE i - Len(mv) \in 1 .. Len(h)
    BY <2>6, <2>7
  <2>10. \A i \in 1 .. Len(mv) + Len(h) : Fits(a, i, (mv \o h)[i])
    BY <2>6, <2>7, <2>8, <2>9
  <2> QED BY <2>1, <2>8, <2>10 DEF mv
<1>7. ASSUME a.kind = "type" PROVE Script(a) \in Seq(Events) /\ \A i \in 1 .. Len(Script(a)) : Fits(a, i, Script(a)[i])
  <2>1. Script(a) = <<Event("text", "text", "stop")>> /\ Event("text", "text", "stop") \in Events
    BY <1>1, <1>7, EventTyped DEF Script
  <2>2. Fits(a, 1, Event("text", "text", "stop"))
    BY <1>7, <2>1 DEF Fits, Event
  <2> QED BY <2>1, <2>2
<1>8. ASSUME a.kind = "key" PROVE Script(a) \in Seq(Events) /\ \A i \in 1 .. Len(Script(a)) : Fits(a, i, Script(a)[i])
  <2> DEFINE c == ParseChord(a.chord)
             s == Script(a)
  <2>1. s = ChordScript(c) /\ c.mods \in Seq(Modifiers) /\ c.key \in Keys
    BY <1>8, KeyScript
  <2> HIDE DEF c, s
  <2>2. PICK n \in Nat : n = Len(c.mods)
    BY <2>1
  <2>3. /\ s \in Seq(Events) /\ Len(s) = 2 * n + 1
        /\ \A i \in 1 .. n : s[i] = Event("press", c.mods[i], "stop")
        /\ s[n + 1] = Event("click", c.key, "note")
        /\ \A i \in n + 2 .. 2 * n + 1 : s[i] = Event("release", c.mods[2 * n + 2 - i], "ignore")
    BY <2>1, <2>2, ChordShape
  <2>4. \A i \in 1 .. 2 * n + 1 : s[i] \in Events
    BY <2>3
  <2>5. \A i \in 1 .. 2 * n + 1 : i \in 1 .. n \/ i = n + 1 \/ i \in n + 2 .. 2 * n + 1
    OBVIOUS
  <2>6. ASSUME NEW i \in 1 .. 2 * n + 1
        PROVE  Fits(a, i, s[i])
    <3>1. s[i] \in Events
      BY <2>4
    <3>2. \/ s[i].op = "press" /\ s[i].fail = "stop"
          \/ s[i].op = "click" /\ s[i].fail = "note"
          \/ s[i].op = "release" /\ s[i].fail = "ignore"
      <4>1. CASE i \in 1 .. n
        <5>1. s[i] = Event("press", c.mods[i], "stop")
          BY <2>3, <4>1
        <5> QED BY <5>1 DEF Event
      <4>2. CASE i = n + 1
        <5>1. s[i] = Event("click", c.key, "note")
          BY <2>3, <4>2
        <5> QED BY <5>1 DEF Event
      <4>3. CASE i \in n + 2 .. 2 * n + 1
        <5>1. s[i] = Event("release", c.mods[2 * n + 2 - i], "ignore")
          BY <2>3, <4>3
        <5> QED BY <5>1 DEF Event
      <4> QED BY <2>5, <4>1, <4>2, <4>3
    <3> QED BY <1>8, <3>1, <3>2 DEF Fits
  <2> QED BY <2>3, <2>6 DEF s
<1> QED BY <1>2, <1>3, <1>4, <1>5, <1>6, <1>7, <1>8, ActionFields

-----------------------------------------------------------------------------
(* The event that comes next, and those behind it.                         *)
LEMMA HeadFits ==
  ASSUME TypeOK, LeftOfScript, ~Idle
  PROVE  /\ action \in Actions /\ Verdict(action) = "ok"
         /\ Len(Script(action)) \in Nat /\ Len(todo) \in 1 .. Len(Script(action))
         /\ Done \in 0 .. Len(Script(action)) - 1
         /\ Head(todo) \in Events /\ Head(todo) = Script(action)[Done + 1]
         /\ Fits(action, Done + 1, Head(todo))
         /\ result \notin Refusals
<1>1. action \in Actions /\ Verdict(action) = "ok" /\ Len(todo) =< Len(Script(action))
      /\ \A i \in 1 .. Len(todo) : todo[i] = Script(action)[i + Done]
      /\ result \notin Refusals
  BY DEF LeftOfScript
<1>2. /\ Script(action) \in Seq(Events)
      /\ \A i \in 1 .. Len(Script(action)) : Fits(action, i, Script(action)[i])
  BY <1>1, ScriptFits
<1>3. todo \in Seq(Events) /\ todo # << >> /\ Len(todo) \in Nat \ {0} /\ Head(todo) = todo[1]
      /\ Head(todo) \in Events
  BY DEF TypeOK, Idle
<1>4. PICK n \in Nat, k \in Nat : n = Len(Script(action)) /\ k = Len(todo)
  BY <1>2, <1>3
<1>5. Done = n - k /\ k \in 1 .. n
  BY <1>1, <1>3, <1>4 DEF Done
<1>6. Done \in 0 .. n - 1 /\ Done + 1 \in 1 .. n /\ 1 + Done = Done + 1
  BY <1>5
<1>7. Head(todo) = Script(action)[Done + 1]
  BY <1>1, <1>3, <1>4, <1>5, <1>6
<1> QED BY <1>1, <1>2, <1>3, <1>4, <1>5, <1>6, <1>7

LEMMA TailOf ==
  ASSUME TypeOK, ~Idle
  PROVE  /\ Len(todo) \in Nat \ {0} /\ Last(todo) = todo[Len(todo)]
         /\ Tail(todo) \in Seq(Events) /\ Len(Tail(todo)) = Len(todo) - 1
         /\ \A i \in 1 .. Len(todo) - 1 : Tail(todo)[i] = todo[i + 1]
         /\ \A i \in 1 .. Len(todo) : todo[i] \in Events
<1>1. todo \in Seq(Events) /\ todo # << >>
  BY DEF TypeOK, Idle
<1> QED BY <1>1, HeadTailProperties DEF Last

LEMMA CheckAnswers ==
  ASSUME NEW p
  PROVE  Check(p) \in {"ok", "backend", "bad_request"}
BY DEF Check

LEMMA RestOf ==
  ASSUME TypeOK, ~Idle
  PROVE  LET e == Head(todo)
         IN  /\ e.fail = "stop" => Rest(e) = << >>
             /\ e.fail = "break" => Rest(e) = <<Last(todo)>>
             /\ e.fail \in {"note", "ignore"} => Rest(e) = Tail(todo)
             /\ e.fail \in Failures /\ e.op \in {"move", "press", "release", "click", "scroll", "text"}
             /\ Rest(e) \in Seq(Events)
<1>1. Head(todo) \in Events
  BY DEF TypeOK, Idle
<1>2. Head(todo).fail \in Failures /\ Head(todo).op \in {"move", "press", "release", "click", "scroll", "text"}
  BY <1>1 DEF Events
<1>3. /\ Head(todo).fail = "stop" => Rest(Head(todo)) = << >>
      /\ Head(todo).fail = "break" => Rest(Head(todo)) = <<Last(todo)>>
      /\ Head(todo).fail \in {"note", "ignore"} => Rest(Head(todo)) = Tail(todo)
  BY DEF Rest
<1>4. Last(todo) \in Events /\ Tail(todo) \in Seq(Events)
  BY TailOf
<1>5. Rest(Head(todo)) \in {<< >>, <<Last(todo)>>, Tail(todo)}
  BY <1>2, <1>3 DEF Failures
<1>6. << >> \in Seq(Events) /\ <<Last(todo)>> \in Seq(Events)
  BY <1>4
<1>7. Rest(Head(todo)) \in Seq(Events)
  BY <1>4, <1>5, <1>6, Zenon
<1> QED BY <1>2, <1>3, <1>7

-----------------------------------------------------------------------------
(* Types.                                                                  *)
LEMMA TypeKept ==
  ASSUME TypeOK, LeftOfScript, Next
  PROVE  TypeOK'
<1>1. MaxFaults \in Nat /\ MaxActions \in Nat
  BY InputAssumption
<1>0. ASSUME NEW a \in Actions, Take(a) PROVE actions' \in 0 .. MaxActions /\ action' \in Actions /\ touched' \in BOOLEAN
                                               /\ UNCHANGED <<held, wanted, lost, jammed>>
  <2>1. actions \in 0 .. MaxActions /\ actions < MaxActions /\ actions' = actions + 1
    BY <1>0 DEF Take, TypeOK
  <2>2. actions' \in 0 .. MaxActions
    BY <1>1, <2>1
  <2> QED BY <1>0, <2>2 DEF Take
<1>2. ASSUME NEW a \in Actions, Begin(a) PROVE TypeOK'
  <2>1. Verdict(a) = "ok" => Script(a) \in Seq(Events)
    BY ScriptFits
  <2>2. Verdict(a) \in {"ok", "backend", "bad_request", "unsupported"}
    <3>1. Check(a.from) \in {"ok", "backend", "bad_request"} /\ Check(a.to) \in {"ok", "backend", "bad_request"}
      BY CheckAnswers
    <3> QED BY <3>1 DEF Verdict
  <2>3. todo' \in Seq(Events) /\ result' \in {"ok", "backend"} \cup Refusals
    BY <1>2, <2>1, <2>2 DEF Begin, Refusals
  <2>4. Take(a) /\ ready' \in BOOLEAN /\ faults' = faults
    BY <1>2 DEF Begin
  <2> QED BY <1>0, <2>3, <2>4 DEF TypeOK
<1>3. ASSUME NEW a \in Actions, NoEnigo(a) PROVE TypeOK'
  <2>1. Take(a) /\ todo' = todo /\ ready' = ready /\ faults' \in 0 .. MaxFaults
        /\ result' \in {"ok", "backend"} \cup Refusals
    BY <1>1, <1>3 DEF NoEnigo, TypeOK, Refusals
  <2> QED BY <1>0, <2>1 DEF TypeOK
<1>4. ASSUME Perform PROVE TypeOK'
  <2> DEFINE e == Head(todo)
  <2>1. ~Idle
    BY <1>4 DEF Perform
  <2>2. e \in Events /\ Fits(action, Done + 1, e) /\ action \in Actions
    BY <2>1, HeadFits
  <2>3. e.op \in {"press", "release", "click"} => e.on \in Buttons \cup Modifiers \cup Keys
    BY <2>2 DEF Events
  <2>4. action.kind = "button" => wanted' \subseteq Buttons
    <3>1. ASSUME action.kind = "button", action.down PROVE e.on \in Buttons
      <4>1. /\ Len(todo) \in 1 .. Len(Script(action)) /\ Done \in 0 .. Len(Script(action)) - 1
            /\ e = Script(action)[Done + 1]
        BY <2>1, HeadFits
      <4>2. Script(action) = <<Event("press", action.button, "stop")>>
        BY <3>1 DEF Script
      <4>3. e = Event("press", action.button, "stop")
        BY <4>1, <4>2
      <4> QED BY <2>2, <3>1, <4>3, ActionFields DEF Event
    <3> QED BY <1>4, <3>1 DEF Perform, TypeOK
  <2>5. wanted' \subseteq Buttons
    BY <1>4, <2>4 DEF Perform, TypeOK
  <2>6. held' \subseteq Buttons \cup Modifiers \cup Keys /\ held' \subseteq held \cup {e.on}
    BY <1>4, <2>3 DEF Perform, TypeOK, Effect
  <2>7. todo' \in Seq(Events)
    BY <1>4, <2>1, TailOf DEF Perform
  <2> QED BY <1>4, <2>5, <2>6, <2>7 DEF Perform, TypeOK
<1>5. ASSUME Fail PROVE TypeOK'
  <2> DEFINE e == Head(todo)
  <2>1. ~Idle
    BY <1>5 DEF Fail
  <2>2. Rest(e) \in Seq(Events)
    BY <2>1, RestOf
  <2>3. Allowed(e) \in {"ok", "backend", "bad_request"}
    BY CheckAnswers DEF Allowed
  <2>4. result' \in {"ok", "backend"} \cup Refusals
    BY <1>5, <2>3 DEF Fail, TypeOK, Refusals
  <2>5. faults' \in 0 .. MaxFaults
    BY <1>1, <1>5 DEF Fail, TypeOK
  <2>6. lost' \subseteq lost \cup held /\ jammed' \subseteq jammed \cup Modifiers /\ todo' = Rest(e)
        /\ UNCHANGED <<touched, held, action, ready, wanted, actions>>
    BY <1>5 DEF Fail
  <2> HIDE DEF e
  <2> QED BY <2>2, <2>4, <2>5, <2>6 DEF TypeOK
<1> QED BY <1>2, <1>3, <1>4, <1>5 DEF Next

(* What is left is the end of the script.                                  *)
LEMMA LeftKept ==
  ASSUME TypeOK, LeftOfScript, Next
  PROVE  LeftOfScript'
<1>1. ASSUME NEW a \in Actions, Begin(a) PROVE LeftOfScript'
  <2>1. CASE Verdict(a) = "ok"
    <3>1. todo' = Script(a) /\ action' = a /\ result' = "ok" /\ touched' = FALSE
      BY <1>1, <2>1 DEF Begin, Take
    <3>2. Len(Script(a)) \in Nat
      BY <2>1, ScriptFits
    <3>3. Done' = 0
      BY <3>1, <3>2 DEF Done
    <3>4. \A i \in 1 .. Len(todo') : todo'[i] = Script(action')[i + Done']
      BY <3>1, <3>2, <3>3
    <3> QED BY <2>1, <3>1, <3>2, <3>3, <3>4 DEF LeftOfScript, Refusals, Idle
  <2>2. CASE Verdict(a) # "ok"
    BY <1>1, <2>2 DEF Begin, Take, LeftOfScript, Idle
  <2> QED BY <2>1, <2>2
<1>2. ASSUME NEW a \in Actions, NoEnigo(a) PROVE LeftOfScript'
  BY <1>2 DEF NoEnigo, Take, LeftOfScript, Idle, Refusals
<1>3. ASSUME ~Idle, action' = action, todo' = Tail(todo), result' \notin Refusals PROVE LeftOfScript'
  <2>1. /\ action \in Actions /\ Verdict(action) = "ok" /\ Len(Script(action)) \in Nat
        /\ Len(todo) \in 1 .. Len(Script(action)) /\ Done \in 0 .. Len(Script(action)) - 1
    BY <1>3, HeadFits
  <2>2. PICK n \in Nat, k \in Nat : n = Len(Script(action)) /\ k = Len(todo) /\ k \in 1 .. n
    BY <2>1
  <2>3. /\ Len(todo') = k - 1 /\ \A i \in 1 .. k - 1 : todo'[i] = todo[i + 1]
    BY <1>3, <2>2, TailOf
  <2>4. Done = n - k /\ Done' = n - k + 1
    <3>1. Done' = Len(Script(action')) - Len(todo')
      BY DEF Done
    <3>2. Len(Script(action')) = n
      BY <1>3, <2>2
    <3>3. Done' = n - (k - 1)
      BY <2>3, <3>1, <3>2
    <3> QED BY <2>2, <3>3 DEF Done
  <2>5. \A i \in 1 .. k : todo[i] = Script(action)[i + (n - k)]
    BY <1>3, <2>2, <2>4 DEF LeftOfScript
  <2>6. \A i \in 1 .. k - 1 : i + 1 \in 1 .. k /\ (i + 1) + (n - k) = i + (n - k + 1)
    BY <2>2
  <2>7. \A i \in 1 .. Len(todo') : todo'[i] = Script(action')[i + Done']
    BY <1>3, <2>3, <2>4, <2>5, <2>6
  <2>8. Len(todo') =< Len(Script(action')) /\ Done' # 0
    BY <1>3, <2>2, <2>3, <2>4
  <2> QED BY <1>3, <2>1, <2>7, <2>8 DEF LeftOfScript
<1>4. ASSUME Perform PROVE LeftOfScript'
  <2>1. ~Idle
    BY <1>4 DEF Perform
  <2>2. result \notin Refusals
    BY <2>1, HeadFits
  <2> QED BY <1>3, <1>4, <2>1, <2>2 DEF Perform
<1>5. ASSUME Fail PROVE LeftOfScript'
  <2> DEFINE e == Head(todo)
  <2>1. ~Idle /\ action' = action /\ touched' = touched /\ todo' = Rest(e)
    BY <1>5 DEF Fail
  <2>2. /\ action \in Actions /\ Verdict(action) = "ok" /\ Len(Script(action)) \in Nat
        /\ Len(todo) \in 1 .. Len(Script(action)) /\ Done \in 0 .. Len(Script(action)) - 1
        /\ Fits(action, Done + 1, e) /\ result \notin Refusals
    BY <2>1, HeadFits
  <2>3. ASSUME result' \in Refusals PROVE todo' = << >> /\ ~touched'
    <3>1. Allowed(e) # "ok"
      BY <1>5, <2>2, <2>3 DEF Fail, Refusals
    <3>2. e.op = "move" /\ Check(e.on) # "ok"
      BY <3>1 DEF Allowed
    <3>3. Done + 1 = 1 /\ e.fail = "stop"
      BY <2>2, <3>2 DEF Fits
    <3>4. Done = 0
      BY <2>2, <3>3
    <3>5. ~touched
      BY <2>1, <3>4 DEF LeftOfScript
    <3> QED BY <2>1, <3>3, <3>5, RestOf
  <2>4. CASE e.fail = "stop"
    <3>1. todo' = << >>
      BY <2>1, <2>4, RestOf
    <3> QED BY <2>3, <3>1 DEF LeftOfScript, Idle
  <2>5. CASE e.fail = "break"
    <3>1. todo' = <<Last(todo)>> /\ action.kind = "drag" /\ result' \notin Refusals
      <4>1. todo' = <<Last(todo)>>
        BY <2>1, <2>5, RestOf
      <4>2. todo' # << >>
        BY <4>1
      <4>3. action.kind = "drag"
        BY <2>2, <2>5 DEF Fits
      <4> HIDE DEF e
      <4> QED BY <2>3, <4>1, <4>2, <4>3
    <3>2. PICK n \in Nat, k \in Nat : n = Len(Script(action)) /\ k = Len(todo) /\ k \in 1 .. n
      BY <2>2
    <3>3. Done = n - k /\ Done' = n - 1
      BY <2>1, <3>1, <3>2 DEF Done
    <3>4. todo'[1] = todo[k] /\ Len(todo') = 1
      BY <2>1, <3>1, <3>2, TailOf
    <3>5. todo[k] = Script(action)[k + (n - k)]
      BY <2>1, <3>2, <3>3 DEF LeftOfScript
    <3>6. k + (n - k) = 1 + (n - 1)
      BY <3>2
    <3>7. \A i \in 1 .. Len(todo') : todo'[i] = Script(action')[i + Done']
      <4>1. \A i \in 1 .. Len(todo') : i = 1
        BY <3>4
      <4> QED BY <2>1, <3>3, <3>4, <3>5, <3>6, <4>1
    <3>8. n = Steps + 3
      <4>1. action.from \in Points /\ action.to \in Points /\ action.button \in Buttons
        BY <2>2, <3>1, ActionFields
      <4> QED BY <2>2, <3>1, <3>2, <4>1, DragScriptOf, DragShape
    <3>9. Done' # 0 /\ Len(todo') =< Len(Script(action'))
      <4>1. PICK st \in Nat : st = Steps
        BY InputAssumption
      <4>2. n = st + 3 /\ Len(Script(action')) = n
        BY <2>1, <3>2, <3>8, <4>1
      <4> QED BY <3>3, <3>4, <4>2
    <3> QED BY <2>1, <2>2, <3>1, <3>7, <3>9 DEF LeftOfScript
  <2>6. CASE e.fail \in {"note", "ignore"}
    <3>1. todo' = Tail(todo)
      BY <2>1, <2>6, RestOf
    <3>2. result' \notin Refusals
      <4>1. e.op # "move" \/ Check(e.on) = "ok"
        BY <2>2, <2>6 DEF Fits
      <4>2. Allowed(e) = "ok"
        BY <4>1 DEF Allowed
      <4> QED BY <1>5, <2>2, <4>2 DEF Fail, Refusals
    <3> QED BY <1>3, <2>1, <3>1, <3>2
  <2>7. e.fail \in {"stop", "break", "note", "ignore"}
    BY <2>1, RestOf DEF Failures
  <2> QED BY <2>4, <2>5, <2>6, <2>7
<1> QED BY <1>1, <1>2, <1>4, <1>5 DEF Next

-----------------------------------------------------------------------------
(* The event that comes next is one further along in the script.           *)
LEMMA HeadMovesOn ==
  ASSUME TypeOK, LeftOfScript, TypeOK', LeftOfScript', ~Idle, action' = action,
         todo' = Tail(todo), ~Idle'
  PROVE  /\ Done' = Done + 1 /\ Done + 2 \in 1 .. Len(Script(action))
         /\ Head(todo') = Script(action)[Done + 2]
<1>1. /\ Len(Script(action)) \in Nat /\ Len(todo) \in 1 .. Len(Script(action))
      /\ \A i \in 1 .. Len(todo) : todo[i] = Script(action)[i + Done]
  BY HeadFits DEF LeftOfScript
<1>2. PICK n \in Nat, k \in Nat : n = Len(Script(action)) /\ k = Len(todo) /\ k \in 1 .. n
  BY <1>1
<1>3. /\ Len(todo') = k - 1 /\ \A i \in 1 .. k - 1 : todo'[i] = todo[i + 1]
      /\ todo' \in Seq(Events) /\ todo' # << >>
  BY <1>2, TailOf DEF Idle
<1>4. k - 1 >= 1 /\ Head(todo') = todo'[1]
  BY <1>2, <1>3
<1>5. Head(todo') = todo[2] /\ 2 \in 1 .. k
  BY <1>2, <1>3, <1>4
<1>6. Done = n - k
  BY <1>2 DEF Done
<1>7. Done' = n - (k - 1)
  <2>1. Done' = Len(Script(action')) - Len(todo')
    BY DEF Done
  <2>2. Len(Script(action')) = n
    BY <1>2
  <2> QED BY <1>3, <2>1, <2>2
<1>8. 2 + Done = Done + 2 /\ Done' = Done + 1 /\ Done + 2 \in 1 .. n
  BY <1>2, <1>4, <1>6, <1>7
<1> QED BY <1>1, <1>2, <1>5, <1>8

(* Where a drag is: before its press, along its moves or at its release.   *)
LEMMA DragAt ==
  ASSUME TypeOK, LeftOfScript, ~Idle, action.kind = "drag"
  PROVE  LET s == Script(action)
         IN  /\ action.button \in Buttons /\ Steps \in Nat \ {0} /\ Len(s) = Steps + 3
             /\ Done \in 0 .. Steps + 2 /\ Head(todo) = s[Done + 1]
             /\ s[1].op = "move" /\ s[1].fail = "stop"
             /\ s[2] = Event("press", action.button, "stop")
             /\ \A i \in 3 .. Steps + 2 : s[i].op = "move" /\ s[i].fail = "break"
             /\ s[Steps + 3] = Event("release", action.button, "note")
<1>1. /\ action \in Actions /\ Verdict(action) = "ok"
      /\ Done \in 0 .. Len(Script(action)) - 1 /\ Head(todo) = Script(action)[Done + 1]
  BY HeadFits
<1>2. action.from \in Points /\ action.to \in Points /\ action.button \in Buttons
  BY <1>1, ActionFields
<1>3. Script(action) = DragScript(action)
  BY <1>1, DragScriptOf
<1> DEFINE s == Script(action)
<1>4. /\ Len(s) = Steps + 3
      /\ s[1] = MoveTo(action.from, "stop") /\ s[2] = Event("press", action.button, "stop")
      /\ \A i \in 3 .. Steps + 2 : s[i] = MoveTo(Between(action, i - 2), "break")
      /\ s[Steps + 3] = Event("release", action.button, "note")
  BY <1>2, <1>3, DragShape
<1>5. PICK n \in Nat \ {0} : n = Steps
  BY InputAssumption
<1>6. Done \in 0 .. Steps + 2
  BY <1>1, <1>4, <1>5
<1>7. s[1].op = "move" /\ s[1].fail = "stop"
  BY <1>4 DEF MoveTo, Event
<1>8. ASSUME NEW i \in 3 .. Steps + 2 PROVE s[i].op = "move" /\ s[i].fail = "break"
  <2>1. s[i] = MoveTo(Between(action, i - 2), "break")
    BY <1>4
  <2> QED BY <2>1 DEF MoveTo, Event
<1> HIDE DEF s
<1> QED BY <1>1, <1>2, <1>4, <1>5, <1>6, <1>7, <1>8 DEF s

(* Where a chord is: pressing, at its key, or releasing.                   *)
LEMMA ChordAt ==
  ASSUME TypeOK, LeftOfScript, ~Idle, action.kind = "key"
  PROVE  LET s == Script(action)
             c == ParseChord(action.chord)
             n == Len(c.mods)
         IN  /\ c.mods \in Seq(Modifiers) /\ c.key \in Keys /\ n \in Nat /\ Len(s) = 2 * n + 1
             /\ Done \in 0 .. 2 * n /\ Head(todo) = s[Done + 1]
             /\ \A i \in 1 .. n : s[i] = Event("press", c.mods[i], "stop")
             /\ s[n + 1] = Event("click", c.key, "note")
             /\ \A i \in n + 2 .. 2 * n + 1 : s[i] = Event("release", c.mods[2 * n + 2 - i], "ignore")
<1>1. /\ action \in Actions /\ Verdict(action) = "ok"
      /\ Done \in 0 .. Len(Script(action)) - 1 /\ Head(todo) = Script(action)[Done + 1]
  BY HeadFits
<1> DEFINE c == ParseChord(action.chord)
           s == Script(action)
<1>2. s = ChordScript(c) /\ c.mods \in Seq(Modifiers) /\ c.key \in Keys
  BY <1>1, KeyScript
<1> HIDE DEF c, s
<1>3. PICK n \in Nat : n = Len(c.mods)
  BY <1>2
<1>4. /\ Len(s) = 2 * n + 1
      /\ \A i \in 1 .. n : s[i] = Event("press", c.mods[i], "stop")
      /\ s[n + 1] = Event("click", c.key, "note")
      /\ \A i \in n + 2 .. 2 * n + 1 : s[i] = Event("release", c.mods[2 * n + 2 - i], "ignore")
  BY <1>2, <1>3, ChordShape
<1>5. Done \in 0 .. 2 * n /\ Head(todo) = s[Done + 1]
  BY <1>1, <1>3, <1>4 DEF s
<1> QED BY <1>2, <1>3, <1>4, <1>5 DEF c, s

LEMMA ChordStage ==
  ASSUME TypeOK, LeftOfScript, ~Idle, action.kind = "key"
  PROVE  LET c == ParseChord(action.chord)
             n == Len(c.mods)
         IN  /\ c.mods \in Seq(Modifiers) /\ n \in Nat
             /\ \/ /\ Done \in 0 .. n - 1 /\ Done + 1 \in 1 .. n
                   /\ Head(todo) = Event("press", c.mods[Done + 1], "stop")
                \/ Done = n /\ Head(todo) = Event("click", c.key, "note")
                \/ /\ Done \in n + 1 .. 2 * n
                   /\ Head(todo) = Event("release", c.mods[2 * n + 1 - Done], "ignore")
<1> DEFINE c == ParseChord(action.chord)
           s == Script(action)
<1>1. /\ c.mods \in Seq(Modifiers) /\ Len(c.mods) \in Nat
      /\ Done \in 0 .. 2 * Len(c.mods) /\ Head(todo) = s[Done + 1]
      /\ \A i \in 1 .. Len(c.mods) : s[i] = Event("press", c.mods[i], "stop")
      /\ s[Len(c.mods) + 1] = Event("click", c.key, "note")
      /\ \A i \in Len(c.mods) + 2 .. 2 * Len(c.mods) + 1 :
            s[i] = Event("release", c.mods[2 * Len(c.mods) + 2 - i], "ignore")
  BY ChordAt
<1> HIDE DEF c, s
<1>2. PICK n \in Nat, d \in Nat : n = Len(c.mods) /\ d = Done /\ d \in 0 .. 2 * n
  BY <1>1
<1>3. CASE d \in 0 .. n - 1
  <2>1. d + 1 \in 1 .. n
    BY <1>3
  <2> QED BY <1>1, <1>2, <1>3, <2>1 DEF c
<1>4. CASE d = n
  BY <1>1, <1>2, <1>4 DEF c
<1>5. CASE d \in n + 1 .. 2 * n
  <2>1. d + 1 \in n + 2 .. 2 * n + 1 /\ 2 * n + 2 - (d + 1) = 2 * n + 1 - d
    BY <1>5
  <2> QED BY <1>1, <1>2, <1>5, <2>1 DEF c
<1> QED BY <1>2, <1>3, <1>4, <1>5

-----------------------------------------------------------------------------
LEMMA DragKept ==
  ASSUME TypeOK, LeftOfScript, TypeOK', LeftOfScript', DragInv, Next
  PROVE  DragInv'
<1>1. ASSUME NEW a \in Actions, Begin(a) \/ NoEnigo(a) PROVE DragInv'
  <2>1. Idle /\ UNCHANGED <<held, wanted, lost>>
    BY <1>1 DEF Begin, NoEnigo, Take
  <2>2. held \cap Buttons \subseteq wanted \cup lost
    BY <2>1 DEF DragInv, Dragged
  <2> QED BY <2>1, <2>2 DEF DragInv
<1>2. ASSUME Perform PROVE DragInv'
  <2> DEFINE e == Head(todo)
  <2>1. ~Idle /\ action' = action /\ todo' = Tail(todo)
    BY <1>2 DEF Perform
  <2>2. Fits(action, Done + 1, e) /\ e \in Events
    BY <2>1, HeadFits
  <2>3. /\ held' = Effect(e) /\ lost' = lost \cap Effect(e)
        /\ wanted' = IF action.kind = "button" /\ action.down THEN wanted \cup {e.on}
                     ELSE wanted \cap Effect(e)
    BY <1>2 DEF Perform
  <2>4. \/ e.op = "press" /\ Effect(e) = held \cup {e.on}
        \/ e.op # "press" /\ Effect(e) \subseteq held
    BY DEF Effect
  <2>5. CASE action.kind = "drag"
    <3> DEFINE s == Script(action)
    <3>1. /\ action.button \in Buttons /\ Steps \in Nat \ {0} /\ Len(s) = Steps + 3
          /\ Done \in 0 .. Steps + 2 /\ e = s[Done + 1]
          /\ s[1].op = "move" /\ s[1].fail = "stop"
          /\ s[2] = Event("press", action.button, "stop")
          /\ \A i \in 3 .. Steps + 2 : s[i].op = "move" /\ s[i].fail = "break"
          /\ s[Steps + 3] = Event("release", action.button, "note")
      BY <2>1, <2>5, DragAt
    <3> HIDE DEF s, e
    <3>2. PICK n \in Nat \ {0} : n = Steps
      BY <3>1
    <3>3. Done # n + 2 => ~Idle'
      <4>1. Len(todo) = (n + 3) - Done /\ Len(todo') = Len(todo) - 1 /\ Len(todo) \in Nat
        <5>1. Done = Len(s) - Len(todo)
          BY DEF Done, s
        <5>2. Len(todo') = Len(todo) - 1 /\ Len(todo) \in Nat
          BY <2>1, TailOf
        <5> QED BY <3>1, <3>2, <5>1, <5>2
      <4>2. Done # n + 2 => Len(todo') # 0
        BY <3>1, <3>2, <4>1
      <4> QED BY <4>2 DEF Idle
    <3>4. Done \in 1 .. n + 1 => Dragged' = {action.button}
      <4> SUFFICES ASSUME Done \in 1 .. n + 1 PROVE Dragged' = {action.button}
        OBVIOUS
      <4>1. ~Idle' /\ Done \in 0 .. n + 2
        BY <3>2, <3>3
      <4>2. Head(todo') = s[Done + 2]
        BY <2>1, <4>1, HeadMovesOn DEF s
      <4>3. Done + 2 \in 3 .. n + 2 \/ Done + 2 = n + 3
        BY <3>2
      <4>4. Head(todo').fail # "stop"
        BY <3>1, <3>2, <4>2, <4>3 DEF Event
      <4> QED BY <2>1, <2>5, <4>1, <4>4 DEF Dragged
    <3>5. CASE Done = 0
      <4>1. e.op = "move" /\ e.fail = "stop"
        BY <3>1, <3>5
      <4>2. Dragged = {} /\ Effect(e) = held
        BY <4>1 DEF Dragged, Effect, e
      <4> QED BY <2>3, <2>5, <4>2 DEF DragInv
    <3>6. CASE Done = 1
      <4>1. e = Event("press", action.button, "stop")
        BY <3>1, <3>6
      <4>2. e.op = "press" /\ e.fail = "stop" /\ e.on = action.button
        BY <4>1 DEF Event
      <4>3. Dragged = {} /\ Effect(e) = held \cup {action.button}
        BY <4>2 DEF Dragged, Effect, e
      <4>4. Dragged' = {action.button}
        BY <3>2, <3>4, <3>6
      <4> QED BY <2>3, <2>5, <4>3, <4>4 DEF DragInv
    <3>7. CASE Done \in 2 .. n + 1
      <4>1. Done + 1 \in 3 .. n + 2 /\ Done \in 1 .. n + 1
        BY <3>7
      <4>2. e.op = "move"
        BY <3>1, <3>2, <4>1
      <4>3. Effect(e) = held /\ Dragged \subseteq {action.button}
        BY <4>2 DEF Effect, Dragged
      <4>4. Dragged' = {action.button}
        BY <3>4, <4>1
      <4> QED BY <2>3, <2>5, <4>3, <4>4 DEF DragInv
    <3>8. CASE Done = n + 2
      <4>1. e = Event("release", action.button, "note")
        <5>1. Done + 1 = n + 3
          BY <3>8
        <5> QED BY <3>1, <3>2, <5>1
      <4>2. e.op = "release" /\ e.on = action.button
        BY <4>1 DEF Event
      <4>3. Effect(e) = held \ {action.button} /\ Dragged \subseteq {action.button}
        BY <4>2 DEF Effect, Dragged
      <4> QED BY <2>3, <2>5, <4>3 DEF DragInv
    <3> QED BY <3>1, <3>2, <3>5, <3>6, <3>7, <3>8
  <2>6. CASE action.kind # "drag"
    <3>1. held \cap Buttons \subseteq wanted \cup lost
      BY <2>6 DEF DragInv, Dragged
    <3>2. CASE e.op # "press"
      <4>1. Effect(e) \subseteq held
        BY <2>4, <3>2
      <4> HIDE DEF e
      <4> QED BY <2>3, <3>1, <4>1 DEF DragInv
    <3>3. CASE e.op = "press"
      <4>1. Effect(e) = held \cup {e.on}
        BY <2>4, <3>3
      <4>2. action.kind = "key" \/ (action.kind = "button" /\ action.down)
        BY <2>2, <2>6, <3>3 DEF Fits
      <4>3. CASE action.kind = "key"
        <5>1. e.on \notin Buttons
          <6>1. ParseChord(action.chord).mods \in Seq(Modifiers)
            BY <2>1, <4>3, ChordStage
          <6>2. PICK i \in 1 .. Len(ParseChord(action.chord).mods) :
                  e.on = ParseChord(action.chord).mods[i]
            BY <2>1, <3>3, <4>3, ChordStage DEF Event
          <6>6. e.on \in Modifiers
            BY <6>1, <6>2
          <6> QED BY <6>6, InputAssumption
        <5> HIDE DEF e
        <5> QED BY <2>3, <3>1, <4>1, <4>3, <5>1 DEF DragInv
      <4>4. CASE action.kind = "button" /\ action.down
        <5> HIDE DEF e
        <5> QED BY <2>3, <3>1, <4>1, <4>4 DEF DragInv
      <4> QED BY <4>2, <4>3, <4>4
    <3> QED BY <3>2, <3>3
  <2> QED BY <2>5, <2>6
<1>3. ASSUME Fail PROVE DragInv'
  <2> DEFINE e == Head(todo)
  <2>1. ~Idle /\ UNCHANGED <<action, held, wanted>> /\ todo' = Rest(e)
        /\ lost' = IF e.op = "release" THEN lost \cup ({e.on} \cap held) ELSE lost
    BY <1>3 DEF Fail
  <2>2. CASE Dragged = {}
    BY <2>1, <2>2 DEF DragInv
  <2>3. CASE Dragged # {}
    <3>1. action.kind = "drag" /\ e.fail # "stop" /\ Dragged = {action.button}
      BY <2>3 DEF Dragged
    <3> DEFINE s == Script(action)
    <3>2. /\ Steps \in Nat \ {0} /\ Len(s) = Steps + 3 /\ Done \in 0 .. Steps + 2 /\ e = s[Done + 1]
          /\ s[1].fail = "stop" /\ s[2] = Event("press", action.button, "stop")
          /\ \A i \in 3 .. Steps + 2 : s[i].op = "move" /\ s[i].fail = "break"
          /\ s[Steps + 3] = Event("release", action.button, "note")
      BY <2>1, <3>1, DragAt
    <3>3. PICK n \in Nat \ {0} : n = Steps
      BY <3>2
    <3>4. Done \in 2 .. n + 1 \/ Done = n + 2
      <4> HIDE DEF s, e
      <4>1. Done # 0
        BY <3>1, <3>2
      <4>2. Done # 1
        BY <3>1, <3>2 DEF Event
      <4> QED BY <3>2, <3>3, <4>1, <4>2
    <3>5. CASE Done = n + 2
      <4>1. e = Event("release", action.button, "note")
        <5> HIDE DEF s, e
        <5>1. Done + 1 = n + 3
          BY <3>5
        <5> QED BY <3>2, <3>3, <5>1
      <4>2. e.op = "release" /\ e.on = action.button
        BY <4>1 DEF Event
      <4> HIDE DEF e
      <4> QED BY <2>1, <3>1, <4>2 DEF DragInv
    <3>6. CASE Done \in 2 .. n + 1
      <4>1. e.op = "move" /\ e.fail = "break"
        <5> HIDE DEF s, e
        <5>1. Done + 1 \in 3 .. n + 2
          BY <3>6
        <5> QED BY <3>2, <3>3, <5>1
      <4>2. todo' = <<Last(todo)>> /\ Last(todo) = todo[Len(todo)] /\ Len(todo) \in Nat \ {0}
        BY <2>1, <4>1, RestOf, TailOf
      <4>3. todo[Len(todo)] = s[n + 3]
        <5>1. PICK k \in Nat : k = Len(todo) /\ k \in 1 .. k
          BY <4>2
        <5>2. Done = (n + 3) - k
          BY <3>2, <3>3, <5>1 DEF Done
        <5>3. todo[k] = s[k + Done]
          BY <2>1, <5>1 DEF LeftOfScript
        <5>4. k + Done = n + 3
          BY <5>2
        <5> HIDE DEF s
        <5> QED BY <5>1, <5>3, <5>4
      <4>4. Head(todo') = Event("release", action.button, "note") /\ todo' # << >>
        <5> HIDE DEF s, e
        <5> QED BY <3>2, <3>3, <4>2, <4>3
      <4>5. Dragged' = {action.button}
        BY <2>1, <3>1, <4>4 DEF Dragged, Idle, Event
      <4> HIDE DEF e
      <4> QED BY <2>1, <3>1, <4>1, <4>5 DEF DragInv
    <3> QED BY <3>4, <3>5, <3>6
  <2> QED BY <2>2, <2>3
<1> QED BY <1>1, <1>2, <1>3 DEF Next

-----------------------------------------------------------------------------
(* The releases still to come, one event later.                            *)
LEMMA ToReleaseOfTail ==
  ASSUME TypeOK, ~Idle, todo' = Tail(todo)
  PROVE  ToRelease \subseteq ToRelease' \cup (IF Head(todo).op = "release" THEN {Head(todo).on} ELSE {})
<1>1. PICK k \in Nat \ {0} : k = Len(todo)
  BY TailOf
<1>2. Len(todo') = k - 1 /\ \A i \in 1 .. k - 1 : todo'[i] = todo[i + 1]
  BY <1>1, TailOf
<1>3. Head(todo) = todo[1]
  BY DEF TypeOK, Idle
<1>4. SUFFICES ASSUME NEW i \in 1 .. k, todo[i].op = "release", i # 1
               PROVE  todo[i].on \in ToRelease'
  BY <1>1, <1>3 DEF ToRelease
<1>5. i - 1 \in 1 .. k - 1 /\ (i - 1) + 1 = i
  BY <1>4
<1>6. todo'[i - 1] = todo[i]
  BY <1>2, <1>5
<1> QED BY <1>2, <1>4, <1>5, <1>6 DEF ToRelease

LEMMA ReleasesButtons ==
  ASSUME TypeOK, LeftOfScript, ~Idle, action.kind # "key"
  PROVE  ToRelease \subseteq Buttons
<1>1. /\ action \in Actions /\ Verdict(action) = "ok" /\ Len(Script(action)) \in Nat
      /\ Len(todo) \in 1 .. Len(Script(action)) /\ Done \in 0 .. Len(Script(action)) - 1
  BY HeadFits
<1>2. \A i \in 1 .. Len(Script(action)) : Fits(action, i, Script(action)[i])
  BY <1>1, ScriptFits
<1>3. PICK n \in Nat, k \in Nat : n = Len(Script(action)) /\ k = Len(todo) /\ k \in 1 .. n /\ Done = n - k
  BY <1>1 DEF Done
<1>4. ASSUME NEW i \in 1 .. k PROVE todo[i].op = "release" => todo[i].on \in Buttons
  <2>1. i + (n - k) \in 1 .. n
    BY <1>3
  <2>2. todo[i] = Script(action)[i + (n - k)]
    BY <1>3, <1>4 DEF LeftOfScript
  <2> QED BY <1>2, <1>3, <2>1, <2>2 DEF Fits
<1> QED BY <1>3, <1>4 DEF ToRelease

LEMMA KeyKept ==
  ASSUME TypeOK, LeftOfScript, TypeOK', LeftOfScript', KeyInv, Next
  PROVE  KeyInv'
<1>0. (Modifiers \cup Keys) \cap Buttons = {}
  BY InputAssumption
<1>1. ASSUME NEW a \in Actions, Begin(a) \/ NoEnigo(a) PROVE KeyInv'
  <2>1. Idle /\ UNCHANGED <<held, jammed, lost>>
    BY <1>1 DEF Begin, NoEnigo, Take
  <2>2. ToRelease = {}
    BY <2>1 DEF ToRelease, Idle
  <2> QED BY <2>1, <2>2 DEF KeyInv
<1>2. ASSUME Perform PROVE KeyInv'
  <2> DEFINE e == Head(todo)
  <2>1. ~Idle /\ action' = action /\ todo' = Tail(todo)
    BY <1>2 DEF Perform
  <2>2. Fits(action, Done + 1, e) /\ e \in Events
    BY <2>1, HeadFits
  <2>3. held' = Effect(e) /\ lost' = lost \cap Effect(e) /\ jammed' = jammed \cap Effect(e)
    BY <1>2 DEF Perform
  <2>4. ToRelease \subseteq ToRelease' \cup (IF e.op = "release" THEN {e.on} ELSE {})
    BY <2>1, ToReleaseOfTail
  <2>5. CASE e.op = "press"
    <3>1. Effect(e) = held \cup {e.on} /\ ToRelease \subseteq ToRelease'
      BY <2>4, <2>5 DEF Effect
    <3>2. CASE action.kind = "key"
      <4> DEFINE c == ParseChord(action.chord)
                 s == Script(action)
      <4>1. /\ c.mods \in Seq(Modifiers) /\ Len(c.mods) \in Nat /\ Len(s) = 2 * Len(c.mods) + 1
            /\ \A i \in Len(c.mods) + 2 .. 2 * Len(c.mods) + 1 :
                  s[i] = Event("release", c.mods[2 * Len(c.mods) + 2 - i], "ignore")
        BY <2>1, <3>2, ChordAt
      <4>2. Done \in 0 .. Len(c.mods) - 1 /\ e = Event("press", c.mods[Done + 1], "stop")
        BY <2>1, <2>5, <3>2, ChordStage DEF Event
      <4>3. \A i \in 1 .. Len(todo) : todo[i] = s[i + Done]
        BY <2>1 DEF LeftOfScript
      <4>4. Done = Len(s) - Len(todo) /\ Len(todo) \in Nat
        BY <2>1, TailOf DEF Done
      <4> HIDE DEF c, s
      <4>5. PICK n \in Nat, d \in Nat, k \in Nat : n = Len(c.mods) /\ d = Done /\ k = Len(todo)
        <5>1. Done \in Nat
          BY <4>1, <4>2
        <5> HIDE DEF e
        <5> QED BY <4>1, <4>4, <5>1
      <4>6. d \in 0 .. n - 1 /\ d = (2 * n + 1) - k
        BY <4>1, <4>2, <4>4, <4>5
      <4>7. PICK i \in 1 .. k : i + d = 2 * n + 1 - d
        <5>1. 2 * n + 1 - 2 * d \in 1 .. k /\ (2 * n + 1 - 2 * d) + d = 2 * n + 1 - d
          BY <4>6
        <5> QED BY <5>1
      <4>8. i + d \in n + 2 .. 2 * n + 1 /\ 2 * n + 2 - (i + d) = d + 1
        BY <4>6, <4>7
      <4>9. todo[i] = Event("release", c.mods[d + 1], "ignore")
        BY <4>1, <4>3, <4>5, <4>7, <4>8
      <4>10. todo[i].op = "release" /\ todo[i].on = e.on
        <5>1. e = Event("press", c.mods[d + 1], "stop")
          BY <4>2, <4>5
        <5> HIDE DEF e
        <5> QED BY <4>9, <5>1 DEF Event
      <4>11. e.on \in ToRelease
        <5> HIDE DEF e
        <5> QED BY <4>5, <4>7, <4>10 DEF ToRelease
      <4>12. e.on \in Modifiers
        <5>1. d + 1 \in 1 .. n /\ e = Event("press", c.mods[d + 1], "stop")
          BY <4>2, <4>5, <4>6
        <5>2. e.on = c.mods[d + 1]
          BY <5>1 DEF Event
        <5> HIDE DEF e
        <5> QED BY <4>1, <4>5, <5>1, <5>2
      <4> HIDE DEF e
      <4> QED BY <2>3, <3>1, <4>11, <4>12 DEF KeyInv
    <3>3. CASE action.kind # "key"
      <4>1. e.on \in Buttons
        BY <2>2, <2>5, <3>3 DEF Fits
      <4> HIDE DEF e
      <4> QED BY <2>3, <3>1, <4>1 DEF KeyInv
    <3> QED BY <3>2, <3>3
  <2>6. CASE e.op # "press"
    <3>1. Effect(e) \subseteq held /\ (e.op = "release" => e.on \notin Effect(e))
      BY <2>6 DEF Effect
    <3> HIDE DEF e
    <3> QED BY <2>3, <2>4, <3>1 DEF KeyInv
  <2> QED BY <2>5, <2>6
<1>3. ASSUME Fail PROVE KeyInv'
  <2> DEFINE e == Head(todo)
  <2>1. ~Idle /\ UNCHANGED <<action, held>> /\ todo' = Rest(e)
        /\ lost' = (IF e.op = "release" THEN lost \cup ({e.on} \cap held) ELSE lost)
        /\ jammed' = (IF e.op = "press" THEN jammed \cup (held \cap Modifiers) ELSE jammed)
    BY <1>3 DEF Fail
  <2>2. CASE action.kind # "key"
    <3>1. ToRelease \subseteq Buttons
      BY <2>1, <2>2, ReleasesButtons
    <3> HIDE DEF e
    <3> QED BY <2>1, <3>1 DEF KeyInv
  <2>3. CASE action.kind = "key"
    <3>1. CASE e.op = "press"
      <4> HIDE DEF e
      <4> QED BY <2>1, <3>1 DEF KeyInv
    <3>2. CASE e.op # "press"
      <4>1. e.fail \in {"note", "ignore"}
        BY <2>1, <2>3, <3>2, ChordStage DEF Event
      <4>2. todo' = Tail(todo)
        BY <2>1, <4>1, RestOf
      <4>3. ToRelease \subseteq ToRelease' \cup (IF e.op = "release" THEN {e.on} ELSE {})
        BY <2>1, <4>2, ToReleaseOfTail
      <4> HIDE DEF e
      <4> QED BY <2>1, <3>2, <4>3 DEF KeyInv
    <3> QED BY <3>1, <3>2
  <2> QED BY <2>2, <2>3
<1> QED BY <1>1, <1>2, <1>3 DEF Next

LEMMA ChordKept ==
  ASSUME TypeOK, LeftOfScript, TypeOK', LeftOfScript', KeyInv, ChordInv, Next
  PROVE  ChordInv'
<1>0. (Modifiers \cup Keys) \cap Buttons = {} /\ faults \in Nat
  BY InputAssumption DEF TypeOK
<1>1. ASSUME NEW a \in Actions, Begin(a) PROVE ChordInv'
  <2>1. Idle /\ UNCHANGED <<held, jammed, lost, faults>>
    BY <1>1 DEF Begin, Take
  <2>2. ToRelease = {}
    BY <2>1 DEF ToRelease, Idle
  <2>3. faults = 0 => held \cap Modifiers = {}
    BY <1>0, <2>1, <2>2 DEF KeyInv, ChordInv
  <2>4. ~Idle' => Pressed' = {}
    <3> SUFFICES ASSUME ~Idle' PROVE Pressed' = {}
      OBVIOUS
    <3>1. todo' = Script(a) /\ action' = a /\ Verdict(a) = "ok"
      BY <1>1 DEF Begin, Take, Idle
    <3>2. Len(Script(a)) \in Nat
      BY <3>1, ScriptFits
    <3>3. Done' = 0
      BY <3>1, <3>2 DEF Done
    <3> QED BY <3>3 DEF Pressed
  <2> QED BY <2>1, <2>3, <2>4 DEF ChordInv
<1>2. ASSUME NEW a \in Actions, NoEnigo(a) PROVE ChordInv'
  <2>1. Idle' /\ UNCHANGED <<jammed, lost>> /\ faults' # 0
    BY <1>0, <1>2 DEF NoEnigo, Take, Idle
  <2> QED BY <2>1 DEF ChordInv
<1>3. ASSUME ~Idle, action' = action, todo' = Tail(todo), action.kind = "key", ~Idle',
             Head(todo').op \in {"press", "click"}
      PROVE  /\ Head(todo).op = "press" /\ Pressed' = Pressed \cup {Head(todo).on}
  <2> DEFINE c == ParseChord(action.chord)
             s == Script(action)
  <2>1. /\ Done' = Done + 1 /\ Done + 2 \in 1 .. Len(s) /\ Head(todo') = s[Done + 2]
    BY <1>3, HeadMovesOn
  <2>2. /\ c.mods \in Seq(Modifiers) /\ Len(c.mods) \in Nat /\ Len(s) = 2 * Len(c.mods) + 1
        /\ Done \in 0 .. 2 * Len(c.mods) /\ Head(todo) = s[Done + 1]
        /\ \A i \in 1 .. Len(c.mods) : s[i] = Event("press", c.mods[i], "stop")
        /\ \A i \in Len(c.mods) + 2 .. 2 * Len(c.mods) + 1 :
              s[i] = Event("release", c.mods[2 * Len(c.mods) + 2 - i], "ignore")
    BY <1>3, ChordAt
  <2> HIDE DEF s
  <2>3. Pressed = {c.mods[i] : i \in 1 .. Done} /\ Pressed' = {c.mods[i] : i \in 1 .. Done'}
    BY <1>3 DEF Pressed
  <2> HIDE DEF c
  <2>4. PICK n \in Nat, d \in Nat : n = Len(c.mods) /\ d = Done
    BY <2>2
  <2>5. d + 2 \notin n + 2 .. 2 * n + 1
    <3> SUFFICES ASSUME d + 2 \in n + 2 .. 2 * n + 1 PROVE FALSE
      OBVIOUS
    <3>1. Head(todo') = Event("release", c.mods[2 * n + 2 - (d + 2)], "ignore")
      BY <2>1, <2>2, <2>4
    <3>2. Head(todo').op = "release"
      BY ONLY <3>1 DEF Event
    <3> QED BY <1>3, <3>2
  <2>6. d + 2 \in 1 .. 2 * n + 1
    BY <2>1, <2>2, <2>4
  <2>7. d + 1 \in 1 .. n
    BY <2>5, <2>6
  <2>8. Head(todo) = Event("press", c.mods[d + 1], "stop")
    BY <2>2, <2>4, <2>7
  <2>9. Head(todo).op = "press" /\ Head(todo).on = c.mods[d + 1]
    BY <2>8 DEF Event
  <2>10. 1 .. d + 1 = (1 .. d) \cup {d + 1}
    OBVIOUS
  <2>11. {c.mods[i] : i \in 1 .. d + 1} = {c.mods[i] : i \in 1 .. d} \cup {c.mods[d + 1]}
    BY <2>10
  <2> QED BY <2>1, <2>3, <2>4, <2>9, <2>11
<1>4. ASSUME Perform PROVE ChordInv'
  <2> DEFINE e == Head(todo)
  <2>1. ~Idle /\ action' = action /\ todo' = Tail(todo) /\ faults' = faults
        /\ held' = Effect(e) /\ lost' = lost \cap Effect(e) /\ jammed' = jammed \cap Effect(e)
    BY <1>4 DEF Perform
  <2>2. faults' = 0 => lost' = {} /\ jammed' = {}
    BY <2>1 DEF ChordInv
  <2>3. ASSUME ~Idle', action'.kind = "key", Head(todo').op \in {"press", "click"}
        PROVE  Pressed' \subseteq held' /\ (faults' = 0 => held' \cap Modifiers = Pressed')
    <3>1. e.op = "press" /\ Pressed' = Pressed \cup {e.on}
      BY <1>3, <2>1, <2>3
    <3>2. Effect(e) = held \cup {e.on}
      BY <3>1 DEF Effect
    <3>3. Pressed \subseteq held /\ (faults = 0 => held \cap Modifiers = Pressed)
      BY <2>1, <2>3, <3>1 DEF ChordInv
    <3>4. e.on \in Modifiers
      BY <2>1, <2>3, <3>1, ChordStage DEF Event
    <3> HIDE DEF e
    <3> QED BY <2>1, <3>1, <3>2, <3>3, <3>4
  <2> QED BY <2>2, <2>3 DEF ChordInv
<1>5. ASSUME Fail PROVE ChordInv'
  <2> DEFINE e == Head(todo)
  <2>1. ~Idle /\ action' = action /\ todo' = Rest(e)
        /\ lost' = (IF e.op = "release" THEN lost \cup ({e.on} \cap held) ELSE lost)
        /\ jammed' = (IF e.op = "press" THEN jammed \cup (held \cap Modifiers) ELSE jammed)
    BY <1>5 DEF Fail
  <2>2. faults' = 0 => lost' = {} /\ jammed' = {}
    <3> SUFFICES ASSUME faults' = 0 PROVE lost' = {} /\ jammed' = {}
      OBVIOUS
    <3>1. Allowed(e) # "ok" /\ faults' = faults
      BY <1>0, <1>5 DEF Fail
    <3>2. e.op = "move"
      BY <3>1 DEF Allowed
    <3> QED BY <2>1, <3>1, <3>2 DEF ChordInv
  <2>3. ~(~Idle' /\ action'.kind = "key" /\ Head(todo').op \in {"press", "click"})
    <3> SUFFICES ASSUME ~Idle', action.kind = "key", Head(todo').op \in {"press", "click"} PROVE FALSE
      BY <2>1
    <3>1. e.op # "press" /\ e.fail \in {"note", "ignore"}
      <4>1. e.fail = "stop" => Idle'
        BY <2>1, RestOf DEF Idle
      <4> QED BY <2>1, <4>1, ChordStage DEF Event
    <3>2. todo' = Tail(todo)
      BY <2>1, <3>1, RestOf
    <3>3. Head(todo).op = "press"
      BY <1>3, <2>1, <3>2
    <3> QED BY <3>1, <3>3
  <2> QED BY <2>2, <2>3 DEF ChordInv
<1> QED BY <1>1, <1>2, <1>4, <1>5 DEF Next

-----------------------------------------------------------------------------
InputInv == TypeOK /\ LeftOfScript /\ DragInv /\ KeyInv /\ ChordInv

LEMMA InputInvStutters ==
  ASSUME InputInv, UNCHANGED vars
  PROVE  InputInv'
<1>1. UNCHANGED <<todo, result, touched, held, action, ready, wanted, lost, jammed, faults, actions>>
  BY DEF vars
<1>2. TypeOK'
  BY <1>1 DEF InputInv, TypeOK
<1>3. Done' = Done /\ Idle' = Idle /\ ToRelease' = ToRelease
  BY <1>1 DEF Done, Idle, ToRelease
<1>4. LeftOfScript'
  BY <1>1, <1>3 DEF InputInv, LeftOfScript
<1>5. Dragged' = Dragged /\ Pressed' = Pressed
  BY <1>1, <1>3 DEF Dragged, Pressed
<1>6. DragInv' /\ KeyInv' /\ ChordInv'
  BY <1>1, <1>3, <1>5 DEF InputInv, DragInv, KeyInv, ChordInv
<1> QED BY <1>2, <1>4, <1>6 DEF InputInv

LEMMA InputInvInductive == Spec => []InputInv
<1>1. Init => InputInv
  <2> SUFFICES ASSUME Init PROVE InputInv
    OBVIOUS
  <2>0. MaxFaults \in Nat /\ MaxActions \in Nat
    BY InputAssumption
  <2>1. TypeOK
    <3>1. todo \in Seq(Events) /\ action \in Actions \cup {Nothing}
      BY DEF Init
    <3>3. touched \in BOOLEAN /\ ready \in BOOLEAN
      BY DEF Init
    <3>2. faults \in 0 .. MaxFaults /\ actions \in 0 .. MaxActions
      BY <2>0 DEF Init
    <3> QED BY <3>1, <3>2, <3>3 DEF Init, TypeOK
  <2>2. Idle /\ held = {} /\ lost = {} /\ jammed = {} /\ result = "ok"
    BY DEF Init, Idle
  <2> QED BY <2>1, <2>2 DEF InputInv, LeftOfScript, DragInv, KeyInv, ChordInv, Refusals
<1>2. InputInv /\ [Next]_vars => InputInv'
  <2> SUFFICES ASSUME InputInv, [Next]_vars PROVE InputInv'
    OBVIOUS
  <2>1. CASE Next
    <3>1. TypeOK' /\ LeftOfScript'
      BY <2>1, TypeKept, LeftKept DEF InputInv
    <3> QED BY <2>1, <3>1, DragKept, KeyKept, ChordKept DEF InputInv
  <2>2. CASE UNCHANGED vars
    BY <2>2, InputInvStutters
  <2> QED BY <2>1, <2>2
<1> QED BY <1>1, <1>2, PTL DEF Spec

(* The types, the events of every script included.                         *)
THEOREM InputTypeCorrect == Spec => []TypeOK
<1>1. InputInv => TypeOK
  BY DEF InputInv
<1> QED BY <1>1, InputInvInductive, PTL

(* Whatever is refused as malformed, out of the desktop, unsupported or    *)
(* not permitted has touched nothing: no point along a drag is out of the  *)
(* desktop its ends are in (input.rs, perform, new_enigo).                 *)
THEOREM AlwaysValidatedFirst == Spec => []ValidatedFirst
<1>1. InputInv => ValidatedFirst
  BY DEF InputInv, LeftOfScript, ValidatedFirst, Refusals
<1> QED BY <1>1, InputInvInductive, PTL

(* A drag releases its button however many of its calls fail (input.rs,    *)
(* perform: Always release).                                               *)
THEOREM DragAlwaysReleases == Spec => []DragReleases
<1>1. InputInv => DragReleases
  BY DEF InputInv, DragInv, Dragged, DragReleases
<1> QED BY <1>1, InputInvInductive, PTL

(* The key of a chord goes down with the modifiers the chord names, each   *)
(* pressed once (keys.rs, parse_chord; input.rs, press_chord).             *)
THEOREM KeyAlwaysWithItsModifiers == Spec => []KeyWithItsModifiers
<1>1. InputInv => KeyWithItsModifiers
  <2> SUFFICES ASSUME InputInv, ~Idle, action.kind = "key", Head(todo).op = "click"
               PROVE  LET c == ParseChord(action.chord)
                      IN  /\ Range(c.mods) = {ModifierOf[t] : t \in Range(Front(action.chord))} \ {NoModifier}
                          /\ Distinct(c.mods)
                          /\ Range(c.mods) \subseteq held
                          /\ faults = 0 => held \cap Modifiers = Range(c.mods)
    BY DEF KeyWithItsModifiers
  <2> DEFINE c == ParseChord(action.chord)
  <2>0. TypeOK /\ LeftOfScript /\ ChordInv
    BY DEF InputInv
  <2>1. action \in Actions /\ Verdict(action) = "ok"
    BY <2>0, HeadFits
  <2>2. /\ c.mods \in Seq(Modifiers)
        /\ Range(c.mods) = {ModifierOf[t] : t \in Range(Front(action.chord))} \ {NoModifier}
        /\ Distinct(c.mods)
    BY <2>1, KeyScript
  <2>3. Done = Len(c.mods)
    BY <2>0, ChordStage DEF Event
  <2>4. Pressed \subseteq held /\ (faults = 0 => held \cap Modifiers = Pressed)
    BY <2>0 DEF ChordInv
  <2>5. Pressed = {c.mods[i] : i \in 1 .. Len(c.mods)}
    BY <2>3 DEF Pressed
  <2> HIDE DEF c
  <2>6. Pressed = Range(c.mods)
    BY <2>2, <2>5 DEF Range
  <2> QED BY <2>2, <2>4, <2>6 DEF c
<1> QED BY <1>1, InputInvInductive, PTL

(* No key stays down: what is down once nothing is under way could not be  *)
(* released, or was down when the next modifier could not be pressed       *)
(* (input.rs, press_chord).                                                *)
THEOREM NoKeyEverStaysDown == Spec => []NoKeyStaysDown
<1>1. InputInv => NoKeyStaysDown
  <2> SUFFICES ASSUME InputInv, Idle PROVE held \ Buttons \subseteq lost \cup jammed
    BY DEF NoKeyStaysDown
  <2>1. ToRelease = {}
    BY DEF ToRelease, Idle
  <2> QED BY <2>1 DEF InputInv, KeyInv
<1> QED BY <1>1, InputInvInductive, PTL

(* Every failure but that of a modifier's release reaches the reply        *)
(* (input.rs, perform).                                                    *)
THEOREM OkAlwaysMeansAll == Spec => OkMeansAll
<1>1. InputInv /\ [Next]_vars =>
        [Fail /\ ~(action.kind = "key" /\ Head(todo).op = "release") => result' # "ok"]_vars
  <2> SUFFICES ASSUME InputInv, Fail, ~(action.kind = "key" /\ Head(todo).op = "release")
               PROVE  result' # "ok"
    OBVIOUS
  <2>1. ~Idle /\ result' = IF Head(todo).fail = "ignore" \/ result # "ok" THEN result
                           ELSE IF Allowed(Head(todo)) # "ok" THEN Allowed(Head(todo)) ELSE "backend"
    BY DEF Fail
  <2>2. Head(todo).fail # "ignore"
    BY <2>1, HeadFits DEF Fits, InputInv
  <2> QED BY <2>1, <2>2
<1> QED BY <1>1, InputInvInductive, PTL DEF Spec, OkMeansAll
=============================================================================
