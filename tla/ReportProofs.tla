---------------------------- MODULE ReportProofs ----------------------------
(***************************************************************************)
(* Proofs about what the four programs print: the text of a banner, the    *)
(* table and JSON, for bytes, ports and findings without a bound.          *)
(*                                                                         *)
(* The programs build their texts in loops, which are folds over sequences *)
(* here.  So the first sections are about induction on natural numbers,    *)
(* about folds, and about sequences that are put together from others.     *)
(***************************************************************************)
EXTENDS FourPrograms, WellFoundedInduction, FiniteSetTheorems, TLAPS

-----------------------------------------------------------------------------
(* Induction on natural numbers is on a set of them: its complement has a  *)
(* minimal element, by WFMin.                                              *)

Less == {pair \in Nat \X Nat : pair[1] < pair[2]}

(* What Less relates.                                                      *)
LEMMA LessPairs ==
    ASSUME NEW x \in Nat, NEW y \in Nat
    PROVE  <<x, y>> \in Less <=> x < y
BY DEF Less

(* A set of naturals with 0 and with the successor of each of its elements *)
(* has them all.                                                           *)
LEMMA Induction ==
    ASSUME NEW S, 0 \in S, \A n \in Nat : n \in S => n + 1 \in S
    PROVE  Nat \subseteq S
<1> DEFINE Missing == Nat \ S
<1> SUFFICES ASSUME Missing # {} PROVE FALSE
  OBVIOUS
<1>1. IsWellFoundedOn(Less, Nat)
  BY NatLessThanWellFounded DEF OpToRel, Less
<1>2. PICK x \in Missing : \A y \in Missing : <<y, x>> \notin Less
  <2>1. Missing \subseteq Nat
    OBVIOUS
  <2> HIDE DEF Missing
  <2> QED
    BY <1>1, <2>1, WFMin
<1>3. x \in Nat /\ x # 0 /\ x \notin S
  OBVIOUS
<1>4. x - 1 \in Nat /\ <<x - 1, x>> \in Less
  BY <1>3 DEF Less
<1>5. x - 1 \in S
  BY <1>2, <1>4
<1> QED
  BY <1>3, <1>4, <1>5

-----------------------------------------------------------------------------
(* Positions in a sequence.                                                *)

(* A set of positions has a maximum.                                       *)
LEMMA LastPosition ==
    ASSUME NEW n \in Nat, NEW s \in SUBSET (1 .. n), s # {}
    PROVE  Max(s) \in s /\ \A i \in s : i <= Max(s)
<1> DEFINE S == {m \in Nat : \A t \in SUBSET (1 .. m) : t # {} => \E x \in t : \A y \in t : x >= y}
<1>1. 0 \in S
  <2>1. 1 .. 0 = {}
    OBVIOUS
  <2> QED
    BY <2>1
<1>2. ASSUME NEW m \in Nat, m \in S PROVE m + 1 \in S
  <2>1. SUFFICES ASSUME NEW t \in SUBSET (1 .. m + 1), t # {} PROVE \E x \in t : \A y \in t : x >= y
    OBVIOUS
  <2>2. CASE m + 1 \in t
    BY <2>2
  <2>3. CASE m + 1 \notin t
    <3>1. t \in SUBSET (1 .. m)
      BY <2>3
    <3> QED
      BY <1>2, <2>1, <3>1
  <2> QED
    BY <2>2, <2>3
<1> HIDE DEF S
<1>3. n \in S
  BY <1>1, <1>2, Induction
<1>4. PICK x \in s : \A y \in s : x >= y
  BY <1>3 DEF S
<1> QED
  BY <1>4 DEF Max

(* A set of naturals has a minimum.                                        *)
LEMMA FirstPosition ==
    ASSUME NEW s \in SUBSET Nat, s # {}
    PROVE  \E x \in s : \A y \in s : x <= y
<1>1. IsWellFoundedOn(Less, Nat)
  BY NatLessThanWellFounded DEF OpToRel, Less
<1>2. PICK x \in s : \A y \in s : <<y, x>> \notin Less
  BY <1>1, WFMin
<1>3. ASSUME NEW y \in s PROVE x <= y
  <2>1. x \in Nat /\ y \in Nat
    OBVIOUS
  <2>2. <<y, x>> \notin Less
    BY <1>2
  <2>3. <<y, x>> \in Less <=> y < x
    BY <2>1, LessPairs
  <2> QED
    BY <2>1, <2>2, <2>3
<1> QED
  BY <1>3

(* The maximum of the first k positions, and what is left without it.      *)
LEMMA LastOfFirst ==
    ASSUME NEW n \in Nat, NEW k \in 1 .. n
    PROVE  /\ 1 .. k \in SUBSET (1 .. n) /\ 1 .. k # {}
           /\ Max(1 .. k) = k /\ (1 .. k) \ {k} = 1 .. k - 1
<1>1. 1 .. k \in SUBSET (1 .. n) /\ k \in 1 .. k
  OBVIOUS
<1>2. Max(1 .. k) \in 1 .. k /\ k <= Max(1 .. k)
  BY <1>1, LastPosition
<1> QED
  BY <1>1, <1>2

-----------------------------------------------------------------------------
(* Folds.  A step is a function from a state and an element to the next    *)
(* state; a run has the states after 0, 1, ... elements of a sequence.     *)

IsStep(S, T, step) == step \in [S \X T -> S]

IsRun(S, step, base, seq, f) ==
    /\ f \in [0 .. Len(seq) -> S]
    /\ f[0] = base
    /\ \A k \in 1 .. Len(seq) : f[k] = step[<<f[k - 1], seq[k]>>]

Fold(S, step, base, seq) == CHOOSE v : \E f : IsRun(S, step, base, seq, f) /\ v = f[Len(seq)]

(* A sequence has a run.                                                   *)
LEMMA RunOfSeq ==
    ASSUME NEW S, NEW T, NEW step, IsStep(S, T, step), NEW base \in S, NEW seq \in Seq(T)
    PROVE  \E f : IsRun(S, step, base, seq, f)
<1> DEFINE Runs(m) == \E f \in [0 .. m -> S] :
                        f[0] = base /\ \A k \in 1 .. m : f[k] = step[<<f[k - 1], seq[k]>>]
           Good == {m \in Nat : m <= Len(seq) => Runs(m)}
<1>1. 0 \in Good
  <2> DEFINE f == [k \in 0 .. 0 |-> base]
  <2>1. f \in [0 .. 0 -> S] /\ f[0] = base /\ 1 .. 0 = {}
    OBVIOUS
  <2> HIDE DEF f
  <2>2. Runs(0)
    BY <2>1
  <2> QED
    BY <2>2
<1>2. ASSUME NEW m \in Nat, m \in Good PROVE m + 1 \in Good
  <2> SUFFICES ASSUME m + 1 <= Len(seq) PROVE Runs(m + 1)
    <3> HIDE DEF Runs
    <3> QED
      OBVIOUS
  <2>1. PICK f \in [0 .. m -> S] : f[0] = base /\ \A k \in 1 .. m : f[k] = step[<<f[k - 1], seq[k]>>]
    BY <1>2
  <2>2. seq[m + 1] \in T /\ f[m] \in S
    OBVIOUS
  <2>0. step \in [S \X T -> S]
    BY DEF IsStep
  <2> DEFINE next == step[<<f[m], seq[m + 1]>>]
             g == [k \in 0 .. m + 1 |-> IF k = m + 1 THEN next ELSE f[k]]
  <2>3. next \in S
    BY <2>0, <2>2
  <2>4. \A k \in 0 .. m + 1 : k = m + 1 \/ k \in 0 .. m
    OBVIOUS
  <2>5. g \in [0 .. m + 1 -> S]
    <3> HIDE DEF next
    <3> QED
      BY <2>3, <2>4
  <2>6. g[0] = base /\ (\A k \in 0 .. m : g[k] = f[k]) /\ g[m + 1] = next
    BY <2>1
  <2>7. ASSUME NEW k \in 1 .. m + 1 PROVE g[k] = step[<<g[k - 1], seq[k]>>]
    <3> HIDE DEF g
    <3>1. CASE k = m + 1
      <4>1. k - 1 = m /\ m \in 0 .. m
        BY <3>1
      <4>2. g[k - 1] = f[m] /\ g[k] = next
        BY <2>6, <3>1, <4>1
      <4> QED
        BY <3>1, <4>2
    <3>2. CASE k # m + 1
      <4>1. k \in 1 .. m /\ k - 1 \in 0 .. m /\ k \in 0 .. m
        BY <3>2
      <4> QED
        BY <2>1, <2>6, <4>1
    <3> QED
      BY <3>1, <3>2
  <2> HIDE DEF g
  <2> QED
    BY <2>5, <2>6, <2>7
<1> HIDE DEF Good
<1>3. Len(seq) \in Good
  BY <1>1, <1>2, Induction
<1> QED
  BY <1>3 DEF Good, IsRun

(* It has one run only.                                                    *)
LEMMA RunIsUnique ==
    ASSUME NEW S, NEW step, NEW base, NEW seq, Len(seq) \in Nat,
           NEW f, IsRun(S, step, base, seq, f), NEW g, IsRun(S, step, base, seq, g)
    PROVE  \A k \in 0 .. Len(seq) : f[k] = g[k]
<1> DEFINE Good == {m \in Nat : m <= Len(seq) => f[m] = g[m]}
<1>1. 0 \in Good
  BY DEF IsRun
<1>2. ASSUME NEW m \in Nat, m \in Good PROVE m + 1 \in Good
  <2> SUFFICES ASSUME m + 1 <= Len(seq) PROVE f[m + 1] = g[m + 1]
    OBVIOUS
  <2>1. m + 1 \in 1 .. Len(seq) /\ (m + 1) - 1 = m /\ f[m] = g[m]
    BY <1>2
  <2> QED
    BY <2>1 DEF IsRun
<1>3. Nat \subseteq Good
  <2> HIDE DEF Good
  <2> QED
    BY <1>1, <1>2, Induction
<1> QED
  BY <1>3

(* A fold is where the run ends.                                           *)
LEMMA FoldOfRun ==
    ASSUME NEW S, NEW step, NEW base, NEW seq, Len(seq) \in Nat, NEW f, IsRun(S, step, base, seq, f)
    PROVE  Fold(S, step, base, seq) = f[Len(seq)]
<1>1. \E v : \E g : IsRun(S, step, base, seq, g) /\ v = g[Len(seq)]
  OBVIOUS
<1>2. PICK g : IsRun(S, step, base, seq, g) /\ Fold(S, step, base, seq) = g[Len(seq)]
  BY <1>1 DEF Fold
<1> QED
  BY <1>2, RunIsUnique

(* The type of a fold.                                                     *)
LEMMA FoldType ==
    ASSUME NEW S, NEW T, NEW step, IsStep(S, T, step), NEW base \in S, NEW seq \in Seq(T)
    PROVE  Fold(S, step, base, seq) \in S
<1>1. PICK f : IsRun(S, step, base, seq, f)
  BY RunOfSeq
<1>2. Len(seq) \in Nat /\ Len(seq) \in 0 .. Len(seq)
  OBVIOUS
<1>3. Fold(S, step, base, seq) = f[Len(seq)]
  BY <1>1, <1>2, FoldOfRun
<1> QED
  BY <1>1, <1>2, <1>3 DEF IsRun

(* The fold of an empty sequence, and of one element.                      *)
LEMMA FoldOfNone ==
    ASSUME NEW S, NEW step, NEW base \in S
    PROVE  Fold(S, step, base, << >>) = base
<1> DEFINE f == [k \in 0 .. 0 |-> base]
<1>1. Len(<< >>) = 0 /\ f[0] = base
  OBVIOUS
<1>2. IsRun(S, step, base, << >>, f)
  BY <1>1 DEF IsRun
<1> HIDE DEF f
<1>3. Fold(S, step, base, << >>) = f[Len(<< >>)]
  BY <1>1, <1>2, FoldOfRun
<1> QED
  BY <1>1, <1>3

LEMMA FoldOfOne ==
    ASSUME NEW S, NEW T, NEW step, IsStep(S, T, step), NEW base \in S, NEW x \in T
    PROVE  Fold(S, step, base, <<x>>) = step[<<base, x>>]
<1>1. <<x>> \in Seq(T) /\ Len(<<x>>) = 1 /\ <<x>>[1] = x
  OBVIOUS
<1>2. PICK f : IsRun(S, step, base, <<x>>, f)
  BY <1>1, RunOfSeq
<1>3. Fold(S, step, base, <<x>>) = f[Len(<<x>>)]
  BY <1>1, <1>2, FoldOfRun
<1>4. f[1] = step[<<f[1 - 1], <<x>>[1]>>] /\ f[0] = base
  BY <1>1, <1>2 DEF IsRun
<1> QED
  BY <1>1, <1>3, <1>4

(* A fold over two sequences in a row.                                     *)
LEMMA FoldConcat ==
    ASSUME NEW S, NEW T, NEW step, IsStep(S, T, step), NEW base \in S, NEW s \in Seq(T), NEW t \in Seq(T)
    PROVE  Fold(S, step, base, s \o t) = Fold(S, step, Fold(S, step, base, s), t)
<1> DEFINE m == Len(s)
           n == Len(t)
<1>1. PICK f : IsRun(S, step, base, s, f)
  BY RunOfSeq
<1>2. f[m] \in S /\ Fold(S, step, base, s) = f[m]
  <2>1. m \in Nat /\ m \in 0 .. m
    OBVIOUS
  <2>2. Fold(S, step, base, s) = f[m]
    BY <1>1, <2>1, FoldOfRun
  <2> QED
    BY <1>1, <2>1, <2>2 DEF IsRun
<1>3. PICK g : IsRun(S, step, f[m], t, g)
  BY <1>2, RunOfSeq
<1> DEFINE h == [k \in 0 .. m + n |-> IF k <= m THEN f[k] ELSE g[k - m]]
<1>4. m \in Nat /\ n \in Nat /\ Len(s \o t) = m + n
  OBVIOUS
<1>5. \A k \in 0 .. m : h[k] = f[k]
  BY <1>4
<1>6. \A k \in 0 .. n : h[m + k] = g[k]
  <2>1. g[0] = f[m]
    BY <1>3 DEF IsRun
  <2> QED
    BY <1>4, <2>1
<1>7. IsRun(S, step, base, s \o t, h)
  <2>1. h \in [0 .. m + n -> S]
    <3> SUFFICES ASSUME NEW k \in 0 .. m + n PROVE h[k] \in S
      OBVIOUS
    <3>1. CASE k <= m
      <4>1. k \in 0 .. m
        BY <1>4, <3>1
      <4> QED
        BY <1>1, <1>5, <4>1 DEF IsRun
    <3>2. CASE ~(k <= m)
      <4>1. k - m \in 0 .. n /\ h[k] = g[k - m]
        BY <1>4, <3>2
      <4> QED
        BY <1>3, <4>1 DEF IsRun
    <3> QED
      BY <3>1, <3>2
  <2>2. h[0] = base
    BY <1>1, <1>4, <1>5 DEF IsRun
  <2>3. ASSUME NEW k \in 1 .. m + n PROVE h[k] = step[<<h[k - 1], (s \o t)[k]>>]
    <3>1. CASE k <= m
      <4>1. k \in 1 .. m /\ k \in 0 .. m /\ k - 1 \in 0 .. m /\ (s \o t)[k] = s[k]
        BY <1>4, <3>1
      <4> HIDE DEF h
      <4> QED
        BY <1>1, <1>5, <4>1 DEF IsRun
    <3>2. CASE ~(k <= m)
      <4>1. /\ k - m \in 1 .. n /\ k - m \in 0 .. n /\ (k - m) - 1 \in 0 .. n
            /\ m + (k - m) = k /\ m + ((k - m) - 1) = k - 1 /\ (s \o t)[k] = t[k - m]
        BY <1>4, <3>2
      <4> HIDE DEF h
      <4>2. h[k] = g[k - m] /\ h[k - 1] = g[(k - m) - 1]
        BY <1>6, <4>1
      <4> QED
        BY <1>3, <4>1, <4>2 DEF IsRun
    <3> QED
      BY <3>1, <3>2
  <2> HIDE DEF h
  <2> QED
    BY <1>4, <2>1, <2>2, <2>3 DEF IsRun
<1>8. h[m + n] = g[n]
  BY <1>4, <1>6
<1> HIDE DEF h
<1>9. Fold(S, step, base, s \o t) = h[Len(s \o t)]
  <2>1. Len(s \o t) \in Nat
    BY <1>4
  <2> HIDE DEF m, n
  <2> QED
    BY <1>7, <2>1, FoldOfRun
<1>10. Fold(S, step, f[m], t) = g[n]
  BY <1>3, <1>4, FoldOfRun
<1> QED
  BY <1>2, <1>4, <1>8, <1>9, <1>10

(* FoldLeft folds over the set of positions: it[s] is what the positions s *)
(* come to, the last one taken last.                                       *)
Recurs(S, T, step, base, seq, it) ==
    /\ it \in [SUBSET (1 .. Len(seq)) -> S]
    /\ it[{}] = base
    /\ \A s \in SUBSET (1 .. Len(seq)) :
          s # {} => <<it[s \ {Max(s)}], seq[Max(s)]>> \in S \X T /\ it[s] = step[<<it[s \ {Max(s)}], seq[Max(s)]>>]

(* There is such a function.                                               *)
LEMMA IterExists ==
    ASSUME NEW S, NEW T, NEW step, IsStep(S, T, step), NEW base \in S, NEW seq \in Seq(T)
    PROVE  \E it : Recurs(S, T, step, base, seq, it)
<1> DEFINE Next1(it, s) == step[<<it[s \ {Max(s)}], seq[Max(s)]>>]
           Defined(m) == \E it \in [SUBSET (1 .. m) -> S] :
                            it[{}] = base /\ \A s \in SUBSET (1 .. m) : s # {} => it[s] = Next1(it, s)
           Good == {m \in Nat : m <= Len(seq) => Defined(m)}
<1>1. 0 \in Good
  <2> DEFINE it == [s \in SUBSET (1 .. 0) |-> base]
  <2>1. 1 .. 0 = {}
    OBVIOUS
  <2>2. it \in [SUBSET (1 .. 0) -> S] /\ it[{}] = base /\ \A s \in SUBSET (1 .. 0) : s = {}
    BY <2>1
  <2> HIDE DEF it
  <2> QED
    BY <2>2
<1>2. ASSUME NEW m \in Nat, m \in Good PROVE m + 1 \in Good
  <2>1. SUFFICES ASSUME m + 1 <= Len(seq) PROVE Defined(m + 1)
    <3> HIDE DEF Defined
    <3> QED
      OBVIOUS
  <2>2. m <= Len(seq) /\ m + 1 \in 1 .. Len(seq) /\ seq[m + 1] \in T
    BY <2>1
  <2>3. PICK h \in [SUBSET (1 .. m) -> S] :
          h[{}] = base /\ \A s \in SUBSET (1 .. m) : s # {} => h[s] = Next1(h, s)
    BY <1>2, <2>2
  <2> DEFINE it == [s \in SUBSET (1 .. m + 1) |->
                      IF m + 1 \in s THEN step[<<h[s \ {m + 1}], seq[m + 1]>>] ELSE h[s]]
  <2>4. \A s \in SUBSET (1 .. m + 1) : s \ {m + 1} \in SUBSET (1 .. m) /\ (m + 1 \notin s => s \in SUBSET (1 .. m))
    <3>1. \A i \in 1 .. m + 1 : i = m + 1 \/ i \in 1 .. m
      OBVIOUS
    <3> QED
      BY <3>1
  <2>5. it \in [SUBSET (1 .. m + 1) -> S]
    <3>0. step \in [S \X T -> S]
      BY DEF IsStep
    <3> SUFFICES ASSUME NEW s \in SUBSET (1 .. m + 1) PROVE it[s] \in S
      OBVIOUS
    <3>1. CASE m + 1 \in s
      <4>1. h[s \ {m + 1}] \in S
        BY <2>3, <2>4
      <4> QED
        BY <2>2, <3>0, <3>1, <4>1
    <3>2. CASE m + 1 \notin s
      <4>1. h[s] \in S
        BY <2>3, <2>4, <3>2
      <4> QED
        BY <3>2, <4>1
    <3> QED
      BY <3>1, <3>2
  <2>6. \A s \in SUBSET (1 .. m) : s \in SUBSET (1 .. m + 1) /\ m + 1 \notin s /\ it[s] = h[s]
    OBVIOUS
  <2>7. ASSUME NEW s \in SUBSET (1 .. m + 1), s # {} PROVE it[s] = Next1(it, s)
    <3>1. Max(s) \in s /\ (\A i \in s : i <= Max(s)) /\ Max(s) \in 1 .. m + 1
      <4>1. m + 1 \in Nat
        OBVIOUS
      <4> QED
        BY <2>7, <4>1, LastPosition
    <3>2. CASE m + 1 \in s
      <4>1. Max(s) = m + 1
        <5>1. m + 1 <= Max(s)
          BY <3>1, <3>2
        <5> QED
          BY <3>1, <5>1
      <4>2. it[s \ {m + 1}] = h[s \ {m + 1}]
        BY <2>4, <2>6
      <4> QED
        BY <3>2, <4>1, <4>2
    <3>3. CASE m + 1 \notin s
      <4>1. s \in SUBSET (1 .. m) /\ s \ {Max(s)} \in SUBSET (1 .. m)
        BY <2>4, <3>3
      <4>2. it[s] = h[s] /\ it[s \ {Max(s)}] = h[s \ {Max(s)}]
        BY <2>6, <4>1
      <4> QED
        BY <2>3, <2>7, <4>1, <4>2
    <3> QED
      BY <3>2, <3>3
  <2>8. it[{}] = base
    <3>1. {} \in SUBSET (1 .. m)
      OBVIOUS
    <3> QED
      BY <2>3, <2>6, <3>1
  <2> HIDE DEF it
  <2> QED
    BY <2>5, <2>7, <2>8
<1> HIDE DEF Good
<1>3. Len(seq) \in Nat /\ Len(seq) <= Len(seq)
  OBVIOUS
<1>4. Len(seq) \in Good
  BY <1>1, <1>2, <1>3, Induction
<1>5. PICK it \in [SUBSET (1 .. Len(seq)) -> S] :
        it[{}] = base /\ \A s \in SUBSET (1 .. Len(seq)) : s # {} => it[s] = Next1(it, s)
  BY <1>3, <1>4 DEF Good
<1>6. ASSUME NEW s \in SUBSET (1 .. Len(seq)), s # {} PROVE <<it[s \ {Max(s)}], seq[Max(s)]>> \in S \X T
  <2>1. Max(s) \in 1 .. Len(seq)
    BY <1>3, <1>6, LastPosition
  <2>2. s \ {Max(s)} \in SUBSET (1 .. Len(seq))
    OBVIOUS
  <2> QED
    BY <1>5, <2>1, <2>2
<1> QED
  BY <1>5, <1>6 DEF Recurs

(* It ends in the fold.                                                    *)
Follows(S, step, base, seq, it) ==
    /\ it[{}] = base
    /\ \A s \in SUBSET (1 .. Len(seq)) :
          s # {} /\ it[s \ {Max(s)}] \in S => it[s] = step[<<it[s \ {Max(s)}], seq[Max(s)]>>]

LEMMA FoldOfIter ==
    ASSUME NEW S, NEW T, NEW step, IsStep(S, T, step), NEW base \in S, NEW seq \in Seq(T), NEW it,
           Follows(S, step, base, seq, it)
    PROVE  it[1 .. Len(seq)] = Fold(S, step, base, seq)
<1> DEFINE Good == {m \in Nat : m <= Len(seq) => it[1 .. m] \in S}
<1>1. ASSUME NEW k \in 1 .. Len(seq), it[1 .. k - 1] \in S
      PROVE  it[1 .. k] = step[<<it[1 .. k - 1], seq[k]>>] /\ it[1 .. k] \in S
  <2>1. 1 .. k \in SUBSET (1 .. Len(seq)) /\ 1 .. k # {} /\ Max(1 .. k) = k /\ (1 .. k) \ {k} = 1 .. k - 1
    <3>1. Len(seq) \in Nat
      OBVIOUS
    <3> QED
      BY <3>1, LastOfFirst
  <2>2. it[1 .. k] = step[<<it[1 .. k - 1], seq[k]>>]
    BY <1>1, <2>1 DEF Follows
  <2>3. seq[k] \in T
    OBVIOUS
  <2> QED
    BY <1>1, <2>2, <2>3 DEF IsStep
<1>2. 0 \in Good
  <2>1. 1 .. 0 = {}
    OBVIOUS
  <2> QED
    BY <2>1 DEF Follows
<1>3. ASSUME NEW m \in Nat, m \in Good PROVE m + 1 \in Good
  <2> SUFFICES ASSUME m + 1 <= Len(seq) PROVE it[1 .. m + 1] \in S
    OBVIOUS
  <2>1. m + 1 \in 1 .. Len(seq) /\ (m + 1) - 1 = m /\ it[1 .. m] \in S
    BY <1>3
  <2> QED
    BY <1>1, <2>1
<1> HIDE DEF Good
<1>4. ASSUME NEW m \in 0 .. Len(seq) PROVE it[1 .. m] \in S
  <2>1. m \in Good
    BY <1>2, <1>3, Induction
  <2> QED
    BY <2>1 DEF Good
<1> DEFINE f == [k \in 0 .. Len(seq) |-> it[1 .. k]]
<1>5. IsRun(S, step, base, seq, f)
  <2>1. f \in [0 .. Len(seq) -> S]
    BY <1>4
  <2>2. f[0] = base
    <3>1. 1 .. 0 = {} /\ 0 \in 0 .. Len(seq)
      OBVIOUS
    <3> QED
      BY <3>1 DEF Follows
  <2>3. ASSUME NEW k \in 1 .. Len(seq) PROVE f[k] = step[<<f[k - 1], seq[k]>>]
    <3>1. k - 1 \in 0 .. Len(seq) /\ k \in 0 .. Len(seq)
      OBVIOUS
    <3>2. it[1 .. k] = step[<<it[1 .. k - 1], seq[k]>>]
      BY <1>1, <1>4, <3>1
    <3> QED
      BY <3>1, <3>2
  <2> HIDE DEF f
  <2> QED
    BY <2>1, <2>2, <2>3 DEF IsRun
<1>6. Len(seq) \in Nat /\ Len(seq) \in 0 .. Len(seq)
  OBVIOUS
<1>7. f[Len(seq)] = it[1 .. Len(seq)]
  BY <1>6
<1> HIDE DEF f
<1> QED
  BY <1>5, <1>6, <1>7, FoldOfRun

-----------------------------------------------------------------------------
(* Texts put together from others.  The provers do not know that a literal *)
(* is a string, nor what ToString gives: so the pieces of a text are from  *)
(* a set that has them all.                                                *)

(* A name, for the backends cannot read the literal.                       *)
Space == " "

Text == STRING \cup {"", "1-1024"}

Marks ==
    {"PORT STATE MS BANNER", "-", "scanned", "ports on", "(address)", "open", "closed", "filtered", "errors",
     "{target:", "scanned:", "open:[", "{port:", "state:open", "banner:", "}", ",", "]", "closed:", "filtered:",
     "errors:", "\\u", "\n"}

Characters == {Space, "a", "\"", "\\", ".", "\n", "\r", "ctl", "high", "wide"}

Piece == Text \cup Marks \cup Characters \cup {ToString(n) : n \in Nat}

Chain == Seq(Piece)

Cat == [pair \in Chain \X Chain |-> pair[1] \o pair[2]]

(* Chains one after another.                                               *)
Joined(chains) == Fold(Chain, Cat, << >>, chains)

(* Joining chains is associative, with the empty chain as its unit.        *)
LEMMA Concatenation ==
    /\ << >> \in Chain
    /\ \A r \in Chain : << >> \o r = r /\ r \o << >> = r
    /\ \A r, s \in Chain : r \o s \in Chain
    /\ \A r, s, t \in Chain : (r \o s) \o t = r \o (s \o t)
<1> DEFINE S == Piece
<1>1. Chain = Seq(S)
  BY DEF Chain
<1> HIDE DEF S
<1> QED
  BY <1>1

LEMMA CatType == IsStep(Chain, Chain, Cat)
<1>1. \A r, s \in Chain : r \o s \in Chain
  BY Concatenation
<1> QED
  BY <1>1 DEF IsStep, Cat

(* A loop that adds a chain at each turn ends with the chains joined.      *)
LEMMA JoinedSteps ==
    ASSUME NEW chains \in Seq(Chain), NEW base \in Chain, NEW f, f[0] = base,
           \A k \in 1 .. Len(chains) : f[k - 1] \in Chain => f[k] = f[k - 1] \o chains[k]
    PROVE  f[Len(chains)] = base \o Joined(chains)
<1>1. Len(chains) \in Nat /\ \A k \in 1 .. Len(chains) : chains[k] \in Chain
  OBVIOUS
<1>2. PICK g : IsRun(Chain, Cat, << >>, chains, g)
  BY CatType, Concatenation, RunOfSeq
<1>3. Joined(chains) = g[Len(chains)]
  BY <1>1, <1>2, FoldOfRun DEF Joined
<1> DEFINE Good == {m \in Nat : m <= Len(chains) => g[m] \in Chain /\ f[m] = base \o g[m]}
<1>4. 0 \in Good
  BY <1>2, Concatenation DEF IsRun
<1>5. ASSUME NEW m \in Nat, m \in Good PROVE m + 1 \in Good
  <2> SUFFICES ASSUME m + 1 <= Len(chains) PROVE g[m + 1] \in Chain /\ f[m + 1] = base \o g[m + 1]
    OBVIOUS
  <2>1. m + 1 \in 1 .. Len(chains) /\ (m + 1) - 1 = m /\ g[m] \in Chain /\ f[m] = base \o g[m]
    BY <1>5
  <2>2. chains[m + 1] \in Chain
    BY <1>1, <2>1
  <2>3. g[m + 1] = g[m] \o chains[m + 1]
    <3>1. g[m + 1] = Cat[<<g[m], chains[m + 1]>>]
      BY <1>2, <2>1 DEF IsRun
    <3> QED
      BY <2>1, <2>2, <3>1 DEF Cat
  <2>4. f[m] \in Chain
    BY <2>1, Concatenation
  <2>5. f[m + 1] = f[m] \o chains[m + 1]
    BY <2>1, <2>4
  <2>6. g[m + 1] \in Chain
    BY <2>1, <2>2, <2>3, Concatenation
  <2>7. (base \o g[m]) \o chains[m + 1] = base \o (g[m] \o chains[m + 1])
    BY <2>1, <2>2, Concatenation
  <2> QED
    BY <2>1, <2>3, <2>5, <2>6, <2>7
<1> HIDE DEF Good
<1>6. Len(chains) \in Good
  BY <1>1, <1>4, <1>5, Induction
<1> QED
  BY <1>1, <1>3, <1>6 DEF Good

(* The type of joined chains; none, one, and two lists of chains.          *)
LEMMA JoinedType == \A chains \in Seq(Chain) : Joined(chains) \in Chain
BY CatType, Concatenation, FoldType DEF Joined

LEMMA JoinedShort ==
    /\ Joined(<< >>) = << >>
    /\ \A r \in Chain : Joined(<<r>>) = r
<1> DEFINE empty == << >>
<1>1. empty \in Chain /\ \A r \in Chain : Cat[<<empty, r>>] = r
  BY Concatenation DEF Cat
<1> HIDE DEF empty
<1>2. Fold(Chain, Cat, empty, << >>) = empty /\ \A r \in Chain : Fold(Chain, Cat, empty, <<r>>) = Cat[<<empty, r>>]
  BY <1>1, CatType, FoldOfNone, FoldOfOne
<1> QED
  BY <1>1, <1>2 DEF Joined, empty

LEMMA JoinedConcat ==
    ASSUME NEW r \in Seq(Chain), NEW s \in Seq(Chain)
    PROVE  Joined(r \o s) = Joined(r) \o Joined(s)
<1>1. << >> \in Chain /\ Joined(r) \in Chain
  BY Concatenation, JoinedType
<1>2. Joined(r \o s) = Fold(Chain, Cat, Joined(r), s)
  <2> DEFINE empty == << >>
  <2>1. empty \in Chain
    BY <1>1
  <2> HIDE DEF empty
  <2>2. Fold(Chain, Cat, empty, r \o s) = Fold(Chain, Cat, Fold(Chain, Cat, empty, r), s)
    BY <2>1, CatType, FoldConcat
  <2> QED
    BY <2>2 DEF empty, Joined
<1>3. PICK f : IsRun(Chain, Cat, Joined(r), s, f)
  BY <1>1, CatType, RunOfSeq
<1>4. Len(s) \in Nat /\ \A k \in 1 .. Len(s) : s[k] \in Chain
  OBVIOUS
<1>5. Fold(Chain, Cat, Joined(r), s) = f[Len(s)]
  BY <1>3, <1>4, FoldOfRun
<1>6. ASSUME NEW k \in 1 .. Len(s), f[k - 1] \in Chain PROVE f[k] = f[k - 1] \o s[k]
  <2>1. f[k] = Cat[<<f[k - 1], s[k]>>]
    BY <1>3 DEF IsRun
  <2> QED
    BY <1>4, <1>6, <2>1 DEF Cat
<1>7. f[0] = Joined(r)
  BY <1>3 DEF IsRun
<1>8. f[Len(s)] = Joined(r) \o Joined(s)
  BY <1>1, <1>6, <1>7, JoinedSteps
<1> QED
  BY <1>2, <1>5, <1>8

(* FlattenSeq joins chains.                                                *)
LEMMA Flattened ==
    ASSUME NEW chains \in Seq(Chain)
    PROVE  FlattenSeq(chains) = Joined(chains)
<1> DEFINE n == Len(chains)
           Body(f) == [i \in 1 .. n |-> IF i = 1 THEN chains[i] ELSE f[i - 1] \o chains[i]]
           flatten == CHOOSE f : f = Body(f)
<1>1. n \in Nat /\ \A k \in 1 .. n : chains[k] \in Chain
  OBVIOUS
<1>2. CASE n = 0
  <2>1. chains = << >>
    BY <1>2
  <2>2. FlattenSeq(chains) = chains
    BY <1>2 DEF FlattenSeq
  <2> QED
    BY <2>1, <2>2, JoinedShort
<1>3. CASE n # 0
  <2>1. FlattenSeq(chains) = flatten[n]
    BY <1>3 DEF FlattenSeq
  <2>2. PICK g : IsRun(Chain, Cat, << >>, chains, g)
    BY CatType, Concatenation, RunOfSeq
  <2>3. \A k \in 1 .. n : g[k - 1] \in Chain /\ g[k] = g[k - 1] \o chains[k]
    <3> SUFFICES ASSUME NEW k \in 1 .. n PROVE g[k - 1] \in Chain /\ g[k] = g[k - 1] \o chains[k]
      OBVIOUS
    <3>1. k - 1 \in 0 .. n
      BY <1>1
    <3>2. g[k - 1] \in Chain /\ g[k] = Cat[<<g[k - 1], chains[k]>>]
      BY <2>2, <3>1 DEF IsRun
    <3> QED
      BY <1>1, <3>2 DEF Cat
  <2>4. g[0] = << >>
    BY <2>2 DEF IsRun
  <2> DEFINE f == [i \in 1 .. n |-> g[i]]
  <2>5. f = Body(f)
    <3>1. ASSUME NEW i \in 1 .. n PROVE g[i] = IF i = 1 THEN chains[i] ELSE f[i - 1] \o chains[i]
      <4>1. CASE i = 1
        <5>1. g[1] = << >> \o chains[1]
          <6>1. g[i - 1] = g[0]
            BY <4>1
          <6>2. g[i] = g[i - 1] \o chains[i]
            BY <2>3
          <6> QED
            BY <2>4, <4>1, <6>1, <6>2
        <5> QED
          BY <1>1, <4>1, <5>1, Concatenation
      <4>2. CASE i # 1
        <5>1. i - 1 \in 1 .. n
          BY <1>1, <4>2
        <5> QED
          BY <2>3, <4>2, <5>1
      <4> QED
        BY <4>1, <4>2
    <3> QED
      BY <3>1
  <2>6. flatten = Body(flatten)
    <3> HIDE DEF Body, f
    <3> QED
      BY <2>5
  <2> HIDE DEF flatten
  <2> DEFINE h == [i \in 0 .. n |-> IF i = 0 THEN << >> ELSE flatten[i]]
  <2>7. ASSUME NEW k \in 1 .. n, h[k - 1] \in Chain PROVE h[k] = h[k - 1] \o chains[k]
    <3>1. CASE k = 1
      <4>1. flatten[1] = chains[1] /\ h[1] = flatten[1] /\ h[0] = << >>
        BY <1>1, <1>3, <2>6, <3>1
      <4> QED
        <5>1. << >> \o chains[1] = chains[1] /\ k - 1 = 0
          BY <1>1, <3>1, Concatenation
        <5> HIDE DEF h
        <5> QED
          BY <3>1, <4>1, <5>1
    <3>2. CASE k # 1
      <4>1. k - 1 \in 1 .. n /\ k \in 0 .. n /\ k - 1 \in 0 .. n
        BY <1>1, <3>2
      <4>2. flatten[k] = flatten[k - 1] \o chains[k]
        BY <2>6, <3>2
      <4>3. h[k] = flatten[k] /\ h[k - 1] = flatten[k - 1]
        BY <4>1, <3>2
      <4> QED
        BY <4>2, <4>3
    <3> QED
      BY <3>1, <3>2
  <2>8. h[0] = << >> /\ h[n] = flatten[n]
    BY <1>1, <1>3
  <2> HIDE DEF h
  <2>9. h[n] = << >> \o Joined(chains)
    BY <2>7, <2>8, Concatenation, JoinedSteps
  <2> QED
    BY <2>1, <2>8, <2>9, JoinedType, Concatenation
<1> QED
  BY <1>2, <1>3

(* A loop that adds the chain e[v] for each element v of a list.           *)
Adding(V, e) == [pair \in Chain \X V |-> pair[1] \o e[pair[2]]]

LEMMA AddingFold ==
    ASSUME NEW V, NEW e \in [V -> Chain], NEW base \in Chain, NEW list \in Seq(V)
    PROVE  /\ IsStep(Chain, V, Adding(V, e))
           /\ Fold(Chain, Adding(V, e), base, list) = base \o Joined([k \in 1 .. Len(list) |-> e[list[k]]])
<1>1. IsStep(Chain, V, Adding(V, e))
  <2>1. \A r \in Chain, v \in V : r \o e[v] \in Chain
    BY Concatenation
  <2> QED
    BY <2>1 DEF IsStep, Adding
<1> DEFINE chains == [k \in 1 .. Len(list) |-> e[list[k]]]
<1>2. Len(list) \in Nat /\ \A k \in 1 .. Len(list) : list[k] \in V
  OBVIOUS
<1>3. chains \in Seq(Chain) /\ Len(chains) = Len(list) /\ \A k \in 1 .. Len(list) : chains[k] = e[list[k]]
  BY <1>2
<1> HIDE DEF chains
<1>4. PICK f : IsRun(Chain, Adding(V, e), base, list, f)
  BY <1>1, RunOfSeq
<1>5. Fold(Chain, Adding(V, e), base, list) = f[Len(list)]
  BY <1>2, <1>4, FoldOfRun
<1>6. f[0] = base
  BY <1>4 DEF IsRun
<1>7. ASSUME NEW k \in 1 .. Len(list), f[k - 1] \in Chain PROVE f[k] = f[k - 1] \o chains[k]
  <2>1. f[k] = Adding(V, e)[<<f[k - 1], list[k]>>]
    BY <1>4 DEF IsRun
  <2> QED
    BY <1>2, <1>3, <1>7, <2>1 DEF Adding
<1>8. f[Len(chains)] = base \o Joined(chains)
  BY <1>3, <1>6, <1>7, JoinedSteps
<1> QED
  BY <1>1, <1>3, <1>5, <1>8 DEF chains

-----------------------------------------------------------------------------
(* The text of a banner, as the C program works it out: where the first    *)
(* line starts, how much of it is shown, and what is left without the      *)
(* spaces at its end.                                                      *)

Blanks == {"\r", "\n", Space}
LineEnds == {"\r", "\n"}

Dot(value) == IF value \in Printable THEN value ELSE "."

FirstOf(positions) == IF positions # {} THEN Min(positions) ELSE 0
LastOf(positions) == IF positions # {} THEN Max(positions) ELSE 0

Begin(bytes) == FirstOf({i \in 1 .. Len(bytes) : bytes[i] \notin Blanks})
Rest(bytes) == IF Begin(bytes) = 0 THEN << >> ELSE SubSeq(bytes, Begin(bytes), Len(bytes))
LineEnd(rest) == FirstOf({k \in 1 .. Len(rest) : rest[k] \in LineEnds})
EndOf(rest) == IF LineEnd(rest) = 0 THEN Len(rest) ELSE LineEnd(rest) - 1
Width(rest) == IF EndOf(rest) < BannerMax THEN EndOf(rest) ELSE BannerMax
Shown(rest) == [k \in 1 .. Width(rest) |-> Dot(rest[k])]
Trim(out) == SubSeq(out, 1, LastOf({k \in 1 .. Len(out) : out[k] # Space}))
Banner(bytes) == Trim(Shown(Rest(bytes)))

(* The first and the last of some positions.                               *)
LEMMA FirstAndLast ==
    ASSUME NEW n \in Nat, NEW positions \in SUBSET (1 .. n)
    PROVE  /\ positions = {} => FirstOf(positions) = 0 /\ LastOf(positions) = 0
           /\ positions # {} => /\ FirstOf(positions) \in positions /\ \A i \in positions : FirstOf(positions) <= i
                                /\ LastOf(positions) \in positions /\ \A i \in positions : i <= LastOf(positions)
<1>1. CASE positions = {}
  BY <1>1 DEF FirstOf, LastOf
<1>2. CASE positions # {}
  <2>1. LastOf(positions) \in positions /\ \A i \in positions : i <= LastOf(positions)
    BY <1>2, LastPosition DEF LastOf
  <2>2. \E x \in positions : \A y \in positions : x <= y
    <3>1. positions \in SUBSET Nat
      OBVIOUS
    <3> QED
      BY <1>2, <3>1, FirstPosition
  <2>3. FirstOf(positions) \in positions /\ \A i \in positions : FirstOf(positions) <= i
    BY <1>2, <2>2 DEF FirstOf, Min
  <2> QED
    BY <1>2, <2>1, <2>3
<1> QED
  BY <1>1, <1>2

(* Where the first line starts.                                            *)
LEMMA BeginOfBytes ==
    ASSUME NEW bytes \in Chain
    PROVE  /\ Len(bytes) \in Nat
           /\ \/ Begin(bytes) = 0 /\ \A i \in 1 .. Len(bytes) : bytes[i] \in Blanks
              \/ /\ Begin(bytes) \in 1 .. Len(bytes) /\ bytes[Begin(bytes)] \notin Blanks
                 /\ \A i \in 1 .. Begin(bytes) - 1 : bytes[i] \in Blanks
<1> DEFINE I == {i \in 1 .. Len(bytes) : bytes[i] \notin Blanks}
<1>1. Len(bytes) \in Nat /\ I \in SUBSET (1 .. Len(bytes))
  BY DEF Chain
<1>2. Begin(bytes) = FirstOf(I)
  BY DEF Begin
<1>3. CASE I = {}
  BY <1>1, <1>2, <1>3, FirstAndLast
<1>4. CASE I # {}
  <2>1. Begin(bytes) \in I /\ \A i \in I : Begin(bytes) <= i
    <3> HIDE DEF I
    <3>1. FirstOf(I) \in I /\ \A i \in I : FirstOf(I) <= i
      <4> DEFINE n == Len(bytes)
      <4>1. n \in Nat /\ I \in SUBSET (1 .. n)
        BY <1>1
      <4> HIDE DEF n
      <4> QED
        BY <1>4, <4>1, FirstAndLast
    <3> QED
      BY <1>2, <3>1
  <2>2. ASSUME NEW i \in 1 .. Begin(bytes) - 1 PROVE bytes[i] \in Blanks
    <3>1. i \in 1 .. Len(bytes) /\ ~(Begin(bytes) <= i)
      BY <1>1, <2>1
    <3> QED
      BY <2>1, <3>1
  <2> QED
    BY <1>1, <2>1, <2>2
<1> QED
  BY <1>3, <1>4

(* Its rest, byte by byte.                                                 *)
LEMMA RestOfBytes ==
    ASSUME NEW bytes \in Chain
    PROVE  /\ Rest(bytes) \in Chain /\ Len(Rest(bytes)) \in Nat
           /\ Begin(bytes) = 0 => Rest(bytes) = << >> /\ Len(Rest(bytes)) = 0
           /\ Begin(bytes) # 0 =>
                /\ Len(Rest(bytes)) = Len(bytes) - Begin(bytes) + 1
                /\ \A k \in 1 .. Len(Rest(bytes)) : Rest(bytes)[k] = bytes[Begin(bytes) + k - 1]
<1>1. CASE Begin(bytes) = 0
  BY <1>1, Concatenation DEF Rest
<1>2. CASE Begin(bytes) # 0
  <2>1. Begin(bytes) \in 1 .. Len(bytes) /\ Rest(bytes) = SubSeq(bytes, Begin(bytes), Len(bytes))
    BY <1>2, BeginOfBytes DEF Rest
  <2> QED
    BY <1>2, <2>1 DEF Chain
<1> QED
  BY <1>1, <1>2

(* How much of a rest is shown: no line end, and BannerMax at most.        *)
LEMMA WidthOfRest ==
    ASSUME NEW rest \in Chain
    PROVE  /\ Width(rest) \in Nat /\ Width(rest) <= Len(rest) /\ Width(rest) <= BannerMax
           /\ \A k \in 1 .. Width(rest) : rest[k] \notin LineEnds
           /\ Width(rest) = Len(rest) \/ Width(rest) = BannerMax \/ rest[Width(rest) + 1] \in LineEnds
<1> DEFINE I == {k \in 1 .. Len(rest) : rest[k] \in LineEnds}
<1>1. Len(rest) \in Nat /\ I \in SUBSET (1 .. Len(rest)) /\ BannerMax \in Nat
  BY BannerMaxAssumption DEF Chain
<1>2. LineEnd(rest) = FirstOf(I)
  BY DEF LineEnd
<1>3. CASE I = {}
  <2>1. LineEnd(rest) = 0
    BY <1>1, <1>2, <1>3, FirstAndLast
  <2>2. EndOf(rest) = Len(rest) /\ \A k \in 1 .. Len(rest) : rest[k] \notin LineEnds
    BY <1>3, <2>1 DEF EndOf
  <2> QED
    BY <1>1, <2>2 DEF Width
<1>4. CASE I # {}
  <2>1. LineEnd(rest) \in I /\ \A i \in I : LineEnd(rest) <= i
    <3> HIDE DEF I
    <3>1. FirstOf(I) \in I /\ \A i \in I : FirstOf(I) <= i
      <4> DEFINE n == Len(rest)
      <4>1. n \in Nat /\ I \in SUBSET (1 .. n)
        BY <1>1
      <4> HIDE DEF n
      <4> QED
        BY <1>4, <4>1, FirstAndLast
    <3> QED
      BY <1>2, <3>1
  <2>2. EndOf(rest) = LineEnd(rest) - 1 /\ LineEnd(rest) \in 1 .. Len(rest) /\ rest[LineEnd(rest)] \in LineEnds
    BY <1>1, <2>1 DEF EndOf
  <2>3. ASSUME NEW k \in 1 .. EndOf(rest) PROVE rest[k] \notin LineEnds
    <3>1. k \in 1 .. Len(rest) /\ ~(LineEnd(rest) <= k)
      BY <1>1, <2>2
    <3> QED
      BY <2>1, <3>1
  <2>4. /\ EndOf(rest) \in Nat /\ EndOf(rest) <= Len(rest) /\ rest[EndOf(rest) + 1] \in LineEnds
    BY <1>1, <2>2
  <2> QED
    BY <1>1, <2>3, <2>4 DEF Width
<1> QED
  BY <1>3, <1>4

(* What is shown, before and after the spaces at its end are dropped.      *)
LEMMA ShownOfRest ==
    ASSUME NEW rest \in Chain
    PROVE  /\ Shown(rest) \in Chain /\ Len(Shown(rest)) = Width(rest)
           /\ \A k \in 1 .. Width(rest) : Shown(rest)[k] \in Printable /\ (Shown(rest)[k] = Space <=> rest[k] = Space)
<1>1. Width(rest) \in Nat
  BY WidthOfRest
<1>2. Printable \subseteq Piece
  BY Zenon DEF Printable, Piece, Characters, Space
<1>3. \A value : Dot(value) \in Printable /\ (Dot(value) = Space <=> value = Space)
  BY Zenon DEF Dot, Printable, Space
<1> DEFINE w == Width(rest)
           g == [k \in 1 .. w |-> Dot(rest[k])]
<1>4. Shown(rest) = g
  BY DEF Shown
<1>5. w \in Nat
  BY <1>1
<1> HIDE DEF w
<1>6. g \in Seq(Piece) /\ Len(g) = w
  BY <1>2, <1>3, <1>5
<1>7. \A k \in 1 .. w : g[k] = Dot(rest[k])
  OBVIOUS
<1> HIDE DEF g
<1> QED
  BY <1>3, <1>4, <1>6, <1>7 DEF Chain, w

LEMMA TrimOfChain ==
    ASSUME NEW out \in Chain
    PROVE  /\ Trim(out) \in Chain /\ Len(Trim(out)) \in 0 .. Len(out)
           /\ \A k \in 1 .. Len(Trim(out)) : Trim(out)[k] = out[k]
           /\ Len(Trim(out)) > 0 => out[Len(Trim(out))] # Space
           /\ \A k \in 1 .. Len(out) : k > Len(Trim(out)) => out[k] = Space
<1> DEFINE n == Len(out)
           I == {k \in 1 .. n : out[k] # Space}
<1>1. n \in Nat /\ I \in SUBSET (1 .. n)
  BY DEF Chain
<1>2. Trim(out) = SubSeq(out, 1, LastOf(I))
  BY DEF Trim
<1>3. /\ LastOf(I) \in 0 .. n
      /\ LastOf(I) # 0 => LastOf(I) \in I
      /\ \A k \in I : k <= LastOf(I)
  <2> HIDE DEF n, I
  <2>1. CASE I = {}
    BY <1>1, <2>1, FirstAndLast
  <2>2. CASE I # {}
    <3>1. LastOf(I) \in I /\ \A k \in I : k <= LastOf(I)
      BY <1>1, <2>2, FirstAndLast
    <3>2. LastOf(I) \in 1 .. n
      BY <1>1, <3>1
    <3> QED
      BY <1>1, <3>1, <3>2
  <2> QED
    BY <2>1, <2>2
<1>4. Trim(out) \in Chain /\ Len(Trim(out)) = LastOf(I) /\ \A k \in 1 .. LastOf(I) : Trim(out)[k] = out[k]
  <2>1. LastOf(I) \in 0 .. Len(out)
    BY <1>3
  <2> HIDE DEF I
  <2> QED
    BY <1>2, <2>1 DEF Chain
<1>5. \A k \in 1 .. n : k > LastOf(I) => k \notin I
  BY <1>1, <1>3
<1> QED
  BY <1>1, <1>3, <1>4, <1>5

(* The text of a banner is what it is to be.                               *)
LEMMA BannerIsClean ==
    ASSUME NEW bytes \in Chain
    PROVE  Banner(bytes) = CleanBanner(bytes)
<1> DEFINE Qualifies(i, j) ==
              /\ bytes[i] \notin Blanks /\ \A k \in 1 .. i - 1 : bytes[k] \in Blanks
              /\ \A k \in i .. j : bytes[k] \notin LineEnds
              /\ bytes[j] # Space /\ j - i < BannerMax
           ends == {j \in DOMAIN bytes : \E i \in 1 .. j : Qualifies(i, j)}
           clean == IF ends = {} THEN << >>
                    ELSE LET j == CHOOSE j \in ends : \A k \in ends : k <= j
                             i == CHOOSE i \in 1 .. j : Qualifies(i, j)
                         IN  [k \in 1 .. j - i + 1 |-> Dot(bytes[i + k - 1])]
           b == Begin(bytes)
           rest == Rest(bytes)
           out == Shown(rest)
           last == Len(Trim(out))
<1>1. CleanBanner(bytes) = clean
  BY Zenon DEF CleanBanner, Blanks, LineEnds, Dot, Space
<1>2. /\ rest \in Chain /\ out \in Chain /\ Len(out) = Width(rest) /\ Len(rest) \in Nat
      /\ Width(rest) \in Nat /\ Width(rest) <= Len(rest)
      /\ DOMAIN bytes = 1 .. Len(bytes) /\ Len(bytes) \in Nat
  BY RestOfBytes, ShownOfRest, WidthOfRest DEF Chain
<1>3. Banner(bytes) = Trim(out)
  BY DEF Banner
<1>4. /\ Trim(out) \in Chain /\ last \in 0 .. Width(rest)
      /\ \A k \in 1 .. last : Trim(out)[k] = out[k]
      /\ last > 0 => rest[last] # Space
      /\ \A k \in 1 .. Width(rest) : k > last => rest[k] = Space
  <2> HIDE DEF out
  <2>1. /\ Trim(out) \in Chain /\ last \in 0 .. Len(out)
        /\ \A k \in 1 .. last : Trim(out)[k] = out[k]
        /\ last > 0 => out[last] # Space
        /\ \A k \in 1 .. Len(out) : k > last => out[k] = Space
    BY <1>2, TrimOfChain
  <2>2. \A k \in 1 .. Width(rest) : out[k] = Space <=> rest[k] = Space
    BY <1>2, ShownOfRest DEF out
  <2>3. last > 0 => last \in 1 .. Width(rest)
    BY <1>2, <2>1
  <2> QED
    BY <1>2, <2>1, <2>2, <2>3
<1>5. CASE b = 0
  <2>1. \A i \in 1 .. Len(bytes) : bytes[i] \in Blanks
    BY <1>5, BeginOfBytes
  <2>2. ends = {}
    <3> SUFFICES ASSUME NEW j \in 1 .. Len(bytes), NEW i \in 1 .. j, bytes[i] \notin Blanks PROVE FALSE
      BY <1>2
    <3>1. i \in 1 .. Len(bytes)
      BY <1>2
    <3> QED
      BY <2>1, <3>1
  <2>3. Len(rest) = 0
    BY <1>5, RestOfBytes
  <2>4. last = 0
    BY <1>2, <1>4, <2>3
  <2>5. Trim(out) = << >>
    <3> HIDE DEF out
    <3> QED
      BY <1>4, <2>4 DEF Chain
  <2> QED
    BY <1>1, <1>3, <2>2, <2>5
<1>6. CASE b # 0
  <2>1. /\ b \in 1 .. Len(bytes) /\ bytes[b] \notin Blanks /\ \A i \in 1 .. b - 1 : bytes[i] \in Blanks
        /\ Len(rest) = Len(bytes) - b + 1 /\ \A k \in 1 .. Len(rest) : rest[k] = bytes[b + k - 1]
    BY <1>6, BeginOfBytes, RestOfBytes
  <2>2. /\ BannerMax \in Nat /\ Width(rest) <= BannerMax
        /\ \A k \in 1 .. Width(rest) : rest[k] \notin LineEnds
        /\ Width(rest) = Len(rest) \/ Width(rest) = BannerMax \/ rest[Width(rest) + 1] \in LineEnds
    BY <1>2, WidthOfRest, BannerMaxAssumption
  <2> HIDE DEF b, rest, last, out
  <2>3. ASSUME NEW j \in 1 .. Len(bytes), NEW i \in 1 .. j, Qualifies(i, j) PROVE i = b
    <3>1. i \in 1 .. Len(bytes)
      BY <1>2
    <3>2. ~(i < b)
      <4>1. i < b => i \in 1 .. b - 1
        BY <1>2, <2>1, <3>1
      <4> QED
        BY <2>1, <2>3, <4>1
    <3>3. ~(b < i)
      <4>1. b < i => b \in 1 .. i - 1
        BY <1>2, <2>1, <3>1
      <4> QED
        BY <2>1, <2>3, <4>1
    <3> QED
      BY <1>2, <2>1, <3>1, <3>2, <3>3
  <2>4. ASSUME NEW k \in 1 .. Width(rest), rest[k] # Space
        PROVE  b + k - 1 \in ends /\ b \in 1 .. b + k - 1 /\ Qualifies(b, b + k - 1)
    <3> DEFINE j == b + k - 1
    <3>1. j \in 1 .. Len(bytes) /\ b \in 1 .. j /\ k \in 1 .. Len(rest) /\ j - b < BannerMax
      BY <1>2, <2>1, <2>2
    <3>2. bytes[j] # Space
      BY <2>1, <2>4, <3>1
    <3>3. ASSUME NEW m \in b .. j PROVE bytes[m] \notin LineEnds
      <4>1. m - b + 1 \in 1 .. Width(rest) /\ m - b + 1 \in 1 .. Len(rest) /\ b + (m - b + 1) - 1 = m
        BY <1>2, <2>1, <2>2
      <4>2. rest[m - b + 1] = bytes[b + (m - b + 1) - 1]
        BY <2>1, <4>1
      <4> QED
        BY <2>2, <4>1, <4>2
    <3>4. Qualifies(b, j)
      BY <2>1, <3>1, <3>2, <3>3
    <3> QED
      BY <1>2, <3>1, <3>4
  <2>5. ASSUME NEW j \in ends PROVE j - b + 1 \in 1 .. Width(rest) /\ rest[j - b + 1] # Space /\ j \in 1 .. Len(bytes)
    <3>1. j \in 1 .. Len(bytes) /\ b \in 1 .. j /\ Qualifies(b, j)
      BY <1>2, <2>3, <2>5
    <3> DEFINE k == j - b + 1
    <3>2. k \in 1 .. Len(rest) /\ b + k - 1 = j /\ k <= BannerMax
      BY <1>2, <2>1, <2>2, <3>1
    <3>3. rest[k] # Space
      BY <2>1, <3>1, <3>2
    <3>4. k <= Width(rest)
      <4> SUFFICES ASSUME k > Width(rest) PROVE FALSE
        BY <1>2, <3>2
      <4>1. /\ rest[Width(rest) + 1] \in LineEnds /\ Width(rest) + 1 \in 1 .. Len(rest)
            /\ b + (Width(rest) + 1) - 1 \in b .. j
        <5>1. /\ Width(rest) < k /\ k <= Len(rest) /\ k <= BannerMax /\ k \in Nat /\ b \in Nat /\ j = b + k - 1
              /\ Width(rest) \in Nat /\ Len(rest) \in Nat /\ BannerMax \in Nat
          BY <1>2, <2>1, <2>2, <3>1, <3>2
        <5> HIDE DEF k
        <5>2. Width(rest) # Len(rest) /\ Width(rest) # BannerMax
          BY <5>1
        <5>3. Width(rest) + 1 \in 1 .. Len(rest) /\ b + (Width(rest) + 1) - 1 \in b .. j
          BY <5>1
        <5> QED
          BY <2>2, <5>2, <5>3
      <4>2. bytes[b + (Width(rest) + 1) - 1] \in LineEnds
        BY <2>1, <4>1
      <4> QED
        BY <3>1, <4>1, <4>2
    <3> QED
      BY <3>1, <3>2, <3>3, <3>4
  <2>6. CASE last = 0
    <3>1. ends = {}
      <4> SUFFICES ASSUME NEW j \in ends PROVE FALSE
        OBVIOUS
      <4>1. j - b + 1 \in 1 .. Width(rest) /\ rest[j - b + 1] # Space
        BY <2>5
      <4>2. j - b + 1 > last
        BY <1>2, <2>6, <4>1
      <4> QED
        BY <1>4, <4>1, <4>2
    <3>2. Trim(out) = << >>
      BY <1>4, <2>6 DEF Chain, last
    <3> QED
      BY <1>1, <1>3, <3>1, <3>2
  <2>7. CASE last # 0
    <3> DEFINE top == b + last - 1
    <3>1. last \in 1 .. Width(rest) /\ rest[last] # Space
      BY <1>2, <1>4, <2>7
    <3>2. top \in ends /\ b \in 1 .. top /\ Qualifies(b, top)
      BY <2>4, <3>1
    <3>3. ASSUME NEW j \in ends PROVE j <= top
      <4>1. j - b + 1 \in 1 .. Width(rest) /\ rest[j - b + 1] # Space /\ j \in 1 .. Len(bytes)
        BY <2>5
      <4>2. ~(j - b + 1 > last)
        BY <1>4, <4>1
      <4> QED
        BY <1>2, <2>1, <3>1, <4>1, <4>2
    <3>4. top \in Nat /\ ends \subseteq Nat
      BY <1>2, <2>1, <3>1
    <3> DEFINE n == last
    <3> HIDE DEF top, ends, n
    <3>5. (CHOOSE j \in ends : \A k \in ends : k <= j) = top
      <4>1. \A x \in ends : top <= x /\ x <= top => x = top
        BY <3>4
      <4>2. \A x \in ends : (\A k \in ends : k <= x) => x = top
        BY <3>2, <3>3, <4>1
      <4> QED
        BY <3>2, <3>3, <4>2
    <3>6. (CHOOSE i \in 1 .. top : Qualifies(i, top)) = b
      <4>1. top \in 1 .. Len(bytes)
        BY <1>2, <3>2 DEF ends
      <4> QED
        BY <2>3, <3>2, <4>1
    <3>7. clean = [k \in 1 .. top - b + 1 |-> Dot(bytes[b + k - 1])]
      <4> DEFINE first(j) == CHOOSE i \in 1 .. j : Qualifies(i, j)
                 cut(j, i) == [k \in 1 .. j - i + 1 |-> Dot(bytes[i + k - 1])]
                 largest == CHOOSE j \in ends : \A k \in ends : k <= j
      <4>1. ends # {}
        BY <3>2
      <4>2. clean = cut(largest, first(largest))
        BY <4>1
      <4>3. largest = top /\ first(top) = b
        BY <3>5, <3>6
      <4> HIDE DEF clean, cut, first, largest
      <4>4. clean = cut(top, b)
        BY <4>2, <4>3
      <4> QED
        BY <4>4 DEF cut
    <3>8. top - b + 1 = n
      BY <1>2, <2>1, <3>1 DEF top, n
    <3>9. n \in Nat /\ Trim(out) \in Seq(Piece) /\ Len(Trim(out)) = n
      BY <1>2, <1>4 DEF Chain, n, last
    <3>10. ASSUME NEW k \in 1 .. n PROVE Trim(out)[k] = Dot(bytes[b + k - 1])
      <4>1. k \in 1 .. Width(rest) /\ k \in 1 .. Len(rest)
        BY <1>2, <3>1 DEF n
      <4>2. Trim(out)[k] = out[k] /\ rest[k] = bytes[b + k - 1]
        BY <1>4, <2>1, <4>1 DEF n
      <4>3. out[k] = Dot(rest[k])
        BY <4>1 DEF out, Shown
      <4> QED
        BY <4>2, <4>3
    <3>11. Trim(out) = [k \in 1 .. n |-> Dot(bytes[b + k - 1])]
      BY <3>9, <3>10
    <3> QED
      BY <1>1, <1>3, <3>7, <3>8, <3>11
  <2> QED
    BY <2>6, <2>7
<1> QED
  BY <1>5, <1>6

(* The C program works it out like this,                                   *)
LEMMA CBanner == \A bytes \in Chain : C!scan_sanitize_banner(bytes) = CleanBanner(bytes)
<1> DEFINE First(seq, values) == C!SelectInSeq(seq, LAMBDA value : value \in values)
           Other(seq, values) == C!SelectInSeq(seq, LAMBDA value : value \notin values)
           Kept(seq) == C!SelectLastInSeq(seq, LAMBDA value : value # Space)
           Tidy(out) == SubSeq(out, 1, Kept(out))
           Wide(rest, eol) ==
             LET end == IF eol = 0 THEN Len(rest) ELSE eol - 1
             IN  [k \in 1 .. (IF end < BannerMax THEN end ELSE BannerMax) |-> Dot(rest[k])]
           From(bytes, i) == IF i = 0 THEN << >> ELSE SubSeq(bytes, i, Len(bytes))
<1>1. ASSUME NEW bytes
      PROVE  C!scan_sanitize_banner(bytes) =
                LET rest == From(bytes, Other(bytes, Blanks)) IN Tidy(Wide(rest, First(rest, LineEnds)))
  BY Zenon DEF C!scan_sanitize_banner, C!Printable, Printable, Dot, Blanks, LineEnds, Space
<1>2. ASSUME NEW seq
      PROVE  First(seq, LineEnds) = LineEnd(seq) /\ Other(seq, Blanks) = Begin(seq) /\ Tidy(seq) = Trim(seq)
  BY DEF C!SelectInSeq, C!SelectLastInSeq, C!Min, C!Max, Min, Max, LineEnd, Begin, Trim, FirstOf, LastOf
<1>3. ASSUME NEW bytes PROVE C!scan_sanitize_banner(bytes) = Banner(bytes)
  <2> DEFINE rest == Rest(bytes)
  <2>1. From(bytes, Other(bytes, Blanks)) = rest
    BY <1>2 DEF Rest
  <2>2. Wide(rest, First(rest, LineEnds)) = Shown(rest)
    BY <1>2 DEF Shown, Width, EndOf
  <2>3. Tidy(Shown(rest)) = Trim(Shown(rest))
    BY <1>2
  <2> HIDE DEF First, Other, Tidy, Wide, From, rest
  <2> QED
    BY <1>1, <2>1, <2>2, <2>3 DEF Banner, rest
<1> QED
  BY <1>3, BannerIsClean

(* and the Rust program with the number of the bytes that it keeps.        *)
LEMMA RustBanner == \A bytes \in Chain : Rust!sanitize_banner(bytes) = CleanBanner(bytes)
<1> SUFFICES ASSUME NEW bytes \in Chain PROVE Rust!sanitize_banner(bytes) = Banner(bytes)
  BY BannerIsClean
<1> DEFINE rest == Rest(bytes)
           stop == LineEnd(rest)
           kept == {k \in DOMAIN rest : (stop = 0 \/ k < stop) /\ k <= BannerMax}
<1>1. Rust!sanitize_banner(bytes) = Trim([k \in 1 .. Rust!Cardinality(kept) |-> Dot(rest[k])])
  BY Zenon DEF Rust!sanitize_banner, Rust!SelectInSeq, Rust!SelectLastInSeq, Rust!Min, Rust!Max, Rust!Printable, Printable,
               Rust!Trimmed, Trim, LineEnd, Rest, Begin, FirstOf, LastOf, Min, Max, Dot, Blanks, LineEnds, Space
<1>2. kept = 1 .. Width(rest)
  <2>1. rest \in Chain /\ Len(rest) \in Nat /\ DOMAIN rest = 1 .. Len(rest)
    BY RestOfBytes DEF Chain
  <2>2. stop \in 0 .. Len(rest)
    <3> DEFINE I == {k \in 1 .. Len(rest) : rest[k] \in LineEnds}
    <3>1. I \in SUBSET (1 .. Len(rest)) /\ stop = FirstOf(I)
      BY DEF LineEnd
    <3> HIDE DEF I, rest, stop
    <3>2. FirstOf(I) = 0 \/ FirstOf(I) \in I
      BY <2>1, <3>1, FirstAndLast
    <3>3. FirstOf(I) \in I => FirstOf(I) \in 1 .. Len(rest)
      BY <3>1
    <3> QED
      BY <2>1, <3>1, <3>2, <3>3
  <2> HIDE DEF rest
  <2> QED
    BY <2>1, <2>2, BannerMaxAssumption DEF Width, EndOf
<1>3. Width(rest) \in Nat
  BY RestOfBytes, WidthOfRest
<1>4. Rust!Cardinality(1 .. Width(rest)) = Width(rest)
  <2>1. Cardinality(1 .. Width(rest)) = Width(rest)
    BY <1>3, FS_Interval
  <2> QED
    BY <2>1 DEF Rust!Cardinality, Cardinality
<1> QED
  BY <1>1, <1>2, <1>4 DEF Banner, Shown

(* The loop of the C++ program adds a byte at a time.                      *)
CppStates == [out : Chain, ended : BOOLEAN]
CppFirst == [out |-> << >>, ended |-> FALSE]
CppPush(acc, value) ==
    IF acc.ended \/ Len(acc.out) = BannerMax THEN acc
    ELSE IF value \in LineEnds THEN [acc EXCEPT !.ended = TRUE]
    ELSE [acc EXCEPT !.out = Append(@, Dot(value))]
CppStep == [pair \in CppStates \X Piece |-> CppPush(pair[1], pair[2])]

LEMMA DotIsPiece == \A value : Dot(value) \in Printable /\ Dot(value) \in Piece
<1>1. \A value : Dot(value) \in Printable
  BY Zenon DEF Dot, Printable
<1>2. Printable \subseteq Piece
  BY Zenon DEF Printable, Piece, Characters, Space
<1> QED
  BY <1>1, <1>2

(* It is a step from one state to the next.                                *)
LEMMA CppStepType == IsStep(CppStates, Piece, CppStep) /\ CppFirst \in CppStates
<1>1. CppFirst \in CppStates
  BY Concatenation DEF CppFirst, CppStates
<1>2. ASSUME NEW acc \in CppStates, NEW value \in Piece PROVE CppPush(acc, value) \in CppStates
  <2>1. Append(acc.out, Dot(value)) \in Chain
    <3>1. acc.out \in Seq(Piece) /\ Dot(value) \in Piece
      BY DotIsPiece DEF CppStates, Chain
    <3> QED
      BY <3>1 DEF Chain
  <2>2. CASE acc.ended \/ Len(acc.out) = BannerMax
    BY <2>2 DEF CppPush
  <2>3. CASE ~(acc.ended \/ Len(acc.out) = BannerMax)
    BY <2>1, <2>3 DEF CppPush, CppStates
  <2> QED
    BY <2>2, <2>3
<1>3. IsStep(CppStates, Piece, CppStep)
  BY <1>2 DEF IsStep, CppStep
<1> QED
  BY <1>1, <1>3

LEMMA CppPushes ==
    ASSUME NEW rest \in Chain
    PROVE  Cpp!FoldLeft(CppPush, CppFirst, rest) = Fold(CppStates, CppStep, CppFirst, rest)
<1> DEFINE Body(it) == [s \in SUBSET DOMAIN rest |->
                          IF s = {} THEN CppFirst ELSE CppPush(it[s \ {Max(s)}], rest[Max(s)])]
           iter == CHOOSE it : it = Body(it)
<1>1. Cpp!FoldLeft(CppPush, CppFirst, rest) = iter[DOMAIN rest]
  BY DEF Cpp!FoldLeft, Cpp!MapThenFoldSet, Cpp!Max, Max
<1>2. rest \in Seq(Piece) /\ DOMAIN rest = 1 .. Len(rest) /\ IsStep(CppStates, Piece, CppStep) /\ CppFirst \in CppStates
  BY CppStepType DEF Chain
<1>3. \A x \in CppStates, v \in Piece : CppStep[<<x, v>>] = CppPush(x, v)
  BY DEF CppStep
<1>4. \E it : it = Body(it)
  <2>1. PICK it : Recurs(CppStates, Piece, CppStep, CppFirst, rest, it)
    BY <1>2, IterExists
  <2>2. it = Body(it)
    BY <1>2, <1>3, <2>1 DEF Recurs
  <2> QED
    BY <2>2
<1>5. iter = Body(iter)
  <2> HIDE DEF Body
  <2> QED
    BY <1>4
<1> HIDE DEF iter, Body
<1>6. iter[{}] = CppFirst
  BY <1>5 DEF Body
<1>7. ASSUME NEW s \in SUBSET (1 .. Len(rest)), s # {}, iter[s \ {Max(s)}] \in CppStates
      PROVE  iter[s] = CppStep[<<iter[s \ {Max(s)}], rest[Max(s)]>>]
  <2>1. rest[Max(s)] \in Piece
    <3>1. Len(rest) \in Nat
      BY <1>2
    <3>2. Max(s) \in s /\ s \subseteq 1 .. Len(rest)
      BY <1>7, <3>1, LastPosition
    <3>3. Max(s) \in 1 .. Len(rest)
      BY <3>2
    <3> HIDE DEF Body
    <3> QED
      BY <1>2, <3>3
  <2>2. iter[s] = CppPush(iter[s \ {Max(s)}], rest[Max(s)])
    BY <1>2, <1>5, <1>7 DEF Body
  <2> QED
    BY <1>3, <1>7, <2>1, <2>2
<1>8. iter[1 .. Len(rest)] = Fold(CppStates, CppStep, CppFirst, rest)
  <2>1. Follows(CppStates, CppStep, CppFirst, rest, iter)
    BY <1>6, <1>7 DEF Follows
  <2> QED
    BY <1>2, <2>1, FoldOfIter
<1> QED
  BY <1>1, <1>2, <1>8

(* It ends with what is shown.                                             *)
LEMMA CppShows ==
    ASSUME NEW rest \in Chain
    PROVE  Cpp!FoldLeft(CppPush, CppFirst, rest).out = Shown(rest)
<1>1. Len(rest) \in Nat /\ Width(rest) \in Nat /\ Width(rest) <= Len(rest) /\ Width(rest) <= BannerMax /\ BannerMax \in Nat
  BY WidthOfRest, BannerMaxAssumption DEF Chain
<1>2. Shown(rest) \in Chain /\ Len(Shown(rest)) = Width(rest)
  BY ShownOfRest
<1>3. PICK f : IsRun(CppStates, CppStep, CppFirst, rest, f)
  BY CppStepType, RunOfSeq DEF Chain
<1> DEFINE w == Width(rest)
           Right(m) == /\ Len(f[m].out) = IF m < w THEN m ELSE w
                       /\ \A k \in 1 .. Len(f[m].out) : f[m].out[k] = Shown(rest)[k]
                       /\ m <= w => ~f[m].ended
                       /\ m > w => f[m].ended \/ w = BannerMax
           Good == {m \in Nat : m <= Len(rest) => Right(m)}
<1>4. 0 \in Good
  <2>1. f[0] = CppFirst
    BY <1>3 DEF IsRun
  <2>2. f[0].out = << >> /\ ~f[0].ended
    BY <2>1 DEF CppFirst
  <2> QED
    BY <1>1, <2>2
<1>5. ASSUME NEW m \in Nat, m \in Good PROVE m + 1 \in Good
  <2> SUFFICES ASSUME m + 1 <= Len(rest) PROVE Right(m + 1)
    OBVIOUS
  <2>1. m + 1 \in 1 .. Len(rest) /\ m \in 0 .. Len(rest) /\ (m + 1) - 1 = m /\ Right(m)
    BY <1>1, <1>5
  <2> DEFINE acc == f[m]
             value == rest[m + 1]
  <2>2. acc \in CppStates /\ value \in Piece
    BY <1>3, <2>1 DEF IsRun, Chain
  <2>3. acc.out \in Seq(Piece) /\ acc.ended \in BOOLEAN
    BY <2>2 DEF CppStates, Chain
  <2>4. f[m + 1] = CppPush(acc, value)
    <3>1. f[m + 1] = CppStep[<<acc, value>>]
      BY <1>3, <2>1 DEF IsRun
    <3> QED
      BY <2>2, <3>1 DEF CppStep
  <2>5. CASE m < w
    <3>1. ~acc.ended /\ Len(acc.out) = m /\ m # BannerMax /\ m < BannerMax
      BY <1>1, <2>1, <2>5
    <3>2. m + 1 \in 1 .. Width(rest)
      BY <1>1, <2>5
    <3>3. value \notin LineEnds /\ Shown(rest)[m + 1] = Dot(value)
      BY <3>2, WidthOfRest DEF Shown
    <3>4. f[m + 1] = [acc EXCEPT !.out = Append(@, Dot(value))]
      BY <1>1, <2>4, <3>1, <3>3 DEF CppPush
    <3>5. f[m + 1].out = Append(acc.out, Dot(value)) /\ f[m + 1].ended = acc.ended
      BY <2>2, <3>4 DEF CppStates
    <3>6. /\ Len(f[m + 1].out) = m + 1 /\ f[m + 1].out[m + 1] = Dot(value)
          /\ \A k \in 1 .. m : f[m + 1].out[k] = acc.out[k]
      BY <2>3, <3>1, <3>5, DotIsPiece
    <3>7. \A k \in 1 .. m + 1 : k \in 1 .. m \/ k = m + 1
      OBVIOUS
    <3>8. \A k \in 1 .. m + 1 : f[m + 1].out[k] = Shown(rest)[k]
      <4> HIDE DEF acc, value
      <4> QED
        BY <2>1, <3>1, <3>3, <3>6, <3>7 DEF acc
    <3> QED
      BY <1>1, <2>5, <3>1, <3>5, <3>6, <3>8
  <2>6. CASE ~(m < w)
    <3>1. Len(acc.out) = w /\ m >= w /\ m + 1 > w
      BY <1>1, <2>1, <2>6
    <3>2. f[m + 1].out = acc.out /\ (f[m + 1].ended \/ w = BannerMax)
      <4>1. CASE m > w
        BY <1>1, <2>1, <2>2, <2>4, <3>1, <4>1 DEF CppPush, CppStates
      <4>2. CASE m = w
        <5>1. w = BannerMax \/ value \in LineEnds
          BY <1>1, <2>1, <4>2, WidthOfRest
        <5> QED
          BY <1>1, <2>1, <2>2, <2>4, <3>1, <5>1 DEF CppPush, CppStates
      <4> QED
        BY <1>1, <3>1, <4>1, <4>2
    <3> QED
      BY <1>1, <2>1, <3>1, <3>2
  <2> QED
    BY <2>5, <2>6
<1> HIDE DEF Good
<1>6. Right(Len(rest))
  <2>1. Len(rest) \in Good
    BY <1>1, <1>4, <1>5, Induction
  <2> HIDE DEF Right
  <2> QED
    BY <1>1, <2>1 DEF Good
<1>7. f[Len(rest)].out = Shown(rest)
  <2>1. f[Len(rest)].out \in Seq(Piece)
    <3>1. Len(rest) \in 0 .. Len(rest)
      BY <1>1
    <3> QED
      BY <1>3, <3>1 DEF IsRun, CppStates, Chain
  <2>2. Len(f[Len(rest)].out) = Len(Shown(rest)) /\ Shown(rest) \in Seq(Piece)
    BY <1>1, <1>2, <1>6 DEF Chain
  <2> QED
    BY <1>6, <2>1, <2>2
<1>8. Fold(CppStates, CppStep, CppFirst, rest) = f[Len(rest)]
  BY <1>1, <1>3, FoldOfRun
<1> QED
  BY <1>7, <1>8, CppPushes

LEMMA CppBanner == \A bytes \in Chain : Cpp!sanitizeBanner(bytes) = CleanBanner(bytes)
<1> DEFINE Other(seq, values) == Cpp!SelectInSeq(seq, LAMBDA value : value \notin values)
           Kept(seq) == Cpp!SelectLastInSeq(seq, LAMBDA value : value # Space)
           Tidy(out) == SubSeq(out, 1, Kept(out))
<1>1. ASSUME NEW bytes
      PROVE  Cpp!sanitizeBanner(bytes) =
                Tidy(IF Other(bytes, Blanks) = 0 THEN << >>
                     ELSE Cpp!FoldLeft(CppPush, CppFirst, SubSeq(bytes, Other(bytes, Blanks), Len(bytes))).out)
  BY Zenon DEF Cpp!sanitizeBanner, Cpp!Printable, Printable, CppPush, CppFirst, Dot, Blanks, LineEnds, Space
<1>2. ASSUME NEW seq PROVE Other(seq, Blanks) = Begin(seq) /\ Tidy(seq) = Trim(seq)
  BY DEF Cpp!SelectInSeq, Cpp!SelectLastInSeq, Cpp!Min, Cpp!Max, Min, Max, Begin, Trim, FirstOf, LastOf
<1>3. ASSUME NEW bytes \in Chain PROVE Cpp!sanitizeBanner(bytes) = Banner(bytes)
  <2> DEFINE all == IF Other(bytes, Blanks) = 0 THEN << >>
                    ELSE Cpp!FoldLeft(CppPush, CppFirst, SubSeq(bytes, Other(bytes, Blanks), Len(bytes))).out
  <2>1. all = Shown(Rest(bytes))
    <3>1. CASE Begin(bytes) = 0
      <4>1. all = << >>
        BY <1>2, <3>1
      <4>2. Shown(Rest(bytes)) \in Seq(Piece) /\ Len(Shown(Rest(bytes))) = 0
        <5>1. Rest(bytes) \in Chain /\ Len(Rest(bytes)) = 0
          BY <3>1, RestOfBytes
        <5> QED
          <6>1. Shown(Rest(bytes)) \in Chain /\ Len(Shown(Rest(bytes))) = Width(Rest(bytes))
            BY <5>1, ShownOfRest
          <6>2. Width(Rest(bytes)) \in Nat /\ Width(Rest(bytes)) <= Len(Rest(bytes))
            BY <5>1, WidthOfRest
          <6> QED
            BY <5>1, <6>1, <6>2 DEF Chain
      <4> QED
        BY <4>1, <4>2
    <3>2. CASE Begin(bytes) # 0
      <4>1. all = Cpp!FoldLeft(CppPush, CppFirst, Rest(bytes)).out
        BY <1>2, <3>2 DEF Rest
      <4>2. Rest(bytes) \in Chain
        BY RestOfBytes
      <4> QED
        BY <4>1, <4>2, CppShows
    <3> QED
      BY <3>1, <3>2
  <2>2. Cpp!sanitizeBanner(bytes) = Tidy(all)
    BY <1>1
  <2> HIDE DEF Tidy, Other, all
  <2>3. Tidy(all) = Trim(all)
    BY <1>2
  <2> QED
    BY <2>1, <2>2, <2>3 DEF Banner
<1> QED
  BY <1>3, BannerIsClean

(* The loop of the C# program; it is done from the start if there is no    *)
(* line to show.                                                           *)
CsStates == [text : Chain, done : BOOLEAN]
CsFirst(done) == [text |-> << >>, done |-> done]
CsAdd(builder, value) ==
    IF builder.done THEN builder
    ELSE IF value \in LineEnds \/ Len(builder.text) >= BannerMax THEN [builder EXCEPT !.done = TRUE]
    ELSE [builder EXCEPT !.text = Append(@, Dot(value))]
CsStep == [pair \in CsStates \X Piece |-> CsAdd(pair[1], pair[2])]

LEMMA CsStepType == IsStep(CsStates, Piece, CsStep) /\ \A done \in BOOLEAN : CsFirst(done) \in CsStates
<1>1. \A done \in BOOLEAN : CsFirst(done) \in CsStates
  BY Concatenation DEF CsFirst, CsStates
<1>2. ASSUME NEW builder \in CsStates, NEW value \in Piece PROVE CsAdd(builder, value) \in CsStates
  <2>1. Append(builder.text, Dot(value)) \in Chain
    <3>1. builder.text \in Seq(Piece) /\ Dot(value) \in Piece
      BY DotIsPiece DEF CsStates, Chain
    <3> QED
      BY <3>1 DEF Chain
  <2>2. CASE builder.done
    BY <2>2 DEF CsAdd
  <2>3. CASE ~builder.done /\ (value \in LineEnds \/ Len(builder.text) >= BannerMax)
    BY <2>3 DEF CsAdd, CsStates
  <2>4. CASE ~builder.done /\ ~(value \in LineEnds \/ Len(builder.text) >= BannerMax)
    BY <2>1, <2>4 DEF CsAdd, CsStates
  <2> QED
    BY <2>2, <2>3, <2>4
<1>3. IsStep(CsStates, Piece, CsStep)
  BY <1>2 DEF IsStep, CsStep
<1> QED
  BY <1>1, <1>3

LEMMA CsAdds ==
    ASSUME NEW rest \in Chain, NEW done \in BOOLEAN
    PROVE  Cs!FoldLeft(CsAdd, CsFirst(done), rest) = Fold(CsStates, CsStep, CsFirst(done), rest)
<1> DEFINE Body(it) == [s \in SUBSET DOMAIN rest |->
                          IF s = {} THEN CsFirst(done) ELSE CsAdd(it[s \ {Max(s)}], rest[Max(s)])]
           iter == CHOOSE it : it = Body(it)
<1>1. Cs!FoldLeft(CsAdd, CsFirst(done), rest) = iter[DOMAIN rest]
  BY DEF Cs!FoldLeft, Cs!MapThenFoldSet, Cs!Max, Max
<1>2. rest \in Seq(Piece) /\ DOMAIN rest = 1 .. Len(rest) /\ IsStep(CsStates, Piece, CsStep) /\ CsFirst(done) \in CsStates
  BY CsStepType DEF Chain
<1>3. \A x \in CsStates, v \in Piece : CsStep[<<x, v>>] = CsAdd(x, v)
  BY DEF CsStep
<1>4. \E it : it = Body(it)
  <2>1. PICK it : Recurs(CsStates, Piece, CsStep, CsFirst(done), rest, it)
    BY <1>2, IterExists
  <2>2. it = Body(it)
    BY <1>2, <1>3, <2>1 DEF Recurs
  <2> QED
    BY <2>2
<1>5. iter = Body(iter)
  <2> HIDE DEF Body
  <2> QED
    BY <1>4
<1> HIDE DEF iter, Body
<1>6. iter[{}] = CsFirst(done)
  BY <1>5 DEF Body
<1>7. ASSUME NEW s \in SUBSET (1 .. Len(rest)), s # {}, iter[s \ {Max(s)}] \in CsStates
      PROVE  iter[s] = CsStep[<<iter[s \ {Max(s)}], rest[Max(s)]>>]
  <2>1. rest[Max(s)] \in Piece
    <3>1. Len(rest) \in Nat
      BY <1>2
    <3>2. Max(s) \in s /\ s \subseteq 1 .. Len(rest)
      BY <1>7, <3>1, LastPosition
    <3>3. Max(s) \in 1 .. Len(rest)
      BY <3>2
    <3> HIDE DEF Body
    <3> QED
      BY <1>2, <3>3
  <2>2. iter[s] = CsAdd(iter[s \ {Max(s)}], rest[Max(s)])
    BY <1>2, <1>5, <1>7 DEF Body
  <2> QED
    BY <1>3, <1>7, <2>1, <2>2
<1>8. iter[1 .. Len(rest)] = Fold(CsStates, CsStep, CsFirst(done), rest)
  <2>1. Follows(CsStates, CsStep, CsFirst(done), rest, iter)
    BY <1>6, <1>7 DEF Follows
  <2> QED
    BY <1>2, <2>1, FoldOfIter
<1> QED
  BY <1>1, <1>2, <1>8

LEMMA CsShows ==
    ASSUME NEW rest \in Chain
    PROVE  Cs!FoldLeft(CsAdd, CsFirst(FALSE), rest).text = Shown(rest)
<1>1. Len(rest) \in Nat /\ Width(rest) \in Nat /\ Width(rest) <= Len(rest) /\ Width(rest) <= BannerMax /\ BannerMax \in Nat
  BY WidthOfRest, BannerMaxAssumption DEF Chain
<1>2. Shown(rest) \in Chain /\ Len(Shown(rest)) = Width(rest)
  BY ShownOfRest
<1>3. PICK f : IsRun(CsStates, CsStep, CsFirst(FALSE), rest, f)
  BY CsStepType, RunOfSeq DEF Chain
<1> DEFINE w == Width(rest)
           Right(m) == /\ Len(f[m].text) = IF m < w THEN m ELSE w
                       /\ \A k \in 1 .. Len(f[m].text) : f[m].text[k] = Shown(rest)[k]
                       /\ m <= w => ~f[m].done
                       /\ m > w => f[m].done \/ w = BannerMax
           Good == {m \in Nat : m <= Len(rest) => Right(m)}
<1>4. 0 \in Good
  <2>1. f[0] = CsFirst(FALSE)
    BY <1>3 DEF IsRun
  <2>2. f[0].text = << >> /\ ~f[0].done
    BY <2>1 DEF CsFirst
  <2> QED
    BY <1>1, <2>2
<1>5. ASSUME NEW m \in Nat, m \in Good PROVE m + 1 \in Good
  <2> SUFFICES ASSUME m + 1 <= Len(rest) PROVE Right(m + 1)
    OBVIOUS
  <2>1. m + 1 \in 1 .. Len(rest) /\ m \in 0 .. Len(rest) /\ (m + 1) - 1 = m /\ Right(m)
    BY <1>1, <1>5
  <2> DEFINE acc == f[m]
             value == rest[m + 1]
  <2>2. acc \in CsStates /\ value \in Piece
    BY <1>3, <2>1 DEF IsRun, Chain
  <2>3. acc.text \in Seq(Piece) /\ acc.done \in BOOLEAN
    BY <2>2 DEF CsStates, Chain
  <2>4. f[m + 1] = CsAdd(acc, value)
    <3>1. f[m + 1] = CsStep[<<acc, value>>]
      BY <1>3, <2>1 DEF IsRun
    <3> QED
      BY <2>2, <3>1 DEF CsStep
  <2>5. CASE m < w
    <3>1. ~acc.done /\ Len(acc.text) = m /\ m # BannerMax /\ m < BannerMax
      BY <1>1, <2>1, <2>5
    <3>2. m + 1 \in 1 .. Width(rest)
      BY <1>1, <2>5
    <3>3. value \notin LineEnds /\ Shown(rest)[m + 1] = Dot(value)
      BY <3>2, WidthOfRest DEF Shown
    <3>4. f[m + 1] = [acc EXCEPT !.text = Append(@, Dot(value))]
      BY <1>1, <2>4, <3>1, <3>3 DEF CsAdd
    <3>5. f[m + 1].text = Append(acc.text, Dot(value)) /\ f[m + 1].done = acc.done
      BY <2>2, <3>4 DEF CsStates
    <3>6. /\ Len(f[m + 1].text) = m + 1 /\ f[m + 1].text[m + 1] = Dot(value)
          /\ \A k \in 1 .. m : f[m + 1].text[k] = acc.text[k]
      BY <2>3, <3>1, <3>5, DotIsPiece
    <3>7. \A k \in 1 .. m + 1 : k \in 1 .. m \/ k = m + 1
      OBVIOUS
    <3>8. \A k \in 1 .. m + 1 : f[m + 1].text[k] = Shown(rest)[k]
      <4> HIDE DEF acc, value
      <4> QED
        BY <2>1, <3>1, <3>3, <3>6, <3>7 DEF acc
    <3> QED
      BY <1>1, <2>5, <3>1, <3>5, <3>6, <3>8
  <2>6. CASE ~(m < w)
    <3>1. Len(acc.text) = w /\ m >= w /\ m + 1 > w
      BY <1>1, <2>1, <2>6
    <3>2. f[m + 1].text = acc.text /\ (f[m + 1].done \/ w = BannerMax)
      <4>1. CASE m > w
        <5>1. f[m + 1] = acc \/ f[m + 1] = [acc EXCEPT !.done = TRUE]
          BY <1>1, <2>1, <2>4, <3>1, <4>1 DEF CsAdd
        <5> QED
          BY <2>1, <2>2, <4>1, <5>1 DEF CsStates
      <4>2. CASE m = w
        <5>1. w = BannerMax \/ value \in LineEnds
          BY <1>1, <2>1, <4>2, WidthOfRest
        <5> QED
          <6>1. f[m + 1] = [acc EXCEPT !.done = TRUE]
            BY <1>1, <2>1, <2>4, <3>1, <4>2, <5>1 DEF CsAdd
          <6> QED
            BY <2>2, <6>1 DEF CsStates
      <4> QED
        BY <1>1, <3>1, <4>1, <4>2
    <3> QED
      BY <1>1, <2>1, <3>1, <3>2
  <2> QED
    BY <2>5, <2>6
<1> HIDE DEF Good
<1>6. Right(Len(rest))
  <2>1. Len(rest) \in Good
    BY <1>1, <1>4, <1>5, Induction
  <2> HIDE DEF Right
  <2> QED
    BY <1>1, <2>1 DEF Good
<1>7. f[Len(rest)].text = Shown(rest)
  <2>1. f[Len(rest)].text \in Seq(Piece)
    <3>1. Len(rest) \in 0 .. Len(rest)
      BY <1>1
    <3> QED
      BY <1>3, <3>1 DEF IsRun, CsStates, Chain
  <2>2. Len(f[Len(rest)].text) = Len(Shown(rest)) /\ Shown(rest) \in Seq(Piece)
    BY <1>1, <1>2, <1>6 DEF Chain
  <2> QED
    BY <1>6, <2>1, <2>2
<1>8. Fold(CsStates, CsStep, CsFirst(FALSE), rest) = f[Len(rest)]
  BY <1>1, <1>3, FoldOfRun
<1> QED
  BY <1>7, <1>8, CsAdds

LEMMA CsShowsNothing ==
    ASSUME NEW rest \in Chain
    PROVE  Cs!FoldLeft(CsAdd, CsFirst(TRUE), rest).text = << >>
<1>1. Len(rest) \in Nat
  BY DEF Chain
<1> DEFINE nothing == CsFirst(TRUE)
<1>2. nothing \in CsStates /\ nothing.done /\ nothing.text = << >>
  BY CsStepType DEF CsFirst
<1>3. IsStep(CsStates, Piece, CsStep)
  BY CsStepType
<1> HIDE DEF nothing
<1>4. PICK f : IsRun(CsStates, CsStep, nothing, rest, f)
  BY <1>2, <1>3, RunOfSeq DEF Chain
<1> DEFINE Good == {m \in Nat : m <= Len(rest) => f[m] = nothing}
<1>5. 0 \in Good
  BY <1>4 DEF IsRun
<1>6. ASSUME NEW m \in Nat, m \in Good PROVE m + 1 \in Good
  <2>1. ASSUME m + 1 <= Len(rest) PROVE f[m + 1] = nothing
    <3>1. m + 1 \in 1 .. Len(rest) /\ (m + 1) - 1 = m
      BY <1>1, <2>1
    <3>2. f[m] = nothing
      BY <1>1, <1>6, <2>1
    <3>3. rest[m + 1] \in Piece
      BY <3>1 DEF Chain
    <3>4. f[m + 1] = CsStep[<<nothing, rest[m + 1]>>]
      BY <1>4, <3>1, <3>2 DEF IsRun
    <3>5. f[m + 1] = CsAdd(nothing, rest[m + 1])
      BY <1>2, <3>3, <3>4 DEF CsStep
    <3> QED
      BY <1>2, <3>5 DEF CsAdd
  <2> QED
    BY <2>1
<1> HIDE DEF Good
<1>7. Len(rest) \in Good
  BY <1>1, <1>5, <1>6, Induction
<1>8. f[Len(rest)] = nothing
  BY <1>1, <1>7 DEF Good
<1>9. Fold(CsStates, CsStep, nothing, rest) = f[Len(rest)]
  BY <1>1, <1>4, FoldOfRun
<1>10. Fold(CsStates, CsStep, CsFirst(TRUE), rest).text = << >>
  BY <1>2, <1>8, <1>9 DEF nothing
<1> QED
  BY <1>10, CsAdds

LEMMA CsBanner == \A bytes \in Chain : Cs!SanitizeBanner(bytes) = CleanBanner(bytes)
<1> DEFINE Other(seq, values) == Cs!SelectInSeq(seq, LAMBDA value : value \notin values)
           Kept(seq) == Cs!SelectLastInSeq(seq, LAMBDA value : value # Space)
           Tidy(out) == SubSeq(out, 1, Kept(out))
           All(bytes, start) ==
                Cs!FoldLeft(CsAdd, CsFirst(start = 0), SubSeq(bytes, IF start = 0 THEN 1 ELSE start, Len(bytes))).text
<1>1. ASSUME NEW bytes PROVE Cs!SanitizeBanner(bytes) = Tidy(All(bytes, Other(bytes, Blanks)))
  BY Zenon DEF Cs!SanitizeBanner, Cs!Printable, Printable, CsAdd, CsFirst, Dot, Blanks, LineEnds, Space
<1>2. ASSUME NEW seq PROVE Other(seq, Blanks) = Begin(seq) /\ Tidy(seq) = Trim(seq)
  BY DEF Cs!SelectInSeq, Cs!SelectLastInSeq, Cs!Min, Cs!Max, Min, Max, Begin, Trim, FirstOf, LastOf
<1>3. ASSUME NEW bytes \in Chain PROVE Cs!SanitizeBanner(bytes) = Banner(bytes)
  <2> DEFINE all == All(bytes, Begin(bytes))
  <2>1. all = Shown(Rest(bytes))
    <3>1. CASE Begin(bytes) = 0
      <4>1. all = << >>
        <5>1. SubSeq(bytes, 1, Len(bytes)) = bytes
          BY DEF Chain
        <5>2. all = Cs!FoldLeft(CsAdd, CsFirst(TRUE), bytes).text
          BY <3>1, <5>1
        <5> QED
          BY <5>2, CsShowsNothing
      <4>2. Shown(Rest(bytes)) \in Seq(Piece) /\ Len(Shown(Rest(bytes))) = 0
        <5>1. Rest(bytes) \in Chain /\ Len(Rest(bytes)) = 0
          BY <3>1, RestOfBytes
        <5>2. Shown(Rest(bytes)) \in Chain /\ Len(Shown(Rest(bytes))) = Width(Rest(bytes))
          BY <5>1, ShownOfRest
        <5>3. Width(Rest(bytes)) \in Nat /\ Width(Rest(bytes)) <= Len(Rest(bytes))
          BY <5>1, WidthOfRest
        <5> QED
          BY <5>1, <5>2, <5>3 DEF Chain
      <4> QED
        BY <4>1, <4>2
    <3>2. CASE Begin(bytes) # 0
      <4>1. all = Cs!FoldLeft(CsAdd, CsFirst(FALSE), Rest(bytes)).text
        <5>1. (Begin(bytes) = 0) = FALSE
          BY <3>2
        <5> QED
          BY <3>2, <5>1 DEF Rest
      <4>2. Rest(bytes) \in Chain
        BY RestOfBytes
      <4> QED
        BY <4>1, <4>2, CsShows
    <3> QED
      BY <3>1, <3>2
  <2>2. Cs!SanitizeBanner(bytes) = Tidy(all)
    BY <1>1, <1>2
  <2> HIDE DEF Tidy, Other, all
  <2>3. Tidy(all) = Trim(all)
    BY <1>2
  <2> QED
    BY <2>1, <2>2, <2>3 DEF Banner
<1> QED
  BY <1>3, BannerIsClean

(* Whatever a service sends, the four programs make the same banner of it: *)
(* its first line without blanks around it, at most BannerMax characters,  *)
(* a dot for what cannot be shown.                                         *)
THEOREM BannersAreClean ==
    \A bytes \in Chain : /\ C!scan_sanitize_banner(bytes) = CleanBanner(bytes)
                         /\ Cpp!sanitizeBanner(bytes) = CleanBanner(bytes)
                         /\ Rust!sanitize_banner(bytes) = CleanBanner(bytes)
                         /\ Cs!SanitizeBanner(bytes) = CleanBanner(bytes)
BY CBanner, CppBanner, RustBanner, CsBanner

-----------------------------------------------------------------------------
(* The elements of a set in increasing order: there is such a sequence,    *)
(* and only one.                                                           *)

Increasing(s) == \A i, j \in DOMAIN s : i < j => s[i] < s[j]

LEMMA AscendingExists ==
    ASSUME NEW n \in Nat, NEW S \in SUBSET (1 .. n)
    PROVE  /\ Cardinality(S) \in 0 .. n
           /\ Ascending(S) \in [1 .. Cardinality(S) -> S] /\ Increasing(Ascending(S))
<1> DEFINE Listed(T) == \E s \in [1 .. Cardinality(T) -> T] : Increasing(s)
           Good == {m \in Nat : \A T \in SUBSET (1 .. m) : Listed(T)}
<1>1. ASSUME NEW m \in Nat, NEW T \in SUBSET (1 .. m) PROVE IsFiniteSet(T) /\ Cardinality(T) \in 0 .. m
  <2>1. IsFiniteSet(1 .. m) /\ Cardinality(1 .. m) = m
    BY FS_Interval
  <2>2. IsFiniteSet(T) /\ Cardinality(T) <= m
    BY <2>1, FS_Subset
  <2>3. Cardinality(T) \in Nat
    BY <2>2, FS_CardinalityType
  <2> QED
    BY <2>2, <2>3
<1>2. 0 \in Good
  <2>1. ASSUME NEW T \in SUBSET (1 .. 0) PROVE Listed(T)
    <3>1. T = {} /\ Cardinality({}) = 0
      BY FS_EmptySet
    <3>2. Cardinality(T) = 0
      BY <3>1
    <3> DEFINE s == [k \in 1 .. 0 |-> 0]
    <3>3. s \in [1 .. Cardinality(T) -> T] /\ Increasing(s)
      BY <3>2 DEF Increasing
    <3> QED
      BY <3>3
  <2> QED
    BY <2>1
<1>3. ASSUME NEW m \in Nat, m \in Good PROVE m + 1 \in Good
  <2>1. ASSUME NEW T \in SUBSET (1 .. m + 1) PROVE Listed(T)
    <3>1. CASE m + 1 \notin T
      <4>1. T \in SUBSET (1 .. m)
        BY <3>1
      <4> QED
        BY <1>3, <4>1
    <3>2. CASE m + 1 \in T
      <4> DEFINE R == T \ {m + 1}
                 size == Cardinality(R)
      <4>1. R \in SUBSET (1 .. m) /\ \A x \in R : x \in 1 .. m
        OBVIOUS
      <4>2. IsFiniteSet(R) /\ size \in Nat
        BY <1>1, <4>1
      <4>3. R \cup {m + 1} = T /\ m + 1 \notin R
        BY <3>2
      <4> HIDE DEF R
      <4>4. Cardinality(T) = size + 1
        BY <4>2, <4>3, FS_AddElement
      <4> HIDE DEF size
      <4>5. PICK s \in [1 .. size -> R] : Increasing(s)
        BY <1>3, <4>1 DEF size
      <4> DEFINE t == [k \in 1 .. size + 1 |-> IF k = size + 1 THEN m + 1 ELSE s[k]]
      <4>6. \A k \in 1 .. size : s[k] \in R /\ s[k] < m + 1 /\ t[k] = s[k]
        <5>1. \A x \in R : x < m + 1
          BY <4>1
        <5>2. \A k \in 1 .. size : k \in 1 .. size + 1 /\ k # size + 1
          BY <4>2
        <5>3. \A k \in 1 .. size : s[k] \in R
          OBVIOUS
        <5>4. \A k \in 1 .. size : t[k] = s[k]
          BY <5>2
        <5> HIDE DEF t
        <5> QED
          BY <5>1, <5>3, <5>4
      <4>7. t \in [1 .. size + 1 -> T] /\ t[size + 1] = m + 1
        BY <3>2, <4>2, <4>3
      <4>8. ASSUME NEW i \in 1 .. size + 1, NEW j \in 1 .. size + 1, i < j PROVE t[i] < t[j]
        <5>1. i \in 1 .. size /\ t[i] = s[i] /\ s[i] < m + 1
          <6>1. i \in 1 .. size
            BY <4>2, <4>8
          <6> HIDE DEF t
          <6> QED
            BY <4>6, <6>1
        <5>2. CASE j = size + 1
          BY <4>7, <5>1, <5>2
        <5>3. CASE j # size + 1
          <6>1. j \in 1 .. size /\ t[j] = s[j]
            BY <4>2, <4>6, <5>3
          <6>2. s[i] < s[j]
            BY <4>5, <4>8, <5>1, <6>1 DEF Increasing
          <6> QED
            BY <5>1, <6>1, <6>2
        <5> QED
          BY <5>2, <5>3
      <4>9. DOMAIN t = 1 .. size + 1
        OBVIOUS
      <4> HIDE DEF t
      <4>10. Increasing(t)
        BY <4>8, <4>9 DEF Increasing
      <4> QED
        BY <4>4, <4>7, <4>10
    <3> QED
      BY <3>1, <3>2
  <2> HIDE DEF Listed
  <2> QED
    BY <2>1
<1>4. Listed(S)
  <2> HIDE DEF Listed
  <2>1. n \in Good
    <3> HIDE DEF Good
    <3> QED
      BY <1>2, <1>3, Induction
  <2> QED
    BY <2>1
<1> QED
  BY <1>1, <1>4 DEF Ascending, Increasing

(* An increasing map of 1 .. n to itself moves nothing.                    *)
LEMMA IncreasingStays ==
    ASSUME NEW n \in Nat, NEW h \in [1 .. n -> 1 .. n], Increasing(h)
    PROVE  \A k \in 1 .. n : h[k] = k
<1> DEFINE Up == {m \in Nat : m \in 1 .. n => h[m] >= m}
           Down == {m \in Nat : m < n => h[n - m] <= n - m}
<1>1. Nat \subseteq Up
  <2>1. 0 \in Up
    OBVIOUS
  <2>2. ASSUME NEW m \in Nat, m \in Up PROVE m + 1 \in Up
    <3>1. ASSUME m + 1 \in 1 .. n PROVE h[m + 1] >= m + 1
      <4>1. h[m + 1] \in 1 .. n
        BY <3>1
      <4>2. CASE m = 0
        BY <4>1, <4>2
      <4>3. CASE m # 0
        <5>1. m \in 1 .. n
          BY <3>1, <4>3
        <5>2. h[m] >= m /\ h[m] < h[m + 1] /\ h[m] \in 1 .. n
          BY <2>2, <3>1, <5>1 DEF Increasing
        <5> QED
          BY <4>1, <5>2
      <4> QED
        BY <4>2, <4>3
    <3> QED
      BY <3>1
  <2> HIDE DEF Up
  <2> QED
    BY <2>1, <2>2, Induction
<1>2. Nat \subseteq Down
  <2>1. 0 \in Down
    OBVIOUS
  <2>2. ASSUME NEW m \in Nat, m \in Down PROVE m + 1 \in Down
    <3>1. ASSUME m + 1 < n PROVE h[n - (m + 1)] <= n - (m + 1)
      <4>1. n - m \in 1 .. n /\ n - (m + 1) \in 1 .. n /\ n - (m + 1) < n - m /\ m < n
        BY <3>1
      <4>2. h[n - m] <= n - m
        BY <2>2, <4>1
      <4>3. h[n - (m + 1)] < h[n - m]
        BY <4>1 DEF Increasing
      <4>4. h[n - m] \in 1 .. n /\ h[n - (m + 1)] \in 1 .. n
        BY <4>1
      <4> QED
        BY <4>1, <4>2, <4>3, <4>4
    <3> QED
      BY <3>1
  <2> HIDE DEF Down
  <2> QED
    BY <2>1, <2>2, Induction
<1>3. ASSUME NEW k \in 1 .. n PROVE h[k] = k
  <2>1. k \in Nat /\ n - k \in Nat /\ n - k < n /\ n - (n - k) = k
    OBVIOUS
  <2>2. h[k] >= k
    BY <1>1, <2>1
  <2>3. h[k] <= k
    <3> DEFINE m == n - k
    <3>1. m \in Nat /\ m < n /\ n - m = k
      BY <2>1
    <3> HIDE DEF m
    <3>2. m \in Down
      BY <1>2, <3>1
    <3> QED
      BY <3>1, <3>2
  <2>4. h[k] \in 1 .. n
    OBVIOUS
  <2> QED
    BY <2>2, <2>3, <2>4
<1> QED
  BY <1>3

LEMMA AscendingIs ==
    ASSUME NEW n \in Nat, NEW g \in [1 .. n -> Nat], Increasing(g)
    PROVE  Ascending({g[k] : k \in 1 .. n}) = g
<1> DEFINE S == {g[k] : k \in 1 .. n}
<1>1. \A i, j \in 1 .. n : (i < j => g[i] < g[j]) /\ g[i] \in Nat
  BY DEF Increasing
<1>2. IsFiniteSet(1 .. n) /\ Cardinality(1 .. n) = n
  BY FS_Interval
<1>3. Cardinality(S) = n
  <2>1. g \in Bijection(1 .. n, S)
    BY <1>1 DEF Bijection, Injection, Surjection, IsInjective
  <2> DEFINE I == 1 .. n
  <2>2. IsFiniteSet(I) /\ Cardinality(I) = n /\ g \in Bijection(I, S)
    BY <1>2, <2>1
  <2> HIDE DEF S, I
  <2> QED
    BY <2>2, FS_Bijection DEF ExistsBijection
<1>4. g \in [1 .. Cardinality(S) -> S]
  BY <1>3
<1>5. ASSUME NEW s \in [1 .. n -> S], Increasing(s) PROVE s = g
  <2>1. \A k \in 1 .. n : \E j \in 1 .. n : s[k] = g[j]
    OBVIOUS
  <2> DEFINE h == [k \in 1 .. n |-> CHOOSE j \in 1 .. n : s[k] = g[j]]
  <2>2. h \in [1 .. n -> 1 .. n] /\ \A k \in 1 .. n : s[k] = g[h[k]]
    BY <2>1
  <2>3. DOMAIN s = 1 .. n /\ DOMAIN h = 1 .. n
    OBVIOUS
  <2> HIDE DEF h, S
  <2>4. ASSUME NEW i \in 1 .. n, NEW j \in 1 .. n, i < j PROVE h[i] < h[j]
    <3>1. h[i] \in 1 .. n /\ h[j] \in 1 .. n /\ g[h[i]] < g[h[j]] /\ g[h[i]] \in Nat /\ g[h[j]] \in Nat
      BY <1>1, <2>2, <2>3, <2>4, <1>5 DEF Increasing
    <3>2. ~(h[j] < h[i]) /\ h[i] # h[j]
      BY <1>1, <3>1
    <3> QED
      BY <3>1, <3>2
  <2>5. Increasing(h)
    BY <2>3, <2>4 DEF Increasing
  <2>6. \A k \in 1 .. n : h[k] = k
    BY <2>2, <2>5, IncreasingStays
  <2>7. \A k \in 1 .. n : s[k] = g[k]
    BY <2>2, <2>6
  <2> QED
    BY <2>7
<1>6. Ascending(S) \in [1 .. n -> S] /\ Increasing(Ascending(S))
  <2> HIDE DEF S
  <2> QED
    BY <1>3, <1>4 DEF Ascending, Increasing
<1> QED
  BY <1>5, <1>6

-----------------------------------------------------------------------------
(* The tables of texts, numbers and findings are the same in every module. *)

LEMMA SameReportTables ==
    /\ \A text : C!Chars(text) = Chars(text) /\ Cpp!Chars(text) = Chars(text)
                 /\ Rust!Chars(text) = Chars(text) /\ Cs!Chars(text) = Chars(text)
    /\ \A findings, port : /\ C!Finding(findings, port) = Finding(findings, port)
                           /\ Cpp!Finding(findings, port) = Finding(findings, port)
                           /\ Rust!Finding(findings, port) = Finding(findings, port)
                           /\ Cs!Finding(findings, port) = Finding(findings, port)
    /\ \A n : C!ToString(n) = ToString(n) /\ Cpp!ToString(n) = ToString(n)
              /\ Rust!ToString(n) = ToString(n) /\ Cs!ToString(n) = ToString(n)
<1>1. \A text : C!Chars(text) = Chars(text) /\ Cpp!Chars(text) = Chars(text)
                 /\ Rust!Chars(text) = Chars(text) /\ Cs!Chars(text) = Chars(text)
  BY DEF C!Chars, Cpp!Chars, Rust!Chars, Cs!Chars, Chars
<1>2. \A findings, port : /\ C!Finding(findings, port) = Finding(findings, port)
                           /\ Cpp!Finding(findings, port) = Finding(findings, port)
                           /\ Rust!Finding(findings, port) = Finding(findings, port)
                           /\ Cs!Finding(findings, port) = Finding(findings, port)
  BY DEF C!Finding, Cpp!Finding, Rust!Finding, Cs!Finding, Finding
<1>3. \A n : C!ToString(n) = ToString(n) /\ Cpp!ToString(n) = ToString(n)
              /\ Rust!ToString(n) = ToString(n) /\ Cs!ToString(n) = ToString(n)
  BY DEF C!ToString, Cpp!ToString, Rust!ToString, Cs!ToString, ToString
<1> QED
  BY <1>1, <1>2, <1>3

LEMMA SameCounts ==
    /\ \A results, state : C!Count(results, state) = Count(results, state) /\ Cpp!Count(results, state) = Count(results, state)
                           /\ Rust!Count(results, state) = Count(results, state) /\ Cs!Count(results, state) = Count(results, state)
    /\ \A results : C!Total(results) = Total(results) /\ Cpp!Total(results) = Total(results)
                    /\ Rust!Total(results) = Total(results) /\ Cs!Total(results) = Total(results)
    /\ \A results : C!OpenPorts(results) = OpenPorts(results) /\ Cpp!OpenPorts(results) = OpenPorts(results)
                    /\ Rust!OpenPorts(results) = OpenPorts(results) /\ Cs!OpenPorts(results) = OpenPorts(results)
<1>1. \A S : C!Cardinality(S) = Cardinality(S) /\ Cpp!Cardinality(S) = Cardinality(S)
             /\ Rust!Cardinality(S) = Cardinality(S) /\ Cs!Cardinality(S) = Cardinality(S)
  BY DEF C!Cardinality, Cpp!Cardinality, Rust!Cardinality, Cs!Cardinality, Cardinality
<1>2. \A S : C!Ascending(S) = Ascending(S) /\ Cpp!Ascending(S) = Ascending(S)
             /\ Rust!Ascending(S) = Ascending(S) /\ Cs!Ascending(S) = Ascending(S)
  BY <1>1 DEF C!Ascending, Cpp!Ascending, Rust!Ascending, Cs!Ascending, Ascending
<1>3. \A results, state : C!Count(results, state) = Count(results, state) /\ Cpp!Count(results, state) = Count(results, state)
                           /\ Rust!Count(results, state) = Count(results, state) /\ Cs!Count(results, state) = Count(results, state)
  BY <1>1, SameReportTables DEF C!Count, Cpp!Count, Rust!Count, Cs!Count, Count
<1>4. \A results : C!Total(results) = Total(results) /\ Cpp!Total(results) = Total(results)
                    /\ Rust!Total(results) = Total(results) /\ Cs!Total(results) = Total(results)
  BY <1>1, SameReportTables DEF C!Total, Cpp!Total, Rust!Total, Cs!Total, Total
<1>5. \A results : C!OpenPorts(results) = OpenPorts(results) /\ Cpp!OpenPorts(results) = OpenPorts(results)
                    /\ Rust!OpenPorts(results) = OpenPorts(results) /\ Cs!OpenPorts(results) = OpenPorts(results)
  BY <1>2 DEF C!OpenPorts, Cpp!OpenPorts, Rust!OpenPorts, Cs!OpenPorts, OpenPorts
<1> QED
  BY <1>3, <1>4, <1>5

LEMMA SameFlatten ==
    \A chains : /\ C!FlattenSeq(chains) = FlattenSeq(chains)
                /\ Rust!FlattenSeq(chains) = FlattenSeq(chains) /\ Cs!FlattenSeq(chains) = FlattenSeq(chains)
BY DEF C!FlattenSeq, Rust!FlattenSeq, Cs!FlattenSeq, FlattenSeq

-----------------------------------------------------------------------------
(* Pieces, and what is to be reported.                                     *)

LEMMA Pieces ==
    /\ Marks \subseteq Piece /\ Characters \subseteq Piece /\ Printable \subseteq Piece /\ Text \subseteq Piece
    /\ \A n \in Nat : ToString(n) \in Piece
<1>1. Marks \subseteq Piece /\ Characters \subseteq Piece /\ Text \subseteq Piece /\ \A n \in Nat : ToString(n) \in Piece
  BY Zenon DEF Piece
<1>2. Printable \subseteq Characters
  BY Zenon DEF Printable, Characters, Space
<1> QED
  BY <1>1, <1>2

LEMMA CharsArePieces == \A text \in Text : Chars(text) \in Chain
<1>1. "a" \in Piece /\ "\"" \in Piece /\ "\\" \in Piece /\ "ctl" \in Piece /\ "wide" \in Piece
  <2>1. "a" \in Characters /\ "\"" \in Characters /\ "\\" \in Characters /\ "ctl" \in Characters /\ "wide" \in Characters
    BY Zenon DEF Characters
  <2> QED
    BY Zenon, <2>1, Pieces
<1>2. \A v, w, x, y \in Piece : <<v, w, x, y>> \in Chain /\ <<v, w>> \in Chain /\ <<v>> \in Chain
  BY DEF Chain
<1>3. ASSUME NEW text \in Text PROVE Chars(text) \in Chain
  <2>1. text \in Piece
    BY Pieces
  <2>2. Chars(text) \in {<<"a", "\"", "\\", "ctl">>, <<"a", "wide">>, <<text>>}
    BY Zenon DEF Chars
  <2> QED
    BY Zenon, <1>1, <1>2, <2>1, <2>2
<1> QED
  BY <1>3

(* Findings as a report takes them: of valid ports, with clean banners.    *)
IsReported(results) ==
    /\ DOMAIN results \in SUBSET (1 .. HighestPort)
    /\ \A port \in DOMAIN results : results[port].banner \in Seq(Printable)

LEMMA BannerIsChain == Seq(Printable) \subseteq Chain
BY Pieces DEF Chain

LEMMA OpenPortsType ==
    ASSUME NEW results, IsReported(results)
    PROVE  /\ OpenPorts(results) \in Seq(DOMAIN results) /\ Len(OpenPorts(results)) \in Nat
           /\ DOMAIN OpenPorts(results) = 1 .. Len(OpenPorts(results))
           /\ \A k \in 1 .. Len(OpenPorts(results)) :
                OpenPorts(results)[k] \in DOMAIN results /\ OpenPorts(results)[k] \in Nat
<1> DEFINE open == {p \in DOMAIN results : results[p].state = "open"}
<1>1. HighestPort \in Nat
  BY DEF HighestPort
<1>2. open \in SUBSET (1 .. HighestPort) /\ open \subseteq DOMAIN results /\ OpenPorts(results) = Ascending(open)
  BY DEF IsReported, OpenPorts
<1> HIDE DEF open
<1>3. Cardinality(open) \in Nat /\ Ascending(open) \in [1 .. Cardinality(open) -> open]
  <2> DEFINE n == HighestPort
  <2>1. n \in Nat /\ open \in SUBSET (1 .. n)
    BY <1>1, <1>2
  <2> HIDE DEF n
  <2>2. Cardinality(open) \in 0 .. n /\ Ascending(open) \in [1 .. Cardinality(open) -> open]
    BY <2>1, AscendingExists
  <2> QED
    BY <2>1, <2>2
<1>4. /\ Ascending(open) \in Seq(open) /\ Len(Ascending(open)) = Cardinality(open)
      /\ DOMAIN Ascending(open) = 1 .. Cardinality(open)
  BY <1>3
<1>5. \A p \in open : p \in DOMAIN results /\ p \in Nat
  BY <1>1, <1>2
<1> DEFINE list == OpenPorts(results)
           size == Cardinality(open)
<1>6. list \in Seq(open) /\ Len(list) = size /\ DOMAIN list = 1 .. size /\ size \in Nat
  BY <1>2, <1>3, <1>4
<1> HIDE DEF list, size
<1>7. list \in Seq(DOMAIN results)
  <2> DEFINE ports == DOMAIN results
  <2>1. open \subseteq ports
    BY <1>2
  <2> HIDE DEF ports
  <2>2. Seq(open) \subseteq Seq(ports)
    BY <2>1
  <2> QED
    BY <1>6, <2>2 DEF ports
<1>8. \A k \in 1 .. size : list[k] \in open
  BY <1>6
<1> QED
  BY <1>5, <1>6, <1>7, <1>8 DEF list

-----------------------------------------------------------------------------
(* The table.  TableFrom is what comes after the start, from the texts of  *)
(* the target and of the counts.                                           *)

Heading == <<"PORT STATE MS BANNER", "\n", "-", "\n">>
Row(results, p) == <<ToString(p), "open">> \o results[p].banner \o <<"\n">>
Rows(results) == [k \in 1 .. Len(OpenPorts(results)) |-> Row(results, OpenPorts(results)[k])]

TableFrom(start, chars, total, open, closed, filtered, errors) ==
    start \o <<"\n", "scanned", total, "ports on">> \o chars
    \o <<"(address)", open, "open", closed, "closed", filtered, "filtered">>
    \o (IF errors # "0" THEN <<errors, "errors">> ELSE << >>)
    \o <<"\n">>

TableOf(start, target, results) ==
    TableFrom(start, Chars(target), Total(results), Count(results, "open"), Count(results, "closed"),
              Count(results, "filtered"), Count(results, "error"))

Table(target, results) == TableOf(Heading \o Joined(Rows(results)), target, results)

LEMMA HeadingIsChain == Heading \in Chain
<1>1. {"PORT STATE MS BANNER", "\n", "-"} \subseteq Marks
  BY DEF Marks
<1>2. "PORT STATE MS BANNER" \in Piece /\ "\n" \in Piece /\ "-" \in Piece
  BY Zenon, <1>1, Pieces
<1>3. \A v, w, x, y \in Piece : <<v, w, x, y>> \in Chain
  BY DEF Chain
<1> QED
  BY Zenon, <1>2, <1>3 DEF Heading

LEMMA RowsAreChains ==
    ASSUME NEW results, IsReported(results)
    PROVE  /\ \A p \in DOMAIN results : Row(results, p) \in Chain
           /\ Rows(results) \in Seq(Chain) /\ Joined(Rows(results)) \in Chain
<1>1. HighestPort \in Nat
  BY DEF HighestPort
<1>2. "open" \in Piece /\ "\n" \in Piece
  <2>1. "open" \in Marks /\ "\n" \in Marks
    BY DEF Marks
  <2> QED
    BY <2>1, Pieces
<1>3. ASSUME NEW p \in DOMAIN results PROVE Row(results, p) \in Chain
  <2>1. ToString(p) \in Piece
    <3>1. p \in Nat
      BY <1>1 DEF IsReported
    <3> QED
      BY <3>1, Pieces
  <2>2. <<ToString(p), "open">> \in Chain /\ <<"\n">> \in Chain
    BY <1>2, <2>1 DEF Chain
  <2>3. results[p].banner \in Chain
    BY BannerIsChain DEF IsReported
  <2> QED
    BY <2>2, <2>3, Concatenation DEF Row
<1>4. Rows(results) \in Seq(Chain)
  <2>1. \A k \in 1 .. Len(OpenPorts(results)) : Row(results, OpenPorts(results)[k]) \in Chain
    BY <1>3, OpenPortsType
  <2> QED
    BY <2>1, OpenPortsType DEF Rows
<1> QED
  BY <1>3, <1>4, JoinedType

(* The C program joins the rows.                                           *)
LEMMA CTable ==
    ASSUME NEW target, NEW results, IsReported(results)
    PROVE  C!report_table(target, results) = Table(target, results)
<1> DEFINE open == C!OpenPorts(results)
           rows == [k \in DOMAIN open |-> <<C!ToString(open[k]), "open">> \o results[open[k]].banner \o <<"\n">>]
<1>1. C!report_table(target, results)
        = TableFrom(Heading \o C!FlattenSeq(rows), C!Chars(target), C!Total(results), C!Count(results, "open"),
                    C!Count(results, "closed"), C!Count(results, "filtered"), C!Count(results, "error"))
  BY Zenon DEF C!report_table, C!report_counts, TableFrom, Heading
<1>2. rows = Rows(results)
  BY OpenPortsType, SameCounts, SameReportTables DEF Rows, Row
<1> HIDE DEF rows
<1>3. C!FlattenSeq(rows) = Joined(Rows(results))
  BY <1>2, RowsAreChains, SameFlatten, Flattened
<1> QED
  BY <1>1, <1>3, SameCounts, SameReportTables DEF Table, TableOf

(* The same with a name for the operation, for the backends: chains in a   *)
(* row are grouped as one likes.                                           *)
Plus(r, s) == r \o s

LEMMA Grouping ==
    /\ \A r, s, t, u \in Chain : Plus(r, Plus(Plus(s, t), u)) = Plus(Plus(Plus(r, s), t), u)
    /\ \A r, s, t, u, v \in Chain :
            Plus(r, Plus(s, Plus(Plus(t, u), v))) = Plus(Plus(Plus(Plus(r, s), t), u), v)
<1>1. \A r, s, t \in Chain : Plus(r, s) \in Chain /\ Plus(Plus(r, s), t) = Plus(r, Plus(s, t))
  BY Concatenation DEF Plus
<1>2. ASSUME NEW r \in Chain, NEW s \in Chain, NEW t \in Chain, NEW u \in Chain
      PROVE  Plus(r, Plus(Plus(s, t), u)) = Plus(Plus(Plus(r, s), t), u)
  <2>1. Plus(s, t) \in Chain /\ Plus(r, Plus(s, t)) = Plus(Plus(r, s), t)
    BY <1>1
  <2>2. Plus(r, Plus(Plus(s, t), u)) = Plus(Plus(r, Plus(s, t)), u)
    BY <1>1, <2>1
  <2> QED
    BY <2>1, <2>2
<1>3. ASSUME NEW r \in Chain, NEW s \in Chain, NEW t \in Chain, NEW u \in Chain, NEW v \in Chain
      PROVE  Plus(r, Plus(s, Plus(Plus(t, u), v))) = Plus(Plus(Plus(Plus(r, s), t), u), v)
  <2>1. Plus(s, Plus(Plus(t, u), v)) = Plus(Plus(Plus(s, t), u), v)
    BY <1>2
  <2>2. Plus(s, t) \in Chain /\ Plus(r, Plus(Plus(Plus(s, t), u), v)) = Plus(Plus(Plus(r, Plus(s, t)), u), v)
    BY <1>1, <1>2
  <2>3. Plus(r, Plus(s, t)) = Plus(Plus(r, s), t)
    BY <1>1
  <2> QED
    BY <2>1, <2>2, <2>3
<1> QED
  BY <1>2, <1>3

LEMMA RowParts ==
    ASSUME NEW results, IsReported(results), NEW p \in DOMAIN results
    PROVE  /\ <<ToString(p), "open">> \in Chain /\ <<"\n">> \in Chain /\ results[p].banner \in Chain
           /\ <<ToString(p), "open">> \o results[p].banner \in Chain
<1>1. "open" \in Piece /\ "\n" \in Piece
  <2>1. "open" \in Marks /\ "\n" \in Marks
    BY DEF Marks
  <2> QED
    BY <2>1, Pieces
<1>2. ToString(p) \in Piece
  <2>1. HighestPort \in Nat
    BY DEF HighestPort
  <2>2. p \in Nat
    BY <2>1 DEF IsReported
  <2> QED
    BY <2>2, Pieces
<1>3. <<ToString(p), "open">> \in Chain /\ <<"\n">> \in Chain
  BY <1>1, <1>2 DEF Chain
<1>4. results[p].banner \in Chain
  BY BannerIsChain DEF IsReported
<1> QED
  BY <1>3, <1>4, Concatenation

(* Adding a row, or its parts one by one.                                  *)
LEMMA RowAdds ==
    ASSUME NEW results, IsReported(results), NEW p \in DOMAIN results, NEW rows \in Chain
    PROVE  rows \o Row(results, p) = rows \o <<ToString(p), "open">> \o results[p].banner \o <<"\n">>
<1> DEFINE x == <<ToString(p), "open">>
           y == results[p].banner
           z == <<"\n">>
<1>1. x \in Chain /\ y \in Chain /\ z \in Chain
  BY RowParts
<1>2. Row(results, p) = Plus(Plus(x, y), z)
  BY Zenon DEF Row, Plus
<1>3. rows \o <<ToString(p), "open">> \o results[p].banner \o <<"\n">> = Plus(Plus(Plus(rows, x), y), z)
  BY Zenon DEF Plus
<1>4. rows \o Row(results, p) = Plus(rows, Row(results, p))
  BY Zenon DEF Plus
<1> HIDE DEF x, y, z
<1>5. Plus(rows, Plus(Plus(x, y), z)) = Plus(Plus(Plus(rows, x), y), z)
  BY <1>1, Grouping
<1> QED
  BY Zenon, <1>2, <1>3, <1>4, <1>5

(* The others add them in a loop.                                          *)
LEMMA TableLoop ==
    ASSUME NEW results, IsReported(results)
    PROVE  LET e == [p \in DOMAIN results |-> Row(results, p)]
           IN  /\ IsStep(Chain, DOMAIN results, Adding(DOMAIN results, e))
               /\ Fold(Chain, Adding(DOMAIN results, e), Heading, OpenPorts(results)) = Heading \o Joined(Rows(results))
<1> DEFINE e == [p \in DOMAIN results |-> Row(results, p)]
           open == OpenPorts(results)
           V == DOMAIN results
           chains == [k \in 1 .. Len(open) |-> e[open[k]]]
<1>1. e \in [V -> Chain] /\ open \in Seq(V) /\ Heading \in Chain
  BY RowsAreChains, OpenPortsType, HeadingIsChain
<1>2. chains = Rows(results)
  BY OpenPortsType DEF Rows
<1> HIDE DEF e, open, V
<1>3. IsStep(Chain, V, Adding(V, e)) /\ Fold(Chain, Adding(V, e), Heading, open) = Heading \o Joined(chains)
  BY <1>1, AddingFold
<1> QED
  BY <1>2, <1>3 DEF e, open, V

LEMMA CppTable ==
    ASSUME NEW target, NEW results, IsReported(results)
    PROVE  Cpp!writeTable(target, results) = Table(target, results)
<1> DEFINE V == DOMAIN results
           e == [p \in V |-> Row(results, p)]
           step == Adding(V, e)
           open == OpenPorts(results)
           Add(rows, p) == rows \o <<ToString(p), "open">> \o results[p].banner \o <<"\n">>
<1>1. Cpp!writeTable(target, results)
        = TableFrom(Cpp!FoldLeft(Add, Heading, Cpp!OpenPorts(results)), Cpp!Chars(target), Cpp!Total(results),
                    Cpp!Count(results, "open"), Cpp!Count(results, "closed"), Cpp!Count(results, "filtered"),
                    Cpp!Count(results, "error"))
  BY Zenon DEF Cpp!writeTable, Cpp!countResults, TableFrom, Heading, Cpp!ToString, ToString
<1>2. Fold(Chain, step, Heading, open) = Heading \o Joined(Rows(results)) /\ IsStep(Chain, V, step)
  BY TableLoop
<1>3. /\ open \in Seq(V) /\ DOMAIN open = 1 .. Len(open) /\ Heading \in Chain
  BY OpenPortsType, HeadingIsChain
<1>4. ASSUME NEW rows \in Chain, NEW p \in V PROVE step[<<rows, p>>] = Add(rows, p)
  <2>1. step[<<rows, p>>] = rows \o Row(results, p)
    BY DEF Adding
  <2>2. rows \o Row(results, p) = Add(rows, p)
    BY Zenon, RowAdds
  <2> QED
    BY Zenon, <2>1, <2>2
<1>5. Cpp!FoldLeft(Add, Heading, open) = Fold(Chain, step, Heading, open)
  <2> HIDE DEF V, step, open
  <2> DEFINE Body(it) == [s \in SUBSET DOMAIN open |->
                            IF s = {} THEN Heading ELSE Add(it[s \ {Max(s)}], open[Max(s)])]
             iter == CHOOSE it : it = Body(it)
  <2>1. Cpp!FoldLeft(Add, Heading, open) = iter[DOMAIN open]
    BY DEF Cpp!FoldLeft, Cpp!MapThenFoldSet, Cpp!Max, Max
  <2>2. open \in Seq(V) /\ DOMAIN open = 1 .. Len(open) /\ IsStep(Chain, V, step) /\ Heading \in Chain
    BY <1>2, <1>3
  <2>3. \A x \in Chain, v \in V : step[<<x, v>>] = Add(x, v)
    BY Zenon, <1>4
  <2>4. \E it : it = Body(it)
    <3>1. PICK it : Recurs(Chain, V, step, Heading, open, it)
      BY <2>2, IterExists
    <3>2. it = Body(it)
      BY <2>2, <2>3, <3>1 DEF Recurs
    <3> QED
      BY <3>2
  <2>5. iter = Body(iter)
    <3> HIDE DEF Body
    <3> QED
      BY <2>4
  <2> HIDE DEF iter, Body
  <2>6. iter[{}] = Heading
    BY <2>5 DEF Body
  <2>7. ASSUME NEW s \in SUBSET (1 .. Len(open)), s # {}, iter[s \ {Max(s)}] \in Chain
        PROVE  iter[s] = step[<<iter[s \ {Max(s)}], open[Max(s)]>>]
    <3>1. open[Max(s)] \in V
      <4>1. Len(open) \in Nat
        BY <2>2
      <4>2. Max(s) \in s /\ s \subseteq 1 .. Len(open)
        BY <2>7, <4>1, LastPosition
      <4>3. Max(s) \in 1 .. Len(open)
        BY Zenon, <4>2
      <4> HIDE DEF Body
      <4> QED
        BY <2>2, <4>3
    <3>2. iter[s] = Add(iter[s \ {Max(s)}], open[Max(s)])
      BY Zenon, <2>2, <2>5, <2>7 DEF Body
    <3> QED
      BY <2>3, <2>7, <3>1, <3>2
  <2>8. iter[1 .. Len(open)] = Fold(Chain, step, Heading, open)
    <3>1. Follows(Chain, step, Heading, open, iter)
      BY <2>6, <2>7 DEF Follows
    <3> QED
      BY <2>2, <3>1, FoldOfIter
  <2> QED
    BY Zenon, <2>1, <2>2, <2>8
<1> HIDE DEF V, step, Add, open, e
<1> QED
  BY <1>1, <1>2, <1>5, SameCounts, SameReportTables DEF Table, TableOf, open

LEMMA RustTable ==
    ASSUME NEW target, NEW results, IsReported(results)
    PROVE  Rust!write_table(target, results) = Table(target, results)
<1> DEFINE V == DOMAIN results
           e == [p \in V |-> Row(results, p)]
           step == Adding(V, e)
           open == OpenPorts(results)
           Add(rows, p) == rows \o <<ToString(p), "open">> \o results[p].banner \o <<"\n">>
<1>1. Rust!write_table(target, results)
        = TableFrom(Rust!FoldLeft(Add, Heading, Rust!OpenPorts(results)), Rust!Chars(target), Rust!Total(results),
                    Rust!Count(results, "open"), Rust!Count(results, "closed"), Rust!Count(results, "filtered"),
                    Rust!Count(results, "error"))
  BY Zenon DEF Rust!write_table, Rust!count_results, TableFrom, Heading, Rust!ToString, ToString
<1>2. Fold(Chain, step, Heading, open) = Heading \o Joined(Rows(results)) /\ IsStep(Chain, V, step)
  BY TableLoop
<1>3. /\ open \in Seq(V) /\ DOMAIN open = 1 .. Len(open) /\ Heading \in Chain
  BY OpenPortsType, HeadingIsChain
<1>4. ASSUME NEW rows \in Chain, NEW p \in V PROVE step[<<rows, p>>] = Add(rows, p)
  <2>1. step[<<rows, p>>] = rows \o Row(results, p)
    BY DEF Adding
  <2>2. rows \o Row(results, p) = Add(rows, p)
    BY Zenon, RowAdds
  <2> QED
    BY Zenon, <2>1, <2>2
<1>5. Rust!FoldLeft(Add, Heading, open) = Fold(Chain, step, Heading, open)
  <2> HIDE DEF V, step, open
  <2> DEFINE Body(it) == [s \in SUBSET DOMAIN open |->
                            IF s = {} THEN Heading ELSE Add(it[s \ {Max(s)}], open[Max(s)])]
             iter == CHOOSE it : it = Body(it)
  <2>1. Rust!FoldLeft(Add, Heading, open) = iter[DOMAIN open]
    BY DEF Rust!FoldLeft, Rust!MapThenFoldSet, Rust!Max, Max
  <2>2. open \in Seq(V) /\ DOMAIN open = 1 .. Len(open) /\ IsStep(Chain, V, step) /\ Heading \in Chain
    BY <1>2, <1>3
  <2>3. \A x \in Chain, v \in V : step[<<x, v>>] = Add(x, v)
    BY Zenon, <1>4
  <2>4. \E it : it = Body(it)
    <3>1. PICK it : Recurs(Chain, V, step, Heading, open, it)
      BY <2>2, IterExists
    <3>2. it = Body(it)
      BY <2>2, <2>3, <3>1 DEF Recurs
    <3> QED
      BY <3>2
  <2>5. iter = Body(iter)
    <3> HIDE DEF Body
    <3> QED
      BY <2>4
  <2> HIDE DEF iter, Body
  <2>6. iter[{}] = Heading
    BY <2>5 DEF Body
  <2>7. ASSUME NEW s \in SUBSET (1 .. Len(open)), s # {}, iter[s \ {Max(s)}] \in Chain
        PROVE  iter[s] = step[<<iter[s \ {Max(s)}], open[Max(s)]>>]
    <3>1. open[Max(s)] \in V
      <4>1. Len(open) \in Nat
        BY <2>2
      <4>2. Max(s) \in s /\ s \subseteq 1 .. Len(open)
        BY <2>7, <4>1, LastPosition
      <4>3. Max(s) \in 1 .. Len(open)
        BY Zenon, <4>2
      <4> HIDE DEF Body
      <4> QED
        BY <2>2, <4>3
    <3>2. iter[s] = Add(iter[s \ {Max(s)}], open[Max(s)])
      BY <2>2, <2>5, <2>7 DEF Body
    <3> QED
      BY <2>3, <2>7, <3>1, <3>2
  <2>8. iter[1 .. Len(open)] = Fold(Chain, step, Heading, open)
    <3>1. Follows(Chain, step, Heading, open, iter)
      BY <2>6, <2>7 DEF Follows
    <3> QED
      BY <2>2, <3>1, FoldOfIter
  <2> QED
    BY Zenon, <2>1, <2>2, <2>8
<1> HIDE DEF V, step, Add, open, e
<1> QED
  BY <1>1, <1>2, <1>5, SameCounts, SameReportTables DEF Table, TableOf, open

LEMMA CsTable ==
    ASSUME NEW target, NEW results, IsReported(results)
    PROVE  Cs!WriteTable(target, results) = Table(target, results)
<1> DEFINE V == DOMAIN results
           e == [p \in V |-> Row(results, p)]
           step == Adding(V, e)
           open == OpenPorts(results)
           Add(rows, p) == rows \o <<ToString(p), "open">> \o results[p].banner \o <<"\n">>
<1>1. Cs!WriteTable(target, results)
        = TableFrom(Cs!FoldLeft(Add, Heading, Cs!OpenPorts(results)), Cs!Chars(target), Cs!Total(results),
                    Cs!Count(results, "open"), Cs!Count(results, "closed"), Cs!Count(results, "filtered"),
                    Cs!Count(results, "error"))
  BY Zenon DEF Cs!WriteTable, Cs!CountResults, TableFrom, Heading, Cs!ToString, ToString
<1>2. Fold(Chain, step, Heading, open) = Heading \o Joined(Rows(results)) /\ IsStep(Chain, V, step)
  BY TableLoop
<1>3. /\ open \in Seq(V) /\ DOMAIN open = 1 .. Len(open) /\ Heading \in Chain
  BY OpenPortsType, HeadingIsChain
<1>4. ASSUME NEW rows \in Chain, NEW p \in V PROVE step[<<rows, p>>] = Add(rows, p)
  <2>1. step[<<rows, p>>] = rows \o Row(results, p)
    BY DEF Adding
  <2>2. rows \o Row(results, p) = Add(rows, p)
    BY Zenon, RowAdds
  <2> QED
    BY Zenon, <2>1, <2>2
<1>5. Cs!FoldLeft(Add, Heading, open) = Fold(Chain, step, Heading, open)
  <2> HIDE DEF V, step, open
  <2> DEFINE Body(it) == [s \in SUBSET DOMAIN open |->
                            IF s = {} THEN Heading ELSE Add(it[s \ {Max(s)}], open[Max(s)])]
             iter == CHOOSE it : it = Body(it)
  <2>1. Cs!FoldLeft(Add, Heading, open) = iter[DOMAIN open]
    BY DEF Cs!FoldLeft, Cs!MapThenFoldSet, Cs!Max, Max
  <2>2. open \in Seq(V) /\ DOMAIN open = 1 .. Len(open) /\ IsStep(Chain, V, step) /\ Heading \in Chain
    BY <1>2, <1>3
  <2>3. \A x \in Chain, v \in V : step[<<x, v>>] = Add(x, v)
    BY Zenon, <1>4
  <2>4. \E it : it = Body(it)
    <3>1. PICK it : Recurs(Chain, V, step, Heading, open, it)
      BY <2>2, IterExists
    <3>2. it = Body(it)
      BY <2>2, <2>3, <3>1 DEF Recurs
    <3> QED
      BY <3>2
  <2>5. iter = Body(iter)
    <3> HIDE DEF Body
    <3> QED
      BY <2>4
  <2> HIDE DEF iter, Body
  <2>6. iter[{}] = Heading
    BY <2>5 DEF Body
  <2>7. ASSUME NEW s \in SUBSET (1 .. Len(open)), s # {}, iter[s \ {Max(s)}] \in Chain
        PROVE  iter[s] = step[<<iter[s \ {Max(s)}], open[Max(s)]>>]
    <3>1. open[Max(s)] \in V
      <4>1. Len(open) \in Nat
        BY <2>2
      <4>2. Max(s) \in s /\ s \subseteq 1 .. Len(open)
        BY <2>7, <4>1, LastPosition
      <4>3. Max(s) \in 1 .. Len(open)
        BY Zenon, <4>2
      <4> HIDE DEF Body
      <4> QED
        BY <2>2, <4>3
    <3>2. iter[s] = Add(iter[s \ {Max(s)}], open[Max(s)])
      BY <2>2, <2>5, <2>7 DEF Body
    <3> QED
      BY <2>3, <2>7, <3>1, <3>2
  <2>8. iter[1 .. Len(open)] = Fold(Chain, step, Heading, open)
    <3>1. Follows(Chain, step, Heading, open, iter)
      BY <2>6, <2>7 DEF Follows
    <3> QED
      BY <2>2, <3>1, FoldOfIter
  <2> QED
    BY Zenon, <2>1, <2>2, <2>8
<1> HIDE DEF V, step, Add, open, e
<1> QED
  BY <1>1, <1>2, <1>5, SameCounts, SameReportTables DEF Table, TableOf, open

-----------------------------------------------------------------------------
(* The strings of JSON.  Each program has its own table of escapes, and    *)
(* they differ in what a wide character becomes.                           *)

Escape(value) ==
    CASE value \in {"\"", "\\"} -> <<"\\", value>>
      [] value \in Control -> <<"\\u", value>>
      [] OTHER -> <<value>>
Escapes(text) == [k \in 1 .. Len(text) |-> Escape(text[k])]
JsonString(text) == <<"\"">> \o Joined(Escapes(text)) \o <<"\"">>

NotWide(text) == \A k \in 1 .. Len(text) : text[k] # "wide"

LEMMA EscapeType ==
    /\ <<"\"">> \in Chain /\ "\"" \in Piece
    /\ \A value \in Piece : Escape(value) \in Chain
<1>1. "\"" \in Piece /\ "\\" \in Piece /\ "\\u" \in Piece
  <2>1. "\"" \in Characters /\ "\\" \in Characters /\ "\\u" \in Marks
    BY Zenon DEF Characters, Marks
  <2> QED
    BY Zenon, <2>1, Pieces
<1>2. \A v, w \in Piece : <<v, w>> \in Chain /\ <<v>> \in Chain
  BY DEF Chain
<1>3. \A value : Escape(value) \in {<<"\\", value>>, <<"\\u", value>>, <<value>>}
  BY Zenon DEF Escape
<1> QED
  BY Zenon, <1>1, <1>2, <1>3

LEMMA StringType ==
    ASSUME NEW text \in Chain
    PROVE  /\ Escapes(text) \in Seq(Chain) /\ Joined(Escapes(text)) \in Chain /\ JsonString(text) \in Chain
           /\ Len(text) \in Nat /\ DOMAIN text = 1 .. Len(text) /\ \A k \in 1 .. Len(text) : text[k] \in Piece
<1>1. Len(text) \in Nat /\ DOMAIN text = 1 .. Len(text) /\ \A k \in 1 .. Len(text) : text[k] \in Piece
  BY DEF Chain
<1>2. Escapes(text) \in Seq(Chain)
  <2>1. \A k \in 1 .. Len(text) : Escape(text[k]) \in Chain
    BY Zenon, <1>1, EscapeType
  <2> QED
    BY <1>1, <2>1 DEF Escapes
<1>3. Joined(Escapes(text)) \in Chain
  BY <1>2, JoinedType
<1> QED
  BY Zenon, <1>1, <1>2, <1>3, EscapeType, Concatenation DEF JsonString

LEMMA CString == \A text \in Chain : C!report_json_string(text) = JsonString(text)
<1>1. ASSUME NEW text \in Chain PROVE C!report_json_string(text) = JsonString(text)
  <2> DEFINE chains == [k \in DOMAIN text |-> Escape(text[k])]
  <2>1. C!report_json_string(text) = <<"\"">> \o C!FlattenSeq(chains) \o <<"\"">>
    BY Zenon DEF C!report_json_string, C!Control, Control, Escape
  <2>2. chains = Escapes(text)
    BY StringType DEF Escapes
  <2> HIDE DEF chains
  <2>3. C!FlattenSeq(chains) = Joined(Escapes(text))
    BY <2>2, StringType, SameFlatten, Flattened
  <2> QED
    BY Zenon, <2>1, <2>3 DEF JsonString
<1> QED
  BY <1>1

(* A loop that puts one character after another.                           *)
LEMMA StringLoop ==
    ASSUME NEW e \in [Piece -> Chain], NEW text \in Chain, \A k \in 1 .. Len(text) : e[text[k]] = Escape(text[k])
    PROVE  /\ IsStep(Chain, Piece, Adding(Piece, e))
           /\ Fold(Chain, Adding(Piece, e), <<"\"">>, text) \o <<"\"">> = JsonString(text)
           /\ Append(Fold(Chain, Adding(Piece, e), <<"\"">>, text), "\"") = JsonString(text)
<1> DEFINE chains == [k \in 1 .. Len(text) |-> e[text[k]]]
           quote == <<"\"">>
<1>1. text \in Seq(Piece) /\ quote \in Chain
  BY Zenon, EscapeType DEF Chain
<1>2. chains = Escapes(text)
  BY DEF Escapes
<1> HIDE DEF quote
<1>3. IsStep(Chain, Piece, Adding(Piece, e)) /\ Fold(Chain, Adding(Piece, e), quote, text) = quote \o Joined(chains)
  BY <1>1, AddingFold
<1> HIDE DEF chains
<1>4. Fold(Chain, Adding(Piece, e), quote, text) = quote \o Joined(Escapes(text)) /\ quote \o Joined(Escapes(text)) \in Chain
  BY <1>1, <1>2, <1>3, StringType, Concatenation
<1>5. \A s \in Chain, v \in Piece : Append(s, v) = s \o <<v>>
  BY DEF Chain
<1> QED
  BY Zenon, <1>3, <1>4, <1>5, EscapeType DEF JsonString, quote

LEMMA CppString ==
    ASSUME NEW text \in Chain
    PROVE  Cpp!writeJsonString(text) = JsonString(text)
<1> DEFINE Own(value) ==
                CASE value \in {"\"", "\\"} -> <<"\\", value>>
                  [] value \in Control -> <<"\\u", value>>
                  [] OTHER -> <<value>>
           Put(out, value) == out \o Own(value)
           e == [value \in Piece |-> Own(value)]
           step == Adding(Piece, e)
           quote == <<"\"">>
<1>1. Cpp!writeJsonString(text) = Append(Cpp!FoldLeft(Put, <<"\"">>, text), "\"")
  BY Zenon DEF Cpp!writeJsonString, Cpp!Control, Control
<1>2. \A value \in Piece : Own(value) \in Chain
  BY Zenon, EscapeType DEF Escape
<1>3. \A k \in 1 .. Len(text) : e[text[k]] = Escape(text[k])
  <2>1. \A value : Own(value) = Escape(value)
    BY Zenon DEF Escape
  <2> QED
    BY Zenon, <2>1, StringType
<1> HIDE DEF Own
<1>4. e \in [Piece -> Chain]
  BY <1>2
<1>5. \A out \in Chain, value \in Piece : step[<<out, value>>] = Put(out, value)
  BY DEF Adding
<1>6. text \in Seq(Piece) /\ DOMAIN text = 1 .. Len(text) /\ quote \in Chain
  BY Zenon, EscapeType, StringType DEF Chain
<1> HIDE DEF e
<1>7. /\ IsStep(Chain, Piece, step)
      /\ Fold(Chain, step, quote, text) \o <<"\"">> = JsonString(text)
      /\ Append(Fold(Chain, step, quote, text), "\"") = JsonString(text)
  BY Zenon, <1>3, <1>4, StringLoop
<1>8. Cpp!FoldLeft(Put, quote, text) = Fold(Chain, step, quote, text)
  <2> HIDE DEF step, quote
  <2> DEFINE Body(it) == [s \in SUBSET DOMAIN text |->
                            IF s = {} THEN quote ELSE Put(it[s \ {Max(s)}], text[Max(s)])]
             iter == CHOOSE it : it = Body(it)
  <2>1. Cpp!FoldLeft(Put, quote, text) = iter[DOMAIN text]
    BY DEF Cpp!FoldLeft, Cpp!MapThenFoldSet, Cpp!Max, Max
  <2>2. text \in Seq(Piece) /\ DOMAIN text = 1 .. Len(text) /\ IsStep(Chain, Piece, step) /\ quote \in Chain
    BY Zenon, <1>6, <1>7
  <2>3. \A x \in Chain, v \in Piece : step[<<x, v>>] = Put(x, v)
    BY Zenon, <1>5
  <2>4. \E it : it = Body(it)
    <3>1. PICK it : Recurs(Chain, Piece, step, quote, text, it)
      BY <2>2, IterExists
    <3>2. it = Body(it)
      BY <2>2, <2>3, <3>1 DEF Recurs
    <3> QED
      BY <3>2
  <2>5. iter = Body(iter)
    <3> HIDE DEF Body
    <3> QED
      BY <2>4
  <2> HIDE DEF iter, Body
  <2>6. iter[{}] = quote
    BY <2>5 DEF Body
  <2>7. ASSUME NEW s \in SUBSET (1 .. Len(text)), s # {}, iter[s \ {Max(s)}] \in Chain
        PROVE  iter[s] = step[<<iter[s \ {Max(s)}], text[Max(s)]>>]
    <3>1. text[Max(s)] \in Piece
      <4>1. Len(text) \in Nat
        BY <2>2
      <4>2. Max(s) \in s /\ s \subseteq 1 .. Len(text)
        BY <2>7, <4>1, LastPosition
      <4>3. Max(s) \in 1 .. Len(text)
        BY <4>2
      <4> HIDE DEF Body
      <4> QED
        BY <2>2, <4>3
    <3>2. iter[s] = Put(iter[s \ {Max(s)}], text[Max(s)])
      BY <2>2, <2>5, <2>7 DEF Body
    <3> QED
      BY <2>3, <2>7, <3>1, <3>2
  <2>8. iter[1 .. Len(text)] = Fold(Chain, step, quote, text)
    <3>1. Follows(Chain, step, quote, text, iter)
      BY <2>6, <2>7 DEF Follows
    <3> QED
      BY <2>2, <3>1, FoldOfIter
  <2> QED
    BY Zenon, <2>1, <2>2, <2>8
<1> HIDE DEF step, Put
<1> QED
  BY Zenon, <1>1, <1>7, <1>8 DEF quote

LEMMA RustString ==
    ASSUME NEW text \in Chain, NotWide(text)
    PROVE  Rust!write_json_string(text) = JsonString(text)
<1> DEFINE Own(value) ==
                CASE value \in {"\"", "\\"} -> <<"\\", value>>
                  [] value \in Control -> <<"\\u", value>>
                  [] value = "wide" -> <<"high", "high">>
                  [] OTHER -> <<value>>
           Put(out, value) == out \o Own(value)
           e == [value \in Piece |-> Own(value)]
           step == Adding(Piece, e)
           quote == <<"\"">>
<1>1. Rust!write_json_string(text) = Rust!FoldLeft(Put, <<"\"">>, text) \o <<"\"">>
  BY Zenon DEF Rust!write_json_string, Rust!Control, Control
<1>2. \A value \in Piece : Own(value) \in Chain
  <2>1. "\"" \in Piece /\ "\\" \in Piece /\ "\\u" \in Piece /\ "high" \in Piece /\ "ctl" \in Piece
    <3>1. /\ "\"" \in Characters /\ "\\" \in Characters /\ "\\u" \in Marks
          /\ "high" \in Characters /\ "ctl" \in Characters
      BY Zenon DEF Characters, Marks
    <3> QED
      BY Zenon, <3>1, Pieces
  <2>2. \A v, w \in Piece : <<v, w>> \in Chain /\ <<v>> \in Chain
    BY DEF Chain
  <2>3. \A value : Own(value) \in {<<"\\", value>>, <<"\\u", value>>, <<"high", "high">>, <<value>>}
    BY Zenon
  <2> QED
    BY Zenon, <2>1, <2>2, <2>3
<1>3. \A k \in 1 .. Len(text) : e[text[k]] = Escape(text[k])
  <2>1. ASSUME NEW value, value # "wide" PROVE Own(value) = Escape(value)
    <3>1. CASE value \in {"\"", "\\"}
      BY Zenon, <2>1, <3>1 DEF Escape, Control
    <3>2. CASE value \notin {"\"", "\\"} /\ value \in Control
      BY Zenon, <2>1, <3>2 DEF Escape
    <3>3. CASE value \notin {"\"", "\\"} /\ value \notin Control
      BY Zenon, <2>1, <3>3 DEF Escape
    <3> QED
      BY Zenon, <3>1, <3>2, <3>3
  <2> QED
    BY Zenon, <2>1, StringType DEF NotWide
<1> HIDE DEF Own
<1>4. e \in [Piece -> Chain]
  BY <1>2
<1>5. \A out \in Chain, value \in Piece : step[<<out, value>>] = Put(out, value)
  BY DEF Adding
<1>6. text \in Seq(Piece) /\ DOMAIN text = 1 .. Len(text) /\ quote \in Chain
  BY Zenon, EscapeType, StringType DEF Chain
<1> HIDE DEF e
<1>7. /\ IsStep(Chain, Piece, step)
      /\ Fold(Chain, step, quote, text) \o <<"\"">> = JsonString(text)
      /\ Append(Fold(Chain, step, quote, text), "\"") = JsonString(text)
  BY Zenon, <1>3, <1>4, StringLoop
<1>8. Rust!FoldLeft(Put, quote, text) = Fold(Chain, step, quote, text)
  <2> HIDE DEF step, quote
  <2> DEFINE Body(it) == [s \in SUBSET DOMAIN text |->
                            IF s = {} THEN quote ELSE Put(it[s \ {Max(s)}], text[Max(s)])]
             iter == CHOOSE it : it = Body(it)
  <2>1. Rust!FoldLeft(Put, quote, text) = iter[DOMAIN text]
    BY DEF Rust!FoldLeft, Rust!MapThenFoldSet, Rust!Max, Max
  <2>2. text \in Seq(Piece) /\ DOMAIN text = 1 .. Len(text) /\ IsStep(Chain, Piece, step) /\ quote \in Chain
    BY Zenon, <1>6, <1>7
  <2>3. \A x \in Chain, v \in Piece : step[<<x, v>>] = Put(x, v)
    BY Zenon, <1>5
  <2>4. \E it : it = Body(it)
    <3>1. PICK it : Recurs(Chain, Piece, step, quote, text, it)
      BY <2>2, IterExists
    <3>2. it = Body(it)
      BY <2>2, <2>3, <3>1 DEF Recurs
    <3> QED
      BY <3>2
  <2>5. iter = Body(iter)
    <3> HIDE DEF Body
    <3> QED
      BY <2>4
  <2> HIDE DEF iter, Body
  <2>6. iter[{}] = quote
    BY <2>5 DEF Body
  <2>7. ASSUME NEW s \in SUBSET (1 .. Len(text)), s # {}, iter[s \ {Max(s)}] \in Chain
        PROVE  iter[s] = step[<<iter[s \ {Max(s)}], text[Max(s)]>>]
    <3>1. text[Max(s)] \in Piece
      <4>1. Len(text) \in Nat
        BY <2>2
      <4>2. Max(s) \in s /\ s \subseteq 1 .. Len(text)
        BY <2>7, <4>1, LastPosition
      <4>3. Max(s) \in 1 .. Len(text)
        BY <4>2
      <4> HIDE DEF Body
      <4> QED
        BY <2>2, <4>3
    <3>2. iter[s] = Put(iter[s \ {Max(s)}], text[Max(s)])
      BY <2>2, <2>5, <2>7 DEF Body
    <3> QED
      BY <2>3, <2>7, <3>1, <3>2
  <2>8. iter[1 .. Len(text)] = Fold(Chain, step, quote, text)
    <3>1. Follows(Chain, step, quote, text, iter)
      BY <2>6, <2>7 DEF Follows
    <3> QED
      BY <2>2, <3>1, FoldOfIter
  <2> QED
    BY Zenon, <2>1, <2>2, <2>8
<1> HIDE DEF step, Put
<1> QED
  BY Zenon, <1>1, <1>7, <1>8 DEF quote

LEMMA CsString ==
    ASSUME NEW text \in Chain, NotWide(text)
    PROVE  Cs!WriteJsonString(text) = JsonString(text)
<1> DEFINE Own(value) ==
                CASE value \in {"\"", "\\"} -> <<"\\", value>>
                  [] value \in Control -> <<"\\u", value>>
                  [] value = "wide" -> <<"\\u", "ctl">>
                  [] OTHER -> <<value>>
           Put(out, value) == out \o Own(value)
           e == [value \in Piece |-> Own(value)]
           step == Adding(Piece, e)
           quote == <<"\"">>
<1>1. Cs!WriteJsonString(text) = Append(Cs!FoldLeft(Put, <<"\"">>, text), "\"")
  BY Zenon DEF Cs!WriteJsonString, Cs!Control, Control
<1>2. \A value \in Piece : Own(value) \in Chain
  <2>1. "\"" \in Piece /\ "\\" \in Piece /\ "\\u" \in Piece /\ "high" \in Piece /\ "ctl" \in Piece
    <3>1. /\ "\"" \in Characters /\ "\\" \in Characters /\ "\\u" \in Marks
          /\ "high" \in Characters /\ "ctl" \in Characters
      BY Zenon DEF Characters, Marks
    <3> QED
      BY Zenon, <3>1, Pieces
  <2>2. \A v, w \in Piece : <<v, w>> \in Chain /\ <<v>> \in Chain
    BY DEF Chain
  <2>3. \A value : Own(value) \in {<<"\\", value>>, <<"\\u", value>>, <<"\\u", "ctl">>, <<value>>}
    BY Zenon
  <2> QED
    BY Zenon, <2>1, <2>2, <2>3
<1>3. \A k \in 1 .. Len(text) : e[text[k]] = Escape(text[k])
  <2>1. ASSUME NEW value, value # "wide" PROVE Own(value) = Escape(value)
    <3>1. CASE value \in {"\"", "\\"}
      BY Zenon, <2>1, <3>1 DEF Escape, Control
    <3>2. CASE value \notin {"\"", "\\"} /\ value \in Control
      BY Zenon, <2>1, <3>2 DEF Escape
    <3>3. CASE value \notin {"\"", "\\"} /\ value \notin Control
      BY Zenon, <2>1, <3>3 DEF Escape
    <3> QED
      BY Zenon, <3>1, <3>2, <3>3
  <2> QED
    BY Zenon, <2>1, StringType DEF NotWide
<1> HIDE DEF Own
<1>4. e \in [Piece -> Chain]
  BY <1>2
<1>5. \A out \in Chain, value \in Piece : step[<<out, value>>] = Put(out, value)
  BY DEF Adding
<1>6. text \in Seq(Piece) /\ DOMAIN text = 1 .. Len(text) /\ quote \in Chain
  BY Zenon, EscapeType, StringType DEF Chain
<1> HIDE DEF e
<1>7. /\ IsStep(Chain, Piece, step)
      /\ Fold(Chain, step, quote, text) \o <<"\"">> = JsonString(text)
      /\ Append(Fold(Chain, step, quote, text), "\"") = JsonString(text)
  BY Zenon, <1>3, <1>4, StringLoop
<1>8. Cs!FoldLeft(Put, quote, text) = Fold(Chain, step, quote, text)
  <2> HIDE DEF step, quote
  <2> DEFINE Body(it) == [s \in SUBSET DOMAIN text |->
                            IF s = {} THEN quote ELSE Put(it[s \ {Max(s)}], text[Max(s)])]
             iter == CHOOSE it : it = Body(it)
  <2>1. Cs!FoldLeft(Put, quote, text) = iter[DOMAIN text]
    BY DEF Cs!FoldLeft, Cs!MapThenFoldSet, Cs!Max, Max
  <2>2. text \in Seq(Piece) /\ DOMAIN text = 1 .. Len(text) /\ IsStep(Chain, Piece, step) /\ quote \in Chain
    BY Zenon, <1>6, <1>7
  <2>3. \A x \in Chain, v \in Piece : step[<<x, v>>] = Put(x, v)
    BY Zenon, <1>5
  <2>4. \E it : it = Body(it)
    <3>1. PICK it : Recurs(Chain, Piece, step, quote, text, it)
      BY <2>2, IterExists
    <3>2. it = Body(it)
      BY <2>2, <2>3, <3>1 DEF Recurs
    <3> QED
      BY <3>2
  <2>5. iter = Body(iter)
    <3> HIDE DEF Body
    <3> QED
      BY <2>4
  <2> HIDE DEF iter, Body
  <2>6. iter[{}] = quote
    BY <2>5 DEF Body
  <2>7. ASSUME NEW s \in SUBSET (1 .. Len(text)), s # {}, iter[s \ {Max(s)}] \in Chain
        PROVE  iter[s] = step[<<iter[s \ {Max(s)}], text[Max(s)]>>]
    <3>1. text[Max(s)] \in Piece
      <4>1. Len(text) \in Nat
        BY <2>2
      <4>2. Max(s) \in s /\ s \subseteq 1 .. Len(text)
        BY <2>7, <4>1, LastPosition
      <4>3. Max(s) \in 1 .. Len(text)
        BY <4>2
      <4> HIDE DEF Body
      <4> QED
        BY <2>2, <4>3
    <3>2. iter[s] = Put(iter[s \ {Max(s)}], text[Max(s)])
      BY <2>2, <2>5, <2>7 DEF Body
    <3> QED
      BY <2>3, <2>7, <3>1, <3>2
  <2>8. iter[1 .. Len(text)] = Fold(Chain, step, quote, text)
    <3>1. Follows(Chain, step, quote, text, iter)
      BY <2>6, <2>7 DEF Follows
    <3> QED
      BY <2>2, <3>1, FoldOfIter
  <2> QED
    BY Zenon, <2>1, <2>2, <2>8
<1> HIDE DEF step, Put
<1> QED
  BY Zenon, <1>1, <1>7, <1>8 DEF quote

-----------------------------------------------------------------------------
(* JSON, from the texts of the target and of the counts.                   *)

EntryOf(results, p) ==
    <<"{port:", ToString(p), "state:open", "banner:">> \o JsonString(results[p].banner) \o <<"}">>
Comma(k) == IF k = 1 THEN << >> ELSE <<",">>
Entries(results) ==
    [k \in 1 .. Len(OpenPorts(results)) |-> Comma(k) \o EntryOf(results, OpenPorts(results)[k])]

JsonHead(string, total) == <<"{target:">> \o string \o <<"scanned:", total, "open:[">>
JsonEnd(closed, filtered, errors) ==
    <<"]", "closed:", closed, "filtered:", filtered, "errors:", errors, "}", "\n">>
JsonOf(string, entries, results) ==
    JsonHead(string, Total(results)) \o entries
    \o JsonEnd(Count(results, "closed"), Count(results, "filtered"), Count(results, "error"))

Json(target, results) == JsonOf(JsonString(Chars(target)), Joined(Entries(results)), results)

LEMMA NoWide ==
    /\ \A banner \in Seq(Printable) : NotWide(banner)
    /\ \A text : text # "wide" => NotWide(Chars(text))
<1>1. "wide" \notin Printable
  BY Zenon DEF Printable
<1>2. \A banner \in Seq(Printable) : NotWide(banner)
  BY <1>1 DEF NotWide
<1>3. ASSUME NEW text, text # "wide" PROVE NotWide(Chars(text))
  <2>1. CASE text = "quoted"
    <3>1. Chars(text) = <<"a", "\"", "\\", "ctl">>
      BY Zenon, <2>1 DEF Chars
    <3>2. \A v, w, x, y : v # "wide" /\ w # "wide" /\ x # "wide" /\ y # "wide" => NotWide(<<v, w, x, y>>)
      BY DEF NotWide
    <3> QED
      BY Zenon, <3>1, <3>2
  <2>2. CASE text # "quoted"
    <3>1. Chars(text) = <<text>>
      BY <1>3, <2>2 DEF Chars
    <3> QED
      BY <1>3, <3>1 DEF NotWide
  <2> QED
    BY <2>1, <2>2
<1> QED
  BY <1>2, <1>3

LEMMA EntryParts ==
    ASSUME NEW results, IsReported(results), NEW p \in DOMAIN results
    PROVE  /\ <<"{port:", ToString(p), "state:open", "banner:">> \in Chain /\ <<"}">> \in Chain
           /\ results[p].banner \in Chain /\ JsonString(results[p].banner) \in Chain /\ NotWide(results[p].banner)
           /\ <<"{port:", ToString(p), "state:open", "banner:">> \o JsonString(results[p].banner) \in Chain
           /\ EntryOf(results, p) \in Chain
<1>1. "{port:" \in Piece /\ "state:open" \in Piece /\ "banner:" \in Piece /\ "}" \in Piece
  <2>1. "{port:" \in Marks /\ "state:open" \in Marks /\ "banner:" \in Marks /\ "}" \in Marks
    BY Zenon DEF Marks
  <2> QED
    BY Zenon, <2>1, Pieces
<1>2. ToString(p) \in Piece
  <2>1. HighestPort \in Nat
    BY DEF HighestPort
  <2>2. p \in Nat
    BY <2>1 DEF IsReported
  <2> QED
    BY <2>2, Pieces
<1>3. \A v, w, x, y \in Piece : <<v, w, x, y>> \in Chain /\ <<v>> \in Chain
  BY DEF Chain
<1>4. <<"{port:", ToString(p), "state:open", "banner:">> \in Chain /\ <<"}">> \in Chain
  BY Zenon, <1>1, <1>2, <1>3
<1>5. results[p].banner \in Chain /\ NotWide(results[p].banner)
  BY BannerIsChain, NoWide DEF IsReported
<1>6. JsonString(results[p].banner) \in Chain
  BY <1>5, StringType
<1> QED
  BY Zenon, <1>4, <1>5, <1>6, Concatenation DEF EntryOf

LEMMA CommaType == <<",">> \in Chain /\ \A k : Comma(k) \in Chain
<1>1. "," \in Piece
  <2>1. "," \in Marks
    BY Zenon DEF Marks
  <2> QED
    BY Zenon, <2>1, Pieces
<1>2. \A v \in Piece : <<v>> \in Chain
  BY DEF Chain
<1>3. <<",">> \in Chain /\ << >> \in Chain
  BY Zenon, <1>1, <1>2, Concatenation
<1> QED
  BY Zenon, <1>3 DEF Comma

LEMMA EntriesType ==
    ASSUME NEW results, IsReported(results)
    PROVE  /\ Entries(results) \in Seq(Chain) /\ Joined(Entries(results)) \in Chain
           /\ Len(Entries(results)) = Len(OpenPorts(results))
<1>1. ASSUME NEW k \in 1 .. Len(OpenPorts(results))
      PROVE  Comma(k) \o EntryOf(results, OpenPorts(results)[k]) \in Chain
  <2>1. EntryOf(results, OpenPorts(results)[k]) \in Chain
    BY Zenon, OpenPortsType, EntryParts
  <2> QED
    BY Zenon, <2>1, CommaType, Concatenation
<1>2. Len(OpenPorts(results)) \in Nat
  BY OpenPortsType
<1>3. Entries(results) \in Seq(Chain) /\ Len(Entries(results)) = Len(OpenPorts(results))
  BY <1>1, <1>2 DEF Entries
<1> QED
  BY <1>3, JoinedType

LEMMA CJson ==
    ASSUME NEW target \in Text, NEW results, IsReported(results)
    PROVE  C!report_json(target, results) = Json(target, results)
<1> DEFINE open == C!OpenPorts(results)
           entries == [k \in DOMAIN open |-> (IF k = 1 THEN << >> ELSE <<",">>) \o C!write_open_entry(open[k], results[open[k]])]
           closed == C!Count(results, "closed")
           filtered == C!Count(results, "filtered")
           errors == C!Count(results, "error")
<1>1. C!report_json(target, results)
        = JsonHead(C!report_json_string(C!Chars(target)), C!Total(results)) \o C!FlattenSeq(entries)
          \o JsonEnd(closed, filtered, errors)
  BY Zenon DEF C!report_json, C!report_counts, JsonHead, JsonEnd
<1>2. entries = Entries(results)
  <2>1. ASSUME NEW k \in 1 .. Len(OpenPorts(results))
        PROVE  C!write_open_entry(OpenPorts(results)[k], results[OpenPorts(results)[k]]) = EntryOf(results, OpenPorts(results)[k])
    <3> DEFINE p == OpenPorts(results)[k]
    <3>1. p \in DOMAIN results
      BY OpenPortsType
    <3> HIDE DEF p
    <3>2. C!report_json_string(results[p].banner) = JsonString(results[p].banner)
      BY Zenon, <3>1, EntryParts, CString
    <3>3. C!write_open_entry(p, results[p]) = EntryOf(results, p)
      BY <3>2, SameReportTables DEF C!write_open_entry, EntryOf
    <3> QED
      BY <3>3 DEF p
  <2>2. open = OpenPorts(results) /\ DOMAIN OpenPorts(results) = 1 .. Len(OpenPorts(results))
    BY OpenPortsType, SameCounts
  <2> QED
    BY Zenon, <2>1, <2>2 DEF Entries, Comma
<1> HIDE DEF entries
<1>3. C!FlattenSeq(entries) = Joined(Entries(results))
  BY <1>2, EntriesType, SameFlatten, Flattened
<1>4. C!report_json_string(C!Chars(target)) = JsonString(Chars(target))
  BY CharsArePieces, CString, SameReportTables
<1> QED
  BY <1>1, <1>3, <1>4, SameCounts DEF Json, JsonOf

LEMMA RustJson ==
    ASSUME NEW target \in Text, target # "wide", NEW results, IsReported(results)
    PROVE  Rust!write_json(target, results) = Json(target, results)
<1> DEFINE open == Rust!OpenPorts(results)
           entries == [k \in DOMAIN open |->
                        (IF k > 1 THEN <<",">> ELSE << >>)
                        \o <<"{port:", Rust!ToString(open[k]), "state:open", "banner:">>
                        \o Rust!write_json_string(results[open[k]].banner) \o <<"}">>]
           closed == Rust!Count(results, "closed")
           filtered == Rust!Count(results, "filtered")
           errors == Rust!Count(results, "error")
<1>1. Rust!write_json(target, results)
        = JsonHead(Rust!write_json_string(Rust!Chars(target)), Rust!Total(results)) \o Rust!FlattenSeq(entries)
          \o JsonEnd(closed, filtered, errors)
  BY Zenon DEF Rust!write_json, Rust!count_results, JsonHead, JsonEnd
<1>2. entries = Entries(results)
  <2>1. ASSUME NEW k \in 1 .. Len(OpenPorts(results)), NEW p, p = OpenPorts(results)[k]
        PROVE  (IF k > 1 THEN <<",">> ELSE << >>) \o <<"{port:", Rust!ToString(p), "state:open", "banner:">>
                    \o Rust!write_json_string(results[p].banner) \o <<"}">>
                 = Comma(k) \o EntryOf(results, p)
    <3>1. p \in DOMAIN results
      BY <2>1, OpenPortsType
    <3>2. Rust!write_json_string(results[p].banner) = JsonString(results[p].banner) /\ Rust!ToString(p) = ToString(p)
      BY Zenon, <3>1, EntryParts, RustString, SameReportTables
    <3> DEFINE front == <<"{port:", ToString(p), "state:open", "banner:">>
               string == JsonString(results[p].banner)
               end == <<"}">>
    <3>3. front \in Chain /\ string \in Chain /\ end \in Chain /\ Comma(k) \in Chain
      BY Zenon, <3>1, EntryParts, CommaType
    <3>4. (IF k > 1 THEN <<",">> ELSE << >>) = Comma(k)
      <4>1. k > 1 <=> k # 1
        BY OpenPortsType
      <4> QED
        BY Zenon, <4>1 DEF Comma
    <3>5. EntryOf(results, p) = front \o string \o end
      BY DEF EntryOf
    <3> HIDE DEF front, string, end
    <3>6. Plus(Comma(k), Plus(Plus(front, string), end)) = Plus(Plus(Plus(Comma(k), front), string), end)
      BY <3>3, Grouping
    <3> QED
      BY Zenon, <3>2, <3>4, <3>5, <3>6 DEF Plus, front, string, end
  <2>2. open = OpenPorts(results) /\ DOMAIN OpenPorts(results) = 1 .. Len(OpenPorts(results))
    BY OpenPortsType, SameCounts
  <2> QED
    BY Zenon, <2>1, <2>2 DEF Entries
<1> HIDE DEF entries
<1>3. Rust!FlattenSeq(entries) = Joined(Entries(results))
  BY <1>2, EntriesType, SameFlatten, Flattened
<1>4. Rust!write_json_string(Rust!Chars(target)) = JsonString(Chars(target))
  BY CharsArePieces, NoWide, RustString, SameReportTables
<1> QED
  BY <1>1, <1>3, <1>4, SameCounts DEF Json, JsonOf

LEMMA CsJson ==
    ASSUME NEW target \in Text, target # "wide", NEW results, IsReported(results)
    PROVE  Cs!WriteJson(target, results) = Json(target, results)
<1> DEFINE open == Cs!OpenPorts(results)
           entries == [k \in DOMAIN open |->
                        (IF k = 1 THEN << >> ELSE <<",">>)
                        \o <<"{port:", Cs!ToString(open[k]), "state:open", "banner:">>
                        \o Cs!WriteJsonString(results[open[k]].banner) \o <<"}">>]
           closed == Cs!Count(results, "closed")
           filtered == Cs!Count(results, "filtered")
           errors == Cs!Count(results, "error")
<1>1. Cs!WriteJson(target, results)
        = JsonHead(Cs!WriteJsonString(Cs!Chars(target)), Cs!Total(results)) \o Cs!FlattenSeq(entries)
          \o JsonEnd(closed, filtered, errors)
  BY Zenon DEF Cs!WriteJson, Cs!CountResults, JsonHead, JsonEnd
<1>2. entries = Entries(results)
  <2>1. ASSUME NEW k \in 1 .. Len(OpenPorts(results)), NEW p, p = OpenPorts(results)[k]
        PROVE  (IF k = 1 THEN << >> ELSE <<",">>) \o <<"{port:", Cs!ToString(p), "state:open", "banner:">>
                    \o Cs!WriteJsonString(results[p].banner) \o <<"}">>
                 = Comma(k) \o EntryOf(results, p)
    <3>1. p \in DOMAIN results
      BY <2>1, OpenPortsType
    <3>2. Cs!WriteJsonString(results[p].banner) = JsonString(results[p].banner) /\ Cs!ToString(p) = ToString(p)
      BY Zenon, <3>1, EntryParts, CsString, SameReportTables
    <3> DEFINE front == <<"{port:", ToString(p), "state:open", "banner:">>
               string == JsonString(results[p].banner)
               end == <<"}">>
    <3>3. front \in Chain /\ string \in Chain /\ end \in Chain /\ Comma(k) \in Chain
      BY Zenon, <3>1, EntryParts, CommaType
    <3>4. (IF k = 1 THEN << >> ELSE <<",">>) = Comma(k)
      BY OpenPortsType DEF Comma
    <3>5. EntryOf(results, p) = front \o string \o end
      BY DEF EntryOf
    <3> HIDE DEF front, string, end
    <3>6. Plus(Comma(k), Plus(Plus(front, string), end)) = Plus(Plus(Plus(Comma(k), front), string), end)
      BY <3>3, Grouping
    <3> QED
      BY Zenon, <3>2, <3>4, <3>5, <3>6 DEF Plus, front, string, end
  <2>2. open = OpenPorts(results) /\ DOMAIN OpenPorts(results) = 1 .. Len(OpenPorts(results))
    BY OpenPortsType, SameCounts
  <2> QED
    BY Zenon, <2>1, <2>2 DEF Entries
<1> HIDE DEF entries
<1>3. Cs!FlattenSeq(entries) = Joined(Entries(results))
  BY <1>2, EntriesType, SameFlatten, Flattened
<1>4. Cs!WriteJsonString(Cs!Chars(target)) = JsonString(Chars(target))
  BY CharsArePieces, NoWide, CsString, SameReportTables
<1> QED
  BY <1>1, <1>3, <1>4, SameCounts DEF Json, JsonOf

(* The counts are of the ports, at most.                                   *)
LEMMA CountsAreSmall ==
    ASSUME NEW results, DOMAIN results \in SUBSET (1 .. HighestPort)
    PROVE  /\ Cardinality(DOMAIN results) \in 0 .. HighestPort /\ Cardinality(DOMAIN results) \in Nat
           /\ \A state : /\ Cardinality({p \in DOMAIN results : results[p].state = state}) \in 0 .. HighestPort
                         /\ Cardinality({p \in DOMAIN results : results[p].state = state}) \in Nat
<1> DEFINE n == HighestPort
<1>1. n \in Nat
  BY DEF HighestPort
<1>2. DOMAIN results \in SUBSET (1 .. n) /\ \A state : {p \in DOMAIN results : results[p].state = state} \in SUBSET (1 .. n)
  OBVIOUS
<1> HIDE DEF n
<1>3. \A S \in SUBSET (1 .. n) : Cardinality(S) \in 0 .. n /\ Cardinality(S) \in Nat
  BY <1>1, AscendingExists
<1> QED
  BY <1>2, <1>3 DEF n

(* The C++ program looks at what it has written so far to know whether a   *)
(* comma is due.                                                           *)
CppAdd(out, results, p) ==
    out \o (IF Last(out) = "open:[" THEN << >> ELSE <<",">>)
        \o <<"{port:", ToString(p), "state:open", "banner:">> \o JsonString(results[p].banner) \o <<"}">>

LEMMA HeadType ==
    ASSUME NEW string \in Chain, NEW n \in Nat
    PROVE  /\ JsonHead(string, ToString(n)) \in Chain
           /\ Last(JsonHead(string, ToString(n))) = "open:["
<1>1. "{target:" \in Piece /\ "scanned:" \in Piece /\ "open:[" \in Piece
  <2>1. "{target:" \in Marks /\ "scanned:" \in Marks /\ "open:[" \in Marks
    BY Zenon DEF Marks
  <2> QED
    BY Zenon, <2>1, Pieces
<1>2. \A v, w, x \in Piece : <<v>> \in Chain /\ <<v, w, x>> \in Chain
  BY DEF Chain
<1>3. ToString(n) \in Piece
  BY Pieces
<1>4. <<"{target:">> \in Chain /\ <<"scanned:", ToString(n), "open:[">> \in Chain
  BY Zenon, <1>1, <1>2, <1>3
<1>5. <<"{target:">> \o string \in Chain
  BY Zenon, <1>4, Concatenation
<1>6. \A s \in Chain, v, w, x \in Piece : Last(s \o <<v, w, x>>) = x
  BY DEF Chain, Last
<1>7. Last((<<"{target:">> \o string) \o <<"scanned:", ToString(n), "open:[">>) = "open:["
  <2> DEFINE start == <<"{target:">> \o string
  <2>1. start \in Chain
    BY Zenon, <1>5
  <2> HIDE DEF start
  <2> DEFINE v == "scanned:"
             w == ToString(n)
             x == "open:["
  <2>2. v \in Piece /\ w \in Piece /\ x \in Piece
    BY Zenon, <1>1, <1>3
  <2> HIDE DEF v, w, x
  <2>3. Last(start \o <<v, w, x>>) = x
    BY <1>6, <2>1, <2>2
  <2> QED
    BY Zenon, <2>3 DEF start, v, w, x
<1> QED
  BY Zenon, <1>4, <1>5, <1>7, Concatenation DEF JsonHead

LEMMA CppAddType ==
    ASSUME NEW results, IsReported(results), NEW p \in DOMAIN results, NEW out \in Chain
    PROVE  /\ CppAdd(out, results, p) \in Chain /\ Last(CppAdd(out, results, p)) = "}"
           /\ Last(out) = "open:[" => CppAdd(out, results, p) = out \o (<< >> \o EntryOf(results, p))
           /\ Last(out) # "open:[" => CppAdd(out, results, p) = out \o (<<",">> \o EntryOf(results, p))
<1> DEFINE front == <<"{port:", ToString(p), "state:open", "banner:">>
           string == JsonString(results[p].banner)
           end == <<"}">>
           comma == IF Last(out) = "open:[" THEN << >> ELSE <<",">>
<1>1. front \in Chain /\ string \in Chain /\ end \in Chain
  BY Zenon, EntryParts
<1>2. comma \in Chain
  BY Zenon, CommaType, Concatenation
<1>3. CppAdd(out, results, p) = out \o comma \o front \o string \o end /\ EntryOf(results, p) = front \o string \o end
  BY Zenon DEF CppAdd, EntryOf
<1>4. (Last(out) = "open:[" => comma = << >>) /\ (Last(out) # "open:[" => comma = <<",">>)
  BY Zenon
<1>5. end = <<"}">> /\ "}" \in Piece
  <2>1. "}" \in Marks
    BY Zenon DEF Marks
  <2> QED
    BY Zenon, <2>1, Pieces
<1> HIDE DEF front, string, end, comma
<1>6. out \o comma \in Chain /\ out \o comma \o front \in Chain /\ out \o comma \o front \o string \in Chain
      /\ front \o string \o end \in Chain
  BY <1>1, <1>2, Concatenation
<1>7. out \o comma \o front \o string \o end = out \o (comma \o (front \o string \o end))
  <2>1. Plus(out, Plus(comma, Plus(Plus(front, string), end))) = Plus(Plus(Plus(Plus(out, comma), front), string), end)
    BY <1>1, <1>2, Grouping
  <2> QED
    BY <2>1 DEF Plus
<1>8. \A s \in Chain, v \in Piece : Last(s \o <<v>>) = v /\ s \o <<v>> \in Chain
  BY DEF Chain, Last
<1>9. CppAdd(out, results, p) \in Chain /\ Last(CppAdd(out, results, p)) = "}"
  BY Zenon, <1>3, <1>5, <1>6, <1>8
<1> QED
  BY Zenon, <1>3, <1>4, <1>7, <1>9

(* Such a step, with the comma worked out from the position.               *)
LEMMA CppAddIs ==
    ASSUME NEW results, IsReported(results), NEW p \in DOMAIN results, NEW out \in Chain,
           NEW k, k = 1 <=> Last(out) = "open:["
    PROVE  CppAdd(out, results, p) = out \o (Comma(k) \o EntryOf(results, p))
<1>1. CASE k = 1
  BY Zenon, <1>1, CppAddType DEF Comma
<1>2. CASE k # 1
  BY Zenon, <1>2, CppAddType DEF Comma
<1> QED
  BY <1>1, <1>2

LEMMA CppLoop ==
    ASSUME NEW results, IsReported(results), NEW head \in Chain, Last(head) = "open:["
    PROVE  LET step == [pair \in Chain \X DOMAIN results |-> CppAdd(pair[1], results, pair[2])]
           IN  /\ IsStep(Chain, DOMAIN results, step)
               /\ Fold(Chain, step, head, OpenPorts(results)) = head \o Joined(Entries(results))
<1> DEFINE V == DOMAIN results
           step == [pair \in Chain \X V |-> CppAdd(pair[1], results, pair[2])]
           open == OpenPorts(results)
           chains == Entries(results)
<1>1. \A out \in Chain, p \in V : step[<<out, p>>] = CppAdd(out, results, p)
  OBVIOUS
<1>2. IsStep(Chain, V, step)
  BY Zenon, CppAddType DEF IsStep
<1>3. /\ open \in Seq(V) /\ Len(open) \in Nat /\ \A k \in 1 .. Len(open) : open[k] \in V
      /\ \A k \in 1 .. Len(open) : chains[k] = Comma(k) \o EntryOf(results, open[k])
      /\ chains \in Seq(Chain) /\ Len(chains) = Len(open)
  BY OpenPortsType, EntriesType DEF Entries
<1> HIDE DEF step, open, chains
<1>4. PICK f : IsRun(Chain, step, head, open, f)
  BY <1>2, <1>3, RunOfSeq
<1>5. f[0] = head /\ \A k \in 1 .. Len(open) : f[k] = step[<<f[k - 1], open[k]>>] /\ f[k - 1] \in Chain
  <2>1. \A k \in 1 .. Len(open) : k - 1 \in 0 .. Len(open)
    BY <1>3
  <2> QED
    BY <1>4, <2>1 DEF IsRun
<1>6. \A k \in 1 .. Len(open) : f[k] = CppAdd(f[k - 1], results, open[k])
  BY <1>1, <1>3, <1>5
<1>7. ASSUME NEW k \in 1 .. Len(chains), f[k - 1] \in Chain PROVE f[k] = f[k - 1] \o chains[k]
  <2>1. k \in 1 .. Len(open) /\ open[k] \in V /\ chains[k] = Comma(k) \o EntryOf(results, open[k])
    BY <1>3
  <2>2. f[k] = CppAdd(f[k - 1], results, open[k])
    BY <1>6, <2>1
  <2>3. k = 1 <=> Last(f[k - 1]) = "open:["
    <3>1. CASE k = 1
      <4>1. f[k - 1] = head
        BY <1>5, <3>1
      <4> QED
        BY Zenon, <3>1, <4>1
    <3>2. CASE k # 1
      <4>1. k - 1 \in 1 .. Len(open) /\ (k - 1) - 1 \in 0 .. Len(open)
        BY <1>3, <2>1, <3>2
      <4>2. f[k - 1] = CppAdd(f[(k - 1) - 1], results, open[k - 1]) /\ f[(k - 1) - 1] \in Chain /\ open[k - 1] \in V
        BY <1>3, <1>5, <1>6, <4>1
      <4>3. \E out \in Chain, v \in V : f[k - 1] = CppAdd(out, results, v)
        BY <4>2
      <4>4. Last(f[k - 1]) = "}"
        <5>1. PICK out \in Chain, v \in V : f[k - 1] = CppAdd(out, results, v)
          BY <4>3
        <5>2. Last(CppAdd(out, results, v)) = "}"
          BY Zenon, <5>1, CppAddType
        <5> QED
          BY Zenon, <5>1, <5>2
      <4> QED
        BY Zenon, <3>2, <4>4
    <3> QED
      BY <3>1, <3>2
  <2>4. CppAdd(f[k - 1], results, open[k]) = f[k - 1] \o (Comma(k) \o EntryOf(results, open[k]))
    BY Zenon, <1>7, <2>1, <2>3, CppAddIs
  <2> QED
    BY <2>1, <2>2, <2>4
<1>8. f[Len(chains)] = head \o Joined(chains)
  BY <1>3, <1>5, <1>7, JoinedSteps
<1>9. Fold(Chain, step, head, open) = f[Len(open)]
  BY <1>3, <1>4, FoldOfRun
<1> QED
  BY <1>2, <1>3, <1>8, <1>9 DEF step, open, chains

LEMMA CppJson ==
    ASSUME NEW target \in Text, NEW results, IsReported(results)
    PROVE  Cpp!writeJson(target, results) = Json(target, results)
<1> DEFINE V == DOMAIN results
           step == [pair \in Chain \X V |-> CppAdd(pair[1], results, pair[2])]
           open == OpenPorts(results)
           Loop(out, p) ==
                out \o (IF Cpp!Last(out) = "open:[" THEN << >> ELSE <<",">>)
                    \o <<"{port:", ToString(p), "state:open", "banner:">>
                    \o Cpp!writeJsonString(results[p].banner) \o <<"}">>
           head == JsonHead(JsonString(Chars(target)), Total(results))
           end == JsonEnd(Count(results, "closed"), Count(results, "filtered"), Count(results, "error"))
<1>1. Cpp!writeJson(target, results)
        = Cpp!FoldLeft(Loop, JsonHead(Cpp!writeJsonString(Cpp!Chars(target)), Cpp!Total(results)), Cpp!OpenPorts(results))
          \o JsonEnd(Cpp!Count(results, "closed"), Cpp!Count(results, "filtered"), Cpp!Count(results, "error"))
  BY Zenon DEF Cpp!writeJson, Cpp!countResults, JsonHead, JsonEnd, Cpp!ToString, ToString
<1>2. Cpp!writeJsonString(Cpp!Chars(target)) = JsonString(Chars(target))
  BY CharsArePieces, CppString, SameReportTables
<1> HIDE DEF Loop
<1>3. Cpp!writeJson(target, results) = Cpp!FoldLeft(Loop, head, open) \o end
  BY <1>1, <1>2, SameCounts
<1>4. head \in Chain /\ Last(head) = "open:["
  <2>1. Total(results) = ToString(Cardinality(DOMAIN results)) /\ Cardinality(DOMAIN results) \in Nat
    BY Zenon, CountsAreSmall DEF Total, IsReported
  <2> QED
    BY <2>1, CharsArePieces, StringType, HeadType
<1>5. IsStep(Chain, V, step) /\ Fold(Chain, step, head, open) = head \o Joined(Entries(results))
  <2> HIDE DEF head
  <2> QED
    BY <1>4, CppLoop
<1>6. open \in Seq(V) /\ DOMAIN open = 1 .. Len(open)
  BY OpenPortsType
<1>7. ASSUME NEW out \in Chain, NEW p \in V PROVE step[<<out, p>>] = Loop(out, p)
  <2>1. step[<<out, p>>] = CppAdd(out, results, p)
    OBVIOUS
  <2>2. Cpp!writeJsonString(results[p].banner) = JsonString(results[p].banner)
    BY Zenon, EntryParts, CppString
  <2>3. Cpp!Last(out) = Last(out)
    BY DEF Cpp!Last, Last
  <2> QED
    BY Zenon, <2>1, <2>2, <2>3 DEF CppAdd, Loop
<1>8. Cpp!FoldLeft(Loop, head, open) = Fold(Chain, step, head, open)
  <2> HIDE DEF V, step, open, head
  <2> DEFINE Body(it) == [s \in SUBSET DOMAIN open |->
                            IF s = {} THEN head ELSE Loop(it[s \ {Max(s)}], open[Max(s)])]
             iter == CHOOSE it : it = Body(it)
  <2>1. Cpp!FoldLeft(Loop, head, open) = iter[DOMAIN open]
    BY DEF Cpp!FoldLeft, Cpp!MapThenFoldSet, Cpp!Max, Max
  <2>2. open \in Seq(V) /\ DOMAIN open = 1 .. Len(open) /\ IsStep(Chain, V, step) /\ head \in Chain
    BY <1>4, <1>5, <1>6
  <2>3. \A x \in Chain, v \in V : step[<<x, v>>] = Loop(x, v)
    BY Zenon, <1>7
  <2>4. \E it : it = Body(it)
    <3>1. PICK it : Recurs(Chain, V, step, head, open, it)
      BY <2>2, IterExists
    <3>2. it = Body(it)
      BY <2>2, <2>3, <3>1 DEF Recurs
    <3> QED
      BY <3>2
  <2>5. iter = Body(iter)
    <3> HIDE DEF Body
    <3> QED
      BY <2>4
  <2> HIDE DEF iter, Body
  <2>6. iter[{}] = head
    BY <2>5 DEF Body
  <2>7. ASSUME NEW s \in SUBSET (1 .. Len(open)), s # {}, iter[s \ {Max(s)}] \in Chain
        PROVE  iter[s] = step[<<iter[s \ {Max(s)}], open[Max(s)]>>]
    <3>1. open[Max(s)] \in V
      <4>1. Len(open) \in Nat
        BY <2>2
      <4>2. Max(s) \in s /\ s \subseteq 1 .. Len(open)
        BY <2>7, <4>1, LastPosition
      <4>3. Max(s) \in 1 .. Len(open)
        BY <4>2
      <4> HIDE DEF Body
      <4> QED
        BY <2>2, <4>3
    <3>2. iter[s] = Loop(iter[s \ {Max(s)}], open[Max(s)])
      BY <2>2, <2>5, <2>7 DEF Body
    <3> QED
      BY <2>3, <2>7, <3>1, <3>2
  <2>8. iter[1 .. Len(open)] = Fold(Chain, step, head, open)
    <3>1. Follows(Chain, step, head, open, iter)
      BY <2>6, <2>7 DEF Follows
    <3> QED
      BY <2>2, <3>1, FoldOfIter
  <2> QED
    BY <2>1, <2>2, <2>8
<1> HIDE DEF V, step, head, end
<1> QED
  BY <1>3, <1>5, <1>8 DEF Json, JsonOf, head, end

-----------------------------------------------------------------------------
(* Reading a table, line by line.                                          *)

LineAdd(lines, piece) ==
    IF piece = "\n" THEN Append(lines, << >>) ELSE Front(lines) \o <<Append(Last(lines), piece)>>
Pages == {lines \in Seq(Chain) : Len(lines) > 0}
LineStep == [pair \in Pages \X Piece |-> LineAdd(pair[1], pair[2])]
FirstPage == << << >> >>

OneLine(line) == \A k \in 1 .. Len(line) : line[k] # "\n"

LEMMA LineAddIs ==
    ASSUME NEW above \in Seq(Chain), NEW line \in Chain, NEW piece \in Piece
    PROVE  /\ Append(above, line) \in Pages /\ Append(line, piece) \in Chain
           /\ piece = "\n" => LineAdd(Append(above, line), piece) = Append(Append(above, line), << >>)
           /\ piece # "\n" => LineAdd(Append(above, line), piece) = Append(above, Append(line, piece))
<1>1. Append(above, line) \in Pages
  BY DEF Pages
<1>2. Append(line, piece) \in Chain
  BY DEF Chain
<1>3. Last(Append(above, line)) = line
  BY DEF Last
<1>4. Front(Append(above, line)) = above
  BY DEF Front
<1> DEFINE longer == Append(line, piece)
<1>5. longer \in Chain
  BY <1>2
<1> HIDE DEF longer
<1>6. above \o <<longer>> = Append(above, longer)
  BY <1>5
<1> QED
  BY <1>1, <1>2, <1>3, <1>4, <1>6 DEF LineAdd, longer

LEMMA LineStepType == IsStep(Pages, Piece, LineStep) /\ FirstPage \in Pages /\ FirstPage = Append(<< >>, << >>)
<1>1. ASSUME NEW lines \in Pages, NEW piece \in Piece PROVE LineAdd(lines, piece) \in Pages
  <2> DEFINE above == Front(lines)
             line == Last(lines)
  <2>1. above \in Seq(Chain) /\ line \in Chain /\ lines = Append(above, line)
    BY DEF Pages, Front, Last
  <2> HIDE DEF above, line
  <2>2. << >> \in Chain /\ Append(line, piece) \in Chain
    BY <2>1, Concatenation, LineAddIs
  <2>3. \A l \in Chain : Append(lines, l) \in Pages /\ Append(above, l) \in Pages
    BY <2>1 DEF Pages
  <2> QED
    BY <2>1, <2>2, <2>3, LineAddIs
<1>2. FirstPage \in Pages /\ FirstPage = Append(<< >>, << >>)
  <2> DEFINE empty == << >>
  <2>1. empty \in Chain
    BY Concatenation
  <2> HIDE DEF empty
  <2>2. <<empty>> \in Pages /\ <<empty>> = Append(<< >>, empty)
    BY <2>1 DEF Pages
  <2> QED
    BY <2>2 DEF FirstPage, empty
<1> QED
  BY <1>1, <1>2 DEF IsStep, LineStep

LEMMA LinesIsFold ==
    ASSUME NEW text \in Chain
    PROVE  Lines(text) = Fold(Pages, LineStep, FirstPage, text)
<1>0. Lines(text) = FoldLeft(LineAdd, FirstPage, text)
  BY Zenon DEF Lines, LineAdd, FirstPage
<1> DEFINE Body(it) == [s \in SUBSET DOMAIN text |->
                          IF s = {} THEN FirstPage ELSE LineAdd(it[s \ {Max(s)}], text[Max(s)])]
           iter == CHOOSE it : it = Body(it)
<1>1. FoldLeft(LineAdd, FirstPage, text) = iter[DOMAIN text]
  BY DEF FoldLeft, MapThenFoldSet, Max
<1>2. text \in Seq(Piece) /\ DOMAIN text = 1 .. Len(text) /\ IsStep(Pages, Piece, LineStep) /\ FirstPage \in Pages
  BY LineStepType DEF Chain
<1>3. \A x \in Pages, v \in Piece : LineStep[<<x, v>>] = LineAdd(x, v)
  BY DEF LineStep
<1>4. \E it : it = Body(it)
  <2>1. PICK it : Recurs(Pages, Piece, LineStep, FirstPage, text, it)
    BY <1>2, IterExists
  <2>2. it = Body(it)
    BY <1>2, <1>3, <2>1 DEF Recurs
  <2> QED
    BY <2>2
<1>5. iter = Body(iter)
  <2> HIDE DEF Body
  <2> QED
    BY <1>4
<1> HIDE DEF iter, Body
<1>6. iter[{}] = FirstPage
  BY <1>5 DEF Body
<1>7. ASSUME NEW s \in SUBSET (1 .. Len(text)), s # {}, iter[s \ {Max(s)}] \in Pages
      PROVE  iter[s] = LineStep[<<iter[s \ {Max(s)}], text[Max(s)]>>]
  <2>1. text[Max(s)] \in Piece
    <3>1. Len(text) \in Nat
      BY <1>2
    <3>2. Max(s) \in s /\ s \subseteq 1 .. Len(text)
      BY <1>7, <3>1, LastPosition
    <3>3. Max(s) \in 1 .. Len(text)
      BY <3>2
    <3> HIDE DEF Body
    <3> QED
      BY <1>2, <3>3
  <2>2. iter[s] = LineAdd(iter[s \ {Max(s)}], text[Max(s)])
    BY <1>2, <1>5, <1>7 DEF Body
  <2> QED
    BY <1>3, <1>7, <2>1, <2>2
<1>8. iter[1 .. Len(text)] = Fold(Pages, LineStep, FirstPage, text)
  <2>1. Follows(Pages, LineStep, FirstPage, text, iter)
    BY <1>6, <1>7 DEF Follows
  <2> QED
    BY <1>2, <2>1, FoldOfIter
<1> QED
  BY <1>0, <1>1, <1>2, <1>8

(* A line grows piece by piece, and ends.                                  *)
LEMMA LineGrows ==
    ASSUME NEW above \in Seq(Chain), NEW line \in Chain, OneLine(line)
    PROVE  Fold(Pages, LineStep, Append(above, << >>), line) = Append(above, line)
<1> DEFINE part(m) == SubSeq(line, 1, m)
           start == Append(above, << >>)
<1>1. Len(line) \in Nat /\ line \in Seq(Piece) /\ start \in Pages
  BY Concatenation, LineAddIs DEF Chain, Pages
<1>2. /\ part(0) = << >> /\ part(Len(line)) = line
      /\ \A m \in 0 .. Len(line) : part(m) \in Chain
      /\ \A m \in 0 .. Len(line) - 1 : part(m + 1) = Append(part(m), line[m + 1])
  BY DEF Chain
<1> HIDE DEF part, start
<1>3. PICK f : IsRun(Pages, LineStep, start, line, f)
  BY <1>1, LineStepType, RunOfSeq
<1> DEFINE Good == {m \in Nat : m <= Len(line) => f[m] = Append(above, part(m))}
<1>4. 0 \in Good
  BY <1>2, <1>3 DEF IsRun, start
<1>5. ASSUME NEW m \in Nat, m \in Good PROVE m + 1 \in Good
  <2>1. ASSUME m + 1 <= Len(line) PROVE f[m + 1] = Append(above, part(m + 1))
    <3>1. m + 1 \in 1 .. Len(line) /\ m \in 0 .. Len(line) - 1 /\ m \in 0 .. Len(line) /\ (m + 1) - 1 = m
      BY <1>1, <2>1
    <3>2. f[m] = Append(above, part(m)) /\ part(m) \in Chain /\ line[m + 1] \in Piece /\ line[m + 1] # "\n"
      BY <1>1, <1>2, <1>5, <2>1, <3>1 DEF OneLine
    <3>3. f[m + 1] = LineStep[<<f[m], line[m + 1]>>]
      BY <1>3, <3>1 DEF IsRun
    <3>4. f[m + 1] = LineAdd(Append(above, part(m)), line[m + 1])
      BY <3>2, <3>3, LineAddIs DEF LineStep
    <3>5. LineAdd(Append(above, part(m)), line[m + 1]) = Append(above, Append(part(m), line[m + 1]))
      BY <3>2, LineAddIs
    <3>6. part(m + 1) = Append(part(m), line[m + 1])
      BY <1>2, <3>1
    <3> QED
      BY Zenon, <3>4, <3>5, <3>6
  <2> QED
    BY <2>1
<1> HIDE DEF Good
<1>6. Len(line) \in Good
  BY <1>1, <1>4, <1>5, Induction
<1>7. f[Len(line)] = Append(above, line)
  BY <1>1, <1>2, <1>6 DEF Good
<1>8. Fold(Pages, LineStep, start, line) = f[Len(line)]
  BY <1>1, <1>3, FoldOfRun
<1> QED
  BY <1>7, <1>8 DEF start

NewLine == <<"\n">>

LEMMA NewLineType == NewLine \in Chain /\ "\n" \in Piece
<1>1. "\n" \in Piece
  <2>1. "\n" \in Marks
    BY Zenon DEF Marks
  <2> QED
    BY <2>1, Pieces
<1>2. \A v \in Piece : <<v>> \in Chain
  BY DEF Chain
<1> QED
  BY <1>1, <1>2 DEF NewLine

LEMMA LineCloses ==
    ASSUME NEW above \in Seq(Chain), NEW line \in Chain, OneLine(line)
    PROVE  Fold(Pages, LineStep, Append(above, << >>), line \o NewLine) = Append(Append(above, line), << >>)
<1> DEFINE start == Append(above, << >>)
           next == Append(above, line)
<1>1. start \in Pages /\ next \in Pages
  BY Concatenation, LineAddIs, NewLineType
<1>2. Fold(Pages, LineStep, start, line) = next
  BY LineGrows
<1>3. Fold(Pages, LineStep, next, NewLine) = Append(next, << >>)
  <2>1. Fold(Pages, LineStep, next, NewLine) = LineStep[<<next, "\n">>]
    <3> HIDE DEF next
    <3> QED
      BY <1>1, LineStepType, NewLineType, FoldOfOne DEF NewLine
  <2>2. LineStep[<<next, "\n">>] = LineAdd(next, "\n")
    BY <1>1, NewLineType DEF LineStep
  <2> QED
    BY <2>1, <2>2, NewLineType, LineAddIs
<1> HIDE DEF start, next
<1>4. Fold(Pages, LineStep, start, line \o NewLine) = Fold(Pages, LineStep, Fold(Pages, LineStep, start, line), NewLine)
  BY <1>1, LineStepType, NewLineType, FoldConcat DEF Chain
<1> QED
  BY <1>2, <1>3, <1>4 DEF start, next

(* Lines one after another.                                                *)
LEMMA LinesOfJoined ==
    ASSUME NEW above \in Seq(Chain), NEW lines \in Seq(Chain), \A k \in 1 .. Len(lines) : OneLine(lines[k])
    PROVE  Fold(Pages, LineStep, Append(above, << >>), Joined([k \in 1 .. Len(lines) |-> lines[k] \o NewLine]))
             = Append(above \o lines, << >>)
<1> DEFINE start == Append(above, << >>)
           chains == [k \in 1 .. Len(lines) |-> lines[k] \o NewLine]
           page(m) == above \o SubSeq(lines, 1, m)
           n == Len(lines)
<1>1. /\ start \in Pages /\ n \in Nat /\ chains \in Seq(Chain) /\ Len(chains) = n
      /\ \A k \in 1 .. n : chains[k] = lines[k] \o NewLine /\ lines[k] \in Chain /\ OneLine(lines[k])
  <2>1. n \in Nat /\ \A k \in 1 .. n : lines[k] \in Chain
    OBVIOUS
  <2>2. \A k \in 1 .. n : lines[k] \o NewLine \in Chain
    BY <2>1, Concatenation, NewLineType
  <2>3. start \in Pages
    BY Concatenation, NewLineType, LineAddIs
  <2> QED
    BY <2>1, <2>2, <2>3
<1>2. /\ page(0) = above /\ page(n) = above \o lines
      /\ \A m \in 0 .. n : page(m) \in Seq(Chain)
      /\ \A m \in 0 .. n - 1 : page(m + 1) = Append(page(m), lines[m + 1])
  OBVIOUS
<1> HIDE DEF start, chains, page, n
<1>3. PICK g : IsRun(Chain, Cat, << >>, chains, g)
  BY <1>1, CatType, Concatenation, RunOfSeq
<1> DEFINE Good == {m \in Nat : m <= n => Fold(Pages, LineStep, start, g[m]) = Append(page(m), << >>)}
<1>4. 0 \in Good
  <2>1. g[0] = << >>
    BY <1>3 DEF IsRun
  <2>2. Fold(Pages, LineStep, start, << >>) = start
    BY <1>1, FoldOfNone
  <2> QED
    BY <1>2, <2>1, <2>2 DEF start
<1>5. ASSUME NEW m \in Nat, m \in Good PROVE m + 1 \in Good
  <2>1. ASSUME m + 1 <= n PROVE Fold(Pages, LineStep, start, g[m + 1]) = Append(page(m + 1), << >>)
    <3>1. m + 1 \in 1 .. n /\ m \in 0 .. n - 1 /\ m \in 0 .. n /\ (m + 1) - 1 = m
      BY <1>1, <2>1
    <3>2. g[m] \in Chain /\ g[m + 1] = Cat[<<g[m], chains[m + 1]>>]
      BY <1>1, <1>3, <3>1 DEF IsRun
    <3>3. chains[m + 1] = lines[m + 1] \o NewLine /\ chains[m + 1] \in Chain
      BY <1>1, <3>1
    <3>4. g[m + 1] = g[m] \o chains[m + 1]
      BY <3>2, <3>3 DEF Cat
    <3>5. Fold(Pages, LineStep, start, g[m] \o chains[m + 1])
            = Fold(Pages, LineStep, Fold(Pages, LineStep, start, g[m]), chains[m + 1])
      <4> DEFINE next == chains[m + 1]
                 old == g[m]
      <4>1. old \in Seq(Piece) /\ next \in Seq(Piece)
        BY <3>2, <3>3 DEF Chain
      <4> HIDE DEF next, old
      <4>2. Fold(Pages, LineStep, start, old \o next) = Fold(Pages, LineStep, Fold(Pages, LineStep, start, old), next)
        BY <1>1, <4>1, LineStepType, FoldConcat
      <4> QED
        BY <4>2 DEF next, old
    <3>6. Fold(Pages, LineStep, start, g[m]) = Append(page(m), << >>)
      BY <1>5, <2>1, <3>1, <1>1
    <3>7. Fold(Pages, LineStep, Append(page(m), << >>), lines[m + 1] \o NewLine)
            = Append(Append(page(m), lines[m + 1]), << >>)
      BY <1>1, <1>2, <3>1, LineCloses
    <3> QED
      BY <1>2, <3>1, <3>3, <3>4, <3>5, <3>6, <3>7
  <2> QED
    BY <2>1
<1> HIDE DEF Good
<1>6. n \in Good
  BY <1>1, <1>4, <1>5, Induction
<1>7. Fold(Pages, LineStep, start, g[n]) = Append(page(n), << >>)
  BY <1>1, <1>6 DEF Good
<1>8. Joined(chains) = g[n]
  BY <1>1, <1>3, FoldOfRun DEF Joined
<1> QED
  BY <1>2, <1>7, <1>8 DEF start, chains, n

(* Where a piece stands first.                                             *)
Find(seq, name) == SelectInSeq(seq, LAMBDA piece : piece = name)

FirstAt(seq, name, i) ==
    i \in 1 .. Len(seq) /\ seq[i] = name /\ \A j \in 1 .. Len(seq) : j < i => seq[j] # name

LEMMA FindIs ==
    ASSUME NEW seq, Len(seq) \in Nat, NEW name, NEW i, FirstAt(seq, name, i)
    PROVE  Find(seq, name) = i /\ Contains(seq, name) /\ NumberBefore(seq, name) = seq[i - 1]
<1> DEFINE I == {j \in 1 .. Len(seq) : seq[j] = name}
<1>1. i \in I /\ \A j \in I : i <= j /\ j \in Nat
  BY DEF FirstAt
<1>2. Find(seq, name) = IF I # {} THEN Min(I) ELSE 0
  BY DEF Find, SelectInSeq
<1>3. Contains(seq, name)
  BY <1>1 DEF Contains
<1> HIDE DEF I
<1>4. Min(I) = i
  <2>1. \A x \in I : (\A y \in I : x <= y) => x = i
    BY <1>1
  <2>2. Min(I) \in I /\ \A y \in I : Min(I) <= y
    BY <1>1 DEF Min
  <2> QED
    BY <2>1, <2>2
<1>5. Find(seq, name) = i
  BY <1>1, <1>2, <1>4
<1>6. NumberBefore(seq, name) = IF Contains(seq, name) THEN seq[Find(seq, name) - 1] ELSE "0"
  BY Zenon DEF NumberBefore, Find
<1> QED
  BY <1>3, <1>5, <1>6

LEMMA FindNone ==
    ASSUME NEW seq, NEW name, \A j \in 1 .. Len(seq) : seq[j] # name
    PROVE  NumberBefore(seq, name) = "0"
<1>1. ~Contains(seq, name)
  BY DEF Contains
<1> QED
  BY <1>1 DEF NumberBefore

(* The line of the summary.                                                *)
Summary(chars, total, open, closed, filtered, errors) ==
    <<"scanned", total, "ports on">> \o chars
    \o <<"(address)", open, "open", closed, "closed", filtered, "filtered">>
    \o (IF errors # "0" THEN <<errors, "errors">> ELSE << >>)

Glued(all, r, m, s, n) ==
    /\ all \in Chain /\ m \in Nat /\ n \in Nat /\ Len(all) = m + n
    /\ \A k \in 1 .. m : all[k] = r[k]
    /\ \A k \in m + 1 .. m + n : all[k] = s[k - m]

LEMMA PlusIs ==
    ASSUME NEW r \in Chain, NEW s \in Chain, NEW m, m = Len(r), NEW n, n = Len(s)
    PROVE  Glued(Plus(r, s), r, m, s, n)
<1>1. /\ Plus(r, s) \in Chain /\ m \in Nat /\ n \in Nat /\ Len(Plus(r, s)) = m + n
      /\ \A k \in 1 .. m : Plus(r, s)[k] = r[k]
  BY DEF Plus, Chain
<1>2. \A k \in m + 1 .. m + n : Plus(r, s)[k] = s[k - m]
  BY DEF Plus, Chain
<1> QED
  BY <1>1, <1>2 DEF Glued

InARow(all, r, chars, n, s, t) ==
    /\ all \in Chain /\ n \in Nat /\ Len(t) \in Nat
    /\ Len(all) = 10 + n + Len(t)
    /\ \A k \in 1 .. 3 : all[k] = r[k]
    /\ \A k \in 4 .. 3 + n : all[k] = chars[k - 3]
    /\ \A k \in 4 + n .. 10 + n : all[k] = s[k - (3 + n)]
    /\ \A k \in 11 + n .. 10 + n + Len(t) : all[k] = t[k - (10 + n)]

LEMMA FourInARow ==
    ASSUME NEW r \in Chain, Len(r) = 3, NEW chars \in Chain, NEW s \in Chain, Len(s) = 7, NEW t \in Chain,
           NEW all, all = Plus(Plus(Plus(r, chars), s), t), NEW n, n = Len(chars)
    PROVE  InARow(all, r, chars, n, s, t)
<1> DEFINE a == Plus(r, chars)
           b == Plus(a, s)
<1>1. n \in Nat /\ Len(t) \in Nat
  BY DEF Chain
<1>2. /\ a \in Chain /\ Len(a) = 3 + n
      /\ \A k \in 1 .. 3 : a[k] = r[k]
      /\ \A k \in 4 .. 3 + n : a[k] = chars[k - 3]
  <2>1. Glued(a, r, 3, chars, n)
    BY PlusIs
  <2> HIDE DEF a
  <2> QED
    BY <2>1 DEF Glued
<1> HIDE DEF a
<1>3. /\ b \in Chain /\ Len(b) = 10 + n
      /\ \A k \in 1 .. 3 + n : b[k] = a[k]
      /\ \A k \in 4 + n .. 10 + n : b[k] = s[k - (3 + n)]
  <2> DEFINE m == 3 + n
  <2>1. m \in Nat /\ m + 1 = 4 + n /\ m + 7 = 10 + n
    BY <1>1
  <2> HIDE DEF m
  <2>2. Glued(b, a, m, s, 7)
    <3>1. m = Len(a)
      BY <1>2 DEF m
    <3> QED
      BY <1>2, <3>1, PlusIs
  <2> HIDE DEF b
  <2>3. /\ b \in Chain /\ Len(b) = 10 + n
        /\ \A k \in 1 .. m : b[k] = a[k]
        /\ \A k \in 4 + n .. 10 + n : b[k] = s[k - m]
    BY <2>1, <2>2 DEF Glued
  <2> QED
    BY <2>3 DEF m
<1> HIDE DEF b
<1>4. /\ all \in Chain /\ Len(all) = 10 + n + Len(t)
      /\ \A k \in 1 .. 10 + n : all[k] = b[k]
      /\ \A k \in 11 + n .. 10 + n + Len(t) : all[k] = t[k - (10 + n)]
  <2> DEFINE m == 10 + n
  <2>1. m \in Nat /\ m + 1 = 11 + n /\ m + Len(t) = 10 + n + Len(t)
    BY <1>1
  <2> HIDE DEF m
  <2>2. Glued(all, b, m, t, Len(t))
    <3>1. m = Len(b) /\ all = Plus(b, t)
      BY <1>3 DEF m, a, b
    <3> QED
      BY <1>3, <3>1, PlusIs
  <2>3. /\ all \in Chain /\ Len(all) = 10 + n + Len(t)
        /\ \A k \in 1 .. m : all[k] = b[k]
        /\ \A k \in 11 + n .. 10 + n + Len(t) : all[k] = t[k - m]
    BY <2>1, <2>2 DEF Glued
  <2> QED
    BY <2>3 DEF m
<1>5. \A k \in 1 .. 3 : all[k] = r[k]
  <2>1. \A k \in 1 .. 3 : k \in 1 .. 3 + n /\ k \in 1 .. 10 + n
    BY <1>1
  <2> QED
    BY <1>2, <1>3, <1>4, <2>1
<1>6. \A k \in 4 .. 3 + n : all[k] = chars[k - 3]
  <2>1. \A k \in 4 .. 3 + n : k \in 1 .. 3 + n /\ k \in 1 .. 10 + n
    BY <1>1
  <2> QED
    BY <1>2, <1>3, <1>4, <2>1
<1>7. \A k \in 4 + n .. 10 + n : all[k] = s[k - (3 + n)]
  <2>1. \A k \in 4 + n .. 10 + n : k \in 1 .. 10 + n
    BY <1>1
  <2> QED
    BY <1>3, <1>4, <2>1
<1> QED
  BY <1>1, <1>4, <1>5, <1>6, <1>7 DEF InARow

(* A summary reads back, when no number and no character of the target is  *)
(* taken for a name in it.                                                 *)
IsData(piece) == piece \in Piece /\ piece \notin Reserved

SummaryNames == {"ports on", "(address)", "closed", "filtered", "errors", "\n"}

NamesNothing(chars) == \A k \in 1 .. Len(chars) : chars[k] \notin SummaryNames

SaysAll(s, chars, total, closed, filtered, errors) ==
    /\ s \in Chain /\ OneLine(s)
    /\ SubSeq(s, Find(s, "ports on") + 1, Find(s, "(address)") - 1) = chars
    /\ NumberBefore(s, "ports on") = total /\ NumberBefore(s, "closed") = closed
    /\ NumberBefore(s, "filtered") = filtered /\ NumberBefore(s, "errors") = errors

LEMMA SummaryReads ==
    ASSUME NEW chars \in Chain, NamesNothing(chars), NEW total, IsData(total), NEW open, IsData(open),
           NEW closed, IsData(closed), NEW filtered, IsData(filtered), NEW errors, IsData(errors)
    PROVE  SaysAll(Summary(chars, total, open, closed, filtered, errors), chars, total, closed, filtered, errors)
<1> DEFINE scanned == "scanned"
           on == "ports on"
           address == "(address)"
           isOpen == "open"
           isClosed == "closed"
           isFiltered == "filtered"
           inError == "errors"
           newline == "\n"
           first == <<scanned, total, on>>
           second == <<address, open, isOpen, closed, isClosed, filtered, isFiltered>>
           third == IF errors # "0" THEN <<errors, inError>> ELSE << >>
           names == SummaryNames
<1>1. /\ scanned \in Piece /\ on \in Piece /\ address \in Piece /\ isOpen \in Piece /\ isClosed \in Piece
      /\ isFiltered \in Piece /\ inError \in Piece
  <2>1. /\ scanned \in Marks /\ on \in Marks /\ address \in Marks /\ isOpen \in Marks /\ isClosed \in Marks
        /\ isFiltered \in Marks /\ inError \in Marks
    BY Zenon DEF Marks
  <2> QED
    BY Zenon, <2>1, Pieces
<1>2. names \subseteq Reserved /\ names = {on, address, isClosed, isFiltered, inError, newline}
  BY Zenon DEF Reserved, SummaryNames
<1>3. /\ scanned \notin names /\ isOpen \notin names
      /\ on # address /\ on # isClosed /\ on # isFiltered /\ on # inError /\ on # newline
      /\ address # isClosed /\ address # isFiltered /\ address # inError /\ address # newline
      /\ isClosed # isFiltered /\ isClosed # inError /\ isClosed # newline
      /\ isFiltered # inError /\ isFiltered # newline /\ inError # newline
  BY Zenon DEF SummaryNames
<1>4. Summary(chars, total, open, closed, filtered, errors) = first \o chars \o second \o third
  BY Zenon DEF Summary
<1>5. (errors # "0" => third = <<errors, inError>>) /\ (errors = "0" => third = << >>)
  BY Zenon
<1> DEFINE zero == "0"
<1>6. (errors # zero => third = <<errors, inError>>) /\ (errors = zero => third = << >>)
  BY <1>5
<1>7. \A k \in 1 .. Len(chars) : chars[k] \notin names
  BY DEF NamesNothing
<1>8. total \notin names /\ open \notin names /\ closed \notin names /\ filtered \notin names /\ errors \notin names
  BY Zenon, <1>2 DEF IsData
<1>9. total \in Piece /\ open \in Piece /\ closed \in Piece /\ filtered \in Piece /\ errors \in Piece
  BY DEF IsData
<1> HIDE DEF scanned, on, address, isOpen, isClosed, isFiltered, inError, newline, zero, third
<1>10. first \in Chain /\ Len(first) = 3 /\ first[1] = scanned /\ first[2] = total /\ first[3] = on
  BY <1>1, <1>9 DEF Chain
<1>11. /\ second \in Chain /\ Len(second) = 7 /\ second[1] = address /\ second[2] = open /\ second[3] = isOpen
       /\ second[4] = closed /\ second[5] = isClosed /\ second[6] = filtered /\ second[7] = isFiltered
  BY <1>1, <1>9 DEF Chain
<1>12. /\ third \in Chain
       /\ (errors # zero => (Len(third) = 2 /\ third[1] = errors /\ third[2] = inError))
       /\ errors = zero => Len(third) = 0
  <2>1. \A v, w \in Piece : <<v, w>> \in Chain
    BY DEF Chain
  <2>2. CASE errors # zero
    BY <1>1, <1>6, <1>9, <2>1, <2>2
  <2>3. CASE errors = zero
    BY <1>6, <2>3, Concatenation
  <2> QED
    BY <2>2, <2>3
<1> HIDE DEF first, second
<1> DEFINE s == Plus(Plus(Plus(first, chars), second), third)
           n == Len(chars)
<1>13. /\ s \in Chain /\ n \in Nat /\ Len(s) = 10 + n + Len(third) /\ Len(third) \in Nat /\ Len(s) \in Nat
       /\ \A k \in 1 .. 3 : s[k] = first[k]
       /\ \A k \in 4 .. 3 + n : s[k] = chars[k - 3]
       /\ \A k \in 4 + n .. 10 + n : s[k] = second[k - (3 + n)]
       /\ \A k \in 11 + n .. 10 + n + Len(third) : s[k] = third[k - (10 + n)]
  <2>1. Len(s) \in Nat
    BY <1>10, <1>11, <1>12, PlusIs
  <2> HIDE DEF n
  <2>2. n = Len(chars) /\ s = Plus(Plus(Plus(first, chars), second), third)
    BY DEF n
  <2> HIDE DEF s
  <2>3. InARow(s, first, chars, n, second, third)
    BY <1>10, <1>11, <1>12, <2>2, FourInARow
  <2> QED
    BY <2>1, <2>3 DEF InARow
<1> HIDE DEF s, n
<1>14. s \in Chain /\ n \in Nat /\ Len(s) \in Nat /\ Len(s) >= 10 + n /\ Len(s) = 10 + n + Len(third)
  BY <1>13
<1>15. /\ s[1] = scanned /\ s[2] = total /\ s[3] = on
       /\ s[4 + n] = address /\ s[5 + n] = open /\ s[6 + n] = isOpen /\ s[7 + n] = closed /\ s[8 + n] = isClosed
       /\ s[9 + n] = filtered /\ s[10 + n] = isFiltered
  <2>1. /\ s[4 + n] = second[1] /\ s[5 + n] = second[2] /\ s[6 + n] = second[3] /\ s[7 + n] = second[4]
        /\ s[8 + n] = second[5] /\ s[9 + n] = second[6] /\ s[10 + n] = second[7]
    <3>1. \A i \in 4 .. 10 : i + n \in 4 + n .. 10 + n /\ (i + n) - (3 + n) = i - 3
      BY <1>14
    <3>2. \A i \in 4 .. 10 : s[i + n] = second[i - 3]
      BY <1>13, <3>1
    <3> QED
      BY <3>2
  <2>2. s[1] = first[1] /\ s[2] = first[2] /\ s[3] = first[3]
    BY <1>13
  <2> QED
    BY <1>10, <1>11, <2>1, <2>2
<1>16. errors # zero => (Len(s) = 12 + n /\ s[11 + n] = errors /\ s[12 + n] = inError)
  <2>1. ASSUME errors # zero PROVE Len(s) = 12 + n /\ s[11 + n] = errors /\ s[12 + n] = inError
    <3> DEFINE thirds == Len(third)
               whole == Len(s)
    <3>a. thirds = 2
      BY <1>12, <2>1
    <3>b. whole = 10 + n + thirds /\ n \in Nat
      BY <1>14
    <3>c. thirds = Len(third) /\ whole = Len(s)
      OBVIOUS
    <3> HIDE DEF thirds, whole
    <3>d. whole = 12 + n
      BY <3>a, <3>b, SMT
    <3>1. Len(third) = 2 /\ Len(s) = 12 + n
      BY <3>a, <3>c, <3>d
    <3>2. \A i \in 11 .. 12 : i + n \in 11 + n .. 10 + n + Len(third) /\ (i + n) - (10 + n) = i - 10
      BY <1>14, <3>1
    <3>3. \A i \in 11 .. 12 : s[i + n] = third[i - 10]
      BY <1>13, <3>2
    <3>4. s[11 + n] = third[1] /\ s[12 + n] = third[2]
      BY <3>3
    <3> QED
      BY <1>12, <2>1, <3>1, <3>4
  <2> QED
    BY <2>1
<1>17. errors = zero => Len(s) = 10 + n
  BY <1>12, <1>13
<1>18. ASSUME NEW j \in 1 .. Len(s), s[j] \in names
       PROVE  \/ (j = 3 /\ s[j] = on) \/ (j = 4 + n /\ s[j] = address) \/ (j = 8 + n /\ s[j] = isClosed)
              \/ (j = 10 + n /\ s[j] = isFiltered) \/ (errors # zero /\ j = 12 + n /\ s[j] = inError)
  <2>1. \/ j \in {1, 2, 3} \/ j \in 4 .. 3 + n
        \/ j \in {4 + n, 5 + n, 6 + n, 7 + n, 8 + n, 9 + n, 10 + n}
        \/ (errors # zero /\ j \in {11 + n, 12 + n})
    BY <1>16, <1>17, <1>14
  <2>2. CASE j \in 4 .. 3 + n
    <3>1. j - 3 \in 1 .. n
      BY <1>14, <2>2
    <3>2. s[j] = chars[j - 3]
      BY <1>13, <2>2
    <3> QED
      BY <1>7, <1>18, <3>1, <3>2 DEF n
  <2>3. /\ s[1] \notin names /\ s[2] \notin names /\ s[5 + n] \notin names /\ s[6 + n] \notin names
        /\ s[7 + n] \notin names /\ s[9 + n] \notin names
    BY Zenon, <1>3, <1>8, <1>15
  <2>4. j # 1 /\ j # 2 /\ j # 5 + n /\ j # 6 + n /\ j # 7 + n /\ j # 9 + n
    BY Zenon, <1>18, <2>3
  <2>5. CASE j \in {1, 2, 3}
    BY <1>15, <2>4, <2>5
  <2>6. CASE j \in {4 + n, 5 + n, 6 + n, 7 + n, 8 + n, 9 + n, 10 + n}
    BY <1>15, <2>4, <2>6
  <2>7. CASE errors # zero /\ j \in {11 + n, 12 + n}
    BY <1>8, <1>16, <1>18, <2>7
  <2> QED
    BY <2>1, <2>2, <2>5, <2>6, <2>7
<1>19. OneLine(s)
  <2>1. ASSUME NEW j \in 1 .. Len(s) PROVE s[j] # newline
    BY <1>2, <1>3, <1>18
  <2> QED
    BY <2>1 DEF OneLine, newline
<1>20. Find(s, on) = 3 /\ NumberBefore(s, on) = total
  <2>1. FirstAt(s, on, 3)
    <3>1. ASSUME NEW j \in 1 .. Len(s), j < 3 PROVE s[j] # on
      BY <1>2, <1>3, <1>18, <1>14, <3>1
    <3> QED
      BY <1>15, <1>14, <3>1 DEF FirstAt
  <2>2. 3 - 1 = 2
    OBVIOUS
  <2> QED
    BY <1>15, <1>14, <2>1, <2>2, FindIs
<1>21. Find(s, address) = 4 + n
  <2>1. FirstAt(s, address, 4 + n)
    <3>1. ASSUME NEW j \in 1 .. Len(s), j < 4 + n PROVE s[j] # address
      BY <1>2, <1>3, <1>18, <1>14, <3>1
    <3> QED
      BY <1>15, <1>14, <3>1 DEF FirstAt
  <2> QED
    BY <1>14, <2>1, FindIs
<1>22. NumberBefore(s, isClosed) = closed
  <2>1. FirstAt(s, isClosed, 8 + n)
    <3>1. ASSUME NEW j \in 1 .. Len(s), j < 8 + n PROVE s[j] # isClosed
      BY <1>2, <1>3, <1>18, <1>14, <3>1
    <3> QED
      BY <1>15, <1>14, <3>1 DEF FirstAt
  <2>2. (8 + n) - 1 = 7 + n
    BY <1>14
  <2> QED
    BY <1>15, <1>14, <2>1, <2>2, FindIs
<1>23. NumberBefore(s, isFiltered) = filtered
  <2>1. FirstAt(s, isFiltered, 10 + n)
    <3>1. ASSUME NEW j \in 1 .. Len(s), j < 10 + n PROVE s[j] # isFiltered
      BY <1>2, <1>3, <1>18, <1>14, <3>1
    <3> QED
      BY <1>15, <1>14, <3>1 DEF FirstAt
  <2>2. (10 + n) - 1 = 9 + n
    BY <1>14
  <2> QED
    BY <1>15, <1>14, <2>1, <2>2, FindIs
<1>24. NumberBefore(s, inError) = errors
  <2>1. CASE errors # zero
    <3>1. FirstAt(s, inError, 12 + n)
      <4>1. ASSUME NEW j \in 1 .. Len(s), j < 12 + n PROVE s[j] # inError
        BY <1>2, <1>3, <1>18, <1>14, <4>1
      <4> QED
        BY <1>16, <1>14, <2>1, <4>1 DEF FirstAt
    <3>2. (12 + n) - 1 = 11 + n
      BY <1>14
    <3> QED
      BY <1>16, <1>14, <2>1, <3>1, <3>2, FindIs
  <2>2. CASE errors = zero
    <3>1. \A j \in 1 .. Len(s) : s[j] # inError
      BY <1>2, <1>3, <1>18, <2>2
    <3> QED
      BY <2>2, <3>1, FindNone DEF zero
  <2> QED
    BY <2>1, <2>2
<1>25. SubSeq(s, 4, 3 + n) = chars
  <2> DEFINE middle == SubSeq(s, 4, 3 + n)
  <2>1. chars \in Seq(Piece) /\ s \in Seq(Piece) /\ Len(chars) = n
    BY <1>14 DEF Chain, n
  <2>2. Len(middle) = n /\ middle \in Seq(Piece)
    BY <1>14, <2>1
  <2>3. ASSUME NEW k \in 1 .. n PROVE middle[k] = chars[k]
    <3>1. middle[k] = s[4 + k - 1]
      BY <1>14, <2>1
    <3>2. 4 + k - 1 \in 4 .. 3 + n /\ (4 + k - 1) - 3 = k
      BY <1>14
    <3> HIDE DEF middle
    <3> QED
      BY <1>13, <3>1, <3>2
  <2> HIDE DEF middle
  <2>4. middle = chars
    BY <2>1, <2>2, <2>3
  <2> QED
    BY <2>4 DEF middle
<1>26. Find(s, on) + 1 = 4 /\ Find(s, address) - 1 = 3 + n
  BY <1>20, <1>21, <1>14
<1>27. SubSeq(s, Find(s, on) + 1, Find(s, address) - 1) = chars
  BY <1>25, <1>26
<1> QED
  BY Zenon, <1>4, <1>19, <1>20, <1>22, <1>23, <1>24, <1>27, <1>14 DEF SaysAll, Plus, s, on, address, isClosed, isFiltered, inError

(* The lines of a table: the heading, the rows, an empty line, the summary *)
(* and what follows the last line end.                                     *)
RowLine(results, p) == <<ToString(p), "open">> \o results[p].banner
RowLines(results) == [k \in 1 .. Len(OpenPorts(results)) |-> RowLine(results, OpenPorts(results)[k])]

HeadLines == Append(Append(<< >>, <<"PORT STATE MS BANNER">>), <<"-">>)

SummaryOf(target, results) ==
    Summary(Chars(target), Total(results), Count(results, "open"), Count(results, "closed"),
            Count(results, "filtered"), Count(results, "error"))

LEMMA PlusAssociates == \A r, s, t \in Chain : Plus(r, s) \in Chain /\ Plus(Plus(r, s), t) = Plus(r, Plus(s, t))
BY Concatenation DEF Plus

LEMMA FourPieces ==
    ASSUME NEW q \in Chain, NEW r \in Chain, NEW s \in Chain, NEW t \in Chain,
           Len(q) = 1, Len(r) = 1, Len(s) = 1, Len(t) = 1
    PROVE  (q \o r) \o (s \o t) = <<q[1], r[1], s[1], t[1]>>
<1> DEFINE a == Plus(q, r)
           b == Plus(s, t)
           all == Plus(a, b)
           four == <<q[1], r[1], s[1], t[1]>>
<1>1. Glued(a, q, 1, r, 1) /\ Glued(b, s, 1, t, 1)
  BY PlusIs
<1> HIDE DEF a, b
<1>2. a \in Chain /\ Len(a) = 2 /\ a[1] = q[1] /\ a[2] = r[1] /\ b \in Chain /\ Len(b) = 2 /\ b[1] = s[1] /\ b[2] = t[1]
  BY <1>1 DEF Glued
<1>3. Glued(all, a, 2, b, 2)
  BY <1>2, PlusIs
<1> HIDE DEF all
<1>4. all \in Chain /\ Len(all) = 4 /\ all[1] = q[1] /\ all[2] = r[1] /\ all[3] = s[1] /\ all[4] = t[1]
  BY <1>2, <1>3 DEF Glued
<1>5. four \in Chain /\ Len(four) = 4 /\ four[1] = q[1] /\ four[2] = r[1] /\ four[3] = s[1] /\ four[4] = t[1]
  <2>1. q[1] \in Piece /\ r[1] \in Piece /\ s[1] \in Piece /\ t[1] \in Piece
    BY DEF Chain
  <2> QED
    BY <2>1 DEF Chain
<1> HIDE DEF four
<1>6. all = four
  <2>1. \A k \in 1 .. 4 : all[k] = four[k]
    BY <1>4, <1>5
  <2>2. all \in Seq(Piece) /\ four \in Seq(Piece) /\ Len(all) = 4 /\ Len(four) = 4
    BY <1>4, <1>5 DEF Chain
  <2> QED
    BY <2>1, <2>2
<1> QED
  BY <1>6 DEF all, a, b, four, Plus

LEMMA OneMoreLine ==
    ASSUME NEW above \in Seq(Chain), NEW line \in Chain
    PROVE  Append(above, line) \in Seq(Chain) /\ Len(Append(above, line)) = Len(above) + 1
OBVIOUS

LEMMA TableGrouping ==
    ASSUME NEW start \in Chain, NEW nl \in Chain, NEW r \in Chain, NEW s \in Chain, NEW t \in Chain, NEW u \in Chain
    PROVE  Plus(Plus(Plus(Plus(Plus(start, Plus(nl, r)), s), t), u), nl)
             = Plus(Plus(start, nl), Plus(Plus(Plus(Plus(r, s), t), u), nl))
<1>1. \A v, w, x \in Chain : Plus(v, w) \in Chain /\ Plus(Plus(v, w), x) = Plus(v, Plus(w, x))
  BY PlusAssociates
<1> DEFINE b == Plus(start, nl)
<1>2. b \in Chain /\ Plus(start, Plus(nl, r)) = Plus(b, r)
  BY <1>1
<1> HIDE DEF b
<1>3. Plus(r, s) \in Chain /\ Plus(Plus(b, r), s) = Plus(b, Plus(r, s))
  BY <1>1, <1>2
<1>4. Plus(Plus(r, s), t) \in Chain /\ Plus(Plus(b, Plus(r, s)), t) = Plus(b, Plus(Plus(r, s), t))
  BY <1>1, <1>2, <1>3
<1>5. /\ Plus(Plus(Plus(r, s), t), u) \in Chain
      /\ Plus(Plus(b, Plus(Plus(r, s), t)), u) = Plus(b, Plus(Plus(Plus(r, s), t), u))
  BY <1>1, <1>2, <1>4
<1>6. Plus(Plus(b, Plus(Plus(Plus(r, s), t), u)), nl) = Plus(b, Plus(Plus(Plus(Plus(r, s), t), u), nl))
  BY <1>1, <1>2, <1>5
<1> QED
  BY Zenon, <1>2, <1>3, <1>4, <1>5, <1>6 DEF b

LEMMA HeadingLines ==
    /\ HeadLines \in Seq(Chain) /\ Len(HeadLines) = 2
    /\ Fold(Pages, LineStep, FirstPage, Heading) = Append(HeadLines, << >>)
<1> DEFINE first == <<"PORT STATE MS BANNER">>
           second == <<"-">>
           one == Append(<< >>, first)
<1>1. first \in Chain /\ second \in Chain /\ OneLine(first) /\ OneLine(second)
  <2>1. "PORT STATE MS BANNER" \in Piece /\ "-" \in Piece
    <3>1. "PORT STATE MS BANNER" \in Marks /\ "-" \in Marks
      BY Zenon DEF Marks
    <3> QED
      BY Zenon, <3>1, Pieces
  <2>2. "PORT STATE MS BANNER" # "\n" /\ "-" # "\n"
    BY Zenon
  <2>3. \A v \in Piece : <<v>> \in Chain /\ (v # "\n" => OneLine(<<v>>))
    BY DEF Chain, OneLine
  <2> QED
    BY Zenon, <2>1, <2>2, <2>3
<1>2. Heading = (first \o NewLine) \o (second \o NewLine)
  <2>1. first \in Chain /\ NewLine \in Chain /\ second \in Chain
    BY Zenon, <1>1, NewLineType
  <2>2. Heading = <<first[1], NewLine[1], second[1], NewLine[1]>>
    BY Zenon DEF Heading, NewLine
  <2>3. Len(first) = 1 /\ Len(NewLine) = 1 /\ Len(second) = 1
    BY DEF NewLine
  <2> HIDE DEF first, second
  <2> QED
    BY Zenon, <2>1, <2>2, <2>3, FourPieces
<1>3. FirstPage = Append(<< >>, << >>) /\ << >> \in Seq(Chain)
  BY DEF FirstPage
<1> HIDE DEF first, second
<1>4. one \in Seq(Chain) /\ Len(one) = 1 /\ HeadLines = Append(one, second)
  <2>1. HeadLines = Append(one, second)
    BY Zenon DEF HeadLines, first, second
  <2>2. one \in Seq(Chain) /\ Len(one) = Len(<< >>) + 1
    BY <1>1, <1>3, OneMoreLine
  <2> QED
    BY <2>1, <2>2
<1> HIDE DEF one
<1>5. HeadLines \in Seq(Chain) /\ Len(HeadLines) = 2
  <2>1. HeadLines \in Seq(Chain) /\ Len(HeadLines) = Len(one) + 1
    BY <1>1, <1>4, OneMoreLine
  <2> QED
    BY <1>4, <2>1
<1>6. Fold(Pages, LineStep, FirstPage, first \o NewLine) = Append(one, << >>)
  BY <1>1, <1>3, LineCloses DEF one
<1>7. Fold(Pages, LineStep, Append(one, << >>), second \o NewLine) = Append(HeadLines, << >>)
  BY <1>1, <1>4, LineCloses
<1>8. first \o NewLine \in Seq(Piece) /\ second \o NewLine \in Seq(Piece)
  BY <1>1, NewLineType, Concatenation DEF Chain
<1>9. Fold(Pages, LineStep, FirstPage, Heading)
        = Fold(Pages, LineStep, Fold(Pages, LineStep, FirstPage, first \o NewLine), second \o NewLine)
  <2> DEFINE x == first \o NewLine
             y == second \o NewLine
  <2>1. x \in Seq(Piece) /\ y \in Seq(Piece) /\ Heading = x \o y
    BY <1>2, <1>8
  <2> HIDE DEF x, y
  <2>2. IsStep(Pages, Piece, LineStep) /\ FirstPage \in Pages
    BY LineStepType
  <2>3. Fold(Pages, LineStep, FirstPage, x \o y) = Fold(Pages, LineStep, Fold(Pages, LineStep, FirstPage, x), y)
    BY <2>1, <2>2, FoldConcat
  <2> QED
    BY <2>1, <2>3 DEF x, y
<1> QED
  BY <1>5, <1>6, <1>7, <1>9

LEMMA RowLinesType ==
    ASSUME NEW results, IsReported(results)
    PROVE  /\ RowLines(results) \in Seq(Chain) /\ Len(RowLines(results)) = Len(OpenPorts(results))
           /\ \A k \in 1 .. Len(RowLines(results)) : OneLine(RowLines(results)[k])
           /\ Rows(results) = [k \in 1 .. Len(RowLines(results)) |-> RowLines(results)[k] \o NewLine]
<1>1. "open" \in Piece /\ "open" # "\n"
  <2>1. "open" \in Marks
    BY Zenon DEF Marks
  <2>2. "open" # "\n"
    BY Zenon
  <2> QED
    BY <2>1, <2>2, Pieces
<1>2. "\n" \notin Printable
  BY Zenon DEF Printable
<1>3. "\n" \in Reserved
  BY Zenon DEF Reserved
<1>4. ASSUME NEW p \in DOMAIN results
      PROVE  RowLine(results, p) \in Chain /\ OneLine(RowLine(results, p)) /\ Row(results, p) = RowLine(results, p) \o NewLine
  <2> DEFINE r == <<ToString(p), "open">>
             b == results[p].banner
  <2>1. ToString(p) \in Piece /\ ToString(p) # "\n"
    <3>1. HighestPort \in Nat
      BY DEF HighestPort
    <3>2. p \in Nat /\ p \in 0 .. HighestPort
      BY <3>1 DEF IsReported
    <3>3. ToString(p) \notin Reserved
      BY <3>2, NamesAssumption
    <3> QED
      BY <1>3, <3>2, <3>3, Pieces
  <2>2. r \in Chain /\ Len(r) = 2 /\ \A k \in 1 .. 2 : r[k] # "\n"
    BY <1>1, <2>1 DEF Chain
  <2>3. b \in Chain /\ Len(b) \in Nat /\ \A k \in 1 .. Len(b) : b[k] # "\n"
    BY <1>2, BannerIsChain DEF IsReported
  <2>4. RowLine(results, p) = r \o b /\ Row(results, p) = (r \o b) \o NewLine
    BY DEF RowLine, Row, NewLine
  <2> HIDE DEF r, b
  <2> DEFINE line == Plus(r, b)
             m == Len(b)
  <2>5. m \in Nat /\ Glued(line, r, 2, b, m)
    BY <2>2, <2>3, PlusIs
  <2>6. \A k \in 1 .. m : b[k] # "\n"
    BY <2>3
  <2> HIDE DEF line, m
  <2>7. line \in Chain /\ Len(line) = 2 + m
    BY <2>5 DEF Glued
  <2>8. ASSUME NEW k \in 1 .. 2 + m PROVE line[k] # "\n"
    <3>1. CASE k \in 1 .. 2
      BY <2>2, <2>5, <3>1 DEF Glued
    <3>2. CASE k \in 2 + 1 .. 2 + m
      <4>1. k - 2 \in 1 .. m /\ line[k] = b[k - 2]
        BY <2>5, <3>2 DEF Glued
      <4> QED
        BY <2>6, <4>1
    <3> QED
      BY <2>5, <3>1, <3>2
  <2>9. OneLine(line)
    BY <2>7, <2>8 DEF OneLine
  <2> QED
    BY <2>4, <2>7, <2>9 DEF line, Plus
<1> DEFINE n == Len(OpenPorts(results))
<1>5. n \in Nat /\ \A k \in 1 .. n : OpenPorts(results)[k] \in DOMAIN results
  BY OpenPortsType
<1>6. RowLines(results) \in Seq(Chain) /\ Len(RowLines(results)) = n
  BY <1>4, <1>5 DEF RowLines
<1>7. \A k \in 1 .. n : RowLines(results)[k] = RowLine(results, OpenPorts(results)[k])
  BY DEF RowLines
<1>8. \A k \in 1 .. n : OneLine(RowLines(results)[k])
  BY <1>4, <1>5, <1>7
<1>9. Rows(results) = [k \in 1 .. n |-> RowLines(results)[k] \o NewLine]
  BY <1>4, <1>5, <1>7 DEF Rows
<1> QED
  BY <1>6, <1>8, <1>9

LEMMA TableParts ==
    ASSUME NEW target \in Text, NEW results, IsReported(results)
    PROVE  /\ \A text \in {Total(results), Count(results, "open"), Count(results, "closed"),
                          Count(results, "filtered"), Count(results, "error")} : IsData(text)
           /\ Chars(target) \in Chain
<1> DEFINE N == 0 .. HighestPort
<1>1. \A n \in N : n \in Nat
  <2>1. HighestPort \in Nat
    BY DEF HighestPort
  <2> QED
    BY <2>1
<1>2. \A n \in N : IsData(ToString(n))
  BY <1>1, NamesAssumption, Pieces DEF IsData
<1>3. Cardinality(DOMAIN results) \in N /\ \A state : Cardinality({p \in DOMAIN results : results[p].state = state}) \in N
  BY CountsAreSmall DEF IsReported
<1> HIDE DEF N
<1>4. IsData(Total(results)) /\ \A state : IsData(Count(results, state))
  BY Zenon, <1>2, <1>3 DEF Total, Count
<1> QED
  BY Zenon, <1>4, CharsArePieces

LEMMA TableRegrouped ==
    ASSUME NEW target \in Text, NEW results, IsReported(results)
    PROVE  /\ SummaryOf(target, results) \in Chain
           /\ Table(target, results)
                = (Heading \o Joined(Rows(results)) \o NewLine) \o (SummaryOf(target, results) \o NewLine)
<1> DEFINE start == Heading \o Joined(Rows(results))
           chars == Chars(target)
           total == Total(results)
           open == Count(results, "open")
           closed == Count(results, "closed")
           filtered == Count(results, "filtered")
           errors == Count(results, "error")
           first == <<"scanned", total, "ports on">>
           second == <<"(address)", open, "open", closed, "closed", filtered, "filtered">>
           third == IF errors # "0" THEN <<errors, "errors">> ELSE << >>
           opening == <<"\n", "scanned", total, "ports on">>
<1>1. start \in Chain /\ chars \in Chain /\ NewLine \in Chain
  BY HeadingIsChain, RowsAreChains, CharsArePieces, NewLineType, Concatenation
<1>2. total \in Piece /\ open \in Piece /\ closed \in Piece /\ filtered \in Piece /\ errors \in Piece
  BY TableParts DEF IsData
<1>3. /\ "scanned" \in Piece /\ "ports on" \in Piece /\ "(address)" \in Piece /\ "open" \in Piece /\ "closed" \in Piece
      /\ "filtered" \in Piece /\ "errors" \in Piece
  <2>1. /\ "scanned" \in Marks /\ "ports on" \in Marks /\ "(address)" \in Marks /\ "open" \in Marks /\ "closed" \in Marks
        /\ "filtered" \in Marks /\ "errors" \in Marks
    BY Zenon DEF Marks
  <2> QED
    BY Zenon, <2>1, Pieces
<1>4. Table(target, results) = start \o opening \o chars \o second \o third \o NewLine
  BY Zenon DEF Table, TableOf, TableFrom, NewLine
<1>5. SummaryOf(target, results) = first \o chars \o second \o third
  BY Zenon DEF SummaryOf, Summary
<1> HIDE DEF start, chars, total, open, closed, filtered, errors
<1>6. first \in Chain /\ second \in Chain /\ third \in Chain
  <2>1. \A t, u, v, w, x, y, z \in Piece : <<t, u, v>> \in Chain /\ <<t, u, v, w, x, y, z>> \in Chain
    BY DEF Chain
  <2>6. \A t, u \in Piece : <<t, u>> \in Chain
    BY DEF Chain
  <2>2. << >> \in Chain
    BY Concatenation
  <2>3. first \in Chain
    BY Zenon, <1>2, <1>3, <2>1
  <2>4. second \in Chain
    <3> DEFINE address == "(address)"
               isOpen == "open"
               isClosed == "closed"
               isFiltered == "filtered"
    <3>1. address \in Piece /\ isOpen \in Piece /\ isClosed \in Piece /\ isFiltered \in Piece
      BY Zenon, <1>3
    <3>2. second = <<address, open, isOpen, closed, isClosed, filtered, isFiltered>>
      OBVIOUS
    <3> HIDE DEF address, isOpen, isClosed, isFiltered, second
    <3>3. <<address, open, isOpen, closed, isClosed, filtered, isFiltered>> \in Chain
      BY <1>2, <2>1, <3>1
    <3> QED
      BY <3>2, <3>3
  <2>5. <<errors, "errors">> \in Chain
    <3> DEFINE inError == "errors"
    <3>1. inError \in Piece
      BY Zenon, <1>3
    <3> HIDE DEF inError
    <3>2. <<errors, inError>> \in Chain
      BY <1>2, <2>6, <3>1
    <3> QED
      BY <3>2 DEF inError
  <2> QED
    BY Zenon, <2>2, <2>3, <2>4, <2>5
<1>7. opening = NewLine \o first
  <2> DEFINE v == "scanned"
             w == total
             x == "ports on"
             nl == "\n"
  <2>1. nl \in Piece /\ v \in Piece /\ w \in Piece /\ x \in Piece
    BY Zenon, <1>2, <1>3, NewLineType
  <2>2. opening = <<nl, v, w, x>> /\ first = <<v, w, x>> /\ NewLine = <<nl>>
    BY Zenon DEF NewLine
  <2> HIDE DEF v, w, x, nl, first, opening
  <2> DEFINE four == <<nl, v, w, x>>
             both == <<nl>> \o <<v, w, x>>
  <2>3. four \in Seq(Piece) /\ Len(four) = 4 /\ four[1] = nl /\ four[2] = v /\ four[3] = w /\ four[4] = x
    BY <2>1
  <2>4. both \in Seq(Piece) /\ Len(both) = 4 /\ both[1] = nl /\ both[2] = v /\ both[3] = w /\ both[4] = x
    BY <2>1
  <2> HIDE DEF four, both
  <2>5. \A k \in 1 .. 4 : four[k] = both[k]
    BY <2>3, <2>4
  <2>6. four = both
    BY <2>3, <2>4, <2>5
  <2> QED
    BY <2>2, <2>6 DEF four, both
<1> HIDE DEF first, second, third, opening
<1>8. SummaryOf(target, results) \in Chain
  BY <1>1, <1>5, <1>6, Concatenation
<1>9. Table(target, results)
        = Plus(Plus(Plus(Plus(Plus(start, Plus(NewLine, first)), chars), second), third), NewLine)
  BY Zenon, <1>4, <1>7 DEF Plus
<1>10. Table(target, results) = Plus(Plus(start, NewLine), Plus(Plus(Plus(Plus(first, chars), second), third), NewLine))
  BY <1>1, <1>6, <1>9, TableGrouping
<1> QED
  BY Zenon, <1>5, <1>8, <1>10 DEF Plus, start

LEMMA TableLines ==
    ASSUME NEW target \in Text, NEW results, IsReported(results), OneLine(SummaryOf(target, results))
    PROVE  Lines(Table(target, results))
             = Append(Append(Append(HeadLines \o RowLines(results), << >>), SummaryOf(target, results)), << >>)
<1> DEFINE rows == Joined(Rows(results))
           lines == RowLines(results)
           s == SummaryOf(target, results)
           above == HeadLines \o lines
           more == Append(above, << >>)
<1>1. /\ Heading \in Seq(Piece) /\ rows \in Seq(Piece) /\ NewLine \in Seq(Piece) /\ s \in Chain /\ s \o NewLine \in Seq(Piece)
      /\ Heading \o rows \in Seq(Piece) /\ Heading \o rows \o NewLine \in Seq(Piece)
  BY HeadingIsChain, RowsAreChains, NewLineType, TableRegrouped, Concatenation DEF Chain
<1>2. Table(target, results) = (Heading \o rows \o NewLine) \o (s \o NewLine) /\ Table(target, results) \in Chain
  <2>1. Table(target, results) = (Heading \o rows \o NewLine) \o (s \o NewLine)
    BY TableRegrouped
  <2> QED
    BY <1>1, <2>1, Concatenation DEF Chain
<1>3. IsStep(Pages, Piece, LineStep) /\ FirstPage \in Pages
  BY LineStepType
<1>4. HeadLines \in Seq(Chain) /\ lines \in Seq(Chain)
  BY HeadingLines, RowLinesType
<1>5. above \in Seq(Chain) /\ more \in Seq(Chain) /\ << >> \in Chain /\ OneLine(<< >>)
  BY <1>4, Concatenation DEF OneLine
<1>6. Fold(Pages, LineStep, Append(HeadLines, << >>), rows) = Append(above, << >>)
  <2>1. rows = Joined([k \in 1 .. Len(lines) |-> lines[k] \o NewLine])
    BY RowLinesType
  <2>2. \A k \in 1 .. Len(lines) : OneLine(lines[k])
    BY RowLinesType
  <2> HIDE DEF rows, lines
  <2> QED
    BY <1>4, <2>1, <2>2, LinesOfJoined
<1> HIDE DEF rows, lines, above
<1>7. Fold(Pages, LineStep, Append(above, << >>), NewLine) = Append(more, << >>)
  <2>1. << >> \o NewLine = NewLine
    BY NewLineType, Concatenation
  <2>2. Fold(Pages, LineStep, Append(above, << >>), << >> \o NewLine) = Append(Append(above, << >>), << >>)
    BY <1>5, LineCloses
  <2> QED
    BY <2>1, <2>2
<1>8. Fold(Pages, LineStep, Append(more, << >>), s \o NewLine) = Append(Append(more, s), << >>)
  <2> HIDE DEF more, s
  <2>1. OneLine(s)
    BY DEF s
  <2> QED
    BY <1>1, <1>5, <2>1, LineCloses
<1> DEFINE x == Heading \o rows
           y == x \o NewLine
           z == s \o NewLine
<1>9. x \in Seq(Piece) /\ y \in Seq(Piece) /\ z \in Seq(Piece) /\ y \o z \in Chain /\ Table(target, results) = y \o z
  BY <1>1, <1>2
<1> HIDE DEF z
<1>10. Fold(Pages, LineStep, FirstPage, x) = Append(above, << >>)
  <2>1. Fold(Pages, LineStep, FirstPage, x) = Fold(Pages, LineStep, Fold(Pages, LineStep, FirstPage, Heading), rows)
    BY <1>1, <1>3, FoldConcat
  <2> QED
    BY <1>6, <2>1, HeadingLines
<1> HIDE DEF x
<1>11. Fold(Pages, LineStep, FirstPage, y) = Append(more, << >>)
  <2>1. Fold(Pages, LineStep, FirstPage, y) = Fold(Pages, LineStep, Fold(Pages, LineStep, FirstPage, x), NewLine)
    BY <1>1, <1>3, <1>9, FoldConcat
  <2> QED
    BY <1>7, <1>10, <2>1
<1> HIDE DEF y
<1>12. Fold(Pages, LineStep, FirstPage, y \o z) = Append(Append(more, s), << >>)
  <2>1. Fold(Pages, LineStep, FirstPage, y \o z) = Fold(Pages, LineStep, Fold(Pages, LineStep, FirstPage, y), z)
    BY <1>3, <1>9, FoldConcat
  <2>2. Fold(Pages, LineStep, Append(more, << >>), z) = Append(Append(more, s), << >>)
    BY <1>8 DEF z
  <2> QED
    BY <1>11, <2>1, <2>2
<1> HIDE DEF more, s
<1>13. Lines(Table(target, results)) = Append(Append(more, s), << >>)
  BY <1>9, <1>12, LinesIsFold
<1> QED
  BY Zenon, <1>13 DEF more, above, lines, s

(* What is to be read.                                                     *)
ToldOf(target, results) ==
    [target |-> Chars(target), scanned |-> Total(results),
     open |-> [k \in 1 .. Len(OpenPorts(results)) |->
                 [port |-> ToString(OpenPorts(results)[k]), banner |-> results[OpenPorts(results)[k]].banner]],
     closed |-> Count(results, "closed"), filtered |-> Count(results, "filtered"), errors |-> Count(results, "error")]

RowsRead(rows) == [k \in DOMAIN rows |-> [port |-> rows[k][1], banner |-> SubSeq(rows[k], 3, Len(rows[k]))]]

LEMMA RowReads ==
    ASSUME NEW results, IsReported(results), NEW p \in DOMAIN results
    PROVE  LET row == RowLine(results, p) IN row[1] = ToString(p) /\ SubSeq(row, 3, Len(row)) = results[p].banner
<1> DEFINE r == <<ToString(p), "open">>
           b == results[p].banner
           m == Len(b)
           row == RowLine(results, p)
<1>1. ToString(p) \in Piece /\ "open" \in Piece
  <2>1. HighestPort \in Nat
    BY DEF HighestPort
  <2>2. p \in Nat
    BY <2>1 DEF IsReported
  <2>3. "open" \in Marks
    BY Zenon DEF Marks
  <2> QED
    BY <2>2, <2>3, Pieces
<1>2. r \in Chain /\ Len(r) = 2 /\ r[1] = ToString(p)
  BY <1>1 DEF Chain
<1>3. b \in Chain /\ m \in Nat
  BY BannerIsChain DEF IsReported, Chain
<1>4. row = Plus(r, b)
  BY DEF RowLine, Plus
<1> HIDE DEF r, b, row
<1>5. Glued(row, r, 2, b, m)
  BY <1>2, <1>3, <1>4, PlusIs
<1> HIDE DEF m
<1>6. row \in Seq(Piece) /\ Len(row) = 2 + m /\ row[1] = ToString(p) /\ \A k \in 3 .. 2 + m : row[k] = b[k - 2]
  BY <1>2, <1>5 DEF Glued, Chain
<1> DEFINE rest == SubSeq(row, 3, 2 + m)
<1>7. Len(rest) = m /\ rest \in Seq(Piece) /\ \A k \in 1 .. m : rest[k] = row[3 + k - 1]
  BY <1>3, <1>6
<1> HIDE DEF rest
<1>8. \A k \in 1 .. m : rest[k] = b[k]
  <2>1. \A k \in 1 .. m : 3 + k - 1 \in 3 .. 2 + m /\ (3 + k - 1) - 2 = k
    BY <1>3
  <2> QED
    BY <1>6, <1>7, <2>1
<1>9. rest = b
  <2>1. b \in Seq(Piece) /\ Len(b) = m
    BY <1>3 DEF Chain, m
  <2> QED
    BY <1>7, <1>8, <2>1
<1> QED
  BY <1>6, <1>9 DEF rest, row, b

Behind(S, all, r, m, s, n) ==
    /\ m \in Nat /\ n \in Nat /\ all \in Seq(S) /\ Len(all) = m + n
    /\ \A k \in 1 .. m : all[k] = r[k]
    /\ \A k \in m + 1 .. m + n : all[k] = s[k - m]

LEMMA OneBehind ==
    ASSUME NEW S, NEW r \in Seq(S), NEW s \in Seq(S), NEW m, m = Len(r), NEW n, n = Len(s), NEW all, all = r \o s
    PROVE  Behind(S, all, r, m, s, n)
<1>1. /\ r \o s \in Seq(S) /\ m \in Nat /\ n \in Nat /\ Len(r \o s) = m + n
      /\ \A k \in 1 .. m : (r \o s)[k] = r[k]
  OBVIOUS
<1>2. \A k \in m + 1 .. m + n : (r \o s)[k] = s[k - m]
  OBVIOUS
<1> QED
  BY <1>1, <1>2 DEF Behind

(* The table reads back.                                                   *)
LEMMA TableReads ==
    ASSUME NEW target \in Text, NEW results, IsReported(results), NamesNothing(Chars(target))
    PROVE  ReadTable(Table(target, results)) = ToldOf(target, results)
<1> DEFINE s == SummaryOf(target, results)
           lines == Lines(Table(target, results))
           rows == SubSeq(lines, 3, Len(lines) - 3)
           mine == RowLines(results)
           n == Len(OpenPorts(results))
<1>1. /\ s \in Chain /\ OneLine(s)
      /\ SubSeq(s, Find(s, "ports on") + 1, Find(s, "(address)") - 1) = Chars(target)
      /\ NumberBefore(s, "ports on") = Total(results) /\ NumberBefore(s, "closed") = Count(results, "closed")
      /\ NumberBefore(s, "filtered") = Count(results, "filtered") /\ NumberBefore(s, "errors") = Count(results, "error")
  <2>1. /\ IsData(Total(results)) /\ IsData(Count(results, "open")) /\ IsData(Count(results, "closed"))
        /\ IsData(Count(results, "filtered")) /\ IsData(Count(results, "error")) /\ Chars(target) \in Chain
    BY TableParts
  <2> QED
    <3> DEFINE chars == Chars(target)
               total == Total(results)
               open == Count(results, "open")
               closed == Count(results, "closed")
               filtered == Count(results, "filtered")
               errors == Count(results, "error")
    <3>1. /\ IsData(total) /\ IsData(open) /\ IsData(closed) /\ IsData(filtered) /\ IsData(errors)
          /\ chars \in Chain /\ NamesNothing(chars)
      BY Zenon, <2>1
    <3>2. s = Summary(chars, total, open, closed, filtered, errors)
      BY Zenon DEF SummaryOf
    <3> HIDE DEF s, chars, total, open, closed, filtered, errors
    <3>3. SaysAll(s, chars, total, closed, filtered, errors)
      BY <3>1, <3>2, SummaryReads
    <3> QED
      BY Zenon, <3>3 DEF SaysAll, chars, total, closed, filtered, errors
<1>2. lines = Append(Append(Append(HeadLines \o mine, << >>), s), << >>)
  BY Zenon, <1>1, TableLines
<1>3. HeadLines \in Seq(Chain) /\ Len(HeadLines) = 2 /\ mine \in Seq(Chain) /\ Len(mine) = n /\ n \in Nat
  BY HeadingLines, RowLinesType, OpenPortsType
<1>4. << >> \in Chain
  BY Concatenation
<1> HIDE DEF mine, n, lines
<1>5. Len(lines) = n + 5 /\ lines[Len(lines) - 1] = s /\ rows = mine
  <2> HIDE DEF s
  <2> DEFINE above == HeadLines \o mine
  <2>1. above \in Seq(Chain) /\ Len(above) = n + 2 /\ \A k \in 1 .. n : above[k + 2] = mine[k]
    <3> HIDE DEF above
    <3>4. 2 = Len(HeadLines) /\ n = Len(mine) /\ above = HeadLines \o mine
      BY <1>3 DEF above
    <3>5. Behind(Chain, above, HeadLines, 2, mine, n)
      BY <1>3, <3>4, OneBehind
    <3>1. above \in Seq(Chain) /\ Len(above) = 2 + n
      BY <3>5 DEF Behind
    <3>2. \A j \in 2 + 1 .. 2 + n : above[j] = mine[j - 2]
      BY <3>5 DEF Behind
    <3>3. \A k \in 1 .. n : k + 2 \in 2 + 1 .. 2 + n /\ (k + 2) - 2 = k
      BY <1>3
    <3> QED
      BY <1>3, <3>1, <3>2, <3>3
  <2> HIDE DEF above
  <2>7. s \in Chain
    BY Zenon, <1>1
  <2>2. /\ lines \in Seq(Chain) /\ Len(lines) = n + 5 /\ lines[n + 4] = s
        /\ \A k \in 1 .. n + 2 : lines[k] = above[k]
    <3> DEFINE one == Append(above, << >>)
               two == Append(one, s)
    <3>1. lines = Append(two, << >>)
      BY <1>2 DEF above
    <3>2. one \in Seq(Chain) /\ Len(one) = n + 3 /\ \A k \in 1 .. n + 2 : one[k] = above[k]
      BY <1>3, <1>4, <2>1
    <3> HIDE DEF one
    <3>3. two \in Seq(Chain) /\ Len(two) = n + 4 /\ two[n + 4] = s /\ \A k \in 1 .. n + 2 : two[k] = above[k]
      BY <1>3, <2>7, <3>2
    <3> HIDE DEF two
    <3> QED
      BY <1>3, <1>4, <3>1, <3>3
  <2>3. Len(lines) - 3 = n + 2 /\ Len(lines) - 1 = n + 4
    BY <1>3, <2>2
  <2> DEFINE r == SubSeq(lines, 3, n + 2)
  <2>4. r \in Seq(Chain) /\ Len(r) = n /\ \A k \in 1 .. n : r[k] = lines[3 + k - 1]
    BY <1>3, <2>2
  <2>5. \A k \in 1 .. n : r[k] = mine[k]
    <3>1. \A k \in 1 .. n : 3 + k - 1 = k + 2 /\ k + 2 \in 1 .. n + 2
      BY <1>3
    <3> HIDE DEF r
    <3> QED
      BY <2>1, <2>2, <2>4, <3>1
  <2> HIDE DEF r
  <2>6. r = mine
    BY <1>3, <2>4, <2>5
  <2> QED
    BY <2>2, <2>3, <2>6 DEF r
<1>6. /\ DOMAIN mine = 1 .. n
      /\ \A k \in 1 .. n : mine[k] = RowLine(results, OpenPorts(results)[k]) /\ OpenPorts(results)[k] \in DOMAIN results
  BY OpenPortsType DEF mine, n, RowLines
<1>7. RowsRead(mine) = [k \in 1 .. n |->
         [port |-> ToString(OpenPorts(results)[k]), banner |-> results[OpenPorts(results)[k]].banner]]
  <2>1. \A k \in 1 .. n : /\ mine[k][1] = ToString(OpenPorts(results)[k])
                          /\ SubSeq(mine[k], 3, Len(mine[k])) = results[OpenPorts(results)[k]].banner
    BY <1>6, RowReads
  <2> QED
    BY <1>6, <2>1 DEF RowsRead
<1>8. ReadTable(Table(target, results))
        = [target |-> SubSeq(lines[Len(lines) - 1], Find(lines[Len(lines) - 1], "ports on") + 1,
                             Find(lines[Len(lines) - 1], "(address)") - 1),
           scanned |-> NumberBefore(lines[Len(lines) - 1], "ports on"), open |-> RowsRead(rows),
           closed |-> NumberBefore(lines[Len(lines) - 1], "closed"),
           filtered |-> NumberBefore(lines[Len(lines) - 1], "filtered"),
           errors |-> NumberBefore(lines[Len(lines) - 1], "errors")]
  BY Zenon DEF ReadTable, lines, Find, RowsRead
<1> HIDE DEF s, rows
<1> QED
  BY Zenon, <1>1, <1>5, <1>7, <1>8 DEF ToldOf, n

-----------------------------------------------------------------------------
(* Reading JSON, piece by piece.  The names are for the backends.          *)

Outside == "outside"
InString == "string"
Escaped == "escape"
Malformed == "malformed"
Quote == "\""
Backslash == "\\"
Unicode == "\\u"

At(mode, values) == [mode |-> mode, values |-> values]
Modes == {Outside, InString, Escaped, Malformed}
LexStates == {state \in [mode : Modes, values : Seq(Chain)] : state.mode # Outside => Len(state.values) > 0}
LexStep == [pair \in LexStates \X Piece |-> Lex(pair[1], pair[2])]

LEMMA LexNames ==
    /\ Outside # InString /\ Outside # Escaped /\ Outside # Malformed
    /\ InString # Escaped /\ InString # Malformed /\ Escaped # Malformed
    /\ Quote # Backslash /\ Quote # Unicode /\ Backslash # Unicode
    /\ Quote \notin Control /\ Backslash \notin Control /\ Unicode \notin Control
    /\ Quote \in Piece /\ Backslash \in Piece /\ Unicode \in Piece
<1>1. /\ Outside # InString /\ Outside # Escaped /\ Outside # Malformed
      /\ InString # Escaped /\ InString # Malformed /\ Escaped # Malformed
  BY Zenon DEF Outside, InString, Escaped, Malformed
<1>2. Quote # Backslash /\ Quote # Unicode /\ Backslash # Unicode
  BY Zenon DEF Quote, Backslash, Unicode
<1>3. Quote \notin Control /\ Backslash \notin Control /\ Unicode \notin Control
  BY Zenon DEF Control, Quote, Backslash, Unicode
<1>4. Quote \in Characters /\ Backslash \in Characters /\ Unicode \in Marks
  BY Zenon DEF Characters, Marks, Quote, Backslash, Unicode
<1> QED
  BY Zenon, <1>1, <1>2, <1>3, <1>4, Pieces

LEMMA LexCases ==
    ASSUME NEW state, NEW piece
    PROVE  Lex(state, piece) =
             CASE state.mode = Outside /\ piece = Quote ->
                    [state EXCEPT !.mode = InString, !.values = Append(@, <<Quote>>)]
               [] state.mode = Outside /\ piece # Quote -> [state EXCEPT !.values = Append(@, <<piece>>)]
               [] state.mode = InString /\ piece = Quote -> [state EXCEPT !.mode = Outside]
               [] state.mode = InString /\ piece \in {Backslash, Unicode} -> [state EXCEPT !.mode = Escaped]
               [] state.mode = InString /\ piece \in Control -> [state EXCEPT !.mode = Malformed]
               [] state.mode = Malformed -> state
               [] OTHER -> [state EXCEPT !.mode = InString,
                                         !.values = Front(@) \o <<Append(Last(@), piece)>>]
BY Zenon DEF Lex, Outside, InString, Escaped, Malformed, Quote, Backslash, Unicode

LEMMA LastGrows ==
    ASSUME NEW values \in Seq(Chain), NEW line \in Chain, NEW piece
    PROVE  Front(Append(values, line)) \o <<Append(Last(Append(values, line)), piece)>> = Append(values, Append(line, piece))
<1>1. Last(Append(values, line)) = line
  BY DEF Last
<1>2. Front(Append(values, line)) = values
  BY DEF Front
<1> DEFINE longer == Append(line, piece)
<1> HIDE DEF longer
<1>3. values \o <<longer>> = Append(values, longer)
  OBVIOUS
<1> QED
  BY <1>1, <1>2, <1>3 DEF longer

LEMMA LexIs ==
    ASSUME NEW values \in Seq(Chain), NEW piece \in Piece
    PROVE  /\ Lex(At(Outside, values), Quote) = At(InString, Append(values, <<Quote>>))
           /\ piece # Quote => Lex(At(Outside, values), piece) = At(Outside, Append(values, <<piece>>))
           /\ Lex(At(InString, values), Quote) = At(Outside, values)
           /\ piece \in {Backslash, Unicode} => Lex(At(InString, values), piece) = At(Escaped, values)
           /\ (piece \notin {Quote, Backslash, Unicode} /\ piece \notin Control)
                => Lex(At(InString, values), piece) = At(InString, Front(values) \o <<Append(Last(values), piece)>>)
           /\ Lex(At(Escaped, values), piece) = At(InString, Front(values) \o <<Append(Last(values), piece)>>)
<1>1. Lex(At(Outside, values), Quote) = At(InString, Append(values, <<Quote>>))
  BY Zenon, LexNames, LexCases DEF At
<1>2. ASSUME piece # Quote PROVE Lex(At(Outside, values), piece) = At(Outside, Append(values, <<piece>>))
  BY Zenon, <1>2, LexNames, LexCases DEF At
<1>3. Lex(At(InString, values), Quote) = At(Outside, values)
  BY Zenon, LexNames, LexCases DEF At
<1>4. ASSUME piece \in {Backslash, Unicode} PROVE Lex(At(InString, values), piece) = At(Escaped, values)
  BY Zenon, <1>4, LexNames, LexCases DEF At
<1> DEFINE longer == Front(values) \o <<Append(Last(values), piece)>>
<1>5. ASSUME piece \notin {Quote, Backslash, Unicode}, piece \notin Control
      PROVE  Lex(At(InString, values), piece) = At(InString, longer)
  BY Zenon, <1>5, LexNames, LexCases DEF At
<1>6. Lex(At(Escaped, values), piece) = At(InString, longer)
  BY Zenon, LexNames, LexCases DEF At
<1> QED
  BY <1>1, <1>2, <1>3, <1>4, <1>5, <1>6

LEMMA LexStepType == IsStep(LexStates, Piece, LexStep) /\ At(Outside, << >>) \in LexStates
<1>1. ASSUME NEW state \in LexStates, NEW piece \in Piece PROVE Lex(state, piece) \in LexStates
  <2> DEFINE mode == state.mode
             values == state.values
  <2>1. mode \in Modes /\ values \in Seq(Chain) /\ state = At(mode, values) /\ (mode # Outside => Len(values) > 0)
    BY DEF LexStates, At
  <2>2. <<Quote>> \in Chain /\ <<piece>> \in Chain
    BY LexNames DEF Chain
  <2>3. \A m \in Modes, v \in Seq(Chain) : (m # Outside => Len(v) > 0) => At(m, v) \in LexStates
    BY DEF LexStates, At
  <2>4. /\ Append(values, <<Quote>>) \in Seq(Chain) /\ Len(Append(values, <<Quote>>)) > 0
        /\ Append(values, <<piece>>) \in Seq(Chain)
    BY <2>1, <2>2
  <2>5. Outside \in Modes /\ InString \in Modes /\ Escaped \in Modes /\ Malformed \in Modes
    BY DEF Modes
  <2> DEFINE longer == Front(values) \o <<Append(Last(values), piece)>>
  <2>6. mode # Outside => (longer \in Seq(Chain) /\ Len(longer) > 0)
    <3>1. ASSUME Len(values) > 0 PROVE longer \in Seq(Chain) /\ Len(longer) > 0
      <4> DEFINE above == Front(values)
                 line == Last(values)
      <4>1. above \in Seq(Chain) /\ line \in Chain /\ values = Append(above, line)
        BY <2>1, <3>1 DEF Front, Last
      <4> HIDE DEF above, line, values, longer
      <4>2. Append(line, piece) \in Chain
        BY <4>1 DEF Chain
      <4>3. longer = Append(above, Append(line, piece))
        BY <4>1, LastGrows DEF longer
      <4> QED
        BY <4>1, <4>2, <4>3
    <3> QED
      BY <2>1, <3>1
  <2> HIDE DEF mode, values, longer
  <2>7. Lex(state, piece) \in {At(InString, Append(values, <<Quote>>)), At(Outside, Append(values, <<piece>>)),
                               At(Outside, values), At(Escaped, values), At(Malformed, values), At(InString, longer)}
    <3>1. CASE mode = Outside
      BY <2>1, <3>1, LexIs
    <3>2. CASE mode = InString
      <4>1. piece \in Control => Lex(At(InString, values), piece) = At(Malformed, values)
        BY Zenon, LexNames, LexCases DEF At
      <4> QED
        BY <2>1, <3>2, <4>1, LexIs DEF longer
    <3>3. CASE mode = Escaped
      BY <2>1, <3>3, LexIs DEF longer
    <3>4. CASE mode = Malformed
      <4>1. Lex(At(Malformed, values), piece) = At(Malformed, values)
        BY Zenon, LexNames, LexCases DEF At
      <4> QED
        BY <2>1, <3>4, <4>1
    <3> QED
      BY <2>1, <3>1, <3>2, <3>3, <3>4 DEF Modes
  <2>8. CASE mode = Outside
    <3>1. Lex(state, piece) \in {At(InString, Append(values, <<Quote>>)), At(Outside, Append(values, <<piece>>))}
      BY <2>1, <2>8, LexIs
    <3> QED
      BY <2>3, <2>4, <2>5, <3>1
  <2>9. CASE mode # Outside
    BY <2>1, <2>3, <2>4, <2>5, <2>6, <2>7, <2>9
  <2> QED
    BY <2>8, <2>9
<1>2. At(Outside, << >>) \in LexStates
  BY DEF At, LexStates, Modes
<1> QED
  BY <1>1, <1>2 DEF IsStep, LexStep

LEMMA LexIsFold ==
    ASSUME NEW text \in Chain
    PROVE  FoldLeft(Lex, At(Outside, << >>), text) = Fold(LexStates, LexStep, At(Outside, << >>), text)
<1> DEFINE start == At(Outside, << >>)
<1>0. start \in LexStates
  BY LexStepType
<1> HIDE DEF start
<1> DEFINE Body(it) == [s \in SUBSET DOMAIN text |->
                          IF s = {} THEN start ELSE Lex(it[s \ {Max(s)}], text[Max(s)])]
           iter == CHOOSE it : it = Body(it)
<1>1. FoldLeft(Lex, start, text) = iter[DOMAIN text]
  BY DEF FoldLeft, MapThenFoldSet, Max
<1>2. text \in Seq(Piece) /\ DOMAIN text = 1 .. Len(text) /\ IsStep(LexStates, Piece, LexStep) /\ start \in LexStates
  BY <1>0, LexStepType DEF Chain
<1>3. \A x \in LexStates, v \in Piece : LexStep[<<x, v>>] = Lex(x, v)
  BY DEF LexStep
<1>4. \E it : it = Body(it)
  <2>1. PICK it : Recurs(LexStates, Piece, LexStep, start, text, it)
    BY <1>2, IterExists
  <2>2. it = Body(it)
    BY <1>2, <1>3, <2>1 DEF Recurs
  <2> QED
    BY <2>2
<1>5. iter = Body(iter)
  <2> HIDE DEF Body
  <2> QED
    BY <1>4
<1> HIDE DEF iter, Body
<1>6. iter[{}] = start
  BY <1>5 DEF Body
<1>7. ASSUME NEW s \in SUBSET (1 .. Len(text)), s # {}, iter[s \ {Max(s)}] \in LexStates
      PROVE  iter[s] = LexStep[<<iter[s \ {Max(s)}], text[Max(s)]>>]
  <2>1. text[Max(s)] \in Piece
    <3>1. Len(text) \in Nat
      BY <1>2
    <3>2. Max(s) \in s /\ s \subseteq 1 .. Len(text)
      BY <1>7, <3>1, LastPosition
    <3>3. Max(s) \in 1 .. Len(text)
      BY <3>2
    <3> HIDE DEF Body
    <3> QED
      BY <1>2, <3>3
  <2>2. iter[s] = Lex(iter[s \ {Max(s)}], text[Max(s)])
    BY <1>2, <1>5, <1>7 DEF Body
  <2> QED
    BY <1>3, <1>7, <2>1, <2>2
<1>8. iter[1 .. Len(text)] = Fold(LexStates, LexStep, start, text)
  <2>1. Follows(LexStates, LexStep, start, text, iter)
    BY <1>6, <1>7 DEF Follows
  <2> QED
    BY <1>2, <2>1, FoldOfIter
<1> QED
  BY <1>1, <1>2, <1>8 DEF start

(* From the values of a text to those of the text with more behind it.     *)
LexTo(before, text, after) ==
    /\ before \in Seq(Chain) /\ text \in Chain /\ after \in Seq(Chain)
    /\ Fold(LexStates, LexStep, At(Outside, before), text) = At(Outside, after)

LEMMA AtType ==
    /\ \A values \in Seq(Chain) : At(Outside, values) \in LexStates
    /\ \A values \in Seq(Chain) : Len(values) > 0 => At(InString, values) \in LexStates /\ At(Escaped, values) \in LexStates
BY DEF At, LexStates, Modes

LEMMA LexOn ==
    ASSUME NEW u, NEW v, NEW w, NEW r, NEW s, LexTo(u, r, v), LexTo(v, s, w)
    PROVE  LexTo(u, r \o s, w)
<1>1. u \in Seq(Chain) /\ r \in Chain /\ s \in Chain /\ w \in Seq(Chain)
  BY DEF LexTo
<1>2. IsStep(LexStates, Piece, LexStep) /\ At(Outside, u) \in LexStates
  BY <1>1, LexStepType, AtType
<1>3. r \in Seq(Piece) /\ s \in Seq(Piece) /\ r \o s \in Chain
  BY <1>1, Concatenation DEF Chain
<1>4. Fold(LexStates, LexStep, At(Outside, u), r \o s)
        = Fold(LexStates, LexStep, Fold(LexStates, LexStep, At(Outside, u), r), s)
  BY <1>2, <1>3, FoldConcat
<1> QED
  BY <1>1, <1>3, <1>4 DEF LexTo

(* Outside of a string each piece is a value.                              *)
Singles(text) == [k \in 1 .. Len(text) |-> <<text[k]>>]
Unquoted(text) == \A k \in 1 .. Len(text) : text[k] # Quote

LEMMA SinglesType ==
    ASSUME NEW text \in Chain
    PROVE  /\ Singles(text) \in Seq(Chain) /\ Len(Singles(text)) = Len(text) /\ Len(text) \in Nat
           /\ \A k \in 1 .. Len(text) : text[k] \in Piece /\ <<text[k]>> \in Chain /\ Singles(text)[k] = <<text[k]>>
<1>1. Len(text) \in Nat /\ \A k \in 1 .. Len(text) : text[k] \in Piece
  BY DEF Chain
<1>2. \A v \in Piece : <<v>> \in Chain
  BY DEF Chain
<1>3. \A k \in 1 .. Len(text) : <<text[k]>> \in Chain
  BY <1>1, <1>2
<1> QED
  BY <1>1, <1>3 DEF Singles

Grows(S, part, above, lines, n) ==
    /\ n \in Nat /\ part[0] = above /\ part[n] = above \o lines /\ above \o lines \in Seq(S)
    /\ \A m \in 0 .. n : part[m] \in Seq(S)
    /\ \A m \in 0 .. n - 1 : part[m + 1] = Append(part[m], lines[m + 1])

LEMMA GrowsByOne ==
    ASSUME NEW S, NEW above \in Seq(S), NEW lines \in Seq(S), NEW n, n = Len(lines)
    PROVE  Grows(S, [m \in 0 .. n |-> above \o SubSeq(lines, 1, m)], above, lines, n)
<1> DEFINE part(m) == above \o SubSeq(lines, 1, m)
           f == [m \in 0 .. n |-> part(m)]
<1>1. n \in Nat /\ n = Len(lines)
  OBVIOUS
<1>2. part(0) = above
  OBVIOUS
<1>3. part(n) = above \o lines
  OBVIOUS
<1>4. \A m \in 0 .. n : part(m) \in Seq(S)
  OBVIOUS
<1>5. \A m \in 0 .. n - 1 : part(m + 1) = Append(part(m), lines[m + 1])
  OBVIOUS
<1>6. above \o lines \in Seq(S)
  OBVIOUS
<1> HIDE DEF part
<1>7. 0 \in 0 .. n /\ n \in 0 .. n /\ (\A m \in 0 .. n - 1 : m \in 0 .. n /\ m + 1 \in 0 .. n)
  BY <1>1
<1>8. \A m \in 0 .. n : f[m] = part(m)
  OBVIOUS
<1> HIDE DEF f
<1>9. Grows(S, f, above, lines, n)
  BY <1>1, <1>2, <1>3, <1>4, <1>5, <1>6, <1>7, <1>8 DEF Grows
<1> QED
  BY <1>9 DEF f, part

LEMMA TwoPieces ==
    ASSUME NEW v \in Piece, NEW w \in Piece
    PROVE  <<v>> \in Seq(Piece) /\ <<w>> \in Seq(Piece) /\ <<v>> \o <<w>> = <<v, w>>
<1> DEFINE r == <<v>>
           s == <<w>>
           two == <<v, w>>
           all == Plus(r, s)
<1>1. r \in Chain /\ s \in Chain /\ Len(r) = 1 /\ Len(s) = 1 /\ r[1] = v /\ s[1] = w
  BY DEF Chain
<1>2. two \in Seq(Piece) /\ Len(two) = 2 /\ two[1] = v /\ two[2] = w
  OBVIOUS
<1> HIDE DEF r, s, two
<1>3. Glued(all, r, 1, s, 1)
  BY <1>1, PlusIs
<1> HIDE DEF all
<1>4. all \in Seq(Piece) /\ Len(all) = 2 /\ all[1] = v /\ all[2] = w
  BY <1>1, <1>3 DEF Glued, Chain
<1>5. \A k \in 1 .. 2 : all[k] = two[k]
  BY <1>2, <1>4
<1>6. all = two
  BY <1>2, <1>4, <1>5
<1> QED
  BY <1>1, <1>6 DEF all, r, s, two, Plus, Chain

LEMMA LexPlain ==
    ASSUME NEW before \in Seq(Chain), NEW text \in Chain, Unquoted(text)
    PROVE  LexTo(before, text, before \o Singles(text))
<1> DEFINE n == Len(text)
           all == Singles(text)
           start == At(Outside, before)
           part == [m \in 0 .. n |-> before \o SubSeq(all, 1, m)]
<1>1. /\ n \in Nat /\ text \in Seq(Piece) /\ all \in Seq(Chain) /\ Len(all) = n
      /\ \A k \in 1 .. n : text[k] \in Piece /\ <<text[k]>> \in Chain /\ all[k] = <<text[k]>>
  BY SinglesType DEF Chain
<1>2. start \in LexStates /\ IsStep(LexStates, Piece, LexStep)
  BY AtType, LexStepType
<1> HIDE DEF all, n
<1>3. Grows(Chain, part, before, all, n)
  BY <1>1, GrowsByOne
<1> HIDE DEF start, part
<1>4. PICK f : IsRun(LexStates, LexStep, start, text, f)
  BY <1>1, <1>2, RunOfSeq
<1> DEFINE Good == {m \in Nat : m <= n => f[m] = At(Outside, part[m])}
<1>5. 0 \in Good
  BY <1>3, <1>4 DEF IsRun, start, Grows
<1>6. ASSUME NEW m \in Nat, m \in Good PROVE m + 1 \in Good
  <2>1. ASSUME m + 1 <= n PROVE f[m + 1] = At(Outside, part[m + 1])
    <3>1. m + 1 \in 1 .. n /\ m \in 0 .. n - 1 /\ m \in 0 .. n /\ (m + 1) - 1 = m
      BY <1>1, <2>1
    <3>2. f[m] = At(Outside, part[m]) /\ part[m] \in Seq(Chain) /\ text[m + 1] \in Piece /\ text[m + 1] # Quote
      BY <1>1, <1>3, <1>6, <2>1, <3>1 DEF Unquoted, n, Grows
    <3>3. f[m + 1] = LexStep[<<f[m], text[m + 1]>>]
      BY <1>4, <3>1 DEF IsRun, n
    <3>4. f[m + 1] = Lex(At(Outside, part[m]), text[m + 1])
      BY <3>2, <3>3, AtType DEF LexStep
    <3>5. part[m + 1] = Append(part[m], <<text[m + 1]>>)
      BY <1>1, <1>3, <3>1 DEF Grows
    <3> QED
      BY <3>2, <3>4, <3>5, LexIs
  <2> QED
    BY <2>1
<1> HIDE DEF Good
<1>7. n \in Good
  BY <1>1, <1>5, <1>6, Induction
<1>8. f[n] = At(Outside, before \o all)
  <2>1. n <= n
    BY <1>1
  <2>2. f[n] = At(Outside, part[n])
    BY <1>7, <2>1 DEF Good
  <2>3. part[n] = before \o all
    BY <1>3 DEF Grows
  <2> QED
    BY Zenon, <2>2, <2>3
<1>9. Fold(LexStates, LexStep, start, text) = f[n]
  BY <1>1, <1>4, FoldOfRun DEF n
<1>10. before \o all \in Seq(Chain)
  BY <1>3 DEF Grows
<1> QED
  BY <1>8, <1>9, <1>10 DEF LexTo, start, all

(* Between quotes the escapes go, and the characters stay.                 *)
Unescaped(text) == \A k \in 1 .. Len(text) : text[k] # Unicode

LEMMA LexEscape ==
    ASSUME NEW before \in Seq(Chain), NEW line \in Chain, NEW value \in Piece, value # Unicode
    PROVE  Fold(LexStates, LexStep, At(InString, Append(before, line)), Escape(value))
             = At(InString, Append(before, Append(line, value)))
<1> DEFINE values == Append(before, line)
           longer == Append(before, Append(line, value))
<1>1. values \in Seq(Chain) /\ Len(values) > 0
  OBVIOUS
<1>2. Front(values) \o <<Append(Last(values), value)>> = longer
  BY LastGrows
<1> HIDE DEF values, longer
<1>3. At(InString, values) \in LexStates /\ At(Escaped, values) \in LexStates /\ IsStep(LexStates, Piece, LexStep)
  BY <1>1, AtType, LexStepType
<1>4. \A state \in LexStates, piece \in Piece : LexStep[<<state, piece>>] = Lex(state, piece)
  BY DEF LexStep
<1> DEFINE reading == At(InString, values)
           next == At(Escaped, values)
           read == At(InString, longer)
<1>5. ASSUME NEW mark \in {Backslash, Unicode}
      PROVE  Fold(LexStates, LexStep, reading, <<mark, value>>) = read
  <2>1. mark \in Piece
    BY LexNames
  <2>2. Lex(reading, mark) = next /\ Lex(next, value) = read
    BY <1>1, <1>2, <2>1, LexIs
  <2> HIDE DEF reading, next, read
  <2>3. reading \in LexStates /\ next \in LexStates /\ IsStep(LexStates, Piece, LexStep)
    BY <1>3 DEF reading, next
  <2>4. LexStep[<<reading, mark>>] = next /\ LexStep[<<next, value>>] = read
    BY <1>4, <2>1, <2>2, <2>3
  <2>5. Fold(LexStates, LexStep, reading, <<mark>>) = next
    BY <2>1, <2>3, <2>4, FoldOfOne
  <2>6. Fold(LexStates, LexStep, next, <<value>>) = read
    BY <2>3, <2>4, FoldOfOne
  <2> DEFINE r == <<mark>>
             s == <<value>>
  <2>7. r \in Seq(Piece) /\ s \in Seq(Piece)
    BY <2>1, TwoPieces
  <2>10. r \o s = <<mark, value>>
    BY <2>1, TwoPieces
  <2>8. Fold(LexStates, LexStep, reading, r) = next /\ Fold(LexStates, LexStep, next, s) = read
    BY <2>5, <2>6
  <2> HIDE DEF r, s
  <2>9. Fold(LexStates, LexStep, reading, r \o s) = Fold(LexStates, LexStep, Fold(LexStates, LexStep, reading, r), s)
    BY <2>3, <2>7, FoldConcat
  <2> QED
    BY Zenon, <2>8, <2>9, <2>10
<1>6. Escape(value) = CASE value \in {Quote, Backslash} -> <<Backslash, value>>
                        [] value \in Control -> <<Unicode, value>>
                        [] OTHER -> <<value>>
  BY Zenon DEF Escape, Quote, Backslash, Unicode
<1> SUFFICES Fold(LexStates, LexStep, reading, Escape(value)) = read
  BY DEF values, longer
<1>7. value # Unicode /\ Fold(LexStates, LexStep, reading, <<Backslash, value>>) = read
      /\ Fold(LexStates, LexStep, reading, <<Unicode, value>>) = read
  BY <1>5
<1>8. CASE value \in {Quote, Backslash}
  <2>1. Escape(value) = <<Backslash, value>>
    BY <1>6, <1>8, LexNames
  <2> QED
    BY Zenon, <1>7, <2>1
<1>9. CASE value \in Control
  <2>1. value \notin {Quote, Backslash}
    BY <1>9, LexNames
  <2>2. Escape(value) = <<Unicode, value>>
    BY <1>6, <1>9, <2>1
  <2> QED
    BY Zenon, <1>7, <2>2
<1>10. CASE value \notin {Quote, Backslash} /\ value \notin Control
  <2>1. Escape(value) = <<value>>
    BY <1>6, <1>10
  <2>2. LexStep[<<reading, value>>] = read
    BY <1>1, <1>2, <1>3, <1>4, <1>10, LexIs
  <2>3. reading \in LexStates /\ IsStep(LexStates, Piece, LexStep)
    BY <1>3
  <2> HIDE DEF reading, read
  <2>4. Fold(LexStates, LexStep, reading, <<value>>) = read
    BY <2>2, <2>3, FoldOfOne
  <2> QED
    BY Zenon, <2>1, <2>4
<1> QED
  BY <1>8, <1>9, <1>10

(* The chains joined so far.                                               *)
JoinedBy(chains, g, n) ==
    /\ n \in Nat /\ g[0] = << >> /\ g[n] = Joined(chains)
    /\ \A m \in 0 .. n : g[m] \in Chain
    /\ \A m \in 0 .. n - 1 : g[m + 1] = g[m] \o chains[m + 1] /\ chains[m + 1] \in Chain

LEMMA JoinedRun ==
    ASSUME NEW chains \in Seq(Chain), NEW n, n = Len(chains)
    PROVE  \E g : JoinedBy(chains, g, n)
<1> DEFINE empty == << >>
<1>1. empty \in Chain
  BY Concatenation
<1> HIDE DEF empty
<1>2. PICK f : IsRun(Chain, Cat, empty, chains, f)
  BY <1>1, CatType, RunOfSeq
<1>3. n \in Nat /\ \A k \in 1 .. n : chains[k] \in Chain
  OBVIOUS
<1>4. Joined(chains) = f[n]
  BY <1>2, <1>3, FoldOfRun DEF Joined, empty
<1>5. f[0] = empty /\ \A m \in 0 .. n : f[m] \in Chain
  BY <1>2, <1>3 DEF IsRun
<1>6. ASSUME NEW m \in 0 .. n - 1 PROVE f[m + 1] = f[m] \o chains[m + 1] /\ chains[m + 1] \in Chain
  <2>1. m + 1 \in 1 .. n /\ (m + 1) - 1 = m /\ m \in 0 .. n
    BY <1>3
  <2>2. f[m + 1] = Cat[<<f[m], chains[m + 1]>>]
    BY <1>2, <2>1 DEF IsRun
  <2>3. f[m] \in Chain /\ chains[m + 1] \in Chain
    BY <1>3, <1>5, <2>1
  <2> QED
    BY <2>2, <2>3 DEF Cat
<1>7. JoinedBy(chains, f, n)
  BY <1>3, <1>4, <1>5, <1>6 DEF JoinedBy, empty
<1> QED
  BY <1>7

LEMMA LexString ==
    ASSUME NEW before \in Seq(Chain), NEW text \in Chain, Unescaped(text)
    PROVE  LexTo(before, JsonString(text), Append(before, <<Quote>> \o text)) /\ <<Quote>> \o text \in Chain
<1> DEFINE n == Len(text)
           quote == <<Quote>>
           part == [m \in 0 .. n |-> quote \o SubSeq(text, 1, m)]
           chains == Escapes(text)
           state(m) == At(InString, Append(before, part[m]))
           start == At(Outside, before)
           end == At(Outside, Append(before, quote \o text))
<1>1. n \in Nat /\ chains \in Seq(Chain) /\ Len(chains) = n /\ \A k \in 1 .. n : text[k] \in Piece /\ chains[k] = Escape(text[k])
  <2>1. n \in Nat /\ chains \in Seq(Chain) /\ \A k \in 1 .. n : text[k] \in Piece
    BY StringType
  <2>2. chains = [k \in 1 .. n |-> Escape(text[k])]
    BY Zenon DEF Escapes
  <2> HIDE DEF chains, n
  <2>3. Len(chains) = n /\ \A k \in 1 .. n : chains[k] = Escape(text[k])
    BY <2>1, <2>2
  <2> QED
    BY <2>1, <2>3
<1>2. quote \in Seq(Piece) /\ quote \in Chain /\ text \in Seq(Piece)
  BY LexNames DEF Chain
<1> HIDE DEF n, chains, quote
<1>3. Grows(Piece, part, quote, text, n)
  BY <1>2, GrowsByOne DEF n
<1> HIDE DEF part
<1>4. PICK g : JoinedBy(chains, g, n)
  BY <1>1, JoinedRun
<1>5. IsStep(LexStates, Piece, LexStep) /\ start \in LexStates
  BY LexStepType, AtType
<1>6. \A m \in 0 .. n : part[m] \in Chain
  BY <1>3 DEF Grows, Chain
<1>7. \A m \in 0 .. n : state(m) \in LexStates
  <2>1. ASSUME NEW line \in Chain PROVE At(InString, Append(before, line)) \in LexStates
    <3>1. Append(before, line) \in Seq(Chain) /\ Len(Append(before, line)) > 0
      OBVIOUS
    <3> QED
      BY <3>1, AtType
  <2> QED
    BY <1>6, <2>1
<1>8. 0 \in 0 .. n /\ n \in 0 .. n
  BY <1>1
<1>9. Fold(LexStates, LexStep, start, quote) = state(0)
  <2>1. LexStep[<<start, Quote>>] = Lex(start, Quote)
    BY <1>5, LexNames DEF LexStep
  <2>2. Lex(start, Quote) = At(InString, Append(before, quote))
    BY LexNames, LexIs DEF quote
  <2>3. part[0] = quote
    BY <1>3 DEF Grows
  <2>4. LexStep[<<start, Quote>>] = state(0)
    BY <2>1, <2>2, <2>3
  <2> HIDE DEF start, state
  <2>5. Fold(LexStates, LexStep, start, <<Quote>>) = LexStep[<<start, Quote>>]
    BY <1>5, LexNames, FoldOfOne
  <2> QED
    BY <2>4, <2>5 DEF quote
<1> HIDE DEF start
<1> DEFINE Good == {m \in Nat : m <= n => Fold(LexStates, LexStep, state(0), g[m]) = state(m)}
<1>10. 0 \in Good
  <2>1. g[0] = << >>
    BY <1>4 DEF JoinedBy
  <2>2. state(0) \in LexStates
    BY <1>7, <1>8
  <2> HIDE DEF state
  <2>3. Fold(LexStates, LexStep, state(0), << >>) = state(0)
    BY <2>2, FoldOfNone
  <2> QED
    BY <2>1, <2>3
<1>11. ASSUME NEW m \in Nat, m \in Good PROVE m + 1 \in Good
  <2>1. ASSUME m + 1 <= n PROVE Fold(LexStates, LexStep, state(0), g[m + 1]) = state(m + 1)
    <3>1. m \in 0 .. n - 1 /\ m \in 0 .. n /\ m + 1 \in 1 .. n
      BY <1>1, <2>1
    <3> DEFINE s == g[m]
               r == chains[m + 1]
               value == text[m + 1]
    <3>2. g[m + 1] = s \o r /\ s \in Chain /\ r \in Chain
      BY <1>4, <3>1 DEF JoinedBy
    <3>3. value \in Piece /\ value # Unicode /\ r = Escape(value)
      BY <1>1, <3>1 DEF Unescaped, n
    <3>4. part[m + 1] = Append(part[m], value) /\ part[m] \in Chain
      BY <1>3, <1>6, <3>1 DEF Grows
    <3> HIDE DEF s, r, value
    <3>5. Fold(LexStates, LexStep, state(m), r) = state(m + 1)
      <4>1. Fold(LexStates, LexStep, At(InString, Append(before, part[m])), Escape(value))
              = At(InString, Append(before, Append(part[m], value)))
        BY <3>3, <3>4, LexEscape
      <4> QED
        BY <3>3, <3>4, <4>1
    <3>6. state(0) \in LexStates
      BY <1>7, <1>8
    <3>7. Fold(LexStates, LexStep, state(0), s) = state(m)
      BY <1>1, <1>11, <3>1 DEF s
    <3> HIDE DEF state
    <3>8. s \in Seq(Piece) /\ r \in Seq(Piece)
      BY <3>2 DEF Chain
    <3>9. Fold(LexStates, LexStep, state(0), s \o r) = Fold(LexStates, LexStep, Fold(LexStates, LexStep, state(0), s), r)
      BY <1>5, <3>6, <3>8, FoldConcat
    <3> QED
      BY <3>2, <3>5, <3>7, <3>9
  <2> QED
    BY <2>1
<1> HIDE DEF Good
<1>12. n \in Good
  BY <1>1, <1>10, <1>11, Induction
<1> DEFINE inner == Joined(chains)
<1>13. inner \in Chain /\ Fold(LexStates, LexStep, state(0), inner) = state(n)
  <2>1. n <= n
    BY <1>1
  <2>2. g[n] = inner /\ g[n] \in Chain
    BY <1>4, <1>8 DEF JoinedBy
  <2>3. Fold(LexStates, LexStep, state(0), g[n]) = state(n)
    BY <1>12, <2>1 DEF Good
  <2> QED
    BY Zenon, <2>2, <2>3
<1>14. Fold(LexStates, LexStep, state(n), quote) = end
  <2> DEFINE values == Append(before, part[n])
  <2>1. values \in Seq(Chain) /\ part[n] = quote \o text
    <3>1. part[n] \in Chain /\ part[n] = quote \o text
      BY <1>3, <1>6, <1>8 DEF Grows
    <3> QED
      BY <3>1, OneMoreLine
  <2>2. Lex(At(InString, values), Quote) = At(Outside, values)
    BY <2>1, LexNames, LexIs
  <2>3. LexStep[<<state(n), Quote>>] = end
    <3>1. LexStep[<<state(n), Quote>>] = Lex(state(n), Quote)
      BY <1>7, <1>8, LexNames DEF LexStep
    <3> QED
      BY <2>1, <2>2, <3>1
  <2>4. state(n) \in LexStates
    BY <1>7, <1>8
  <2> HIDE DEF state, end
  <2>5. Fold(LexStates, LexStep, state(n), <<Quote>>) = LexStep[<<state(n), Quote>>]
    BY <1>5, <2>4, LexNames, FoldOfOne
  <2> QED
    BY <2>3, <2>5 DEF quote
<1>15. state(0) \in LexStates /\ state(n) \in LexStates
  BY <1>7, <1>8
<1>16. quote \o text \in Chain /\ Append(before, quote \o text) \in Seq(Chain)
  <2>1. quote \o text \in Chain
    BY <1>2, Concatenation
  <2> QED
    BY <2>1, OneMoreLine
<1> HIDE DEF inner, state, end
<1> DEFINE opened == quote \o inner
<1>17. opened \in Chain /\ opened \in Seq(Piece) /\ inner \in Seq(Piece) /\ opened \o quote \in Chain
  BY <1>2, <1>13, Concatenation DEF Chain
<1>18. Fold(LexStates, LexStep, start, opened) = state(n)
  <2>1. Fold(LexStates, LexStep, start, opened) = Fold(LexStates, LexStep, Fold(LexStates, LexStep, start, quote), inner)
    BY <1>2, <1>5, <1>17, FoldConcat
  <2> QED
    BY <1>9, <1>13, <2>1
<1> HIDE DEF opened
<1>19. Fold(LexStates, LexStep, start, opened \o quote) = end
  <2>1. Fold(LexStates, LexStep, start, opened \o quote)
          = Fold(LexStates, LexStep, Fold(LexStates, LexStep, start, opened), quote)
    BY <1>2, <1>5, <1>17, FoldConcat
  <2> QED
    BY <1>14, <1>18, <2>1
<1>20. JsonString(text) = opened \o quote
  BY Zenon DEF JsonString, opened, inner, quote, chains, Quote
<1>21. LexTo(before, JsonString(text), Append(before, quote \o text))
  BY Zenon, <1>16, <1>17, <1>19, <1>20 DEF LexTo, start, end
<1> QED
  BY <1>16, <1>21 DEF quote

(* The pieces of JSON, by name, and the values that a reader looks for.    *)
TargetMark == "{target:"
ScannedMark == "scanned:"
OpenMark == "open:["
PortMark == "{port:"
StateMark == "state:open"
BannerMark == "banner:"
CloseMark == "}"
CommaMark == ","
EndMark == "]"
ClosedMark == "closed:"
FilteredMark == "filtered:"
ErrorsMark == "errors:"
LineMark == "\n"

JsonNames == {TargetMark, ScannedMark, PortMark, ClosedMark, FilteredMark, ErrorsMark}
OtherMarks == {OpenMark, StateMark, BannerMark, CloseMark, CommaMark, EndMark, LineMark}

NamesNone(value) == \A name \in JsonNames : value # <<name>>

LEMMA MarksDiffer ==
    /\ \A mark \in JsonNames \cup OtherMarks : mark \in Piece /\ mark # Quote
    /\ \A mark \in OtherMarks : mark \notin JsonNames
    /\ Quote \notin JsonNames /\ JsonNames \subseteq Reserved /\ Quote \in Reserved /\ Unicode \in Reserved
    /\ TargetMark # ScannedMark /\ TargetMark # PortMark /\ TargetMark # ClosedMark /\ TargetMark # FilteredMark
    /\ TargetMark # ErrorsMark /\ ScannedMark # PortMark /\ ScannedMark # ClosedMark /\ ScannedMark # FilteredMark
    /\ ScannedMark # ErrorsMark /\ PortMark # ClosedMark /\ PortMark # FilteredMark /\ PortMark # ErrorsMark
    /\ ClosedMark # FilteredMark /\ ClosedMark # ErrorsMark /\ FilteredMark # ErrorsMark
<1>1. \A mark \in JsonNames \cup OtherMarks : mark \in Piece
  <2>1. /\ TargetMark \in Marks /\ ScannedMark \in Marks /\ OpenMark \in Marks /\ PortMark \in Marks /\ StateMark \in Marks
        /\ BannerMark \in Marks /\ CloseMark \in Marks /\ CommaMark \in Marks /\ EndMark \in Marks
        /\ ClosedMark \in Marks /\ FilteredMark \in Marks /\ ErrorsMark \in Marks /\ LineMark \in Marks
    BY Zenon DEF Marks, TargetMark, ScannedMark, OpenMark, PortMark, StateMark, BannerMark, CloseMark, CommaMark,
                 EndMark, ClosedMark, FilteredMark, ErrorsMark, LineMark
  <2> QED
    BY <2>1, Pieces DEF JsonNames, OtherMarks
<1>2. /\ TargetMark # Quote /\ ScannedMark # Quote /\ OpenMark # Quote /\ PortMark # Quote /\ StateMark # Quote
      /\ BannerMark # Quote /\ CloseMark # Quote /\ CommaMark # Quote /\ EndMark # Quote
      /\ ClosedMark # Quote /\ FilteredMark # Quote /\ ErrorsMark # Quote /\ LineMark # Quote
  BY Zenon DEF Quote, TargetMark, ScannedMark, OpenMark, PortMark, StateMark, BannerMark, CloseMark, CommaMark,
               EndMark, ClosedMark, FilteredMark, ErrorsMark, LineMark
<1>3. \A mark \in OtherMarks : /\ mark # TargetMark /\ mark # ScannedMark /\ mark # PortMark
                               /\ mark # ClosedMark /\ mark # FilteredMark /\ mark # ErrorsMark
  BY Zenon DEF OtherMarks, TargetMark, ScannedMark, OpenMark, PortMark, StateMark, BannerMark, CloseMark, CommaMark,
               EndMark, ClosedMark, FilteredMark, ErrorsMark, LineMark
<1>4. JsonNames \subseteq Reserved /\ Quote \in Reserved /\ Unicode \in Reserved
  <2>1. /\ TargetMark \in Reserved /\ ScannedMark \in Reserved /\ PortMark \in Reserved /\ ClosedMark \in Reserved
        /\ FilteredMark \in Reserved /\ ErrorsMark \in Reserved /\ Quote \in Reserved /\ Unicode \in Reserved
    BY Zenon DEF Reserved, TargetMark, ScannedMark, PortMark, ClosedMark, FilteredMark, ErrorsMark, Quote, Unicode
  <2> QED
    BY <2>1 DEF JsonNames
<1>5. /\ TargetMark # ScannedMark /\ TargetMark # PortMark /\ TargetMark # ClosedMark /\ TargetMark # FilteredMark
      /\ TargetMark # ErrorsMark /\ ScannedMark # PortMark /\ ScannedMark # ClosedMark /\ ScannedMark # FilteredMark
      /\ ScannedMark # ErrorsMark /\ PortMark # ClosedMark /\ PortMark # FilteredMark /\ PortMark # ErrorsMark
      /\ ClosedMark # FilteredMark /\ ClosedMark # ErrorsMark /\ FilteredMark # ErrorsMark
  BY Zenon DEF TargetMark, ScannedMark, PortMark, ClosedMark, FilteredMark, ErrorsMark
<1> QED
  BY <1>1, <1>2, <1>3, <1>4, <1>5 DEF JsonNames, OtherMarks

LEMMA NoNames ==
    /\ \A piece \in Piece : piece \notin JsonNames => NamesNone(<<piece>>)
    /\ \A text \in Chain : NamesNone(<<Quote>> \o text)
<1>1. ASSUME NEW piece \in Piece, piece \notin JsonNames PROVE NamesNone(<<piece>>)
  <2>1. ASSUME NEW name \in JsonNames PROVE <<piece>> # <<name>>
    <3>1. <<piece>>[1] = piece /\ <<name>>[1] = name
      OBVIOUS
    <3> QED
      BY <1>1, <3>1
  <2> QED
    BY <2>1 DEF NamesNone
<1>2. ASSUME NEW text \in Chain PROVE NamesNone(<<Quote>> \o text)
  <2> DEFINE quote == <<Quote>>
             all == Plus(quote, text)
  <2>1. quote \in Chain /\ Len(quote) = 1 /\ quote[1] = Quote
    BY LexNames DEF Chain
  <2> HIDE DEF quote
  <2>2. Glued(all, quote, 1, text, Len(text))
    BY <2>1, PlusIs
  <2>3. all[1] = Quote
    BY <2>1, <2>2 DEF Glued
  <2>4. all = <<Quote>> \o text
    BY DEF Plus, quote
  <2> HIDE DEF all
  <2>5. \A name \in JsonNames : <<name>>[1] = name /\ name # Quote
    BY MarksDiffer
  <2>6. NamesNone(all)
    BY <2>3, <2>5 DEF NamesNone
  <2> QED
    BY <2>4, <2>6
<1> QED
  BY <1>1, <1>2

(* An entry adds six values.                                               *)
SixMore(after, before, n, results, p) ==
    /\ n \in Nat /\ after \in Seq(Chain) /\ Len(after) = n + 6
    /\ \A i \in 1 .. n : after[i] = before[i]
    /\ after[n + 1] = <<PortMark>> /\ after[n + 2] = <<ToString(p)>> /\ after[n + 3] = <<StateMark>>
    /\ after[n + 4] = <<BannerMark>> /\ after[n + 5] = <<Quote>> \o results[p].banner /\ after[n + 6] = <<CloseMark>>

LEMMA EntryLex ==
    ASSUME NEW before \in Seq(Chain), NEW results, IsReported(results), NEW p \in DOMAIN results, NEW n, n = Len(before)
    PROVE  \E after : LexTo(before, EntryOf(results, p), after) /\ SixMore(after, before, n, results, p)
<1> DEFINE r == <<PortMark, ToString(p), StateMark, BannerMark>>
           b == results[p].banner
           t == <<CloseMark>>
           value == <<Quote>> \o b
           u == before \o Singles(r)
           v == Append(u, value)
           w == v \o Singles(t)
<1>1. ToString(p) \in Piece /\ ToString(p) # Quote
  <2>1. HighestPort \in Nat
    BY DEF HighestPort
  <2>2. p \in Nat /\ p \in 0 .. HighestPort
    BY <2>1 DEF IsReported
  <2> QED
    BY <2>2, Pieces, MarksDiffer, NamesAssumption
<1>2. /\ PortMark \in Piece /\ StateMark \in Piece /\ BannerMark \in Piece /\ CloseMark \in Piece
      /\ PortMark # Quote /\ StateMark # Quote /\ BannerMark # Quote /\ CloseMark # Quote
  BY MarksDiffer DEF JsonNames, OtherMarks
<1>3. r \in Chain /\ Len(r) = 4 /\ r[1] = PortMark /\ r[2] = ToString(p) /\ r[3] = StateMark /\ r[4] = BannerMark
  BY <1>1, <1>2 DEF Chain
<1>4. t \in Chain /\ Len(t) = 1 /\ t[1] = CloseMark
  BY <1>2 DEF Chain
<1> HIDE DEF r, t
<1>5. Unquoted(r) /\ Unquoted(t)
  BY <1>1, <1>2, <1>3, <1>4 DEF Unquoted
<1>6. b \in Chain /\ Unescaped(b)
  <2>1. Unicode \notin Printable
    BY Zenon DEF Printable, Unicode
  <2>2. b \in Seq(Printable)
    BY DEF IsReported
  <2> QED
    BY <2>1, <2>2, BannerIsChain DEF Unescaped
<1> HIDE DEF b
<1>7. Singles(r) \in Seq(Chain) /\ Len(Singles(r)) = 4 /\ \A k \in 1 .. 4 : Singles(r)[k] = <<r[k]>>
  BY <1>3, SinglesType
<1>8. Singles(t) \in Seq(Chain) /\ Len(Singles(t)) = 1 /\ \A k \in 1 .. 1 : Singles(t)[k] = <<t[k]>>
  BY <1>4, SinglesType
<1>9. LexTo(before, r, u)
  BY <1>3, <1>5, LexPlain
<1> DEFINE singles == Singles(r)
           single == Singles(t)
<1> HIDE DEF singles, single
<1>10. Behind(Chain, u, before, n, singles, 4)
  <2>1. singles \in Seq(Chain) /\ 4 = Len(singles) /\ u = before \o singles
    BY <1>7 DEF singles
  <2> HIDE DEF u
  <2> QED
    BY <2>1, OneBehind
<1> HIDE DEF u
<1>11. LexTo(u, JsonString(b), v) /\ value \in Chain
  BY <1>6, <1>10, LexString DEF Behind
<1> HIDE DEF value
<1>12. /\ v \in Seq(Chain) /\ Len(v) = n + 5 /\ n \in Nat /\ v[n + 5] = value /\ \A i \in 1 .. n + 4 : v[i] = u[i]
  <2>1. u \in Seq(Chain) /\ Len(u) = n + 4 /\ n \in Nat
    BY <1>10 DEF Behind
  <2> QED
    BY <1>11, <2>1
<1> HIDE DEF v
<1>13. LexTo(v, t, w)
  BY <1>4, <1>5, <1>12, LexPlain
<1>14. Behind(Chain, w, v, n + 5, single, 1)
  <2> DEFINE m == n + 5
  <2>1. single \in Seq(Chain) /\ 1 = Len(single) /\ w = v \o single /\ m = Len(v)
    BY <1>8, <1>12 DEF single
  <2> HIDE DEF w, m
  <2>2. Behind(Chain, w, v, m, single, 1)
    BY <1>12, <2>1, OneBehind
  <2> QED
    BY <2>2 DEF m
<1> HIDE DEF w
<1>15. LexTo(before, EntryOf(results, p), w)
  <2>1. EntryOf(results, p) = r \o JsonString(b) \o t
    BY Zenon DEF EntryOf, r, b, t, PortMark, StateMark, BannerMark, CloseMark
  <2>2. LexTo(before, r \o JsonString(b), v)
    BY <1>9, <1>11, LexOn
  <2> QED
    BY <1>13, <2>1, <2>2, LexOn
<1>16. SixMore(w, before, n, results, p)
  <2>1. /\ w \in Seq(Chain) /\ Len(w) = n + 6 /\ w[n + 6] = single[1] /\ \A i \in 1 .. n + 5 : w[i] = v[i]
    <3>1. /\ w \in Seq(Chain) /\ Len(w) = (n + 5) + 1 /\ \A i \in 1 .. n + 5 : w[i] = v[i]
          /\ \A i \in (n + 5) + 1 .. (n + 5) + 1 : w[i] = single[i - (n + 5)]
      BY <1>14 DEF Behind
    <3>2. (n + 5) + 1 = n + 6 /\ (n + 6) - (n + 5) = 1 /\ n + 6 \in (n + 5) + 1 .. (n + 5) + 1
      BY <1>12
    <3> QED
      BY <3>1, <3>2
  <2>2. single[1] = <<CloseMark>>
    BY <1>4, <1>8 DEF single
  <2>3. /\ u[n + 1] = <<PortMark>> /\ u[n + 2] = <<ToString(p)>> /\ u[n + 3] = <<StateMark>> /\ u[n + 4] = <<BannerMark>>
        /\ \A i \in 1 .. n : u[i] = before[i]
    <3>1. /\ \A i \in 1 .. n : u[i] = before[i]
          /\ \A i \in n + 1 .. n + 4 : u[i] = singles[i - n]
      BY <1>10 DEF Behind
    <3>2. \A k \in 1 .. 4 : n + k \in n + 1 .. n + 4 /\ (n + k) - n = k
      BY <1>12
    <3>3. \A k \in 1 .. 4 : u[n + k] = singles[k] /\ singles[k] = <<r[k]>>
      BY <1>7, <3>1, <3>2 DEF singles
    <3> QED
      BY <1>3, <3>1, <3>3
  <2>4. \A i \in 1 .. n : i \in 1 .. n + 4 /\ i \in 1 .. n + 5
    BY <1>12
  <2>5. n + 1 \in 1 .. n + 4 /\ n + 2 \in 1 .. n + 4 /\ n + 3 \in 1 .. n + 4 /\ n + 4 \in 1 .. n + 4
    BY <1>12
  <2>6. n + 1 \in 1 .. n + 5 /\ n + 2 \in 1 .. n + 5 /\ n + 3 \in 1 .. n + 5 /\ n + 4 \in 1 .. n + 5 /\ n + 5 \in 1 .. n + 5
    BY <1>12
  <2>7. \A i \in 1 .. n : w[i] = before[i]
    BY <1>12, <2>1, <2>3, <2>4
  <2>8. w[n + 1] = <<PortMark>> /\ w[n + 2] = <<ToString(p)>> /\ w[n + 3] = <<StateMark>> /\ w[n + 4] = <<BannerMark>>
    BY <1>12, <2>1, <2>3, <2>5, <2>6
  <2>9. w[n + 5] = value /\ w[n + 6] = <<CloseMark>>
    BY <1>12, <2>1, <2>2, <2>6
  <2> QED
    BY <1>12, <2>1, <2>7, <2>8, <2>9 DEF SixMore, value, b
<1> QED
  BY <1>15, <1>16

(* The values of the heading and of m entries: the port of entry k comes   *)
(* at 7 * k - 1, its number next and its banner three after that; what a   *)
(* reader looks for is nowhere else.                                       *)
EntryAt(values, i, results, p) ==
    /\ values[i] = <<PortMark>> /\ values[i + 1] = <<ToString(p)>> /\ values[i + 4] = <<Quote>> \o results[p].banner

HeadAt(values, target, results) ==
    /\ values[1] = <<TargetMark>> /\ values[2] = <<Quote>> \o Chars(target) /\ values[3] = <<ScannedMark>>
    /\ values[4] = <<Total(results)>> /\ NamesNone(values[2]) /\ NamesNone(values[4]) /\ NamesNone(values[5])

ReadSoFar(values, target, results, m) ==
    /\ m \in Nat /\ values \in Seq(Chain) /\ Len(values) = 7 * m + (IF m = 0 THEN 5 ELSE 4)
    /\ HeadAt(values, target, results)
    /\ \A k \in 1 .. m : EntryAt(values, 7 * k - 1, results, OpenPorts(results)[k])
    /\ \A i \in 6 .. Len(values) : NamesNone(values[i]) \/ \E k \in 1 .. m : i = 7 * k - 1

LEMMA EntryReads ==
    ASSUME NEW target, NEW results, IsReported(results), NEW m \in Nat, NEW values,
           ReadSoFar(values, target, results, m), m < Len(OpenPorts(results))
    PROVE  \E after : LexTo(values, Entries(results)[m + 1], after) /\ ReadSoFar(after, target, results, m + 1)
<1> DEFINE p == OpenPorts(results)[m + 1]
           comma == Comma(m + 1)
           u == values \o Singles(comma)
           n == 7 * m + 5
<1>1. p \in DOMAIN results /\ m + 1 \in 1 .. Len(OpenPorts(results))
  BY OpenPortsType
<1>2. Entries(results)[m + 1] = comma \o EntryOf(results, p)
  BY <1>1 DEF Entries
<1>3. values \in Seq(Chain) /\ Len(values) = 7 * m + (IF m = 0 THEN 5 ELSE 4)
  BY DEF ReadSoFar
<1>4. CommaMark \in Piece /\ CommaMark # Quote /\ CommaMark \notin JsonNames
  BY MarksDiffer DEF OtherMarks
<1>5. (m = 0 => comma = << >>) /\ (m # 0 => comma = <<CommaMark>>)
  <2>1. (m + 1 = 1 => comma = << >>) /\ (m + 1 # 1 => comma = <<CommaMark>>)
    BY Zenon DEF Comma, CommaMark
  <2> QED
    BY <2>1
<1>6. comma \in Chain /\ Unquoted(comma)
  <2>1. comma \in Chain
    BY Zenon, CommaType
  <2>2. Unquoted(<< >>) /\ (\A v : v # Quote => Unquoted(<<v>>))
    BY DEF Unquoted
  <2> QED
    BY Zenon, <1>4, <1>5, <2>1, <2>2
<1> HIDE DEF comma
<1>7. LexTo(values, comma, u)
  BY <1>3, <1>6, LexPlain
<1>8. /\ u \in Seq(Chain) /\ Len(u) = n /\ n \in Nat /\ Len(values) <= n
      /\ \A i \in 1 .. Len(values) : u[i] = values[i]
      /\ \A i \in Len(values) + 1 .. n : NamesNone(u[i])
  <2>1. CASE m = 0
    <3>1. comma = << >>
      BY <1>5, <2>1
    <3>2. Singles(comma) = << >>
      BY <3>1 DEF Singles
    <3>3. u = values
      BY <1>3, <3>2
    <3>4. n = 5 /\ Len(values) = 5
      BY <1>3, <2>1
    <3> HIDE DEF u, n
    <3>5. Len(values) + 1 .. n = {}
      BY <3>4
    <3>6. u \in Seq(Chain) /\ Len(u) = n
      BY <1>3, <3>3, <3>4
    <3>7. n \in Nat /\ Len(values) <= n
      BY <3>4
    <3>8. \A i \in 1 .. Len(values) : u[i] = values[i]
      BY <3>3
    <3>9. \A i \in Len(values) + 1 .. n : NamesNone(u[i])
      BY <3>5
    <3> QED
      BY <3>6, <3>7, <3>8, <3>9
  <2>2. CASE m # 0
    <3> DEFINE s == Singles(comma)
               l == Len(values)
    <3>1. comma = <<CommaMark>> /\ Len(comma) = 1 /\ comma[1] = CommaMark
      BY <1>5, <2>2
    <3>2. s \in Seq(Chain) /\ Len(s) = 1 /\ s[1] = <<CommaMark>>
      <4>1. s \in Seq(Chain) /\ Len(s) = 1 /\ \A k \in 1 .. 1 : s[k] = <<comma[k]>>
        BY <1>6, <3>1, SinglesType
      <4> QED
        BY <3>1, <4>1
    <3> HIDE DEF s
    <3>3. l \in Nat /\ l = 7 * m + 4 /\ n = l + 1 /\ n \in Nat
      BY <1>3, <2>2
    <3> HIDE DEF l, n
    <3>4. Behind(Chain, u, values, l, s, 1)
      <4>1. u = values \o s /\ l = Len(values) /\ 1 = Len(s)
        BY <3>2 DEF s, l
      <4> HIDE DEF u
      <4> QED
        BY <1>3, <3>2, <4>1, OneBehind
    <3> HIDE DEF u
    <3>5. NamesNone(s[1])
      BY <1>4, <3>2, NoNames
    <3>6. u \in Seq(Chain) /\ Len(u) = l + 1 /\ \A i \in 1 .. l : u[i] = values[i]
      BY <3>4 DEF Behind
    <3>7. \A i \in l + 1 .. l + 1 : NamesNone(u[i])
      <4>1. \A i \in l + 1 .. l + 1 : u[i] = s[i - l]
        BY <3>4 DEF Behind
      <4>2. \A i \in l + 1 .. l + 1 : i - l = 1
        BY <3>3
      <4> QED
        BY <3>5, <4>1, <4>2
    <3> QED
      BY <3>3, <3>6, <3>7 DEF l
  <2> QED
    BY <2>1, <2>2
<1> HIDE DEF u, n
<1>9. PICK after : LexTo(u, EntryOf(results, p), after) /\ SixMore(after, u, n, results, p)
  BY <1>1, <1>8, EntryLex
<1>10. LexTo(values, Entries(results)[m + 1], after)
  BY <1>2, <1>7, <1>9, LexOn
<1>11. /\ after \in Seq(Chain) /\ Len(after) = n + 6 /\ \A i \in 1 .. n : after[i] = u[i]
       /\ after[n + 1] = <<PortMark>> /\ after[n + 2] = <<ToString(p)>> /\ after[n + 3] = <<StateMark>>
       /\ after[n + 4] = <<BannerMark>> /\ after[n + 5] = <<Quote>> \o results[p].banner /\ after[n + 6] = <<CloseMark>>
  BY <1>9 DEF SixMore
<1>12. \A i \in 1 .. Len(values) : after[i] = values[i]
  <2>1. \A i \in 1 .. Len(values) : i \in 1 .. n
    BY <1>3, <1>8
  <2> QED
    BY <1>8, <1>11, <2>1
<1>13. n = 7 * m + 5 /\ (m + 1) \in Nat /\ Len(values) >= 5 /\ Len(values) \in Nat /\ Len(values) >= 7 * m + 4
  BY <1>3 DEF n
<1>14. Len(after) = 7 * (m + 1) + 4
  BY <1>11, <1>13
<1>15. HeadAt(after, target, results)
  <2>1. \A i \in 1 .. 5 : i \in 1 .. Len(values)
    BY <1>13
  <2>2. \A i \in 1 .. 5 : after[i] = values[i]
    BY <1>12, <2>1
  <2>3. HeadAt(values, target, results)
    BY DEF ReadSoFar
  <2>4. /\ after[1] = values[1] /\ after[2] = values[2] /\ after[3] = values[3]
        /\ after[4] = values[4] /\ after[5] = values[5]
    BY <2>2
  <2> QED
    BY Zenon, <2>3, <2>4 DEF HeadAt
<1>16. ASSUME NEW k \in 1 .. m + 1 PROVE EntryAt(after, 7 * k - 1, results, OpenPorts(results)[k])
  <2>1. CASE k = m + 1
    <3>1. 7 * k - 1 = n + 1 /\ (7 * k - 1) + 1 = n + 2 /\ (7 * k - 1) + 4 = n + 5
      BY <1>13, <2>1
    <3> QED
      BY <1>11, <2>1, <3>1 DEF EntryAt
  <2>2. CASE k # m + 1
    <3>1. k \in 1 .. m /\ 7 * k - 1 \in 1 .. Len(values) /\ (7 * k - 1) + 1 \in 1 .. Len(values)
          /\ (7 * k - 1) + 4 \in 1 .. Len(values)
      BY <1>13, <2>2
    <3>2. EntryAt(values, 7 * k - 1, results, OpenPorts(results)[k])
      BY <3>1 DEF ReadSoFar
    <3> QED
      BY <1>12, <3>1, <3>2 DEF EntryAt
  <2> QED
    BY <2>1, <2>2
<1>17. ASSUME NEW i \in 6 .. Len(after) PROVE NamesNone(after[i]) \/ \E k \in 1 .. m + 1 : i = 7 * k - 1
  <2>1. CASE i <= Len(values)
    <3>1. i \in 6 .. Len(values) /\ i \in 1 .. Len(values)
      BY <1>13, <2>1
    <3>2. NamesNone(values[i]) \/ \E k \in 1 .. m : i = 7 * k - 1
      BY <3>1 DEF ReadSoFar
    <3>3. \A k \in 1 .. m : k \in 1 .. m + 1
      OBVIOUS
    <3> QED
      BY <1>12, <3>1, <3>2, <3>3
  <2>2. CASE i > Len(values) /\ i <= n
    <3>1. i \in Len(values) + 1 .. n /\ i \in 1 .. n
      BY <1>8, <1>13, <2>2
    <3> QED
      BY <1>8, <1>11, <3>1
  <2>3. CASE i > n
    <3>1. i \in {n + 1, n + 2, n + 3, n + 4, n + 5, n + 6}
      <4>1. n \in Nat /\ Len(after) = n + 6
        BY <1>8, <1>11
      <4>2. i \in Nat /\ i <= n + 6
        BY <4>1
      <4> QED
        BY <2>3, <4>1, <4>2
    <3>2. CASE i = n + 1
      <4>1. i = 7 * (m + 1) - 1 /\ m + 1 \in 1 .. m + 1
        BY <1>13, <3>2
      <4> QED
        BY <4>1
    <3>3. NamesNone(after[n + 2]) /\ NamesNone(after[n + 3]) /\ NamesNone(after[n + 4]) /\ NamesNone(after[n + 6])
      <4>1. ToString(p) \in Piece /\ ToString(p) \notin JsonNames
        <5>1. HighestPort \in Nat
          BY DEF HighestPort
        <5>2. p \in Nat /\ p \in 0 .. HighestPort
          BY <1>1, <5>1 DEF IsReported
        <5> QED
          BY <5>2, Pieces, MarksDiffer, NamesAssumption
      <4>2. StateMark \in Piece /\ BannerMark \in Piece /\ CloseMark \in Piece
            /\ StateMark \notin JsonNames /\ BannerMark \notin JsonNames /\ CloseMark \notin JsonNames
        BY MarksDiffer DEF OtherMarks
      <4>3. NamesNone(<<ToString(p)>>) /\ NamesNone(<<StateMark>>) /\ NamesNone(<<BannerMark>>) /\ NamesNone(<<CloseMark>>)
        BY Zenon, <4>1, <4>2, NoNames
      <4> QED
        BY Zenon, <1>11, <4>3
    <3>4. NamesNone(after[n + 5])
      <4>1. results[p].banner \in Chain
        BY <1>1, BannerIsChain DEF IsReported
      <4>2. NamesNone(<<Quote>> \o results[p].banner)
        BY Zenon, <4>1, NoNames
      <4> QED
        BY Zenon, <1>11, <4>2
    <3> QED
      BY <3>1, <3>2, <3>3, <3>4
  <2>4. i <= Len(values) \/ (i > Len(values) /\ i <= n) \/ i > n
    <3>1. n \in Nat /\ Len(after) = n + 6 /\ Len(values) \in Nat
      BY <1>8, <1>11, <1>13
    <3>2. i \in Nat
      BY <3>1
    <3> QED
      BY <3>1, <3>2
  <2> QED
    BY <2>1, <2>2, <2>3, <2>4
<1>18. ReadSoFar(after, target, results, m + 1)
  <2>1. Len(after) = 7 * (m + 1) + (IF m + 1 = 0 THEN 5 ELSE 4)
    BY <1>13, <1>14
  <2> QED
    BY <1>11, <1>13, <1>15, <1>16, <1>17, <2>1 DEF ReadSoFar
<1> QED
  BY <1>10, <1>18

LEMMA JsonHeadReads ==
    ASSUME NEW target \in Text, Unescaped(Chars(target)), NEW results, IsReported(results)
    PROVE  \E after : /\ LexTo(<< >>, JsonHead(JsonString(Chars(target)), Total(results)), after)
                      /\ ReadSoFar(after, target, results, 0)
<1> DEFINE chars == Chars(target)
           total == Total(results)
           r == <<TargetMark>>
           s == <<ScannedMark, total, OpenMark>>
           none == << >>
           value == <<Quote>> \o chars
           u == none \o Singles(r)
           v == Append(u, value)
           w == v \o Singles(s)
<1>1. total \in Piece /\ total # Quote /\ total \notin JsonNames /\ chars \in Chain
  <2>1. IsData(total) /\ chars \in Chain
    BY Zenon, TableParts
  <2> QED
    BY <2>1, MarksDiffer DEF IsData
<1>2. /\ TargetMark \in Piece /\ ScannedMark \in Piece /\ OpenMark \in Piece
      /\ TargetMark # Quote /\ ScannedMark # Quote /\ OpenMark # Quote /\ OpenMark \notin JsonNames
  BY MarksDiffer DEF JsonNames, OtherMarks
<1> HIDE DEF total
<1>3. r \in Chain /\ Len(r) = 1 /\ r[1] = TargetMark
  BY <1>2 DEF Chain
<1>4. s \in Chain /\ Len(s) = 3 /\ s[1] = ScannedMark /\ s[2] = total /\ s[3] = OpenMark
  BY <1>1, <1>2 DEF Chain
<1> HIDE DEF r, s, none
<1>5. Unquoted(r) /\ Unquoted(s)
  BY <1>1, <1>2, <1>3, <1>4 DEF Unquoted
<1>6. none \in Seq(Chain) /\ Len(none) = 0
  BY DEF none
<1>7. LexTo(none, r, u)
  BY <1>3, <1>5, <1>6, LexPlain
<1> DEFINE singles == Singles(r)
           others == Singles(s)
<1>8. singles \in Seq(Chain) /\ Len(singles) = 1 /\ singles[1] = <<TargetMark>>
  <2>1. singles \in Seq(Chain) /\ Len(singles) = 1 /\ \A k \in 1 .. 1 : singles[k] = <<r[k]>>
    BY <1>3, SinglesType
  <2> QED
    BY <1>3, <2>1
<1>9. others \in Seq(Chain) /\ Len(others) = 3 /\ others[1] = <<ScannedMark>> /\ others[2] = <<total>> /\ others[3] = <<OpenMark>>
  <2>1. others \in Seq(Chain) /\ Len(others) = 3 /\ \A k \in 1 .. 3 : others[k] = <<s[k]>>
    BY <1>4, SinglesType
  <2>2. others[1] = <<s[1]>> /\ others[2] = <<s[2]>> /\ others[3] = <<s[3]>>
    BY <2>1
  <2> QED
    BY <1>4, <2>1, <2>2
<1> HIDE DEF singles, others
<1>10. u \in Seq(Chain) /\ Len(u) = 1 /\ u[1] = <<TargetMark>>
  <2>1. 0 = Len(none) /\ 1 = Len(singles) /\ u = none \o singles
    BY <1>6, <1>8 DEF singles
  <2> HIDE DEF u
  <2>2. Behind(Chain, u, none, 0, singles, 1)
    BY <1>6, <1>8, <2>1, OneBehind
  <2> QED
    BY <1>8, <2>2 DEF Behind
<1> HIDE DEF u
<1>11. LexTo(u, JsonString(chars), v) /\ value \in Chain
  BY <1>1, <1>10, LexString
<1> HIDE DEF value
<1>12. v \in Seq(Chain) /\ Len(v) = 2 /\ v[1] = <<TargetMark>> /\ v[2] = value
  <2>1. u \in Seq(Chain) /\ Len(u) = 1 /\ value \in Chain
    BY <1>10, <1>11
  <2>2. v \in Seq(Chain) /\ Len(v) = Len(u) + 1 /\ v[Len(u) + 1] = value /\ \A i \in 1 .. Len(u) : v[i] = u[i]
    BY <2>1
  <2>3. v[1] = u[1] /\ v[2] = value
    BY <2>1, <2>2
  <2> QED
    BY <1>10, <2>1, <2>2, <2>3
<1> HIDE DEF v
<1>13. LexTo(v, s, w)
  BY <1>4, <1>5, <1>12, LexPlain
<1>14. /\ w \in Seq(Chain) /\ Len(w) = 5 /\ w[1] = <<TargetMark>> /\ w[2] = value /\ w[3] = <<ScannedMark>>
       /\ w[4] = <<total>> /\ w[5] = <<OpenMark>>
  <2>1. 2 = Len(v) /\ 3 = Len(others) /\ w = v \o others
    BY <1>9, <1>12 DEF others
  <2> HIDE DEF w
  <2>2. Behind(Chain, w, v, 2, others, 3)
    BY <1>9, <1>12, <2>1, OneBehind
  <2> QED
    BY <1>9, <1>12, <2>2 DEF Behind
<1> HIDE DEF w
<1>15. LexTo(none, JsonHead(JsonString(chars), total), w)
  <2>1. JsonHead(JsonString(chars), total) = r \o JsonString(chars) \o s
    BY Zenon DEF JsonHead, r, s, TargetMark, ScannedMark, OpenMark
  <2>2. LexTo(none, r \o JsonString(chars), v)
    BY <1>7, <1>11, LexOn
  <2> QED
    BY <1>13, <2>1, <2>2, LexOn
<1>16. HeadAt(w, target, results)
  <2>1. NamesNone(value) /\ NamesNone(<<total>>) /\ NamesNone(<<OpenMark>>)
    BY Zenon, <1>1, <1>2, NoNames DEF value
  <2> QED
    BY Zenon, <1>14, <2>1 DEF HeadAt, value, chars, total
<1>17. ReadSoFar(w, target, results, 0)
  <2>1. 1 .. 0 = {} /\ 6 .. 5 = {} /\ 7 * 0 + 5 = 5 /\ 0 \in Nat
    OBVIOUS
  <2>2. Len(w) = 7 * 0 + (IF 0 = 0 THEN 5 ELSE 4)
    BY <1>14
  <2>3. \A k \in 1 .. 0 : EntryAt(w, 7 * k - 1, results, OpenPorts(results)[k])
    BY <2>1
  <2>4. \A i \in 6 .. Len(w) : NamesNone(w[i]) \/ \E k \in 1 .. 0 : i = 7 * k - 1
    BY <1>14, <2>1
  <2> QED
    BY <1>14, <1>16, <2>1, <2>2, <2>3, <2>4 DEF ReadSoFar
<1> QED
  BY <1>15, <1>17 DEF none, total

LEMMA EntriesRead ==
    ASSUME NEW target, NEW results, IsReported(results), NEW before, ReadSoFar(before, target, results, 0),
           NEW n, n = Len(OpenPorts(results))
    PROVE  \E after : LexTo(before, Joined(Entries(results)), after) /\ ReadSoFar(after, target, results, n)
<1> DEFINE chains == Entries(results)
<1>1. n \in Nat /\ chains \in Seq(Chain) /\ n = Len(chains)
  BY OpenPortsType, EntriesType
<1> HIDE DEF chains
<1>2. PICK g : JoinedBy(chains, g, n)
  BY <1>1, JoinedRun
<1> DEFINE Good == {m \in Nat : m <= n => \E after : LexTo(before, g[m], after) /\ ReadSoFar(after, target, results, m)}
<1>3. 0 \in Good
  <2> DEFINE none == << >>
  <2>1. g[0] = none /\ none \in Chain
    BY <1>2, Concatenation DEF JoinedBy
  <2>2. before \in Seq(Chain)
    BY DEF ReadSoFar
  <2> DEFINE start == At(Outside, before)
  <2>3. start \in LexStates
    BY <2>2, AtType
  <2> HIDE DEF start
  <2>4. Fold(LexStates, LexStep, start, << >>) = start
    BY <2>3, FoldOfNone
  <2>5. LexTo(before, none, before)
    BY <2>1, <2>2, <2>4 DEF LexTo, start, none
  <2> QED
    BY <2>1, <2>5
<1>4. ASSUME NEW m \in Nat, m \in Good PROVE m + 1 \in Good
  <2>1. ASSUME m + 1 <= n PROVE \E after : LexTo(before, g[m + 1], after) /\ ReadSoFar(after, target, results, m + 1)
    <3>1. m \in 0 .. n - 1 /\ m < n /\ m <= n
      BY <1>1, <2>1
    <3>2. PICK middle : LexTo(before, g[m], middle) /\ ReadSoFar(middle, target, results, m)
      BY <1>4, <3>1
    <3>3. PICK after : LexTo(middle, chains[m + 1], after) /\ ReadSoFar(after, target, results, m + 1)
      BY <3>1, <3>2, EntryReads DEF chains
    <3>4. g[m + 1] = g[m] \o chains[m + 1]
      BY <1>2, <3>1 DEF JoinedBy
    <3>5. LexTo(before, g[m + 1], after)
      BY <3>2, <3>3, <3>4, LexOn
    <3> QED
      BY <3>3, <3>5
  <2> QED
    BY <2>1
<1> HIDE DEF Good
<1>5. n \in Good
  BY <1>1, <1>3, <1>4, Induction
<1>6. n <= n
  BY <1>1
<1>7. g[n] = Joined(chains)
  BY <1>2 DEF JoinedBy
<1> QED
  BY <1>5, <1>6, <1>7 DEF Good, chains

(* The values of the end.                                                  *)
JsonRead(values, l, target, results, n) ==
    /\ l \in Nat /\ l = 7 * n + (IF n = 0 THEN 5 ELSE 4) /\ n \in Nat
    /\ values \in Seq(Chain) /\ Len(values) = l + 9 /\ HeadAt(values, target, results)
    /\ \A k \in 1 .. n : EntryAt(values, 7 * k - 1, results, OpenPorts(results)[k])
    /\ \A i \in 6 .. l : NamesNone(values[i]) \/ \E k \in 1 .. n : i = 7 * k - 1
    /\ values[l + 1] = <<EndMark>>
    /\ values[l + 2] = <<ClosedMark>> /\ values[l + 3] = <<Count(results, "closed")>>
    /\ values[l + 4] = <<FilteredMark>> /\ values[l + 5] = <<Count(results, "filtered")>>
    /\ values[l + 6] = <<ErrorsMark>> /\ values[l + 7] = <<Count(results, "error")>>
    /\ values[l + 8] = <<CloseMark>> /\ values[l + 9] = <<LineMark>>

LEMMA JsonEndReads ==
    ASSUME NEW target \in Text, NEW results, IsReported(results), NEW before, NEW n, ReadSoFar(before, target, results, n)
    PROVE  \E after, l :
              /\ LexTo(before, JsonEnd(Count(results, "closed"), Count(results, "filtered"), Count(results, "error")), after)
              /\ JsonRead(after, l, target, results, n)
<1> DEFINE closed == Count(results, "closed")
           filtered == Count(results, "filtered")
           errors == Count(results, "error")
           r == <<EndMark, ClosedMark, closed, FilteredMark, filtered, ErrorsMark, errors, CloseMark, LineMark>>
           singles == Singles(r)
           after == before \o singles
           l == Len(before)
<1>1. /\ closed \in Piece /\ closed # Quote /\ filtered \in Piece /\ filtered # Quote /\ errors \in Piece /\ errors # Quote
  <2>1. IsData(closed) /\ IsData(filtered) /\ IsData(errors)
    BY Zenon, TableParts
  <2> QED
    BY <2>1, MarksDiffer DEF IsData
<1>2. /\ EndMark \in Piece /\ ClosedMark \in Piece /\ FilteredMark \in Piece /\ ErrorsMark \in Piece /\ CloseMark \in Piece
      /\ LineMark \in Piece
      /\ EndMark # Quote /\ ClosedMark # Quote /\ FilteredMark # Quote /\ ErrorsMark # Quote /\ CloseMark # Quote
      /\ LineMark # Quote
  BY MarksDiffer DEF JsonNames, OtherMarks
<1>3. r = JsonEnd(closed, filtered, errors)
  BY Zenon DEF JsonEnd, EndMark, ClosedMark, FilteredMark, ErrorsMark, CloseMark, LineMark
<1> HIDE DEF closed, filtered, errors
<1>4. /\ r \in Chain /\ Len(r) = 9 /\ r[1] = EndMark /\ r[2] = ClosedMark /\ r[3] = closed /\ r[4] = FilteredMark
      /\ r[5] = filtered /\ r[6] = ErrorsMark /\ r[7] = errors /\ r[8] = CloseMark /\ r[9] = LineMark
  BY <1>1, <1>2 DEF Chain
<1> HIDE DEF r
<1>5. Unquoted(r)
  BY <1>1, <1>2, <1>4 DEF Unquoted
<1>6. before \in Seq(Chain) /\ l \in Nat
  BY DEF ReadSoFar
<1>7. LexTo(before, r, after)
  BY <1>4, <1>5, <1>6, LexPlain
<1>8. singles \in Seq(Chain) /\ Len(singles) = 9 /\ \A k \in 1 .. 9 : singles[k] = <<r[k]>>
  BY <1>4, SinglesType
<1> HIDE DEF singles
<1>9. Behind(Chain, after, before, l, singles, 9)
  <2>1. 9 = Len(singles)
    BY <1>8
  <2> HIDE DEF after, l
  <2>2. after = before \o singles /\ l = Len(before)
    BY DEF after, l
  <2> QED
    BY <1>6, <1>8, <2>1, <2>2, OneBehind
<1> HIDE DEF after
<1>10. /\ n \in Nat /\ l = 7 * n + (IF n = 0 THEN 5 ELSE 4) /\ l >= 5
       /\ HeadAt(before, target, results)
       /\ \A k \in 1 .. n : EntryAt(before, 7 * k - 1, results, OpenPorts(results)[k])
       /\ \A i \in 6 .. l : NamesNone(before[i]) \/ \E k \in 1 .. n : i = 7 * k - 1
  BY DEF ReadSoFar
<1> HIDE DEF l
<1>11. /\ after \in Seq(Chain) /\ Len(after) = l + 9
       /\ \A i \in 1 .. l : after[i] = before[i]
       /\ \A i \in l + 1 .. l + 9 : after[i] = singles[i - l]
  BY <1>9 DEF Behind
<1>12. \A k \in 1 .. 9 : after[l + k] = <<r[k]>>
  <2>1. \A k \in 1 .. 9 : l + k \in l + 1 .. l + 9 /\ (l + k) - l = k
    BY <1>6
  <2> QED
    BY <1>8, <1>11, <2>1
<1>13. /\ after[l + 1] = <<EndMark>> /\ after[l + 2] = <<ClosedMark>> /\ after[l + 3] = <<closed>>
       /\ after[l + 4] = <<FilteredMark>> /\ after[l + 5] = <<filtered>> /\ after[l + 6] = <<ErrorsMark>>
       /\ after[l + 7] = <<errors>> /\ after[l + 8] = <<CloseMark>> /\ after[l + 9] = <<LineMark>>
  BY <1>4, <1>12
<1>14. HeadAt(after, target, results)
  <2>1. \A i \in 1 .. 5 : i \in 1 .. l
    BY <1>6, <1>10
  <2>2. \A i \in 1 .. 5 : after[i] = before[i]
    BY <1>11, <2>1
  <2>3. /\ after[1] = before[1] /\ after[2] = before[2] /\ after[3] = before[3]
        /\ after[4] = before[4] /\ after[5] = before[5]
    BY <2>2
  <2> QED
    BY Zenon, <1>10, <2>3 DEF HeadAt
<1>15. ASSUME NEW k \in 1 .. n PROVE EntryAt(after, 7 * k - 1, results, OpenPorts(results)[k])
  <2>1. 7 * k - 1 \in 1 .. l /\ (7 * k - 1) + 1 \in 1 .. l /\ (7 * k - 1) + 4 \in 1 .. l
    BY <1>10
  <2>2. EntryAt(before, 7 * k - 1, results, OpenPorts(results)[k])
    BY <1>10
  <2> QED
    BY <1>11, <2>1, <2>2 DEF EntryAt
<1>16. ASSUME NEW i \in 6 .. l PROVE NamesNone(after[i]) \/ \E k \in 1 .. n : i = 7 * k - 1
  <2>1. i \in 1 .. l
    BY <1>6
  <2> QED
    BY <1>10, <1>11, <2>1
<1>17. JsonRead(after, l, target, results, n)
  BY <1>6, <1>10, <1>11, <1>13, <1>14, <1>15, <1>16 DEF JsonRead, closed, filtered, errors
<1> QED
  BY <1>3, <1>7, <1>17 DEF closed, filtered, errors

(* JSON reads back.                                                        *)
LEMMA TailOfString ==
    ASSUME NEW text \in Chain
    PROVE  Tail(<<Quote>> \o text) = text
<1> DEFINE quote == <<Quote>>
           n == Len(text)
           all == Plus(quote, text)
           rest == Tail(all)
<1>1. quote \in Chain /\ Len(quote) = 1 /\ n \in Nat
  BY LexNames DEF Chain
<1> HIDE DEF quote
<1>2. Glued(all, quote, 1, text, n)
  BY <1>1, PlusIs
<1> HIDE DEF all, n
<1>3. all \in Seq(Piece) /\ Len(all) = n + 1 /\ \A k \in 2 .. n + 1 : all[k] = text[k - 1]
  BY <1>1, <1>2 DEF Glued, Chain
<1>4. rest \in Seq(Piece) /\ Len(rest) = n /\ \A k \in 1 .. n : rest[k] = all[k + 1]
  BY <1>1, <1>3
<1> HIDE DEF rest
<1>5. \A k \in 1 .. n : rest[k] = text[k]
  <2>1. \A k \in 1 .. n : k + 1 \in 2 .. n + 1 /\ (k + 1) - 1 = k
    BY <1>1
  <2> QED
    BY <1>3, <1>4, <2>1
<1>6. rest = text
  <2>1. text \in Seq(Piece) /\ Len(text) = n
    BY DEF Chain, n
  <2> QED
    BY <1>4, <1>5, <2>1
<1>7. all = <<Quote>> \o text
  BY Zenon DEF all, quote, Plus
<1>8. rest = Tail(<<Quote>> \o text)
  BY Zenon, <1>7 DEF rest
<1> QED
  BY Zenon, <1>6, <1>8

LEMMA JsonPlaces ==
    ASSUME NEW target \in Text, NEW results, IsReported(results), NEW values, NEW l, NEW n,
           JsonRead(values, l, target, results, n)
    PROVE  /\ FirstAt(values, <<TargetMark>>, 1) /\ FirstAt(values, <<ScannedMark>>, 3)
           /\ FirstAt(values, <<ClosedMark>>, l + 2) /\ FirstAt(values, <<FilteredMark>>, l + 4)
           /\ FirstAt(values, <<ErrorsMark>>, l + 6)
           /\ {k \in 1 .. Len(values) : values[k] = <<PortMark>>} = {7 * k - 1 : k \in 1 .. n}
<1> DEFINE a == <<TargetMark>>
           b == <<ScannedMark>>
           c1 == <<PortMark>>
           d == <<ClosedMark>>
           e == <<FilteredMark>>
           f == <<ErrorsMark>>
           Other(value) == value \notin {a, b, c1, d, e, f}
<1>1. /\ l \in Nat /\ n \in Nat /\ l >= 5 /\ Len(values) = l + 9
      /\ \A k \in 1 .. n : 7 * k - 1 \in 6 .. l
  <2>1. l \in Nat /\ n \in Nat /\ l = 7 * n + (IF n = 0 THEN 5 ELSE 4) /\ Len(values) = l + 9
    BY Zenon DEF JsonRead
  <2>2. l >= 5
    BY <2>1
  <2>3. ASSUME NEW k \in 1 .. n PROVE 7 * k - 1 \in 6 .. l
    BY <2>1
  <2> QED
    BY <2>1, <2>2, <2>3
<1>2. /\ a # b /\ a # c1 /\ a # d /\ a # e /\ a # f /\ b # c1 /\ b # d /\ b # e /\ b # f
      /\ c1 # d /\ c1 # e /\ c1 # f /\ d # e /\ d # f /\ e # f
  <2>1. ASSUME NEW v, NEW w, <<v>> = <<w>> PROVE v = w
    <3>1. <<v>>[1] = v /\ <<w>>[1] = w
      OBVIOUS
    <3> QED
      BY Zenon, <2>1, <3>1
  <2> QED
    BY Zenon, <2>1, MarksDiffer
<1>3. ASSUME NEW value, NamesNone(value) PROVE Other(value)
  BY <1>3 DEF NamesNone, JsonNames
<1> DEFINE closed == Count(results, "closed")
           filtered == Count(results, "filtered")
           errors == Count(results, "error")
<1>4. /\ NamesNone(<<closed>>) /\ NamesNone(<<filtered>>) /\ NamesNone(<<errors>>)
      /\ NamesNone(<<EndMark>>) /\ NamesNone(<<CloseMark>>) /\ NamesNone(<<LineMark>>)
  <2>1. IsData(closed) /\ IsData(filtered) /\ IsData(errors)
    BY Zenon, TableParts
  <2>2. closed \in Piece /\ filtered \in Piece /\ errors \in Piece
        /\ closed \notin JsonNames /\ filtered \notin JsonNames /\ errors \notin JsonNames
    BY <2>1, MarksDiffer DEF IsData
  <2>3. EndMark \in Piece /\ CloseMark \in Piece /\ LineMark \in Piece
        /\ EndMark \notin JsonNames /\ CloseMark \notin JsonNames /\ LineMark \notin JsonNames
    BY MarksDiffer DEF OtherMarks
  <2> QED
    BY Zenon, <2>2, <2>3, NoNames
<1>5. /\ values[1] = a /\ NamesNone(values[2]) /\ values[3] = b /\ NamesNone(values[4]) /\ NamesNone(values[5])
      /\ \A i \in 6 .. l : NamesNone(values[i]) \/ (\E k \in 1 .. n : i = 7 * k - 1)
      /\ \A k \in 1 .. n : values[7 * k - 1] = c1
      /\ values[l + 1] = <<EndMark>> /\ values[l + 2] = d /\ values[l + 3] = <<closed>>
      /\ values[l + 4] = e /\ values[l + 5] = <<filtered>> /\ values[l + 6] = f
      /\ values[l + 7] = <<errors>> /\ values[l + 8] = <<CloseMark>> /\ values[l + 9] = <<LineMark>>
  BY Zenon DEF JsonRead, HeadAt, EntryAt
<1>6. /\ NamesNone(values[l + 1]) /\ NamesNone(values[l + 3]) /\ NamesNone(values[l + 5])
      /\ NamesNone(values[l + 7]) /\ NamesNone(values[l + 8]) /\ NamesNone(values[l + 9])
  BY Zenon, <1>4, <1>5
<1>7. /\ Other(values[2]) /\ Other(values[4]) /\ Other(values[5])
      /\ Other(values[l + 1]) /\ Other(values[l + 3]) /\ Other(values[l + 5])
      /\ Other(values[l + 7]) /\ Other(values[l + 8]) /\ Other(values[l + 9])
  BY <1>3, <1>5, <1>6
<1> HIDE DEF a, b, c1, d, e, f, closed, filtered, errors
<1>8. ASSUME NEW i \in 6 .. l PROVE Other(values[i]) \/ ((\E k \in 1 .. n : i = 7 * k - 1) /\ values[i] = c1)
  BY <1>3, <1>5
<1>9. /\ values[1] = a /\ values[3] = b /\ values[l + 2] = d /\ values[l + 4] = e /\ values[l + 6] = f
      /\ \A k \in 1 .. n : values[7 * k - 1] = c1
  BY Zenon, <1>5
<1>10. ASSUME NEW i \in 1 .. Len(values)
       PROVE  \/ Other(values[i])
              \/ (i = 1 /\ values[i] = a) \/ (i = 3 /\ values[i] = b)
              \/ ((\E k \in 1 .. n : i = 7 * k - 1) /\ values[i] = c1)
              \/ (i = l + 2 /\ values[i] = d) \/ (i = l + 4 /\ values[i] = e) \/ (i = l + 6 /\ values[i] = f)
  <2>1. \/ i \in {1, 2, 3, 4, 5} \/ i \in 6 .. l
        \/ i \in {l + 1, l + 2, l + 3, l + 4, l + 5, l + 6, l + 7, l + 8, l + 9}
    BY <1>1
  <2>2. CASE i \in {1, 2, 3, 4, 5}
    <3> HIDE DEF Other
    <3> QED
      BY <1>7, <1>9, <2>2
  <2>3. CASE i \in 6 .. l
    <3> HIDE DEF Other
    <3> QED
      BY <1>8, <2>3
  <2>4. CASE i \in {l + 1, l + 2, l + 3, l + 4, l + 5, l + 6, l + 7, l + 8, l + 9}
    <3> HIDE DEF Other
    <3> QED
      BY <1>7, <1>9, <2>4
  <2> QED
    BY <2>1, <2>2, <2>3, <2>4
<1>11. FirstAt(values, a, 1)
  BY <1>1, <1>9 DEF FirstAt
<1>12. FirstAt(values, b, 3)
  <2>1. ASSUME NEW j \in 1 .. Len(values), j < 3 PROVE values[j] # b
    BY <1>1, <1>2, <1>10, <2>1
  <2> QED
    BY <1>1, <1>9, <2>1 DEF FirstAt
<1>13. FirstAt(values, d, l + 2)
  <2>1. ASSUME NEW j \in 1 .. Len(values), j < l + 2 PROVE values[j] # d
    BY <1>1, <1>2, <1>10, <2>1
  <2> QED
    BY <1>1, <1>9, <2>1 DEF FirstAt
<1>14. FirstAt(values, e, l + 4)
  <2>1. ASSUME NEW j \in 1 .. Len(values), j < l + 4 PROVE values[j] # e
    BY <1>1, <1>2, <1>10, <2>1
  <2> QED
    BY <1>1, <1>9, <2>1 DEF FirstAt
<1>15. FirstAt(values, f, l + 6)
  <2>1. ASSUME NEW j \in 1 .. Len(values), j < l + 6 PROVE values[j] # f
    BY <1>1, <1>2, <1>10, <2>1
  <2> QED
    BY <1>1, <1>9, <2>1 DEF FirstAt
<1>16. {k \in 1 .. Len(values) : values[k] = c1} = {7 * k - 1 : k \in 1 .. n}
  <2>1. ASSUME NEW i \in 1 .. Len(values), values[i] = c1 PROVE \E k \in 1 .. n : i = 7 * k - 1
    BY <1>2, <1>10, <2>1
  <2>2. ASSUME NEW k \in 1 .. n PROVE 7 * k - 1 \in 1 .. Len(values) /\ values[7 * k - 1] = c1
    <3>1. 7 * k - 1 \in 6 .. l
      BY <1>1
    <3>2. 6 .. l \subseteq 1 .. Len(values)
      BY <1>1
    <3> QED
      BY <1>9, <3>1, <3>2
  <2> QED
    BY <2>1, <2>2
<1> QED
  BY <1>11, <1>12, <1>13, <1>14, <1>15, <1>16 DEF a, b, c1, d, e, f

LEMMA JsonReads ==
    ASSUME NEW target \in Text, Unescaped(Chars(target)), NEW results, IsReported(results)
    PROVE  ReadJson(Json(target, results)) = ToldOf(target, results)
<1> DEFINE text == Json(target, results)
           n == Len(OpenPorts(results))
           head == JsonHead(JsonString(Chars(target)), Total(results))
           entries == Joined(Entries(results))
           end == JsonEnd(Count(results, "closed"), Count(results, "filtered"), Count(results, "error"))
<1>1. PICK u : LexTo(<< >>, head, u) /\ ReadSoFar(u, target, results, 0)
  BY JsonHeadReads
<1>2. PICK v : LexTo(u, entries, v) /\ ReadSoFar(v, target, results, n)
  BY <1>1, EntriesRead
<1>3. PICK values, l : LexTo(v, end, values) /\ JsonRead(values, l, target, results, n)
  BY <1>2, JsonEndReads
<1>4. text = head \o entries \o end
  BY Zenon DEF Json, JsonOf
<1>5. LexTo(<< >>, text, values)
  <2>1. LexTo(<< >>, head \o entries, v)
    BY <1>1, <1>2, LexOn
  <2> HIDE DEF head, entries, end
  <2> QED
    BY <1>3, <1>4, <2>1, LexOn
<1> HIDE DEF text, n, head, entries, end
<1>6. FoldLeft(Lex, At(Outside, << >>), text) = At(Outside, values)
  <2>1. text \in Chain /\ Fold(LexStates, LexStep, At(Outside, << >>), text) = At(Outside, values)
    BY <1>5 DEF LexTo
  <2> QED
    BY <2>1, LexIsFold
<1> DEFINE After(name) == values[Find(values, <<name>>) + 1]
           ports == Ascending({k \in DOMAIN values : values[k] = <<PortMark>>})
<1>7. ReadJson(text) =
        IF At(Outside, values).mode # Outside \/ Last(At(Outside, values).values) # <<LineMark>> THEN [malformed |-> TRUE]
        ELSE LET all == At(Outside, values).values
                 Next1(name) == all[Find(all, <<name>>) + 1]
                 places == Ascending({k \in DOMAIN all : all[k] = <<PortMark>>})
             IN  [target |-> Tail(Next1(TargetMark)), scanned |-> Next1(ScannedMark)[1],
                  open |-> [k \in DOMAIN places |->
                              [port |-> all[places[k] + 1][1], banner |-> Tail(all[places[k] + 4])]],
                  closed |-> Next1(ClosedMark)[1], filtered |-> Next1(FilteredMark)[1], errors |-> Next1(ErrorsMark)[1]]
  BY Zenon, <1>6 DEF ReadJson, At, Find, Outside, LineMark, TargetMark, ScannedMark, PortMark, ClosedMark,
                     FilteredMark, ErrorsMark
<1>8. At(Outside, values).mode = Outside /\ At(Outside, values).values = values
  BY DEF At
<1>9. /\ l \in Nat /\ n \in Nat /\ values \in Seq(Chain) /\ Len(values) = l + 9 /\ values[l + 9] = <<LineMark>>
      /\ values[2] = <<Quote>> \o Chars(target) /\ values[4] = <<Total(results)>>
      /\ values[l + 3] = <<Count(results, "closed")>> /\ values[l + 5] = <<Count(results, "filtered")>>
      /\ values[l + 7] = <<Count(results, "error")>>
      /\ \A k \in 1 .. n : EntryAt(values, 7 * k - 1, results, OpenPorts(results)[k])
  BY <1>3 DEF JsonRead, HeadAt
<1>10. Last(values) = <<LineMark>>
  BY <1>9 DEF Last
<1>11. ReadJson(text) = [target |-> Tail(After(TargetMark)), scanned |-> After(ScannedMark)[1],
          open |-> [k \in DOMAIN ports |-> [port |-> values[ports[k] + 1][1], banner |-> Tail(values[ports[k] + 4])]],
          closed |-> After(ClosedMark)[1], filtered |-> After(FilteredMark)[1], errors |-> After(ErrorsMark)[1]]
  BY Zenon, <1>7, <1>8, <1>10
<1>12. /\ FirstAt(values, <<TargetMark>>, 1) /\ FirstAt(values, <<ScannedMark>>, 3)
       /\ FirstAt(values, <<ClosedMark>>, l + 2) /\ FirstAt(values, <<FilteredMark>>, l + 4)
       /\ FirstAt(values, <<ErrorsMark>>, l + 6)
       /\ {k \in 1 .. Len(values) : values[k] = <<PortMark>>} = {7 * k - 1 : k \in 1 .. n}
  BY <1>3, JsonPlaces
<1>13. /\ Find(values, <<TargetMark>>) = 1 /\ Find(values, <<ScannedMark>>) = 3
       /\ Find(values, <<ClosedMark>>) = l + 2 /\ Find(values, <<FilteredMark>>) = l + 4
       /\ Find(values, <<ErrorsMark>>) = l + 6
  <2>1. Len(values) \in Nat
    BY <1>9
  <2> QED
    BY <1>12, <2>1, FindIs
<1>14. /\ After(TargetMark) = values[2] /\ After(ScannedMark) = values[4] /\ After(ClosedMark) = values[l + 3]
       /\ After(FilteredMark) = values[l + 5] /\ After(ErrorsMark) = values[l + 7]
  <2>1. 1 + 1 = 2 /\ 3 + 1 = 4 /\ (l + 2) + 1 = l + 3 /\ (l + 4) + 1 = l + 5 /\ (l + 6) + 1 = l + 7
    BY <1>9
  <2> QED
    BY Zenon, <1>13, <2>1
<1> HIDE DEF After
<1>15. Tail(After(TargetMark)) = Chars(target)
  <2>1. Chars(target) \in Chain
    BY CharsArePieces
  <2> QED
    BY <1>9, <1>14, <2>1, TailOfString
<1>16. \A w : <<w>>[1] = w
  OBVIOUS
<1>17. /\ After(ScannedMark)[1] = Total(results) /\ After(ClosedMark)[1] = Count(results, "closed")
       /\ After(FilteredMark)[1] = Count(results, "filtered") /\ After(ErrorsMark)[1] = Count(results, "error")
  BY Zenon, <1>9, <1>14, <1>16
<1>18. DOMAIN ports = 1 .. n /\ \A k \in 1 .. n : ports[k] = 7 * k - 1
  <2> DEFINE g == [k \in 1 .. n |-> 7 * k - 1]
  <2>1. g \in [1 .. n -> Nat] /\ Increasing(g) /\ DOMAIN g = 1 .. n /\ \A k \in 1 .. n : g[k] = 7 * k - 1
    BY <1>9 DEF Increasing
  <2>2. {g[k] : k \in 1 .. n} = {7 * k - 1 : k \in 1 .. n}
    OBVIOUS
  <2>3. DOMAIN values = 1 .. Len(values)
    BY <1>9
  <2>4. {k \in DOMAIN values : values[k] = <<PortMark>>} = {g[k] : k \in 1 .. n}
    BY Zenon, <1>12, <2>2, <2>3
  <2> HIDE DEF g
  <2>5. Ascending({g[k] : k \in 1 .. n}) = g
    BY <1>9, <2>1, AscendingIs
  <2>6. ports = g
    BY Zenon, <2>4, <2>5
  <2> QED
    BY <2>1, <2>6
<1> HIDE DEF ports
<1>19. ASSUME NEW k \in 1 .. n
       PROVE  /\ values[ports[k] + 1][1] = ToString(OpenPorts(results)[k])
              /\ Tail(values[ports[k] + 4]) = results[OpenPorts(results)[k]].banner
  <2> DEFINE p == OpenPorts(results)[k]
             i == 7 * k - 1
  <2>1. ports[k] = i /\ EntryAt(values, i, results, p)
    BY <1>9, <1>18
  <2>2. p \in DOMAIN results
    BY OpenPortsType DEF n
  <2> HIDE DEF p, i
  <2>3. results[p].banner \in Chain
    BY <2>2, BannerIsChain DEF IsReported
  <2>4. values[ports[k] + 1] = <<ToString(p)>> /\ values[ports[k] + 4] = <<Quote>> \o results[p].banner
    BY Zenon, <2>1 DEF EntryAt
  <2>5. values[ports[k] + 1][1] = ToString(p)
    BY Zenon, <1>16, <2>4
  <2>6. Tail(values[ports[k] + 4]) = results[p].banner
    BY Zenon, <2>3, <2>4, TailOfString
  <2> QED
    BY <2>5, <2>6 DEF p
<1>20. [k \in DOMAIN ports |-> [port |-> values[ports[k] + 1][1], banner |-> Tail(values[ports[k] + 4])]]
         = [k \in 1 .. n |-> [port |-> ToString(OpenPorts(results)[k]), banner |-> results[OpenPorts(results)[k]].banner]]
  BY <1>18, <1>19
<1> QED
  BY Zenon, <1>11, <1>15, <1>17, <1>20 DEF ToldOf, text, n

-----------------------------------------------------------------------------
(* What each program prints, from the options, the ports and the findings. *)

(* A banner has printable characters only, and none without bytes.         *)
LEMMA CleanIsPrintable ==
    /\ \A bytes \in Chain : CleanBanner(bytes) \in Seq(Printable)
    /\ CleanBanner(<< >>) = << >>
<1>1. ASSUME NEW bytes \in Chain PROVE Banner(bytes) \in Seq(Printable)
  <2> DEFINE out == Shown(Rest(bytes))
             cut == Trim(out)
  <2>1. Rest(bytes) \in Chain
    BY RestOfBytes
  <2>2. out \in Chain /\ Len(out) \in Nat /\ \A k \in 1 .. Len(out) : out[k] \in Printable
    BY <2>1, ShownOfRest, WidthOfRest
  <2> HIDE DEF out
  <2>3. cut \in Chain /\ Len(cut) \in 0 .. Len(out) /\ \A k \in 1 .. Len(cut) : cut[k] = out[k]
    BY <2>2, TrimOfChain
  <2> HIDE DEF cut
  <2>4. \A k \in 1 .. Len(cut) : cut[k] \in Printable
    BY <2>2, <2>3
  <2>5. cut \in Seq(Printable)
    BY <2>3, <2>4 DEF Chain
  <2> QED
    BY <2>5 DEF Banner, out, cut
<1>2. CleanBanner(<< >>) = << >>
  BY DEF CleanBanner
<1> QED
  BY <1>1, <1>2, BannerIsClean

(* What was found, as the resolver of probes is known to answer.           *)
States == {"open", "closed", "filtered", "error"}

AreFindings(findings) == \A port \in DOMAIN findings : findings[port] \in [state : States, bytes : Chain]

(* What goes into a report: a banner of an open port if asked for.         *)
Outcomes(options, ports, findings) ==
    [port \in ports |->
        [state |-> Finding(findings, port).state,
         banner |-> IF Finding(findings, port).state = "open" /\ options.banner
                    THEN CleanBanner(Finding(findings, port).bytes) ELSE << >>]]

Report(options, ports, findings) ==
    IF options.format = "json" THEN Json(options.target, Outcomes(options, ports, findings))
    ELSE Table(options.target, Outcomes(options, ports, findings))

(* A finding is of the four states, and its bytes are a chain.             *)
LEMMA FindingType ==
    ASSUME NEW findings, AreFindings(findings), NEW port
    PROVE  Finding(findings, port) \in [state : States, bytes : Chain]
<1>1. [state |-> "closed", bytes |-> << >>] \in [state : States, bytes : Chain]
  BY Concatenation DEF States
<1> QED
  BY <1>1 DEF AreFindings, Finding

(* What goes into a report is in order.                                    *)
LEMMA OutcomesType ==
    ASSUME NEW options, NEW ports \in SUBSET (1 .. HighestPort), NEW findings, AreFindings(findings)
    PROVE  IsReported(Outcomes(options, ports, findings))
<1> DEFINE results == Outcomes(options, ports, findings)
<1>1. DOMAIN results = ports
  BY DEF Outcomes
<1>2. ASSUME NEW port \in ports PROVE results[port].banner \in Seq(Printable)
  <2>1. Finding(findings, port).bytes \in Chain
    BY FindingType
  <2>2. CleanBanner(Finding(findings, port).bytes) \in Seq(Printable)
    BY <2>1, CleanIsPrintable
  <2>3. results[port].banner = IF Finding(findings, port).state = "open" /\ options.banner
                               THEN CleanBanner(Finding(findings, port).bytes) ELSE << >>
    BY DEF Outcomes
  <2>4. << >> \in Seq(Printable)
    OBVIOUS
  <2> QED
    BY <2>2, <2>3, <2>4
<1> HIDE DEF results
<1>3. IsReported(results)
  BY <1>1, <1>2 DEF IsReported
<1> QED
  BY <1>3 DEF results

(* The four programs agree on it.                                          *)
LEMMA SameOutcomes ==
    ASSUME AreFindings(found)
    PROVE  /\ C!results = Outcomes(c.options, c.ports, found)
           /\ Cpp!results = Outcomes(cpp.options, cpp.ports, found)
           /\ Rust!results = Outcomes(rust.options, rust.ports, found)
           /\ Cs!results = Outcomes(cs.options, cs.ports, found)
<1>1. ASSUME NEW port
      PROVE  /\ C!Finding(found, port) = Finding(found, port) /\ Cpp!Finding(found, port) = Finding(found, port)
             /\ Rust!Finding(found, port) = Finding(found, port) /\ Cs!Finding(found, port) = Finding(found, port)
  BY SameReportTables
<1>2. ASSUME NEW port
      PROVE  /\ C!scan_sanitize_banner(Finding(found, port).bytes) = CleanBanner(Finding(found, port).bytes)
             /\ Cpp!sanitizeBanner(Finding(found, port).bytes) = CleanBanner(Finding(found, port).bytes)
             /\ Rust!sanitize_banner(Finding(found, port).bytes) = CleanBanner(Finding(found, port).bytes)
             /\ Cs!SanitizeBanner(Finding(found, port).bytes) = CleanBanner(Finding(found, port).bytes)
  <2>1. Finding(found, port).bytes \in Chain
    BY FindingType
  <2> QED
    BY <2>1, CBanner, CppBanner, RustBanner, CsBanner
<1>3. C!results = Outcomes(c.options, c.ports, found)
  BY <1>1, <1>2, Zenon DEF C!results, Outcomes
<1>4. Cpp!results = Outcomes(cpp.options, cpp.ports, found)
  BY <1>1, <1>2, Zenon DEF Cpp!results, Outcomes
<1>5. Rust!results = Outcomes(rust.options, rust.ports, found)
  BY <1>1, <1>2, Zenon DEF Rust!results, Outcomes
<1>6. Cs!results = Outcomes(cs.options, cs.ports, found)
  BY <1>1, <1>2, Zenon DEF Cs!results, Outcomes
<1> QED
  BY <1>3, <1>4, <1>5, <1>6

(* What each program prints of it.                                         *)
CPrints(options, ports, findings) ==
    IF options.format = "json" THEN C!report_json(options.target, Outcomes(options, ports, findings))
    ELSE C!report_table(options.target, Outcomes(options, ports, findings))

CppPrints(options, ports, findings) ==
    IF options.format = "json" THEN Cpp!writeJson(options.target, Outcomes(options, ports, findings))
    ELSE Cpp!writeTable(options.target, Outcomes(options, ports, findings))

RustPrints(options, ports, findings) ==
    IF options.format = "json" THEN Rust!write_json(options.target, Outcomes(options, ports, findings))
    ELSE Rust!write_table(options.target, Outcomes(options, ports, findings))

CsPrints(options, ports, findings) ==
    IF options.format = "json" THEN Cs!WriteJson(options.target, Outcomes(options, ports, findings))
    ELSE Cs!WriteTable(options.target, Outcomes(options, ports, findings))

LEMMA ReportsOfPrograms ==
    ASSUME AreFindings(found)
    PROVE  /\ C!report = CPrints(c.options, c.ports, found) /\ Cpp!report = CppPrints(cpp.options, cpp.ports, found)
           /\ Rust!report = RustPrints(rust.options, rust.ports, found) /\ Cs!report = CsPrints(cs.options, cs.ports, found)
<1>1. C!report = CPrints(c.options, c.ports, found)
  BY SameOutcomes DEF C!report, CPrints
<1>2. Cpp!report = CppPrints(cpp.options, cpp.ports, found)
  BY SameOutcomes DEF Cpp!report, CppPrints
<1>3. Rust!report = RustPrints(rust.options, rust.ports, found)
  BY SameOutcomes DEF Rust!report, RustPrints
<1>4. Cs!report = CsPrints(cs.options, cs.ports, found)
  BY SameOutcomes DEF Cs!report, CsPrints
<1> QED
  BY <1>1, <1>2, <1>3, <1>4

Ascii(options) == ~(options.target = "wide" /\ options.format = "json")

(* The four programs print the same report, with the one exception of a    *)
(* wide target in JSON.                                                    *)
THEOREM SameReports ==
    ASSUME NEW options, options.target \in Text, NEW ports \in SUBSET (1 .. HighestPort),
           NEW findings, AreFindings(findings)
    PROVE  /\ CPrints(options, ports, findings) = Report(options, ports, findings)
           /\ CppPrints(options, ports, findings) = Report(options, ports, findings)
           /\ Ascii(options) => RustPrints(options, ports, findings) = Report(options, ports, findings)
           /\ Ascii(options) => CsPrints(options, ports, findings) = Report(options, ports, findings)
<1> DEFINE results == Outcomes(options, ports, findings)
<1>1. IsReported(results)
  BY OutcomesType
<1> HIDE DEF results
<1>2. CPrints(options, ports, findings) = Report(options, ports, findings)
  BY <1>1, CJson, CTable DEF CPrints, Report, results
<1>3. CppPrints(options, ports, findings) = Report(options, ports, findings)
  BY <1>1, CppJson, CppTable DEF CppPrints, Report, results
<1>4. ASSUME Ascii(options) PROVE RustPrints(options, ports, findings) = Report(options, ports, findings)
  <2>1. options.target # "wide" => Rust!write_json(options.target, results) = Json(options.target, results)
    BY <1>1, RustJson
  <2>2. Rust!write_table(options.target, results) = Table(options.target, results)
    BY <1>1, RustTable
  <2> QED
    BY <1>4, <2>1, <2>2 DEF RustPrints, Report, Ascii, results
<1>5. ASSUME Ascii(options) PROVE CsPrints(options, ports, findings) = Report(options, ports, findings)
  <2>1. options.target # "wide" => Cs!WriteJson(options.target, results) = Json(options.target, results)
    BY <1>1, CsJson
  <2>2. Cs!WriteTable(options.target, results) = Table(options.target, results)
    BY <1>1, CsTable
  <2> QED
    BY <1>5, <2>1, <2>2 DEF CsPrints, Report, Ascii, results
<1> QED
  BY <1>2, <1>3, <1>4, <1>5

-----------------------------------------------------------------------------
(* Reading a report back gives what was to be told.                        *)

ToBeTold(options, ports, findings) ==
    Told(options.target,
         [port \in ports |->
            IF options.banner THEN Finding(findings, port) ELSE [Finding(findings, port) EXCEPT !.bytes = <<>>]])

(* The ports listed as open are open.                                      *)
LEMMA OpenAreOpen ==
    ASSUME NEW results, IsReported(results)
    PROVE  \A k \in 1 .. Len(OpenPorts(results)) : results[OpenPorts(results)[k]].state = "open"
<1> DEFINE open == {p \in DOMAIN results : results[p].state = "open"}
           n == HighestPort
           size == Cardinality(open)
<1>1. n \in Nat /\ open \in SUBSET (1 .. n) /\ OpenPorts(results) = Ascending(open)
  <2>1. HighestPort \in Nat
    BY DEF HighestPort
  <2> QED
    BY <2>1 DEF IsReported, OpenPorts
<1>2. \A p \in open : results[p].state = "open"
  OBVIOUS
<1> HIDE DEF open, n
<1>3. size \in Nat /\ Ascending(open) \in [1 .. size -> open]
  <2>1. size \in 0 .. n /\ Ascending(open) \in [1 .. size -> open]
    BY <1>1, AscendingExists
  <2> QED
    BY <1>1, <2>1
<1> HIDE DEF size
<1>4. Len(Ascending(open)) = size /\ \A k \in 1 .. size : Ascending(open)[k] \in open
  BY <1>3
<1> QED
  BY <1>1, <1>2, <1>4

(* What was to be told is what the report was made from.                   *)
LEMMA ToldFromOutcomes ==
    ASSUME NEW options, NEW ports \in SUBSET (1 .. HighestPort), NEW findings, AreFindings(findings)
    PROVE  ToBeTold(options, ports, findings) = ToldOf(options.target, Outcomes(options, ports, findings))
<1> DEFINE raw == [port \in ports |->
                     IF options.banner THEN Finding(findings, port) ELSE [Finding(findings, port) EXCEPT !.bytes = <<>>]]
           results == Outcomes(options, ports, findings)
<1>1. DOMAIN raw = ports /\ DOMAIN results = ports
  BY DEF Outcomes
<1>2. ASSUME NEW port \in ports
      PROVE  /\ raw[port].state = Finding(findings, port).state /\ results[port].state = Finding(findings, port).state
             /\ raw[port].bytes = IF options.banner THEN Finding(findings, port).bytes ELSE << >>
             /\ results[port].banner = IF Finding(findings, port).state = "open" /\ options.banner
                                       THEN CleanBanner(Finding(findings, port).bytes) ELSE << >>
  <2>1. Finding(findings, port) \in [state : States, bytes : Chain]
    BY FindingType
  <2> DEFINE finding == Finding(findings, port)
  <2> HIDE DEF finding
  <2>2. [finding EXCEPT !.bytes = <<>>].state = finding.state /\ [finding EXCEPT !.bytes = <<>>].bytes = << >>
    BY <2>1 DEF finding
  <2> QED
    BY <2>2 DEF Outcomes, finding
<1> HIDE DEF raw, results
<1>3. \A state : {p \in DOMAIN raw : raw[p].state = state} = {p \in DOMAIN results : results[p].state = state}
  BY <1>1, <1>2
<1>4. OpenPorts(raw) = OpenPorts(results)
  BY <1>3, Zenon DEF OpenPorts
<1>5. \A state : Count(raw, state) = Count(results, state)
  BY <1>3, Zenon DEF Count
<1>6. Total(raw) = Total(results)
  BY <1>1 DEF Total
<1>7. IsReported(results)
  BY OutcomesType DEF results
<1> DEFINE open == OpenPorts(results)
           first == [k \in DOMAIN open |-> [port |-> ToString(open[k]), banner |-> CleanBanner(raw[open[k]].bytes)]]
           second == [k \in 1 .. Len(open) |-> [port |-> ToString(open[k]), banner |-> results[open[k]].banner]]
<1>8. first = second
  <2>1. DOMAIN open = 1 .. Len(open) /\ \A k \in 1 .. Len(open) : open[k] \in ports /\ results[open[k]].state = "open"
    <3>1. DOMAIN open = 1 .. Len(open) /\ \A k \in 1 .. Len(open) : open[k] \in DOMAIN results
      BY <1>7, OpenPortsType
    <3>2. \A k \in 1 .. Len(open) : results[open[k]].state = "open"
      BY <1>7, OpenAreOpen
    <3> QED
      BY <1>1, <3>1, <3>2
  <2>2. ASSUME NEW k \in 1 .. Len(open) PROVE CleanBanner(raw[open[k]].bytes) = results[open[k]].banner
    <3>1. open[k] \in ports /\ Finding(findings, open[k]).state = "open"
      BY <1>2, <2>1
    <3> HIDE DEF open
    <3> QED
      BY <1>2, <3>1, CleanIsPrintable
  <2> HIDE DEF open
  <2> QED
    BY <2>1, <2>2, Zenon
<1> HIDE DEF open
<1>9. Told(options.target, raw)
        = [target |-> Chars(options.target), scanned |-> Total(raw),
           open |-> [k \in DOMAIN OpenPorts(raw) |->
                       [port |-> ToString(OpenPorts(raw)[k]), banner |-> CleanBanner(raw[OpenPorts(raw)[k]].bytes)]],
           closed |-> Count(raw, "closed"), filtered |-> Count(raw, "filtered"), errors |-> Count(raw, "error")]
  BY DEF Told
<1>10. Told(options.target, raw) = ToldOf(options.target, results)
  <2>1. Told(options.target, raw)
          = [target |-> Chars(options.target), scanned |-> Total(results), open |-> first,
             closed |-> Count(results, "closed"), filtered |-> Count(results, "filtered"), errors |-> Count(results, "error")]
    BY <1>4, <1>5, <1>6, <1>9 DEF open
  <2>2. ToldOf(options.target, results)
          = [target |-> Chars(options.target), scanned |-> Total(results), open |-> second,
             closed |-> Count(results, "closed"), filtered |-> Count(results, "filtered"), errors |-> Count(results, "error")]
    BY DEF ToldOf, open
  <2> QED
    BY <1>8, <2>1, <2>2
<1> QED
  BY <1>10 DEF ToBeTold, raw, results

(* No character of a target is a piece that a reader looks for.            *)
LEMMA TargetIsPlain ==
    ASSUME NEW target \in Text, target \notin Reserved
    PROVE  NamesNothing(Chars(target)) /\ Unescaped(Chars(target))
<1>1. SummaryNames \subseteq Reserved /\ Unicode \in Reserved
  BY Zenon DEF SummaryNames, Reserved, Unicode
<1>2. \A value \in {"a", "\"", "\\", "ctl", "wide"} : value \notin SummaryNames /\ value # Unicode
  BY Zenon DEF SummaryNames, Unicode
<1>3. ASSUME NEW v, NEW w, NEW x, NEW y, \A value \in {v, w, x, y} : value \notin SummaryNames /\ value # Unicode
      PROVE  /\ NamesNothing(<<v, w, x, y>>) /\ Unescaped(<<v, w, x, y>>)
  BY <1>3 DEF NamesNothing, Unescaped
<1>8. ASSUME NEW v, NEW w, v \notin SummaryNames, w \notin SummaryNames, v # Unicode, w # Unicode
      PROVE  NamesNothing(<<v, w>>) /\ Unescaped(<<v, w>>) /\ NamesNothing(<<v>>) /\ Unescaped(<<v>>)
  BY <1>8 DEF NamesNothing, Unescaped
<1>4. CASE Chars(target) = <<"a", "\"", "\\", "ctl">>
  BY Zenon, <1>2, <1>3, <1>4
<1>5. CASE Chars(target) = <<"a", "wide">>
  <2>1. "a" \notin SummaryNames /\ "wide" \notin SummaryNames /\ "a" # Unicode /\ "wide" # Unicode
    BY Zenon, <1>2
  <2>2. NamesNothing(<<"a", "wide">>) /\ Unescaped(<<"a", "wide">>)
    BY Zenon, <1>8, <2>1
  <2> QED
    BY Zenon, <1>5, <2>2
<1>6. CASE Chars(target) = <<target>>
  <2>1. target \notin SummaryNames /\ target # Unicode
    BY Zenon, <1>1
  <2>2. NamesNothing(<<target>>) /\ Unescaped(<<target>>)
    BY Zenon, <1>8, <2>1
  <2> QED
    BY Zenon, <1>6, <2>2
<1>7. Chars(target) \in {<<"a", "\"", "\\", "ctl">>, <<"a", "wide">>, <<target>>}
  BY Zenon DEF Chars
<1> QED
  BY Zenon, <1>4, <1>5, <1>6, <1>7

(* Every report reads back, whatever was found.                            *)
THEOREM ReportsReadBack ==
    ASSUME NEW options, options.target \in Text, options.target \notin Reserved,
           NEW ports \in SUBSET (1 .. HighestPort), NEW findings, AreFindings(findings)
    PROVE  /\ options.format # "json" =>
                ReadTable(Report(options, ports, findings)) = ToBeTold(options, ports, findings)
           /\ options.format = "json" =>
                ReadJson(Report(options, ports, findings)) = ToBeTold(options, ports, findings)
<1>1. IsReported(Outcomes(options, ports, findings))
  BY OutcomesType
<1>2. NamesNothing(Chars(options.target)) /\ Unescaped(Chars(options.target))
  BY TargetIsPlain
<1>3. ReadTable(Table(options.target, Outcomes(options, ports, findings))) = ToBeTold(options, ports, findings)
  BY <1>1, <1>2, TableReads, ToldFromOutcomes
<1>4. ReadJson(Json(options.target, Outcomes(options, ports, findings))) = ToBeTold(options, ports, findings)
  BY <1>1, <1>2, JsonReads, ToldFromOutcomes
<1> QED
  BY <1>3, <1>4 DEF Report

=============================================================================
