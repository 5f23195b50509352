--------------------------- MODULE OperatorProofs ---------------------------
(***************************************************************************)
(* What the pure operators compute, for every input: the answer parser,    *)
(* for any markers and any text; the evidence, for any hits and rows; and  *)
(* the chunks, for any pieces. Before them, how to reason about data: by   *)
(* smallest counterexamples and by the prefixes of a fold.                 *)
(***************************************************************************)
EXTENDS AnswerParser, HybridRetrieval, Chunking, SequenceTheorems,
        FiniteSetTheorems, TLAPS

-----------------------------------------------------------------------------
(* Induction without an operator parameter: least elements.                *)

\* Among finite sets there is a smallest one, which contains no other.
LEMMA SmallestSet ==
  ASSUME NEW S, NEW T \in SUBSET FiniteSubsetsOf(S), T # {}
  PROVE  \E x \in T : \A y \in T : y \subseteq x => y = x
  <1>1. PICK x \in T : \A y \in T : ~ (<<y, x>> \in StrictSubsetOrdering(S))
    BY WFMin, FS_StrictSubsetOrderingWellFounded
  <1>2. ASSUME NEW y \in T, y \subseteq x, y # x PROVE FALSE
    BY <1>1, <1>2 DEF StrictSubsetOrdering, FiniteSubsetsOf
  <1> QED BY <1>1, <1>2

\* A set of natural numbers that is not empty has a least one.
LEMMA LeastNumber ==
  ASSUME NEW T \in SUBSET Nat, T # {}
  PROVE  \E n \in T : \A m \in T : n <= m
  <1> DEFINE Up == {0..n : n \in T}
  <1>1. Up \subseteq FiniteSubsetsOf(Nat)
    <2>1. \A n \in T : IsFiniteSet(0..n) /\ 0..n \subseteq Nat
      BY FS_Interval
    <2> QED BY <2>1 DEF FiniteSubsetsOf
  <1>2. Up # {}
    OBVIOUS
  <1>3. PICK x \in Up : \A y \in Up : y \subseteq x => y = x
    <2> HIDE DEF Up
    <2> QED BY <1>1, <1>2, SmallestSet
  <1>4. PICK n \in T : x = 0..n
    OBVIOUS
  <1>5. ASSUME NEW m \in T, m < n PROVE FALSE
    <2>1. 0..m \in Up /\ 0..m \subseteq 0..n /\ n \in 0..n /\ n \notin 0..m
      BY <1>5
    <2> QED BY <1>3, <1>4, <2>1
  <1> QED BY <1>5

-----------------------------------------------------------------------------
(* The parser's operators.                                                 *)

\* tag occurs in t at place i.
Occurs(t, tag, i) ==
  i + Len(tag) <= Len(t) /\ \A k \in 1..Len(tag) : t[i + k] = tag[k]

\* The comparison that Find makes.
LEMMA OccursIsSubSeq ==
  ASSUME NEW t \in Seq(Symbols), NEW tag \in Seq(Symbols),
         NEW i \in 0..(Len(t) - Len(tag))
  PROVE  SubSeq(t, i + 1, i + Len(tag)) = tag <=> Occurs(t, tag, i)
  <1> DEFINE u == SubSeq(t, i + 1, i + Len(tag))
  <1>0. Len(t) \in Nat /\ Len(tag) \in Nat
    OBVIOUS
  <1>1. \A k \in (i + 1)..(i + Len(tag)) : t[k] \in Symbols
    BY <1>0, ElementOfSeq
  <1>2. /\ u \in Seq(Symbols)
        /\ Len(u) = IF i + 1 <= i + Len(tag) THEN (i + Len(tag)) - (i + 1) + 1 ELSE 0
        /\ \A k \in 1..((i + Len(tag)) - (i + 1) + 1) : u[k] = t[i + 1 + k - 1]
    BY <1>0, <1>1, SubSeqProperties
  <1> HIDE DEF u
  <1>3. Len(u) = Len(tag) /\ \A k \in 1..Len(tag) : u[k] = t[i + k]
    BY <1>0, <1>2
  <1>4. ASSUME \A k \in 1..Len(tag) : u[k] = tag[k] PROVE u = tag
    BY <1>0, <1>2, <1>3, <1>4, SeqEqual
  <1>5. i + Len(tag) <= Len(t)
    BY <1>0
  <1>6. u = tag <=> Occurs(t, tag, i)
    BY <1>0, <1>3, <1>4, <1>5 DEF Occurs
  <1> QED BY <1>6 DEF u

\* Find is the place of the first occurrence, or -1.
LEMMA FindIsFirst ==
  ASSUME NEW t \in Seq(Symbols), NEW tag \in Seq(Symbols)
  PROVE  \/ Find(t, tag) = -1 /\ \A i \in Nat : ~Occurs(t, tag, i)
         \/ /\ Find(t, tag) \in Nat /\ Occurs(t, tag, Find(t, tag))
            /\ \A i \in Nat : i < Find(t, tag) => ~Occurs(t, tag, i)
  <1> DEFINE at == {i \in 0..(Len(t) - Len(tag)) : SubSeq(t, i + 1, i + Len(tag)) = tag}
  <1>0. Len(t) \in Nat /\ Len(tag) \in Nat
    OBVIOUS
  <1>1. \A i \in Nat : i \in at <=> Occurs(t, tag, i)
    <2> SUFFICES ASSUME NEW i \in Nat PROVE i \in at <=> Occurs(t, tag, i)
      OBVIOUS
    <2>1. CASE i \in 0..(Len(t) - Len(tag))
      BY <2>1, OccursIsSubSeq
    <2>2. CASE i \notin 0..(Len(t) - Len(tag))
      BY <1>0, <2>2 DEF Occurs
    <2> QED BY <2>1, <2>2
  <1>2. at \subseteq Nat
    OBVIOUS
  <1>3. Find(t, tag) = IF at = {} THEN -1 ELSE CHOOSE i \in at : \A j \in at : i <= j
    BY DEF Find
  <1> HIDE DEF at
  <1>4. CASE at = {}
    BY <1>1, <1>3, <1>4
  <1>5. CASE at # {}
    <2>1. \E i \in at : \A j \in at : i <= j
      BY <1>2, <1>5, LeastNumber
    <2>2. Find(t, tag) \in at /\ \A j \in at : Find(t, tag) <= j
      BY <1>3, <1>5, <2>1
    <2>3. Find(t, tag) \in Nat /\ Occurs(t, tag, Find(t, tag))
      BY <1>1, <1>2, <2>2
    <2>4. ASSUME NEW i \in Nat, i < Find(t, tag) PROVE ~Occurs(t, tag, i)
      <3>1. i \notin at
        BY <2>2, <2>3, <2>4
      <3> QED BY <1>1, <3>1
    <2> QED BY <2>3, <2>4
  <1> QED BY <1>4, <1>5

\* Whatever has these properties is what Find returns.
LEMMA FirstIsFind ==
  ASSUME NEW t \in Seq(Symbols), NEW tag \in Seq(Symbols)
  PROVE  /\ (\A i \in Nat : ~Occurs(t, tag, i)) => Find(t, tag) = -1
         /\ \A n \in Nat : Occurs(t, tag, n) /\ (\A i \in Nat : i < n => ~Occurs(t, tag, i))
                             => Find(t, tag) = n
  BY FindIsFirst

\* The rest of a text from place n on: its length, its symbols, and what occurs.
LEMMA FromProperties ==
  ASSUME NEW t \in Seq(Symbols), NEW n \in 0..Len(t)
  PROVE  /\ From(t, n) \in Seq(Symbols) /\ Len(From(t, n)) = Len(t) - n
         /\ \A k \in 1..(Len(t) - n) : From(t, n)[k] = t[n + k]
  <1>1. Len(t) \in Nat /\ \A k \in (n + 1)..Len(t) : t[k] \in Symbols
    BY ElementOfSeq
  <1>2. /\ From(t, n) \in Seq(Symbols)
        /\ Len(From(t, n)) = IF n + 1 <= Len(t) THEN Len(t) - (n + 1) + 1 ELSE 0
        /\ \A k \in 1..(Len(t) - (n + 1) + 1) : From(t, n)[k] = t[n + 1 + k - 1]
    BY <1>1, SubSeqProperties DEF From
  <1> QED BY <1>1, <1>2

LEMMA UptoProperties ==
  ASSUME NEW t \in Seq(Symbols), NEW n \in 0..Len(t)
  PROVE  /\ Upto(t, n) \in Seq(Symbols) /\ Len(Upto(t, n)) = n
         /\ \A k \in 1..n : Upto(t, n)[k] = t[k]
  <1>1. Len(t) \in Nat /\ \A k \in 1..n : t[k] \in Symbols
    BY ElementOfSeq
  <1>2. /\ Upto(t, n) \in Seq(Symbols)
        /\ Len(Upto(t, n)) = IF 1 <= n THEN n - 1 + 1 ELSE 0
        /\ \A k \in 1..(n - 1 + 1) : Upto(t, n)[k] = t[1 + k - 1]
    BY <1>1, SubSeqProperties DEF Upto
  <1> QED BY <1>1, <1>2

LEMMA OccursInRest ==
  ASSUME NEW t \in Seq(Symbols), NEW tag \in Seq(Symbols), NEW n \in 0..Len(t), NEW i \in Nat
  PROVE  Occurs(From(t, n), tag, i) <=> Occurs(t, tag, n + i)
  <1>0. Len(t) \in Nat /\ Len(tag) \in Nat
    OBVIOUS
  <1>1. /\ Len(From(t, n)) = Len(t) - n
        /\ \A k \in 1..(Len(t) - n) : From(t, n)[k] = t[n + k]
    BY FromProperties
  <1>2. CASE n + i + Len(tag) <= Len(t)
    <2>1. \A k \in 1..Len(tag) : From(t, n)[i + k] = t[n + i + k]
      BY <1>0, <1>1, <1>2
    <2> QED BY <1>0, <1>1, <1>2, <2>1 DEF Occurs
  <1>3. CASE ~ n + i + Len(tag) <= Len(t)
    BY <1>0, <1>1, <1>3 DEF Occurs
  <1> QED BY <1>2, <1>3

\* A marker none of whose occurrences begins before n is found from n on.
LEMMA FindInRest ==
  ASSUME NEW t \in Seq(Symbols), NEW tag \in Seq(Symbols), NEW n \in 0..Len(t),
         \A i \in 0..(n - 1) : ~Occurs(t, tag, i)
  PROVE  Find(t, tag) = IF Find(From(t, n), tag) = -1 THEN -1 ELSE n + Find(From(t, n), tag)
  <1> DEFINE r == From(t, n)
             f == Find(r, tag)
  <1>1. r \in Seq(Symbols)
    BY FromProperties
  <1>2. ASSUME NEW i \in Nat, i >= n PROVE Occurs(t, tag, i) <=> Occurs(r, tag, i - n)
    <2>1. i - n \in Nat /\ i = n + (i - n)
      BY <1>2
    <2>2. Occurs(r, tag, i - n) <=> Occurs(t, tag, n + (i - n))
      BY <2>1, OccursInRest
    <2> QED BY <2>1, <2>2
  <1>3. \A i \in Nat : i < n => ~Occurs(t, tag, i)
    OBVIOUS
  <1> HIDE DEF r
  <1>4. CASE f = -1
    <2>1. \A i \in Nat : ~Occurs(r, tag, i)
      BY <1>1, <1>4, FindIsFirst
    <2>2. ASSUME NEW i \in Nat PROVE ~Occurs(t, tag, i)
      <3>1. CASE i < n
        BY <1>3, <3>1
      <3>2. CASE i >= n
        <4>1. i - n \in Nat
          BY <3>2
        <4> QED BY <1>2, <2>1, <3>2, <4>1
      <3> QED BY <3>1, <3>2
    <2> QED BY <1>4, <2>2, FirstIsFind DEF r
  <1>5. CASE f # -1
    <2>1. f \in Nat /\ Occurs(r, tag, f) /\ \A i \in Nat : i < f => ~Occurs(r, tag, i)
      BY <1>1, <1>5, FindIsFirst
    <2>2. n + f \in Nat /\ n + f >= n /\ (n + f) - n = f
      BY <2>1
    <2>3. Occurs(t, tag, n + f) <=> Occurs(r, tag, (n + f) - n)
      BY <1>2, <2>2
    <2>4. ASSUME NEW i \in Nat, i < n + f PROVE ~Occurs(t, tag, i)
      <3>1. CASE i < n
        BY <1>3, <3>1
      <3>2. CASE i >= n
        <4>1. i - n \in Nat /\ i - n < f
          BY <2>1, <2>4, <3>2
        <4> QED BY <1>2, <2>1, <3>2, <4>1
      <3> QED BY <3>1, <3>2
    <2>5. Find(t, tag) = n + f
      BY <2>1, <2>2, <2>3, <2>4, FirstIsFind
    <2> QED BY <1>5, <2>5 DEF r
  <1> QED BY <1>4, <1>5

\* What occurs in a text stays where it is when the text grows.
LEMMA OccursInMore ==
  ASSUME NEW t \in Seq(Symbols), NEW u \in Seq(Symbols), NEW tag \in Seq(Symbols),
         NEW i \in Nat, i + Len(tag) <= Len(t)
  PROVE  Occurs(t \o u, tag, i) <=> Occurs(t, tag, i)
  <1>0. Len(t) \in Nat /\ Len(u) \in Nat /\ Len(tag) \in Nat
    OBVIOUS
  <1>1. /\ Len(t \o u) = Len(t) + Len(u)
        /\ \A k \in 1..(Len(t) + Len(u)) : (t \o u)[k] = IF k <= Len(t) THEN t[k] ELSE u[k - Len(t)]
    BY ConcatProperties
  <1>2. ASSUME NEW k \in 1..Len(tag) PROVE (t \o u)[i + k] = t[i + k]
    <2>1. i + k \in 1..(Len(t) + Len(u)) /\ i + k <= Len(t)
      BY <1>0
    <2> QED BY <1>1, <2>1
  <1>3. i + Len(tag) <= Len(t \o u)
    BY <1>0, <1>1
  <1> QED BY <1>2, <1>3 DEF Occurs

\* A marker that was found is found at the same place.
LEMMA FindInMore ==
  ASSUME NEW t \in Seq(Symbols), NEW u \in Seq(Symbols), NEW tag \in Seq(Symbols),
         Find(t, tag) # -1
  PROVE  Find(t \o u, tag) = Find(t, tag)
  <1> DEFINE f == Find(t, tag)
  <1>0. Len(t) \in Nat /\ Len(tag) \in Nat /\ t \o u \in Seq(Symbols)
    OBVIOUS
  <1>1. f \in Nat /\ Occurs(t, tag, f) /\ \A i \in Nat : i < f => ~Occurs(t, tag, i)
    BY FindIsFirst
  <1>2. f + Len(tag) <= Len(t)
    BY <1>1 DEF Occurs
  <1> HIDE DEF f
  <1>3. \A i \in Nat : i <= f => i + Len(tag) <= Len(t)
    BY <1>0, <1>1, <1>2
  <1>4. \A i \in Nat : i <= f => (Occurs(t \o u, tag, i) <=> Occurs(t, tag, i))
    BY <1>3, OccursInMore
  <1>5. f <= f /\ \A i \in Nat : i < f => i <= f
    BY <1>1
  <1>6. Occurs(t \o u, tag, f) /\ \A i \in Nat : i < f => ~Occurs(t \o u, tag, i)
    BY <1>1, <1>4, <1>5
  <1> QED BY <1>0, <1>1, <1>6, FirstIsFind DEF f

\* A marker that is not in a text does not begin, in a longer one, where it
\* would end within the text.
LEMMA NotBefore ==
  ASSUME NEW t \in Seq(Symbols), NEW u \in Seq(Symbols), NEW tag \in Seq(Symbols),
         Find(t, tag) = -1, NEW n \in Nat, n = 0 \/ n + Len(tag) <= Len(t)
  PROVE  \A i \in 0..(n - 1) : ~Occurs(t \o u, tag, i)
  <1> SUFFICES ASSUME NEW i \in 0..(n - 1) PROVE ~Occurs(t \o u, tag, i)
    OBVIOUS
  <1>1. i \in Nat /\ i + Len(tag) <= Len(t)
    OBVIOUS
  <1>2. ~Occurs(t, tag, i)
    BY <1>1, FindIsFirst
  <1> QED BY <1>1, <1>2, OccursInMore

\* Taking texts apart and putting them together.
LEMMA FromStart ==
  ASSUME NEW t \in Seq(Symbols)
  PROVE  From(t, 0) = t
  BY SubSeqFull DEF From

LEMMA FromOfFrom ==
  ASSUME NEW t \in Seq(Symbols), NEW m \in 0..Len(t), NEW n \in 0..(Len(t) - m)
  PROVE  From(From(t, m), n) = From(t, m + n)
  <1> DEFINE r == From(t, m)
  <1>1. r \in Seq(Symbols) /\ Len(r) = Len(t) - m /\ \A k \in 1..(Len(t) - m) : r[k] = t[m + k]
    BY FromProperties
  <1> HIDE DEF r
  <1>2. n \in 0..Len(r) /\ m + n \in 0..Len(t) /\ Len(t) \in Nat
    BY <1>1
  <1>3. /\ From(r, n) \in Seq(Symbols) /\ Len(From(r, n)) = Len(r) - n
        /\ \A k \in 1..(Len(r) - n) : From(r, n)[k] = r[n + k]
    BY <1>1, <1>2, FromProperties
  <1>4. /\ From(t, m + n) \in Seq(Symbols) /\ Len(From(t, m + n)) = Len(t) - (m + n)
        /\ \A k \in 1..(Len(t) - (m + n)) : From(t, m + n)[k] = t[(m + n) + k]
    BY <1>2, FromProperties
  <1>5. ASSUME NEW k \in 1..(Len(t) - (m + n)) PROVE From(r, n)[k] = From(t, m + n)[k]
    <2>1. k \in 1..(Len(r) - n) /\ n + k \in 1..(Len(t) - m) /\ m + (n + k) = (m + n) + k
      BY <1>1, <1>2
    <2> QED BY <1>1, <1>3, <1>4, <2>1
  <1>6. Len(From(r, n)) = Len(From(t, m + n)) /\ Len(From(t, m + n)) = Len(t) - (m + n)
    BY <1>1, <1>2, <1>3, <1>4
  <1>7. From(r, n) = From(t, m + n)
    BY <1>3, <1>4, <1>5, <1>6, SeqEqual
  <1> QED BY <1>7 DEF r

LEMMA UptoAndFrom ==
  ASSUME NEW t \in Seq(Symbols), NEW n \in 0..Len(t)
  PROVE  Upto(t, n) \o From(t, n) = t
  <1>1. 1 \in 1..(Len(t) + 1) /\ n \in (1 - 1)..Len(t) /\ Len(t) \in n..Len(t)
    OBVIOUS
  <1>2. SubSeq(t, 1, n) \o SubSeq(t, n + 1, Len(t)) = SubSeq(t, 1, Len(t))
    BY <1>1, ConcatAdjacentSubSeq
  <1> QED BY <1>2, SubSeqFull DEF Upto, From

LEMMA FromOfConcat ==
  ASSUME NEW t \in Seq(Symbols), NEW u \in Seq(Symbols), NEW n \in 0..Len(t)
  PROVE  From(t \o u, n) = From(t, n) \o u
  <1> DEFINE w == t \o u
  <1>1. /\ w \in Seq(Symbols) /\ Len(w) = Len(t) + Len(u) /\ Len(t) \in Nat /\ Len(u) \in Nat
        /\ \A i \in 1..(Len(t) + Len(u)) : w[i] = IF i <= Len(t) THEN t[i] ELSE u[i - Len(t)]
    BY ConcatProperties
  <1> HIDE DEF w
  <1>2. n \in 0..Len(w)
    BY <1>1
  <1>3. /\ From(w, n) \in Seq(Symbols) /\ Len(From(w, n)) = Len(w) - n
        /\ \A k \in 1..(Len(w) - n) : From(w, n)[k] = w[n + k]
    BY <1>1, <1>2, FromProperties
  <1> DEFINE f == From(t, n)
  <1>4. f \in Seq(Symbols) /\ Len(f) = Len(t) - n /\ \A k \in 1..(Len(t) - n) : f[k] = t[n + k]
    BY FromProperties
  <1> HIDE DEF f
  <1>5. /\ f \o u \in Seq(Symbols) /\ Len(f \o u) = Len(f) + Len(u)
        /\ \A i \in 1..(Len(f) + Len(u)) : (f \o u)[i] = IF i <= Len(f) THEN f[i] ELSE u[i - Len(f)]
    BY <1>4, ConcatProperties
  <1>6. Len(From(w, n)) = Len(f \o u)
    BY <1>1, <1>3, <1>4, <1>5
  <1>7. ASSUME NEW k \in 1..Len(From(w, n)) PROVE From(w, n)[k] = (f \o u)[k]
    <2>1. k \in 1..(Len(w) - n) /\ k \in 1..(Len(f) + Len(u)) /\ n + k \in 1..(Len(t) + Len(u))
      BY <1>1, <1>3, <1>4
    <2>2. CASE k <= Len(f)
      <3>1. k \in 1..(Len(t) - n) /\ n + k <= Len(t)
        BY <1>1, <1>4, <2>1, <2>2
      <3> QED BY <1>1, <1>3, <1>4, <1>5, <2>1, <2>2, <3>1
    <2>3. CASE ~ k <= Len(f)
      <3>1. ~ n + k <= Len(t) /\ (n + k) - Len(t) = k - Len(f)
        BY <1>1, <1>4, <2>1, <2>3
      <3> QED BY <1>1, <1>3, <1>5, <2>1, <2>3, <3>1
    <2> QED BY <2>2, <2>3
  <1>8. From(w, n) = f \o u
    BY <1>3, <1>5, <1>6, <1>7, SeqEqual
  <1> QED BY <1>8 DEF w, f

LEMMA UptoOfConcat ==
  ASSUME NEW s \in Seq(Symbols), NEW t \in Seq(Symbols), NEW n \in 0..Len(t)
  PROVE  Upto(s \o t, Len(s) + n) = s \o Upto(t, n)
  <1> DEFINE w == s \o t
  <1>1. /\ w \in Seq(Symbols) /\ Len(w) = Len(s) + Len(t) /\ Len(t) \in Nat /\ Len(s) \in Nat
        /\ \A i \in 1..(Len(s) + Len(t)) : w[i] = IF i <= Len(s) THEN s[i] ELSE t[i - Len(s)]
    BY ConcatProperties
  <1> HIDE DEF w
  <1> DEFINE m == Len(s) + n
  <1>2. m \in 0..Len(w)
    BY <1>1
  <1>3. /\ Upto(w, m) \in Seq(Symbols) /\ Len(Upto(w, m)) = m
        /\ \A k \in 1..m : Upto(w, m)[k] = w[k]
    <2> HIDE DEF m
    <2> QED BY <1>1, <1>2, UptoProperties
  <1> DEFINE f == Upto(t, n)
  <1>4. f \in Seq(Symbols) /\ Len(f) = n /\ \A k \in 1..n : f[k] = t[k]
    BY UptoProperties
  <1> HIDE DEF f
  <1>5. /\ s \o f \in Seq(Symbols) /\ Len(s \o f) = Len(s) + Len(f)
        /\ \A i \in 1..(Len(s) + Len(f)) : (s \o f)[i] = IF i <= Len(s) THEN s[i] ELSE f[i - Len(s)]
    BY <1>4, ConcatProperties
  <1>6. Len(Upto(w, m)) = Len(s \o f)
    BY <1>3, <1>4, <1>5
  <1>7. ASSUME NEW k \in 1..Len(Upto(w, m)) PROVE Upto(w, m)[k] = (s \o f)[k]
    <2>1. k \in 1..m /\ k \in 1..(Len(s) + Len(f)) /\ k \in 1..(Len(s) + Len(t))
      BY <1>1, <1>3, <1>4
    <2>2. CASE k <= Len(s)
      BY <1>1, <1>3, <1>5, <2>1, <2>2
    <2>3. CASE ~ k <= Len(s)
      <3>1. k - Len(s) \in 1..n
        BY <1>1, <2>1, <2>3
      <3> QED BY <1>1, <1>3, <1>4, <1>5, <2>1, <2>3, <3>1
    <2> QED BY <2>2, <2>3
  <1>8. Upto(w, m) = s \o f
    BY <1>3, <1>5, <1>6, <1>7, SeqEqual
  <1> QED BY <1>8 DEF w, f

\* The last n symbols are a text from some place on.
LEMMA LastOfIsFrom ==
  ASSUME NEW t \in Seq(Symbols), NEW n \in Nat
  PROVE  \E d \in 0..Len(t) : /\ LastOf(t, n) = From(t, d)
                              /\ d = 0 \/ d + n = Len(t)
                              /\ Len(t) <= d + n
  <1>0. Len(t) \in Nat
    OBVIOUS
  <1>1. CASE Len(t) <= n
    BY <1>0, <1>1, FromStart DEF LastOf
  <1>2. CASE ~ Len(t) <= n
    <2>1. Len(t) - n \in 0..Len(t) /\ LastOf(t, n) = From(t, Len(t) - n)
      BY <1>0, <1>2 DEF LastOf
    <2> QED BY <1>0, <2>1
  <1> QED BY <1>1, <1>2

\* The last symbols of a text are those of any part of it that is long enough.
LEMMA LastOfRest ==
  ASSUME NEW t \in Seq(Symbols), NEW n \in Nat, NEW d \in 0..Len(t),
         d = 0 \/ d + n <= Len(t)
  PROVE  LastOf(From(t, d), n) = LastOf(t, n)
  <1>1. CASE d = 0
    BY <1>1, FromStart
  <1>2. CASE d # 0
    <2> DEFINE r == From(t, d)
    <2>0. Len(t) \in Nat
      OBVIOUS
    <2>1. r \in Seq(Symbols) /\ Len(r) = Len(t) - d
      BY FromProperties
    <2>2. LastOf(t, n) = From(t, Len(t) - n)
      BY <1>2, <2>0 DEF LastOf
    <2>3. CASE Len(r) = n
      <3>1. LastOf(r, n) = r /\ Len(t) - n = d
        BY <2>0, <2>1, <2>3 DEF LastOf
      <3> QED BY <2>2, <3>1
    <2>4. CASE Len(r) # n
      <3>1. LastOf(r, n) = From(r, Len(r) - n)
        BY <1>2, <2>0, <2>1, <2>4 DEF LastOf
      <3>2. Len(r) - n \in 0..(Len(t) - d) /\ d + (Len(r) - n) = Len(t) - n
        BY <1>2, <2>0, <2>1
      <3>3. From(From(t, d), Len(r) - n) = From(t, d + (Len(r) - n))
        BY <3>2, FromOfFrom
      <3> QED BY <2>2, <3>1, <3>2, <3>3
    <2> QED BY <2>3, <2>4
  <1> QED BY <1>1, <1>2

-----------------------------------------------------------------------------
(* The streaming parser, one call after another.                           *)

ParserStates == [buffer : Seq(Symbols), inAnswer : BOOLEAN, done : BOOLEAN,
                 emit : Seq(Symbols)]

\* What follows the first ANSWER_TAG of a text that has one.
Rest(t) == From(t, Find(t, ANSWER_TAG) + Len(ANSWER_TAG))

\* How the parser p stands to the text t received and the tokens s shown: no
\* ANSWER_TAG has been seen, and its beginning is kept if the text ends in one;
Searching(p, t, s) ==
  /\ ~p.done /\ ~p.inAnswer
  /\ s = <<>> /\ Find(t, ANSWER_TAG) = -1
  /\ p.buffer = LastOf(t, Len(ANSWER_TAG))

\* the answer is shown but for the buffer, which is long enough for an END_TAG
\* unless nothing is shown yet;
Answering(p, t, s) ==
  /\ ~p.done /\ p.inAnswer
  /\ Find(t, ANSWER_TAG) # -1 /\ Find(Rest(t), END_TAG) = -1
  /\ s \o p.buffer = Rest(t)
  /\ s = <<>> \/ Len(p.buffer) >= Len(END_TAG)

\* or the answer has ended and all of it is shown.
Ended(p, t, s) ==
  /\ p.done
  /\ Find(t, ANSWER_TAG) # -1 /\ Find(Rest(t), END_TAG) # -1
  /\ s = Upto(Rest(t), Find(Rest(t), END_TAG))

Relates(p, t, s) == Searching(p, t, s) \/ Answering(p, t, s) \/ Ended(p, t, s)

\* The markers are texts of at least one symbol.
LEMMA TagLengths ==
  /\ ANSWER_TAG \in Seq(Symbols) /\ Len(ANSWER_TAG) \in Nat /\ Len(ANSWER_TAG) >= 1
  /\ END_TAG \in Seq(Symbols) /\ Len(END_TAG) \in Nat /\ Len(END_TAG) >= 1
  BY ParserAssumption, EmptySeq

\* Where a marker is found, the text has room for it.
LEMMA FindRoom ==
  ASSUME NEW t \in Seq(Symbols), NEW tag \in Seq(Symbols), Find(t, tag) # -1
  PROVE  Find(t, tag) \in 0..Len(t) /\ Find(t, tag) + Len(tag) \in 0..Len(t)
  <1>1. Find(t, tag) \in Nat /\ Occurs(t, tag, Find(t, tag))
    BY FindIsFirst
  <1>2. Find(t, tag) + Len(tag) <= Len(t) /\ Len(tag) \in Nat /\ Len(t) \in Nat
    BY <1>1 DEF Occurs
  <1> QED BY <1>1, <1>2

\* What follows the marker grows with the text.
LEMMA RestInMore ==
  ASSUME NEW t \in Seq(Symbols), NEW u \in Seq(Symbols), Find(t, ANSWER_TAG) # -1
  PROVE  /\ Rest(t) \in Seq(Symbols)
         /\ Find(t \o u, ANSWER_TAG) # -1 /\ Rest(t \o u) = Rest(t) \o u
  <1>1. Find(t, ANSWER_TAG) + Len(ANSWER_TAG) \in 0..Len(t)
    BY TagLengths, FindRoom
  <1>2. Find(t \o u, ANSWER_TAG) = Find(t, ANSWER_TAG)
    BY TagLengths, FindInMore
  <1>3. Rest(t) \in Seq(Symbols)
    BY <1>1, FromProperties DEF Rest
  <1>4. From(t \o u, Find(t, ANSWER_TAG) + Len(ANSWER_TAG))
          = From(t, Find(t, ANSWER_TAG) + Len(ANSWER_TAG)) \o u
    BY <1>1, FromOfConcat
  <1> QED BY <1>2, <1>3, <1>4 DEF Rest

LEMMA ConcatLength ==
  ASSUME NEW s \in Seq(Symbols), NEW b \in Seq(Symbols), NEW rest, s \o b = rest
  PROVE  rest \in Seq(Symbols) /\ Len(rest) = Len(s) + Len(b)
  BY ConcatProperties

\* A longer text begins in the same way.
LEMMA UptoInMore ==
  ASSUME NEW t \in Seq(Symbols), NEW u \in Seq(Symbols), NEW n \in 0..Len(t)
  PROVE  Upto(t \o u, n) = Upto(t, n)
  <1>1. CASE n = 0
    BY <1>1, SubSeqEmpty DEF Upto
  <1>2. CASE n # 0
    <2>1. 1 \in 1..Len(t) /\ n \in 1..Len(t)
      BY <1>2
    <2> QED BY <2>1, SubSeqOfConcat1 DEF Upto
  <1> QED BY <1>1, <1>2

LEMMA PrefixOfConcat ==
  ASSUME NEW s \in Seq(Symbols), NEW b \in Seq(Symbols)
  PROVE  IsPrefix(s, s \o b)
  <1>1. Len(s) \in 0..Len(s) /\ Len(s) <= Len(s \o b)
    BY ConcatProperties
  <1>2. SubSeq(s \o b, 1, Len(s)) = SubSeq(s, 1, Len(s))
    BY <1>1, UptoInMore DEF Upto
  <1> QED BY <1>1, <1>2 DEF IsPrefix

LEMMA EmptyPrefix == IsPrefix(<<>>, <<>>)
  <1>1. <<>> \in Seq(Symbols) /\ <<>> \o <<>> = <<>>
    BY EmptySeq, ConcatEmptySeq
  <1> QED BY <1>1, PrefixOfConcat

LEMMA PartLengths ==
  ASSUME NEW b \in Seq(Symbols), NEW n \in 0..Len(b)
  PROVE  /\ Upto(b, n) \in Seq(Symbols) /\ From(b, n) \in Seq(Symbols)
         /\ Len(Upto(b, n)) = n /\ Len(From(b, n)) = Len(b) - n
  BY UptoProperties, FromProperties

\* What one call does inside the answer, whose part s has been shown before.
LEMMA PushAnswerRelates ==
  ASSUME NEW t \in Seq(Symbols), NEW s \in Seq(Symbols), NEW p \in ParserStates,
         NEW q, q = PushAnswer(p), NEW b, b = p.buffer, NEW rest, rest = Rest(t),
         ~p.done, p.inAnswer, Find(t, ANSWER_TAG) # -1, s \o b = rest,
         s = <<>> \/ Len(b) >= Len(END_TAG),
         \A i \in 0..(Len(s) - 1) : ~Occurs(rest, END_TAG, i)
  PROVE  q \in ParserStates /\ Relates([q EXCEPT !.emit = <<>>], t, s \o q.emit)
  <1> DEFINE end == Find(b, END_TAG)
             n == Len(b) - Len(END_TAG)
  <1>0. /\ b \in Seq(Symbols) /\ Len(b) \in Nat /\ Len(s) \in Nat
        /\ END_TAG \in Seq(Symbols) /\ Len(END_TAG) \in Nat /\ Len(END_TAG) >= 1
    BY TagLengths DEF ParserStates
  <1>1. rest \in Seq(Symbols) /\ rest = s \o b /\ Len(rest) = Len(s) + Len(b)
    BY <1>0, ConcatLength
  <1>2. From(rest, Len(s)) = b
    <2>1. From(s \o b, Len(s)) = From(s, Len(s)) \o b
      <3>1. Len(s) \in 0..Len(s)
        BY <1>0
      <3> QED BY <1>0, <3>1, FromOfConcat
    <2>2. From(s, Len(s)) = <<>>
      BY <1>0, SubSeqEmpty DEF From
    <2> QED BY <1>0, <1>1, <2>1, <2>2, ConcatEmptySeq
  <1>3. Find(rest, END_TAG) = IF end = -1 THEN -1 ELSE Len(s) + end
    <2>1. Len(s) \in 0..Len(rest)
      BY <1>0, <1>1
    <2> QED BY <1>0, <1>1, <1>2, <2>1, FindInRest
  <1>4. CASE end # -1
    <2>1. q = [p EXCEPT !.done = TRUE, !.emit = Upto(b, end), !.buffer = <<>>]
      BY <1>4 DEF PushAnswer
    <2>2. end \in 0..Len(b)
      BY <1>0, <1>4, FindRoom
    <2>3. Upto(b, end) \in Seq(Symbols) /\ <<>> \in Seq(Symbols)
      BY <1>0, <2>2, PartLengths, EmptySeq
    <2>4. q \in ParserStates /\ q.emit = Upto(b, end) /\ q.done
      BY <2>1, <2>3 DEF ParserStates
    <2>5. Upto(s \o b, Len(s) + end) = s \o Upto(b, end)
      BY <1>0, <2>2, UptoOfConcat
    <2>6. Find(rest, END_TAG) = Len(s) + end /\ Len(s) + end # -1
      BY <1>0, <1>3, <1>4, <2>2
    <2>7. [q EXCEPT !.emit = <<>>].done
      BY <2>3, <2>4 DEF ParserStates
    <2>8. Ended([q EXCEPT !.emit = <<>>], t, s \o q.emit)
      BY <1>1, <2>4, <2>5, <2>6, <2>7 DEF Ended
    <2> QED BY <2>4, <2>8 DEF Relates
  <1>5. CASE end = -1
    <2>0. <<>> \in Seq(Symbols)
      BY EmptySeq
    <2>1. q = EmitSafe(p)
      BY <1>5 DEF PushAnswer
    <2>2. Find(rest, END_TAG) = -1
      BY <1>3, <1>5
    <2>3. CASE n <= 0
      <3>1. q = [p EXCEPT !.emit = <<>>]
        BY <2>1, <2>3 DEF EmitSafe
      <3>2. /\ q \in ParserStates /\ q.emit = <<>> /\ q.buffer = b
            /\ ~q.done /\ q.inAnswer
        BY <2>0, <3>1 DEF ParserStates
      <3>3. s \o q.emit = s
        BY <3>2, ConcatEmptySeq
      <3> DEFINE r == [q EXCEPT !.emit = <<>>]
      <3>4. ~r.done /\ r.inAnswer /\ r.buffer = b
        BY <3>2 DEF ParserStates
      <3> HIDE DEF r
      <3>5. Answering(r, t, s)
        BY <1>1, <2>2, <3>4 DEF Answering
      <3> QED BY <3>2, <3>3, <3>5 DEF Relates, r
    <2>4. CASE n > 0
      <3>1. q = [p EXCEPT !.emit = Upto(b, n), !.buffer = LastOf(b, Len(END_TAG))]
        BY <1>0, <2>1, <2>4 DEF EmitSafe
      <3>2. n \in 0..Len(b) /\ LastOf(b, Len(END_TAG)) = From(b, n)
        BY <1>0, <2>4 DEF LastOf
      <3>3. /\ Upto(b, n) \in Seq(Symbols) /\ From(b, n) \in Seq(Symbols)
            /\ Len(From(b, n)) = Len(END_TAG)
        <4>1. Len(b) - n = Len(END_TAG)
          BY <1>0
        <4> HIDE DEF n
        <4> QED BY <1>0, <3>2, <4>1, PartLengths
      <3>4. /\ q \in ParserStates /\ q.emit = Upto(b, n) /\ q.buffer = From(b, n)
            /\ ~q.done /\ q.inAnswer
        BY <3>1, <3>2, <3>3 DEF ParserStates
      <3>5. Upto(b, n) \o From(b, n) = b
        BY <1>0, <3>2, UptoAndFrom
      <3>6. (s \o Upto(b, n)) \o From(b, n) = s \o (Upto(b, n) \o From(b, n))
        BY <3>3, ConcatAssociative
      <3> DEFINE r == [q EXCEPT !.emit = <<>>]
      <3>7. ~r.done /\ r.inAnswer /\ r.buffer = From(b, n)
        BY <3>4 DEF ParserStates
      <3> HIDE DEF r
      <3>8. Answering(r, t, s \o q.emit)
        <4>1. (s \o q.emit) \o r.buffer = rest
          BY <1>1, <3>4, <3>5, <3>6, <3>7
        <4>2. Len(r.buffer) >= Len(END_TAG)
          BY <1>0, <3>3, <3>7
        <4>3. Find(Rest(t), END_TAG) = -1
          BY <2>2
        <4> QED BY <3>7, <4>1, <4>2, <4>3 DEF Answering
      <3> QED BY <3>4, <3>8 DEF Relates, r
    <2> QED BY <1>0, <2>3, <2>4
  <1> QED BY <1>4, <1>5

\* A new parser is in step with no text at all.
LEMMA NewParserRelates ==
  NewParser \in ParserStates /\ Relates(NewParser, <<>>, <<>>)
  <1>1. <<>> \in Seq(Symbols) /\ Len(<<>>) = 0
    BY EmptySeq
  <1>2. NewParser \in ParserStates
    BY <1>1 DEF NewParser, ParserStates
  <1>3. \A i \in Nat : ~Occurs(<<>>, ANSWER_TAG, i)
    BY <1>1, TagLengths DEF Occurs
  <1>4. Find(<<>>, ANSWER_TAG) = -1
    BY <1>1, <1>3, TagLengths, FirstIsFind
  <1>5. LastOf(<<>>, Len(ANSWER_TAG)) = <<>>
    BY <1>1, TagLengths DEF LastOf
  <1>6. ~NewParser.done /\ ~NewParser.inAnswer /\ NewParser.buffer = <<>>
    BY DEF NewParser
  <1> QED BY <1>2, <1>4, <1>5, <1>6 DEF Relates, Searching

\* One call of push keeps the parser in step with the text, whatever the text so
\* far, the tokens shown and the piece are (StreamingAnswerParser.push).
THEOREM PushRelates ==
  ASSUME NEW p \in ParserStates, NEW t \in Seq(Symbols), NEW s \in Seq(Symbols),
         NEW u \in Seq(Symbols), Relates(p, t, s)
  PROVE  /\ Push(p, u) \in ParserStates
         /\ Relates([Push(p, u) EXCEPT !.emit = <<>>], t \o u, s \o Push(p, u).emit)
  <1>0. /\ t \o u \in Seq(Symbols) /\ <<>> \in Seq(Symbols)
        /\ p.buffer \in Seq(Symbols)
        /\ Len(t) \in Nat /\ Len(u) \in Nat /\ Len(t \o u) = Len(t) + Len(u)
    BY EmptySeq, ConcatProperties DEF ParserStates
  <1> DEFINE q == Push(p, u)
             r == [q EXCEPT !.emit = <<>>]
  <1>buf. PICK b \in Seq(Symbols) : b = p.buffer \o u
    BY <1>0, ConcatProperties
  <1>1. CASE Searching(p, t, s)
    <2>1. ~p.done /\ ~p.inAnswer /\ s = <<>> /\ Find(t, ANSWER_TAG) = -1
      BY <1>1 DEF Searching
    <2>2. PICK d \in 0..Len(t) : /\ p.buffer = From(t, d)
                                 /\ d = 0 \/ d + Len(ANSWER_TAG) = Len(t)
                                 /\ Len(t) <= d + Len(ANSWER_TAG)
      BY <1>1, TagLengths, LastOfIsFrom DEF Searching
    <2>3. b = From(t \o u, d) /\ d \in 0..Len(t \o u)
      BY <1>0, <1>buf, <2>2, FromOfConcat
    <2>4. \A i \in 0..(d - 1) : ~Occurs(t \o u, ANSWER_TAG, i)
      BY <1>0, <2>1, <2>2, TagLengths, NotBefore
    <2>5. Find(t \o u, ANSWER_TAG)
            = IF Find(b, ANSWER_TAG) = -1 THEN -1 ELSE d + Find(b, ANSWER_TAG)
      BY <1>0, <2>3, <2>4, TagLengths, FindInRest
    <2>6. CASE Find(b, ANSWER_TAG) = -1
      <3>1. q = [p EXCEPT !.buffer = LastOf(b, Len(ANSWER_TAG)), !.emit = <<>>]
        BY <1>buf, <2>1, <2>6 DEF Push
      <3>2. LastOf(b, Len(ANSWER_TAG)) = LastOf(t \o u, Len(ANSWER_TAG))
        <4>1. d = 0 \/ d + Len(ANSWER_TAG) <= Len(t \o u)
          BY <1>0, <2>2
        <4> QED BY <1>0, <2>3, <4>1, TagLengths, LastOfRest
      <3>3. LastOf(b, Len(ANSWER_TAG)) \in Seq(Symbols)
        BY <1>0, TagLengths, LastOfIsFrom, FromProperties
      <3>4. /\ q \in ParserStates /\ q.emit = <<>> /\ ~q.done /\ ~q.inAnswer
            /\ q.buffer = LastOf(t \o u, Len(ANSWER_TAG))
        BY <1>0, <2>1, <3>1, <3>2, <3>3 DEF ParserStates
      <3>5. ~r.done /\ ~r.inAnswer /\ r.buffer = LastOf(t \o u, Len(ANSWER_TAG))
        BY <3>4 DEF ParserStates
      <3>6. s \o q.emit = <<>>
        BY <1>0, <2>1, <3>4, ConcatEmptySeq
      <3> HIDE DEF q, r
      <3>7. Searching(r, t \o u, s \o q.emit)
        BY <2>5, <2>6, <3>5, <3>6 DEF Searching
      <3> QED BY <3>4, <3>7 DEF Relates, q, r
    <2>7. CASE Find(b, ANSWER_TAG) # -1
      <3> DEFINE n == Find(b, ANSWER_TAG) + Len(ANSWER_TAG)
                 p1 == [p EXCEPT !.inAnswer = TRUE, !.buffer = From(b, n)]
      <3>1. q = PushAnswer(p1)
        BY <1>buf, <2>1, <2>7 DEF Push
      <3>2. n \in 0..Len(b) /\ Find(b, ANSWER_TAG) \in Nat
        BY <1>0, <2>7, TagLengths, FindRoom
      <3>3. From(b, n) \in Seq(Symbols)
        <4> HIDE DEF n
        <4> QED BY <1>0, <3>2, FromProperties
      <3>4. Find(t \o u, ANSWER_TAG) # -1
        BY <2>2, <2>5, <2>7, <3>2
      <3>5. From(b, n) = Rest(t \o u)
        <4>1. Len(b) = Len(t \o u) - d
          BY <1>0, <2>3, FromProperties
        <4>2. n \in 0..(Len(t \o u) - d)
          BY <3>2, <4>1
        <4>3. d + n = Find(t \o u, ANSWER_TAG) + Len(ANSWER_TAG)
          BY <2>2, <2>5, <2>7, <3>2, TagLengths
        <4> HIDE DEF n
        <4>4. From(From(t \o u, d), n) = From(t \o u, d + n)
          BY <1>0, <2>3, <4>2, FromOfFrom
        <4> QED BY <2>3, <4>3, <4>4 DEF Rest
      <3>6. p1 \in ParserStates /\ p1.inAnswer /\ ~p1.done /\ p1.buffer = From(b, n)
        BY <1>0, <2>1, <3>3 DEF ParserStates
      <3>7. s \o From(b, n) = Rest(t \o u)
        BY <2>1, <3>3, <3>5, ConcatEmptySeq
      <3>8. \A i \in 0..(Len(s) - 1) : ~Occurs(Rest(t \o u), END_TAG, i)
        BY <2>1, EmptySeq
      <3> HIDE DEF p1, q, n
      <3> QED BY <1>0, <2>1, <3>1, <3>4, <3>6, <3>7, <3>8, PushAnswerRelates DEF q
    <2> QED BY <2>6, <2>7
  <1>2. CASE Answering(p, t, s)
    <2>1. /\ ~p.done /\ p.inAnswer /\ Find(t, ANSWER_TAG) # -1
          /\ Find(Rest(t), END_TAG) = -1 /\ s \o p.buffer = Rest(t)
          /\ s = <<>> \/ Len(p.buffer) >= Len(END_TAG)
      BY <1>2 DEF Answering
    <2> DEFINE p1 == [p EXCEPT !.buffer = b]
    <2>2. q = PushAnswer(p1)
      BY <1>buf, <2>1 DEF Push
    <2>3. p1 \in ParserStates /\ p1.inAnswer /\ ~p1.done /\ p1.buffer = b
      BY <1>0, <2>1 DEF ParserStates
    <2>4. /\ Rest(t) \in Seq(Symbols)
          /\ Find(t \o u, ANSWER_TAG) # -1 /\ Rest(t \o u) = Rest(t) \o u
      BY <2>1, RestInMore
    <2>5. s \o b = Rest(t \o u)
      <3>1. (s \o p.buffer) \o u = s \o (p.buffer \o u)
        <4>1. PICK c \in Seq(Symbols) : c = p.buffer
          BY <1>0
        <4>2. (s \o c) \o u = s \o (c \o u)
          BY ConcatAssociative
        <4> QED BY <4>1, <4>2
      <3> QED BY <1>buf, <2>1, <2>4, <3>1
    <2>6. /\ Len(s) \in Nat /\ Len(Rest(t)) = Len(s) + Len(p.buffer)
          /\ Len(b) = Len(p.buffer) + Len(u) /\ Len(p.buffer) \in Nat
      BY <1>0, <1>buf, <2>1, ConcatLength, ConcatProperties
    <2>7. Len(s) = 0 \/ Len(s) + Len(END_TAG) <= Len(Rest(t))
      BY <2>1, <2>6, TagLengths, EmptySeq
    <2>8. \A i \in 0..(Len(s) - 1) : ~Occurs(Rest(t \o u), END_TAG, i)
      BY <2>1, <2>4, <2>6, <2>7, TagLengths, NotBefore
    <2>9. s = <<>> \/ Len(b) >= Len(END_TAG)
      BY <1>0, <2>1, <2>6, TagLengths
    <2> HIDE DEF p1, q
    <2> QED BY <1>0, <2>2, <2>3, <2>4, <2>5, <2>8, <2>9, PushAnswerRelates DEF q
  <1>3. CASE Ended(p, t, s)
    <2>1. /\ p.done /\ Find(t, ANSWER_TAG) # -1 /\ Find(Rest(t), END_TAG) # -1
          /\ s = Upto(Rest(t), Find(Rest(t), END_TAG))
      BY <1>3 DEF Ended
    <2>2. q = [p EXCEPT !.emit = <<>>]
      BY <2>1 DEF Push
    <2>3. q \in ParserStates /\ q.emit = <<>> /\ q.done
      BY <1>0, <2>1, <2>2 DEF ParserStates
    <2>4. r.done
      BY <2>3 DEF ParserStates
    <2>5. /\ Rest(t) \in Seq(Symbols)
          /\ Find(t \o u, ANSWER_TAG) # -1 /\ Rest(t \o u) = Rest(t) \o u
      BY <2>1, RestInMore
    <2>6. Find(Rest(t \o u), END_TAG) = Find(Rest(t), END_TAG)
      BY <2>1, <2>5, TagLengths, FindInMore
    <2>7. Find(Rest(t), END_TAG) \in 0..Len(Rest(t))
      BY <2>1, <2>5, TagLengths, FindRoom
    <2>8. Upto(Rest(t) \o u, Find(Rest(t), END_TAG)) = Upto(Rest(t), Find(Rest(t), END_TAG))
      BY <2>5, <2>7, UptoInMore
    <2>9. s \o q.emit = s
      BY <2>3, ConcatEmptySeq
    <2> HIDE DEF q, r
    <2>10. Ended(r, t \o u, s \o q.emit)
      BY <2>1, <2>4, <2>5, <2>6, <2>8, <2>9 DEF Ended
    <2> QED BY <2>3, <2>10 DEF Relates, q, r
  <1> QED BY <1>1, <1>2, <1>3 DEF Relates

\* What has been shown is a beginning of the answer, and with the tail that flush
\* returns all of it.
LEMMA ShownIsAnswer ==
  ASSUME NEW p \in ParserStates, NEW t \in Seq(Symbols), NEW s \in Seq(Symbols),
         Relates(p, t, s)
  PROVE  /\ AnswerIn(t) \in Seq(Symbols) /\ Flush(p) \in Seq(Symbols)
         /\ s \o Flush(p) = AnswerIn(t)
         /\ IsPrefix(s, AnswerIn(t))
  <1>0. p.buffer \in Seq(Symbols) /\ <<>> \in Seq(Symbols) /\ s \o <<>> = s
    BY EmptySeq, ConcatEmptySeq DEF ParserStates
  <1>1. CASE Searching(p, t, s)
    <2>1. AnswerIn(t) = <<>> /\ Flush(p) = <<>> /\ s = <<>>
      BY <1>1 DEF Searching, AnswerIn, Flush
    <2> QED BY <1>0, <2>1, EmptyPrefix
  <1>2. CASE Answering(p, t, s)
    <2>1. AnswerIn(t) = Rest(t) /\ Flush(p) = p.buffer /\ s \o p.buffer = Rest(t)
      BY <1>2 DEF Answering, AnswerIn, Flush, Rest
    <2>2. Rest(t) \in Seq(Symbols)
      BY <1>0, <2>1, ConcatLength
    <2> QED BY <1>0, <2>1, <2>2, PrefixOfConcat
  <1>3. CASE Ended(p, t, s)
    <2>1. AnswerIn(t) = s /\ Flush(p) = <<>>
      BY <1>3 DEF Ended, AnswerIn, Flush, Rest
    <2> QED BY <1>0, <2>1, PrefixOfConcat
  <1> QED BY <1>1, <1>2, <1>3 DEF Relates

-----------------------------------------------------------------------------
(* White space.                                                            *)

Solid(t) == {i \in 1..Len(t) : t[i] \notin Blank}

\* What the parsers know of their markers.
Marker(tag) ==
  /\ tag \in Seq(Symbols) /\ Len(tag) \in Nat /\ Len(tag) >= 1
  /\ \A i \in 1..Len(tag) : tag[i] \notin Blank

LEMMA MarkersAreSolid == Marker(ANSWER_TAG) /\ Marker(END_TAG)
  BY ParserAssumption, TagLengths DEF Marker

\* A stripped text is the text without its ends, which are white space.
LEMMA StripEnds ==
  ASSUME NEW t \in Seq(Symbols), Solid(t) # {}
  PROVE  \E m \in 0..Len(t) : \E n \in 0..m :
           /\ Strip(t) = From(Upto(t, m), n)
           /\ \A i \in 1..Len(t) : i <= n \/ i > m => t[i] \in Blank
  <1> DEFINE solid == Solid(t)
             first == CHOOSE i \in solid : \A j \in solid : i <= j
             last == CHOOSE i \in solid : \A j \in solid : j <= i
  <1>0. Len(t) \in Nat /\ solid \subseteq 1..Len(t)
    BY DEF Solid
  <1>1. Strip(t) = From(Upto(t, last), first - 1)
    BY DEF Strip, Solid
  <1>2. \A i \in 1..Len(t) : i \in solid <=> t[i] \notin Blank
    BY DEF Solid
  <1> HIDE DEF solid
  <1>3. first \in solid /\ \A j \in solid : first <= j
    <2>1. \E i \in solid : \A j \in solid : i <= j
      BY <1>0, LeastNumber DEF solid
    <2> QED BY <2>1
  <1>4. last \in solid /\ \A j \in solid : j <= last
    <2> DEFINE gaps == {Len(t) - i : i \in solid}
    <2>1. gaps \in SUBSET Nat /\ gaps # {}
      BY <1>0 DEF solid
    <2>2. PICK g \in gaps : \A h \in gaps : g <= h
      <3> HIDE DEF gaps
      <3> QED BY <2>1, LeastNumber
    <2>3. PICK i \in solid : g = Len(t) - i
      OBVIOUS
    <2>4. ASSUME NEW j \in solid PROVE j <= i
      <3>1. Len(t) - j \in gaps
        OBVIOUS
      <3>2. Len(t) - i <= Len(t) - j
        BY <2>2, <2>3, <3>1
      <3>3. i \in Nat /\ j \in Nat /\ Len(t) \in Nat
        BY <1>0
      <3> HIDE DEF gaps
      <3> QED BY <3>2, <3>3
    <2> QED BY <2>4
  <1> HIDE DEF first, last
  <1>5. last \in 0..Len(t) /\ first - 1 \in 0..last
    BY <1>0, <1>3, <1>4
  <1>6. ASSUME NEW i \in 1..Len(t), i <= first - 1 \/ i > last
        PROVE  t[i] \in Blank
    <2>1. i \notin solid
      BY <1>0, <1>3, <1>4, <1>6
    <2> QED BY <1>2, <2>1
  <1> QED BY <1>1, <1>5, <1>6

\* No marker begins in white space, ...
LEMMA NotInBlankHead ==
  ASSUME NEW t \in Seq(Symbols), NEW tag, Marker(tag), NEW n \in 0..Len(t),
         \A i \in 1..n : t[i] \in Blank
  PROVE  \A i \in 0..(n - 1) : ~Occurs(t, tag, i)
  <1> SUFFICES ASSUME NEW i \in 0..(n - 1), Occurs(t, tag, i) PROVE FALSE
    OBVIOUS
  <1>1. 1 \in 1..Len(tag) /\ i + 1 \in 1..n
    BY DEF Marker
  <1>2. t[i + 1] = tag[1] /\ tag[1] \notin Blank
    BY <1>1 DEF Occurs, Marker
  <1> QED BY <1>1, <1>2

\* ... and none ends in it.
LEMMA FindBeforeBlank ==
  ASSUME NEW t \in Seq(Symbols), NEW c \in Seq(Symbols), NEW tag, Marker(tag),
         \A i \in 1..Len(c) : c[i] \in Blank
  PROVE  Find(t \o c, tag) = Find(t, tag)
  <1>0. /\ Len(t) \in Nat /\ Len(c) \in Nat /\ t \o c \in Seq(Symbols)
        /\ tag \in Seq(Symbols) /\ Len(tag) \in Nat /\ Len(tag) >= 1
    BY DEF Marker
  <1>1. CASE Find(t, tag) # -1
    BY <1>0, <1>1, FindInMore
  <1>2. CASE Find(t, tag) = -1
    <2> SUFFICES ASSUME NEW i \in Nat, Occurs(t \o c, tag, i) PROVE FALSE
      BY <1>0, <1>2, FirstIsFind
    <2>1. ~Occurs(t, tag, i)
      BY <1>0, <1>2, FindIsFirst
    <2>2. ~(i + Len(tag) <= Len(t))
      BY <1>0, <2>1, OccursInMore
    <2>3. /\ Len(t \o c) = Len(t) + Len(c)
          /\ \A k \in 1..(Len(t) + Len(c)) :
               (t \o c)[k] = IF k <= Len(t) THEN t[k] ELSE c[k - Len(t)]
      BY ConcatProperties
    <2>4. i + Len(tag) <= Len(t) + Len(c) /\ (t \o c)[i + Len(tag)] = tag[Len(tag)]
      BY <1>0, <2>3 DEF Occurs
    <2>5. tag[Len(tag)] \notin Blank
      BY <1>0 DEF Marker
    <2>6. i + Len(tag) \in 1..(Len(t) + Len(c)) /\ (i + Len(tag)) - Len(t) \in 1..Len(c)
      BY <1>0, <2>2, <2>4
    <2>7. (t \o c)[i + Len(tag)] = c[(i + Len(tag)) - Len(t)]
      BY <2>2, <2>3, <2>6
    <2> QED BY <2>4, <2>5, <2>6, <2>7
  <1> QED BY <1>1, <1>2

\* White space in front of a text does not change its answer, ...
LEMMA AnswerAfterBlank ==
  ASSUME NEW t \in Seq(Symbols), NEW n \in 0..Len(t), \A i \in 1..n : t[i] \in Blank,
         Enclosed(t)
  PROVE  Enclosed(From(t, n)) /\ AnswerIn(From(t, n)) = AnswerIn(t)
  <1> DEFINE r == From(t, n)
  <1>1. r \in Seq(Symbols) /\ Len(r) = Len(t) - n /\ Len(t) \in Nat
    BY FromProperties
  <1>2. Find(t, ANSWER_TAG) # -1 /\ Len(ANSWER_TAG) \in Nat
    BY TagLengths DEF Enclosed
  <1>3. \A i \in 0..(n - 1) : ~Occurs(t, ANSWER_TAG, i)
    BY MarkersAreSolid, NotInBlankHead
  <1>4. Find(r, ANSWER_TAG) # -1 /\ Find(t, ANSWER_TAG) = n + Find(r, ANSWER_TAG)
    BY <1>2, <1>3, TagLengths, FindInRest
  <1> HIDE DEF r
  <1>5. Find(r, ANSWER_TAG) + Len(ANSWER_TAG) \in 0..Len(r) /\ Find(r, ANSWER_TAG) \in 0..Len(r)
    BY <1>1, <1>4, TagLengths, FindRoom
  <1>6. PICK k \in 0..(Len(t) - n) : k = Find(r, ANSWER_TAG) + Len(ANSWER_TAG)
    BY <1>1, <1>5
  <1>7. From(r, k) = From(t, n + k)
    BY <1>6, FromOfFrom DEF r
  <1>8. n + k = Find(t, ANSWER_TAG) + Len(ANSWER_TAG)
    BY <1>2, <1>4, <1>5, <1>6
  <1>9. Rest(r) = Rest(t)
    BY <1>6, <1>7, <1>8 DEF Rest
  <1>10. Enclosed(r) /\ AnswerIn(r) = AnswerIn(t)
    BY <1>2, <1>4, <1>9 DEF Enclosed, AnswerIn, Rest
  <1> QED BY <1>10 DEF r

\* ... nor does white space behind it.
LEMMA AnswerBeforeBlank ==
  ASSUME NEW t \in Seq(Symbols), NEW c \in Seq(Symbols),
         \A i \in 1..Len(c) : c[i] \in Blank, Enclosed(t \o c)
  PROVE  Enclosed(t) /\ AnswerIn(t) = AnswerIn(t \o c)
  <1>1. Find(t \o c, ANSWER_TAG) = Find(t, ANSWER_TAG) /\ Find(t, ANSWER_TAG) # -1
    BY MarkersAreSolid, FindBeforeBlank DEF Enclosed
  <1>2. Rest(t) \in Seq(Symbols) /\ Rest(t \o c) = Rest(t) \o c
    BY <1>1, RestInMore
  <1>3. Find(Rest(t) \o c, END_TAG) = Find(Rest(t), END_TAG)
    BY <1>2, MarkersAreSolid, FindBeforeBlank
  <1>4. Find(Rest(t), END_TAG) # -1
    BY <1>1, <1>2, <1>3 DEF Enclosed, Rest
  <1>5. Find(Rest(t), END_TAG) \in 0..Len(Rest(t))
    BY <1>2, <1>4, TagLengths, FindRoom
  <1>6. Upto(Rest(t) \o c, Find(Rest(t), END_TAG)) = Upto(Rest(t), Find(Rest(t), END_TAG))
    BY <1>2, <1>5, UptoInMore
  <1>7. Enclosed(t)
    BY <1>1, <1>4 DEF Enclosed, Rest
  <1>8. AnswerIn(t) = Upto(Rest(t), Find(Rest(t), END_TAG))
    BY <1>1, <1>4 DEF AnswerIn, Rest
  <1>9. AnswerIn(t \o c) = Upto(Rest(t \o c), Find(Rest(t \o c), END_TAG))
    BY <1>1, <1>2, <1>3, <1>4 DEF AnswerIn, Rest
  <1> QED BY <1>2, <1>3, <1>6, <1>7, <1>8, <1>9

\* strip() is a text, and takes nothing of an answer that markers enclose.
LEMMA StripType ==
  ASSUME NEW t \in Seq(Symbols)
  PROVE  Strip(t) \in Seq(Symbols)
  <1>1. CASE Solid(t) = {}
    BY <1>1, EmptySeq DEF Strip, Solid
  <1>2. CASE Solid(t) # {}
    <2>0. PICK m \in 0..Len(t) : \E n \in 0..m : Strip(t) = From(Upto(t, m), n)
      BY <1>2, StripEnds
    <2>1. PICK n \in 0..m : Strip(t) = From(Upto(t, m), n)
      BY <2>0
    <2>2. Upto(t, m) \in Seq(Symbols) /\ Len(Upto(t, m)) = m
      BY UptoProperties
    <2> QED BY <2>1, <2>2, FromProperties
  <1> QED BY <1>1, <1>2

LEMMA StripKeepsAnswer ==
  ASSUME NEW t \in Seq(Symbols), Enclosed(t)
  PROVE  Enclosed(Strip(t)) /\ AnswerIn(Strip(t)) = AnswerIn(t)
  <1>1. Solid(t) # {}
    <2>1. Find(t, ANSWER_TAG) \in Nat /\ Occurs(t, ANSWER_TAG, Find(t, ANSWER_TAG))
      BY TagLengths, FindIsFirst DEF Enclosed
    <2>2. 1 \in 1..Len(ANSWER_TAG) /\ Find(t, ANSWER_TAG) + 1 \in 1..Len(t)
      BY <2>1, TagLengths DEF Occurs
    <2>3. t[Find(t, ANSWER_TAG) + 1] \notin Blank
      BY <2>1, <2>2, MarkersAreSolid DEF Occurs, Marker
    <2> QED BY <2>2, <2>3 DEF Solid
  <1>0. PICK m \in 0..Len(t) :
          \E n \in 0..m : /\ Strip(t) = From(Upto(t, m), n)
                         /\ \A i \in 1..Len(t) : i <= n \/ i > m => t[i] \in Blank
    BY <1>1, StripEnds
  <1>2. PICK n \in 0..m : /\ Strip(t) = From(Upto(t, m), n)
                          /\ \A i \in 1..Len(t) : i <= n \/ i > m => t[i] \in Blank
    BY <1>0
  <1>3. PICK w : w = Upto(t, m)
    OBVIOUS
  <1>4. PICK c : c = From(t, m)
    OBVIOUS
  <1>5. w \in Seq(Symbols) /\ Len(w) = m /\ \A k \in 1..m : w[k] = t[k]
    BY <1>3, UptoProperties
  <1>6. /\ c \in Seq(Symbols) /\ Len(c) = Len(t) - m
        /\ \A k \in 1..(Len(t) - m) : c[k] = t[m + k]
    BY <1>4, FromProperties
  <1>7. w \o c = t
    BY <1>3, <1>4, UptoAndFrom
  <1>8. ASSUME NEW k \in 1..Len(c) PROVE c[k] \in Blank
    <2>1. k \in 1..(Len(t) - m) /\ m + k \in 1..Len(t) /\ m + k > m
      BY <1>6
    <2>2. t[m + k] \in Blank
      BY <1>2, <2>1
    <2> QED BY <1>6, <2>1, <2>2
  <1>9. ASSUME NEW k \in 1..n PROVE w[k] \in Blank
    <2>1. k \in 1..m /\ k \in 1..Len(t) /\ k <= n
      OBVIOUS
    <2>2. t[k] \in Blank
      BY <1>2, <2>1
    <2> QED BY <1>5, <2>1, <2>2
  <1>10. Enclosed(w) /\ AnswerIn(w) = AnswerIn(t)
    BY <1>5, <1>6, <1>7, <1>8, AnswerBeforeBlank
  <1>11. n \in 0..Len(w)
    BY <1>5
  <1>12. Enclosed(From(w, n)) /\ AnswerIn(From(w, n)) = AnswerIn(w)
    BY <1>5, <1>9, <1>10, <1>11, AnswerAfterBlank
  <1> QED BY <1>2, <1>3, <1>10, <1>12

\* What ask makes of a reply whose markers enclose more than white space.
LEMMA EnclosedIsRead ==
  ASSUME NEW t \in Seq(Symbols), Enclosed(t), Strip(AnswerIn(t)) # <<>>
  PROVE  ParseResponse(Strip(t)) = Strip(AnswerIn(t))
  <1>1. Enclosed(Strip(t)) /\ AnswerIn(Strip(t)) = AnswerIn(t)
    BY StripKeepsAnswer
  <1>2. Extract(Strip(t)) = Strip(AnswerIn(Strip(t)))
    BY <1>1 DEF Extract, AnswerIn, Enclosed
  <1> QED BY <1>1, <1>2 DEF ParseResponse

-----------------------------------------------------------------------------
(* Folds: the recursion they are defined by has a solution.                *)

\* f folds base and the functions step[x] over the subsets of S, taking the
\* elements of a set in the order in which first gives them.
Folds(f, S, base, first, step) ==
  \A t \in SUBSET S : f[t] = IF t = {} THEN base ELSE step[first[t]][f[t \ {first[t]}]]

Chooses(first, S) == \A t \in SUBSET S : t # {} => first[t] \in t

\* If some subset of a finite set is a counterexample, there is a smallest one.
LEMMA SmallestCounterexample ==
  ASSUME NEW S, IsFiniteSet(S), NEW T \in SUBSET SUBSET S, T # {}
  PROVE  \E x \in T : \A y \in SUBSET x : y \in T => y = x
  <1>1. T \subseteq FiniteSubsetsOf(S)
    BY FS_Subset DEF FiniteSubsetsOf
  <1> QED BY <1>1, SmallestSet

\* There is only one such fold,
LEMMA FoldUnique ==
  ASSUME NEW S, IsFiniteSet(S), NEW base, NEW first, NEW step, NEW f, NEW g,
         Chooses(first, S),
         Folds(f, S, base, first, step), Folds(g, S, base, first, step)
  PROVE  \A t \in SUBSET S : f[t] = g[t]
  <1> DEFINE T == {t \in SUBSET S : f[t] # g[t]}
  <1> SUFFICES ASSUME T # {} PROVE FALSE
    OBVIOUS
  <1>1. PICK t \in T : \A y \in SUBSET t : y \in T => y = t
    <2>1. T \in SUBSET SUBSET S
      OBVIOUS
    <2> HIDE DEF T
    <2> QED BY <2>1, SmallestCounterexample
  <1>2. t # {}
    <2>1. {} \in SUBSET S /\ f[{}] = base /\ g[{}] = base
      BY DEF Folds
    <2> QED BY <1>1, <2>1
  <1> DEFINE y == t \ {first[t]}
  <1>3. y \in SUBSET t /\ y # t /\ y \in SUBSET S
    BY <1>1, <1>2 DEF Chooses
  <1>4. f[y] = g[y]
    BY <1>1, <1>3
  <1>5. f[t] = step[first[t]][f[y]] /\ g[t] = step[first[t]][g[y]]
    BY <1>1, <1>2 DEF Folds
  <1> QED BY <1>1, <1>4, <1>5

\* and there is one, by what the smaller sets' folds are.
LEMMA FoldExists ==
  ASSUME NEW S, IsFiniteSet(S), NEW V, NEW base \in V, NEW first,
         Chooses(first, S),
         NEW step \in [S -> [V -> V]]
  PROVE  \E f \in [SUBSET S -> V] : Folds(f, S, base, first, step)
  <1> DEFINE Good(s) == \E f \in [SUBSET s -> V] : Folds(f, s, base, first, step)
             T == {s \in SUBSET S : ~Good(s)}
  <1> SUFFICES ASSUME T # {} PROVE FALSE
    OBVIOUS
  <1>1. PICK s \in T : \A y \in SUBSET s : y \in T => y = s
    <2>1. T \in SUBSET SUBSET S
      OBVIOUS
    <2> HIDE DEF T
    <2> QED BY <2>1, SmallestCounterexample
  <1>2. \A y \in SUBSET s : y # s => Good(y)
    BY <1>1
  <1> DEFINE G == [y \in SUBSET s |-> CHOOSE f \in [SUBSET y -> V] :
                                          Folds(f, y, base, first, step)]
  <1>3. ASSUME NEW y \in SUBSET s, y # s
        PROVE  G[y] \in [SUBSET y -> V] /\ Folds(G[y], y, base, first, step)
    BY <1>2, <1>3
  <1> HIDE DEF G
  <1>4. ASSUME NEW y \in SUBSET s, y # s, NEW z \in SUBSET y PROVE G[y][z] = G[z][z]
    <2>1. z \in SUBSET s /\ z # s
      BY <1>4
    <2>2. Folds(G[y], z, base, first, step)
      BY <1>3, <1>4 DEF Folds
    <2>3. Folds(G[z], z, base, first, step)
      BY <1>3, <2>1
    <2>4. IsFiniteSet(z) /\ Chooses(first, z)
      BY <1>1, <2>1, FS_Subset DEF Chooses
    <2> QED BY <2>2, <2>3, <2>4, FoldUnique
  <1> DEFINE F == [t \in SUBSET s |-> IF t = {} THEN base
                     ELSE step[first[t]][G[t \ {first[t]}][t \ {first[t]}]]]
  <1>5. ASSUME NEW t \in SUBSET s, t # {}
        PROVE  /\ first[t] \in S /\ t \ {first[t]} \in SUBSET s /\ t \ {first[t]} # s
               /\ G[t \ {first[t]}][t \ {first[t]}] \in V
    <2>1. first[t] \in t /\ first[t] \in S
      BY <1>1, <1>5 DEF Chooses
    <2>2. t \ {first[t]} \in SUBSET s /\ t \ {first[t]} # s
      BY <1>5, <2>1
    <2> DEFINE y == t \ {first[t]}
    <2>3. y \in SUBSET s /\ y # s
      BY <2>2
    <2> HIDE DEF y
    <2>4. G[y] \in [SUBSET y -> V] /\ y \in SUBSET y
      BY <1>3, <2>3
    <2>5. G[y][y] \in V
      BY <2>4
    <2> QED BY <2>1, <2>2, <2>5 DEF y
  <1>6. F \in [SUBSET s -> V]
    <2> SUFFICES ASSUME NEW t \in SUBSET s
                 PROVE  (IF t = {} THEN base
                         ELSE step[first[t]][G[t \ {first[t]}][t \ {first[t]}]]) \in V
      OBVIOUS
    <2>1. CASE t = {}
      BY <2>1
    <2>2. CASE t # {}
      <3>1. first[t] \in S /\ G[t \ {first[t]}][t \ {first[t]}] \in V
        BY <1>5, <2>2
      <3>2. step[first[t]] \in [V -> V]
        BY <3>1
      <3> QED BY <2>2, <3>1, <3>2
    <2> QED BY <2>1, <2>2
  <1>7. ASSUME NEW y \in SUBSET s, y # s PROVE F[y] = G[y][y]
    <2>1. G[y][y] = IF y = {} THEN base ELSE step[first[y]][G[y][y \ {first[y]}]]
      BY <1>3, <1>7 DEF Folds
    <2>2. CASE y = {}
      BY <2>1, <2>2
    <2>3. CASE y # {}
      <3>1. G[y][y \ {first[y]}] = G[y \ {first[y]}][y \ {first[y]}]
        BY <1>4, <1>7
      <3> QED BY <1>7, <2>1, <2>3, <3>1
    <2> QED BY <2>2, <2>3
  <1>8. ASSUME NEW t \in SUBSET s, t # {} PROVE F[t] = step[first[t]][F[t \ {first[t]}]]
    BY <1>5, <1>7, <1>8
  <1>9. Folds(F, s, base, first, step)
    BY <1>8 DEF Folds
  <1> QED BY <1>1, <1>6, <1>9

\* FoldLeft takes the places of a sequence from the last one down.
LEMMA MaxIsElement ==
  ASSUME NEW n \in Nat, NEW t \in SUBSET (1..n), t # {}
  PROVE  Max(t) \in t
  <1> DEFINE T == {n - i : i \in t}
  <1>1. PICK k \in T : \A m \in T : k <= m
    <2>1. \A i \in t : n - i \in Nat
      OBVIOUS
    <2>2. T \in SUBSET Nat /\ T # {}
      BY <2>1
    <2> HIDE DEF T
    <2> QED BY <2>2, LeastNumber
  <1>2. PICK i \in t : k = n - i
    BY <1>1
  <1>3. ASSUME NEW j \in t PROVE i >= j
    <2>1. n - i <= n - j
      BY <1>1, <1>2
    <2> QED BY <2>1
  <1> QED BY <1>3 DEF Max

\* f folds base and the functions step[i] over the places S of a sequence, from
\* the left.
LeftFolds(f, S, base, step) ==
  \A t \in SUBSET S : f[t] = IF t = {} THEN base ELSE step[Max(t)][f[t \ {Max(t)}]]

Places(S) == \E n \in Nat : S = 1..n

LEMMA LeftFoldExists ==
  ASSUME NEW S, Places(S), NEW V, NEW base \in V, NEW step \in [S -> [V -> V]]
  PROVE  \E f \in [SUBSET S -> V] : LeftFolds(f, S, base, step)
  <1> DEFINE first == [t \in SUBSET S |-> Max(t)]
  <1>1. Chooses(first, S)
    BY MaxIsElement DEF Chooses, Places
  <1>2. IsFiniteSet(S)
    BY FS_Interval DEF Places
  <1>3. \E f \in [SUBSET S -> V] : Folds(f, S, base, first, step)
    <2> HIDE DEF first
    <2> QED BY <1>1, <1>2, FoldExists
  <1>4. PICK f \in [SUBSET S -> V] : Folds(f, S, base, first, step)
    BY <1>3
  <1>5. LeftFolds(f, S, base, step)
    BY <1>4 DEF Folds, LeftFolds
  <1> QED BY <1>5

\* What holds of the empty fold, and of a fold if it holds of the one without its
\* last element, holds of the whole.
LEMMA LeftFoldInduction ==
  ASSUME NEW S, Places(S), NEW V, NEW it, it[{}] \in V,
         \A t \in SUBSET S : t # {} /\ it[t \ {Max(t)}] \in V => it[t] \in V
  PROVE  it[S] \in V
  <1> DEFINE T == {t \in SUBSET S : it[t] \notin V}
  <1> SUFFICES ASSUME T # {} PROVE FALSE
    OBVIOUS
  <1>1. PICK t \in T : \A y \in SUBSET t : y \in T => y = t
    <2>1. T \in SUBSET SUBSET S /\ IsFiniteSet(S)
      BY FS_Interval DEF Places
    <2> HIDE DEF T
    <2> QED BY <2>1, SmallestCounterexample
  <1>2. t # {}
    BY <1>1
  <1>3. Max(t) \in t
    BY <1>1, <1>2, MaxIsElement DEF Places
  <1>4. it[t \ {Max(t)}] \in V
    BY <1>1, <1>3
  <1> QED BY <1>1, <1>2, <1>4

-----------------------------------------------------------------------------

(* The clusters and the documents of the evidence.                         *)

ClusterLists == Seq(Seq(Chunks) \ {<<>>})

\* A step of the clustering keeps the clusters not empty.
LEMMA ClusterStepType ==
  ASSUME NEW v \in ClusterLists, NEW c \in Chunks
  PROVE  ClusterStep(v, c) \in ClusterLists
  <1> DEFINE C == Seq(Chunks) \ {<<>>}
  <1>1. <<c>> \in C
    OBVIOUS
  <1>2. CASE v = <<>>
    BY <1>1, <1>2 DEF ClusterStep, ClusterLists
  <1>3. CASE v # <<>>
    <2> DEFINE open == v[Len(v)]
    <2>1. Len(v) \in 1..Len(v) /\ v \in Seq(C)
      BY <1>3, EmptySeq DEF ClusterLists
    <2>2. open \in C
      <3> HIDE DEF C
      <3> QED BY <2>1, ElementOfSeq
    <2>3. Append(open, c) \in C
      BY <2>2, AppendProperties
    <2>4. [v EXCEPT ![Len(v)] = Append(open, c)] \in Seq(C)
      <3> HIDE DEF C, open
      <3> QED BY <2>1, <2>3, ExceptSeq
    <2>5. Append(v, <<c>>) \in Seq(C)
      <3> HIDE DEF C
      <3> QED BY <1>1, <2>1, AppendProperties
    <2> QED BY <1>3, <2>4, <2>5 DEF ClusterStep, ClusterLists
  <1> QED BY <1>2, <1>3

\* So does all of it.
LEMMA ClustersType ==
  ASSUME NEW r \in Seq(Chunks)
  PROVE  Clusters(r) \in ClusterLists
  <1> DEFINE n == Len(r)
             S == 1..n
             Body(g) == [s \in SUBSET S |-> IF s = {} THEN <<>>
                                            ELSE ClusterStep(g[s \ {Max(s)}], r[Max(s)])]
             it == CHOOSE g : g = Body(g)
  <1>1. Clusters(r) = it[S]
    <2>1. DOMAIN r = S
      OBVIOUS
    <2> QED BY <2>1 DEF Clusters, FoldLeft, MapThenFoldSet
  <1>2. \E g : g = Body(g)
    <2> DEFINE step == [i \in S |-> [v \in ClusterLists |-> ClusterStep(v, r[i])]]
    <2>1. n \in Nat /\ <<>> \in ClusterLists
      BY EmptySeq DEF ClusterLists
    <2>2. \A i \in S : r[i] \in Chunks
      BY ElementOfSeq
    <2>3. step \in [S -> [ClusterLists -> ClusterLists]]
      BY <2>2, ClusterStepType
    <2>4. \E f \in [SUBSET S -> ClusterLists] : LeftFolds(f, S, <<>>, step)
      <3>1. Places(S)
        BY <2>1 DEF Places
      <3> HIDE DEF step, n, S
      <3> QED BY <2>1, <2>3, <3>1, LeftFoldExists
    <2>fold. PICK f \in [SUBSET S -> ClusterLists] : LeftFolds(f, S, <<>>, step)
      BY <2>4
    <2>5. ASSUME NEW t \in SUBSET S, t # {}
          PROVE  step[Max(t)][f[t \ {Max(t)}]] = ClusterStep(f[t \ {Max(t)}], r[Max(t)])
      <3>1. Max(t) \in S
        BY <2>1, <2>5, MaxIsElement
      <3> QED BY <3>1
    <2> HIDE DEF step
    <2>6. f = [t \in SUBSET S |-> f[t]]
      OBVIOUS
    <2>7. f = Body(f)
      BY <2>fold, <2>5, <2>6 DEF LeftFolds
    <2> QED BY <2>7
  <1>3. it = Body(it)
    BY <1>2
  <1> HIDE DEF it
  <1>eq. \A t \in SUBSET S : it[t] = IF t = {} THEN <<>>
                                   ELSE ClusterStep(it[t \ {Max(t)}], r[Max(t)])
    BY <1>3
  <1>4. Places(S) /\ n \in Nat
    BY DEF Places
  <1>5. it[{}] \in ClusterLists
    BY <1>eq, EmptySeq DEF ClusterLists
  <1>6. ASSUME NEW t \in SUBSET S, t # {}, it[t \ {Max(t)}] \in ClusterLists
        PROVE  it[t] \in ClusterLists
    <2>1. Max(t) \in S
      BY <1>4, <1>6, MaxIsElement
    <2>2. r[Max(t)] \in Chunks
      BY <2>1, ElementOfSeq
    <2> QED BY <1>eq, <1>6, <2>2, ClusterStepType
  <1> HIDE DEF S
  <1>7. it[S] \in ClusterLists
    BY <1>4, <1>5, <1>6, LeftFoldInduction
  <1> QED BY <1>1, <1>7

\* The elements kept are those at the places asked for.
LEMMA ElementsAtType ==
  ASSUME NEW X, NEW s \in Seq(X), NEW places
  PROVE  ElementsAt(s, places) \in Seq({s[i] : i \in places \cap 1..Len(s)})
  <1> DEFINE n == Len(s)
             S == 1..n
             V == Seq({s[i] : i \in places \cap 1..Len(s)})
             dom == [i \in DOMAIN s |-> i]
             Step(v, i) == IF i \in places THEN Append(v, s[i]) ELSE v
             Body(g) == [t \in SUBSET S |-> IF t = {} THEN <<>>
                                            ELSE Step(g[t \ {Max(t)}], dom[Max(t)])]
             it == CHOOSE g : g = Body(g)
  <1>0. DOMAIN s = S /\ n \in Nat
    OBVIOUS
  <1>1. ElementsAt(s, places) = it[S]
    <2>1. DOMAIN dom = S
      BY <1>0
    <2> QED BY <2>1 DEF ElementsAt, FoldLeftDomain, FoldLeft, MapThenFoldSet
  <1>app. ASSUME NEW v \in V, NEW i \in S PROVE Step(v, dom[i]) \in V
    <2>1. dom[i] = i
      BY <1>0
    <2>2. CASE i \in places
      <3>1. s[i] \in {s[j] : j \in places \cap 1..Len(s)}
        BY <2>2
      <3> QED BY <2>1, <2>2, <3>1, AppendProperties
    <2> QED BY <2>1, <2>2
  <1>base. <<>> \in V
    BY EmptySeq
  <1>places. Places(S)
    BY <1>0 DEF Places
  <1> HIDE DEF V, Step, dom
  <1>2. \E g : g = Body(g)
    <2> DEFINE step == [i \in S |-> [v \in V |-> Step(v, dom[i])]]
    <2>1. step \in [S -> [V -> V]]
      BY <1>app
    <2>2. \E f \in [SUBSET S -> V] : LeftFolds(f, S, <<>>, step)
      <3> HIDE DEF step, n, S
      <3> QED BY <1>base, <1>places, <2>1, LeftFoldExists
    <2>3. PICK f \in [SUBSET S -> V] : LeftFolds(f, S, <<>>, step)
      BY <2>2
    <2>4. ASSUME NEW t \in SUBSET S, t # {}
          PROVE  step[Max(t)][f[t \ {Max(t)}]] = Step(f[t \ {Max(t)}], dom[Max(t)])
      <3>1. Max(t) \in S
        BY <1>0, <2>4, MaxIsElement
      <3> QED BY <3>1
    <2> HIDE DEF step
    <2>5. f = [t \in SUBSET S |-> f[t]]
      OBVIOUS
    <2>6. f = Body(f)
      BY <2>3, <2>4, <2>5 DEF LeftFolds
    <2> QED BY <2>6
  <1>3. it = Body(it)
    BY <1>2
  <1> HIDE DEF it
  <1>eq. \A t \in SUBSET S : it[t] = IF t = {} THEN <<>>
                                   ELSE Step(it[t \ {Max(t)}], dom[Max(t)])
    BY <1>3
  <1>4. it[{}] \in V
    BY <1>base, <1>eq
  <1>5. ASSUME NEW t \in SUBSET S, t # {}, it[t \ {Max(t)}] \in V PROVE it[t] \in V
    <2>1. Max(t) \in S
      BY <1>0, <1>5, MaxIsElement
    <2> QED BY <1>eq, <1>app, <1>5, <2>1
  <1> HIDE DEF S
  <1>6. it[S] \in V
    BY <1>places, <1>4, <1>5, LeftFoldInduction
  <1> QED BY <1>1, <1>6 DEF V

-----------------------------------------------------------------------------

\* The places of the clusters that have a row.
Kept(clusters, rows) == {i \in 1..Len(clusters) : HasRow(clusters[i], rows)}

\* The entry of a cluster with a row is one of its hits, and its row is there.
LEMMA EntryHasRow ==
  ASSUME NEW k \in Seq(Chunks), NEW rows \in SUBSET Chunks, HasRow(k, rows)
  PROVE  Entry(k, rows) \in rows /\ Entry(k, rows) \in ContentOf(k, rows)
  <1> DEFINE at == {i \in 1..Len(k) : k[i] \in rows}
  <1>1. at # {} /\ at \subseteq Nat
    BY DEF HasRow
  <1>2. Entry(k, rows) = k[IF at # {} THEN Min(at) ELSE 0]
    BY DEF Entry, SelectInSeq
  <1>3. Min(at) \in at
    <2> HIDE DEF at
    <2>1. \E n \in at : \A m \in at : n <= m
      BY <1>1, LeastNumber
    <2> QED BY <2>1 DEF Min
  <1> DEFINE i == Min(at)
  <1>4. i \in 1..Len(k) /\ k[i] \in rows /\ Entry(k, rows) = k[i]
    BY <1>1, <1>2, <1>3
  <1> HIDE DEF i
  <1>5. k[i] \in (k[i] - Window)..(k[i] + Window)
    <2>1. k[i] \in Nat
      BY <1>4, ChunksAssumption
    <2> QED BY <2>1 DEF Window
  <1> QED BY <1>4, <1>5 DEF ContentOf

Evidence == [entry : Chunks, content : SUBSET Chunks]

\* The documents built from any ranked hits and rows: a sequence of evidence,
\* each of whose entries is one of its passages (_build_clusters, _build_document).
THEOREM DocumentsAttributed ==
  ASSUME NEW r \in Seq(Chunks), NEW rows \in SUBSET Chunks
  PROVE  /\ Documents(r, rows) \in Seq(Evidence)
         /\ \A i \in 1..Len(Documents(r, rows)) :
              Documents(r, rows)[i].entry \in Documents(r, rows)[i].content
  <1> DEFINE C == Seq(Chunks) \ {<<>>}
             all == Clusters(r)
             clusters == ElementsAt(all, Kept(all, rows))
             K == {all[i] : i \in Kept(all, rows) \cap 1..Len(all)}
             Doc(k) == [entry |-> Entry(k, rows), content |-> ContentOf(k, rows)]
  <1>1. all \in Seq(C)
    BY ClustersType DEF ClusterLists
  <1>2. clusters \in Seq(K)
    <2> HIDE DEF all, C
    <2> QED BY <1>1, ElementsAtType
  <1>3. ASSUME NEW k \in K PROVE k \in Seq(Chunks) /\ HasRow(k, rows)
    <2>1. PICK i \in Kept(all, rows) \cap 1..Len(all) : k = all[i]
      OBVIOUS
    <2>2. all[i] \in C
      <3> HIDE DEF all, C
      <3> QED BY <1>1, <2>1, ElementOfSeq
    <2> QED BY <2>1, <2>2 DEF Kept
  <1>4. ASSUME NEW k \in K PROVE Doc(k) \in Evidence /\ Doc(k).entry \in Doc(k).content
    <2>1. Entry(k, rows) \in rows /\ Entry(k, rows) \in ContentOf(k, rows)
      <3> HIDE DEF K
      <3> QED BY <1>3, <1>4, EntryHasRow
    <2>2. ContentOf(k, rows) \subseteq rows
      BY DEF ContentOf
    <2> QED BY <2>1, <2>2 DEF Evidence
  <1>5. Documents(r, rows) = [i \in 1..Len(clusters) |-> Doc(clusters[i])]
    BY DEF Documents, Kept
  <1> HIDE DEF clusters, K, Doc
  <1>6. \A i \in 1..Len(clusters) : clusters[i] \in K
    BY <1>2, ElementOfSeq
  <1>7. Len(clusters) \in Nat
    BY <1>2
  <1>8. \A i \in 1..Len(clusters) : Doc(clusters[i]) \in Evidence
    BY <1>4, <1>6
  <1>9. /\ Documents(r, rows) \in Seq(Evidence)
        /\ Len(Documents(r, rows)) = Len(clusters)
    BY <1>5, <1>7, <1>8
  <1> QED BY <1>4, <1>5, <1>6, <1>9

-----------------------------------------------------------------------------
(***************************************************************************)
(* Chunks. A fold seen as the sequence of the folds of the prefixes, and    *)
(* what the merging of pieces into chunks keeps true piece by piece.        *)
(***************************************************************************)

\* p holds the fold of every prefix of n elements; result is that of all of them.
PrefixFolds(p, n, base, step) == p[0] = base /\ \A i \in 1..n : p[i] = step[i][p[i - 1]]

FoldsTo(n, V, base, step, result) ==
  \E p \in [0..n -> V] : PrefixFolds(p, n, base, step) /\ p[n] = result

\* it folds the sets of the first n places, as long as the results are in V.
Unfolds(it, n, V, base, step) ==
  /\ it[{}] = base
  /\ \A t \in SUBSET (1..n) : t # {} /\ it[t \ {Max(t)}] \in V
                                => it[t] = step[Max(t)][it[t \ {Max(t)}]]

\* Such a fold goes through the prefixes one by one.
LEMMA FoldOfPrefixes ==
  ASSUME NEW n \in Nat, NEW V, NEW base \in V, NEW step \in [1..n -> [V -> V]], NEW it,
         Unfolds(it, n, V, base, step)
  PROVE  FoldsTo(n, V, base, step, it[1..n])
  <1>1. ASSUME NEW i \in 1..n
        PROVE  1..i \in SUBSET (1..n) /\ 1..i # {} /\ Max(1..i) = i /\ (1..i) \ {i} = 1..(i - 1)
    <2>1. \A x \in 1..i : (\A y \in 1..i : x >= y) => x = i
      OBVIOUS
    <2>2. i \in 1..i /\ \A y \in 1..i : i >= y
      OBVIOUS
    <2>3. Max(1..i) \in 1..i /\ \A y \in 1..i : Max(1..i) >= y
      BY <2>2, Zenon DEF Max
    <2>4. Max(1..i) = i
      BY <2>1, <2>3
    <2>5. 1..i \in SUBSET (1..n) /\ (1..i) \ {i} = 1..(i - 1)
      OBVIOUS
    <2> QED BY <2>2, <2>4, <2>5
  <1> DEFINE Bad == {i \in 0..n : it[1..i] \notin V}
  <1>2. Bad = {}
    <2> SUFFICES ASSUME Bad # {} PROVE FALSE
      OBVIOUS
    <2>1. PICK i \in Bad : \A m \in Bad : i <= m
      <3>1. Bad \in SUBSET Nat
        OBVIOUS
      <3> HIDE DEF Bad
      <3> QED BY <3>1, LeastNumber
    <2>2. CASE i = 0
      <3>1. 1..0 = {}
        OBVIOUS
      <3> QED BY <2>1, <2>2, <3>1 DEF Unfolds
    <2>3. CASE i # 0
      <3>1. i \in 1..n /\ i - 1 \in 0..n /\ i - 1 \notin Bad
        BY <2>1, <2>3
      <3>2. it[1..(i - 1)] \in V
        BY <3>1
      <3>3. it[1..i] = step[i][it[1..(i - 1)]]
        BY <1>1, <3>1, <3>2 DEF Unfolds
      <3>4. step[i] \in [V -> V]
        BY <3>1
      <3> QED BY <2>1, <3>2, <3>3, <3>4
    <2> QED BY <2>2, <2>3
  <1> DEFINE p == [i \in 0..n |-> it[1..i]]
  <1>3. p \in [0..n -> V]
    BY <1>2
  <1>4. p[0] = base
    <2>1. 1..0 = {}
      OBVIOUS
    <2> QED BY <2>1 DEF Unfolds
  <1>5. ASSUME NEW i \in 1..n PROVE p[i] = step[i][p[i - 1]]
    <2>1. i - 1 \in 0..n /\ i \in 0..n
      OBVIOUS
    <2>2. it[1..(i - 1)] \in V
      BY <1>2, <2>1
    <2>3. it[1..i] = step[i][it[1..(i - 1)]]
      BY <1>1, <2>2 DEF Unfolds
    <2> QED BY <2>1, <2>3
  <1>6. p[n] = it[1..n]
    OBVIOUS
  <1> HIDE DEF p
  <1> QED BY <1>3, <1>4, <1>5, <1>6 DEF PrefixFolds, FoldsTo

\* What holds of the empty prefix, and of a prefix if it holds of the one before,
\* holds of all.
LEMMA PrefixInduction ==
  ASSUME NEW n \in Nat, NEW G \in SUBSET (0..n), 0 \in G,
         \A i \in 1..n : i - 1 \in G => i \in G
  PROVE  n \in G
  <1> DEFINE Bad == (0..n) \ G
  <1> SUFFICES ASSUME Bad # {} PROVE FALSE
    OBVIOUS
  <1>1. PICK i \in Bad : \A m \in Bad : i <= m
    <2>1. Bad \in SUBSET Nat
      OBVIOUS
    <2> HIDE DEF Bad
    <2> QED BY <2>1, LeastNumber
  <1>2. i \in 1..n /\ i - 1 \in 0..n /\ i - 1 \notin Bad
    BY <1>1
  <1> QED BY <1>1, <1>2

\* The steps of the folds stay in their sets: PlusType, GreedyStepType, AddLineType,
\* SegmentStepType, MergeStepType, SplitType.
LEMMA PlusType == \A a, b \in Nat : Plus(a, b) \in Nat
  BY DEF Plus

\* The sum of a text's lines: of each prefix, the sum of the one before and a line.
LEMMA SizePrefixes ==
  ASSUME NEW s \in Seq(Nat)
  PROVE  \E p \in [0..Len(s) -> Nat] :
           /\ p[0] = 0
           /\ \A i \in 1..Len(s) : p[i] = Plus(p[i - 1], s[i])
           /\ Size(s) = p[Len(s)]
  <1> DEFINE n == Len(s)
             S == 1..n
             Body(g) == [t \in SUBSET S |-> IF t = {} THEN 0
                                            ELSE Plus(g[t \ {Max(t)}], s[Max(t)])]
             it == CHOOSE g : g = Body(g)
             step == [i \in S |-> [v \in Nat |-> Plus(v, s[i])]]
  <1>0. n \in Nat /\ (\A i \in S : s[i] \in Nat) /\ Places(S) /\ 0 \in Nat
    BY ElementOfSeq, EmptySeq DEF Places
  <1>1. Size(s) = it[S]
    <2>1. DOMAIN s = S
      OBVIOUS
    <2> QED BY <2>1 DEF Size, FoldLeft, MapThenFoldSet
  <1>2. step \in [S -> [Nat -> Nat]]
    BY <1>0, PlusType
  <1>3. \A t \in SUBSET S : t # {} => Max(t) \in S
    BY <1>0, MaxIsElement
  <1>4. \E g : g = Body(g)
    <2>1. PICK f \in [SUBSET S -> Nat] : LeftFolds(f, S, 0, step)
      <3> HIDE DEF step, S
      <3> QED BY <1>0, <1>2, LeftFoldExists
    <2>2. ASSUME NEW t \in SUBSET S, t # {}
          PROVE  step[Max(t)][f[t \ {Max(t)}]] = Plus(f[t \ {Max(t)}], s[Max(t)])
      BY <1>3, <2>2
    <2> HIDE DEF step
    <2>3. f = [t \in SUBSET S |-> f[t]]
      OBVIOUS
    <2>4. f = Body(f)
      BY <2>1, <2>2, <2>3 DEF LeftFolds
    <2> QED BY <2>4
  <1>5. it = Body(it)
    BY <1>4
  <1> HIDE DEF it
  <1>6. Unfolds(it, n, Nat, 0, step)
    <2>1. it[{}] = 0
      BY <1>5
    <2>2. ASSUME NEW t \in SUBSET S, t # {}, it[t \ {Max(t)}] \in Nat
          PROVE  it[t] = step[Max(t)][it[t \ {Max(t)}]]
      BY <1>3, <1>5, <2>2
    <2> HIDE DEF step
    <2> QED BY <2>1, <2>2 DEF Unfolds
  <1>7. FoldsTo(n, Nat, 0, step, it[S])
    <2>1. step \in [1..n -> [Nat -> Nat]] /\ 0 \in Nat /\ n \in Nat
      BY <1>0, <1>2
    <2> HIDE DEF step, n
    <2> QED BY <1>6, <2>1, FoldOfPrefixes
  <1>8. PICK p \in [0..n -> Nat] : PrefixFolds(p, n, 0, step) /\ p[n] = it[S]
    BY <1>7 DEF FoldsTo
  <1>9. ASSUME NEW i \in S PROVE p[i] = Plus(p[i - 1], s[i])
    <2>1. p[i - 1] \in Nat
      BY <1>0
    <2>2. p[i] = step[i][p[i - 1]]
      <3> HIDE DEF step
      <3> QED BY <1>8 DEF PrefixFolds
    <2> QED BY <2>1, <2>2
  <1> QED BY <1>1, <1>8, <1>9 DEF PrefixFolds


\* The settings are numbers; no other hypothesis on them is used.
ChunkSizes == MaxLen \in Nat /\ Overlap \in Nat

\* A chunk of a section, and the states of the merge.
ChunkRanges == [start : Nat, end : Nat]
GreedyStates == [done : Seq(ChunkRanges), start : Nat, len : Nat]
NoChunksYet == [done |-> <<>>, start |-> 0, len |-> 0]

\* A step of the merge makes another state.
LEMMA GreedyStepType ==
  ASSUME ChunkSizes
  PROVE  \A v \in GreedyStates, x \in Nat : GreedyStep(v, x) \in GreedyStates
  <1> SUFFICES ASSUME NEW v \in GreedyStates, NEW x \in Nat
               PROVE  GreedyStep(v, x) \in GreedyStates
    OBVIOUS
  <1>1. v.done \in Seq(ChunkRanges) /\ v.start \in Nat /\ v.len \in Nat
    BY DEF GreedyStates
  <1>2. Append(v.done, [start |-> v.start, end |-> v.start + v.len]) \in Seq(ChunkRanges)
    BY <1>1, AppendProperties DEF ChunkRanges
  <1>3. Back(v.start + v.len) \in Nat
    BY <1>1 DEF Back, ChunkSizes
  <1> QED BY <1>1, <1>2, <1>3 DEF GreedyStep, GreedyStates

\* Merging pieces, one after the other.
LEMMA GreedyPrefixes ==
  ASSUME ChunkSizes, NEW s \in Seq(Nat)
  PROVE  \E p \in [0..Len(s) -> GreedyStates] :
           /\ p[0] = NoChunksYet
           /\ \A i \in 1..Len(s) : p[i] = GreedyStep(p[i - 1], s[i])
           /\ FoldLeft(GreedyStep, NoChunksYet, s) = p[Len(s)]
  <1> DEFINE n == Len(s)
             S == 1..n
             Body(g) == [t \in SUBSET S |-> IF t = {} THEN NoChunksYet
                                            ELSE GreedyStep(g[t \ {Max(t)}], s[Max(t)])]
             it == CHOOSE g : g = Body(g)
             step == [i \in S |-> [v \in GreedyStates |-> GreedyStep(v, s[i])]]
  <1>0. n \in Nat /\ (\A i \in S : s[i] \in Nat) /\ Places(S) /\ NoChunksYet \in GreedyStates
    BY ElementOfSeq, EmptySeq DEF Places, NoChunksYet, GreedyStates
  <1>1. FoldLeft(GreedyStep, NoChunksYet, s) = it[S]
    <2>1. DOMAIN s = S
      OBVIOUS
    <2> QED BY <2>1 DEF FoldLeft, MapThenFoldSet
  <1>2. step \in [S -> [GreedyStates -> GreedyStates]]
    BY <1>0, GreedyStepType
  <1>3. \A t \in SUBSET S : t # {} => Max(t) \in S
    BY <1>0, MaxIsElement
  <1>4. \E g : g = Body(g)
    <2>1. PICK f \in [SUBSET S -> GreedyStates] : LeftFolds(f, S, NoChunksYet, step)
      <3> HIDE DEF step, S
      <3> QED BY <1>0, <1>2, LeftFoldExists
    <2>2. ASSUME NEW t \in SUBSET S, t # {}
          PROVE  step[Max(t)][f[t \ {Max(t)}]] = GreedyStep(f[t \ {Max(t)}], s[Max(t)])
      BY <1>3, <2>2
    <2> HIDE DEF step
    <2>3. f = [t \in SUBSET S |-> f[t]]
      OBVIOUS
    <2>4. f = Body(f)
      BY <2>1, <2>2, <2>3 DEF LeftFolds
    <2> QED BY <2>4
  <1>5. it = Body(it)
    BY <1>4
  <1> HIDE DEF it
  <1>6. Unfolds(it, n, GreedyStates, NoChunksYet, step)
    <2>1. it[{}] = NoChunksYet
      BY <1>5
    <2>2. ASSUME NEW t \in SUBSET S, t # {}, it[t \ {Max(t)}] \in GreedyStates
          PROVE  it[t] = step[Max(t)][it[t \ {Max(t)}]]
      BY <1>3, <1>5, <2>2
    <2> HIDE DEF step
    <2> QED BY <2>1, <2>2 DEF Unfolds
  <1>7. FoldsTo(n, GreedyStates, NoChunksYet, step, it[S])
    <2>1. step \in [1..n -> [GreedyStates -> GreedyStates]] /\ NoChunksYet \in GreedyStates /\ n \in Nat
      BY <1>0, <1>2
    <2> HIDE DEF step, n
    <2> QED BY <1>6, <2>1, FoldOfPrefixes
  <1>8. PICK p \in [0..n -> GreedyStates] : PrefixFolds(p, n, NoChunksYet, step) /\ p[n] = it[S]
    BY <1>7 DEF FoldsTo
  <1>9. ASSUME NEW i \in S PROVE p[i] = GreedyStep(p[i - 1], s[i])
    <2>1. p[i - 1] \in GreedyStates
      BY <1>0
    <2>2. p[i] = step[i][p[i - 1]]
      <3> HIDE DEF step
      <3> QED BY <1>8 DEF PrefixFolds
    <2> QED BY <2>1, <2>2
  <1> QED BY <1>1, <1>8, <1>9 DEF PrefixFolds

\* Where the next chunk begins.
Start(r) == IF r = <<>> THEN 0 ELSE Back(r[Len(r)].end)

\* What the chunks have taken of the pieces, if every one is Overlap short.
Reach(r) == IF r = <<>> THEN 0 ELSE r[Len(r)].end + Overlap * (Len(r) - 1)

\* No chunk but the last ends within the first Overlap characters.
LongEnough(r) == \A i \in 1..(Len(r) - 1) : r[i].end >= Overlap

\* The first chunk begins at the start, every other one Overlap characters before the end of
\* the one before it.
Chained(r) ==
  /\ \A i \in 1..Len(r) : r[i].start < r[i].end
  /\ \A i \in 1..Len(r) : r[i].start = IF i = 1 THEN 0 ELSE Back(r[i - 1].end)

\* A chunk's length is MaxLen at most, or one piece's.
Fits(len, pieces) == len <= MaxLen \/ \E k \in 1..Len(pieces) : len = pieces[k]
AllFit(r, pieces) == \A i \in 1..Len(r) : Fits(r[i].end - r[i].start, pieces)

\* What is true of the merge after some of the pieces, total characters of them.
Consistent(v, total, pieces) ==
  /\ Chained(v.done) /\ AllFit(v.done, pieces)
  /\ v.start = Start(v.done)
  /\ Fits(v.len, pieces)
  /\ total <= v.len + Reach(v.done)
  /\ LongEnough(v.done) => total = v.len + Reach(v.done)

\* The open chunk may be closed at any time.
LEMMA Close ==
  ASSUME ChunkSizes, NEW v \in GreedyStates, NEW total \in Nat, NEW pieces \in Seq(Nat),
         Consistent(v, total, pieces), v.len > 0,
         NEW r, r = Append(v.done, [start |-> v.start, end |-> v.start + v.len])
  PROVE  /\ r \in Seq(ChunkRanges) /\ r # <<>>
         /\ Chained(r) /\ AllFit(r, pieces)
         /\ total <= Reach(r)
         /\ LongEnough(r) => total = Reach(r)
         /\ Start(r) = Back(v.start + v.len)
  <1> DEFINE d == v.done
             x == [start |-> v.start, end |-> v.start + v.len]
             L == Len(d)
  <1>0. /\ d \in Seq(ChunkRanges) /\ v.start \in Nat /\ v.len \in Nat
        /\ x \in ChunkRanges /\ x.start = v.start /\ x.end = v.start + v.len
        /\ Overlap \in Nat /\ MaxLen \in Nat
    BY DEF GreedyStates, ChunkRanges, ChunkSizes
  <1>1. L \in Nat /\ \A i \in 1..L : d[i] \in ChunkRanges
    BY <1>0, ElementOfSeq
  <1>2. /\ r \in Seq(ChunkRanges) /\ Len(r) = L + 1 /\ r[L + 1] = x
        /\ \A i \in 1..L : r[i] = d[i]
    <2> HIDE DEF x, d
    <2> QED BY <1>0, AppendProperties DEF d, x
  <1>3. r # <<>> /\ (d = <<>> <=> L = 0)
    BY <1>0, <1>1, <1>2, EmptySeq
  <1>c. /\ Chained(d) /\ AllFit(d, pieces) /\ v.start = Start(d) /\ Fits(v.len, pieces)
        /\ total <= v.len + Reach(d) /\ (LongEnough(d) => total = v.len + Reach(d))
    BY DEF Consistent
  <1>e. \A i \in 1..L : d[i].end \in Nat /\ d[i].start \in Nat
    BY <1>1 DEF ChunkRanges
  <1> HIDE DEF d, x
  <1>4. Start(r) = Back(v.start + v.len) /\ Reach(r) = v.start + v.len + Overlap * L
    <2>1. r[Len(r)].end = v.start + v.len /\ Len(r) - 1 = L
      BY <1>0, <1>1, <1>2
    <2> QED BY <1>3, <2>1 DEF Start, Reach
  <1>5. Chained(r)
    <2>1. ASSUME NEW i \in 1..Len(r) PROVE r[i].start < r[i].end
      <3>1. CASE i = L + 1
        BY <1>0, <1>2, <3>1
      <3>2. CASE i # L + 1
        <4>1. i \in 1..L
          BY <1>1, <1>2, <3>2
        <4> QED BY <1>2, <1>c, <4>1 DEF Chained
      <3> QED BY <3>1, <3>2
    <2>2. ASSUME NEW i \in 1..Len(r)
          PROVE  r[i].start = IF i = 1 THEN 0 ELSE Back(r[i - 1].end)
      <3>1. CASE i = L + 1
        <4>1. r[i].start = Start(d)
          BY <1>0, <1>2, <1>c, <3>1
        <4>2. i # 1 => i - 1 = L /\ L \in 1..L
          BY <1>1, <3>1
        <4> QED BY <1>2, <1>3, <3>1, <4>1, <4>2 DEF Start
      <3>2. CASE i # L + 1
        <4>1. i \in 1..L /\ (i # 1 => i - 1 \in 1..L)
          BY <1>1, <1>2, <3>2
        <4> QED BY <1>2, <1>c, <4>1 DEF Chained
      <3> QED BY <3>1, <3>2
    <2> QED BY <2>1, <2>2 DEF Chained
  <1>6. AllFit(r, pieces)
    <2> SUFFICES ASSUME NEW i \in 1..Len(r) PROVE Fits(r[i].end - r[i].start, pieces)
      BY DEF AllFit
    <2>1. CASE i = L + 1
      <3>1. r[i].end - r[i].start = v.len
        BY <1>0, <1>2, <2>1
      <3> QED BY <1>c, <3>1
    <2>2. CASE i # L + 1
      <3>1. i \in 1..L
        BY <1>1, <1>2, <2>2
      <3> QED BY <1>2, <1>c, <3>1 DEF AllFit
    <2> QED BY <2>1, <2>2
  <1>7. total <= Reach(r) /\ (LongEnough(r) => total = Reach(r))
    <2>1. CASE L = 0
      <3>1. Reach(d) = 0 /\ v.start = 0 /\ LongEnough(d) /\ Overlap * L = 0
        BY <1>0, <1>3, <1>c, <2>1 DEF Reach, Start, LongEnough
      <3> QED BY <1>0, <1>4, <1>c, <3>1
    <2>2. CASE L # 0
      <3>1. L \in 1..L /\ d # <<>>
        BY <1>1, <1>3, <2>2
      <3>2. PICK last \in Nat : last = d[L].end
        BY <1>e, <3>1
      <3>3. v.start = Back(last) /\ Reach(d) = last + Overlap * (L - 1)
        BY <1>c, <3>1, <3>2 DEF Start, Reach
      <3>4. Overlap * L = Overlap * (L - 1) + Overlap /\ Overlap * (L - 1) \in Nat
        BY <1>0, <1>1, <2>2
      <3>5. last <= v.start + Overlap /\ (last >= Overlap => last = v.start + Overlap)
        BY <1>0, <3>3 DEF Back
      <3>6. LongEnough(r) => LongEnough(d) /\ last >= Overlap
        <4>1. \A i \in 1..(Len(d) - 1) : i \in 1..(Len(r) - 1) /\ r[i] = d[i]
          BY <1>1, <1>2
        <4>2. L \in 1..(Len(r) - 1) /\ r[L] = d[L]
          BY <1>1, <1>2, <3>1
        <4> QED BY <3>2, <4>1, <4>2 DEF LongEnough
      <3> QED BY <1>0, <1>4, <1>c, <3>2, <3>3, <3>4, <3>5, <3>6
    <2> QED BY <2>1, <2>2
  <1> QED BY <1>2, <1>3, <1>4, <1>5, <1>6, <1>7

\* The next piece is taken, into the open chunk or, when that is closed, a new one.
LEMMA GreedyStepConsistent ==
  ASSUME ChunkSizes, NEW v \in GreedyStates, NEW total \in Nat, NEW pieces \in Seq(Nat),
         Consistent(v, total, pieces), NEW i \in 1..Len(pieces)
  PROVE  Consistent(GreedyStep(v, pieces[i]), total + pieces[i], pieces)
  <1> DEFINE r == Append(v.done, [start |-> v.start, end |-> v.start + v.len])
             w == GreedyStep(v, pieces[i])
  <1>0. /\ pieces[i] \in Nat /\ v.start \in Nat /\ v.len \in Nat /\ v.done \in Seq(ChunkRanges)
        /\ Overlap \in Nat /\ MaxLen \in Nat
    BY ElementOfSeq DEF GreedyStates, ChunkSizes
  <1>1. CASE v.len + pieces[i] > MaxLen /\ v.len > 0
    <2>1. /\ r \in Seq(ChunkRanges) /\ r # <<>> /\ Chained(r) /\ AllFit(r, pieces)
          /\ total <= Reach(r) /\ (LongEnough(r) => total = Reach(r))
          /\ Start(r) = Back(v.start + v.len)
      <3>1. PICK x : x = r
        OBVIOUS
      <3>2. x = Append(v.done, [start |-> v.start, end |-> v.start + v.len])
        BY <3>1
      <3> HIDE DEF r
      <3> QED BY <1>1, <3>1, <3>2, Close
    <2>w. w = [done |-> r, start |-> Back(v.start + v.len), len |-> pieces[i]]
      BY <1>1, Zenon DEF GreedyStep
    <2>2. w.done = r /\ w.start = Back(v.start + v.len) /\ w.len = pieces[i]
      <3> HIDE DEF r, w
      <3> QED BY <2>w
    <2>3. Fits(pieces[i], pieces)
      BY DEF Fits
    <2>4. Reach(r) \in Int
      <3>1. Len(r) \in 1..Len(r) /\ r[Len(r)] \in ChunkRanges
        <4> HIDE DEF r
        <4>1. Len(r) \in Nat \ {0}
          BY <2>1, EmptySeq
        <4> QED BY <2>1, <4>1, ElementOfSeq
      <3> HIDE DEF r
      <3> QED BY <1>0, <2>1, <3>1 DEF Reach, ChunkRanges
    <2> HIDE DEF r, w
    <2>5. /\ total + pieces[i] <= w.len + Reach(w.done)
          /\ LongEnough(w.done) => total + pieces[i] = w.len + Reach(w.done)
      BY <1>0, <2>1, <2>2, <2>4
    <2>6. Consistent(w, total + pieces[i], pieces)
      BY <2>1, <2>2, <2>3, <2>5 DEF Consistent
    <2> QED BY <2>6 DEF w
  <1>2. CASE ~(v.len + pieces[i] > MaxLen /\ v.len > 0)
    <2>1. w.done = v.done /\ w.start = v.start /\ w.len = v.len + pieces[i]
      BY <1>2 DEF GreedyStep, GreedyStates
    <2>2. Fits(v.len + pieces[i], pieces)
      BY <1>0, <1>2 DEF Fits
    <2>3. Reach(v.done) \in Int
      <3>1. v.done # <<>> => Len(v.done) \in 1..Len(v.done) /\ v.done[Len(v.done)] \in ChunkRanges
        <4>1. v.done # <<>> => Len(v.done) \in Nat \ {0}
          BY <1>0, EmptySeq
        <4> QED BY <1>0, <4>1, ElementOfSeq
      <3> QED BY <1>0, <3>1 DEF Reach, ChunkRanges
    <2> HIDE DEF w
    <2>4. /\ total + pieces[i] <= w.len + Reach(w.done)
          /\ LongEnough(w.done) => total + pieces[i] = w.len + Reach(w.done)
      BY <1>0, <2>1, <2>3 DEF Consistent
    <2>5. Consistent(w, total + pieces[i], pieces)
      BY <2>1, <2>2, <2>4 DEF Consistent
    <2> QED BY <2>5 DEF w
  <1> QED BY <1>1, <1>2

\* So it is true of the merge of all the pieces.
LEMMA GreedyConsistent ==
  ASSUME ChunkSizes, NEW pieces \in Seq(Nat)
  PROVE  /\ FoldLeft(GreedyStep, NoChunksYet, pieces) \in GreedyStates
         /\ Size(pieces) \in Nat
         /\ Consistent(FoldLeft(GreedyStep, NoChunksYet, pieces), Size(pieces), pieces)
  <1> DEFINE n == Len(pieces)
  <1>0. n \in Nat /\ \A i \in 1..n : pieces[i] \in Nat
    BY ElementOfSeq
  <1>1. PICK p \in [0..n -> GreedyStates] :
          /\ p[0] = NoChunksYet
          /\ \A i \in 1..n : p[i] = GreedyStep(p[i - 1], pieces[i])
          /\ FoldLeft(GreedyStep, NoChunksYet, pieces) = p[n]
    BY GreedyPrefixes
  <1>2. PICK q \in [0..n -> Nat] :
          /\ q[0] = 0
          /\ \A i \in 1..n : q[i] = Plus(q[i - 1], pieces[i])
          /\ Size(pieces) = q[n]
    BY SizePrefixes
  <1> DEFINE G == {i \in 0..n : Consistent(p[i], q[i], pieces)}
  <1>3. 0 \in G
    <2>1. Len(<<>>) = 0
      OBVIOUS
    <2>2. Consistent(NoChunksYet, 0, pieces)
      BY <2>1 DEF Consistent, NoChunksYet, Chained, AllFit, Start, Fits, Reach, LongEnough,
                  ChunkSizes
    <2> QED BY <1>0, <1>1, <1>2, <2>2
  <1>4. ASSUME NEW i \in 1..n, i - 1 \in G PROVE i \in G
    <2>1. p[i - 1] \in GreedyStates /\ q[i - 1] \in Nat /\ Consistent(p[i - 1], q[i - 1], pieces)
      BY <1>0, <1>4
    <2>2. p[i] = GreedyStep(p[i - 1], pieces[i]) /\ q[i] = q[i - 1] + pieces[i]
      BY <1>1, <1>2 DEF Plus
    <2>3. Consistent(p[i], q[i], pieces)
      BY <2>1, <2>2, GreedyStepConsistent
    <2> QED BY <1>0, <2>3
  <1>5. n \in G
    <2>1. G \in SUBSET (0..n)
      OBVIOUS
    <2> HIDE DEF G, n
    <2> QED BY <1>0, <1>3, <1>4, <2>1, PrefixInduction
  <1> QED BY <1>0, <1>1, <1>2, <1>5

-----------------------------------------------------------------------------
(* The size of a text. *)

\* Nothing else than its prefix sums has a text's size.
LEMMA SizeUnique ==
  ASSUME NEW s \in Seq(Nat), NEW q, q[0] = 0, \A i \in 1..Len(s) : q[i] = q[i - 1] + s[i]
  PROVE  Size(s) = q[Len(s)]
  <1> DEFINE n == Len(s)
  <1>0. n \in Nat /\ \A i \in 1..n : s[i] \in Nat
    BY ElementOfSeq
  <1>1. PICK p \in [0..n -> Nat] :
          /\ p[0] = 0 /\ \A i \in 1..n : p[i] = Plus(p[i - 1], s[i])
          /\ Size(s) = p[n]
    BY SizePrefixes
  <1> DEFINE G == {i \in 0..n : p[i] = q[i]}
  <1>2. 0 \in G
    BY <1>0, <1>1
  <1>3. ASSUME NEW i \in 1..n, i - 1 \in G PROVE i \in G
    BY <1>0, <1>1, <1>3 DEF Plus
  <1>4. n \in G
    <2>1. G \in SUBSET (0..n)
      OBVIOUS
    <2> HIDE DEF G, n
    <2> QED BY <1>0, <1>2, <1>3, <2>1, PrefixInduction
  <1> QED BY <1>1, <1>4

\* Sizes are numbers; that of no line is 0, and that of one its length.
LEMMA SizeType == \A s \in Seq(Nat) : Size(s) \in Nat
  <1> SUFFICES ASSUME NEW s \in Seq(Nat) PROVE Size(s) \in Nat
    OBVIOUS
  <1>1. PICK p \in [0..Len(s) -> Nat] : Size(s) = p[Len(s)]
    BY SizePrefixes
  <1> QED BY <1>1

\* No line.
LEMMA SizeEmpty == Size(<<>>) = 0
  <1>1. <<>> \in Seq(Nat) /\ Len(<<>>) = 0
    BY EmptySeq
  <1>2. PICK p \in [0..Len(<<>>) -> Nat] : p[0] = 0 /\ Size(<<>>) = p[Len(<<>>)]
    BY <1>1, SizePrefixes
  <1> QED BY <1>1, <1>2

\* Sizes of texts put together.
LEMMA SizeConcat ==
  ASSUME NEW a \in Seq(Nat), NEW b \in Seq(Nat)
  PROVE  Size(a \o b) = Size(a) + Size(b)
  <1>0. Len(a) \in Nat /\ Len(b) \in Nat
    OBVIOUS
  <1>1. PICK p \in [0..Len(a) -> Nat] :
          /\ p[0] = 0 /\ \A i \in 1..Len(a) : p[i] = Plus(p[i - 1], a[i])
          /\ Size(a) = p[Len(a)]
    BY SizePrefixes
  <1>2. PICK r \in [0..Len(b) -> Nat] :
          /\ r[0] = 0 /\ \A i \in 1..Len(b) : r[i] = Plus(r[i - 1], b[i])
          /\ Size(b) = r[Len(b)]
    BY SizePrefixes
  <1>3. /\ a \o b \in Seq(Nat) /\ Len(a \o b) = Len(a) + Len(b)
        /\ \A i \in 1..(Len(a) + Len(b)) :
             (a \o b)[i] = IF i <= Len(a) THEN a[i] ELSE b[i - Len(a)]
    BY ConcatProperties
  <1> DEFINE q == [i \in 0..(Len(a) + Len(b)) |->
                     IF i <= Len(a) THEN p[i] ELSE Size(a) + r[i - Len(a)]]
  <1>4. q[0] = 0
    BY <1>0, <1>1
  <1>5. ASSUME NEW i \in 1..Len(a \o b) PROVE q[i] = q[i - 1] + (a \o b)[i]
    <2>1. i \in 1..(Len(a) + Len(b)) /\ i - 1 \in 0..(Len(a) + Len(b)) /\ i \in 0..(Len(a) + Len(b))
      BY <1>0, <1>3
    <2>2. CASE i <= Len(a)
      <3>1. i \in 1..Len(a) /\ i - 1 <= Len(a)
        BY <1>0, <2>1, <2>2
      <3>2. p[i] = p[i - 1] + a[i]
        BY <1>1, <3>1 DEF Plus
      <3> QED BY <1>3, <2>1, <2>2, <3>1, <3>2
    <2>3. CASE ~(i <= Len(a))
      <3> DEFINE j == i - Len(a)
      <3>1. j \in 1..Len(b) /\ j - 1 \in 0..Len(b) /\ j - 1 = i - 1 - Len(a)
        BY <1>0, <2>1, <2>3
      <3>2. r[j] = r[j - 1] + b[j] /\ r[j - 1] \in Nat /\ b[j] \in Nat
        BY <1>2, <3>1, ElementOfSeq DEF Plus
      <3>3. (a \o b)[i] = b[j] /\ q[i] = Size(a) + r[j]
        BY <1>3, <2>1, <2>3
      <3>4. q[i - 1] = Size(a) + r[j - 1]
        <4>1. CASE i - 1 <= Len(a)
          <5>1. j - 1 = 0 /\ i - 1 = Len(a)
            BY <1>0, <2>1, <2>3, <4>1
          <5>2. Size(a) \in Nat
            BY SizeType
          <5> QED BY <1>1, <1>2, <2>1, <4>1, <5>1, <5>2
        <4>2. CASE ~(i - 1 <= Len(a))
          BY <2>1, <3>1, <4>2
        <4> QED BY <4>1, <4>2
      <3>5. Size(a) \in Nat
        BY SizeType
      <3> HIDE DEF q, j
      <3> QED BY <3>2, <3>3, <3>4, <3>5
    <2> QED BY <2>2, <2>3
  <1>6. q[Len(a \o b)] = Size(a) + Size(b)
    <2>1. Len(a) + Len(b) \in 0..(Len(a) + Len(b))
      BY <1>0
    <2>2. CASE Len(b) = 0
      BY <1>0, <1>1, <1>2, <1>3, <2>1, <2>2
    <2>3. CASE Len(b) # 0
      <3>1. ~(Len(a) + Len(b) <= Len(a)) /\ Len(a) + Len(b) - Len(a) = Len(b)
        BY <1>0, <2>3
      <3> QED BY <1>2, <1>3, <2>1, <3>1
    <2> QED BY <2>2, <2>3
  <1> HIDE DEF q
  <1> QED BY <1>3, <1>4, <1>5, <1>6, SizeUnique

\* One line.
LEMMA SizeOne == ASSUME NEW x \in Nat PROVE Size(<<x>>) = x
  <1>1. <<x>> \in Seq(Nat) /\ Len(<<x>>) = 1 /\ <<x>>[1] = x
    OBVIOUS
  <1>2. PICK p \in [0..Len(<<x>>) -> Nat] :
          /\ p[0] = 0 /\ \A i \in 1..Len(<<x>>) : p[i] = Plus(p[i - 1], <<x>>[i])
          /\ Size(<<x>>) = p[Len(<<x>>)]
    BY <1>1, SizePrefixes
  <1>3. p[1] = Plus(p[1 - 1], <<x>>[1])
    BY <1>1, <1>2
  <1> QED BY <1>1, <1>2, <1>3 DEF Plus

\* A line more.
LEMMA SizeAppend ==
  ASSUME NEW s \in Seq(Nat), NEW x \in Nat
  PROVE  Size(Append(s, x)) = Size(s) + x
  <1>1. Append(s, x) = s \o <<x>> /\ <<x>> \in Seq(Nat)
    OBVIOUS
  <1> QED BY <1>1, SizeConcat, SizeOne

\* Two texts joined: a newline more, unless there is no first.
LEMMA SizeJoin ==
  ASSUME NEW a \in Seq(Nat), NEW b \in Seq(Nat)
  PROVE  /\ Join(a, b) \in Seq(Nat)
         /\ Size(Join(a, b)) = Size(a) + Size(b) + (IF a = <<>> THEN 0 ELSE 1)
         /\ Join(a, b) = <<>> => b = <<>>
  <1>1. CASE a = <<>>
    BY <1>1, SizeEmpty, SizeType DEF Join
  <1>2. CASE a # <<>>
    <2> DEFINE c == [a EXCEPT ![Len(a)] = a[Len(a)] + 1]
               n == Len(a)
    <2>1. n \in Nat /\ n \in 1..n /\ a[n] \in Nat
      <3>1. n \in Nat \ {0}
        BY <1>2, EmptySeq
      <3> QED BY <3>1, ElementOfSeq
    <2>2. a[n] + 1 \in Nat
      BY <2>1
    <2>3. /\ c \in Seq(Nat) /\ Len(c) = n
          /\ \A j \in 1..n : c[j] = IF j = n THEN a[n] + 1 ELSE a[j]
      BY <2>1, <2>2, ExceptSeq
    <2>4. Join(a, b) = c \o b
      BY <1>2 DEF Join
    <2>5. PICK p \in [0..n -> Nat] :
            /\ p[0] = 0 /\ \A i \in 1..n : p[i] = Plus(p[i - 1], a[i])
            /\ Size(a) = p[n]
      BY SizePrefixes
    <2> DEFINE q == [i \in 0..n |-> IF i = n THEN p[n] + 1 ELSE p[i]]
    <2> HIDE DEF c
    <2>6. q[0] = 0
      BY <2>1, <2>5
    <2>7. ASSUME NEW i \in 1..Len(c) PROVE q[i] = q[i - 1] + c[i]
      <3>1. i \in 1..n /\ i - 1 \in 0..n /\ i - 1 # n /\ i \in 0..n
        BY <2>1, <2>3
      <3>2. p[i] = p[i - 1] + a[i] /\ p[i - 1] \in Nat /\ a[i] \in Nat
        BY <2>5, <3>1, ElementOfSeq DEF Plus
      <3>3. c[i] = IF i = n THEN a[n] + 1 ELSE a[i]
        BY <2>3, <3>1
      <3>4. q[i - 1] = p[i - 1] /\ q[i] = IF i = n THEN p[n] + 1 ELSE p[i]
        BY <3>1
      <3> HIDE DEF q
      <3> QED BY <3>2, <3>3, <3>4
    <2>8. q[n] = Size(a) + 1
      BY <2>1, <2>5
    <2> HIDE DEF q, n
    <2>9. Size(c) = Size(a) + 1
      BY <2>3, <2>6, <2>7, <2>8, SizeUnique
    <2>10. c \o b \in Seq(Nat) /\ Size(c \o b) = Size(c) + Size(b)
      BY <2>3, SizeConcat, ConcatProperties
    <2>11. c \o b = <<>> => b = <<>>
      BY <2>3, ConcatSimplifications!concIsEmpty
    <2>12. Size(a) \in Nat /\ Size(b) \in Nat
      BY SizeType
    <2> QED BY <1>2, <2>4, <2>9, <2>10, <2>11, <2>12
  <1> QED BY <1>1, <1>2

-----------------------------------------------------------------------------
(* The folds over the lines and the segments of a section. *)

\* The lines of a section, and the states of the two folds that make segments.
DocumentLines == [kind : {"text", "blank", "heading", "fence"}, len : Nat]
SegmentStates == [fence : BOOLEAN, current : Seq(Nat), done : Seq(Seq(Nat))]
NoSegments == [fence |-> FALSE, current |-> <<>>, done |-> <<>>]
MergeStates == [pending : Seq(Nat), done : Seq(Seq(Nat))]
NothingMerged == [pending |-> <<>>, done |-> <<>>]

\* A line counted.
LEMMA AddLineType == \A n \in Nat, line \in DocumentLines : AddLine(n, line) \in Nat
  BY DEF AddLine, DocumentLines

\* A line joined to a text.
LEMMA LineJoined ==
  ASSUME NEW a \in Seq(Nat), NEW line \in DocumentLines
  PROVE  /\ Join(a, <<line.len>>) \in Seq(Nat) /\ Join(a, <<line.len>>) # <<>>
         /\ line.len \in Nat
         /\ Size(Join(a, <<line.len>>)) = Size(a) + line.len + (IF a = <<>> THEN 0 ELSE 1)
  <1>1. line.len \in Nat
    BY DEF DocumentLines
  <1>2. <<line.len>> \in Seq(Nat) /\ <<line.len>> # <<>> /\ Size(<<line.len>>) = line.len
    BY <1>1, SizeOne
  <1> QED BY <1>1, <1>2, SizeJoin

\* What a line does to the segments.
LEMMA SegmentStepCases ==
  ASSUME NEW v \in SegmentStates, NEW line \in DocumentLines
  PROVE  LET c == Join(v.current, <<line.len>>)
             w == SegmentStep(v, line)
         IN  /\ w \in SegmentStates
             /\ \/ w.current = <<>> /\ w.done = Append(v.done, c)
                \/ w.current = c /\ w.done = v.done
  <1> DEFINE fence == v.fence # (line.kind = "fence")
             c == Join(v.current, <<line.len>>)
             w == SegmentStep(v, line)
  <1>0. /\ v.current \in Seq(Nat) /\ v.done \in Seq(Seq(Nat)) /\ fence \in BOOLEAN
        /\ <<>> \in Seq(Nat)
    BY EmptySeq DEF SegmentStates
  <1>1. c \in Seq(Nat)
    BY <1>0, LineJoined
  <1>2. Append(v.done, c) \in Seq(Seq(Nat))
    BY <1>0, <1>1, AppendProperties
  <1>3. CASE ~fence /\ line.kind = "blank"
    <2>1. w = [fence |-> fence, current |-> <<>>, done |-> Append(v.done, c)]
      BY <1>3, Zenon DEF SegmentStep
    <2>2. w.current = <<>> /\ w.done = Append(v.done, c) /\ w \in SegmentStates
      <3> HIDE DEF w, c, fence
      <3> QED BY <1>0, <1>2, <2>1 DEF SegmentStates
    <2> QED BY <2>2
  <1>4. CASE ~(~fence /\ line.kind = "blank")
    <2>1. w = [fence |-> fence, current |-> c, done |-> v.done]
      BY <1>4, Zenon DEF SegmentStep
    <2>2. w.current = c /\ w.done = v.done /\ w \in SegmentStates
      <3> HIDE DEF w, c, fence
      <3> QED BY <1>0, <1>1, <2>1 DEF SegmentStates
    <2> QED BY <2>2
  <1> QED BY <1>3, <1>4

\* A line taken makes another state,
LEMMA SegmentStepType ==
  \A v \in SegmentStates, line \in DocumentLines : SegmentStep(v, line) \in SegmentStates
  BY SegmentStepCases

\* What a segment does to the merged ones.
LEMMA MergeStepCases ==
  ASSUME NEW v \in MergeStates, NEW x \in Seq(Nat)
  PROVE  LET w == MergeStep(v, x)
         IN  /\ w \in MergeStates
             /\ \/ Size(v.pending) = 0 /\ w.pending = x /\ w.done = v.done
                \/ Size(v.pending) # 0 /\ w.pending = Join(v.pending, x) /\ w.done = v.done
                \/ /\ Size(v.pending) # 0 /\ w.pending = x
                   /\ w.done = Append(v.done, v.pending)
  <1> DEFINE w == MergeStep(v, x)
             short == Size(v.pending) + Size(x) < Target
             next == IF Size(v.pending) = 0 THEN x ELSE Join(v.pending, x)
             closed == IF Size(v.pending) = 0 THEN v.done ELSE Append(v.done, v.pending)
  <1>0. v.pending \in Seq(Nat) /\ v.done \in Seq(Seq(Nat))
    BY DEF MergeStates
  <1>1. next \in Seq(Nat)
    BY <1>0, SizeJoin
  <1>2. closed \in Seq(Seq(Nat))
    BY <1>0, AppendProperties
  <1>3. CASE short
    <2>1. w = [v EXCEPT !.pending = next]
      BY <1>3, Zenon DEF MergeStep
    <2>2. w.pending = next /\ w.done = v.done /\ w \in MergeStates
      <3> HIDE DEF next, w
      <3> QED BY <1>1, <2>1 DEF MergeStates
    <2> QED BY <2>2
  <1>4. CASE ~short
    <2>1. w = [pending |-> x, done |-> closed]
      BY <1>4, Zenon DEF MergeStep
    <2>2. w.pending = x /\ w.done = closed /\ w \in MergeStates
      <3> HIDE DEF closed, w
      <3> QED BY <1>2, <2>1 DEF MergeStates
    <2> QED BY <2>2
  <1> QED BY <1>3, <1>4

\* so does a segment merged,
LEMMA MergeStepType == \A v \in MergeStates, x \in Seq(Nat) : MergeStep(v, x) \in MergeStates
  BY MergeStepCases

\* Cutting a segment does not change its size.
LEMMA SplitSize ==
  ASSUME NEW v \in Seq(Nat), NEW x \in Seq(Nat)
  PROVE  Split(v, x) \in Seq(Nat) /\ Size(Split(v, x)) = Size(v) + Size(x)
  <1> DEFINE cut == IF Size(x) > MaxLen THEN x ELSE <<Size(x)>>
  <1>1. cut \in Seq(Nat) /\ Size(cut) = Size(x)
    BY SizeType, SizeOne
  <1>2. Split(v, x) = v \o cut
    BY DEF Split
  <1> HIDE DEF cut
  <1> QED BY <1>1, <1>2, SizeConcat, ConcatProperties

\* and a segment cut.
LEMMA SplitType == \A v \in Seq(Nat), x \in Seq(Nat) : Split(v, x) \in Seq(Nat)
  BY SplitSize

\* The characters of the lines,
LEMMA LinesPrefixes ==
  ASSUME NEW s \in Seq(DocumentLines)
  PROVE  \E p \in [0..Len(s) -> Nat] :
           /\ p[0] = 0
           /\ \A i \in 1..Len(s) : p[i] = AddLine(p[i - 1], s[i])
           /\ FoldLeft(AddLine, 0, s) = p[Len(s)]
  <1> DEFINE n == Len(s)
             S == 1..n
             Body(g) == [t \in SUBSET S |-> IF t = {} THEN 0
                                            ELSE AddLine(g[t \ {Max(t)}], s[Max(t)])]
             it == CHOOSE g : g = Body(g)
             step == [i \in S |-> [v \in Nat |-> AddLine(v, s[i])]]
  <1>0. n \in Nat /\ (\A i \in S : s[i] \in DocumentLines) /\ Places(S) /\ 0 \in Nat
    BY ElementOfSeq, EmptySeq DEF Places
  <1>1. FoldLeft(AddLine, 0, s) = it[S]
    <2>1. DOMAIN s = S
      OBVIOUS
    <2> QED BY <2>1 DEF FoldLeft, MapThenFoldSet
  <1>2. step \in [S -> [Nat -> Nat]]
    BY <1>0, AddLineType
  <1>3. \A t \in SUBSET S : t # {} => Max(t) \in S
    BY <1>0, MaxIsElement
  <1>4. \E g : g = Body(g)
    <2>1. PICK f \in [SUBSET S -> Nat] : LeftFolds(f, S, 0, step)
      <3> HIDE DEF step, S
      <3> QED BY <1>0, <1>2, LeftFoldExists
    <2>2. ASSUME NEW t \in SUBSET S, t # {}
          PROVE  step[Max(t)][f[t \ {Max(t)}]] = AddLine(f[t \ {Max(t)}], s[Max(t)])
      BY <1>3, <2>2
    <2> HIDE DEF step
    <2>3. f = [t \in SUBSET S |-> f[t]]
      OBVIOUS
    <2>4. f = Body(f)
      BY <2>1, <2>2, <2>3 DEF LeftFolds
    <2> QED BY <2>4
  <1>5. it = Body(it)
    BY <1>4
  <1> HIDE DEF it
  <1>6. Unfolds(it, n, Nat, 0, step)
    <2>1. it[{}] = 0
      BY <1>5
    <2>2. ASSUME NEW t \in SUBSET S, t # {}, it[t \ {Max(t)}] \in Nat
          PROVE  it[t] = step[Max(t)][it[t \ {Max(t)}]]
      BY <1>3, <1>5, <2>2
    <2> HIDE DEF step
    <2> QED BY <2>1, <2>2 DEF Unfolds
  <1>7. FoldsTo(n, Nat, 0, step, it[S])
    <2>1. step \in [1..n -> [Nat -> Nat]] /\ 0 \in Nat /\ n \in Nat
      BY <1>0, <1>2
    <2> HIDE DEF step, n
    <2> QED BY <1>6, <2>1, FoldOfPrefixes
  <1>8. PICK p \in [0..n -> Nat] : PrefixFolds(p, n, 0, step) /\ p[n] = it[S]
    BY <1>7 DEF FoldsTo
  <1>9. ASSUME NEW i \in S PROVE p[i] = AddLine(p[i - 1], s[i])
    <2>1. p[i - 1] \in Nat
      <3>1. i - 1 \in 0..n
        BY <1>0
      <3> HIDE DEF n
      <3> QED BY <3>1
    <2>2. p[i] = step[i][p[i - 1]]
      <3> HIDE DEF step
      <3> QED BY <1>8 DEF PrefixFolds
    <2> QED BY <2>1, <2>2
  <1> QED BY <1>1, <1>8, <1>9 DEF PrefixFolds

\* the segments,
LEMMA SegmentPrefixes ==
  ASSUME NEW s \in Seq(DocumentLines)
  PROVE  \E p \in [0..Len(s) -> SegmentStates] :
           /\ p[0] = NoSegments
           /\ \A i \in 1..Len(s) : p[i] = SegmentStep(p[i - 1], s[i])
           /\ FoldLeft(SegmentStep, NoSegments, s) = p[Len(s)]
  <1> DEFINE n == Len(s)
             S == 1..n
             Body(g) == [t \in SUBSET S |-> IF t = {} THEN NoSegments
                                            ELSE SegmentStep(g[t \ {Max(t)}], s[Max(t)])]
             it == CHOOSE g : g = Body(g)
             step == [i \in S |-> [v \in SegmentStates |-> SegmentStep(v, s[i])]]
  <1>0. n \in Nat /\ (\A i \in S : s[i] \in DocumentLines) /\ Places(S) /\ NoSegments \in SegmentStates
    BY ElementOfSeq, EmptySeq DEF Places, NoSegments, SegmentStates
  <1>1. FoldLeft(SegmentStep, NoSegments, s) = it[S]
    <2>1. DOMAIN s = S
      OBVIOUS
    <2> QED BY <2>1 DEF FoldLeft, MapThenFoldSet
  <1>2. step \in [S -> [SegmentStates -> SegmentStates]]
    BY <1>0, SegmentStepType
  <1>3. \A t \in SUBSET S : t # {} => Max(t) \in S
    BY <1>0, MaxIsElement
  <1>4. \E g : g = Body(g)
    <2>1. PICK f \in [SUBSET S -> SegmentStates] : LeftFolds(f, S, NoSegments, step)
      <3> HIDE DEF step, S
      <3> QED BY <1>0, <1>2, LeftFoldExists
    <2>2. ASSUME NEW t \in SUBSET S, t # {}
          PROVE  step[Max(t)][f[t \ {Max(t)}]] = SegmentStep(f[t \ {Max(t)}], s[Max(t)])
      BY <1>3, <2>2
    <2> HIDE DEF step
    <2>3. f = [t \in SUBSET S |-> f[t]]
      OBVIOUS
    <2>4. f = Body(f)
      BY <2>1, <2>2, <2>3 DEF LeftFolds
    <2> QED BY <2>4
  <1>5. it = Body(it)
    BY <1>4
  <1> HIDE DEF it
  <1>6. Unfolds(it, n, SegmentStates, NoSegments, step)
    <2>1. it[{}] = NoSegments
      BY <1>5
    <2>2. ASSUME NEW t \in SUBSET S, t # {}, it[t \ {Max(t)}] \in SegmentStates
          PROVE  it[t] = step[Max(t)][it[t \ {Max(t)}]]
      BY <1>3, <1>5, <2>2
    <2> HIDE DEF step
    <2> QED BY <2>1, <2>2 DEF Unfolds
  <1>7. FoldsTo(n, SegmentStates, NoSegments, step, it[S])
    <2>1. step \in [1..n -> [SegmentStates -> SegmentStates]] /\ NoSegments \in SegmentStates /\ n \in Nat
      BY <1>0, <1>2
    <2> HIDE DEF step, n
    <2> QED BY <1>6, <2>1, FoldOfPrefixes
  <1>8. PICK p \in [0..n -> SegmentStates] : PrefixFolds(p, n, NoSegments, step) /\ p[n] = it[S]
    BY <1>7 DEF FoldsTo
  <1>9. ASSUME NEW i \in S PROVE p[i] = SegmentStep(p[i - 1], s[i])
    <2>1. p[i - 1] \in SegmentStates
      <3>1. i - 1 \in 0..n
        BY <1>0
      <3> HIDE DEF n
      <3> QED BY <3>1
    <2>2. p[i] = step[i][p[i - 1]]
      <3> HIDE DEF step
      <3> QED BY <1>8 DEF PrefixFolds
    <2> QED BY <2>1, <2>2
  <1> QED BY <1>1, <1>8, <1>9 DEF PrefixFolds

\* the merged segments,
LEMMA MergePrefixes ==
  ASSUME NEW s \in Seq(Seq(Nat))
  PROVE  \E p \in [0..Len(s) -> MergeStates] :
           /\ p[0] = NothingMerged
           /\ \A i \in 1..Len(s) : p[i] = MergeStep(p[i - 1], s[i])
           /\ FoldLeft(MergeStep, NothingMerged, s) = p[Len(s)]
  <1> DEFINE n == Len(s)
             S == 1..n
             Body(g) == [t \in SUBSET S |-> IF t = {} THEN NothingMerged
                                            ELSE MergeStep(g[t \ {Max(t)}], s[Max(t)])]
             it == CHOOSE g : g = Body(g)
             step == [i \in S |-> [v \in MergeStates |-> MergeStep(v, s[i])]]
  <1>0. n \in Nat /\ (\A i \in S : s[i] \in Seq(Nat)) /\ Places(S) /\ NothingMerged \in MergeStates
    BY ElementOfSeq, EmptySeq DEF Places, NothingMerged, MergeStates
  <1>1. FoldLeft(MergeStep, NothingMerged, s) = it[S]
    <2>1. DOMAIN s = S
      OBVIOUS
    <2> QED BY <2>1 DEF FoldLeft, MapThenFoldSet
  <1>2. step \in [S -> [MergeStates -> MergeStates]]
    BY <1>0, MergeStepType
  <1>3. \A t \in SUBSET S : t # {} => Max(t) \in S
    BY <1>0, MaxIsElement
  <1>4. \E g : g = Body(g)
    <2>1. PICK f \in [SUBSET S -> MergeStates] : LeftFolds(f, S, NothingMerged, step)
      <3> HIDE DEF step, S
      <3> QED BY <1>0, <1>2, LeftFoldExists
    <2>2. ASSUME NEW t \in SUBSET S, t # {}
          PROVE  step[Max(t)][f[t \ {Max(t)}]] = MergeStep(f[t \ {Max(t)}], s[Max(t)])
      BY <1>3, <2>2
    <2> HIDE DEF step
    <2>3. f = [t \in SUBSET S |-> f[t]]
      OBVIOUS
    <2>4. f = Body(f)
      BY <2>1, <2>2, <2>3 DEF LeftFolds
    <2> QED BY <2>4
  <1>5. it = Body(it)
    BY <1>4
  <1> HIDE DEF it
  <1>6. Unfolds(it, n, MergeStates, NothingMerged, step)
    <2>1. it[{}] = NothingMerged
      BY <1>5
    <2>2. ASSUME NEW t \in SUBSET S, t # {}, it[t \ {Max(t)}] \in MergeStates
          PROVE  it[t] = step[Max(t)][it[t \ {Max(t)}]]
      BY <1>3, <1>5, <2>2
    <2> HIDE DEF step
    <2> QED BY <2>1, <2>2 DEF Unfolds
  <1>7. FoldsTo(n, MergeStates, NothingMerged, step, it[S])
    <2>1. step \in [1..n -> [MergeStates -> MergeStates]] /\ NothingMerged \in MergeStates /\ n \in Nat
      BY <1>0, <1>2
    <2> HIDE DEF step, n
    <2> QED BY <1>6, <2>1, FoldOfPrefixes
  <1>8. PICK p \in [0..n -> MergeStates] : PrefixFolds(p, n, NothingMerged, step) /\ p[n] = it[S]
    BY <1>7 DEF FoldsTo
  <1>9. ASSUME NEW i \in S PROVE p[i] = MergeStep(p[i - 1], s[i])
    <2>1. p[i - 1] \in MergeStates
      <3>1. i - 1 \in 0..n
        BY <1>0
      <3> HIDE DEF n
      <3> QED BY <3>1
    <2>2. p[i] = step[i][p[i - 1]]
      <3> HIDE DEF step
      <3> QED BY <1>8 DEF PrefixFolds
    <2> QED BY <2>1, <2>2
  <1> QED BY <1>1, <1>8, <1>9 DEF PrefixFolds

\* and the pieces, prefix by prefix.
LEMMA SplitPrefixes ==
  ASSUME NEW s \in Seq(Seq(Nat))
  PROVE  \E p \in [0..Len(s) -> Seq(Nat)] :
           /\ p[0] = <<>>
           /\ \A i \in 1..Len(s) : p[i] = Split(p[i - 1], s[i])
           /\ Pieces(s) = p[Len(s)]
  <1> DEFINE n == Len(s)
             S == 1..n
             Body(g) == [t \in SUBSET S |-> IF t = {} THEN <<>>
                                            ELSE Split(g[t \ {Max(t)}], s[Max(t)])]
             it == CHOOSE g : g = Body(g)
             step == [i \in S |-> [v \in Seq(Nat) |-> Split(v, s[i])]]
  <1>0. n \in Nat /\ (\A i \in S : s[i] \in Seq(Nat)) /\ Places(S) /\ <<>> \in Seq(Nat)
    BY ElementOfSeq, EmptySeq DEF Places
  <1>1. Pieces(s) = it[S]
    <2>1. DOMAIN s = S
      OBVIOUS
    <2> QED BY <2>1 DEF Pieces, FoldLeft, MapThenFoldSet
  <1>2. step \in [S -> [Seq(Nat) -> Seq(Nat)]]
    BY <1>0, SplitType
  <1>3. \A t \in SUBSET S : t # {} => Max(t) \in S
    BY <1>0, MaxIsElement
  <1>4. \E g : g = Body(g)
    <2>1. PICK f \in [SUBSET S -> Seq(Nat)] : LeftFolds(f, S, <<>>, step)
      <3> HIDE DEF step, S
      <3> QED BY <1>0, <1>2, LeftFoldExists
    <2>2. ASSUME NEW t \in SUBSET S, t # {}
          PROVE  step[Max(t)][f[t \ {Max(t)}]] = Split(f[t \ {Max(t)}], s[Max(t)])
      BY <1>3, <2>2
    <2> HIDE DEF step
    <2>3. f = [t \in SUBSET S |-> f[t]]
      OBVIOUS
    <2>4. f = Body(f)
      BY <2>1, <2>2, <2>3 DEF LeftFolds
    <2> QED BY <2>4
  <1>5. it = Body(it)
    BY <1>4
  <1> HIDE DEF it
  <1>6. Unfolds(it, n, Seq(Nat), <<>>, step)
    <2>1. it[{}] = <<>>
      BY <1>5
    <2>2. ASSUME NEW t \in SUBSET S, t # {}, it[t \ {Max(t)}] \in Seq(Nat)
          PROVE  it[t] = step[Max(t)][it[t \ {Max(t)}]]
      BY <1>3, <1>5, <2>2
    <2> HIDE DEF step
    <2> QED BY <2>1, <2>2 DEF Unfolds
  <1>7. FoldsTo(n, Seq(Nat), <<>>, step, it[S])
    <2>1. step \in [1..n -> [Seq(Nat) -> Seq(Nat)]] /\ <<>> \in Seq(Nat) /\ n \in Nat
      BY <1>0, <1>2
    <2> HIDE DEF step, n
    <2> QED BY <1>6, <2>1, FoldOfPrefixes
  <1>8. PICK p \in [0..n -> Seq(Nat)] : PrefixFolds(p, n, <<>>, step) /\ p[n] = it[S]
    BY <1>7 DEF FoldsTo
  <1>9. ASSUME NEW i \in S PROVE p[i] = Split(p[i - 1], s[i])
    <2>1. p[i - 1] \in Seq(Nat)
      <3>1. i - 1 \in 0..n
        BY <1>0
      <3> HIDE DEF n
      <3> QED BY <3>1
    <2>2. p[i] = step[i][p[i - 1]]
      <3> HIDE DEF step
      <3> QED BY <1>8 DEF PrefixFolds
    <2> QED BY <2>1, <2>2
  <1> QED BY <1>1, <1>8, <1>9 DEF PrefixFolds

-----------------------------------------------------------------------------
(* What cutting a section into pieces keeps of it. *)

\* The size of several texts.
Sizes(texts) == [j \in 1..Len(texts) |-> Size(texts[j])]
Total(texts) == Size(Sizes(texts))

\* Totals are numbers, that of no text 0; a text more adds its size.
LEMMA TotalType ==
  ASSUME NEW texts \in Seq(Seq(Nat))
  PROVE  Sizes(texts) \in Seq(Nat) /\ Len(Sizes(texts)) = Len(texts) /\ Total(texts) \in Nat
  <1>1. Len(texts) \in Nat /\ \A j \in 1..Len(texts) : Size(texts[j]) \in Nat
    BY ElementOfSeq, SizeType
  <1>2. Sizes(texts) \in Seq(Nat) /\ Len(Sizes(texts)) = Len(texts)
    BY <1>1 DEF Sizes
  <1> QED BY <1>2, SizeType DEF Total

\* No text.
LEMMA TotalEmpty == Total(<<>>) = 0
  <1>1. Sizes(<<>>) = <<>>
    BY DEF Sizes
  <1> QED BY <1>1, SizeEmpty DEF Total

\* A text more.
LEMMA TotalAppend ==
  ASSUME NEW texts \in Seq(Seq(Nat)), NEW x \in Seq(Nat)
  PROVE  Append(texts, x) \in Seq(Seq(Nat)) /\ Total(Append(texts, x)) = Total(texts) + Size(x)
  <1> DEFINE more == Append(texts, x)
             n == Len(texts)
  <1>1. /\ more \in Seq(Seq(Nat)) /\ Len(more) = n + 1 /\ more[n + 1] = x
        /\ \A j \in 1..n : more[j] = texts[j]
    BY AppendProperties
  <1>2. Sizes(texts) \in Seq(Nat) /\ Len(Sizes(texts)) = n /\ Size(x) \in Nat /\ n \in Nat
    BY TotalType, SizeType
  <1>3. Sizes(more) \in Seq(Nat) /\ Len(Sizes(more)) = n + 1
    <2> HIDE DEF more
    <2> QED BY <1>1, TotalType
  <1>4. /\ Append(Sizes(texts), Size(x)) \in Seq(Nat)
        /\ Len(Append(Sizes(texts), Size(x))) = n + 1
        /\ Append(Sizes(texts), Size(x))[n + 1] = Size(x)
        /\ \A j \in 1..n : Append(Sizes(texts), Size(x))[j] = Sizes(texts)[j]
    BY <1>2, AppendProperties
  <1>5. ASSUME NEW j \in 1..(n + 1) PROVE Sizes(more)[j] = Append(Sizes(texts), Size(x))[j]
    <2>1. Sizes(more)[j] = Size(more[j])
      <3> HIDE DEF more
      <3> QED BY <1>1 DEF Sizes
    <2>2. CASE j = n + 1
      <3> HIDE DEF more
      <3> QED BY <1>1, <1>4, <2>1, <2>2
    <2>3. CASE j # n + 1
      <3>1. j \in 1..n
        BY <1>2, <2>3
      <3>2. Sizes(texts)[j] = Size(texts[j])
        BY <3>1 DEF Sizes
      <3> HIDE DEF more
      <3> QED BY <1>1, <1>4, <2>1, <3>1, <3>2
    <2> QED BY <2>2, <2>3
  <1> HIDE DEF more
  <1>6. Sizes(more) = Append(Sizes(texts), Size(x))
    BY <1>3, <1>4, <1>5, SeqEqual
  <1>7. Size(Append(Sizes(texts), Size(x))) = Size(Sizes(texts)) + Size(x)
    BY <1>2, SizeAppend
  <1> QED BY <1>1, <1>6, <1>7 DEF Total, more

\* Characters of the lines taken, a newline after each.
Counted(v) ==
  Total(v.done) + Len(v.done) + Size(v.current) + (IF v.current = <<>> THEN 0 ELSE 1)

\* A line taken is counted, with a newline.
LEMMA SegmentStepCounts ==
  ASSUME NEW v \in SegmentStates, NEW line \in DocumentLines
  PROVE  Counted(v) \in Nat /\ Counted(SegmentStep(v, line)) = Counted(v) + line.len + 1
  <1> DEFINE c == Join(v.current, <<line.len>>)
             w == SegmentStep(v, line)
  <1>0. v.current \in Seq(Nat) /\ v.done \in Seq(Seq(Nat))
    BY DEF SegmentStates
  <1>1. /\ Size(v.current) \in Nat /\ Total(v.done) \in Nat /\ Len(v.done) \in Nat
        /\ line.len \in Nat
    BY <1>0, SizeType, TotalType DEF DocumentLines
  <1>2. /\ c \in Seq(Nat) /\ c # <<>>
        /\ Size(c) = Size(v.current) + line.len + (IF v.current = <<>> THEN 0 ELSE 1)
    BY <1>0, LineJoined
  <1>3. \/ w.current = <<>> /\ w.done = Append(v.done, c)
        \/ w.current = c /\ w.done = v.done
    BY SegmentStepCases
  <1> HIDE DEF c, w
  <1>4. CASE w.current = <<>> /\ w.done = Append(v.done, c)
    <2>1. Total(w.done) = Total(v.done) + Size(c) /\ Len(w.done) = Len(v.done) + 1
      BY <1>0, <1>2, <1>4, TotalAppend, AppendProperties
    <2>2. Size(w.current) = 0
      BY <1>4, SizeEmpty
    <2>3. Counted(w) = Total(v.done) + Size(c) + Len(v.done) + 1
      BY <1>1, <1>2, <1>4, <2>1, <2>2, SizeType DEF Counted
    <2>4. Counted(v) = Total(v.done) + Len(v.done) + Size(v.current)
                         + (IF v.current = <<>> THEN 0 ELSE 1)
      BY DEF Counted
    <2>5. Counted(v) \in Nat /\ Counted(w) = Counted(v) + line.len + 1
      BY <1>1, <1>2, <2>3, <2>4
    <2> QED BY <2>5 DEF w
  <1>5. CASE w.current = c /\ w.done = v.done
    <2>1. Counted(w) = Total(v.done) + Len(v.done) + Size(c) + 1
      BY <1>1, <1>2, <1>5 DEF Counted
    <2>2. Counted(v) \in Nat /\ Counted(w) = Counted(v) + line.len + 1
      BY <1>1, <1>2, <2>1 DEF Counted
    <2> QED BY <2>2 DEF w
  <1> QED BY <1>3, <1>4, <1>5

\* The segments of a section are all of it but for the newlines between them.
LEMMA SegmentsKeepAll ==
  ASSUME NEW section \in Seq(DocumentLines), section # <<>>
  PROVE  /\ Segments(section) \in Seq(Seq(Nat)) /\ Segments(section) # <<>>
         /\ SectionSize(section) = Total(Segments(section)) + Len(Segments(section)) - 1
  <1> DEFINE n == Len(section)
  <1>0. n \in Nat /\ n # 0 /\ \A i \in 1..n : section[i] \in DocumentLines
    BY EmptySeq, ElementOfSeq
  <1>1. PICK p \in [0..n -> SegmentStates] :
          /\ p[0] = NoSegments
          /\ \A i \in 1..n : p[i] = SegmentStep(p[i - 1], section[i])
          /\ FoldLeft(SegmentStep, NoSegments, section) = p[n]
    BY SegmentPrefixes
  <1>2. PICK q \in [0..n -> Nat] :
          /\ q[0] = 0
          /\ \A i \in 1..n : q[i] = AddLine(q[i - 1], section[i])
          /\ FoldLeft(AddLine, 0, section) = q[n]
    BY LinesPrefixes
  <1> DEFINE G == {i \in 0..n : Counted(p[i]) = q[i] + i}
  <1>3. 0 \in G
    <2>1. Counted(NoSegments) = 0
      BY TotalEmpty, SizeEmpty, EmptySeq DEF Counted, NoSegments
    <2> QED BY <1>0, <1>1, <1>2, <2>1
  <1>4. ASSUME NEW i \in 1..n, i - 1 \in G PROVE i \in G
    <2>1. p[i - 1] \in SegmentStates /\ q[i - 1] \in Nat /\ section[i] \in DocumentLines
      BY <1>0, <1>4
    <2>2. Counted(SegmentStep(p[i - 1], section[i])) = Counted(p[i - 1]) + section[i].len + 1
      BY <2>1, SegmentStepCounts
    <2>3. section[i].len \in Nat
      BY <2>1 DEF DocumentLines
    <2>4. q[i] = q[i - 1] + section[i].len /\ p[i] = SegmentStep(p[i - 1], section[i])
      BY <1>1, <1>2 DEF AddLine
    <2>5. Counted(p[i - 1]) = q[i - 1] + (i - 1) /\ i \in 0..n
      BY <1>0, <1>4
    <2>6. Counted(p[i]) = q[i] + i
      BY <1>0, <2>1, <2>2, <2>3, <2>4, <2>5
    <2> QED BY <2>5, <2>6
  <1>5. n \in G
    <2>1. G \in SUBSET (0..n)
      OBVIOUS
    <2> HIDE DEF G, n
    <2> QED BY <1>0, <1>3, <1>4, <2>1, PrefixInduction
  <1> DEFINE v == p[n]
             segments == IF v.current = <<>> THEN v.done ELSE Append(v.done, v.current)
  <1>6. Segments(section) = segments
    BY <1>1 DEF Segments, NoSegments
  <1>7. /\ v.current \in Seq(Nat) /\ v.done \in Seq(Seq(Nat)) /\ q[n] \in Nat
        /\ Counted(v) = q[n] + n
    <2>1. v \in SegmentStates /\ q[n] \in Nat
      BY <1>0
    <2> QED BY <1>5, <2>1 DEF SegmentStates
  <1>8. SectionSize(section) = q[n] + n - 1
    BY <1>2 DEF SectionSize
  <1> HIDE DEF v
  <1>9. segments \in Seq(Seq(Nat)) /\ Total(segments) + Len(segments) = Counted(v)
    <2>1. Total(v.done) \in Nat /\ Size(v.current) \in Nat /\ Len(v.done) \in Nat
      BY <1>7, TotalType, SizeType
    <2>2. CASE v.current = <<>>
      BY <1>7, <2>1, <2>2, SizeEmpty DEF Counted
    <2>3. CASE v.current # <<>>
      <3>1. /\ Total(Append(v.done, v.current)) = Total(v.done) + Size(v.current)
            /\ Append(v.done, v.current) \in Seq(Seq(Nat))
            /\ Len(Append(v.done, v.current)) = Len(v.done) + 1
        BY <1>7, TotalAppend, AppendProperties
      <3> QED BY <2>1, <2>3, <3>1 DEF Counted
    <2> QED BY <2>2, <2>3
  <1> HIDE DEF segments
  <1>10. Total(segments) \in Nat /\ Len(segments) \in Nat
    BY <1>9, TotalType
  <1>11. segments # <<>>
    <2>1. Total(<<>>) + Len(<<>>) = 0
      BY TotalEmpty, EmptySeq
    <2> QED BY <1>0, <1>7, <1>9, <2>1
  <1> QED BY <1>0, <1>6, <1>7, <1>8, <1>9, <1>10, <1>11

\* Whether a text is pending, and the characters of the segments merged so far.
Flag(text) == IF Size(text) = 0 THEN 0 ELSE 1
Weight(v) == Size(v.pending) + Total(v.done)

\* A segment merged: nothing is lost, and a newline comes back for each one less.
LEMMA MergeStepWeighs ==
  ASSUME NEW v \in MergeStates, NEW x \in Seq(Nat)
  PROVE  /\ Weight(v) \in Nat /\ Len(v.done) \in Nat
         /\ Weight(MergeStep(v, x)) >= Weight(v) + Size(x)
         /\ Weight(MergeStep(v, x)) + Len(MergeStep(v, x).done) + Flag(MergeStep(v, x).pending)
              <= Weight(v) + Len(v.done) + Flag(v.pending) + Size(x) + 1
  <1> DEFINE w == MergeStep(v, x)
  <1>0. v.pending \in Seq(Nat) /\ v.done \in Seq(Seq(Nat))
    BY DEF MergeStates
  <1>1. /\ Size(v.pending) \in Nat /\ Total(v.done) \in Nat /\ Len(v.done) \in Nat
        /\ Size(x) \in Nat
    BY <1>0, SizeType, TotalType
  <1>2. \/ Size(v.pending) = 0 /\ w.pending = x /\ w.done = v.done
        \/ Size(v.pending) # 0 /\ w.pending = Join(v.pending, x) /\ w.done = v.done
        \/ Size(v.pending) # 0 /\ w.pending = x /\ w.done = Append(v.done, v.pending)
    BY MergeStepCases
  <1> HIDE DEF w
  <1>3. CASE Size(v.pending) = 0 /\ w.pending = x /\ w.done = v.done
    BY <1>1, <1>3 DEF Weight, Flag, w
  <1>4. CASE Size(v.pending) # 0 /\ w.pending = Join(v.pending, x) /\ w.done = v.done
    <2>1. Size(w.pending) = Size(v.pending) + Size(x) + 1
      <3>1. v.pending # <<>>
        BY <1>4, SizeEmpty
      <3> QED BY <1>0, <1>4, <3>1, SizeJoin
    <2> QED BY <1>1, <1>4, <2>1 DEF Weight, Flag, w
  <1>5. CASE Size(v.pending) # 0 /\ w.pending = x /\ w.done = Append(v.done, v.pending)
    <2>1. Total(w.done) = Total(v.done) + Size(v.pending) /\ Len(w.done) = Len(v.done) + 1
      BY <1>0, <1>5, TotalAppend, AppendProperties
    <2> QED BY <1>1, <1>5, <2>1 DEF Weight, Flag, w
  <1> QED BY <1>2, <1>3, <1>4, <1>5

\* Merging loses nothing; each segment less is a newline more at most.
LEMMA MergeKeepsAll ==
  ASSUME NEW segments \in Seq(Seq(Nat)), segments # <<>>
  PROVE  LET merged == MergeShort(segments)
         IN  /\ merged \in Seq(Seq(Nat)) /\ merged # <<>>
             /\ Total(merged) >= Total(segments)
             /\ Total(merged) + Len(merged) <= Total(segments) + Len(segments)
  <1> DEFINE n == Len(segments)
  <1>0. n \in Nat /\ n # 0 /\ \A i \in 1..n : segments[i] \in Seq(Nat)
    BY EmptySeq, ElementOfSeq
  <1>1. PICK p \in [0..n -> MergeStates] :
          /\ p[0] = NothingMerged
          /\ \A i \in 1..n : p[i] = MergeStep(p[i - 1], segments[i])
          /\ FoldLeft(MergeStep, NothingMerged, segments) = p[n]
    BY MergePrefixes
  <1>s. Sizes(segments) \in Seq(Nat) /\ Len(Sizes(segments)) = n /\ Total(segments) \in Nat
    BY TotalType
  <1>2. PICK q \in [0..n -> Nat] :
          /\ q[0] = 0
          /\ \A i \in 1..n : q[i] = Plus(q[i - 1], Sizes(segments)[i])
          /\ Total(segments) = q[n]
    BY <1>s, SizePrefixes DEF Total
  <1> DEFINE G == {i \in 0..n : /\ Weight(p[i]) >= q[i]
                                /\ Weight(p[i]) + Len(p[i].done) + Flag(p[i].pending) <= q[i] + i}
  <1>3. 0 \in G
    <2>1. /\ Weight(NothingMerged) = 0 /\ Flag(NothingMerged.pending) = 0
          /\ Len(NothingMerged.done) = 0
      BY TotalEmpty, SizeEmpty, EmptySeq DEF Weight, Flag, NothingMerged
    <2> QED BY <1>0, <1>1, <1>2, <2>1
  <1>4. ASSUME NEW i \in 1..n, i - 1 \in G PROVE i \in G
    <2> DEFINE u == p[i - 1]
               w == p[i]
    <2>1. /\ u \in MergeStates /\ q[i - 1] \in Nat /\ segments[i] \in Seq(Nat)
          /\ i \in 0..n /\ i - 1 \in 0..n /\ i \in Nat
      <3>1. i \in 0..n /\ i - 1 \in 0..n /\ i \in Nat
        BY <1>0
      <3> HIDE DEF n
      <3> QED BY <1>0, <3>1
    <2>2. w = MergeStep(u, segments[i]) /\ q[i] = q[i - 1] + Size(segments[i])
      BY <1>1, <1>2 DEF Plus, Sizes
    <2>3. w \in MergeStates
      <3> HIDE DEF n
      <3> QED BY <2>1
    <2>4. /\ Weight(u) >= q[i - 1]
          /\ Weight(u) + Len(u.done) + Flag(u.pending) <= q[i - 1] + (i - 1)
      BY <1>4
    <2>5. Size(segments[i]) \in Nat /\ Flag(u.pending) \in Nat /\ Flag(w.pending) \in Nat
      BY <2>1, SizeType DEF Flag
    <2> HIDE DEF u, w
    <2>6. /\ Weight(u) \in Nat /\ Len(u.done) \in Nat
          /\ Weight(w) >= Weight(u) + Size(segments[i])
          /\ Weight(w) + Len(w.done) + Flag(w.pending)
               <= Weight(u) + Len(u.done) + Flag(u.pending) + Size(segments[i]) + 1
      BY <2>1, <2>2, MergeStepWeighs
    <2>7. Weight(w) \in Nat /\ Len(w.done) \in Nat
      BY <2>1, <2>3, MergeStepWeighs
    <2>8. Weight(w) >= q[i] /\ Weight(w) + Len(w.done) + Flag(w.pending) <= q[i] + i
      <3>1. PICK a \in Nat : a = Weight(u)
        BY <2>6
      <3>2. PICK b \in Nat : b = Weight(w)
        BY <2>7
      <3>3. PICK x \in Nat : x = Size(segments[i])
        BY <2>5
      <3>4. PICK y \in Nat : y = q[i - 1]
        BY <2>1
      <3>5. q[i] = y + x /\ a >= y /\ b >= a + x
        BY <2>2, <2>4, <2>6, <3>1, <3>2, <3>3, <3>4
      <3>6. a + Len(u.done) + Flag(u.pending) <= y + (i - 1)
        BY <2>4, <3>1, <3>4
      <3>7. b + Len(w.done) + Flag(w.pending) <= a + Len(u.done) + Flag(u.pending) + x + 1
        BY <2>6, <3>1, <3>2, <3>3
      <3>8. b + Len(w.done) + Flag(w.pending) <= y + x + i
        <4>1. PICK c \in Nat : c = Len(u.done) + Flag(u.pending)
          BY <2>5, <2>6
        <4>2. PICK d \in Nat : d = Len(w.done) + Flag(w.pending)
          BY <2>5, <2>7
        <4>3. a + c <= y + (i - 1) /\ b + d <= a + c + x + 1
          <5>1. i \in Nat
            BY <2>1
          <5>2. a + c = a + Len(u.done) + Flag(u.pending)
            BY <2>5, <2>6, <4>1
          <5>3. b + d = b + Len(w.done) + Flag(w.pending)
            BY <2>5, <2>7, <4>2
          <5>4. a + c <= y + (i - 1)
            BY <3>6, <5>1, <5>2
          <5>5. b + d <= (a + c) + x + 1
            BY <3>7, <5>2, <5>3
          <5> QED BY <5>4, <5>5
        <4>4. b + d <= y + x + i
          BY <2>1, <4>3
        <4> QED BY <2>5, <2>7, <4>2, <4>4
      <3> QED BY <3>2, <3>5, <3>8
    <2> QED BY <2>1, <2>8 DEF w
  <1>5. n \in G
    <2>1. G \in SUBSET (0..n)
      OBVIOUS
    <2> HIDE DEF G, n
    <2> QED BY <1>0, <1>3, <1>4, <2>1, PrefixInduction
  <1> DEFINE v == p[n]
             merged == IF Size(v.pending) = 0 THEN v.done ELSE Append(v.done, v.pending)
  <1>6. MergeShort(segments) = IF merged = <<>> THEN segments ELSE merged
    BY <1>1 DEF MergeShort, NothingMerged
  <1>7. v.pending \in Seq(Nat) /\ v.done \in Seq(Seq(Nat))
    <2>1. n \in 0..n
      BY <1>0
    <2> HIDE DEF n
    <2> QED BY <2>1 DEF MergeStates
  <1>8. /\ Weight(v) >= Total(segments)
        /\ Weight(v) + Len(v.done) + Flag(v.pending) <= Total(segments) + n
    BY <1>2, <1>5
  <1> HIDE DEF v
  <1>9. /\ merged \in Seq(Seq(Nat)) /\ Total(merged) = Weight(v)
        /\ Len(merged) = Len(v.done) + Flag(v.pending)
    <2>1. Total(v.done) \in Nat /\ Size(v.pending) \in Nat /\ Len(v.done) \in Nat
      BY <1>7, TotalType, SizeType
    <2>2. CASE Size(v.pending) = 0
      BY <1>7, <2>1, <2>2 DEF Weight, Flag
    <2>3. CASE Size(v.pending) # 0
      <3>1. /\ Total(Append(v.done, v.pending)) = Total(v.done) + Size(v.pending)
            /\ Append(v.done, v.pending) \in Seq(Seq(Nat))
            /\ Len(Append(v.done, v.pending)) = Len(v.done) + 1
        BY <1>7, TotalAppend, AppendProperties
      <3> QED BY <2>1, <2>3, <3>1 DEF Weight, Flag
    <2> QED BY <2>2, <2>3
  <1> HIDE DEF merged
  <1>10. Total(merged) \in Nat /\ Len(merged) \in Nat /\ Len(v.done) \in Nat /\ Flag(v.pending) \in Nat
    <2>1. Flag(v.pending) \in Nat /\ Len(v.done) \in Nat
      BY <1>7 DEF Flag
    <2> QED BY <1>9, <2>1, TotalType
  <1>11. CASE merged = <<>>
    BY <1>0, <1>6, <1>11, <1>s
  <1>12. CASE merged # <<>>
    BY <1>0, <1>6, <1>8, <1>9, <1>10, <1>12, <1>s
  <1> QED BY <1>11, <1>12

\* Cutting segments into pieces does not change their size.
LEMMA PiecesKeepAll ==
  ASSUME NEW segments \in Seq(Seq(Nat))
  PROVE  Pieces(segments) \in Seq(Nat) /\ Size(Pieces(segments)) = Total(segments)
  <1> DEFINE n == Len(segments)
  <1>0. n \in Nat /\ \A i \in 1..n : segments[i] \in Seq(Nat)
    BY ElementOfSeq
  <1>1. PICK p \in [0..n -> Seq(Nat)] :
          /\ p[0] = <<>>
          /\ \A i \in 1..n : p[i] = Split(p[i - 1], segments[i])
          /\ Pieces(segments) = p[n]
    BY SplitPrefixes
  <1>s. Sizes(segments) \in Seq(Nat) /\ Len(Sizes(segments)) = n
    BY TotalType
  <1>2. PICK q \in [0..n -> Nat] :
          /\ q[0] = 0
          /\ \A i \in 1..n : q[i] = Plus(q[i - 1], Sizes(segments)[i])
          /\ Total(segments) = q[n]
    BY <1>s, SizePrefixes DEF Total
  <1> DEFINE G == {i \in 0..n : Size(p[i]) = q[i]}
  <1>3. 0 \in G
    BY <1>0, <1>1, <1>2, SizeEmpty
  <1>4. ASSUME NEW i \in 1..n, i - 1 \in G PROVE i \in G
    <2>1. p[i - 1] \in Seq(Nat) /\ segments[i] \in Seq(Nat) /\ i \in 0..n
      <3>1. i - 1 \in 0..n /\ i \in 0..n
        BY <1>0
      <3> HIDE DEF n
      <3> QED BY <1>0, <3>1
    <2>2. p[i] = Split(p[i - 1], segments[i]) /\ q[i] = q[i - 1] + Size(segments[i])
      BY <1>1, <1>2 DEF Plus, Sizes
    <2>3. Size(Split(p[i - 1], segments[i])) = Size(p[i - 1]) + Size(segments[i])
      BY <2>1, SplitSize
    <2> QED BY <1>4, <2>1, <2>2, <2>3
  <1>5. n \in G
    <2>1. G \in SUBSET (0..n)
      OBVIOUS
    <2> HIDE DEF G, n
    <2> QED BY <1>0, <1>3, <1>4, <2>1, PrefixInduction
  <1>6. p[n] \in Seq(Nat)
    <2>1. n \in 0..n
      BY <1>0
    <2> HIDE DEF n
    <2> QED BY <2>1
  <1> QED BY <1>1, <1>2, <1>5, <1>6

-----------------------------------------------------------------------------
(* The chunks of a section. *)

\* What _greedy_merge makes of any pieces: chunks that follow one another, none
\* longer than MaxLen unless one piece is, which reach as far as the pieces do if
\* Overlap characters are added for each chunk but the first, and no further unless
\* a chunk ends within the first Overlap characters.
LEMMA GreedyResult ==
  ASSUME ChunkSizes, NEW pieces \in Seq(Nat)
  PROVE  /\ Greedy(pieces) \in Seq(ChunkRanges)
         /\ Chained(Greedy(pieces)) /\ AllFit(Greedy(pieces), pieces)
         /\ Size(pieces) <= Reach(Greedy(pieces))
         /\ LongEnough(Greedy(pieces)) => Size(pieces) = Reach(Greedy(pieces))
  <1>1. PICK s : s = FoldLeft(GreedyStep, NoChunksYet, pieces)
    OBVIOUS
  <1>2. s \in GreedyStates /\ Size(pieces) \in Nat /\ Consistent(s, Size(pieces), pieces)
    BY <1>1, GreedyConsistent
  <1>3. Greedy(pieces) =
          IF s.len > 0 THEN Append(s.done, [start |-> s.start, end |-> s.start + s.len])
          ELSE s.done
    BY <1>1 DEF Greedy, NoChunksYet
  <1>4. CASE s.len > 0
    <2>1. Greedy(pieces) = Append(s.done, [start |-> s.start, end |-> s.start + s.len])
      BY <1>3, <1>4
    <2> QED BY <1>2, <1>4, <2>1, Close
  <1>5. CASE ~(s.len > 0)
    <2>1. Greedy(pieces) = s.done /\ s.len = 0 /\ s.done \in Seq(ChunkRanges)
      BY <1>2, <1>3, <1>5 DEF GreedyStates
    <2>2. Reach(s.done) \in Int
      <3>1. s.done # <<>> => Len(s.done) \in 1..Len(s.done) /\ s.done[Len(s.done)] \in ChunkRanges
        <4>1. s.done # <<>> => Len(s.done) \in Nat \ {0}
          BY <2>1, EmptySeq
        <4> QED BY <2>1, <4>1, ElementOfSeq
      <3> QED BY <2>1, <3>1 DEF Reach, ChunkRanges, ChunkSizes
    <2> QED BY <1>2, <2>1, <2>2 DEF Consistent
  <1> QED BY <1>4, <1>5

\* The pieces of a section.
SectionPieces(section) == Pieces(MergeShort(Segments(section)))

\* Its pieces hold every character of it but some of the newlines between segments.
LEMMA PiecesOfSection ==
  ASSUME NEW section \in Seq(DocumentLines), section # <<>>
  PROVE  /\ SectionPieces(section) \in Seq(Nat)
         /\ Size(SectionPieces(section)) \in Nat
         /\ Size(SectionPieces(section)) <= SectionSize(section)
         /\ SectionSize(section) \in Nat /\ Len(Segments(section)) \in Nat \ {0}
         /\ SectionSize(section)
              <= Size(SectionPieces(section)) + Len(Segments(section)) - 1
  <1>1. PICK segments : segments = Segments(section)
    OBVIOUS
  <1>2. /\ segments \in Seq(Seq(Nat)) /\ segments # <<>>
        /\ SectionSize(section) = Total(segments) + Len(segments) - 1
    BY <1>1, SegmentsKeepAll
  <1>3. PICK merged : merged = MergeShort(segments)
    OBVIOUS
  <1>4. /\ merged \in Seq(Seq(Nat)) /\ merged # <<>>
        /\ Total(merged) >= Total(segments)
        /\ Total(merged) + Len(merged) <= Total(segments) + Len(segments)
    BY <1>2, <1>3, MergeKeepsAll
  <1>5. SectionPieces(section) \in Seq(Nat) /\ Size(SectionPieces(section)) = Total(merged)
    BY <1>1, <1>3, <1>4, PiecesKeepAll DEF SectionPieces
  <1>6. /\ Len(segments) \in Nat \ {0} /\ Len(merged) \in Nat \ {0}
        /\ Total(segments) \in Nat /\ Total(merged) \in Nat
    BY <1>2, <1>4, TotalType, EmptySeq
  <1> QED BY <1>1, <1>2, <1>4, <1>5, <1>6

\* Between two chunks nothing is left out, and no chunk is longer than the maximum
\* unless a single line is: _greedy_merge after _split_section, for every section.
THEOREM ChunksAreChained ==
  ASSUME ChunkSizes, NEW section \in Seq(DocumentLines), section # <<>>
  PROVE  /\ Ranges(section) \in Seq(ChunkRanges)
         /\ Chained(Ranges(section))
         /\ AllFit(Ranges(section), SectionPieces(section))
  <1>1. SectionPieces(section) \in Seq(Nat)
    BY PiecesOfSection
  <1>2. Ranges(section) = Greedy(SectionPieces(section))
    BY DEF Ranges, SectionPieces
  <1> QED BY <1>1, <1>2, GreedyResult

\* Characters by which chunks that each begin Overlap short fall short together.
Skipped(r) == IF r = <<>> THEN 0 ELSE Overlap * (Len(r) - 1)

\* What a section's chunks do not hold of it: its end, at most Overlap characters for
\* each chunk but the first and the newlines between segments; at least the former,
\* when every chunk but the last ends beyond the first Overlap characters.
THEOREM LossIsBounded ==
  ASSUME ChunkSizes, NEW section \in Seq(DocumentLines), section # <<>>
  PROVE  /\ SectionSize(section) - Covered(section)
              <= Skipped(Ranges(section)) + Len(Segments(section)) - 1
         /\ LongEnough(Ranges(section))
              => SectionSize(section) - Covered(section) >= Skipped(Ranges(section))
  <1>1. PICK r : r = Ranges(section)
    OBVIOUS
  <1>2. PICK pieces : pieces = SectionPieces(section)
    OBVIOUS
  <1>3. /\ pieces \in Seq(Nat) /\ Size(pieces) \in Nat
        /\ Size(pieces) <= SectionSize(section)
        /\ SectionSize(section) \in Nat /\ Len(Segments(section)) \in Nat \ {0}
        /\ SectionSize(section) <= Size(pieces) + Len(Segments(section)) - 1
    BY <1>2, PiecesOfSection
  <1>4. r = Greedy(pieces)
    BY <1>1, <1>2 DEF Ranges, SectionPieces
  <1>5. /\ r \in Seq(ChunkRanges) /\ Size(pieces) <= Reach(r)
        /\ LongEnough(r) => Size(pieces) = Reach(r)
    BY <1>3, <1>4, GreedyResult
  <1>6. /\ Covered(section) \in Nat /\ Skipped(r) \in Nat
        /\ Reach(r) = Covered(section) + Skipped(r)
    <2>1. CASE r = <<>>
      BY <1>1, <2>1 DEF Covered, Skipped, Reach
    <2>2. CASE r # <<>>
      <3>1. Len(r) \in Nat \ {0}
        BY <1>5, <2>2, EmptySeq
      <3>2. Len(r) \in 1..Len(r) /\ r[Len(r)] \in ChunkRanges
        BY <1>5, <3>1, ElementOfSeq
      <3>3. r[Len(r)].end \in Nat /\ Overlap * (Len(r) - 1) \in Nat
        BY <3>1, <3>2 DEF ChunkRanges, ChunkSizes
      <3> QED BY <1>1, <2>2, <3>3 DEF Covered, Skipped, Reach
    <2> QED BY <2>1, <2>2
  <1> QED BY <1>1, <1>3, <1>5, <1>6

\* A section that makes one chunk at most is whole in it.
THEOREM OneChunkIsWhole ==
  ASSUME ChunkSizes, NEW section \in Seq(DocumentLines), section # <<>>,
         Len(Ranges(section)) <= 1
  PROVE  NothingIsLost(section)
  <1>1. Skipped(Ranges(section)) = 0
    <2>1. Ranges(section) \in Seq(ChunkRanges)
      BY ChunksAreChained
    <2>2. Ranges(section) # <<>> => Len(Ranges(section)) = 1
      <3>1. Ranges(section) # <<>> => Len(Ranges(section)) \in Nat \ {0}
        BY <2>1, EmptySeq
      <3>2. ASSUME Ranges(section) # <<>> PROVE Len(Ranges(section)) = 1
        <4>1. PICK n \in Nat \ {0} : n = Len(Ranges(section))
          BY <3>1, <3>2
        <4> QED BY <4>1
      <3> QED BY <3>2
    <2>3. ASSUME Ranges(section) # <<>> PROVE Skipped(Ranges(section)) = 0
      <3>1. Skipped(Ranges(section)) = Overlap * (1 - 1)
        BY <2>2, <2>3 DEF Skipped
      <3> QED BY <3>1 DEF ChunkSizes
    <2> QED BY <2>3 DEF Skipped
  <1>2. Len(Segments(section)) \in Nat \ {0}
    BY PiecesOfSection
  <1> QED BY <1>1, <1>2, LossIsBounded DEF NothingIsLost

\* A section whose chunks are all longer than the overlap loses its end as soon as
\* the overlaps come to more characters than there are newlines between segments.
THEOREM OverlapsLoseTheTail ==
  ASSUME ChunkSizes, NEW section \in Seq(DocumentLines), section # <<>>,
         LongEnough(Ranges(section)),
         Skipped(Ranges(section)) >= Len(Segments(section))
  PROVE  ~NothingIsLost(section)
  <1>1. PICK x \in Int : x = SectionSize(section) - Covered(section)
    <2>1. Ranges(section) # <<>> =>
            /\ Len(Ranges(section)) \in 1..Len(Ranges(section))
            /\ Ranges(section)[Len(Ranges(section))] \in ChunkRanges
      <3>1. Ranges(section) \in Seq(ChunkRanges)
        BY ChunksAreChained
      <3>2. Ranges(section) # <<>> => Len(Ranges(section)) \in Nat \ {0}
        BY <3>1, EmptySeq
      <3> QED BY <3>1, <3>2, ElementOfSeq
    <2>2. Covered(section) \in Int
      BY <2>1 DEF Covered, ChunkRanges
    <2> QED BY <2>2, PiecesOfSection
  <1>2. x >= Skipped(Ranges(section))
    BY <1>1, LossIsBounded
  <1>3. Skipped(Ranges(section)) \in Int
    <2>1. Len(Ranges(section)) \in Nat
      BY ChunksAreChained
    <2> QED BY <2>1 DEF Skipped, ChunkSizes
  <1> QED BY <1>1, <1>2, <1>3, PiecesOfSection DEF NothingIsLost

=============================================================================
