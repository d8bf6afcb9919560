------------------------ MODULE HistoryStore_proofs ------------------------
(***************************************************************************)
(* Theorems of HistoryStore, for every history, every number of requests   *)
(* and every bound.                                                        *)
(***************************************************************************)
EXTENDS HistoryStore, SequenceTheorems, FiniteSetTheorems, TLAPS

-----------------------------------------------------------------------------
(***************************************************************************)
(* What Filtered returns.  It is a recursive function: that the function   *)
(* exists, and what it returns, is shown by induction on how far it got.   *)
(***************************************************************************)

\* Induction, for a set of numbers
LEMMA SetInduction ==
    ASSUME NEW S, 0 \in S, \A n \in Nat : n \in S => n + 1 \in S
    PROVE  Nat \subseteq S
<1> DEFINE Less == {ss \in Nat \X Nat : ss[1] < ss[2]}
<1>1. IsWellFoundedOn(Less, Nat)
  BY NatLessThanWellFounded DEF OpToRel
<1> DEFINE T == Nat \ S
<1> SUFFICES ASSUME T # {} PROVE FALSE
  OBVIOUS
<1> HIDE DEF Less, T
<1>2. \E m \in T : \A k \in T : ~ (<<k, m>> \in Less)
  <2>1. T \subseteq Nat
    BY DEF T
  <2> QED BY <1>1, <2>1, WFMin
<1>3. PICK m \in T : \A k \in T : ~ (<<k, m>> \in Less)
  BY <1>2
<1>4. m \in Nat /\ m # 0 /\ m - 1 \in Nat /\ m = (m - 1) + 1 /\ m \notin S
  BY DEF T
<1>5. m - 1 \notin S
  BY <1>4
<1>6. m - 1 \in T /\ <<m - 1, m>> \in Less
  BY <1>4, <1>5 DEF T, Less
<1> QED BY <1>3, <1>6

\* A set of numbers that is not empty has a least one
LEMMA LeastNumber ==
    ASSUME NEW S \in SUBSET Nat, S # {}
    PROVE  \E m \in S : \A k \in S : m <= k
<1> DEFINE Less == {ss \in Nat \X Nat : ss[1] < ss[2]}
<1>1. IsWellFoundedOn(Less, Nat)
  BY NatLessThanWellFounded DEF OpToRel
<1> HIDE DEF Less
<1>2. PICK m \in S : \A k \in S : ~ (<<k, m>> \in Less)
  BY <1>1, WFMin
<1>3. \A k \in S : m <= k
  <2> TAKE k \in S
  <2>1. m \in Nat /\ k \in Nat /\ <<k, m>> \notin Less
    BY <1>2
  <2> QED BY <2>1 DEF Less
<1> QED BY <1>3

\* out has the members of seq[1..n] that are in keep, and no other, in their order
SelectsAt(at, out, seq, keep, n) ==
    /\ \A k \in 1..Len(out) : at[k] \in 1..n /\ out[k] = seq[at[k]] /\ out[k] \in keep
    /\ \A j, k \in 1..Len(out) : j < k => at[j] < at[k]
    /\ \A i \in 1..n : seq[i] \in keep => \E k \in 1..Len(out) : at[k] = i

Selects(out, seq, keep, n) == \E at : SelectsAt(at, out, seq, keep, n)

\* One turn of the loop
Turn(seq, keep, i, out) == IF seq[i] \in keep THEN Append(out, seq[i]) ELSE out

\* The function that Filtered chooses, and that there is one
Loop(seq, keep) ==
    CHOOSE upTo : upTo = [i \in 0..Len(seq) |->
        IF i = 0 THEN <<>>
        ELSE IF seq[i] \in keep THEN Append(upTo[i - 1], seq[i]) ELSE upTo[i - 1]]

\* That function is one: built turn by turn, by induction on the turns
LEMMA LoopExists ==
    ASSUME NEW S, NEW seq \in Seq(S), NEW keep
    PROVE  /\ Loop(seq, keep)[0] = <<>>
           /\ \A i \in 1..Len(seq) :
                 Loop(seq, keep)[i] = Turn(seq, keep, i, Loop(seq, keep)[i - 1])
<1> DEFINE Partial(g, n) ==
             /\ DOMAIN g = 0..n /\ g = [i \in 0..n |-> g[i]] /\ g[0] = <<>>
             /\ \A i \in 1..n : g[i] = Turn(seq, keep, i, g[i - 1])
           T == {n \in Nat : \E g : Partial(g, n)}
<1>1. 0 \in T
  <2>1. Partial([i \in 0..0 |-> <<>>], 0)
    OBVIOUS
  <2> QED BY <2>1
<1>2. \A n \in Nat : n \in T => n + 1 \in T
  <2> SUFFICES ASSUME NEW n \in Nat, NEW g, Partial(g, n)
               PROVE  \E h : Partial(h, n + 1)
    OBVIOUS
  <2> DEFINE h == [i \in 0..(n + 1) |->
                     IF i <= n THEN g[i] ELSE Turn(seq, keep, n + 1, g[n])]
  <2>1. \A i \in 0..n : h[i] = g[i]
    OBVIOUS
  <2>2. h[n + 1] = Turn(seq, keep, n + 1, g[n])
    OBVIOUS
  <2>3. \A i \in 1..(n + 1) : h[i] = Turn(seq, keep, i, h[i - 1])
    <3> TAKE i \in 1..(n + 1)
    <3>1. CASE i = n + 1
      <4>1. i - 1 = n /\ n \in 0..n
        BY <3>1
      <4> QED BY <3>1, <4>1, <2>1, <2>2
    <3>2. CASE i \in 1..n
      <4>1. i \in 0..n /\ i - 1 \in 0..n
        BY <3>2
      <4> HIDE DEF h
      <4> QED BY <3>2, <4>1, <2>1
    <3> QED BY <3>1, <3>2
  <2>4. Partial(h, n + 1)
    <3>1. h[0] = <<>>
      BY <2>1
    <3>2. DOMAIN h = 0..(n + 1) /\ h = [i \in 0..(n + 1) |-> h[i]]
      OBVIOUS
    <3> HIDE DEF h
    <3> QED BY <3>1, <3>2, <2>3
  <2> HIDE DEF h, Partial
  <2> QED BY <2>4
<1>3. Len(seq) \in T
  <2> HIDE DEF T
  <2>1. Nat \subseteq T
    BY <1>1, <1>2, SetInduction
  <2> QED BY <2>1
<1>4. PICK g : Partial(g, Len(seq))
  BY <1>3
<1>5. g = [i \in 0..Len(seq) |->
        IF i = 0 THEN <<>>
        ELSE IF seq[i] \in keep THEN Append(g[i - 1], seq[i]) ELSE g[i - 1]]
  <2>1. \A i \in 0..Len(seq) :
           g[i] = IF i = 0 THEN <<>>
                  ELSE IF seq[i] \in keep THEN Append(g[i - 1], seq[i]) ELSE g[i - 1]
    BY <1>4 DEF Turn
  <2> QED BY <1>4, <2>1
<1> DEFINE f == Loop(seq, keep)
<1>6. f = [i \in 0..Len(seq) |->
        IF i = 0 THEN <<>>
        ELSE IF seq[i] \in keep THEN Append(f[i - 1], seq[i]) ELSE f[i - 1]]
  BY <1>5 DEF Loop
<1> HIDE DEF f
<1>7. f[0] = <<>> /\ \A i \in 1..Len(seq) : f[i] = Turn(seq, keep, i, f[i - 1])
  <2>1. f[0] = <<>>
    BY <1>6
  <2>2. ASSUME NEW i \in 1..Len(seq)
        PROVE  f[i] = Turn(seq, keep, i, f[i - 1])
    <3>1. i \in 0..Len(seq) /\ i # 0
      OBVIOUS
    <3>2. f[i] = IF i = 0 THEN <<>>
                 ELSE IF seq[i] \in keep THEN Append(f[i - 1], seq[i]) ELSE f[i - 1]
      BY <1>6, <3>1
    <3> QED BY <3>1, <3>2 DEF Turn
  <2> QED BY <2>1, <2>2
<1> QED BY <1>7 DEF f

\* One more turn selects one more member, or none
LEMMA SelectsOneMore ==
    ASSUME NEW S, NEW seq \in Seq(S), NEW keep, NEW n \in Nat, n + 1 \in 1..Len(seq),
           NEW out \in Seq(S), Selects(out, seq, keep, n)
    PROVE  /\ Turn(seq, keep, n + 1, out) \in Seq(S)
           /\ Selects(Turn(seq, keep, n + 1, out), seq, keep, n + 1)
<1>1. PICK at : SelectsAt(at, out, seq, keep, n)
  BY DEF Selects
<1>2. CASE seq[n + 1] \notin keep
  <2>1. SelectsAt(at, out, seq, keep, n + 1)
    BY <1>1, <1>2 DEF SelectsAt
  <2> QED BY <1>2, <2>1 DEF Turn, Selects
<1>3. CASE seq[n + 1] \in keep
  <2> DEFINE m == Len(out)
             more == Append(out, seq[n + 1])
             to == [k \in 1..(m + 1) |-> IF k <= m THEN at[k] ELSE n + 1]
  <2>1. /\ more \in Seq(S) /\ Len(more) = m + 1 /\ m \in Nat
        /\ \A k \in 1..m : more[k] = out[k]
        /\ more[m + 1] = seq[n + 1]
    OBVIOUS
  <2>2. /\ \A k \in 1..m : to[k] = at[k] /\ to[k] \in 1..n
        /\ to[m + 1] = n + 1
    <3>1. m \in Nat /\ \A k \in 1..m : at[k] \in 1..n
      BY <1>1 DEF SelectsAt
    <3> HIDE DEF m
    <3> QED BY <3>1
  <2> HIDE DEF more, to, m
  <2>3. \A k \in 1..(m + 1) : to[k] \in 1..(n + 1) /\ more[k] = seq[to[k]] /\ more[k] \in keep
    <3> TAKE k \in 1..(m + 1)
    <3>1. CASE k = m + 1
      BY <3>1, <2>1, <2>2, <1>3
    <3>2. CASE k \in 1..m
      <4>1. at[k] \in 1..n /\ out[k] = seq[at[k]] /\ out[k] \in keep
        BY <3>2, <1>1 DEF m, SelectsAt
      <4> QED BY <3>2, <4>1, <2>1, <2>2
    <3> QED BY <2>1, <3>1, <3>2
  <2>4. \A j, k \in 1..(m + 1) : j < k => to[j] < to[k]
    <3> SUFFICES ASSUME NEW j \in 1..(m + 1), NEW k \in 1..(m + 1), j < k
                 PROVE  to[j] < to[k]
      OBVIOUS
    <3>1. j \in 1..m
      BY <2>1
    <3>2. CASE k = m + 1
      BY <3>1, <3>2, <2>2
    <3>3. CASE k \in 1..m
      BY <3>1, <3>3, <2>2, <1>1 DEF m, SelectsAt
    <3> QED BY <2>1, <3>2, <3>3
  <2>5. \A i \in 1..(n + 1) : seq[i] \in keep => \E k \in 1..(m + 1) : to[k] = i
    <3> SUFFICES ASSUME NEW i \in 1..(n + 1), seq[i] \in keep
                 PROVE  \E k \in 1..(m + 1) : to[k] = i
      OBVIOUS
    <3>1. CASE i = n + 1
      BY <3>1, <2>1, <2>2
    <3>2. CASE i \in 1..n
      <4>1. PICK k \in 1..m : at[k] = i
        BY <3>2, <1>1 DEF m, SelectsAt
      <4>2. k \in 1..(m + 1) /\ to[k] = i
        BY <4>1, <2>1, <2>2
      <4> QED BY <4>2
    <3> QED BY <3>1, <3>2
  <2>6. Selects(more, seq, keep, n + 1)
    <3>1. SelectsAt(to, more, seq, keep, n + 1)
      BY <2>1, <2>3, <2>4, <2>5 DEF SelectsAt
    <3> QED BY <3>1 DEF Selects
  <2> QED BY <1>3, <2>1, <2>6 DEF Turn, more
<1> QED BY <1>2, <1>3

\* The loop as a whole
LEMMA FilteredSelects ==
    ASSUME NEW S, NEW seq \in Seq(S), NEW keep
    PROVE  Filtered(seq, keep) \in Seq(S) /\ Selects(Filtered(seq, keep), seq, keep, Len(seq))
<1> DEFINE f == Loop(seq, keep)
           T == {n \in Nat : n <= Len(seq) => f[n] \in Seq(S) /\ Selects(f[n], seq, keep, n)}
<1>1. f[0] = <<>> /\ \A i \in 1..Len(seq) : f[i] = Turn(seq, keep, i, f[i - 1])
  BY LoopExists
<1> HIDE DEF f
<1>2. 0 \in T
  <2>1. Selects(<<>>, seq, keep, 0)
    <3>1. SelectsAt(<<>>, <<>>, seq, keep, 0)
      BY DEF SelectsAt
    <3> QED BY <3>1 DEF Selects
  <2>2. <<>> \in Seq(S)
    OBVIOUS
  <2> QED BY <1>1, <2>1, <2>2
<1>3. \A n \in Nat : n \in T => n + 1 \in T
  <2> SUFFICES ASSUME NEW n \in Nat, n \in T, n + 1 <= Len(seq)
               PROVE  f[n + 1] \in Seq(S) /\ Selects(f[n + 1], seq, keep, n + 1)
    OBVIOUS
  <2>1. n + 1 \in 1..Len(seq) /\ (n + 1) - 1 = n /\ n <= Len(seq)
    OBVIOUS
  <2>2. f[n] \in Seq(S) /\ Selects(f[n], seq, keep, n)
    BY <2>1
  <2>3. f[n + 1] = Turn(seq, keep, n + 1, f[n])
    BY <1>1, <2>1
  <2> QED BY <2>1, <2>2, <2>3, SelectsOneMore
<1>4. Nat \subseteq T
  <2> HIDE DEF T
  <2> QED BY <1>2, <1>3, SetInduction
<1>5. Len(seq) \in T
  BY <1>4
<1>6. Filtered(seq, keep) = f[Len(seq)]
  BY DEF Filtered, f, Loop
<1> QED BY <1>5, <1>6

-----------------------------------------------------------------------------
\* The oldest entries come first
Sorted(seq) == \A i, j \in 1..Len(seq) : i < j => seq[i].age >= seq[j].age

\* What the other proofs need of it
LEMMA FilteredFacts ==
    ASSUME NEW seq \in Seq(Entry), NEW keep
    PROVE  LET out == Filtered(seq, keep) IN
           /\ out \in Seq(Entry)
           /\ \A k \in 1..Len(out) : out[k] \in keep /\ \E i \in 1..Len(seq) : out[k] = seq[i]
           /\ \A i \in 1..Len(seq) : seq[i] \in keep => \E k \in 1..Len(out) : out[k] = seq[i]
           /\ Sorted(seq) => Sorted(out)
           /\ seq # <<>> /\ Last(seq) \in keep => out # <<>> /\ Last(out) = Last(seq)
<1> DEFINE out == Filtered(seq, keep)
<1>1. out \in Seq(Entry) /\ Selects(out, seq, keep, Len(seq))
  BY FilteredSelects
<1> HIDE DEF out
<1>2. PICK at : SelectsAt(at, out, seq, keep, Len(seq))
  BY <1>1 DEF Selects
<1>3. Len(out) \in Nat /\ Len(seq) \in Nat
  BY <1>1
<1>4. \A k \in 1..Len(out) : out[k] \in keep /\ \E i \in 1..Len(seq) : out[k] = seq[i]
  BY <1>2 DEF SelectsAt
<1>5. ASSUME NEW i \in 1..Len(seq), seq[i] \in keep
      PROVE  \E k \in 1..Len(out) : out[k] = seq[i]
  <2>1. PICK k \in 1..Len(out) : at[k] = i
    BY <1>2, <1>5 DEF SelectsAt
  <2> QED BY <2>1, <1>2 DEF SelectsAt
<1>6. ASSUME Sorted(seq), NEW j \in 1..Len(out), NEW k \in 1..Len(out), j < k
      PROVE  out[j].age >= out[k].age
  <2>1. /\ at[j] \in 1..Len(seq) /\ at[k] \in 1..Len(seq) /\ at[j] < at[k]
        /\ out[j] = seq[at[j]] /\ out[k] = seq[at[k]]
    BY <1>2, <1>6 DEF SelectsAt
  <2> QED BY <2>1, <1>6 DEF Sorted
<1>7. ASSUME seq # <<>>, Last(seq) \in keep
      PROVE  out # <<>> /\ Last(out) = Last(seq)
  <2>1. Len(seq) \in 1..Len(seq) /\ seq[Len(seq)] \in keep
    BY <1>7 DEF Last
  <2>2. PICK k \in 1..Len(out) : at[k] = Len(seq)
    BY <2>1, <1>2 DEF SelectsAt
  <2>3. Len(out) \in 1..Len(out) /\ at[Len(out)] \in 1..Len(seq)
    BY <2>2, <1>2, <1>3 DEF SelectsAt
  <2>4. k = Len(out)
    <3> SUFFICES ASSUME k < Len(out) PROVE FALSE
      BY <1>3
    <3>1. at[k] < at[Len(out)]
      BY <2>3, <1>2 DEF SelectsAt
    <3> QED BY <3>1, <2>2, <2>3
  <2>5. out[Len(out)] = seq[Len(seq)]
    BY <2>2, <2>4, <1>2 DEF SelectsAt
  <2>6. out # <<>>
    BY <2>2, <1>1
  <2> QED BY <2>5, <2>6 DEF Last
<1>8. Sorted(seq) => Sorted(out)
  BY <1>6 DEF Sorted
<1> QED BY <1>1, <1>4, <1>5, <1>7, <1>8 DEF out

\* The last entries, if there are too many
LEMMA LastEntries ==
    ASSUME NEW kept \in Seq(Entry), NEW n \in Nat, Len(kept) > n
    PROVE  LET out == SubSeq(kept, Len(kept) - n + 1, Len(kept)) IN
           /\ out \in Seq(Entry) /\ Len(out) = n
           /\ \A k \in 1..n : out[k] = kept[Len(kept) - n + k]
<1> DEFINE m == Len(kept) - n + 1
           out == SubSeq(kept, m, Len(kept))
<1>1. /\ Len(kept) \in Nat /\ m \in Int /\ m >= 1
      /\ \A i \in m..Len(kept) : kept[i] \in Entry
      /\ Len(kept) - m + 1 = n
  OBVIOUS
<1>2. /\ out \in Seq(Entry)
      /\ Len(out) = IF m <= Len(kept) THEN Len(kept) - m + 1 ELSE 0
      /\ \A i \in 1..(Len(kept) - m + 1) : out[i] = kept[m + i - 1]
  <2> HIDE DEF m
  <2> QED BY <1>1, SubSeqProperties
<1> QED BY <1>1, <1>2

\* What prune keeps is in its order; what it drops is older than what it keeps
LEMMA PruneFacts ==
    ASSUME NEW seq \in Seq(Entry)
    PROVE  LET out == Prune(seq) IN
           /\ out \in Seq(Entry)
           /\ \A k \in 1..Len(out) : \E i \in 1..Len(seq) : out[k] = seq[i]
           /\ Sorted(seq) => Sorted(out)
           /\ seq # <<>> /\ Last(seq) \in Young /\ out # <<>> => Last(out) = Last(seq)
           /\ Sorted(seq) =>
                \A i \in 1..Len(seq), k \in 1..Len(out) :
                    (\A j \in 1..Len(out) : out[j] # seq[i]) => seq[i].age >= out[k].age
<1> DEFINE kept == Filtered(seq, Young)
           out == Prune(seq)
<1>1. /\ kept \in Seq(Entry)
      /\ \A k \in 1..Len(kept) : kept[k] \in Young /\ \E i \in 1..Len(seq) : kept[k] = seq[i]
      /\ \A i \in 1..Len(seq) : seq[i] \in Young => \E k \in 1..Len(kept) : kept[k] = seq[i]
      /\ Sorted(seq) => Sorted(kept)
      /\ seq # <<>> /\ Last(seq) \in Young => kept # <<>> /\ Last(kept) = Last(seq)
  BY FilteredFacts
<1>2. out = IF Len(kept) > MaxEntries
            THEN SubSeq(kept, Len(kept) - MaxEntries + 1, Len(kept)) ELSE kept
  BY DEF Prune
<1> HIDE DEF kept, out
\* out is the end of kept, from some place on
<1>3. \E d \in Nat : /\ out \in Seq(Entry) /\ Len(out) \in Nat /\ Len(kept) = Len(out) + d
                     /\ \A k \in 1..Len(out) : out[k] = kept[d + k]
  <2>1. CASE Len(kept) > MaxEntries
    <3>1. /\ out \in Seq(Entry) /\ Len(out) = MaxEntries
          /\ \A k \in 1..MaxEntries : out[k] = kept[Len(kept) - MaxEntries + k]
      BY <1>1, <1>2, <2>1, LastEntries, RetentionAssumption
    <3>2. /\ Len(kept) \in Nat /\ MaxEntries \in Nat /\ Len(kept) - MaxEntries \in Nat
          /\ Len(kept) = MaxEntries + (Len(kept) - MaxEntries)
      BY <1>1, <2>1, RetentionAssumption
    <3> QED BY <3>1, <3>2
  <2>2. CASE ~(Len(kept) > MaxEntries)
    <3>1. out = kept
      BY <1>2, <2>2
    <3>2. out \in Seq(Entry) /\ Len(out) \in Nat /\ Len(kept) = Len(out) + 0
      BY <1>1, <3>1
    <3>3. \A k \in 1..Len(out) : out[k] = kept[0 + k]
      BY <3>1
    <3> QED BY <3>2, <3>3
  <2> QED BY <2>1, <2>2
<1>4. PICK d \in Nat : /\ out \in Seq(Entry) /\ Len(out) \in Nat /\ Len(kept) = Len(out) + d
                       /\ \A k \in 1..Len(out) : out[k] = kept[d + k]
  BY <1>3
<1>5. \A k \in 1..Len(out) : d + k \in 1..Len(kept) /\ out[k] = kept[d + k]
  BY <1>4
<1>6. \A k \in 1..Len(out) : \E i \in 1..Len(seq) : out[k] = seq[i]
  BY <1>1, <1>5
<1>7. ASSUME Sorted(seq) PROVE Sorted(out)
  <2>1. Sorted(kept)
    BY <1>1, <1>7
  <2> SUFFICES ASSUME NEW j \in 1..Len(out), NEW k \in 1..Len(out), j < k
               PROVE  out[j].age >= out[k].age
    BY DEF Sorted
  <2>2. d + j < d + k
    BY <1>4
  <2> QED BY <1>5, <2>1, <2>2 DEF Sorted
<1>8. ASSUME seq # <<>>, Last(seq) \in Young, out # <<>>
      PROVE  Last(out) = Last(seq)
  <2>1. Len(out) \in 1..Len(out) /\ d + Len(out) = Len(kept)
    BY <1>4, <1>8
  <2>2. out[Len(out)] = kept[Len(kept)]
    BY <1>5, <2>1
  <2> QED BY <1>1, <1>8, <2>2 DEF Last
<1>9. ASSUME Sorted(seq), NEW i \in 1..Len(seq), NEW k \in 1..Len(out),
             \A j \in 1..Len(out) : out[j] # seq[i]
      PROVE  seq[i].age >= out[k].age
  <2>1. out[k] \in Young /\ seq[i] \in Entry
    <3>1. d + k \in 1..Len(kept) /\ out[k] = kept[d + k]
      BY <1>5
    <3>2. kept[d + k] \in Young
      BY <1>1, <3>1
    <3>3. seq[i] \in Entry
      OBVIOUS
    <3> QED BY <3>1, <3>2, <3>3
  <2>2. CASE seq[i] \notin Young
    BY <2>1, <2>2, RetentionAssumption DEF Young, Entry
  <2>3. CASE seq[i] \in Young
    <3>1. PICK a \in 1..Len(kept) : kept[a] = seq[i]
      BY <1>1, <2>3
    <3>2. a <= d
      <4> SUFFICES ASSUME a > d PROVE FALSE
        BY <1>4
      <4>1. a - d \in 1..Len(out) /\ d + (a - d) = a
        BY <1>4
      <4>2. out[a - d] = kept[d + (a - d)]
        BY <1>5, <4>1
      <4> QED BY <3>1, <4>1, <4>2, <1>9
    <3>3. a < d + k /\ d + k \in 1..Len(kept) /\ out[k] = kept[d + k]
      BY <1>4, <1>5, <3>2
    <3>4. Sorted(kept)
      BY <1>1, <1>9
    <3> QED BY <3>1, <3>3, <3>4 DEF Sorted
  <2> QED BY <2>2, <2>3
<1> QED BY <1>4, <1>6, <1>7, <1>8, <1>9 DEF out

\* Entries grow older together
LEMMA AgedFacts ==
    ASSUME NEW seq \in Seq(Entry)
    PROVE  /\ Aged(seq) \in Seq(Entry) /\ Len(Aged(seq)) = Len(seq)
           /\ \A i \in 1..Len(seq) :
                 /\ Aged(seq)[i].age = IF seq[i].age < Retention THEN seq[i].age + 1
                                                                 ELSE seq[i].age
                 /\ Aged(seq)[i].path = seq[i].path
           /\ Sorted(seq) => Sorted(Aged(seq))
<1> DEFINE out == Aged(seq)
<1>1. Len(seq) \in Nat /\ DOMAIN seq = 1..Len(seq)
  OBVIOUS
<1>2. out = [i \in 1..Len(seq) |->
                [seq[i] EXCEPT !.age = IF @ < Retention THEN @ + 1 ELSE @]]
  BY <1>1 DEF Aged
<1>3. ASSUME NEW i \in 1..Len(seq)
      PROVE  /\ out[i] \in Entry
             /\ out[i].age = IF seq[i].age < Retention THEN seq[i].age + 1 ELSE seq[i].age
             /\ out[i].path = seq[i].path
  <2>1. seq[i] \in Entry
    BY <1>1
  <2> QED BY <1>2, <2>1, RetentionAssumption DEF Entry
<1> HIDE DEF out
<1>4. out \in Seq(Entry) /\ Len(out) = Len(seq)
  <2>1. DOMAIN out = 1..Len(seq) /\ out = [i \in 1..Len(seq) |-> out[i]]
    BY <1>2
  <2>2. \A i \in 1..Len(seq) : out[i] \in Entry
    BY <1>3
  <2>3. out \in [1..Len(seq) -> Entry]
    BY <2>1, <2>2
  <2> QED BY <1>1, <2>3
<1>5. ASSUME Sorted(seq) PROVE Sorted(out)
  <2> SUFFICES ASSUME NEW i \in 1..Len(seq), NEW j \in 1..Len(seq), i < j
               PROVE  out[i].age >= out[j].age
    BY <1>4 DEF Sorted
  <2>1. seq[i].age >= seq[j].age
    BY <1>5 DEF Sorted
  <2>2. seq[i] \in Entry /\ seq[j] \in Entry
    OBVIOUS
  <2>3. seq[i].age \in Nat /\ seq[j].age \in Nat
    BY <2>2, RetentionAssumption DEF Entry
  <2>4. /\ out[i].age = IF seq[i].age < Retention THEN seq[i].age + 1 ELSE seq[i].age
        /\ out[j].age = IF seq[j].age < Retention THEN seq[j].age + 1 ELSE seq[j].age
    BY <1>3
  <2> QED BY <2>1, <2>3, <2>4, RetentionAssumption
<1> QED BY <1>3, <1>4, <1>5 DEF out

\* A snapshot is younger than all that is there
LEMMA SnapshotFacts ==
    ASSUME NEW seq \in Seq(Entry), NEW snapshot \in Snapshots
    PROVE  LET new == NewEntries(snapshot) all == seq \o new IN
           /\ new \in Seq(Entry) /\ all \in Seq(Entry)
           /\ Len(all) = Len(seq) + Len(new)
           /\ \A i \in 1..Len(all) : all[i] = IF i <= Len(seq) THEN seq[i] ELSE new[i - Len(seq)]
           /\ \A i \in 1..Len(new) : new[i] \in Young /\ new[i].age = 0
           /\ Sorted(seq) => Sorted(all)
<1> DEFINE new == NewEntries(snapshot)
           all == seq \o new
<1>1. /\ snapshot \in Seq(Path) /\ Len(snapshot) \in Nat /\ DOMAIN snapshot = 1..Len(snapshot)
      /\ Len(seq) \in Nat
  BY SnapshotAssumption
<1>2. new = [i \in 1..Len(snapshot) |-> [age |-> 0, path |-> snapshot[i]]]
  BY <1>1 DEF NewEntries
<1>3. \A i \in 1..Len(snapshot) : new[i] \in Entry /\ new[i] \in Young /\ new[i].age = 0
  <2> TAKE i \in 1..Len(snapshot)
  <2>1. snapshot[i] \in Path
    BY <1>1
  <2> QED BY <1>2, <2>1, RetentionAssumption DEF Entry, Young
<1> HIDE DEF new
<1>4. new \in Seq(Entry) /\ Len(new) = Len(snapshot)
  BY <1>1, <1>2, <1>3
<1>5. /\ all \in Seq(Entry) /\ Len(all) = Len(seq) + Len(new)
      /\ \A i \in 1..Len(all) : all[i] = IF i <= Len(seq) THEN seq[i] ELSE new[i - Len(seq)]
  BY <1>4
<1> HIDE DEF all
<1>6. ASSUME Sorted(seq), NEW i \in 1..Len(all), NEW j \in 1..Len(all), i < j
      PROVE  all[i].age >= all[j].age
  <2>1. CASE j <= Len(seq)
    <3>1. i \in 1..Len(seq) /\ j \in 1..Len(seq)
      BY <1>1, <1>6, <2>1
    <3> QED BY <1>5, <1>6, <3>1 DEF Sorted
  <2>2. CASE j > Len(seq)
    <3>1. j - Len(seq) \in 1..Len(new) /\ all[j] = new[j - Len(seq)]
      BY <1>1, <1>4, <1>5, <2>2
    <3>2. all[j].age = 0
      BY <1>3, <1>4, <3>1
    <3>3. all[i] \in Entry
      BY <1>5
    <3> QED BY <3>2, <3>3 DEF Entry
  <2> QED BY <1>1, <1>4, <1>5, <2>1, <2>2
<1>7. Sorted(seq) => Sorted(all)
  BY <1>6 DEF Sorted
<1> QED BY <1>3, <1>4, <1>5, <1>7 DEF new, all

-----------------------------------------------------------------------------

\* The inductive invariant behind SavedHistoryIsCurrent: what was marshalled is
\* still in memory when it becomes the file, because only the recorder writes.
Saved ==
    /\ rec \in {"idle", "record", "marshal", "rename", "relock", "return"}
    /\ lagging \in BOOLEAN
    /\ rec = "rename" => tmp = entries
    /\ rec \in {"idle", "record", "relock", "return"} /\ ~lagging => file = entries

\* Init and every step keep Saved
LEMMA SavedInductive == (Init => Saved) /\ (Saved /\ [Next]_vars => Saved')
<1>1. Init => Saved
  BY DEF Init, Saved
<1>2. ASSUME Saved, [Next]_vars
      PROVE  Saved'
  <2> USE <1>2 DEF Saved, Goto, Fault, store, lock, reads
  <2>1. CASE Tick
    BY <2>1 DEF Tick
  <2>2. CASE RecordBegins
    BY <2>2 DEF RecordBegins, LockAsk
  <2>3. CASE \E snapshot \in Snapshots : RecordAppends(snapshot)
    BY <2>3 DEF RecordAppends
  <2>4. CASE SaveMarshals
    BY <2>4 DEF SaveMarshals
  <2>5. CASE SaveRenames
    BY <2>5 DEF SaveRenames
  <2>6. CASE SaveFails
    BY <2>6 DEF SaveFails
  <2>7. CASE RecordRelocks
    BY <2>7 DEF RecordRelocks, LockAsk
  <2>8. CASE RecordReturns
    BY <2>8 DEF RecordReturns
  <2>9. CASE LockGet
    BY <2>9 DEF LockGet
  <2>10. CASE \E r \in Reader : ReaderStep(r) \/ \E kind \in Kinds : Call(r, kind)
    BY <2>10 DEF ReaderStep, RLock, RUnlock, Call
  <2>11. CASE Restart
    <3>1. /\ rec' = "idle" /\ file' = file
          /\ lagging' = (entries' # file)
      BY <2>11 DEF Restart
    <3> QED
      BY <3>1
  <2>12. CASE UNCHANGED vars
    BY <2>12 DEF vars
  <2> QED
    BY <2>1, <2>2, <2>3, <2>4, <2>5, <2>6, <2>7, <2>8, <2>9, <2>10, <2>11, <2>12
    DEF Next, RecorderStep
<1> QED
  BY <1>1, <1>2

\* Between two snapshots the file holds the history that is in memory, unless the
\* last save or load failed.
THEOREM SavedIsCurrent == Spec => []SavedHistoryIsCurrent
<1>1. Init => Saved
  BY SavedInductive
<1>2. Saved /\ [Next]_vars => Saved'
  BY SavedInductive
<1>3. Saved => SavedHistoryIsCurrent
  BY DEF Saved, SavedHistoryIsCurrent
<1> QED
  BY <1>1, <1>2, <1>3, PTL DEF Spec

-----------------------------------------------------------------------------
\* The write lock excludes the read locks, and is held at two places only.
Exclusive ==
    /\ held \in [Reader -> Nat]
    /\ writer \in {"free", "waiting", "held"}
    /\ writer = "held" => \A r \in Reader : held[r] = 0

\* Init and every step keep Exclusive
LEMMA ExclusiveInductive == (Init => Exclusive) /\ (Exclusive /\ [Next]_vars => Exclusive')
<1>1. Init => Exclusive
  BY DEF Init, Exclusive
<1>2. ASSUME Exclusive, [Next]_vars
      PROVE  Exclusive'
  <2> USE <1>2 DEF Exclusive, Goto, Fault, store, lock, reads
  <2>1. CASE Tick
    BY <2>1 DEF Tick
  <2>2. CASE RecordBegins
    BY <2>2 DEF RecordBegins, LockAsk
  <2>3. CASE \E snapshot \in Snapshots : RecordAppends(snapshot)
    BY <2>3 DEF RecordAppends
  <2>4. CASE SaveMarshals
    BY <2>4 DEF SaveMarshals
  <2>5. CASE SaveRenames
    BY <2>5 DEF SaveRenames
  <2>6. CASE SaveFails
    BY <2>6 DEF SaveFails
  <2>7. CASE RecordRelocks
    BY <2>7 DEF RecordRelocks, LockAsk
  <2>8. CASE RecordReturns
    BY <2>8 DEF RecordReturns
  <2>9. CASE LockGet
    BY <2>9 DEF LockGet
  <2>10. ASSUME NEW r \in Reader, RLock(r)
         PROVE  Exclusive'
    BY <2>10 DEF RLock
  <2>11. ASSUME NEW r \in Reader, RUnlock(r)
         PROVE  Exclusive'
    <3>1. /\ held[r] > 0 /\ writer' = writer
          /\ held' = [held EXCEPT ![r] = @ - 1]
      BY <2>11 DEF RUnlock
    <3>2. held[r] - 1 \in Nat
      BY <3>1
    <3> QED
      BY <3>1, <3>2
  <2>12. ASSUME NEW r \in Reader, NEW kind \in Kinds, Call(r, kind)
         PROVE  Exclusive'
    BY <2>12 DEF Call
  <2>13. CASE Restart
    BY <2>13 DEF Restart
  <2>14. CASE UNCHANGED vars
    BY <2>14 DEF vars
  <2> QED
    BY <2>1, <2>2, <2>3, <2>4, <2>5, <2>6, <2>7, <2>8, <2>9, <2>10, <2>11, <2>12,
       <2>13, <2>14
    DEF Next, RecorderStep, ReaderStep
<1> QED
  BY <1>1, <1>2

\* What only the recorder and a restart change
LEMMA OneHistoryStep ==
    ASSUME Exclusive, [Next]_vars,
           NEW r \in Reader, held[r] > 0, held'[r] > 0
    PROVE  entries' \in {entries, Aged(entries)}
<1> USE DEF store, lock, reads, Goto, Fault
<1>1. CASE Tick
  BY <1>1 DEF Tick
<1>2. CASE \E snapshot \in Snapshots : RecordAppends(snapshot)
  <2>1. held[r] = 0
    BY <1>2 DEF RecordAppends, Exclusive
  <2> QED
    BY <2>1
<1>3. CASE Restart
  <2>1. held'[r] = 0
    BY <1>3 DEF Restart
  <2> QED
    BY <2>1
<1>4. CASE \E s \in Reader : ReaderStep(s) \/ \E kind \in Kinds : Call(s, kind)
  BY <1>4 DEF ReaderStep, RLock, RUnlock, Call
<1>5. CASE UNCHANGED vars
  BY <1>5 DEF vars
<1>6. CASE RecordBegins \/ RecordRelocks \/ LockGet
  BY <1>6 DEF RecordBegins, RecordRelocks, LockAsk, LockGet
<1>7. CASE SaveMarshals \/ SaveRenames \/ SaveFails \/ RecordReturns
  BY <1>7 DEF SaveMarshals, SaveRenames, SaveFails, RecordReturns
<1> QED
  BY <1>1, <1>2, <1>3, <1>4, <1>5, <1>6, <1>7 DEF Next, RecorderStep

\* A request works on one history from its first lock to its last unlock, however
\* many GetTrend it makes in between.
THEOREM CallsSeeOneHistory == Spec => OneHistoryPerCall
<1>1. Init => Exclusive
  BY ExclusiveInductive
<1>2. Exclusive /\ [Next]_vars => Exclusive'
  BY ExclusiveInductive
<1>3. Exclusive /\ [Next]_vars
      => [(\E r \in Reader : held[r] > 0 /\ held'[r] > 0)
             => entries' \in {entries, Aged(entries)}]_vars
  BY OneHistoryStep
<1> QED
  BY <1>1, <1>2, <1>3, PTL DEF Spec, OneHistoryPerCall

-----------------------------------------------------------------------------
(***************************************************************************)
(* The types, and the order of the entries in memory and on disk.          *)
(***************************************************************************)

\* A request that is at its innermost level has a call to make there
Typed ==
    /\ TypeOK
    /\ \A r \in Reader : held[r] > 0 /\ held[r] = Depth[call[r]] => rest[r] > 0

Ordered == Sorted(entries) /\ Sorted(tmp) /\ Sorted(file)

\* A history is about finitely many paths
LEMMA PathsFinite ==
    ASSUME entries \in Seq(Entry)
    PROVE  Cardinality(Paths) \in Nat
<1> DEFINE f == [i \in 1..Len(entries) |-> entries[i].path]
<1>1. Len(entries) \in Nat /\ DOMAIN entries = 1..Len(entries)
  OBVIOUS
<1>2. IsFiniteSet(1..Len(entries))
  BY <1>1, FS_Interval
<1>3. f \in Surjection(1..Len(entries), Paths)
  BY <1>1 DEF Paths, Surjection
<1> HIDE DEF f
<1>4. IsFiniteSet(Paths)
  BY <1>2, <1>3, FS_Surjection
<1> QED BY <1>4, FS_CardinalityType

\* A snapshot appended and pruned has its type and its order
LEMMA AppendedFacts ==
    ASSUME entries \in Seq(Entry), NEW snapshot \in Snapshots, RecordAppends(snapshot)
    PROVE  entries' \in Seq(Entry) /\ (Sorted(entries) => Sorted(entries'))
<1> DEFINE all == entries \o NewEntries(snapshot)
<1>1. all \in Seq(Entry) /\ (Sorted(entries) => Sorted(all))
  BY SnapshotFacts
<1>2. entries' = Prune(all)
  BY DEF RecordAppends
<1> HIDE DEF all
<1> QED BY <1>1, <1>2, PruneFacts

\* What a step does to the three copies of the history keeps type and order
LEMMA CopiesStep ==
    ASSUME entries \in Seq(Entry), tmp \in Seq(Entry), file \in Seq(Entry), [Next]_vars
    PROVE  /\ entries' \in Seq(Entry) /\ tmp' \in Seq(Entry) /\ file' \in Seq(Entry)
           /\ Ordered => Ordered'
<1> DEFINE Kept == /\ entries' \in Seq(Entry) /\ tmp' \in Seq(Entry) /\ file' \in Seq(Entry)
                   /\ Ordered => Ordered'
<1> SUFFICES Kept
  OBVIOUS
<1> USE DEF store, lock, reads, Goto, Fault, Ordered
<1>e. <<>> \in Seq(Entry) /\ Sorted(<<>>)
  BY DEF Sorted
<1>1. CASE Tick
  <2>1. entries' = Aged(entries) /\ tmp' = Aged(tmp) /\ file' = Aged(file)
    BY <1>1 DEF Tick
  <2> QED BY <2>1, AgedFacts
<1>2. ASSUME NEW snapshot \in Snapshots, RecordAppends(snapshot)
      PROVE  Kept
  <2>1. tmp' = tmp /\ file' = file
    BY <1>2 DEF RecordAppends
  <2> QED BY <2>1, <1>2, AppendedFacts
<1>3. CASE RecordBegins \/ RecordRelocks \/ LockGet
  BY <1>3 DEF RecordBegins, RecordRelocks, LockAsk, LockGet
<1>4. CASE SaveMarshals
  BY <1>4 DEF SaveMarshals
<1>5. CASE SaveRenames
  BY <1>5 DEF SaveRenames
<1>6. CASE SaveFails
  BY <1>6 DEF SaveFails
<1>7. CASE RecordReturns
  BY <1>7, <1>e DEF RecordReturns
<1>8. CASE \E r \in Reader : ReaderStep(r) \/ \E kind \in Kinds : Call(r, kind)
  BY <1>8 DEF ReaderStep, RLock, RUnlock, Call
<1>9. CASE Restart
  <2>1. entries' \in {file, <<>>} /\ tmp' = <<>> /\ file' = file
    BY <1>9 DEF Restart
  <2> QED BY <2>1, <1>e
<1>10. CASE UNCHANGED vars
  BY <1>10 DEF vars
<1> QED BY <1>1, <1>2, <1>3, <1>4, <1>5, <1>6, <1>7, <1>8, <1>9, <1>10 DEF Next, RecorderStep

\* The state of the lock and of the calls, apart from the entries
CallsTyped ==
    /\ lagging \in BOOLEAN
    /\ rec \in {"idle", "record", "marshal", "rename", "relock", "return"}
    /\ writer \in {"free", "waiting", "held"}
    /\ call \in [Reader -> Kinds \cup {"none"}]
    /\ held \in [Reader -> 0..3] /\ rest \in [Reader -> Nat]
    /\ leaving \in [Reader -> BOOLEAN]
    /\ \A r \in Reader : held[r] > 0 =>
          /\ call[r] # "none" /\ held[r] <= Depth[call[r]]
          /\ held[r] = Depth[call[r]] => rest[r] > 0
    /\ records \in Nat /\ faults \in Nat

\* How deep each kind of call locks
LEMMA DepthFacts == \A kind \in Kinds : Depth[kind] \in 1..3 /\ (Depth[kind] = 1 => kind # "all")
  BY KindAssumption DEF Depth

\* A lock taken is counted, and leaves calls to make
LEMMA RLockTyped ==
    ASSUME CallsTyped, entries \in Seq(Entry), NEW r \in Reader, RLock(r)
    PROVE  CallsTyped'
<1>1. /\ call[r] # "none" /\ held[r] < Depth[call[r]]
      /\ held[r] = 0 \/ rest[r] > 0
      /\ held' = [held EXCEPT ![r] = @ + 1]
      /\ rest' = IF held[r] > 0 THEN rest
                 ELSE [rest EXCEPT ![r] = IF call[r] = "all" THEN Cardinality(Paths) ELSE 1]
      /\ UNCHANGED <<lagging, rec, writer, call, leaving, records, faults>>
  BY DEF RLock, store
<1>2. Cardinality(Paths) \in Nat
  BY PathsFinite
<1>3. call[r] \in Kinds /\ Depth[call[r]] \in 1..3 /\ (Depth[call[r]] = 1 => call[r] # "all")
  BY <1>1, DepthFacts DEF CallsTyped
<1>4. held[r] \in 0..3 /\ rest[r] \in Nat
  BY DEF CallsTyped
<1>5. held' \in [Reader -> 0..3] /\ rest' \in [Reader -> Nat]
  BY <1>1, <1>2, <1>3, <1>4 DEF CallsTyped
<1>6. ASSUME NEW s \in Reader, held'[s] > 0
      PROVE  /\ call'[s] # "none" /\ held'[s] <= Depth[call'[s]]
             /\ held'[s] = Depth[call'[s]] => rest'[s] > 0
  <2>1. CASE s = r
    <3>1. held'[r] = held[r] + 1 /\ call'[r] = call[r]
      BY <1>1 DEF CallsTyped
    <3>2. CASE held[r] > 0
      <4>1. rest'[r] = rest[r] /\ rest[r] > 0
        BY <1>1, <3>2
      <4> QED BY <2>1, <3>1, <4>1, <1>1, <1>3, <1>4
    <3>3. CASE held[r] = 0
      <4>1. call[r] # "all" => rest'[r] = 1
        BY <1>1, <3>3 DEF CallsTyped
      <4> QED BY <2>1, <3>1, <3>3, <4>1, <1>1, <1>3, <1>4
    <3> QED BY <1>4, <3>2, <3>3
  <2>2. CASE s # r
    <3>1. held'[s] = held[s] /\ rest'[s] = rest[s] /\ call'[s] = call[s]
      BY <2>2, <1>1 DEF CallsTyped
    <3> QED BY <3>1, <1>6 DEF CallsTyped
  <2> QED BY <2>1, <2>2
<1> QED BY <1>1, <1>5, <1>6 DEF CallsTyped

\* A lock given back ends one level of the call
LEMMA RUnlockTyped ==
    ASSUME CallsTyped, NEW r \in Reader, RUnlock(r)
    PROVE  CallsTyped'
<1> DEFINE innermost == held[r] = Depth[call[r]]
           left == IF innermost THEN rest[r] - 1 ELSE rest[r]
<1>1. /\ held[r] > 0
      /\ held' = [held EXCEPT ![r] = @ - 1]
      /\ rest' = [rest EXCEPT ![r] = left]
      /\ leaving' = [leaving EXCEPT ![r] = held[r] > 1 /\ ~(held[r] = 2 /\ left > 0)]
      /\ call' = IF held[r] = 1 THEN [call EXCEPT ![r] = "none"] ELSE call
      /\ UNCHANGED <<lagging, rec, writer, records, faults>>
  BY DEF RUnlock, store
<1>2. /\ held[r] \in 0..3 /\ rest[r] \in Nat
      /\ held[r] <= Depth[call[r]] /\ (innermost => rest[r] > 0)
  BY <1>1 DEF CallsTyped
<1>3. left \in Nat
  BY <1>2
<1>4. (held[r] > 1 /\ ~(held[r] = 2 /\ left > 0)) \in BOOLEAN
  OBVIOUS
<1>5. call[r] \in Kinds /\ Depth[call[r]] \in 1..3
  BY <1>1, DepthFacts DEF CallsTyped
<1> HIDE DEF left, innermost
<1>6. /\ held' \in [Reader -> 0..3] /\ rest' \in [Reader -> Nat]
      /\ call' \in [Reader -> Kinds \cup {"none"}]
  BY <1>1, <1>2, <1>3 DEF CallsTyped
<1>7. leaving' \in [Reader -> BOOLEAN]
  BY <1>1, <1>4 DEF CallsTyped
<1>8. ASSUME NEW s \in Reader, held'[s] > 0
      PROVE  /\ call'[s] # "none" /\ held'[s] <= Depth[call'[s]]
             /\ held'[s] = Depth[call'[s]] => rest'[s] > 0
  <2>1. CASE s = r
    <3>1. held'[r] = held[r] - 1
      BY <1>1 DEF CallsTyped
    <3>2. held[r] # 1 /\ call' = call /\ held'[r] < Depth[call[r]]
      BY <2>1, <3>1, <1>1, <1>2, <1>5, <1>8
    <3> QED BY <2>1, <3>1, <3>2, <1>1, <1>2, <1>5 DEF CallsTyped
  <2>2. CASE s # r
    <3>1. held'[s] = held[s] /\ rest'[s] = rest[s] /\ call'[s] = call[s]
      BY <2>2, <1>1 DEF CallsTyped
    <3> QED BY <3>1, <1>8 DEF CallsTyped
  <2> QED BY <2>1, <2>2
<1> QED BY <1>1, <1>6, <1>7, <1>8 DEF CallsTyped

\* Typed is inductive
LEMMA TypedInductive == (Init => Typed /\ Ordered) /\ (Typed /\ [Next]_vars => Typed')
<1>0. Typed <=> CallsTyped /\ entries \in Seq(Entry) /\ tmp \in Seq(Entry) /\ file \in Seq(Entry)
  BY DEF Typed, TypeOK, CallsTyped
<1>0p. Typed' <=> CallsTyped' /\ entries' \in Seq(Entry) /\ tmp' \in Seq(Entry) /\ file' \in Seq(Entry)
  BY DEF Typed, TypeOK, CallsTyped
<1>1. ASSUME Init PROVE Typed /\ Ordered
  <2>1. CallsTyped
    <3>1. /\ lagging = FALSE /\ rec = "idle" /\ writer = "free"
          /\ records = 0 /\ faults = 0
          /\ call = [r \in Reader |-> "none"] /\ held = [r \in Reader |-> 0]
          /\ rest = [r \in Reader |-> 0] /\ leaving = [r \in Reader |-> FALSE]
      BY <1>1 DEF Init
    <3>2. \A r \in Reader : ~(held[r] > 0)
      BY <3>1
    <3>3. /\ call \in [Reader -> Kinds \cup {"none"}] /\ held \in [Reader -> 0..3]
          /\ rest \in [Reader -> Nat] /\ leaving \in [Reader -> BOOLEAN]
      BY <3>1
    <3>4. /\ lagging \in BOOLEAN /\ writer \in {"free", "waiting", "held"}
          /\ rec \in {"idle", "record", "marshal", "rename", "relock", "return"}
          /\ records \in Nat /\ faults \in Nat
      BY <3>1
    <3> QED BY <3>2, <3>3, <3>4 DEF CallsTyped
  <2>2. entries = <<>> /\ tmp = <<>> /\ file = <<>>
    BY <1>1 DEF Init
  <2>3. <<>> \in Seq(Entry) /\ Sorted(<<>>)
    BY DEF Sorted
  <2> QED BY <1>0, <2>1, <2>2, <2>3 DEF Ordered
<1>2. ASSUME Typed, [Next]_vars
      PROVE  CallsTyped'
  <2>0. CallsTyped /\ entries \in Seq(Entry)
    BY <1>0, <1>2
  <2> USE <2>0 DEF store, lock, reads, Goto, Fault
  <2>1. CASE Tick
    BY <2>1 DEF Tick, CallsTyped
  <2>2. CASE \E snapshot \in Snapshots : RecordAppends(snapshot)
    BY <2>2 DEF RecordAppends, CallsTyped
  <2>3. CASE RecordBegins
    BY <2>3 DEF RecordBegins, LockAsk, CallsTyped
  <2>4. CASE RecordRelocks
    BY <2>4 DEF RecordRelocks, LockAsk, CallsTyped
  <2>5. CASE LockGet
    BY <2>5 DEF LockGet, CallsTyped
  <2>6. CASE SaveMarshals
    BY <2>6 DEF SaveMarshals, CallsTyped
  <2>7. CASE SaveRenames
    BY <2>7 DEF SaveRenames, CallsTyped
  <2>8. CASE SaveFails
    BY <2>8 DEF SaveFails, CallsTyped
  <2>9. CASE RecordReturns
    BY <2>9 DEF RecordReturns, CallsTyped
  <2>10. ASSUME NEW r \in Reader, RLock(r)
         PROVE  CallsTyped'
    BY <2>10, RLockTyped
  <2>11. ASSUME NEW r \in Reader, RUnlock(r)
         PROVE  CallsTyped'
    BY <2>11, RUnlockTyped
  <2>12. ASSUME NEW r \in Reader, NEW kind \in Kinds, Call(r, kind)
         PROVE  CallsTyped'
    <3>1. /\ call[r] = "none" /\ call' = [call EXCEPT ![r] = kind]
          /\ UNCHANGED <<lagging, rec, writer, held, rest, leaving, records, faults>>
      BY <2>12 DEF Call
    <3>2. ~(held[r] > 0)
      BY <3>1 DEF CallsTyped
    <3> QED BY <3>1, <3>2 DEF CallsTyped
  <2>13. CASE Restart
    <3>1. (entries' # file) \in BOOLEAN
      OBVIOUS
    <3>2. lagging' \in BOOLEAN /\ rec' = "idle" /\ writer' = "free" /\ records' = records
      BY <2>13, <3>1 DEF Restart
    <3>3. faults' \in Nat
      BY <2>13 DEF Restart, CallsTyped
    <3>4. /\ call' = [r \in Reader |-> "none"] /\ held' = [r \in Reader |-> 0]
          /\ rest' = [r \in Reader |-> 0] /\ leaving' = [r \in Reader |-> FALSE]
      BY <2>13 DEF Restart
    <3> QED BY <3>2, <3>3, <3>4 DEF CallsTyped
  <2>14. CASE UNCHANGED vars
    BY <2>14 DEF vars, CallsTyped
  <2> QED
    BY <1>2, <2>1, <2>2, <2>3, <2>4, <2>5, <2>6, <2>7, <2>8, <2>9, <2>10, <2>11, <2>12,
       <2>13, <2>14
    DEF Next, RecorderStep, ReaderStep
<1> QED BY <1>0, <1>0p, <1>1, <1>2, CopiesStep

\* Every variable has its type, and a request holds locks only inside a call.
THEOREM TypeCorrect == Spec => []TypeOK
<1>1. Typed => TypeOK
  BY DEF Typed
<1> QED BY <1>1, TypedInductive, PTL DEF Spec

\* The entries are in the order of their age, in memory, in the temporary file and
\* on disk: snapshots are appended, prune keeps an end of the history, the clock
\* and a restart keep the order.
LEMMA OrderedAlways == Spec => [](Typed /\ Ordered)
<1>1. Typed /\ Ordered /\ [Next]_vars => (Typed /\ Ordered)'
  BY TypedInductive, CopiesStep DEF Typed, TypeOK
<1> QED BY <1>1, TypedInductive, PTL DEF Spec

-----------------------------------------------------------------------------
\* What Record drops, of the history or of the new snapshot, is at least as old as
\* everything it keeps, whatever the retention and the limit.
THEOREM DroppedAreOldest == Spec => OldestAreDropped
<1> DEFINE Dropped ==
      \A snapshot \in Snapshots : RecordAppends(snapshot) =>
          LET all == ToSet(entries \o NewEntries(snapshot)) IN
          \A e \in all \ ToSet(entries'), f \in ToSet(entries') : e.age >= f.age
<1>1. ASSUME Typed, Ordered, NEW snapshot \in Snapshots, RecordAppends(snapshot),
             NEW e \in ToSet(entries \o NewEntries(snapshot)) \ ToSet(entries'),
             NEW f \in ToSet(entries')
      PROVE  e.age >= f.age
  <2> DEFINE all == entries \o NewEntries(snapshot)
  <2>1. all \in Seq(Entry) /\ Sorted(all)
    BY <1>1, SnapshotFacts DEF Typed, TypeOK, Ordered
  <2>2. entries' = Prune(all)
    BY <1>1 DEF RecordAppends
  <2>3. e \in ToSet(all) \ ToSet(entries')
    BY <1>1
  <2> HIDE DEF all
  <2>4. entries' \in Seq(Entry)
    BY <2>1, <2>2, PruneFacts
  <2>5. PICK i \in 1..Len(all) : e = all[i]
    BY <2>1, <2>3 DEF ToSet
  <2>6. PICK k \in 1..Len(entries') : f = entries'[k]
    BY <1>1, <2>4 DEF ToSet
  <2>7. \A j \in 1..Len(entries') : entries'[j] # all[i]
    BY <2>3, <2>4, <2>5 DEF ToSet
  <2> QED BY <2>1, <2>2, <2>5, <2>6, <2>7, PruneFacts
<1>2. Typed /\ Ordered => [Dropped]_vars
  BY <1>1
<1> HIDE DEF Dropped
<1>3. Spec => [][Dropped]_vars
  BY <1>2, OrderedAlways, PTL
<1> QED BY <1>3 DEF OldestAreDropped, Dropped

-----------------------------------------------------------------------------
\* A snapshot that is appended when the file is current: all that the file lacks is
\* the snapshot, at the end of the history
LEMMA AppendedCrash ==
    ASSUME entries \in Seq(Entry), NEW snapshot \in Snapshots, RecordAppends(snapshot),
           file = entries, NEW k \in DOMAIN entries'
    PROVE  \/ entries'[k].age = Last(entries').age
           \/ \E j \in DOMAIN file : file[j] = entries'[k]
<1> DEFINE new == NewEntries(snapshot)
           all == entries \o new
<1>1. /\ new \in Seq(Entry) /\ all \in Seq(Entry) /\ Len(all) = Len(entries) + Len(new)
      /\ \A i \in 1..Len(all) : all[i] = IF i <= Len(entries) THEN entries[i]
                                         ELSE new[i - Len(entries)]
      /\ \A i \in 1..Len(new) : new[i] \in Young /\ new[i].age = 0
  BY SnapshotFacts
<1>2. entries' = Prune(all)
  BY DEF RecordAppends
<1> HIDE DEF all, new
<1>3. /\ entries' \in Seq(Entry)
      /\ \A n \in 1..Len(entries') : \E i \in 1..Len(all) : entries'[n] = all[i]
      /\ all # <<>> /\ Last(all) \in Young /\ entries' # <<>> => Last(entries') = Last(all)
  BY <1>1, <1>2, PruneFacts
<1>4. k \in 1..Len(entries') /\ Len(entries) \in Nat /\ Len(new) \in Nat
  BY <1>1, <1>3
<1>5. PICK i \in 1..Len(all) : entries'[k] = all[i]
  BY <1>3, <1>4
<1>6. CASE i <= Len(entries)
  <2>1. i \in 1..Len(entries) /\ all[i] = entries[i]
    BY <1>1, <1>4, <1>6
  <2> QED BY <1>5, <2>1
<1>7. CASE i > Len(entries)
  <2>1. i - Len(entries) \in 1..Len(new) /\ all[i] = new[i - Len(entries)]
    <3>1. i \in Nat /\ i <= Len(entries) + Len(new)
      BY <1>1
    <3>2. i - Len(entries) \in 1..Len(new)
      BY <3>1, <1>4, <1>7
    <3> QED BY <3>2, <1>1, <1>7
  <2>2. all[i].age = 0
    BY <1>1, <2>1
  <2>3. Len(new) \in 1..Len(new) /\ Len(all) \in 1..Len(all) /\ Len(all) > Len(entries)
    BY <1>1, <1>4, <2>1
  <2>4. all[Len(all)] = new[Len(new)]
    <3>1. ~(Len(all) <= Len(entries)) /\ Len(all) - Len(entries) = Len(new)
      BY <1>1, <1>4, <2>3
    <3> QED BY <3>1, <2>3, <1>1
  <2>5. Last(all) \in Young /\ Last(all).age = 0 /\ all # <<>>
    BY <1>1, <2>3, <2>4 DEF Last
  <2>6. entries' # <<>>
    BY <1>3, <1>4
  <2> QED BY <1>3, <1>5, <2>2, <2>5, <2>6
<1> QED BY <1>1, <1>4, <1>6, <1>7

\* A crash costs no more than the snapshot in progress, unless a save failed.
THEOREM CrashCostsOneSnapshot == Spec => []CrashLosesOneSnapshot
<1> DEFINE Safe == Typed /\ Saved /\ CrashLosesOneSnapshot
<1>1. Init => Safe
  BY TypedInductive, SavedInductive DEF Init, CrashLosesOneSnapshot
<1>2. ASSUME Safe, [Next]_vars, ~lagging', NEW i \in DOMAIN entries'
      PROVE  \/ entries'[i].age = Last(entries').age
             \/ \E j \in DOMAIN file' : file'[j] = entries'[i]
  <2>0. /\ entries \in Seq(Entry) /\ file \in Seq(Entry)
        /\ ~lagging => \A k \in DOMAIN entries :
              entries[k].age = Last(entries).age \/ \E j \in DOMAIN file : file[j] = entries[k]
    BY <1>2 DEF Typed, TypeOK, CrashLosesOneSnapshot
  <2> USE DEF store, lock, reads, Goto, Fault
  <2>1. CASE Tick
    <3>1. entries' = Aged(entries) /\ file' = Aged(file) /\ lagging' = lagging
      BY <2>1 DEF Tick
    <3>2. /\ DOMAIN entries' = DOMAIN entries /\ DOMAIN file' = DOMAIN file
          /\ \A k \in DOMAIN entries : entries'[k] =
               [entries[k] EXCEPT !.age = IF @ < Retention THEN @ + 1 ELSE @]
          /\ \A k \in DOMAIN file : file'[k] =
               [file[k] EXCEPT !.age = IF @ < Retention THEN @ + 1 ELSE @]
      BY <3>1 DEF Aged
    <3>3. CASE \E j \in DOMAIN file : file[j] = entries[i]
      BY <3>2, <3>3, <1>2
    <3>4. CASE entries[i].age = Last(entries).age
      <4>1. /\ Len(entries) \in DOMAIN entries /\ Len(entries') = Len(entries)
            /\ i \in 1..Len(entries) /\ Len(entries) \in 1..Len(entries)
        BY <2>0, <3>1, <3>2, <1>2, AgedFacts
      <4>2. /\ entries'[i].age = IF entries[i].age < Retention THEN entries[i].age + 1
                                                               ELSE entries[i].age
            /\ entries'[Len(entries)].age =
                  IF entries[Len(entries)].age < Retention THEN entries[Len(entries)].age + 1
                                                           ELSE entries[Len(entries)].age
        BY <2>0, <3>1, <4>1, AgedFacts
      <4> QED BY <3>4, <4>1, <4>2 DEF Last
    <3> QED BY <1>2, <2>0, <3>1, <3>2, <3>3, <3>4
  <2>2. ASSUME NEW snapshot \in Snapshots, RecordAppends(snapshot)
        PROVE  \/ entries'[i].age = Last(entries').age
               \/ \E j \in DOMAIN file' : file'[j] = entries'[i]
    <3>1. rec = "record" /\ lagging' = lagging /\ file' = file
      BY <2>2 DEF RecordAppends
    <3>2. file = entries
      BY <1>2, <3>1 DEF Saved
    <3> QED BY <1>2, <2>0, <2>2, <3>1, <3>2, AppendedCrash
  <2>3. CASE SaveRenames
    BY <1>2, <2>3 DEF SaveRenames, Saved
  <2>4. CASE Restart
    <3>1. lagging' = (entries' # file) /\ file' = file
      BY <2>4 DEF Restart
    <3>2. entries' = file'
      BY <1>2, <3>1
    <3> QED BY <1>2, <3>2
  <2>5. CASE SaveFails
    BY <1>2, <2>5 DEF SaveFails
  <2>6. CASE RecordBegins \/ RecordRelocks \/ LockGet
    BY <1>2, <2>0, <2>6 DEF RecordBegins, RecordRelocks, LockAsk, LockGet
  <2>7. CASE SaveMarshals \/ RecordReturns
    BY <1>2, <2>0, <2>7 DEF SaveMarshals, RecordReturns
  <2>8. CASE \E r \in Reader : ReaderStep(r) \/ \E kind \in Kinds : Call(r, kind)
    BY <1>2, <2>0, <2>8 DEF ReaderStep, RLock, RUnlock, Call
  <2>9. CASE UNCHANGED vars
    BY <1>2, <2>0, <2>9 DEF vars
  <2> QED
    BY <1>2, <2>1, <2>2, <2>3, <2>4, <2>5, <2>6, <2>7, <2>8, <2>9 DEF Next, RecorderStep
<1>3. Safe /\ [Next]_vars => CrashLosesOneSnapshot'
  BY <1>2 DEF CrashLosesOneSnapshot
<1>4. Safe /\ [Next]_vars => Safe'
  BY <1>3, TypedInductive, SavedInductive
<1> QED BY <1>1, <1>4, PTL DEF Spec

-----------------------------------------------------------------------------
\* Where calculateChange looks, in a history that is in its order and has an entry
\* that is younger than the period
LEMMA ChangeBaseFacts ==
    ASSUME NEW history \in Seq(Entry), Sorted(history), history # <<>>,
           NEW since \in Periods, Last(history).age < since
    PROVE  LET base == history[ChangeBase(history, since)].age
               old == {i \in DOMAIN history : history[i].age >= since}
           IN  IF old = {} THEN \A i \in DOMAIN history : history[i].age <= base
               ELSE base >= since /\ \A i \in old : base <= history[i].age
<1> DEFINE after == {i \in DOMAIN history : history[i].age < since}
           base == history[ChangeBase(history, since)].age
           old == {i \in DOMAIN history : history[i].age >= since}
<1>1. /\ Len(history) \in Nat /\ DOMAIN history = 1..Len(history) /\ since \in Nat
      /\ Len(history) \in 1..Len(history) /\ 1 \in 1..Len(history)
  BY TrendAssumption
<1>2. \A i \in 1..Len(history) : history[i].age \in Nat
  <2> TAKE i \in 1..Len(history)
  <2>1. history[i] \in Entry
    OBVIOUS
  <2> QED BY <2>1, RetentionAssumption DEF Entry
<1>3. /\ Len(history) \in after /\ after \subseteq 1..Len(history)
      /\ \A i \in 1..Len(history) : i \in after <=> history[i].age < since
      /\ \A i : i \in old <=> i \in 1..Len(history) /\ i \notin after
  BY <1>1, <1>2 DEF Last
<1>4. ChangeBase(history, since) = IF after = {} \/ 1 \in after THEN 1 ELSE Min(after) - 1
  BY DEF ChangeBase
<1> HIDE DEF after, old
<1>5. CASE 1 \in after
  <2>1. base = history[1].age /\ base < since
    BY <1>1, <1>3, <1>4, <1>5
  <2>2. \A i \in 1..Len(history) : history[i].age <= base
    <3> TAKE i \in 1..Len(history)
    <3>1. CASE i = 1
      BY <3>1, <2>1, <1>2
    <3>2. CASE i > 1
      <4>1. history[1].age >= history[i].age
        BY <3>2, <1>1 DEF Sorted
      <4> QED BY <4>1, <2>1, <1>1, <1>2
    <3> QED BY <3>1, <3>2
  <2>3. \A i \in 1..Len(history) : i \in after
    <3> TAKE i \in 1..Len(history)
    <3>1. history[i].age <= base /\ history[i].age \in Nat /\ base \in Nat
      BY <1>1, <1>2, <2>1, <2>2
    <3> QED BY <3>1, <2>1, <1>1, <1>3
  <2>4. old = {}
    BY <1>3, <2>3
  <2> QED BY <1>1, <2>2, <2>4 DEF old
<1>6. CASE 1 \notin after
  <2>1. \E m \in after : \A k \in after : m <= k
    BY <1>3, LeastNumber
  <2>2. Min(after) \in after /\ \A k \in after : Min(after) <= k
    BY <2>1 DEF Min
  <2> DEFINE m == Min(after)
  <2>3. m \in 1..Len(history) /\ m # 1 /\ m \in after /\ history[m].age < since
    BY <1>3, <1>6, <2>2
  <2>4. base = history[m - 1].age
    BY <1>3, <1>4, <1>6
  <2> HIDE DEF m
  <2>5. m - 1 \in 1..Len(history) /\ m - 1 \notin after
    BY <1>1, <2>2, <2>3 DEF m
  <2>6. base >= since /\ m - 1 \in old
    BY <1>1, <1>2, <1>3, <2>4, <2>5
  <2>7. ASSUME NEW i \in old
        PROVE  base <= history[i].age
    <3>1. i \in 1..Len(history) /\ history[i].age >= since
      BY <1>1, <1>2, <1>3
    <3>2. i < m
      <4> SUFFICES ASSUME i >= m PROVE FALSE
        BY <2>3, <3>1
      <4>1. i # m
        BY <1>3, <2>3
      <4>2. history[m].age >= history[i].age
        BY <2>3, <3>1, <4>1 DEF Sorted
      <4> QED BY <1>1, <1>2, <2>3, <3>1, <4>2
    <3>3. CASE i = m - 1
      BY <3>3, <2>4, <2>5, <1>2
    <3>4. CASE i < m - 1
      BY <3>1, <3>4, <2>4, <2>5 DEF Sorted
    <3> QED BY <2>3, <3>1, <3>2, <3>3, <3>4
  <2>8. old # {}
    BY <2>6
  <2> QED BY <2>6, <2>7, <2>8 DEF old
<1> QED BY <1>5, <1>6

\* The change over a period is measured from the newest entry that is as old as the
\* period, whatever was pruned, lost or never recorded.
THEOREM ChangesCoverTheirPeriods == Spec => []ChangesCoverPeriods
<1>1. ASSUME Typed, Ordered, NEW p \in Path
      PROVE  History(p) \in Seq(Entry) /\ Sorted(History(p))
  BY <1>1, FilteredFacts DEF Typed, TypeOK, Ordered, History
<1>2. Typed /\ Ordered => ChangesCoverPeriods
  BY <1>1, ChangeBaseFacts DEF ChangesCoverPeriods
<1> QED BY <1>2, OrderedAlways, PTL
=============================================================================
