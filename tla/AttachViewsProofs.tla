-------------------------- MODULE AttachViewsProofs --------------------------
(***************************************************************************)
(* What a session/attach returns of the replay log, whatever the log is:   *)
(* a filtered history has the entries that pass the filter, in their       *)
(* order; newest_turn_first rearranges a history; and the phases of a      *)
(* streamed replay are its pieces.                                         *)
(***************************************************************************)
EXTENDS AttachViews, SequenceTheorems, FiniteSetTheorems, WellFoundedInduction, TLAPS

-----------------------------------------------------------------------------
(***************************************************************************)
(* Induction over the natural numbers, for a set instead of a predicate:   *)
(* no prover can instantiate the library's theorem for predicates, but     *)
(* membership in a set is first-order.                                     *)
(***************************************************************************)

LEMMA LeastNatural ==
    ASSUME NEW T, T \subseteq Nat, T # {}
    PROVE  \E x \in T : \A y \in T : ~(y < x)
<1>1. \E x \in T : \A y \in T : ~ (<<y, x>> \in OpToRel(<, Nat))
    BY WFMin, NatLessThanWellFounded
<1>2. QED
    BY <1>1 DEF OpToRel

LEMMA SetInduction ==
    ASSUME NEW S, 0 \in S, \A n \in Nat : n \in S => n + 1 \in S
    PROVE  \A n \in Nat : n \in S
<1> DEFINE T == Nat \ S
<1>1. SUFFICES ASSUME T # {}
               PROVE  FALSE
    OBVIOUS
<1>2. PICK x \in T : \A y \in T : ~(y < x)
    BY <1>1, LeastNatural
<1>3. x # 0 /\ x - 1 \in Nat
    BY <1>2
<1>4. x - 1 \in T
    BY <1>2, <1>3
<1>5. QED
    BY <1>2, <1>3, <1>4

\* Induction over the length of a sequence.
LEMMA AppendInduction ==
    ASSUME NEW D, NEW S, <<>> \in S,
           \A s \in Seq(D), e \in D : s \in S => Append(s, e) \in S
    PROVE  Seq(D) \subseteq S
<1> DEFINE T == {n \in Nat : \A s \in Seq(D) : Len(s) = n => s \in S}
<1>1. 0 \in T
    <2>1. \A s \in Seq(D) : Len(s) = 0 => s = <<>>
        OBVIOUS
    <2>2. QED
        BY <2>1
<1>2. ASSUME NEW n \in Nat, n \in T PROVE n + 1 \in T
    <2>1. SUFFICES ASSUME NEW s \in Seq(D), Len(s) = n + 1
                   PROVE  s \in S
        BY <1>2
    <2> DEFINE front == SubSeq(s, 1, n)
    <2>2. /\ front \in Seq(D) /\ Len(front) = n
          /\ \A k \in 1..n : front[k] = s[k]
          /\ s[n + 1] \in D
        BY <1>2, <2>1
    <2> HIDE DEF front
    <2>3. s = Append(front, s[n + 1])
        <3>1. /\ Append(front, s[n + 1]) \in Seq(D)
              /\ Len(Append(front, s[n + 1])) = n + 1
              /\ \A k \in 1..n + 1 :
                    Append(front, s[n + 1])[k] = IF k = n + 1 THEN s[n + 1] ELSE front[k]
            BY <1>2, <2>2
        <3>2. \A k \in 1..n + 1 : Append(front, s[n + 1])[k] = s[k]
            BY <1>2, <2>2, <3>1
        <3>3. QED
            BY <2>1, <3>1, <3>2, SeqEqual
    <2>4. front \in S
        BY <1>2, <2>2
    <2>5. QED
        BY <2>2, <2>3, <2>4
<1>3. \A n \in Nat : n \in T
    <2> HIDE DEF T
    <2>1. QED
        BY <1>1, <1>2, SetInduction
<1>4. QED
    BY <1>3

-----------------------------------------------------------------------------
(***************************************************************************)
(* What Kept keeps.                                                        *)
(***************************************************************************)

\* The body of its recursion, of the function g computed so far.
KeptNext(g, n, seq, at) ==
    IF n = 0 THEN <<>>
    ELSE IF n \in at THEN Append(g[n - 1], seq[n])
    ELSE g[n - 1]

LEMMA KeptComputed ==
    ASSUME NEW seq, NEW at, Len(seq) \in Nat
    PROVE  \E g : /\ g = [n \in 0..Len(seq) |-> KeptNext(g, n, seq, at)]
                  /\ Kept(seq, at) = g[Len(seq)]
<1> DEFINE Computes(g, m) == g = [n \in 0..m |-> KeptNext(g, n, seq, at)]
           S == {m \in Nat : \E g : Computes(g, m)}
<1>1. 0 \in S
    <2> DEFINE g == [n \in 0..0 |-> <<>>]
    <2>1. Computes(g, 0)
        BY DEF KeptNext
    <2>2. QED
        BY <2>1
<1>2. ASSUME NEW m \in Nat, m \in S
      PROVE  m + 1 \in S
    <2>1. PICK g : Computes(g, m)
        BY <1>2
    <2> DEFINE h == [n \in 0..m + 1 |-> KeptNext(g, n, seq, at)]
    <2>2. \A n \in 0..m : h[n] = g[n]
        BY <2>1
    <2>3. \A n \in 0..m + 1 : n # 0 => n - 1 \in 0..m
        OBVIOUS
    <2>4. \A n \in 0..m + 1 : KeptNext(g, n, seq, at) = KeptNext(h, n, seq, at)
        BY <2>2, <2>3 DEF KeptNext
    <2> HIDE DEF h
    <2>5. h = [n \in 0..m + 1 |-> KeptNext(g, n, seq, at)]
        BY DEF h
    <2>6. Computes(h, m + 1)
        BY <2>4, <2>5
    <2>7. QED
        BY <2>6
<1>3. Len(seq) \in S
    BY <1>1, <1>2, SetInduction
<1> DEFINE f == CHOOSE g : Computes(g, Len(seq))
<1>4. Computes(f, Len(seq))
    BY <1>3
<1>5. Kept(seq, at) = f[Len(seq)]
    BY DEF Kept, KeptNext
<1>6. QED
    BY <1>4, <1>5

\* pos lists, in ascending order, the positions up to n that are in at, and
\* kept has the elements of seq there.
Enumerates(pos, kept, seq, at, n) ==
    /\ Len(kept) = Len(pos)
    /\ \A j \in 1..Len(pos) : pos[j] \in at \cap 1..n /\ kept[j] = seq[pos[j]]
    /\ \A i, j \in 1..Len(pos) : i < j => pos[i] < pos[j]
    /\ \A k \in at \cap 1..n : \E j \in 1..Len(pos) : pos[j] = k

LEMMA KeptPositions ==
    ASSUME NEW D, NEW seq \in Seq(D), NEW at
    PROVE  /\ Kept(seq, at) \in Seq(D)
           /\ \E pos \in Seq(Nat) : Enumerates(pos, Kept(seq, at), seq, at, Len(seq))
<1> DEFINE N == Len(seq)
<1>1. N \in Nat
    OBVIOUS
<1>2. PICK g : /\ g = [n \in 0..N |-> KeptNext(g, n, seq, at)]
               /\ Kept(seq, at) = g[N]
    BY <1>1, KeptComputed
<1> DEFINE Good(n) == /\ g[n] \in Seq(D)
                      /\ \E pos \in Seq(Nat) : Enumerates(pos, g[n], seq, at, n)
           S == {n \in Nat : n <= N => Good(n)}
<1>3. 0 \in S
    <2>1. g[0] = <<>>
        BY <1>1, <1>2 DEF KeptNext
    <2>2. Enumerates(<<>>, <<>>, seq, at, 0)
        BY DEF Enumerates
    <2>3. <<>> \in Seq(D) /\ <<>> \in Seq(Nat)
        OBVIOUS
    <2>4. Good(0)
        BY <2>1, <2>2, <2>3
    <2>5. QED
        BY <2>4
<1>4. ASSUME NEW n \in Nat, n \in S, n + 1 <= N
      PROVE  Good(n + 1)
    <2>1. Good(n)
        BY <1>1, <1>4
    <2>2. PICK pos \in Seq(Nat) : Enumerates(pos, g[n], seq, at, n)
        BY <2>1
    <2>3. g[n + 1] = KeptNext(g, n + 1, seq, at) /\ seq[n + 1] \in D
        <3>1. n + 1 \in 0..N /\ n + 1 \in 1..N
            BY <1>1, <1>4
        <3>2. g[n + 1] = KeptNext(g, n + 1, seq, at)
            BY <1>2, <3>1
        <3>3. QED
            BY <3>1, <3>2
    <2>4. g[n + 1] = IF n + 1 \in at THEN Append(g[n], seq[n + 1]) ELSE g[n]
        BY <1>4, <2>3 DEF KeptNext
    <2>5. CASE n + 1 \in at
        <3> DEFINE more == Append(pos, n + 1)
        <3>1. /\ more \in Seq(Nat) /\ Len(more) = Len(pos) + 1 /\ Len(pos) \in Nat
              /\ \A j \in 1..Len(pos) : more[j] = pos[j]
              /\ more[Len(pos) + 1] = n + 1
            BY <1>4, <2>2
        <3>2. /\ g[n + 1] \in Seq(D) /\ Len(g[n]) = Len(pos)
              /\ Len(g[n + 1]) = Len(g[n]) + 1
              /\ \A j \in 1..Len(pos) : g[n + 1][j] = g[n][j]
              /\ g[n + 1][Len(pos) + 1] = seq[n + 1]
            <4>1. g[n] \in Seq(D) /\ Len(g[n]) = Len(pos)
                BY <2>1, <2>2 DEF Enumerates
            <4>2. g[n + 1] = Append(g[n], seq[n + 1]) /\ seq[n + 1] \in D
                BY <2>3, <2>4, <2>5
            <4>3. QED
                BY <4>1, <4>2
        <3> HIDE DEF more
        <3>3. \A j \in 1..Len(more) : j = Len(pos) + 1 \/ j \in 1..Len(pos)
            BY <3>1
        <3>4. \A j \in 1..Len(pos) : pos[j] \in at \cap 1..n /\ g[n][j] = seq[pos[j]]
            BY <2>2 DEF Enumerates
        <3>5. \A j \in 1..Len(more) : more[j] \in at \cap 1..n + 1 /\ g[n + 1][j] = seq[more[j]]
            <4>1. ASSUME NEW j \in 1..Len(pos)
                  PROVE  more[j] \in at \cap 1..n + 1 /\ g[n + 1][j] = seq[more[j]]
                <5>1. more[j] = pos[j] /\ g[n + 1][j] = g[n][j]
                    BY <3>1, <3>2
                <5>2. pos[j] \in at /\ pos[j] \in 1..n + 1 /\ g[n][j] = seq[pos[j]]
                    BY <1>4, <3>4
                <5>3. QED
                    BY <5>1, <5>2
            <4>2. n + 1 \in at \cap 1..n + 1
                BY <1>4, <2>5
            <4>3. QED
                BY <3>1, <3>2, <3>3, <4>1, <4>2
        <3>6. \A i, j \in 1..Len(more) : i < j => more[i] < more[j]
            <4>1. \A i, j \in 1..Len(pos) : i < j => pos[i] < pos[j]
                BY <2>2 DEF Enumerates
            <4>2. \A i \in 1..Len(pos) : pos[i] \in Nat /\ pos[i] < n + 1
                BY <1>4, <3>4
            <4>3. ASSUME NEW i \in 1..Len(more), NEW j \in 1..Len(more), i < j
                  PROVE  more[i] < more[j]
                <5>1. i \in 1..Len(pos)
                    BY <3>1, <4>3
                <5>2. CASE j = Len(pos) + 1
                    BY <3>1, <4>2, <5>1, <5>2
                <5>3. CASE j \in 1..Len(pos)
                    BY <3>1, <4>1, <4>3, <5>1, <5>3
                <5>4. QED
                    BY <3>3, <5>2, <5>3
            <4>4. QED
                BY <4>3
        <3>7. ASSUME NEW k \in at \cap 1..n + 1
              PROVE  \E j \in 1..Len(more) : more[j] = k
            <4>1. k = n + 1 \/ k \in at \cap 1..n
                BY <1>4
            <4>2. Len(pos) + 1 \in 1..Len(more) /\ 1..Len(pos) \subseteq 1..Len(more)
                BY <3>1
            <4>3. QED
                BY <2>2, <3>1, <4>1, <4>2 DEF Enumerates
        <3>8. Enumerates(more, g[n + 1], seq, at, n + 1)
            BY <3>1, <3>2, <3>5, <3>6, <3>7 DEF Enumerates
        <3>9. QED
            BY <3>1, <3>2, <3>8
    <2>6. CASE n + 1 \notin at
        <3>1. g[n + 1] = g[n]
            BY <2>4, <2>6
        <3>2. at \cap 1..n + 1 = at \cap 1..n
            BY <1>4, <2>6
        <3>3. Enumerates(pos, g[n + 1], seq, at, n + 1)
            BY <2>2, <3>1, <3>2 DEF Enumerates
        <3>4. QED
            BY <2>1, <3>1, <3>3
    <2>7. QED
        BY <2>5, <2>6
<1>5. N \in S
    <2>1. \A n \in Nat : n \in S => n + 1 \in S
        BY <1>4
    <2> HIDE DEF S
    <2>2. QED
        BY <1>1, <1>3, <2>1, SetInduction
<1>6. QED
    BY <1>1, <1>2, <1>5

-----------------------------------------------------------------------------
(***************************************************************************)
(* Concatenations of sequences of sequences.                               *)
(***************************************************************************)

\* The body of the recursion of FlattenSeq.
FlattenNext(g, i, seqs) == IF i = 1 THEN seqs[i] ELSE g[i - 1] \o seqs[i]

LEMMA FlattenComputed ==
    ASSUME NEW seqs, Len(seqs) \in Nat \ {0}
    PROVE  \E g : /\ g = [i \in 1..Len(seqs) |-> FlattenNext(g, i, seqs)]
                  /\ FlattenSeq(seqs) = g[Len(seqs)]
<1> DEFINE Computes(g, m) == g = [i \in 1..m |-> FlattenNext(g, i, seqs)]
           S == {m \in Nat : \E g : Computes(g, m)}
<1>1. 0 \in S
    <2> DEFINE g == [i \in 1..0 |-> <<>>]
    <2>1. Computes(g, 0)
        OBVIOUS
    <2>2. QED
        BY <2>1
<1>2. ASSUME NEW m \in Nat, m \in S
      PROVE  m + 1 \in S
    <2>1. PICK g : Computes(g, m)
        BY <1>2
    <2> DEFINE h == [i \in 1..m + 1 |-> FlattenNext(g, i, seqs)]
    <2>2. \A i \in 1..m : h[i] = g[i]
        BY <2>1
    <2>3. \A i \in 1..m + 1 : i # 1 => i - 1 \in 1..m
        OBVIOUS
    <2>4. \A i \in 1..m + 1 : FlattenNext(g, i, seqs) = FlattenNext(h, i, seqs)
        BY <2>2, <2>3 DEF FlattenNext
    <2> HIDE DEF h
    <2>5. h = [i \in 1..m + 1 |-> FlattenNext(g, i, seqs)]
        BY DEF h
    <2>6. Computes(h, m + 1)
        BY <2>4, <2>5
    <2>7. QED
        BY <2>6
<1>3. Len(seqs) \in S
    BY <1>1, <1>2, SetInduction
<1> DEFINE f == CHOOSE g : Computes(g, Len(seqs))
<1>4. Computes(f, Len(seqs))
    BY <1>3
<1>5. FlattenSeq(seqs) = f[Len(seqs)]
    BY DEF FlattenSeq, FlattenNext
<1>6. QED
    BY <1>4, <1>5

LEMMA FlattenAppend ==
    ASSUME NEW D, NEW seqs \in Seq(Seq(D)), NEW s \in Seq(D)
    PROVE  FlattenSeq(Append(seqs, s)) = FlattenSeq(seqs) \o s
<1> DEFINE N == Len(seqs)
           more == Append(seqs, s)
<1>1. /\ N \in Nat /\ Len(more) = N + 1
      /\ \A i \in 1..N : more[i] = seqs[i]
      /\ more[N + 1] = s
    OBVIOUS
<1> HIDE DEF more
<1>2. PICK h : /\ h = [i \in 1..N + 1 |-> FlattenNext(h, i, more)]
               /\ FlattenSeq(more) = h[N + 1]
    BY <1>1, FlattenComputed
<1>3. CASE N = 0
    <2>1. FlattenSeq(more) = s
        BY <1>1, <1>2, <1>3 DEF FlattenNext
    <2>2. seqs = <<>> /\ FlattenSeq(seqs) = seqs
        BY <1>3 DEF FlattenSeq
    <2>3. <<>> \o s = s
        OBVIOUS
    <2>4. QED
        BY <2>1, <2>2, <2>3 DEF more
<1>4. CASE N # 0
    <2>1. PICK g : /\ g = [i \in 1..N |-> FlattenNext(g, i, seqs)]
                   /\ FlattenSeq(seqs) = g[N]
        BY <1>1, <1>4, FlattenComputed
    <2> DEFINE S == {n \in Nat : n \in 1..N => h[n] = g[n]}
    <2>2. 0 \in S
        OBVIOUS
    <2>3. ASSUME NEW n \in Nat, n \in S, n + 1 \in 1..N
          PROVE  h[n + 1] = g[n + 1]
        <3>1. h[n + 1] = FlattenNext(h, n + 1, more) /\ g[n + 1] = FlattenNext(g, n + 1, seqs)
            <4>1. n + 1 \in 1..N + 1
                BY <1>1, <2>3
            <4>2. h[n + 1] = FlattenNext(h, n + 1, more)
                BY <1>2, <4>1
            <4>3. g[n + 1] = FlattenNext(g, n + 1, seqs)
                BY <2>1, <2>3
            <4>4. QED
                BY <4>2, <4>3
        <3>2. n # 0 => h[n] = g[n]
            BY <1>1, <2>3
        <3>3. more[n + 1] = seqs[n + 1] /\ (n + 1) - 1 = n /\ (n + 1 = 1 <=> n = 0)
            BY <1>1, <2>3
        <3>4. QED
            BY <3>1, <3>2, <3>3 DEF FlattenNext
    <2>4. N \in S
        <3>1. ASSUME NEW n \in Nat, n \in S PROVE n + 1 \in S
            <4>1. n + 1 \in 1..N => h[n + 1] = g[n + 1]
                BY <2>3, <3>1
            <4>2. QED
                BY <4>1
        <3> HIDE DEF S
        <3>2. QED
            BY <1>1, <2>2, <3>1, SetInduction
    <2>5. h[N] = g[N]
        BY <1>1, <1>4, <2>4
    <2>6. h[N + 1] = h[N] \o s
        <3>1. N + 1 \in 1..N + 1 /\ N + 1 # 1 /\ (N + 1) - 1 = N
            BY <1>1, <1>4
        <3>2. QED
            BY <1>1, <1>2, <3>1 DEF FlattenNext
    <2>7. QED
        BY <1>2, <2>1, <2>5, <2>6 DEF more
<1>5. QED
    BY <1>3, <1>4

LEMMA FlattenEmpty == FlattenSeq(<<>>) = <<>>
BY DEF FlattenSeq

LEMMA FlattenType ==
    ASSUME NEW D, NEW seqs \in Seq(Seq(D))
    PROVE  FlattenSeq(seqs) \in Seq(D)
<1> DEFINE S == {r \in Seq(Seq(D)) : FlattenSeq(r) \in Seq(D)}
<1>1. <<>> \in S
    <2>1. <<>> \in Seq(Seq(D)) /\ <<>> \in Seq(D)
        BY EmptySeq
    <2>2. QED
        BY <2>1, FlattenEmpty
<1>2. ASSUME NEW r \in Seq(Seq(D)), NEW s \in Seq(D), r \in S
      PROVE  Append(r, s) \in S
    <2>1. FlattenSeq(r) \o s \in Seq(D)
        BY <1>2, ConcatProperties
    <2>2. Append(r, s) \in Seq(Seq(D))
        BY AppendProperties
    <2>3. FlattenSeq(Append(r, s)) \in Seq(D)
        BY <2>1, FlattenAppend
    <2>4. QED
        BY <2>2, <2>3
<1> HIDE DEF S
<1>3. Seq(Seq(D)) \subseteq S
    BY <1>1, <1>2, AppendInduction
<1>4. QED
    BY <1>3 DEF S

LEMMA FlattenOne ==
    ASSUME NEW D, NEW s \in Seq(D)
    PROVE  FlattenSeq(<<s>>) = s
<1>1. <<s>> = Append(<<>>, s) /\ <<>> \in Seq(Seq(D)) /\ <<>> \o s = s
    OBVIOUS
<1>2. QED
    BY <1>1, FlattenAppend, FlattenEmpty

LEMMA FlattenConcat ==
    ASSUME NEW D, NEW r \in Seq(Seq(D)), NEW t \in Seq(Seq(D))
    PROVE  FlattenSeq(r \o t) = FlattenSeq(r) \o FlattenSeq(t)
<1> DEFINE S == {u \in Seq(Seq(D)) : FlattenSeq(r \o u) = FlattenSeq(r) \o FlattenSeq(u)}
<1>1. FlattenSeq(r) \in Seq(D)
    BY FlattenType
<1>2. <<>> \in S
    <2>1. r \o <<>> = r /\ FlattenSeq(r) \o <<>> = FlattenSeq(r)
        BY <1>1, ConcatEmptySeq
    <2>2. <<>> \in Seq(Seq(D))
        BY EmptySeq
    <2>3. FlattenSeq(r \o <<>>) = FlattenSeq(r) \o FlattenSeq(<<>>)
        BY <2>1, FlattenEmpty
    <2>4. QED
        BY <2>2, <2>3
<1>3. ASSUME NEW u \in Seq(Seq(D)), NEW s \in Seq(D), u \in S
      PROVE  Append(u, s) \in S
    <2>1. r \o Append(u, s) = Append(r \o u, s)
        <3>1. /\ Append(u, s) = u \o <<s>> /\ Append(r \o u, s) = (r \o u) \o <<s>>
              /\ r \o u \in Seq(Seq(D))
            BY AppendIsConcat
        <3>2. <<s>> \in Seq(Seq(D))
            OBVIOUS
        <3>3. QED
            BY <3>1, <3>2, ConcatAssociative, SMTT(30)
    <2>2. r \o u \in Seq(Seq(D)) /\ FlattenSeq(u) \in Seq(D)
        BY FlattenType
    <2>3. FlattenSeq(r \o Append(u, s)) = FlattenSeq(r \o u) \o s
        BY <2>1, <2>2, FlattenAppend
    <2>4. FlattenSeq(Append(u, s)) = FlattenSeq(u) \o s
        BY FlattenAppend
    <2>5. (FlattenSeq(r) \o FlattenSeq(u)) \o s = FlattenSeq(r) \o (FlattenSeq(u) \o s)
        BY <1>1, <2>2, ConcatAssociative, SMTT(30)
    <2>6. FlattenSeq(r \o u) = FlattenSeq(r) \o FlattenSeq(u)
        BY <1>3
    <2>7. FlattenSeq(r \o Append(u, s)) = FlattenSeq(r) \o FlattenSeq(Append(u, s))
        BY <2>3, <2>4, <2>5, <2>6
    <2>8. QED
        BY <2>7
<1> HIDE DEF S
<1>4. Seq(Seq(D)) \subseteq S
    BY <1>2, <1>3, AppendInduction
<1>5. QED
    BY <1>4 DEF S

LEMMA FlattenStillOpen ==
    ASSUME NEW D, NEW group \in Seq(D)
    PROVE  StillOpen(group) \in Seq(Seq(D)) /\ FlattenSeq(StillOpen(group)) = group
<1>1. <<>> \in Seq(Seq(D))
    BY EmptySeq
<1>2. <<group>> \in Seq(Seq(D))
    BY <1>1, AppendProperties, <<group>> = Append(<<>>, group)
<1>3. QED
    BY <1>1, <1>2, FlattenOne, FlattenEmpty DEF StillOpen

\* As long as each other, and with the same elements.
SameEntries(s, t) == Len(s) = Len(t) /\ ToSet(s) = ToSet(t)

LEMMA ToSetConcat ==
    ASSUME NEW D, NEW s \in Seq(D), NEW t \in Seq(D)
    PROVE  ToSet(s \o t) = ToSet(s) \cup ToSet(t)
<1>1. /\ Len(s) \in Nat /\ Len(t) \in Nat
      /\ DOMAIN s = 1..Len(s) /\ DOMAIN t = 1..Len(t) /\ DOMAIN (s \o t) = 1..Len(s) + Len(t)
      /\ \A i \in 1..Len(s) : (s \o t)[i] = s[i]
      /\ \A i \in 1..Len(t) : (s \o t)[Len(s) + i] = t[i]
    OBVIOUS
<1>2. \A i \in 1..Len(s) + Len(t) :
        i \in 1..Len(s) \/ \E j \in 1..Len(t) : i = Len(s) + j
    <2>1. SUFFICES ASSUME NEW i \in 1..Len(s) + Len(t), i \notin 1..Len(s)
                   PROVE  \E j \in 1..Len(t) : i = Len(s) + j
        OBVIOUS
    <2>2. i - Len(s) \in 1..Len(t) /\ i = Len(s) + (i - Len(s))
        BY <1>1, <2>1
    <2>3. QED
        BY <2>2
<1>3. \A i \in 1..Len(s) : i \in 1..Len(s) + Len(t)
    BY <1>1
<1>4. \A i \in 1..Len(t) : Len(s) + i \in 1..Len(s) + Len(t)
    BY <1>1
<1>5. ASSUME NEW x \in ToSet(s \o t) PROVE x \in ToSet(s) \cup ToSet(t)
    <2>1. PICK i \in 1..Len(s) + Len(t) : x = (s \o t)[i]
        BY <1>1 DEF ToSet
    <2>2. QED
        BY <1>1, <1>2, <2>1 DEF ToSet
<1>6. ASSUME NEW i \in 1..Len(s) PROVE s[i] \in ToSet(s \o t)
    BY <1>1, <1>3 DEF ToSet
<1>7. ASSUME NEW i \in 1..Len(t) PROVE t[i] \in ToSet(s \o t)
    BY <1>1, <1>4 DEF ToSet
<1>8. ToSet(s) \subseteq ToSet(s \o t) /\ ToSet(t) \subseteq ToSet(s \o t)
    BY <1>1, <1>6, <1>7 DEF ToSet
<1>9. QED
    BY <1>5, <1>8

LEMMA SameConcat ==
    ASSUME NEW D, NEW s \in Seq(D), NEW t \in Seq(D), NEW u \in Seq(D), NEW v \in Seq(D),
           SameEntries(s, u), SameEntries(t, v)
    PROVE  SameEntries(s \o t, u \o v)
<1>1. Len(s \o t) = Len(s) + Len(t) /\ Len(u \o v) = Len(u) + Len(v)
    BY ConcatProperties
<1>2. ToSet(s \o t) = ToSet(s) \cup ToSet(t) /\ ToSet(u \o v) = ToSet(u) \cup ToSet(v)
    BY ToSetConcat
<1>3. QED
    BY <1>1, <1>2 DEF SameEntries

LEMMA SameSwapped ==
    ASSUME NEW D, NEW s \in Seq(D), NEW t \in Seq(D)
    PROVE  SameEntries(s \o t, t \o s)
<1>1. Len(s \o t) = Len(s) + Len(t) /\ Len(t \o s) = Len(t) + Len(s)
    BY ConcatProperties
<1>2. Len(s) + Len(t) = Len(t) + Len(s)
    OBVIOUS
<1>3. ToSet(s \o t) = ToSet(s) \cup ToSet(t) /\ ToSet(t \o s) = ToSet(t) \cup ToSet(s)
    BY ToSetConcat
<1>4. QED
    BY <1>1, <1>2, <1>3 DEF SameEntries

\* A concatenation in the other order has the same elements.
LEMMA FlattenReversed ==
    ASSUME NEW D, NEW seqs \in Seq(Seq(D))
    PROVE  Reverse(seqs) \in Seq(Seq(D)) /\ SameEntries(FlattenSeq(Reverse(seqs)), FlattenSeq(seqs))
<1> DEFINE Good(r) == /\ Reverse(r) \in Seq(Seq(D))
                      /\ SameEntries(FlattenSeq(Reverse(r)), FlattenSeq(r))
           S == {r \in Seq(Seq(D)) : Good(r)}
<1>1. <<>> \in S
    <2>1. Reverse(<<>>) = <<>>
        BY DEF Reverse
    <2>2. <<>> \in Seq(Seq(D))
        BY EmptySeq
    <2>3. Good(<<>>)
        BY <2>1, <2>2 DEF SameEntries
    <2>4. QED
        BY <2>2, <2>3
<1>2. ASSUME NEW r \in Seq(Seq(D)), NEW g \in Seq(D), r \in S
      PROVE  Append(r, g) \in S
    <2> DEFINE back == Reverse(r)
    <2>1. back \in Seq(Seq(D)) /\ SameEntries(FlattenSeq(back), FlattenSeq(r))
        BY <1>2
    <2>2. <<g>> \in Seq(Seq(D))
        BY EmptySeq, AppendProperties, <<g>> = Append(<<>>, g)
    <2>3. Reverse(Append(r, g)) = <<g>> \o back
        <3> DEFINE n == Len(r)
        <3>1. /\ n \in Nat /\ Len(Append(r, g)) = n + 1
              /\ \A i \in 1..n : Append(r, g)[i] = r[i]
              /\ Append(r, g)[n + 1] = g
            OBVIOUS
        <3>2. Reverse(Append(r, g)) = [i \in 1..n + 1 |-> Append(r, g)[(n + 1 - i) + 1]]
            BY <3>1 DEF Reverse
        <3>3. Len(back) = n /\ \A i \in 1..n : back[i] = r[(n - i) + 1]
            BY <3>1 DEF Reverse
        <3>4. /\ <<g>> \o back \in Seq(Seq(D)) /\ Len(<<g>> \o back) = n + 1
              /\ (<<g>> \o back)[1] = g
              /\ \A i \in 1..n : (<<g>> \o back)[i + 1] = back[i]
            BY <2>1, <2>2, <3>1, <3>3
        <3>5. <<g>> \o back = [i \in 1..n + 1 |-> (<<g>> \o back)[i]]
            BY <3>4
        <3>6. ASSUME NEW i \in 1..n + 1
              PROVE  (<<g>> \o back)[i] = Append(r, g)[(n + 1 - i) + 1]
            <4>1. CASE i = 1
                BY <3>1, <3>4, <4>1
            <4>2. CASE i # 1
                <5>1. i - 1 \in 1..n /\ i = (i - 1) + 1 /\ (n + 1 - i) + 1 = (n - (i - 1)) + 1
                    BY <3>1, <4>2
                <5>2. (n - (i - 1)) + 1 \in 1..n
                    BY <3>1, <5>1
                <5>3. (<<g>> \o back)[i] = back[i - 1]
                    BY <3>4, <5>1
                <5>4. QED
                    BY <3>1, <3>3, <5>1, <5>2, <5>3
            <4>3. QED
                BY <4>1, <4>2
        <3> HIDE DEF back
        <3>7. QED
            BY <3>2, <3>5, <3>6
    <2> HIDE DEF back
    <2>4. /\ FlattenSeq(r) \in Seq(D) /\ FlattenSeq(back) \in Seq(D)
          /\ <<g>> \o back \in Seq(Seq(D)) /\ Append(r, g) \in Seq(Seq(D))
        BY <2>1, <2>2, FlattenType, ConcatProperties, AppendProperties
    <2>5. FlattenSeq(<<g>> \o back) = g \o FlattenSeq(back)
        <3>1. FlattenSeq(<<g>> \o back) = FlattenSeq(<<g>>) \o FlattenSeq(back)
            BY <2>1, <2>2, FlattenConcat
        <3>2. FlattenSeq(<<g>>) = g
            BY FlattenOne
        <3>3. QED
            BY <3>1, <3>2
    <2>6. FlattenSeq(Append(r, g)) = FlattenSeq(r) \o g
        BY FlattenAppend
    <2>7. SameEntries(FlattenSeq(back) \o g, FlattenSeq(r) \o g)
        <3>1. SameEntries(g, g)
            BY DEF SameEntries
        <3>2. QED
            BY <2>1, <2>4, <3>1, SameConcat
    <2>8. SameEntries(g \o FlattenSeq(back), FlattenSeq(back) \o g)
        BY <2>4, SameSwapped
    <2>9. Good(Append(r, g))
        BY <2>3, <2>4, <2>5, <2>6, <2>7, <2>8 DEF SameEntries
    <2>10. QED
        BY <2>4, <2>9
<1> HIDE DEF S
<1>3. Seq(Seq(D)) \subseteq S
    BY <1>1, <1>2, AppendInduction
<1>4. QED
    BY <1>3 DEF S

-----------------------------------------------------------------------------
(***************************************************************************)
(* How a history is divided into turns.                                    *)
(***************************************************************************)

Filing(D) == [prefix : Seq(D), groups : Seq(Seq(D)), current : Seq(D)]
NothingFiled == [prefix |-> <<>>, groups |-> <<>>, current |-> <<>>]

\* The body of the recursion of Filed.
FiledNext(g, n, history) ==
    IF n = 0 THEN NothingFiled ELSE file_entry(g[n - 1], history[n])

LEMMA FiledComputed ==
    ASSUME NEW history, Len(history) \in Nat
    PROVE  \E g : /\ g = [n \in 0..Len(history) |-> FiledNext(g, n, history)]
                  /\ Filed(history) = g[Len(history)]
<1> DEFINE Computes(g, m) == g = [n \in 0..m |-> FiledNext(g, n, history)]
           S == {m \in Nat : \E g : Computes(g, m)}
<1>1. 0 \in S
    <2> DEFINE g == [n \in 0..0 |-> NothingFiled]
    <2>1. Computes(g, 0)
        BY DEF FiledNext
    <2>2. QED
        BY <2>1
<1>2. ASSUME NEW m \in Nat, m \in S
      PROVE  m + 1 \in S
    <2>1. PICK g : Computes(g, m)
        BY <1>2
    <2> DEFINE h == [n \in 0..m + 1 |-> FiledNext(g, n, history)]
    <2>2. \A n \in 0..m : h[n] = g[n]
        BY <2>1
    <2>3. \A n \in 0..m + 1 : n # 0 => n - 1 \in 0..m
        OBVIOUS
    <2>4. \A n \in 0..m + 1 : FiledNext(g, n, history) = FiledNext(h, n, history)
        BY <2>2, <2>3 DEF FiledNext
    <2> HIDE DEF h
    <2>5. h = [n \in 0..m + 1 |-> FiledNext(g, n, history)]
        BY DEF h
    <2>6. Computes(h, m + 1)
        BY <2>4, <2>5
    <2>7. QED
        BY <2>6
<1>3. Len(history) \in S
    BY <1>1, <1>2, SetInduction
<1> DEFINE f == CHOOSE g : Computes(g, Len(history))
<1>4. Computes(f, Len(history))
    BY <1>3
<1>5. Filed(history) = f[Len(history)]
    BY DEF Filed, FiledNext, NothingFiled
<1>6. QED
    BY <1>4, <1>5

LEMMA FiledEmpty == Filed(<<>>) = NothingFiled
<1>1. PICK g : /\ g = [n \in 0..0 |-> FiledNext(g, n, <<>>)]
               /\ Filed(<<>>) = g[0]
    BY FiledComputed
<1>2. QED
    BY <1>1 DEF FiledNext

LEMMA FiledAppend ==
    ASSUME NEW D, NEW history \in Seq(D), NEW entry \in D
    PROVE  Filed(Append(history, entry)) = file_entry(Filed(history), entry)
<1> DEFINE N == Len(history)
           more == Append(history, entry)
<1>1. /\ N \in Nat /\ Len(more) = N + 1
      /\ \A i \in 1..N : more[i] = history[i]
      /\ more[N + 1] = entry
    OBVIOUS
<1> HIDE DEF more
<1>2. PICK h : /\ h = [n \in 0..N + 1 |-> FiledNext(h, n, more)]
               /\ Filed(more) = h[N + 1]
    BY <1>1, FiledComputed
<1>3. PICK g : /\ g = [n \in 0..N |-> FiledNext(g, n, history)]
               /\ Filed(history) = g[N]
    BY <1>1, FiledComputed
<1> DEFINE S == {n \in Nat : n \in 0..N => h[n] = g[n]}
<1>4. 0 \in S
    <2>1. h[0] = NothingFiled /\ g[0] = NothingFiled
        BY <1>1, <1>2, <1>3 DEF FiledNext
    <2>2. QED
        BY <2>1
<1>5. ASSUME NEW n \in Nat, n \in S PROVE n + 1 \in S
    <2>1. SUFFICES ASSUME n + 1 \in 0..N PROVE h[n + 1] = g[n + 1]
        OBVIOUS
    <2>2. n \in 0..N /\ n + 1 \in 1..N /\ n + 1 \in 0..N + 1 /\ (n + 1) - 1 = n /\ n + 1 # 0
        BY <1>1, <2>1
    <2>3. h[n + 1] = FiledNext(h, n + 1, more)
        BY <1>2, <2>2
    <2>4. g[n + 1] = FiledNext(g, n + 1, history)
        BY <1>3, <2>1
    <2>5. h[n] = g[n]
        BY <1>5, <2>2
    <2>6. QED
        BY <1>1, <2>2, <2>3, <2>4, <2>5 DEF FiledNext
<1>6. N \in S
    <2> HIDE DEF S
    <2>1. QED
        BY <1>1, <1>4, <1>5, SetInduction
<1>7. h[N] = g[N]
    BY <1>1, <1>6
<1>8. h[N + 1] = file_entry(h[N], entry)
    <2>1. N + 1 \in 0..N + 1 /\ N + 1 # 0 /\ (N + 1) - 1 = N
        BY <1>1
    <2>2. QED
        BY <1>1, <1>2, <2>1 DEF FiledNext
<1>9. QED
    BY <1>2, <1>3, <1>7, <1>8 DEF more

OpensTurn(entry) == entry.frame.method = "turn_started"
ClosesTurn(entry) == entry.frame.method \in {"turn_complete", "turn_cancelled"}

\* What it is to file an entry.
Files(filed, entry, next) ==
    /\ OpensTurn(entry) =>
        /\ next.groups = filed.groups \o StillOpen(filed.current)
        /\ next.current = <<entry>>
        /\ next.prefix = filed.prefix
    /\ ~OpensTurn(entry) /\ filed.current = <<>> =>
        /\ next.prefix = Append(filed.prefix, entry)
        /\ next.groups = filed.groups /\ next.current = <<>>
    /\ ~OpensTurn(entry) /\ filed.current # <<>> /\ ClosesTurn(entry) =>
        /\ next.groups = Append(filed.groups, Append(filed.current, entry))
        /\ next.current = <<>>
        /\ next.prefix = filed.prefix
    /\ ~OpensTurn(entry) /\ filed.current # <<>> /\ ~ClosesTurn(entry) =>
        /\ next.current = Append(filed.current, entry)
        /\ next.groups = filed.groups /\ next.prefix = filed.prefix

LEMMA FileEntry ==
    ASSUME NEW D, NEW filed \in Filing(D), NEW entry \in D
    PROVE  /\ file_entry(filed, entry) \in Filing(D)
           /\ Files(filed, entry, file_entry(filed, entry))
<1> DEFINE next == file_entry(filed, entry)
<1>1. /\ filed.prefix \in Seq(D) /\ filed.groups \in Seq(Seq(D)) /\ filed.current \in Seq(D)
      /\ filed = [prefix |-> filed.prefix, groups |-> filed.groups, current |-> filed.current]
    BY DEF Filing
<1>2. CASE OpensTurn(entry)
    <2>1. next = [prefix |-> filed.prefix, groups |-> filed.groups \o StillOpen(filed.current),
                  current |-> <<entry>>]
        BY <1>1, <1>2 DEF file_entry, OpensTurn
    <2>2. filed.groups \o StillOpen(filed.current) \in Seq(Seq(D)) /\ <<entry>> \in Seq(D)
        BY <1>1, FlattenStillOpen, ConcatProperties
    <2>3. QED
        BY <1>1, <1>2, <2>1, <2>2 DEF Filing, Files
<1>3. CASE ~OpensTurn(entry) /\ filed.current = <<>>
    <2>1. next = [prefix |-> Append(filed.prefix, entry), groups |-> filed.groups,
                  current |-> filed.current]
        BY <1>1, <1>3 DEF file_entry, OpensTurn
    <2>2. Append(filed.prefix, entry) \in Seq(D)
        BY <1>1
    <2>3. QED
        BY <1>1, <1>3, <2>1, <2>2 DEF Filing, Files
<1>4. CASE ~OpensTurn(entry) /\ filed.current # <<>> /\ ClosesTurn(entry)
    <2>1. next = [prefix |-> filed.prefix,
                  groups |-> Append(filed.groups, Append(filed.current, entry)),
                  current |-> <<>>]
        BY <1>1, <1>4 DEF file_entry, OpensTurn, ClosesTurn
    <2>2. Append(filed.groups, Append(filed.current, entry)) \in Seq(Seq(D)) /\ <<>> \in Seq(D)
        BY <1>1, AppendProperties, EmptySeq
    <2>3. QED
        BY <1>1, <1>4, <2>1, <2>2 DEF Filing, Files
<1>5. CASE ~OpensTurn(entry) /\ filed.current # <<>> /\ ~ClosesTurn(entry)
    <2>1. next = [prefix |-> filed.prefix, groups |-> filed.groups,
                  current |-> Append(filed.current, entry)]
        BY <1>1, <1>5 DEF file_entry, OpensTurn, ClosesTurn
    <2>2. Append(filed.current, entry) \in Seq(D)
        BY <1>1
    <2>3. QED
        BY <1>1, <1>5, <2>1, <2>2 DEF Filing, Files
<1>6. QED
    BY <1>2, <1>3, <1>4, <1>5

\* All that is filed, in the order in which it is shown.
Total(filed) == filed.prefix \o (FlattenSeq(filed.groups) \o filed.current)

LEMMA TotalType ==
    ASSUME NEW D, NEW filed \in Filing(D)
    PROVE  /\ filed.prefix \in Seq(D) /\ filed.groups \in Seq(Seq(D)) /\ filed.current \in Seq(D)
           /\ FlattenSeq(filed.groups) \in Seq(D)
           /\ FlattenSeq(filed.groups) \o filed.current \in Seq(D)
           /\ Total(filed) \in Seq(D)
<1>1. /\ filed.prefix \in Seq(D) /\ filed.groups \in Seq(Seq(D)) /\ filed.current \in Seq(D)
    BY DEF Filing
<1>2. FlattenSeq(filed.groups) \in Seq(D)
    BY <1>1, FlattenType
<1>3. FlattenSeq(filed.groups) \o filed.current \in Seq(D)
    BY <1>1, <1>2, ConcatProperties
<1>4. QED
    BY <1>1, <1>2, <1>3, ConcatProperties DEF Total

\* Filing an entry adds it at the end, unless it lies behind a group and
\* outside of every group.
LEMMA FileInOrder ==
    ASSUME NEW D, NEW filed \in Filing(D), NEW entry \in D,
           OpensTurn(entry) \/ filed.current # <<>> \/ filed.groups = <<>>
    PROVE  Total(file_entry(filed, entry)) = Append(Total(filed), entry)
<1> DEFINE next == file_entry(filed, entry)
           p == filed.prefix
           gs == filed.groups
           c == filed.current
<1>1. p \in Seq(D) /\ gs \in Seq(Seq(D)) /\ c \in Seq(D) /\ FlattenSeq(gs) \in Seq(D)
    BY TotalType
<1>2. <<>> \in Seq(D) /\ <<entry>> \in Seq(D) /\ FlattenSeq(gs) \o c \in Seq(D)
    BY <1>1, ConcatProperties
<1> DEFINE q == FlattenSeq(gs)
<1>0. /\ p \o ((q \o c) \o <<entry>>) = Append(p \o (q \o c), entry)
      /\ q \o Append(c, entry) = (q \o c) \o <<entry>>
    <2>1. p \in Seq(D) /\ q \in Seq(D) /\ c \in Seq(D)
        BY <1>1
    <2> HIDE DEF p, q, c
    <2>2. <<entry>> \in Seq(D) /\ q \o c \in Seq(D)
        BY <2>1, ConcatProperties
    <2>3. p \o (q \o c) \in Seq(D)
        BY <2>1, <2>2, ConcatProperties
    <2>4. Append(p \o (q \o c), entry) = (p \o (q \o c)) \o <<entry>>
        BY <2>3, AppendIsConcat
    <2>5. Append(c, entry) = c \o <<entry>>
        BY <2>1, AppendIsConcat
    <2>6. p \o ((q \o c) \o <<entry>>) = (p \o (q \o c)) \o <<entry>>
        BY <2>1, <2>2, ConcatAssociative, SMTT(30)
    <2>7. q \o (c \o <<entry>>) = (q \o c) \o <<entry>>
        BY <2>1, <2>2, ConcatAssociative, SMTT(30)
    <2>8. QED
        BY <2>4, <2>5, <2>6, <2>7
<1>3. Append(Total(filed), entry) = p \o ((FlattenSeq(gs) \o c) \o <<entry>>)
    BY <1>0 DEF Total
<1>4. CASE OpensTurn(entry)
    <2>1. next.groups = gs \o StillOpen(c) /\ next.current = <<entry>> /\ next.prefix = p
        BY <1>4, FileEntry DEF Files
    <2>2. FlattenSeq(gs \o StillOpen(c)) = FlattenSeq(gs) \o FlattenSeq(StillOpen(c))
        <3> HIDE DEF gs, c
        <3>1. StillOpen(c) \in Seq(Seq(D))
            BY <1>1, FlattenStillOpen
        <3>2. QED
            BY <1>1, <3>1, FlattenConcat
    <2>3. FlattenSeq(StillOpen(c)) = c
        BY <1>1, FlattenStillOpen
    <2>4. QED
        BY <1>3, <2>1, <2>2, <2>3 DEF Total
<1>5. CASE ~OpensTurn(entry) /\ c = <<>>
    <2>1. next.prefix = Append(p, entry) /\ next.groups = gs /\ next.current = <<>> /\ gs = <<>>
        BY <1>5, FileEntry DEF Files
    <2>2. FlattenSeq(gs) = <<>> /\ <<>> \o <<>> = <<>>
        BY <2>1, FlattenEmpty
    <2>3. Append(p, entry) \in Seq(D)
        BY <1>1
    <2>4. p \o <<>> = p /\ Append(p, entry) \o <<>> = Append(p, entry)
        BY <1>1, <2>3, ConcatEmptySeq
    <2>5. QED
        BY <1>5, <2>1, <2>2, <2>4 DEF Total
<1>6. CASE ~OpensTurn(entry) /\ c # <<>> /\ ClosesTurn(entry)
    <2>1. next.groups = Append(gs, Append(c, entry)) /\ next.current = <<>> /\ next.prefix = p
        BY <1>6, FileEntry DEF Files
    <2>2. Append(c, entry) \in Seq(D)
        BY <1>1
    <2>3. FlattenSeq(Append(gs, Append(c, entry))) = FlattenSeq(gs) \o Append(c, entry)
        BY <1>1, <2>2, FlattenAppend
    <2>4. FlattenSeq(gs) \o Append(c, entry) = (FlattenSeq(gs) \o c) \o <<entry>>
        BY <1>0
    <2>5. (FlattenSeq(gs) \o c) \o <<entry>> \in Seq(D)
        BY <1>2, ConcatProperties
    <2>6. ((FlattenSeq(gs) \o c) \o <<entry>>) \o <<>> = (FlattenSeq(gs) \o c) \o <<entry>>
        BY <2>5, ConcatEmptySeq
    <2>7. QED
        BY <1>3, <2>1, <2>3, <2>4, <2>6 DEF Total
<1>7. CASE ~OpensTurn(entry) /\ c # <<>> /\ ~ClosesTurn(entry)
    <2>1. next.current = Append(c, entry) /\ next.groups = gs /\ next.prefix = p
        BY <1>7, FileEntry DEF Files
    <2>2. FlattenSeq(gs) \o Append(c, entry) = (FlattenSeq(gs) \o c) \o <<entry>>
        BY <1>0
    <2>3. QED
        BY <1>3, <2>1, <2>2 DEF Total
<1>8. QED
    BY <1>4, <1>5, <1>6, <1>7

\* No entry is lost or filed twice.
LEMMA FileAll ==
    ASSUME NEW D, NEW filed \in Filing(D), NEW entry \in D
    PROVE  SameEntries(Total(file_entry(filed, entry)), Append(Total(filed), entry))
<1>1. CASE OpensTurn(entry) \/ filed.current # <<>>
    BY <1>1, FileInOrder DEF SameEntries
<1>2. CASE ~OpensTurn(entry) /\ filed.current = <<>>
    <2> DEFINE p == filed.prefix
               q == FlattenSeq(filed.groups) \o filed.current
               next == file_entry(filed, entry)
    <2>1. p \in Seq(D) /\ q \in Seq(D) /\ <<entry>> \in Seq(D)
        BY TotalType
    <2>2. Append(p, entry) = p \o <<entry>> /\ p \o <<entry>> \in Seq(D)
        BY <2>1, AppendIsConcat, ConcatProperties
    <2>3. next.prefix = Append(p, entry) /\ next.groups = filed.groups
          /\ next.current = filed.current
        BY <1>2, FileEntry DEF Files
    <2>4. Total(next) = (p \o <<entry>>) \o q
        BY <2>2, <2>3 DEF Total
    <2>5. (p \o <<entry>>) \o q = p \o (<<entry>> \o q)
        <3> HIDE DEF p, q
        <3>1. QED
            BY <2>1, ConcatAssociative, SMTT(30)
    <2>6. Total(filed) = p \o q /\ p \o q \in Seq(D)
        BY <2>1, ConcatProperties DEF Total
    <2>7. Append(Total(filed), entry) = (p \o q) \o <<entry>>
        BY <2>6, AppendIsConcat
    <2>8. (p \o q) \o <<entry>> = p \o (q \o <<entry>>)
        <3> HIDE DEF p, q
        <3>1. QED
            BY <2>1, ConcatAssociative, SMTT(30)
    <2>9. SameEntries(<<entry>> \o q, q \o <<entry>>) /\ SameEntries(p, p)
        BY <2>1, SameSwapped DEF SameEntries
    <2>10. <<entry>> \o q \in Seq(D) /\ q \o <<entry>> \in Seq(D)
        BY <2>1, ConcatProperties
    <2> HIDE DEF p, q, next
    <2>11. SameEntries(p \o (<<entry>> \o q), p \o (q \o <<entry>>))
        BY <2>1, <2>9, <2>10, SameConcat
    <2>12. QED
        BY <2>4, <2>5, <2>7, <2>8, <2>11 DEF next
<1>3. QED
    BY <1>1, <1>2

LEMMA FiledType ==
    ASSUME NEW D, NEW history \in Seq(D)
    PROVE  Filed(history) \in Filing(D) /\ SameEntries(Total(Filed(history)), history)
<1> DEFINE Good(h) == Filed(h) \in Filing(D) /\ SameEntries(Total(Filed(h)), h)
           S == {h \in Seq(D) : Good(h)}
<1>1. <<>> \in S
    <2>1. <<>> \in Seq(D) /\ <<>> \in Seq(Seq(D)) /\ <<>> \o <<>> = <<>>
        BY EmptySeq, ConcatEmptySeq
    <2>2. NothingFiled \in Filing(D)
        BY <2>1 DEF NothingFiled, Filing
    <2>3. Total(NothingFiled) = <<>>
        BY <2>1, FlattenEmpty DEF NothingFiled, Total
    <2>4. Good(<<>>)
        BY <2>2, <2>3, FiledEmpty DEF SameEntries
    <2>5. QED
        BY <2>1, <2>4
<1>2. ASSUME NEW h \in Seq(D), NEW e \in D, h \in S
      PROVE  Append(h, e) \in S
    <2>1. Filed(h) \in Filing(D) /\ SameEntries(Total(Filed(h)), h)
        BY <1>2
    <2>2. Filed(Append(h, e)) = file_entry(Filed(h), e)
        BY FiledAppend
    <2>3. file_entry(Filed(h), e) \in Filing(D)
        BY <2>1, FileEntry DEF Files
    <2>4. SameEntries(Total(file_entry(Filed(h), e)), Append(Total(Filed(h)), e))
        BY <2>1, FileAll
    <2>5. Total(Filed(h)) \in Seq(D) /\ <<e>> \in Seq(D) /\ SameEntries(<<e>>, <<e>>)
        BY <2>1, TotalType DEF SameEntries
    <2>6. SameEntries(Total(Filed(h)) \o <<e>>, h \o <<e>>)
        BY <2>1, <2>5, SameConcat
    <2>7. Append(Total(Filed(h)), e) = Total(Filed(h)) \o <<e>> /\ Append(h, e) = h \o <<e>>
        BY <2>5, AppendIsConcat
    <2>8. Good(Append(h, e))
        BY <2>2, <2>3, <2>4, <2>6, <2>7 DEF SameEntries
    <2>9. Append(h, e) \in Seq(D)
        BY AppendProperties
    <2>10. QED
        BY <2>8, <2>9
<1> HIDE DEF S
<1>3. Seq(D) \subseteq S
    BY <1>1, <1>2, AppendInduction
<1>4. QED
    BY <1>3 DEF S

\* newest_turn_first rearranges a history.
LEMMA NewestTurnFirst ==
    ASSUME NEW D, NEW history \in Seq(D)
    PROVE  /\ turn_groups(history).prefix \in Seq(D)
           /\ turn_groups(history).groups \in Seq(Seq(D))
           /\ newest_turn_first_history(history) \in Seq(D)
           /\ SameEntries(newest_turn_first_history(history), history)
<1> DEFINE p == Filed(history).prefix
           gs == Filed(history).groups
           c == Filed(history).current
           all == gs \o StillOpen(c)
<1>1. /\ p \in Seq(D) /\ gs \in Seq(Seq(D)) /\ c \in Seq(D)
      /\ SameEntries(p \o (FlattenSeq(gs) \o c), history)
    BY FiledType, TotalType DEF Total
<1>2. turn_groups(history).prefix = p /\ turn_groups(history).groups = all
    BY DEF turn_groups
<1>3. newest_turn_first_history(history) = p \o FlattenSeq(Reverse(all))
    BY <1>2 DEF newest_turn_first_history
<1> HIDE DEF p, gs, c
<1>4. StillOpen(c) \in Seq(Seq(D)) /\ FlattenSeq(StillOpen(c)) = c
    BY <1>1, FlattenStillOpen
<1>5. all \in Seq(Seq(D)) /\ FlattenSeq(all) = FlattenSeq(gs) \o c
    BY <1>1, <1>4, FlattenConcat, ConcatProperties
<1> HIDE DEF all
<1>6. /\ Reverse(all) \in Seq(Seq(D)) /\ SameEntries(FlattenSeq(Reverse(all)), FlattenSeq(all))
    BY <1>5, FlattenReversed
<1>7. FlattenSeq(Reverse(all)) \in Seq(D) /\ FlattenSeq(all) \in Seq(D)
    BY <1>5, <1>6, FlattenType
<1>8. p \o FlattenSeq(Reverse(all)) \in Seq(D)
    BY <1>1, <1>7, ConcatProperties
<1>9. SameEntries(p \o FlattenSeq(Reverse(all)), p \o FlattenSeq(all))
    <2>1. SameEntries(p, p)
        BY DEF SameEntries
    <2>2. QED
        BY <1>1, <1>6, <1>7, <2>1, SameConcat
<1>10. QED
    BY <1>1, <1>2, <1>3, <1>5, <1>8, <1>9 DEF SameEntries

-----------------------------------------------------------------------------
(***************************************************************************)
(* A history that is ordered already is divided into the same groups: none *)
(* of its entries lies outside of every group and behind one.              *)
(***************************************************************************)

\* The histories that filing leaves in their order.
Stable(D) == {h \in Seq(D) : Total(Filed(h)) = h}

\* What can be added to any of them.
Addable(D) == {g \in Seq(D) : \A h \in Stable(D) : h \o g \in Stable(D)}

\* The same, and it leaves a group open.
Opening(D) ==
    {g \in Addable(D) : g # <<>> /\ \A h \in Stable(D) : Filed(h \o g).current # <<>>}

\* What lies outside of every group.
Outside(D) ==
    {h \in Stable(D) : Filed(h).groups = <<>> /\ Filed(h).current = <<>>}

LEMMA AddOne ==
    ASSUME NEW D, NEW h \in Stable(D), NEW e \in D,
           OpensTurn(e) \/ Filed(h).current # <<>> \/ Filed(h).groups = <<>>
    PROVE  Append(h, e) \in Stable(D)
<1>1. h \in Seq(D) /\ Total(Filed(h)) = h /\ Filed(h) \in Filing(D)
    BY FiledType DEF Stable
<1>2. Filed(Append(h, e)) = file_entry(Filed(h), e)
    BY <1>1, FiledAppend
<1>3. Total(file_entry(Filed(h), e)) = Append(Total(Filed(h)), e)
    BY <1>1, FileInOrder
<1>4. Append(h, e) \in Seq(D)
    BY <1>1, AppendProperties
<1>5. QED
    BY <1>1, <1>2, <1>3, <1>4 DEF Stable

LEMMA OpenGroup ==
    ASSUME NEW D, NEW e \in D, OpensTurn(e)
    PROVE  <<e>> \in Opening(D)
<1>1. ASSUME NEW h \in Stable(D)
      PROVE  h \o <<e>> \in Stable(D) /\ Filed(h \o <<e>>).current # <<>>
    <2>1. h \in Seq(D) /\ Filed(h) \in Filing(D)
        BY FiledType DEF Stable
    <2>2. h \o <<e>> = Append(h, e)
        BY <2>1, AppendIsConcat
    <2>3. Filed(Append(h, e)).current = <<e>>
        <3>1. Files(Filed(h), e, Filed(Append(h, e)))
            BY <2>1, FiledAppend, FileEntry
        <3>2. QED
            BY <3>1 DEF Files
    <2>4. <<e>> # <<>>
        OBVIOUS
    <2>5. QED
        BY <2>2, <2>3, <2>4, AddOne
<1>2. <<e>> \in Seq(D) /\ <<e>> # <<>>
    OBVIOUS
<1>3. QED
    BY <1>1, <1>2 DEF Opening, Addable

LEMMA MoreOfAGroup ==
    ASSUME NEW D, NEW g \in Opening(D), NEW e \in D, ~OpensTurn(e)
    PROVE  /\ Append(g, e) \in Addable(D)
           /\ ~ClosesTurn(e) => Append(g, e) \in Opening(D)
<1>1. g \in Seq(D)
    BY DEF Opening, Addable
<1>2. Append(g, e) \in Seq(D) /\ Append(g, e) # <<>>
    BY <1>1, AppendProperties
<1>3. ASSUME NEW h \in Stable(D)
      PROVE  /\ h \o Append(g, e) \in Stable(D)
             /\ ~ClosesTurn(e) => Filed(h \o Append(g, e)).current # <<>>
    <2> DEFINE f == h \o g
    <2>1. f \in Stable(D) /\ Filed(f).current # <<>>
        BY DEF Opening, Addable
    <2>2. h \o Append(g, e) = Append(f, e)
        <3>1. h \in Seq(D) /\ f \in Seq(D) /\ <<e>> \in Seq(D)
            BY <2>1 DEF Stable
        <3>2. Append(g, e) = g \o <<e>> /\ Append(f, e) = f \o <<e>>
            BY <1>1, <3>1, AppendIsConcat
        <3>3. (h \o g) \o <<e>> = h \o (g \o <<e>>)
            BY <1>1, <3>1, ConcatAssociative, SMTT(30)
        <3>4. QED
            BY <3>2, <3>3
    <2> HIDE DEF f
    <2>3. Append(f, e) \in Stable(D)
        BY <2>1, AddOne
    <2>4. f \in Seq(D) /\ Filed(f) \in Filing(D)
        BY <2>1, FiledType DEF Stable
    <2>5. ~ClosesTurn(e) => Filed(Append(f, e)).current = Append(Filed(f).current, e)
        <3>1. Files(Filed(f), e, Filed(Append(f, e)))
            BY <2>4, FiledAppend, FileEntry
        <3>2. QED
            BY <2>1, <3>1 DEF Files
    <2>6. Append(Filed(f).current, e) # <<>>
        <3>1. Filed(f).current \in Seq(D)
            BY <2>4 DEF Filing
        <3>2. QED
            BY <3>1, AppendProperties, SMTT(30)
    <2>7. QED
        BY <2>2, <2>3, <2>5, <2>6
<1>4. QED
    BY <1>2, <1>3 DEF Opening, Addable

LEMMA MoreOutside ==
    ASSUME NEW D, NEW h \in Outside(D), NEW e \in D, ~OpensTurn(e)
    PROVE  Append(h, e) \in Outside(D)
<1>1. /\ h \in Stable(D) /\ h \in Seq(D) /\ Filed(h) \in Filing(D)
      /\ Filed(h).groups = <<>> /\ Filed(h).current = <<>>
    BY FiledType DEF Outside, Stable
<1>2. Append(h, e) \in Stable(D)
    BY <1>1, AddOne
<1>3. Filed(Append(h, e)).groups = <<>> /\ Filed(Append(h, e)).current = <<>>
    <2>1. Files(Filed(h), e, Filed(Append(h, e)))
        BY <1>1, FiledAppend, FileEntry
    <2>2. QED
        BY <1>1, <2>1 DEF Files
<1>4. QED
    BY <1>2, <1>3 DEF Outside

\* What a history is divided into: the prefix and groups that can be put
\* together in any order.
LEMMA FiledPieces ==
    ASSUME NEW D, NEW history \in Seq(D)
    PROVE  /\ Filed(history).prefix \in Outside(D)
           /\ Filed(history).groups \in Seq(Addable(D))
           /\ Filed(history).current = <<>> \/ Filed(history).current \in Opening(D)
<1> DEFINE Good(h) == /\ Filed(h).prefix \in Outside(D)
                      /\ Filed(h).groups \in Seq(Addable(D))
                      /\ Filed(h).current = <<>> \/ Filed(h).current \in Opening(D)
           S == {h \in Seq(D) : Good(h)}
<1>1. <<>> \in S
    <2>1. <<>> \in Seq(D) /\ <<>> \in Seq(Addable(D)) /\ <<>> \o <<>> = <<>>
        BY EmptySeq, ConcatEmptySeq
    <2>2. Total(NothingFiled) = <<>>
        BY <2>1, FlattenEmpty DEF NothingFiled, Total
    <2>3. <<>> \in Outside(D)
        BY <2>1, <2>2, FiledEmpty DEF Outside, Stable, NothingFiled
    <2>4. /\ Filed(<<>>).prefix = <<>> /\ Filed(<<>>).groups = <<>>
          /\ Filed(<<>>).current = <<>>
        BY FiledEmpty DEF NothingFiled
    <2>5. Good(<<>>)
        BY <2>1, <2>3, <2>4
    <2>6. QED
        BY <2>1, <2>5
<1>2. ASSUME NEW h \in Seq(D), NEW e \in D, h \in S
      PROVE  Append(h, e) \in S
    <2> DEFINE f == Filed(h)
               next == Filed(Append(h, e))
    <2>1. f \in Filing(D) /\ next = file_entry(f, e) /\ Good(h)
        BY <1>2, FiledType, FiledAppend
    <2>2. Good(Append(h, e))
        <3>0. Files(f, e, next)
            BY <2>1, FileEntry
        <3>1. CASE OpensTurn(e)
            <4>1. next.groups = f.groups \o StillOpen(f.current) /\ next.current = <<e>>
                  /\ next.prefix = f.prefix
                BY <3>0, <3>1 DEF Files
            <4>2. StillOpen(f.current) \in Seq(Addable(D))
                <5>1. f.current # <<>> => f.current \in Addable(D)
                    BY <2>1 DEF Opening
                <5>2. QED
                    BY <5>1 DEF StillOpen
            <4>3. next.groups \in Seq(Addable(D))
                BY <2>1, <4>1, <4>2, ConcatProperties
            <4>4. <<e>> \in Opening(D)
                BY <3>1, OpenGroup
            <4>5. QED
                BY <2>1, <4>1, <4>3, <4>4
        <3>2. CASE ~OpensTurn(e) /\ f.current = <<>>
            <4>1. next.prefix = Append(f.prefix, e) /\ next.groups = f.groups
                  /\ next.current = <<>>
                BY <3>0, <3>2 DEF Files
            <4>2. Append(f.prefix, e) \in Outside(D)
                BY <2>1, <3>2, MoreOutside
            <4>3. QED
                BY <2>1, <4>1, <4>2
        <3>3. CASE ~OpensTurn(e) /\ f.current # <<>> /\ ClosesTurn(e)
            <4>1. next.groups = Append(f.groups, Append(f.current, e)) /\ next.current = <<>>
                  /\ next.prefix = f.prefix
                BY <3>0, <3>3 DEF Files
            <4>2. Append(f.current, e) \in Addable(D)
                BY <2>1, <3>3, MoreOfAGroup
            <4>3. next.groups \in Seq(Addable(D))
                BY <2>1, <4>1, <4>2, AppendProperties
            <4>4. QED
                BY <2>1, <4>1, <4>3
        <3>4. CASE ~OpensTurn(e) /\ f.current # <<>> /\ ~ClosesTurn(e)
            <4>1. next.current = Append(f.current, e) /\ next.groups = f.groups
                  /\ next.prefix = f.prefix
                BY <3>0, <3>4 DEF Files
            <4>2. Append(f.current, e) \in Opening(D)
                BY <2>1, <3>4, MoreOfAGroup
            <4>3. QED
                BY <2>1, <4>1, <4>2
        <3>5. QED
            BY <3>1, <3>2, <3>3, <3>4
    <2>3. Append(h, e) \in Seq(D)
        BY AppendProperties
    <2>4. QED
        BY <2>2, <2>3
<1> HIDE DEF S
<1>3. Seq(D) \subseteq S
    BY <1>1, <1>2, AppendInduction
<1>4. QED
    BY <1>3 DEF S

LEMMA AddMany ==
    ASSUME NEW D, NEW h \in Stable(D), NEW groups \in Seq(Addable(D))
    PROVE  /\ groups \in Seq(Seq(D))
           /\ h \o FlattenSeq(groups) \in Stable(D)
<1> DEFINE Good(gs) == gs \in Seq(Seq(D)) /\ h \o FlattenSeq(gs) \in Stable(D)
           S == {gs \in Seq(Addable(D)) : Good(gs)}
<1>1. h \in Seq(D)
    BY DEF Stable
<1>2. <<>> \in S
    <2>1. <<>> \in Seq(Seq(D)) /\ <<>> \in Seq(Addable(D)) /\ h \o <<>> = h
        BY <1>1, EmptySeq, ConcatEmptySeq
    <2>2. Good(<<>>)
        BY <2>1, FlattenEmpty
    <2>3. QED
        BY <2>1, <2>2
<1>3. ASSUME NEW gs \in Seq(Addable(D)), NEW g \in Addable(D), gs \in S
      PROVE  Append(gs, g) \in S
    <2>1. gs \in Seq(Seq(D)) /\ h \o FlattenSeq(gs) \in Stable(D) /\ g \in Seq(D)
        BY <1>3 DEF Addable
    <2>2. (h \o FlattenSeq(gs)) \o g \in Stable(D)
        BY <2>1 DEF Addable
    <2>3. FlattenSeq(gs) \in Seq(D)
        BY <2>1, FlattenType
    <2>4. (h \o FlattenSeq(gs)) \o g = h \o (FlattenSeq(gs) \o g)
        BY <1>1, <2>1, <2>3, ConcatAssociative, SMTT(30)
    <2>5. FlattenSeq(Append(gs, g)) = FlattenSeq(gs) \o g
        BY <2>1, FlattenAppend
    <2>6. Append(gs, g) \in Seq(Seq(D)) /\ Append(gs, g) \in Seq(Addable(D))
        BY <2>1, AppendProperties
    <2>7. Good(Append(gs, g))
        BY <2>2, <2>4, <2>5, <2>6
    <2>8. QED
        BY <2>6, <2>7
<1> HIDE DEF S
<1>4. Seq(Addable(D)) \subseteq S
    BY <1>2, <1>3, AppendInduction
<1>5. QED
    BY <1>4 DEF S

LEMMA NewestIsInOrder ==
    ASSUME NEW D, NEW history \in Seq(D)
    PROVE  newest_turn_first_history(history) \in Stable(D)
<1> DEFINE p == Filed(history).prefix
           gs == Filed(history).groups
           c == Filed(history).current
           all == gs \o StillOpen(c)
           back == Reverse(all)
<1>1. /\ p \in Outside(D) /\ gs \in Seq(Addable(D))
      /\ c = <<>> \/ c \in Opening(D)
    BY FiledPieces
<1>2. newest_turn_first_history(history) = p \o FlattenSeq(back)
    BY DEF newest_turn_first_history, turn_groups
<1> HIDE DEF p, gs, c
<1>3. StillOpen(c) \in Seq(Addable(D))
    <2>1. c # <<>> => c \in Addable(D)
        BY <1>1 DEF Opening
    <2>2. QED
        BY <2>1 DEF StillOpen
<1>4. all \in Seq(Addable(D))
    BY <1>1, <1>3, ConcatProperties
<1> HIDE DEF all
<1>5. back \in Seq(Addable(D))
    <2>1. Len(all) \in Nat /\ \A i \in 1..Len(all) : all[(Len(all) - i) + 1] \in Addable(D)
        BY <1>4
    <2>2. back = [i \in 1..Len(all) |-> all[(Len(all) - i) + 1]]
        BY DEF Reverse
    <2>3. QED
        BY <2>1, <2>2
<1> HIDE DEF back
<1>6. p \in Stable(D)
    BY <1>1 DEF Outside
<1>7. QED
    BY <1>2, <1>5, <1>6, AddMany

LEMMA Pair == \A x, y : <<x>> \o <<y>> = <<x, y>>
<1>1. SUFFICES ASSUME NEW x, NEW y PROVE <<x>> \o <<y>> = <<x, y>>
    OBVIOUS
<1> DEFINE S == {x, y}
<1>2. <<x>> \in Seq(S) /\ <<y>> \in Seq(S) /\ Len(<<x>>) = 1 /\ Len(<<y>>) = 1
    OBVIOUS
<1>3. /\ <<x>> \o <<y>> \in Seq(S) /\ Len(<<x>> \o <<y>>) = 2
      /\ (<<x>> \o <<y>>)[1] = x /\ (<<x>> \o <<y>>)[2] = y
    BY <1>2
<1>4. <<x, y>> \in Seq(S) /\ Len(<<x, y>>) = 2 /\ <<x, y>>[1] = x /\ <<x, y>>[2] = y
    OBVIOUS
<1>5. \A i \in 1..2 : (<<x>> \o <<y>>)[i] = <<x, y>>[i]
    BY <1>3, <1>4
<1>6. QED
    BY <1>3, <1>4, <1>5, SeqEqual

\* The phases of a history that is in order, and those of a chronological
\* one, are the history.
LEMMA PhasesInOrder ==
    ASSUME NEW D, NEW history \in Seq(D), NEW order,
           order = "newest_turn_first" => history \in Stable(D)
    PROVE  LET phases == replay_stream_phases(order, history)
               pieces == [k \in DOMAIN phases |-> phases[k].frames]
           IN pieces \in Seq(Seq(D)) /\ pieces # <<>> /\ FlattenSeq(pieces) = history
<1> DEFINE phases == replay_stream_phases(order, history)
           pieces == [k \in DOMAIN phases |-> phases[k].frames]
           f == Filed(history)
           all == f.groups \o StillOpen(f.current)
           p == f.prefix
<1>1. /\ f \in Filing(D)
      /\ order = "newest_turn_first" => p \o (FlattenSeq(f.groups) \o f.current) = history
    BY FiledType DEF Stable, Total
<1>2. /\ f.groups \in Seq(Seq(D)) /\ f.current \in Seq(D) /\ p \in Seq(D)
      /\ StillOpen(f.current) \in Seq(Seq(D))
      /\ FlattenSeq(StillOpen(f.current)) = f.current
    BY <1>1, TotalType, FlattenStillOpen
<1>3. all \in Seq(Seq(D)) /\ FlattenSeq(all) = FlattenSeq(f.groups) \o f.current
    <2> HIDE DEF f
    <2> DEFINE open == StillOpen(f.current)
    <2> HIDE DEF open
    <2>1. open \in Seq(Seq(D)) /\ all = f.groups \o open /\ FlattenSeq(open) = f.current
        BY <1>2 DEF open
    <2>2. FlattenSeq(f.groups \o open) = FlattenSeq(f.groups) \o FlattenSeq(open)
        BY <1>2, <2>1, FlattenConcat, Zenon
    <2>3. f.groups \o open \in Seq(Seq(D))
        BY <1>2, <2>1, ConcatProperties, Zenon
    <2>4. QED
        BY <2>1, <2>2, <2>3
<1>4. order = "newest_turn_first" => p \o FlattenSeq(all) = history
    BY <1>1, <1>3
<1>5. turn_groups(history).prefix = p /\ turn_groups(history).groups = all
    BY DEF turn_groups
<1>6. CASE order # "newest_turn_first"
    <2>1. phases = <<replay_phase("backfill", history)>>
        BY <1>6 DEF replay_stream_phases
    <2>2. pieces = <<history>>
        BY <2>1 DEF replay_phase
    <2>3. <<history>> \in Seq(Seq(D))
        BY EmptySeq, AppendProperties, <<history>> = Append(<<>>, history)
    <2>4. FlattenSeq(<<history>>) = history /\ <<history>> # <<>>
        BY FlattenOne, Len(<<history>>) = 1, Len(<<>>) = 0
    <2> HIDE DEF phases
    <2>5. QED
        BY <2>2, <2>3, <2>4 DEF phases
<1>7. CASE order = "newest_turn_first" /\ all = <<>>
    <2>1. phases = <<replay_phase("latest_segment", p)>>
        BY <1>5, <1>7 DEF replay_stream_phases
    <2>2. pieces = <<p>>
        BY <2>1 DEF replay_phase
    <2>3. p = history
        BY <1>2, <1>4, <1>7, FlattenEmpty, ConcatEmptySeq
    <2>4. <<p>> \in Seq(Seq(D))
        BY <1>2, EmptySeq, AppendProperties, <<p>> = Append(<<>>, p)
    <2>5. FlattenSeq(<<p>>) = p /\ <<p>> # <<>>
        BY <1>2, FlattenOne, Len(<<p>>) = 1, Len(<<>>) = 0
    <2> HIDE DEF p, phases
    <2>6. QED
        BY <2>2, <2>3, <2>4, <2>5 DEF phases
<1>8. CASE order = "newest_turn_first" /\ all # <<>>
    <2> DEFINE latest == p \o Head(all)
               backfill == FlattenSeq(Tail(all))
    <2>1. Head(all) \in Seq(D) /\ Tail(all) \in Seq(Seq(D)) /\ all = <<Head(all)>> \o Tail(all)
        <3> HIDE DEF all
        <3>1. Head(all) \in Seq(D) /\ Tail(all) \in Seq(Seq(D)) /\ all = Append(<<>>, Head(all)) \o Tail(all)
            BY <1>3, <1>8
        <3>2. QED
            BY <3>1, Append(<<>>, Head(all)) = <<Head(all)>>
    <2>2. latest \in Seq(D) /\ backfill \in Seq(D)
        <3> HIDE DEF all, p
        <3>1. QED
            BY <1>2, <2>1, ConcatProperties, FlattenType
    <2>3. FlattenSeq(all) = Head(all) \o backfill
        <3> HIDE DEF all
        <3>1. <<Head(all)>> \in Seq(Seq(D))
            BY <2>1, EmptySeq, AppendProperties, <<Head(all)>> = Append(<<>>, Head(all))
        <3>2. FlattenSeq(<<Head(all)>> \o Tail(all)) = FlattenSeq(<<Head(all)>>) \o FlattenSeq(Tail(all))
            BY <2>1, <3>1, FlattenConcat
        <3>3. FlattenSeq(<<Head(all)>>) = Head(all)
            BY <2>1, FlattenOne
        <3>4. QED
            BY <2>1, <3>2, <3>3
    <2>4. latest \o backfill = history
        <3>1. (p \o Head(all)) \o backfill = p \o (Head(all) \o backfill)
            <4> DEFINE first == Head(all)
            <4>1. p \in Seq(D) /\ first \in Seq(D) /\ backfill \in Seq(D)
                BY <1>2, <2>1, <2>2
            <4> HIDE DEF first, p, backfill
            <4>2. (p \o first) \o backfill = p \o (first \o backfill)
                BY <4>1, ConcatAssociative, SMTT(30)
            <4>3. QED
                BY <4>2 DEF first
        <3>2. QED
            BY <1>4, <1>8, <2>3, <3>1
    <2>5. phases = <<replay_phase("latest_segment", latest)>>
                   \o IF backfill = <<>> THEN <<>> ELSE <<replay_phase("backfill", backfill)>>
        BY <1>5, <1>8 DEF replay_stream_phases, Older
    <2> HIDE DEF latest, backfill, all, p, f, phases
    <2>6. CASE backfill = <<>>
        <3>1. phases = <<replay_phase("latest_segment", latest)>>
            BY <2>5, <2>6
        <3>2. pieces = <<latest>>
            BY <3>1 DEF replay_phase
        <3>3. latest = history
            BY <2>2, <2>4, <2>6, ConcatEmptySeq
        <3>4. <<latest>> \in Seq(Seq(D))
            BY <2>2, EmptySeq, AppendProperties, <<latest>> = Append(<<>>, latest)
        <3>5. QED
            <4>1. <<latest>> # <<>>
                BY Len(<<latest>>) = 1, Len(<<>>) = 0
            <4>2. FlattenSeq(<<latest>>) = latest
                BY <2>2, FlattenOne
            <4>3. QED
                BY <3>2, <3>3, <3>4, <4>1, <4>2 DEF phases
    <2>7. CASE backfill # <<>>
        <3>1. phases = <<replay_phase("latest_segment", latest), replay_phase("backfill", backfill)>>
            BY <2>5, <2>7, Pair
        <3>2. pieces = <<latest, backfill>>
            BY <3>1 DEF replay_phase
        <3>3. <<latest>> \in Seq(Seq(D)) /\ <<latest, backfill>> = Append(<<latest>>, backfill)
            BY <2>2, EmptySeq, AppendProperties, <<latest>> = Append(<<>>, latest)
        <3>4. FlattenSeq(Append(<<latest>>, backfill)) = FlattenSeq(<<latest>>) \o backfill
            BY <2>2, <3>3, FlattenAppend
        <3>5. FlattenSeq(<<latest>>) = latest
            BY <2>2, FlattenOne
        <3>6. Append(<<latest>>, backfill) \in Seq(Seq(D))
            BY <2>2, <3>3, AppendProperties
        <3>7. <<latest, backfill>> # <<>>
            BY Len(<<latest, backfill>>) = 2, Len(<<>>) = 0
        <3>8. QED
            BY <2>4, <3>2, <3>3, <3>4, <3>5, <3>6, <3>7 DEF phases
    <2>8. QED
        BY <2>6, <2>7
<1>9. QED
    BY <1>6, <1>7, <1>8
=============================================================================
