---------------------------- MODULE FormatProofs ----------------------------
(***************************************************************************)
(* Proofs about what is read back from bytes: UECP frames, for any frames  *)
(* and any way their bytes are cut into datagrams; AF packets, from any    *)
(* chunks and fragments with Reed-Solomon parity; ETI(NI) frames, from any *)
(* TAG items; and about the CRCs of any message in any pieces.             *)
(*                                                                         *)
(* What the loops over bytes compute is proved by induction, which rests   *)
(* on every set of numbers having a least one: Numbered takes a set where  *)
(* the library's induction theorems take a predicate.                      *)
(***************************************************************************)
EXTENDS UecpFrame, EdiRs, EtiNi, Crc, SequenceTheorems, FiniteSetTheorems,
        WellFoundedInduction, TLAPS

------------------------------------------------------------------------------
(* Induction *)

\* A set of numbers that has 0 and, with a number, the next one has all of
\* them.
LEMMA Numbered ==
  ASSUME NEW N \in Nat, NEW G \in SUBSET (0..N), 0 \in G,
         \A n \in 1..N : n - 1 \in G => n \in G
  PROVE  G = 0..N
<1> DEFINE R == OpToRel(<, Nat)
           T == (0..N) \ G
<1>1. IsWellFoundedOn(R, Nat)
  BY NatLessThanWellFounded
<1>2. SUFFICES ASSUME T # {} PROVE FALSE
  OBVIOUS
<1>3. T \subseteq Nat
  OBVIOUS
<1>4. PICK x \in T : \A y \in T : ~(<<y, x>> \in R)
  <2> HIDE DEF R, T
  <2> QED BY <1>1, <1>2, <1>3, WFMin
<1>5. \A y \in T : ~(y < x)
  BY <1>3, <1>4 DEF OpToRel
<1>6. x \in 1..N /\ x \notin G
  BY <1>3
<1>7. x - 1 \in 0..N /\ x - 1 < x
  BY <1>6
<1>8. x - 1 \notin G
  BY <1>6
<1> QED BY <1>5, <1>7, <1>8

\* f has what a loop has computed after each of its k steps.
Loop(f, k, S, base, step) ==
  /\ f \in [0..k -> S] /\ f[0] = base
  /\ \A n \in 1..k : f[n] = step[<<f[n - 1], n>>]

\* What a loop computes exists.
LEMMA LoopExists ==
  ASSUME NEW S, NEW base \in S, NEW N \in Nat, NEW step \in [S \X (1..N) -> S]
  PROVE  \E f : Loop(f, N, S, base, step)
<1> DEFINE Upto(k, f) == Loop(f, k, S, base, step)
           G == {k \in 0..N : \E f : Upto(k, f)}
<1>1. 0 \in G
  <2>1. Upto(0, [i \in 0..0 |-> base])
    BY DEF Loop
  <2> HIDE DEF Upto
  <2> QED BY <2>1
<1>2. ASSUME NEW k \in 1..N, k - 1 \in G PROVE k \in G
  <2>1. PICK f : Upto(k - 1, f)
    BY <1>2
  <2> DEFINE g == [i \in 0..k |-> IF i < k THEN f[i] ELSE step[<<f[k - 1], k>>]]
  <2>2. f[k - 1] \in S
    BY <2>1 DEF Loop
  <2>3. g \in [0..k -> S]
    BY <2>1, <2>2 DEF Loop
  <2>4. g[0] = base
    BY <2>1 DEF Loop
  <2>5. ASSUME NEW n \in 1..k PROVE g[n] = step[<<g[n - 1], n>>]
    <3>0. g[n - 1] = f[n - 1]
      OBVIOUS
    <3>1. CASE n = k
      <4>1. g[n] = step[<<f[k - 1], k>>]
        BY <3>1
      <4> QED BY <3>0, <3>1, <4>1
    <3>2. CASE n # k
      <4>1. n \in 1..(k - 1)
        BY <3>2
      <4>2. f[n] = step[<<f[n - 1], n>>]
        BY <2>1, <4>1 DEF Loop
      <4>3. g[n] = f[n]
        BY <4>1
      <4> QED BY <3>0, <4>2, <4>3
    <3> QED BY <3>1, <3>2
  <2>6. Upto(k, g)
    <3> HIDE DEF g
    <3> QED BY <2>3, <2>4, <2>5 DEF Loop
  <2>7. k \in 0..N
    OBVIOUS
  <2> HIDE DEF Upto, g
  <2> QED BY <2>6, <2>7
<1>3. G = 0..N
  <2> HIDE DEF G
  <2>1. G \in SUBSET (0..N)
    BY DEF G
  <2> QED BY <1>1, <1>2, <2>1, Numbered
<1>4. N \in G
  BY <1>3
<1> QED BY <1>4

------------------------------------------------------------------------------
(* Numbers *)

LEMMA Times ==
  ASSUME NEW a \in Nat, NEW b \in Nat, NEW c \in Nat
  PROVE  /\ c * a \in Nat /\ c * a = a * c
         /\ c * (a + 1) = c * a + c
         /\ a <= b => c * a <= c * b
<1>1. c * a \in Nat /\ c * a = a * c /\ c * (a + 1) = c * a + c
  OBVIOUS
<1>2. ASSUME a <= b PROVE c * a <= c * b
  <2>1. PICK d \in Nat : b = a + d
    <3>1. b - a \in Nat /\ b = a + (b - a)
      BY <1>2
    <3> QED BY <3>1
  <2>2. c * (a + d) = c * a + c * d /\ c * d \in Nat /\ c * a \in Nat
    OBVIOUS
  <2> QED BY <2>1, <2>2
<1> QED BY <1>1, <1>2

LEMMA Within ==
  ASSUME NEW x \in Nat, NEW y \in Nat, NEW m \in Nat, NEW n \in Nat, NEW j \in 1..y
  PROVE  /\ x + y <= m => x + j \in 1..(m + n) /\ x + j <= m
         /\ m = x /\ y = n => /\ x + j \in 1..(m + n) /\ ~(x + j <= m)
                             /\ (x + j) - m = j
OBVIOUS

\* Division with remainder.
LEMMA DivMod ==
  ASSUME NEW x \in Nat, NEW d \in Nat \ {0}
  PROVE  /\ x \div d \in Nat /\ x % d \in 0..(d - 1)
         /\ x = d * (x \div d) + (x % d)
OBVIOUS

------------------------------------------------------------------------------
(* Sequences joined *)

\* What is joined after each of the sequences.
Joined(seqs) ==
  CHOOSE flatten : flatten = [i \in 1..Len(seqs) |->
    IF i = 1 THEN seqs[i] ELSE flatten[i - 1] \o seqs[i]]

LEMMA JoinedIs ==
  ASSUME NEW S, NEW seqs \in Seq(Seq(S)), Len(seqs) > 0
  PROVE  /\ FlattenSeq(seqs) = Joined(seqs)[Len(seqs)]
         /\ Joined(seqs)[1] = seqs[1]
         /\ \A i \in 2..Len(seqs) : Joined(seqs)[i] = Joined(seqs)[i - 1] \o seqs[i]
<1> DEFINE N == Len(seqs)
           T == Seq(S)
           step == [x \in T \X (1..N) |->
                      IF x[2] = 1 THEN seqs[1] ELSE x[1] \o seqs[x[2]]]
           Body(g) == [i \in 1..N |-> IF i = 1 THEN seqs[i] ELSE g[i - 1] \o seqs[i]]
<1>1. N \in Nat /\ N > 0 /\ \A n \in 1..N : seqs[n] \in T
  BY LenProperties, ElementOfSeq
<1>2. step \in [T \X (1..N) -> T] /\ <<>> \in T
  <2>1. ASSUME NEW x \in T \X (1..N)
        PROVE  (IF x[2] = 1 THEN seqs[1] ELSE x[1] \o seqs[x[2]]) \in T
    <3>1. x[1] \in Seq(S) /\ seqs[x[2]] \in Seq(S) /\ seqs[1] \in Seq(S)
      BY <1>1
    <3>2. x[1] \o seqs[x[2]] \in Seq(S)
      BY <3>1, ConcatProperties
    <3> QED BY <3>1, <3>2
  <2>2. <<>> \in T
    BY EmptySeq
  <2> QED BY <2>1, <2>2
<1>3. PICK h : Loop(h, N, T, <<>>, step)
  <2> HIDE DEF step, N, T
  <2> QED BY <1>1, <1>2, LoopExists
<1> DEFINE f == [i \in 1..N |-> h[i]]
<1>4. f = Body(f)
  <2>1. ASSUME NEW i \in 1..N
        PROVE  f[i] = IF i = 1 THEN seqs[i] ELSE f[i - 1] \o seqs[i]
    <3>1. h[i - 1] \in T /\ h[i] = step[<<h[i - 1], i>>]
      <4> HIDE DEF step, T
      <4>1. i - 1 \in 0..N
        BY <1>1
      <4> QED BY <4>1, <1>3 DEF Loop
    <3>2. step[<<h[i - 1], i>>] = IF i = 1 THEN seqs[1] ELSE h[i - 1] \o seqs[i]
      BY <3>1
    <3>3. i # 1 => i - 1 \in 1..N
      BY <1>1
    <3> QED BY <3>1, <3>2, <3>3
  <2> HIDE DEF N
  <2> QED BY <2>1
<1>5. Joined(seqs) = Body(Joined(seqs))
  <2> HIDE DEF f
  <2> QED BY <1>4 DEF Joined
<1> DEFINE g == Joined(seqs)
<1>6. g[1] = seqs[1] /\ \A i \in 2..N : g[i] = g[i - 1] \o seqs[i]
  <2> HIDE DEF g
  <2>1. g = Body(g)
    BY <1>5 DEF g
  <2> HIDE DEF N
  <2>2. \A i \in 1..N : Body(g)[i] = IF i = 1 THEN seqs[i] ELSE g[i - 1] \o seqs[i]
    OBVIOUS
  <2>3. 1 \in 1..N
    BY <1>1
  <2> HIDE DEF Body
  <2>4. \A i \in 1..N : g[i] = IF i = 1 THEN seqs[i] ELSE g[i - 1] \o seqs[i]
    BY <2>1, <2>2
  <2>5. g[1] = seqs[1]
    BY <2>3, <2>4
  <2>6. ASSUME NEW i \in 2..N PROVE g[i] = g[i - 1] \o seqs[i]
    <3>1. i \in 1..N /\ i # 1
      BY <1>1
    <3> QED BY <2>4, <3>1
  <2> QED BY <2>5, <2>6
<1>7. FlattenSeq(seqs) = g[N]
  BY <1>1 DEF FlattenSeq, Joined
<1> QED BY <1>6, <1>7

\* Where the first pieces lie in what is joined: off is how far they reach.
Places(joined, seqs, off, M) ==
  \A i \in 1..M :
    /\ off[i] <= Len(joined)
    /\ \A j \in 1..Len(seqs[i]) : joined[off[i - 1] + j] = seqs[i][j]

LEMMA PlacesOfJoined ==
  ASSUME NEW S, NEW seqs \in Seq(Seq(S)), NEW M \in 1..Len(seqs),
         NEW off \in [0..M -> Nat], off[0] = 0,
         \A i \in 1..M : off[i] = off[i - 1] + Len(seqs[i])
  PROVE  /\ FlattenSeq(seqs) \in Seq(S)
         /\ M = Len(seqs) => Len(FlattenSeq(seqs)) = off[M]
         /\ Places(FlattenSeq(seqs), seqs, off, M)
<1> DEFINE N == Len(seqs)
           g == Joined(seqs)
           Upto(n) == IF n <= M THEN n ELSE M
           Good(n) == /\ g[n] \in Seq(S)
                      /\ n <= M => Len(g[n]) = off[n]
                      /\ Places(g[n], seqs, off, Upto(n))
           G == {0} \cup {n \in 1..N : Good(n)}
<1>1. N \in Nat /\ N > 0 /\ M \in 1..N /\ \A n \in 1..N : seqs[n] \in Seq(S)
  BY LenProperties, ElementOfSeq
<1>2. /\ FlattenSeq(seqs) = g[N] /\ g[1] = seqs[1]
      /\ \A i \in 2..N : g[i] = g[i - 1] \o seqs[i]
  BY <1>1, JoinedIs
<1>0. \A i \in 1..M : /\ off[i] \in Nat /\ off[i - 1] \in Nat
                      /\ Len(seqs[i]) \in Nat /\ off[i] = off[i - 1] + Len(seqs[i])
  BY <1>1, LenProperties
<1> HIDE DEF N, g
<1>3. Good(1)
  <2>1. off[1] = Len(seqs[1]) /\ Len(seqs[1]) \in Nat /\ Upto(1) = 1
    BY <1>0, <1>1
  <2>2. Places(seqs[1], seqs, off, 1)
    BY <2>1 DEF Places
  <2> QED BY <1>1, <1>2, <2>1, <2>2
<1>4. ASSUME NEW n \in 2..N, Good(n - 1) PROVE Good(n)
  <2> DEFINE a == g[n - 1]
             b == seqs[n]
             c == g[n]
  <2>1. a \in Seq(S) /\ b \in Seq(S) /\ c = a \o b
    <3>1. a \in Seq(S)
      BY <1>4
    <3>2. n \in 1..N
      BY <1>1
    <3>3. seqs[n] \in Seq(S)
      BY <1>1, <3>2
    <3>4. g[n] = g[n - 1] \o seqs[n]
      BY <1>2
    <3> QED BY <3>1, <3>3, <3>4
  <2>2. (n - 1 <= M => Len(a) = off[n - 1]) /\ Places(a, seqs, off, Upto(n - 1))
    BY <1>4
  <2>4. n <= M => off[n] = off[n - 1] + Len(b) /\ off[n - 1] \in Nat
    BY <1>0, <1>1
  <2>5. \A i \in 1..M : i < n => i \in 1..Upto(n - 1)
    BY <1>1
  <2>10. Len(a) \in Nat /\ Len(b) \in Nat
    BY <2>1, LenProperties
  <2>6. Upto(n) \in 1..M /\ Upto(n) <= n /\ (n <= M => Upto(n) = n) /\ M \in Nat
    BY <1>1
  <2> HIDE DEF a, b, c, Upto
  <2>3. /\ c \in Seq(S) /\ Len(c) = Len(a) + Len(b)
        /\ \A i \in 1..(Len(a) + Len(b)) : c[i] = IF i <= Len(a) THEN a[i] ELSE b[i - Len(a)]
    BY <2>1, ConcatProperties
  <2>7. ASSUME NEW i \in 1..M, i < n
        PROVE  /\ off[i] <= Len(c)
               /\ \A j \in 1..Len(seqs[i]) : c[off[i - 1] + j] = seqs[i][j]
    <3>1. /\ off[i] <= Len(a)
          /\ \A j \in 1..Len(seqs[i]) : a[off[i - 1] + j] = seqs[i][j]
      BY <2>2, <2>5, <2>7 DEF Places
    <3>2. ASSUME NEW j \in 1..Len(seqs[i]) PROVE c[off[i - 1] + j] = seqs[i][j]
      <4> DEFINE x == off[i - 1]
                 y == Len(seqs[i])
      <4>3. x \in Nat /\ y \in Nat /\ x + y <= Len(a) /\ j \in 1..y
        BY <1>0, <3>1
      <4>4. a[x + j] = seqs[i][j]
        BY <3>1
      <4> HIDE DEF x, y
      <4>1. x + j \in 1..(Len(a) + Len(b)) /\ x + j <= Len(a)
        BY <2>10, <4>3, Within
      <4>2. c[x + j] = a[x + j]
        BY <2>3, <4>1
      <4> QED BY <4>2, <4>4 DEF x
    <3>3. off[i] <= Len(c)
      <4>1. off[i] \in Nat /\ off[i] <= Len(a) /\ Len(c) = Len(a) + Len(b)
        BY <1>0, <2>3, <3>1
      <4> DEFINE x == off[i]
                 y == Len(a)
                 z == Len(b)
      <4>2. x \in Nat /\ y \in Nat /\ z \in Nat /\ x <= y /\ Len(c) = y + z
        BY <2>10, <4>1
      <4> HIDE DEF x, y, z
      <4>3. x <= y + z
        BY <4>2
      <4> QED BY <4>2, <4>3 DEF x
    <3> QED BY <3>1, <3>2, <3>3
  <2>8. ASSUME n <= M
        PROVE  /\ off[n] = Len(c)
               /\ \A j \in 1..Len(seqs[n]) : c[off[n - 1] + j] = seqs[n][j]
    <3>0. n - 1 <= M
      BY <1>1, <2>8
    <3>1. off[n] = Len(c) /\ Len(a) = off[n - 1]
      BY <2>2, <2>3, <2>4, <2>8, <3>0
    <3>2. ASSUME NEW j \in 1..Len(b) PROVE c[off[n - 1] + j] = b[j]
      <4>1. off[n - 1] + j \in 1..(Len(a) + Len(b)) /\ ~(off[n - 1] + j <= Len(a))
            /\ (off[n - 1] + j) - Len(a) = j
        <5> DEFINE x == off[n - 1]
                   m == Len(a)
                   k == Len(b)
        <5>1. x \in Nat /\ m \in Nat /\ k \in Nat /\ m = x /\ j \in 1..k
          BY <2>4, <2>8, <2>10, <3>1
        <5> HIDE DEF x, m, k
        <5>2. x + j \in 1..(m + k) /\ ~(x + j <= m) /\ (x + j) - m = j
          BY <5>1, Within
        <5> QED BY <5>2 DEF x, m, k
      <4> QED
        <5> DEFINE z == off[n - 1] + j
        <5>1. z \in 1..(Len(a) + Len(b)) /\ ~(z <= Len(a)) /\ z - Len(a) = j
          BY <4>1
        <5> HIDE DEF z
        <5>2. c[z] = b[z - Len(a)]
          BY <2>3, <5>1
        <5> QED BY <5>1, <5>2 DEF z
    <3> QED BY <3>1, <3>2 DEF b
  <2>9. Places(c, seqs, off, Upto(n))
    <3> SUFFICES ASSUME NEW i \in 1..Upto(n)
                 PROVE  /\ off[i] <= Len(c)
                        /\ \A j \in 1..Len(seqs[i]) : c[off[i - 1] + j] = seqs[i][j]
      BY DEF Places
    <3>1. CASE i < n
      <4>1. i \in 1..M
        BY <2>6
      <4> QED BY <2>7, <3>1, <4>1
    <3>2. CASE ~(i < n)
      <4>1. i = n /\ n <= M
        BY <2>6, <3>2
      <4>2. off[n] <= Len(c)
        BY <2>8, <2>3, <2>10, <4>1
      <4> QED BY <2>8, <4>1, <4>2
    <3> QED BY <3>1, <3>2
  <2> QED BY <2>3, <2>8, <2>9 DEF c, Upto
<1>5. G = 0..N
  <2>1. \A n \in 1..N : n - 1 \in G => n \in G
    <3> SUFFICES ASSUME NEW n \in 1..N, n - 1 \in G PROVE n \in G
      OBVIOUS
    <3>1. CASE n = 1
      BY <1>3, <3>1
    <3>2. CASE n # 1
      <4>1. n \in 2..N /\ n - 1 # 0
        BY <1>1, <3>2
      <4>2. Good(n - 1)
        BY <4>1
      <4>3. Good(n)
        BY <1>4, <4>1, <4>2
      <4> HIDE DEF Good
      <4> QED BY <4>3
    <3> QED BY <3>1, <3>2
  <2>2. G \in SUBSET (0..N) /\ 0 \in G
    BY <1>1
  <2> HIDE DEF G
  <2> QED BY <1>1, <2>1, <2>2, Numbered
<1>6. Good(N)
  <2>1. N \in G
    <3> HIDE DEF G
    <3>1. N \in 0..N
      BY <1>1
    <3> QED BY <1>5, <3>1
  <2>2. N # 0
    BY <1>1
  <2> QED BY <2>1, <2>2
<1>7. Upto(N) = M /\ (M = N => N <= M)
  BY <1>1
<1> QED BY <1>2, <1>6, <1>7 DEF N

LEMMA LenJoined ==
  ASSUME NEW S, NEW s \in Seq(S), NEW t \in Seq(S)
  PROVE  /\ s \o t \in Seq(S) /\ Len(s \o t) = Len(s) + Len(t)
         /\ Len(s) \in Nat /\ Len(t) \in Nat
BY ConcatProperties, LenProperties

\* t lies in s, behind at other elements.
Lies(t, s, at) ==
  /\ at + Len(t) <= Len(s)
  /\ \A j \in 1..Len(t) : s[at + j] = t[j]

LEMMA LiesIn ==
  ASSUME NEW S, NEW s \in Seq(S), NEW t \in Seq(S), NEW u \in Seq(S),
         NEW a \in Nat, NEW b \in Nat, Lies(t, s, a), Lies(u, t, b)
  PROVE  Lies(u, s, a + b)
<1>1. Len(s) \in Nat /\ Len(t) \in Nat /\ Len(u) \in Nat
  BY LenProperties
<1>2. a + Len(t) <= Len(s) /\ b + Len(u) <= Len(t)
  BY DEF Lies
<1>3. ASSUME NEW j \in 1..Len(u) PROVE s[(a + b) + j] = u[j]
  <2> DEFINE x == b + j
  <2>1. x \in 1..Len(t) /\ (a + b) + j = a + x
    BY <1>1, <1>2
  <2>2. t[x] = u[j]
    BY DEF Lies
  <2> HIDE DEF x
  <2>3. s[a + x] = t[x]
    BY <2>1 DEF Lies
  <2> QED BY <2>1, <2>2, <2>3
<1> QED BY <1>1, <1>2, <1>3 DEF Lies

LEMMA LiesLeft ==
  ASSUME NEW S, NEW s \in Seq(S), NEW t \in Seq(S), NEW u \in Seq(S),
         NEW a \in Nat, Lies(t, s, a)
  PROVE  Lies(t, s \o u, a)
<1>1. Len(s) \in Nat /\ Len(t) \in Nat /\ Len(u) \in Nat
  BY LenProperties
<1>2. /\ s \o u \in Seq(S) /\ Len(s \o u) = Len(s) + Len(u)
      /\ \A i \in 1..(Len(s) + Len(u)) :
           (s \o u)[i] = IF i <= Len(s) THEN s[i] ELSE u[i - Len(s)]
  BY ConcatProperties
<1>3. a + Len(t) <= Len(s)
  BY DEF Lies
<1>4. ASSUME NEW j \in 1..Len(t) PROVE (s \o u)[a + j] = t[j]
  <2>1. a + j \in 1..(Len(s) + Len(u)) /\ a + j <= Len(s)
    BY <1>1, <1>3
  <2>2. s[a + j] = t[j]
    BY DEF Lies
  <2> QED BY <1>2, <2>1, <2>2
<1> QED BY <1>1, <1>2, <1>3, <1>4 DEF Lies

LEMMA LiesRight ==
  ASSUME NEW S, NEW s \in Seq(S), NEW t \in Seq(S)
  PROVE  Lies(t, s \o t, Len(s))
<1>1. Len(s) \in Nat /\ Len(t) \in Nat
  BY LenProperties
<1>2. /\ s \o t \in Seq(S) /\ Len(s \o t) = Len(s) + Len(t)
      /\ \A i \in 1..(Len(s) + Len(t)) :
           (s \o t)[i] = IF i <= Len(s) THEN s[i] ELSE t[i - Len(s)]
  BY ConcatProperties
<1>3. ASSUME NEW j \in 1..Len(t) PROVE (s \o t)[Len(s) + j] = t[j]
  <2> DEFINE x == Len(s) + j
  <2>1. x \in 1..(Len(s) + Len(t)) /\ ~(x <= Len(s)) /\ x - Len(s) = j
    BY <1>1
  <2> HIDE DEF x
  <2>2. (s \o t)[x] = t[x - Len(s)]
    BY <1>2, <2>1
  <2> QED BY <2>1, <2>2 DEF x
<1> QED BY <1>1, <1>2, <1>3 DEF Lies

\* What lies there is what a slice cuts out.
LEMMA LiesCut ==
  ASSUME NEW S, NEW s \in Seq(S), NEW t \in Seq(S), NEW a \in Nat, Lies(t, s, a)
  PROVE  SubSeq(s, a + 1, a + Len(t)) = t
<1> DEFINE L == Len(t)
           c == SubSeq(s, a + 1, a + L)
<1>1. Len(s) \in Nat /\ L \in Nat
  BY LenProperties
<1>2. a + L <= Len(s) /\ \A j \in 1..L : s[a + j] = t[j]
  BY DEF Lies
<1> HIDE DEF L
<1>3. \A i \in (a + 1)..(a + L) : s[i] \in S
  BY <1>1, <1>2, ElementOfSeq
<1>5. /\ c \in Seq(S) /\ Len(c) = L
      /\ \A j \in 1..L : c[j] = s[a + j]
  <2> DEFINE m == a + 1
             k == a + L
  <2>1. /\ m \in Int /\ k \in Int /\ k - m + 1 = L /\ (m <= k \/ L = 0)
        /\ \A j \in 1..L : m + j - 1 = a + j
    BY <1>1
  <2>2. \A i \in m..k : s[i] \in S
    BY <1>3
  <2>3. c = SubSeq(s, m, k)
    OBVIOUS
  <2> HIDE DEF m, k, c
  <2>4. /\ c \in Seq(S) /\ Len(c) = IF m <= k THEN k - m + 1 ELSE 0
        /\ \A j \in 1..(k - m + 1) : c[j] = s[m + j - 1]
    BY <2>1, <2>2, <2>3, SubSeqProperties
  <2>5. Len(c) = L
    BY <1>1, <2>1, <2>4
  <2>6. \A j \in 1..L : c[j] = s[a + j]
    BY <2>1, <2>4
  <2> QED BY <2>4, <2>5, <2>6
<1> HIDE DEF c
<1>6. Len(c) = Len(t) /\ \A j \in 1..Len(c) : c[j] = t[j]
  BY <1>2, <1>5 DEF L
<1>7. c = t
  BY <1>5, <1>6, SeqEqual
<1> QED BY <1>7 DEF c, L

\* Where each of the sequences lies in what is joined.
LEMMA JoinedPieces ==
  ASSUME NEW S, NEW seqs \in Seq(Seq(S)), NEW off \in [0..Len(seqs) -> Nat],
         off[0] = 0, \A i \in 1..Len(seqs) : off[i] = off[i - 1] + Len(seqs[i])
  PROVE  /\ FlattenSeq(seqs) \in Seq(S) /\ Len(FlattenSeq(seqs)) = off[Len(seqs)]
         /\ \A i \in 1..Len(seqs) : Lies(seqs[i], FlattenSeq(seqs), off[i - 1])
<1> DEFINE N == Len(seqs)
           joined == FlattenSeq(seqs)
<1>1. N \in Nat
  BY LenProperties
<1>2. CASE N = 0
  <2>1. joined = seqs /\ seqs = << >>
    BY <1>2, EmptySeq DEF FlattenSeq
  <2>2. joined \in Seq(S) /\ Len(joined) = 0
    BY <1>2, <2>1, EmptySeq
  <2> QED BY <1>2, <2>2
<1>3. CASE N # 0
  <2>1. N \in 1..N
    BY <1>1, <1>3
  <2>2. joined \in Seq(S) /\ Len(joined) = off[N] /\ Places(joined, seqs, off, N)
    BY <2>1, PlacesOfJoined
  <2>3. ASSUME NEW i \in 1..N PROVE Lies(seqs[i], joined, off[i - 1])
    <3>1. off[i] <= Len(joined) /\ \A j \in 1..Len(seqs[i]) : joined[off[i - 1] + j] = seqs[i][j]
      BY <2>2 DEF Places
    <3> QED BY <3>1 DEF Lies
  <2> QED BY <2>2, <2>3
<1> QED BY <1>2, <1>3

------------------------------------------------------------------------------
(* The UECP parser *)

\* The decoder's fields agree.
Agree(u) ==
  /\ u.message_begin_seen <=> u.data # <<>>
  /\ u.data # <<>> => u.data[1] = STA
  /\ u.next_untrap => u.message_begin_seen
Decoders ==
  {u \in [next_untrap : BOOLEAN, message_begin_seen : BOOLEAN, data : Seq(Byte)] :
     Agree(u)}
Parsers ==
  [uecp : Decoders, decoded : Seq(Seq(Byte)), status : {"running", "failed"}]

LEMMA PrefixOfConcat ==
  ASSUME NEW S, NEW s \in Seq(S), NEW t \in Seq(S)
  PROVE  IsPrefix(s, s \o t)
<1>1. Len(s \o t) = Len(s) + Len(t) /\ Len(s) \in Nat /\ Len(t) \in Nat
  BY ConcatProperties, LenProperties
<1>2. \A i \in 1..Len(s) : (s \o t)[i] = s[i]
  BY <1>1, ConcatProperties
<1>3. SubSeq(s \o t, 1, Len(s)) = SubSeq(s, 1, Len(s))
  BY <1>1, <1>2
<1> QED BY <1>1, <1>3 DEF IsPrefix

LEMMA PrefixIs ==
  ASSUME NEW S, NEW s \in Seq(S), NEW t \in Seq(S)
  PROVE  IsPrefix(s, t) <=> Len(s) <= Len(t) /\ \A i \in 1..Len(s) : s[i] = t[i]
<1>1. Len(s) \in Nat /\ Len(t) \in Nat
  BY LenProperties
<1>2. SubSeq(s, 1, Len(s)) = [i \in 1..Len(s) |-> s[i]]
  BY <1>1
<1>3. SubSeq(t, 1, Len(s)) = [i \in 1..Len(s) |-> t[i]]
  BY <1>1
<1>4. Len(s) <= Len(t) =>
        ((\A i \in 1..Len(s) : s[i] = t[i])
         <=> [i \in 1..Len(s) |-> s[i]] = [i \in 1..Len(s) |-> t[i]])
  <2>1. ASSUME [i \in 1..Len(s) |-> s[i]] = [i \in 1..Len(s) |-> t[i]],
               NEW j \in 1..Len(s)
        PROVE  s[j] = t[j]
    <3>1. [i \in 1..Len(s) |-> s[i]][j] = s[j]
      OBVIOUS
    <3>2. [i \in 1..Len(s) |-> t[i]][j] = t[j]
      OBVIOUS
    <3> QED BY <2>1, <3>1, <3>2
  <2> QED BY <2>1
<1> QED BY <1>2, <1>3, <1>4 DEF IsPrefix

LEMMA PrefixTransitive ==
  ASSUME NEW S, NEW s \in Seq(S), NEW t \in Seq(S), NEW u \in Seq(S),
         IsPrefix(s, t), IsPrefix(t, u)
  PROVE  IsPrefix(s, u)
<1>1. Len(s) \in Nat /\ Len(t) \in Nat /\ Len(u) \in Nat
  BY LenProperties
<1>2. Len(s) <= Len(t) /\ \A i \in 1..Len(s) : s[i] = t[i]
  BY PrefixIs
<1>3. Len(t) <= Len(u) /\ \A i \in 1..Len(t) : t[i] = u[i]
  BY PrefixIs
<1>4. Len(s) <= Len(u) /\ \A i \in 1..Len(s) : s[i] = u[i]
  BY <1>1, <1>2, <1>3
<1> QED BY <1>4, PrefixIs

\* A parser: its decoder's fields, what it has decoded, its status.
At(untrap, seen, data, done, st) ==
  [uecp |-> [next_untrap |-> untrap, message_begin_seen |-> seen, data |-> data],
   decoded |-> done, status |-> st]

LEMMA ParserIs ==
  ASSUME NEW p \in Parsers
  PROVE  \E untrap, seen \in BOOLEAN, data \in Seq(Byte), done \in Seq(Seq(Byte)),
            st \in {"running", "failed"} :
           p = At(untrap, seen, data, done, st) /\ Agree(p.uecp)
<1>1. p.uecp \in Decoders /\ p.decoded \in Seq(Seq(Byte))
      /\ p.status \in {"running", "failed"}
      /\ p = [uecp |-> p.uecp, decoded |-> p.decoded, status |-> p.status]
  BY DEF Parsers
<1> DEFINE u == p.uecp
<1>2. /\ u.next_untrap \in BOOLEAN /\ u.message_begin_seen \in BOOLEAN
      /\ u.data \in Seq(Byte) /\ Agree(u)
      /\ u = [next_untrap |-> u.next_untrap,
              message_begin_seen |-> u.message_begin_seen, data |-> u.data]
  BY <1>1 DEF Decoders
<1>3. p = At(u.next_untrap, u.message_begin_seen, u.data, p.decoded, p.status)
  BY <1>1, <1>2 DEF At
<1> HIDE DEF u
<1> QED BY <1>1, <1>2, <1>3 DEF u

LEMMA AtIsParser ==
  ASSUME NEW untrap \in BOOLEAN, NEW seen \in BOOLEAN, NEW data \in Seq(Byte),
         NEW done \in Seq(Seq(Byte)), NEW st \in {"running", "failed"},
         seen <=> data # <<>>, data # <<>> => data[1] = STA, untrap => seen
  PROVE  At(untrap, seen, data, done, st) \in Parsers
BY DEF At, Parsers, Decoders, Agree

\* The outcomes of a byte.
LEMMA AddByteCases ==
  ASSUME NEW data, NEW done, NEW b \in Byte
  PROVE  /\ b \in 0..2 =>
              AddByte(At(TRUE, TRUE, data, done, "running"), b) =
                At(FALSE, TRUE, Append(data, ESC + b), done, "running")
         /\ b \notin 0..2 =>
              AddByte(At(TRUE, TRUE, data, done, "running"), b) =
                At(FALSE, TRUE, data, done, "failed")
         /\ b = STA =>
              AddByte(At(FALSE, FALSE, data, done, "running"), b) =
                At(FALSE, TRUE, Append(data, b), done, "running")
         /\ b # STA =>
              AddByte(At(FALSE, FALSE, data, done, "running"), b) =
                At(FALSE, FALSE, data, done, "running")
         /\ b = ESC =>
              AddByte(At(FALSE, TRUE, data, done, "running"), b) =
                At(TRUE, TRUE, data, done, "running")
         /\ b = STO =>
              AddByte(At(FALSE, TRUE, data, done, "running"), b) =
                FrameEnded(At(FALSE, TRUE, data, done, "running"), Append(data, b))
<1>2. b \in 0..2 =>
              AddByte(At(TRUE, TRUE, data, done, "running"), b) =
                At(FALSE, TRUE, Append(data, ESC + b), done, "running")
  BY DEF At, AddByte
<1>3. b \notin 0..2 =>
              AddByte(At(TRUE, TRUE, data, done, "running"), b) =
                At(FALSE, TRUE, data, done, "failed")
  BY DEF At, AddByte
<1>4. b = STA =>
              AddByte(At(FALSE, FALSE, data, done, "running"), b) =
                At(FALSE, TRUE, Append(data, b), done, "running")
  BY DEF At, AddByte
<1>5. b # STA =>
              AddByte(At(FALSE, FALSE, data, done, "running"), b) =
                At(FALSE, FALSE, data, done, "running")
  BY DEF At, AddByte
<1>6. b = ESC =>
              AddByte(At(FALSE, TRUE, data, done, "running"), b) =
                At(TRUE, TRUE, data, done, "running")
  <2>1. ESC # STO
    BY DEF ESC, STO
  <2> QED BY <2>1 DEF At, AddByte
<1>7. b = STO =>
              AddByte(At(FALSE, TRUE, data, done, "running"), b) =
                FrameEnded(At(FALSE, TRUE, data, done, "running"), Append(data, b))
  <2>1. ESC # STO
    BY DEF ESC, STO
  <2> QED BY <2>1 DEF At, AddByte
<1> QED BY <1>2, <1>3, <1>4, <1>5, <1>6, <1>7

\* A byte of a frame that is no special one.
LEMMA AddPlainByte ==
  ASSUME NEW data, NEW done, NEW b \in Byte, b # ESC, b # STO
  PROVE  AddByte(At(FALSE, TRUE, data, done, "running"), b) =
           At(FALSE, TRUE, Append(data, b), done, "running")
BY DEF At, AddByte

\* A parser that has failed stays as it is.
LEMMA FailedStays ==
  ASSUME NEW p, NEW b, p.status = "failed"
  PROVE  AddByte(p, b) = p
BY DEF AddByte

LEMMA FrameEndedCases ==
  ASSUME NEW old, NEW done, NEW data
  PROVE  /\ FrameDecodes(data) =>
              FrameEnded(At(FALSE, TRUE, old, done, "running"), data) =
                At(FALSE, FALSE, <<>>, done \o <<data, data>>, "running")
         /\ ~FrameDecodes(data) =>
              FrameEnded(At(FALSE, TRUE, old, done, "running"), data) =
                At(FALSE, TRUE, data, done, "failed")
BY DEF At, FrameEnded, NewDecoder

\* A byte leaves the decoder's fields in agreement, never makes a parser that
\* has failed run again, and never takes back what is decoded.
LEMMA AddByteType ==
  ASSUME NEW p \in Parsers, NEW b \in Byte
  PROVE  /\ AddByte(p, b) \in Parsers
         /\ AddByte(p, b).status = "running" => p.status = "running"
         /\ IsPrefix(p.decoded, AddByte(p, b).decoded)
<1>1. PICK untrap, seen \in BOOLEAN, data \in Seq(Byte), done \in Seq(Seq(Byte)),
           st \in {"running", "failed"} :
             p = At(untrap, seen, data, done, st) /\ Agree(p.uecp)
  BY ParserIs
<1>2. /\ seen <=> data # <<>>
      /\ data # <<>> => data[1] = STA
      /\ untrap => seen
  BY <1>1 DEF At, Agree
<1>3. p.status = st /\ p.decoded = done
  BY <1>1 DEF At
<1>4. IsPrefix(done, done)
  BY PrefixIs
<1> DEFINE Good(q) == /\ q \in Parsers /\ IsPrefix(done, q.decoded)
<1>5. ASSUME NEW x \in Byte
      PROVE  /\ Append(data, x) \in Seq(Byte)
             /\ Append(data, x) # <<>>
             /\ data # <<>> => Append(data, x)[1] = data[1]
             /\ data = <<>> => Append(data, x)[1] = x
  <2>1. /\ Append(data, x) \in Seq(Byte)
        /\ Append(data, x) # <<>>
        /\ \A i \in 1..Len(data) : Append(data, x)[i] = data[i]
        /\ Append(data, x)[Len(data) + 1] = x
    BY AppendProperties
  <2>2. data # <<>> => Len(data) \in Nat \ {0}
    BY EmptySeq
  <2>3. Len(<<>>) = 0
    BY EmptySeq
  <2> QED BY <2>1, <2>2, <2>3
<1>6. ASSUME NEW nu \in BOOLEAN, NEW ns \in BOOLEAN, NEW nd \in Seq(Byte),
             NEW nst \in {"running", "failed"},
             ns <=> nd # <<>>, nd # <<>> => nd[1] = STA, nu => ns
      PROVE  Good(At(nu, ns, nd, done, nst))
  <2>1. At(nu, ns, nd, done, nst) \in Parsers
    BY <1>6, AtIsParser
  <2>2. At(nu, ns, nd, done, nst).decoded = done
    BY DEF At
  <2> QED BY <1>4, <2>1, <2>2
<1> HIDE DEF Good
<1>7. Good(AddByte(p, b))
  <2>1. CASE st = "failed"
    <3>1. AddByte(p, b) = At(untrap, seen, data, done, "failed")
      BY <1>1, <1>3, <2>1, FailedStays
    <3> QED BY <3>1, <1>2, <1>6
  <2>2. CASE st = "running" /\ untrap /\ b \in 0..2
    <3>3. untrap = TRUE /\ seen = TRUE /\ data # <<>>
      BY <1>2, <2>2
    <3>1. AddByte(p, b) = At(FALSE, TRUE, Append(data, ESC + b), done, "running")
      BY <1>1, <2>2, <3>3, AddByteCases
    <3>2. ESC + b \in Byte
      BY <2>2 DEF ESC, Byte
    <3> QED BY <3>1, <3>2, <3>3, <1>2, <1>5, <1>6
  <2>3. CASE st = "running" /\ untrap /\ b \notin 0..2
    <3>3. untrap = TRUE /\ seen = TRUE /\ data # <<>>
      BY <1>2, <2>3
    <3>1. AddByte(p, b) = At(FALSE, TRUE, data, done, "failed")
      BY <1>1, <2>3, <3>3, AddByteCases
    <3> QED BY <3>1, <3>3, <1>2, <1>6
  <2>4. CASE st = "running" /\ ~untrap /\ ~seen
    <3>0. untrap = FALSE /\ seen = FALSE
      BY <2>4
    <3>1. CASE b = STA
      <4>1. AddByte(p, b) = At(FALSE, TRUE, Append(data, b), done, "running")
        BY <1>1, <2>4, <3>0, <3>1, AddByteCases
      <4> QED BY <4>1, <3>1, <3>0, <1>2, <1>5, <1>6
    <3>2. CASE b # STA
      <4>1. AddByte(p, b) = At(FALSE, FALSE, data, done, "running")
        BY <1>1, <2>4, <3>0, <3>2, AddByteCases
      <4> QED BY <4>1, <3>0, <1>2, <1>6
    <3> QED BY <3>1, <3>2
  <2>5. CASE st = "running" /\ ~untrap /\ seen
    <3>0. untrap = FALSE /\ seen = TRUE /\ data # <<>> /\ data[1] = STA
      BY <1>2, <2>5
    <3>1. CASE b = ESC
      <4>1. AddByte(p, b) = At(TRUE, TRUE, data, done, "running")
        BY <1>1, <2>5, <3>0, <3>1, AddByteCases
      <4> QED BY <4>1, <3>0, <1>6
    <3>2. CASE b = STO
      <4> DEFINE whole == Append(data, b)
      <4>0. whole \in Seq(Byte) /\ whole # <<>> /\ whole[1] = STA
        BY <1>5, <3>0
      <4>1. AddByte(p, b) = FrameEnded(At(FALSE, TRUE, data, done, "running"), whole)
        BY <1>1, <2>5, <3>0, <3>2, AddByteCases
      <4> HIDE DEF whole
      <4>2. CASE ~FrameDecodes(whole)
        <5>1. AddByte(p, b) = At(FALSE, TRUE, whole, done, "failed")
          BY <4>1, <4>2, FrameEndedCases
        <5> QED BY <5>1, <4>0, <1>6
      <4>3. CASE FrameDecodes(whole)
        <5>1. AddByte(p, b) = At(FALSE, FALSE, <<>>, done \o <<whole, whole>>, "running")
          BY <4>1, <4>3, FrameEndedCases
        <5>2. <<whole, whole>> \in Seq(Seq(Byte))
          BY <4>0
        <5>3. done \o <<whole, whole>> \in Seq(Seq(Byte))
          BY <5>2, ConcatProperties
        <5>4. IsPrefix(done, done \o <<whole, whole>>)
          BY <5>2, PrefixOfConcat
        <5>5. <<>> \in Seq(Byte)
          BY EmptySeq
        <5>6. AddByte(p, b) \in Parsers
          BY <5>1, <5>3, <5>5, AtIsParser
        <5>7. AddByte(p, b).decoded = done \o <<whole, whole>>
          BY <5>1 DEF At
        <5> QED BY <5>4, <5>6, <5>7 DEF Good
      <4> QED BY <4>2, <4>3
    <3>3. CASE b \notin {ESC, STO}
      <4>1. AddByte(p, b) = At(FALSE, TRUE, Append(data, b), done, "running")
        <5>1. b # ESC /\ b # STO
          BY <3>3
        <5>2. p = At(FALSE, TRUE, data, done, "running")
          BY <1>1, <2>5, <3>0
        <5> QED BY <5>1, <5>2, AddPlainByte
      <4> QED BY <4>1, <3>0, <1>5, <1>6
    <3> QED BY <3>1, <3>2, <3>3
  <2> QED BY <2>1, <2>2, <2>3, <2>4, <2>5
<1>8. AddByte(p, b).status = "running" => p.status = "running"
  <2>1. CASE st = "failed"
    BY <1>3, <2>1, FailedStays
  <2> QED BY <2>1, <1>3
<1> QED BY <1>3, <1>7, <1>8 DEF Good

\* The parser after each byte of the loop.
Parsed(p, anc) ==
  CHOOSE parsed : parsed = [n \in 0..Len(anc) |->
    IF n = 0 THEN p ELSE AddByte(parsed[n - 1], anc[n])]

LEMMA ParsedIs ==
  ASSUME NEW p \in Parsers, NEW anc \in Seq(Byte)
  PROVE  /\ Parsed(p, anc) \in [0..Len(anc) -> Parsers]
         /\ Parsed(p, anc)[0] = p
         /\ \A n \in 1..Len(anc) :
              Parsed(p, anc)[n] = AddByte(Parsed(p, anc)[n - 1], anc[n])
         /\ ParseBytes(p, anc) = Parsed(p, anc)[Len(anc)]
<1>1. Len(anc) \in Nat /\ \A n \in 1..Len(anc) : anc[n] \in Byte
  BY LenProperties, ElementOfSeq
<1> DEFINE N == Len(anc)
           step == [q \in Parsers \X (1..N) |-> AddByte(q[1], anc[q[2]])]
           Body(g) == [n \in 0..N |-> IF n = 0 THEN p ELSE AddByte(g[n - 1], anc[n])]
<1>2. step \in [Parsers \X (1..N) -> Parsers]
  BY <1>1, AddByteType
<1>3. PICK f : Loop(f, N, Parsers, p, step)
  <2> HIDE DEF step, N
  <2>1. N \in Nat
    BY <1>1 DEF N
  <2> QED BY <1>2, <2>1, LoopExists
<1>4. \A n \in 1..N : f[n] = AddByte(f[n - 1], anc[n])
  <2> SUFFICES ASSUME NEW n \in 1..N PROVE f[n] = AddByte(f[n - 1], anc[n])
    OBVIOUS
  <2>1. f[n - 1] \in Parsers
    BY <1>1, <1>3 DEF Loop
  <2>2. step[<<f[n - 1], n>>] = AddByte(f[n - 1], anc[n])
    BY <2>1
  <2> QED BY <1>3, <2>2 DEF Loop
<1>5. f = Body(f)
  BY <1>1, <1>3, <1>4 DEF Loop
<1>6. Parsed(p, anc) = Body(Parsed(p, anc))
  BY <1>5 DEF Parsed
<1> DEFINE g == Parsed(p, anc)
<1>7. g[0] = p /\ \A n \in 1..N : g[n] = AddByte(g[n - 1], anc[n])
  <2> HIDE DEF g
  <2>1. g = Body(g)
    BY <1>6 DEF g
  <2> QED BY <1>1, <2>1
<1>8. g \in [0..N -> Parsers]
  <2> DEFINE G == {n \in 0..N : g[n] \in Parsers}
  <2>1. 0 \in G
    BY <1>1, <1>7
  <2>2. ASSUME NEW n \in 1..N, n - 1 \in G PROVE n \in G
    <3>1. g[n - 1] \in Parsers
      BY <2>2
    <3>2. AddByte(g[n - 1], anc[n]) \in Parsers
      <4> HIDE DEF g
      <4> QED BY <3>1, <1>1, AddByteType
    <3> QED BY <1>7, <3>2
  <2>3. G = 0..N
    <3> HIDE DEF G
    <3>1. G \in SUBSET (0..N)
      BY DEF G
    <3> QED BY <1>1, <2>1, <2>2, <3>1, Numbered
  <2>4. DOMAIN g = 0..N /\ g = [n \in DOMAIN g |-> g[n]]
    <3> HIDE DEF g
    <3>1. g = Body(g)
      BY <1>6 DEF g
    <3> QED BY <3>1
  <2> HIDE DEF g
  <2> QED BY <2>3, <2>4
<1>9. ParseBytes(p, anc) = g[N]
  BY DEF ParseBytes, Parsed
<1> QED BY <1>7, <1>8, <1>9

LEMMA ParseType ==
  ASSUME NEW p \in Parsers, NEW anc \in Seq(Byte)
  PROVE  ParseBytes(p, anc) \in Parsers
BY ParsedIs, LenProperties

\* Two pieces are parsed one after the other.
LEMMA ParseConcat ==
  ASSUME NEW p \in Parsers, NEW v \in Seq(Byte), NEW w \in Seq(Byte)
  PROVE  ParseBytes(p, v \o w) = ParseBytes(ParseBytes(p, v), w)
<1> DEFINE q == ParseBytes(p, v)
           A == Parsed(p, v)
           B == Parsed(q, w)
           C == Parsed(p, v \o w)
           L == Len(v)
           M == Len(w)
<1>1. /\ L \in Nat /\ M \in Nat
      /\ v \o w \in Seq(Byte) /\ Len(v \o w) = L + M
      /\ \A i \in 1..L : (v \o w)[i] = v[i]
      /\ \A i \in 1..M : (v \o w)[L + i] = w[i]
  BY LenProperties, ConcatProperties
<1>2. /\ A[0] = p /\ q = A[L]
      /\ \A n \in 1..L : A[n] = AddByte(A[n - 1], v[n])
  BY ParsedIs
<1>3. q \in Parsers
  BY ParseType
<1>4. /\ B[0] = q /\ ParseBytes(q, w) = B[M]
      /\ \A n \in 1..M : B[n] = AddByte(B[n - 1], w[n])
  <2> HIDE DEF q
  <2> QED BY <1>3, ParsedIs
<1>5. /\ C[0] = p /\ ParseBytes(p, v \o w) = C[L + M]
      /\ \A n \in 1..(L + M) : C[n] = AddByte(C[n - 1], (v \o w)[n])
  BY <1>1, ParsedIs
<1> HIDE DEF q, A, B, C, L, M
<1>6. C[L] = A[L]
  <2> DEFINE G == {n \in 0..L : C[n] = A[n]}
  <2>1. 0 \in G
    BY <1>1, <1>2, <1>5
  <2>2. ASSUME NEW n \in 1..L, n - 1 \in G PROVE n \in G
    <3>1. n \in 1..(L + M)
      BY <1>1
    <3>2. C[n] = AddByte(C[n - 1], v[n])
      BY <1>1, <1>5, <3>1
    <3>3. C[n - 1] = A[n - 1]
      BY <2>2
    <3>4. C[n] = A[n]
      BY <1>2, <3>2, <3>3
    <3> QED BY <3>4
  <2>3. G = 0..L
    <3> HIDE DEF G
    <3>1. G \in SUBSET (0..L)
      BY DEF G
    <3> QED BY <1>1, <2>1, <2>2, <3>1, Numbered
  <2> QED BY <1>1, <2>3
<1>7. C[L + M] = B[M]
  <2> DEFINE G == {n \in 0..M : C[L + n] = B[n]}
  <2>1. 0 \in G
    BY <1>1, <1>2, <1>4, <1>6
  <2>2. ASSUME NEW n \in 1..M, n - 1 \in G PROVE n \in G
    <3>1. L + n \in 1..(L + M) /\ (L + n) - 1 = L + (n - 1)
      BY <1>1
    <3>2. C[L + n] = AddByte(C[L + (n - 1)], w[n])
      BY <1>1, <1>5, <3>1
    <3>3. C[L + (n - 1)] = B[n - 1]
      BY <2>2
    <3>4. C[L + n] = B[n]
      BY <1>4, <3>2, <3>3
    <3> QED BY <3>4
  <2>3. G = 0..M
    <3> HIDE DEF G
    <3>1. G \in SUBSET (0..M)
      BY DEF G
    <3> QED BY <1>1, <2>1, <2>2, <3>1, Numbered
  <2>4. M \in G
    <3> HIDE DEF G
    <3> QED BY <1>1, <2>3
  <2> QED BY <2>4
<1>8. QED
  BY <1>4, <1>5, <1>7 DEF q

\* One byte, and two.
LEMMA ParseByte ==
  ASSUME NEW p \in Parsers, NEW b \in Byte
  PROVE  ParseBytes(p, <<b>>) = AddByte(p, b)
<1>1. <<b>> \in Seq(Byte) /\ Len(<<b>>) = 1 /\ <<b>>[1] = b
  OBVIOUS
<1>2. Parsed(p, <<b>>)[1] = AddByte(Parsed(p, <<b>>)[0], b)
  BY <1>1, ParsedIs
<1> QED BY <1>1, <1>2, ParsedIs

LEMMA PairIsConcat ==
  ASSUME NEW S, NEW a \in S, NEW b \in S
  PROVE  <<a>> \o <<b>> = <<a, b>>
<1> DEFINE v == <<a>>
           w == <<b>>
           c == v \o w
           t == <<a, b>>
<1>1. /\ v \in Seq(S) /\ Len(v) = 1 /\ v[1] = a
      /\ w \in Seq(S) /\ Len(w) = 1 /\ w[1] = b
      /\ t \in Seq(S) /\ Len(t) = 2 /\ t[1] = a /\ t[2] = b
  OBVIOUS
<1> HIDE DEF v, w, t
<1>2. /\ c \in Seq(S) /\ Len(c) = Len(v) + Len(w)
      /\ \A i \in 1..(Len(v) + Len(w)) :
           c[i] = IF i <= Len(v) THEN v[i] ELSE w[i - Len(v)]
  BY <1>1, ConcatProperties
<1> HIDE DEF c
<1>3. Len(c) = 2 /\ c[1] = a /\ c[2] = b
  BY <1>1, <1>2
<1>4. c = t
  BY <1>1, <1>2, <1>3, SeqEqual
<1> QED BY <1>4 DEF c, v, w, t

LEMMA ParsePair ==
  ASSUME NEW p \in Parsers, NEW a \in Byte, NEW b \in Byte
  PROVE  ParseBytes(p, <<a, b>>) = AddByte(AddByte(p, a), b)
<1> DEFINE v == <<a>>
           w == <<b>>
<1>1. v \in Seq(Byte) /\ w \in Seq(Byte)
  OBVIOUS
<1>4. v \o w = <<a, b>>
  BY PairIsConcat
<1>2. ParseBytes(p, <<a, b>>) = ParseBytes(ParseBytes(p, v), w)
  <2> HIDE DEF v, w
  <2>1. ParseBytes(p, v \o w) = ParseBytes(ParseBytes(p, v), w)
    BY <1>1, ParseConcat
  <2> QED BY <1>4, <2>1
<1>3. AddByte(p, a) \in Parsers
  BY AddByteType
<1> QED BY <1>2, <1>3, ParseByte

\* What is parsed later takes nothing back, and a parser that runs has run all
\* the time.
LEMMA ParseMonotone ==
  ASSUME NEW p \in Parsers, NEW anc \in Seq(Byte)
  PROVE  /\ IsPrefix(p.decoded, ParseBytes(p, anc).decoded)
         /\ ParseBytes(p, anc).status = "running" => p.status = "running"
<1> DEFINE A == Parsed(p, anc)
           L == Len(anc)
           G == {n \in 0..L : /\ IsPrefix(p.decoded, A[n].decoded)
                              /\ A[n].status = "running" => p.status = "running"}
<1>1. L \in Nat /\ \A n \in 1..L : anc[n] \in Byte
  BY LenProperties, ElementOfSeq
<1>2. /\ A[0] = p /\ ParseBytes(p, anc) = A[L] /\ A \in [0..L -> Parsers]
      /\ \A n \in 1..L : A[n] = AddByte(A[n - 1], anc[n])
  BY ParsedIs
<1> HIDE DEF A, L
<1>3. 0 \in G
  <2>1. p.decoded \in Seq(Seq(Byte))
    BY DEF Parsers
  <2>2. IsPrefix(p.decoded, p.decoded)
    BY <2>1, PrefixIs
  <2> QED BY <1>1, <1>2, <2>2
<1>4. ASSUME NEW n \in 1..L, n - 1 \in G PROVE n \in G
  <2>1. A[n - 1] \in Parsers /\ A[n] \in Parsers /\ anc[n] \in Byte
    BY <1>1, <1>2
  <2>2. /\ IsPrefix(A[n - 1].decoded, A[n].decoded)
        /\ A[n].status = "running" => A[n - 1].status = "running"
    BY <1>2, <2>1, AddByteType
  <2>3. /\ IsPrefix(p.decoded, A[n - 1].decoded)
        /\ A[n - 1].status = "running" => p.status = "running"
    BY <1>4
  <2>4. /\ p.decoded \in Seq(Seq(Byte)) /\ A[n - 1].decoded \in Seq(Seq(Byte))
        /\ A[n].decoded \in Seq(Seq(Byte))
    BY <2>1 DEF Parsers
  <2>5. IsPrefix(p.decoded, A[n].decoded)
    BY <2>2, <2>3, <2>4, PrefixTransitive
  <2> QED BY <1>1, <2>2, <2>3, <2>5
<1>5. G = 0..L
  <2> HIDE DEF G
  <2>1. G \in SUBSET (0..L)
    BY DEF G
  <2> QED BY <1>1, <1>3, <1>4, <2>1, Numbered
<1>6. L \in G
  BY <1>1, <1>5
<1> QED BY <1>2, <1>6

\* A stuffed byte is collected as it was.
LEMMA ParseStuff ==
  ASSUME NEW b \in Byte, NEW data \in Seq(Byte), NEW done \in Seq(Seq(Byte)),
         data # <<>>, data[1] = STA
  PROVE  /\ Stuff(b) \in Seq(Byte)
         /\ ParseBytes(At(FALSE, TRUE, data, done, "running"), Stuff(b)) =
              At(FALSE, TRUE, Append(data, b), done, "running")
<1> DEFINE p == At(FALSE, TRUE, data, done, "running")
           r == At(TRUE, TRUE, data, done, "running")
<1>1. p \in Parsers /\ r \in Parsers
  BY AtIsParser
<1> HIDE DEF p, r
<1>2. CASE b \in {ESC, STA, STO}
  <2>1. Stuff(b) = <<ESC, b - ESC>>
    BY <1>2 DEF Stuff
  <2>2. ESC \in Byte /\ b - ESC \in Byte /\ b - ESC \in 0..2 /\ ESC + (b - ESC) = b
    BY <1>2 DEF ESC, STA, STO, Byte
  <2>3. AddByte(p, ESC) = r
    BY <2>2, AddByteCases DEF p, r
  <2>4. AddByte(r, b - ESC) = At(FALSE, TRUE, Append(data, b), done, "running")
    <3> DEFINE c == b - ESC
    <3>1. c \in Byte /\ c \in 0..2 /\ ESC + c = b
      BY <2>2
    <3> HIDE DEF c
    <3>2. AddByte(r, c) = At(FALSE, TRUE, Append(data, ESC + c), done, "running")
      BY <3>1, AddByteCases DEF r
    <3> QED BY <3>1, <3>2 DEF c
  <2>5. ParseBytes(p, <<ESC, b - ESC>>) = AddByte(AddByte(p, ESC), b - ESC)
    <3> DEFINE c == b - ESC
    <3>1. c \in Byte
      BY <2>2
    <3> HIDE DEF c
    <3>2. ParseBytes(p, <<ESC, c>>) = AddByte(AddByte(p, ESC), c)
      BY <1>1, <2>2, <3>1, ParsePair
    <3> QED BY <3>2 DEF c
  <2>6. <<ESC, b - ESC>> \in Seq(Byte)
    BY <2>2
  <2>7. ParseBytes(p, Stuff(b)) = AddByte(r, b - ESC)
    BY <2>1, <2>3, <2>5
  <2> QED BY <2>1, <2>4, <2>6, <2>7 DEF p
<1>3. CASE b \notin {ESC, STA, STO}
  <2>1. Stuff(b) = <<b>>
    BY <1>3 DEF Stuff
  <2>2. AddByte(p, b) = At(FALSE, TRUE, Append(data, b), done, "running")
    <3>1. b # ESC /\ b # STO
      BY <1>3
    <3> QED BY <3>1, AddPlainByte DEF p
  <2>3. ParseBytes(p, <<b>>) = AddByte(p, b)
    BY <1>1, ParseByte
  <2>4. <<b>> \in Seq(Byte)
    OBVIOUS
  <2>5. ParseBytes(p, Stuff(b)) = At(FALSE, TRUE, Append(data, b), done, "running")
    BY <2>1, <2>2, <2>3
  <2> QED BY <2>1, <2>4, <2>5 DEF p
<1> QED BY <1>2, <1>3

\* The bytes of a frame, and that decode_frame takes them.
LEMMA FrameBytesAre ==
  ASSUME NEW f \in Frames
  PROVE  /\ FrameBytes(f) \in Seq(Byte)
         /\ Len(FrameBytes(f)) = Len(f.msg) + 8
         /\ FrameBytes(f)[1] = STA
         /\ FrameBytes(f)[Len(f.msg) + 8] = STO
         /\ FrameDecodes(FrameBytes(f))
<1>1. /\ f.addr \in Byte \X Byte /\ f.crc \in Byte \X Byte /\ f.sqc \in Byte
      /\ f.msg \in Seq(Byte) /\ Len(f.msg) \in 1..255
  BY FramesAssumption
<1> DEFINE m == f.msg
           L == Len(f.msg)
           sta == <<STA>>
           sto == <<STO>>
           sizes == <<f.sqc, L>>
           g == sta \o f.addr
           h == g \o sizes
           t == h \o m
           c == t \o f.crc
           bytes == c \o sto
<1>2. L \in 1..255 /\ L \in Byte /\ STA \in Byte /\ STO \in Byte
  <2>1. STA \in Byte /\ STO \in Byte
    BY DEF Byte, STA, STO
  <2>2. L \in 1..255
    BY <1>1
  <2> HIDE DEF L
  <2>3. L \in Byte
    BY <2>2 DEF Byte
  <2> QED BY <2>1, <2>2, <2>3
<1>4. /\ f.crc \in Seq(Byte) /\ Len(f.crc) = 2
      /\ f.addr \in Seq(Byte) /\ Len(f.addr) = 2
  <2>1. ASSUME NEW pair \in Byte \X Byte PROVE pair \in Seq(Byte) /\ Len(pair) = 2
    <3>1. PICK x, y \in Byte : pair = <<x, y>>
      OBVIOUS
    <3>2. <<x, y>> \in Seq(Byte) /\ Len(<<x, y>>) = 2
      BY <3>1
    <3> QED BY <3>1, <3>2
  <2> QED BY <1>1, <2>1
<1>5. /\ sto \in Seq(Byte) /\ Len(sto) = 1 /\ sto[1] = STO
      /\ sta \in Seq(Byte) /\ Len(sta) = 1 /\ sta[1] = STA
      /\ sizes \in Seq(Byte) /\ Len(sizes) = 2 /\ sizes[2] = L
  <2> HIDE DEF L
  <2> QED BY <1>1, <1>2
<1> HIDE DEF sto, sta, sizes
<1>3. h \in Seq(Byte) /\ Len(h) = 5 /\ h[1] = STA /\ h[5] = L
  <2>1. /\ g \in Seq(Byte) /\ Len(g) = Len(sta) + Len(f.addr)
        /\ \A i \in 1..(Len(sta) + Len(f.addr)) :
             g[i] = IF i <= Len(sta) THEN sta[i] ELSE f.addr[i - Len(sta)]
    <3>1. sta \in Seq(Byte) /\ f.addr \in Seq(Byte)
      BY <1>4, <1>5
    <3> QED BY <3>1, ConcatProperties
  <2> HIDE DEF g
  <2>2. Len(g) = 3 /\ g[1] = STA
    BY <1>4, <1>5, <2>1
  <2>3. /\ h \in Seq(Byte) /\ Len(h) = Len(g) + Len(sizes)
        /\ \A i \in 1..(Len(g) + Len(sizes)) :
             h[i] = IF i <= Len(g) THEN g[i] ELSE sizes[i - Len(g)]
    <3>1. g \in Seq(Byte) /\ sizes \in Seq(Byte)
      BY <1>5, <2>1
    <3> QED BY <3>1, ConcatProperties
  <2> HIDE DEF h, L
  <2> QED BY <1>5, <2>2, <2>3
<1> HIDE DEF h
<1>6. /\ t \in Seq(Byte) /\ Len(t) = 5 + L
      /\ \A i \in 1..5 : t[i] = h[i]
      /\ \A i \in 1..L : t[5 + i] = m[i]
  <2>1. /\ t \in Seq(Byte) /\ Len(t) = Len(h) + Len(m)
        /\ \A i \in 1..(Len(h) + Len(m)) : t[i] = IF i <= Len(h) THEN h[i] ELSE m[i - Len(h)]
    <3> HIDE DEF m
    <3>1. h \in Seq(Byte) /\ m \in Seq(Byte)
      BY <1>1, <1>3 DEF m
    <3> QED BY <3>1, ConcatProperties
  <2>2. Len(m) = L
    OBVIOUS
  <2> HIDE DEF t, L, m
  <2>3. \A i \in 1..L : 5 + i \in 1..(5 + L) /\ ~(5 + i <= 5) /\ (5 + i) - 5 = i
    BY <1>2
  <2>4. \A i \in 1..5 : i \in 1..(5 + L)
    BY <1>2
  <2>5. \A i \in 1..(5 + L) : t[i] = IF i <= 5 THEN h[i] ELSE m[i - 5]
    BY <1>3, <2>1, <2>2
  <2>6. Len(t) = 5 + L
    BY <1>3, <2>1, <2>2
  <2>7. \A i \in 1..L : t[5 + i] = m[i]
    BY <2>3, <2>5
  <2> QED BY <2>1, <2>4, <2>5, <2>6, <2>7
<1> HIDE DEF t
<1>7. /\ c \in Seq(Byte) /\ Len(c) = 7 + L
      /\ \A i \in 1..(5 + L) : c[i] = t[i]
  <2>1. /\ c \in Seq(Byte) /\ Len(c) = Len(t) + Len(f.crc)
        /\ \A i \in 1..(Len(t) + Len(f.crc)) :
             c[i] = IF i <= Len(t) THEN t[i] ELSE f.crc[i - Len(t)]
    <3>1. t \in Seq(Byte) /\ f.crc \in Seq(Byte)
      BY <1>4, <1>6
    <3> QED BY <3>1, ConcatProperties
  <2> HIDE DEF c, L
  <2> QED BY <1>2, <1>4, <1>6, <2>1
<1> HIDE DEF c
<1>8. /\ bytes \in Seq(Byte) /\ Len(bytes) = 8 + L
      /\ \A i \in 1..(7 + L) : bytes[i] = c[i]
      /\ bytes[8 + L] = STO
  <2>1. /\ bytes \in Seq(Byte) /\ Len(bytes) = Len(c) + Len(sto)
        /\ \A i \in 1..(Len(c) + Len(sto)) :
             bytes[i] = IF i <= Len(c) THEN c[i] ELSE sto[i - Len(c)]
    <3>1. c \in Seq(Byte) /\ sto \in Seq(Byte)
      BY <1>5, <1>7
    <3> QED BY <3>1, ConcatProperties
  <2> HIDE DEF bytes, L
  <2> QED BY <1>2, <1>5, <1>7, <2>1
<1> HIDE DEF bytes
<1>9. FrameBytes(f) = bytes
  BY DEF FrameBytes, bytes, c, t, h, g, sizes, sta, sto, m, L
<1>10. bytes[1] = STA /\ bytes[5] = L /\ \A i \in 1..L : bytes[5 + i] = m[i]
  <2> HIDE DEF L, m
  <2>0. \A i \in 1..(5 + L) : bytes[i] = t[i]
    <3>1. \A i \in 1..(5 + L) : i \in 1..(7 + L)
      BY <1>2
    <3> QED BY <3>1, <1>7, <1>8
  <2>1. bytes[1] = h[1] /\ bytes[5] = h[5]
    <3>1. 1 \in 1..5 /\ 5 \in 1..5 /\ 1 \in 1..(5 + L) /\ 5 \in 1..(5 + L)
      BY <1>2
    <3> QED BY <2>0, <3>1, <1>6
  <2>2. \A i \in 1..L : bytes[5 + i] = m[i]
    <3>1. \A i \in 1..L : 5 + i \in 1..(5 + L)
      BY <1>2
    <3> QED BY <2>0, <3>1, <1>6
  <2> QED BY <1>3, <2>1, <2>2
<1>11. Message(bytes) = m
  <2>1. Message(bytes) = SubSeq(bytes, 6, 5 + L)
    BY <1>10 DEF Message
  <2> HIDE DEF L
  <2>2. /\ SubSeq(bytes, 6, 5 + L) \in Seq(Byte)
        /\ Len(SubSeq(bytes, 6, 5 + L)) = L
        /\ \A i \in 1..L : SubSeq(bytes, 6, 5 + L)[i] = bytes[5 + i]
    <3>1. \A i \in 6..(5 + L) : bytes[i] \in Byte
      BY <1>2, <1>8, ElementOfSeq
    <3>2. 5 + L \in Int /\ 6 \in Int /\ (5 + L) - 6 + 1 = L
      BY <1>2
    <3>3. /\ SubSeq(bytes, 6, 5 + L) \in Seq(Byte)
          /\ Len(SubSeq(bytes, 6, 5 + L)) = IF 6 <= 5 + L THEN (5 + L) - 6 + 1 ELSE 0
          /\ \A i \in 1..((5 + L) - 6 + 1) : SubSeq(bytes, 6, 5 + L)[i] = bytes[6 + i - 1]
      BY <3>1, <3>2, SubSeqProperties
    <3>4. \A i \in 1..L : 6 + i - 1 = 5 + i
      BY <1>2
    <3> QED BY <1>2, <3>2, <3>3, <3>4
  <2>3. Len(m) = L /\ m \in Seq(Byte)
    BY <1>1 DEF L
  <2>4. \A i \in 1..L : SubSeq(bytes, 6, 5 + L)[i] = m[i]
    BY <1>10, <2>2
  <2>5. SubSeq(bytes, 6, 5 + L) = m
    BY <2>2, <2>3, <2>4, SeqEqual
  <2> QED BY <2>1, <2>5
<1>12. FrameDecodes(bytes)
  <2>1. MessageDecodes(m)
    BY SourceAssumption
  <2>2. Len(bytes) >= 5 /\ bytes[5] + 8 = Len(bytes)
    <3> HIDE DEF L
    <3> QED BY <1>2, <1>8, <1>10
  <2> QED BY <1>11, <2>1, <2>2 DEF FrameDecodes
<1>13. 8 + L = L + 8
  BY <1>2
<1> QED BY <1>8, <1>9, <1>10, <1>12, <1>13

\* The bytes of a frame between STA and STO; their stuffing, byte by byte.
Body(f) == SubSeq(FrameBytes(f), 2, Len(FrameBytes(f)) - 1)
StuffedUpto(f) ==
  CHOOSE stuffed : stuffed = [n \in 0..Len(Body(f)) |->
    IF n = 0 THEN <<STA>> ELSE stuffed[n - 1] \o Stuff(Body(f)[n])]

LEMMA StuffIsBytes ==
  ASSUME NEW b \in Byte
  PROVE  Stuff(b) \in Seq(Byte)
<1> DEFINE data == <<STA>>
<1>1. STA \in Byte
  BY DEF STA, Byte
<1>2. data \in Seq(Byte) /\ data # <<>> /\ data[1] = STA
  BY <1>1
<1>3. <<>> \in Seq(Seq(Byte))
  BY EmptySeq
<1> HIDE DEF data
<1> QED BY <1>2, <1>3, ParseStuff

LEMMA BodyIs ==
  ASSUME NEW f \in Frames
  PROVE  /\ Body(f) \in Seq(Byte) /\ Len(Body(f)) = Len(f.msg) + 6
         /\ Len(f.msg) \in Nat
         /\ \A n \in 1..Len(Body(f)) : /\ Body(f)[n] \in Byte
                                       /\ Body(f)[n] = FrameBytes(f)[n + 1]
<1> DEFINE bytes == FrameBytes(f)
           L == Len(f.msg)
<1>1. bytes \in Seq(Byte) /\ Len(bytes) = L + 8
  BY FrameBytesAre
<1>2. L \in Nat
  BY FramesAssumption
<1> HIDE DEF bytes, L
<1>3. \A i \in 2..(L + 7) : bytes[i] \in Byte
  BY <1>1, <1>2, ElementOfSeq
<1>4. 2 \in Int /\ L + 7 \in Int /\ (L + 7) - 2 + 1 = L + 6 /\ 2 <= L + 7
  BY <1>2
<1> DEFINE body == SubSeq(bytes, 2, L + 7)
<1>5. /\ body \in Seq(Byte)
      /\ Len(body) = IF 2 <= L + 7 THEN (L + 7) - 2 + 1 ELSE 0
      /\ \A i \in 1..((L + 7) - 2 + 1) : body[i] = bytes[2 + i - 1]
  BY <1>3, <1>4, SubSeqProperties
<1> HIDE DEF body
<1>6. body \in Seq(Byte) /\ Len(body) = L + 6
  BY <1>4, <1>5
<1>7. \A i \in 1..(L + 6) : body[i] \in Byte /\ body[i] = bytes[i + 1]
  <2>1. \A i \in 1..(L + 6) : 2 + i - 1 = i + 1
    BY <1>2
  <2>2. \A i \in 1..(L + 6) : body[i] \in Byte
    BY <1>6, ElementOfSeq
  <2> QED BY <1>4, <1>5, <2>1, <2>2
<1>8. Body(f) = body
  <2>1. Len(bytes) - 1 = L + 7
    BY <1>1, <1>2
  <2> QED BY <2>1 DEF Body, body, bytes
<1> QED BY <1>2, <1>6, <1>7, <1>8 DEF bytes, L

LEMMA StuffedIs ==
  ASSUME NEW f \in Frames
  PROVE  /\ StuffedUpto(f)[0] = <<STA>>
         /\ \A n \in 0..Len(Body(f)) : StuffedUpto(f)[n] \in Seq(Byte)
         /\ \A n \in 1..Len(Body(f)) :
              StuffedUpto(f)[n] = StuffedUpto(f)[n - 1] \o Stuff(Body(f)[n])
         /\ Stuffed(f) = StuffedUpto(f)[Len(Body(f))] \o <<STO>>
<1> DEFINE body == Body(f)
           start == <<STA>>
           N == Len(body)
           S == Seq(Byte)
           Plus1(x, n) == x \o Stuff(body[n])
           step == [q \in S \X (1..N) |-> q[1] \o Stuff(body[q[2]])]
           Whole(g) == [n \in 0..N |-> IF n = 0 THEN start ELSE Plus1(g[n - 1], n)]
<1>1. N \in Nat /\ \A n \in 1..N : Stuff(body[n]) \in S
  <2>1. N \in Nat
    BY BodyIs, LenProperties
  <2>2. \A n \in 1..N : body[n] \in Byte
    BY BodyIs
  <2> QED BY <2>1, <2>2, StuffIsBytes
<1>2. start \in S
  <2>1. STA \in Byte
    BY DEF STA, Byte
  <2> QED BY <2>1
<1> HIDE DEF start
<1>3. step \in [S \X (1..N) -> S]
  <2> SUFFICES ASSUME NEW q \in S \X (1..N) PROVE q[1] \o Stuff(body[q[2]]) \in S
    OBVIOUS
  <2>1. q[1] \in S /\ q[2] \in 1..N
    OBVIOUS
  <2>2. Stuff(body[q[2]]) \in S
    BY <1>1, <2>1
  <2> QED BY <2>1, <2>2, ConcatProperties
<1>4. PICK g : Loop(g, N, S, start, step)
  <2> HIDE DEF step, N, S
  <2> QED BY <1>1, <1>2, <1>3, LoopExists
<1>5. \A n \in 1..N : g[n] = Plus1(g[n - 1], n)
  <2> SUFFICES ASSUME NEW n \in 1..N PROVE g[n] = Plus1(g[n - 1], n)
    OBVIOUS
  <2>1. g[n - 1] \in S
    <3>1. n - 1 \in 0..N /\ g \in [0..N -> S]
      BY <1>1, <1>4 DEF Loop
    <3> HIDE DEF S
    <3> QED BY <3>1
  <2>2. step[<<g[n - 1], n>>] = Plus1(g[n - 1], n)
    BY <2>1
  <2> QED BY <1>4, <2>2 DEF Loop
<1>6. g = Whole(g)
  <2>1. g \in [0..N -> S] /\ g[0] = start
    BY <1>4 DEF Loop
  <2> HIDE DEF S, Plus1
  <2> QED BY <1>1, <1>5, <2>1
<1> DEFINE st == StuffedUpto(f)
<1>7. st = Whole(st)
  BY <1>6 DEF StuffedUpto, start
<1>8. st[0] = start /\ \A n \in 1..N : st[n] = Plus1(st[n - 1], n)
  <2> HIDE DEF st, Plus1
  <2>1. 0 \in 0..N
    BY <1>1
  <2>2. Whole(st)[0] = IF 0 = 0 THEN start ELSE Plus1(st[0 - 1], 0)
    BY <2>1
  <2>3. st[0] = start
    <3> HIDE DEF Whole
    <3> QED BY <1>7, <2>2
  <2>4. ASSUME NEW n \in 1..N PROVE st[n] = Plus1(st[n - 1], n)
    <3>1. n \in 0..N /\ n # 0
      BY <1>1
    <3>2. Whole(st)[n] = Plus1(st[n - 1], n)
      BY <3>1
    <3> HIDE DEF Whole
    <3> QED BY <1>7, <3>2
  <2> QED BY <2>3, <2>4
<1>9. \A n \in 0..N : st[n] \in S
  <2> DEFINE G == {n \in 0..N : st[n] \in S}
  <2>1. 0 \in G
    BY <1>1, <1>2, <1>8
  <2>2. ASSUME NEW n \in 1..N, n - 1 \in G PROVE n \in G
    <3>1. st[n - 1] \in S /\ Stuff(body[n]) \in S
      BY <1>1, <2>2
    <3>2. Plus1(st[n - 1], n) \in S
      <4> HIDE DEF st
      <4> QED BY <3>1, ConcatProperties
    <3>3. n \in 0..N
      BY <1>1
    <3> HIDE DEF st, Plus1, S
    <3> QED BY <1>8, <3>2, <3>3
  <2>3. G = 0..N
    <3> HIDE DEF G
    <3>1. G \in SUBSET (0..N)
      BY DEF G
    <3> QED BY <1>1, <2>1, <2>2, <3>1, Numbered
  <2> QED BY <2>3
<1>10. Stuffed(f) = st[N] \o <<STO>>
  BY DEF Stuffed, StuffedUpto, Body, start
<1> QED BY <1>8, <1>9, <1>10 DEF start

\* A decoder between frames decodes a stuffed frame, twice, and is between
\* frames again.
LEMMA ParseStuffed ==
  ASSUME NEW f \in Frames, NEW done \in Seq(Seq(Byte))
  PROVE  /\ Stuffed(f) \in Seq(Byte) /\ Stuffed(f) # <<>>
         /\ ParseBytes(At(FALSE, FALSE, <<>>, done, "running"), Stuffed(f)) =
              At(FALSE, FALSE, <<>>, done \o <<FrameBytes(f), FrameBytes(f)>>, "running")
<1> DEFINE p == At(FALSE, FALSE, <<>>, done, "running")
           bytes == FrameBytes(f)
           body == Body(f)
           N == Len(body)
           L == Len(f.msg)
           st == StuffedUpto(f)
           Inside(n) == At(FALSE, TRUE, SubSeq(bytes, 1, n + 1), done, "running")
           G == {n \in 0..N : ParseBytes(p, st[n]) = Inside(n)}
<1>1. /\ bytes \in Seq(Byte) /\ Len(bytes) = L + 8
      /\ bytes[1] = STA /\ bytes[L + 8] = STO /\ FrameDecodes(bytes)
  BY FrameBytesAre
<1>2. /\ L \in Nat /\ N = L + 6
      /\ \A n \in 1..N : body[n] \in Byte /\ body[n] = bytes[n + 1]
  BY BodyIs
<1>3. p \in Parsers
  <2>1. <<>> \in Seq(Byte)
    BY EmptySeq
  <2> QED BY <2>1, AtIsParser
<1>4. /\ st[0] = <<STA>>
      /\ \A n \in 0..N : st[n] \in Seq(Byte)
      /\ \A n \in 1..N : st[n] = st[n - 1] \o Stuff(body[n])
      /\ Stuffed(f) = st[N] \o <<STO>>
  BY StuffedIs
<1>5. STA \in Byte /\ STO \in Byte
  BY DEF STA, STO, Byte
<1> HIDE DEF bytes, body, N, L, st
<1>6. ASSUME NEW n \in 1..(L + 7)
      PROVE  /\ SubSeq(bytes, 1, n) \in Seq(Byte)
             /\ SubSeq(bytes, 1, n) # <<>> /\ SubSeq(bytes, 1, n)[1] = STA
             /\ Append(SubSeq(bytes, 1, n), bytes[n + 1]) = SubSeq(bytes, 1, n + 1)
  <2>1. n \in Nat /\ 1 <= n /\ n <= L + 8 /\ n + 1 <= L + 8
    BY <1>2
  <2>2. \A i \in 1..(n + 1) : bytes[i] \in Byte
    <3>1. \A i \in 1..(n + 1) : i \in 1..Len(bytes)
      BY <1>1, <1>2
    <3> QED BY <1>1, <3>1, ElementOfSeq
  <2>3. /\ SubSeq(bytes, 1, n) \in Seq(Byte) /\ Len(SubSeq(bytes, 1, n)) = n
        /\ \A i \in 1..n : SubSeq(bytes, 1, n)[i] = bytes[i]
    <3>1. \A i \in 1..n : bytes[i] \in Byte
      BY <2>1, <2>2
    <3>2. /\ SubSeq(bytes, 1, n) \in Seq(Byte)
          /\ Len(SubSeq(bytes, 1, n)) = IF 1 <= n THEN n - 1 + 1 ELSE 0
          /\ \A i \in 1..(n - 1 + 1) : SubSeq(bytes, 1, n)[i] = bytes[1 + i - 1]
      BY <2>1, <3>1, SubSeqProperties
    <3> QED BY <2>1, <3>2
  <2>4. /\ SubSeq(bytes, 1, n + 1) \in Seq(Byte) /\ Len(SubSeq(bytes, 1, n + 1)) = n + 1
        /\ \A i \in 1..(n + 1) : SubSeq(bytes, 1, n + 1)[i] = bytes[i]
    <3> DEFINE k == n + 1
    <3>1. k \in Nat /\ 1 <= k /\ \A i \in 1..k : bytes[i] \in Byte
      BY <2>1, <2>2
    <3> HIDE DEF k
    <3>2. /\ SubSeq(bytes, 1, k) \in Seq(Byte)
          /\ Len(SubSeq(bytes, 1, k)) = IF 1 <= k THEN k - 1 + 1 ELSE 0
          /\ \A i \in 1..(k - 1 + 1) : SubSeq(bytes, 1, k)[i] = bytes[1 + i - 1]
      BY <3>1, SubSeqProperties
    <3>3. /\ Len(SubSeq(bytes, 1, k)) = k
          /\ \A i \in 1..k : SubSeq(bytes, 1, k)[i] = bytes[i]
      BY <3>1, <3>2
    <3> QED BY <3>2, <3>3 DEF k
  <2> DEFINE a == SubSeq(bytes, 1, n)
             c == SubSeq(bytes, 1, n + 1)
             x == bytes[n + 1]
  <2>5. x \in Byte
    BY <2>1, <2>2
  <2>6. c[n + 1] = x
    BY <2>1, <2>4
  <2> HIDE DEF a, c, x
  <2>7. /\ Append(a, x) \in Seq(Byte) /\ Len(Append(a, x)) = Len(a) + 1
        /\ \A i \in 1..Len(a) : Append(a, x)[i] = a[i]
        /\ Append(a, x)[Len(a) + 1] = x
    <3>1. a \in Seq(Byte)
      BY <2>3 DEF a
    <3> QED BY <3>1, <2>5, AppendProperties
  <2>8. /\ a \in Seq(Byte) /\ Len(a) = n /\ c \in Seq(Byte) /\ Len(c) = n + 1
        /\ \A i \in 1..n : a[i] = bytes[i]
        /\ \A i \in 1..(n + 1) : c[i] = bytes[i]
    BY <2>3, <2>4 DEF a, c
  <2>9. \A i \in 1..(n + 1) : Append(a, x)[i] = c[i]
    <3> TAKE i \in 1..(n + 1)
    <3>1. CASE i \in 1..n
      BY <2>1, <2>7, <2>8, <3>1
    <3>2. CASE i = n + 1
      BY <2>6, <2>7, <2>8, <3>2
    <3>3. i \in 1..n \/ i = n + 1
      BY <2>1
    <3> QED BY <3>1, <3>2, <3>3
  <2>10. Append(a, x) = c
    <3>1. Len(Append(a, x)) = n + 1
      BY <2>7, <2>8
    <3> QED BY <2>7, <2>8, <2>9, <3>1, SeqEqual
  <2>11. a # <<>> /\ a[1] = STA
    <3>1. Len(<<>>) = 0
      BY EmptySeq
    <3> QED BY <1>1, <2>1, <2>8, <3>1
  <2> QED BY <2>3, <2>10, <2>11 DEF a, c, x
<1>7. 0 \in G
  <2>1. ParseBytes(p, <<STA>>) = AddByte(p, STA)
    <3> HIDE DEF p
    <3> QED BY <1>3, <1>5, ParseByte
  <2>2. AddByte(p, STA) = At(FALSE, TRUE, Append(<<>>, STA), done, "running")
    BY <1>5, AddByteCases
  <2>3. Append(<<>>, STA) = SubSeq(bytes, 1, 1)
    <3>1. SubSeq(bytes, 1, 1) = <<STA>>
      <4>1. SubSeq(bytes, 1, 1) = [i \in 1..1 |-> bytes[i]]
        BY <1>1, <1>2
      <4>2. Len(SubSeq(bytes, 1, 1)) = 1 /\ SubSeq(bytes, 1, 1)[1] = STA
            /\ SubSeq(bytes, 1, 1) \in Seq(Byte)
        <5>1. SubSeq(bytes, 1, 1) \in Seq(Byte) /\ SubSeq(bytes, 1, 1)[1] = STA
          BY <1>2, <1>6
        <5>2. \A i \in 1..1 : bytes[i] \in Byte
          BY <1>1, <1>5
        <5>3. Len(SubSeq(bytes, 1, 1)) = IF 1 <= 1 THEN 1 - 1 + 1 ELSE 0
          BY <5>2, SubSeqProperties
        <5> QED BY <5>1, <5>3
      <4> DEFINE t == <<STA>>
                 w == SubSeq(bytes, 1, 1)
      <4>3. t \in Seq(Byte) /\ Len(t) = 1 /\ t[1] = STA
        BY <1>5
      <4> HIDE DEF t, w
      <4>4. w \in Seq(Byte) /\ Len(w) = 1 /\ w[1] = STA
        BY <4>2 DEF w
      <4>5. w = t
        BY <4>3, <4>4, SeqEqual
      <4> QED BY <4>5 DEF t, w
    <3>2. Append(<<>>, STA) = <<STA>>
      OBVIOUS
    <3> QED BY <3>1, <3>2
  <2>4. ParseBytes(p, st[0]) = Inside(0)
    <3>1. 0 + 1 = 1
      OBVIOUS
    <3> HIDE DEF p
    <3> QED BY <1>4, <2>1, <2>2, <2>3, <3>1
  <2>5. 0 \in 0..N
    BY <1>2
  <2> HIDE DEF p, Inside
  <2> QED BY <2>4, <2>5
<1>8. ASSUME NEW n \in 1..N, n - 1 \in G PROVE n \in G
  <2>0. n - 1 \in 0..N /\ n \in 0..N
    BY <1>2
  <2>1. /\ st[n - 1] \in Seq(Byte) /\ st[n] = st[n - 1] \o Stuff(body[n])
        /\ body[n] \in Byte /\ body[n] = bytes[n + 1]
    <3> HIDE DEF G
    <3> QED BY <1>2, <1>4, <2>0
  <2>2. ParseBytes(p, st[n - 1]) = At(FALSE, TRUE, SubSeq(bytes, 1, n), done, "running")
    <3>1. (n - 1) + 1 = n
      BY <1>2
    <3>2. ParseBytes(p, st[n - 1]) = Inside(n - 1)
      BY <1>8
    <3> QED BY <3>1, <3>2
  <2>3. n \in 1..(L + 7)
    BY <1>2
  <2> DEFINE a == SubSeq(bytes, 1, n)
             b == body[n]
  <2>4. a \in Seq(Byte) /\ a # <<>> /\ a[1] = STA /\ Append(a, b) = SubSeq(bytes, 1, n + 1)
    BY <1>6, <2>1, <2>3
  <2> HIDE DEF a, b, p
  <2>5. /\ Stuff(b) \in Seq(Byte)
        /\ ParseBytes(At(FALSE, TRUE, a, done, "running"), Stuff(b)) =
             At(FALSE, TRUE, Append(a, b), done, "running")
    <3>1. b \in Byte
      BY <2>1 DEF b
    <3> QED BY <2>4, <3>1, ParseStuff
  <2>6. ParseBytes(p, st[n - 1] \o Stuff(b)) = ParseBytes(ParseBytes(p, st[n - 1]), Stuff(b))
    BY <1>3, <2>1, <2>5, ParseConcat
  <2>7. ParseBytes(p, st[n]) = At(FALSE, TRUE, SubSeq(bytes, 1, n + 1), done, "running")
    BY <2>1, <2>2, <2>4, <2>5, <2>6 DEF a, b
  <2> QED BY <2>0, <2>7
<1>9. N \in G
  <2>1. N \in Nat
    BY <1>2
  <2> HIDE DEF G
  <2>2. G \in SUBSET (0..N)
    BY DEF G
  <2>3. G = 0..N
    BY <1>7, <1>8, <2>1, <2>2, Numbered
  <2> QED BY <2>1, <2>3
<1>10. ParseBytes(p, st[N]) = At(FALSE, TRUE, SubSeq(bytes, 1, L + 7), done, "running")
  <2>1. N + 1 = L + 7
    BY <1>2
  <2>2. ParseBytes(p, st[N]) = Inside(N)
    BY <1>9
  <2> QED BY <2>1, <2>2
<1> HIDE DEF G
<1> DEFINE a == SubSeq(bytes, 1, L + 7)
           sto == <<STO>>
<1>11. a \in Seq(Byte) /\ a # <<>> /\ a[1] = STA /\ Append(a, STO) = bytes
  <2>1. L + 7 \in 1..(L + 7) /\ (L + 7) + 1 = L + 8
    BY <1>2
  <2>2. SubSeq(bytes, 1, L + 8) = bytes
    BY <1>1, SubSeqFull
  <2>3. /\ a \in Seq(Byte) /\ a # <<>> /\ a[1] = STA
        /\ Append(a, bytes[(L + 7) + 1]) = SubSeq(bytes, 1, (L + 7) + 1)
    BY <1>6, <2>1
  <2> QED BY <1>1, <2>1, <2>2, <2>3
<1>12. st[N] \in Seq(Byte) /\ sto \in Seq(Byte)
  BY <1>2, <1>4, <1>5
<1>13. ParseBytes(p, st[N] \o sto) = ParseBytes(ParseBytes(p, st[N]), sto)
  <2> HIDE DEF p, sto
  <2> QED BY <1>3, <1>12, ParseConcat
<1> DEFINE q == At(FALSE, TRUE, a, done, "running")
<1>14. q \in Parsers
  <2> HIDE DEF a
  <2> QED BY <1>11, AtIsParser
<1>15. ParseBytes(q, sto) = AddByte(q, STO)
  <2> HIDE DEF q
  <2> QED BY <1>5, <1>14, ParseByte
<1>16. AddByte(q, STO) = FrameEnded(q, bytes)
  <2> HIDE DEF a
  <2>1. AddByte(At(FALSE, TRUE, a, done, "running"), STO) =
          FrameEnded(At(FALSE, TRUE, a, done, "running"), Append(a, STO))
    BY <1>5, AddByteCases
  <2> QED BY <1>11, <2>1
<1>17. FrameEnded(q, bytes) = At(FALSE, FALSE, <<>>, done \o <<bytes, bytes>>, "running")
  BY <1>1, FrameEndedCases
<1>18. st[N] \o sto \in Seq(Byte) /\ st[N] \o sto # <<>>
  <2>1. st[N] \o sto \in Seq(Byte) /\ Len(st[N] \o sto) = Len(st[N]) + Len(sto)
    <3> HIDE DEF sto
    <3> QED BY <1>12, ConcatProperties
  <2>2. Len(sto) = 1 /\ Len(st[N]) \in Nat
    BY <1>12, LenProperties
  <2>3. Len(<<>>) = 0
    BY EmptySeq
  <2> HIDE DEF sto
  <2> QED BY <2>1, <2>2, <2>3
<1> HIDE DEF q, p
<1>19. QED
  BY <1>4, <1>10, <1>13, <1>15, <1>16, <1>17, <1>18 DEF q, p, bytes

\* What the parser has decoded when the frames sent are all in.
LEMMA TwiceIs ==
  ASSUME NEW frames \in Seq(Frames)
  PROVE  /\ Twice(frames) \in Seq(Seq(Byte)) /\ Len(Twice(frames)) = 2 * Len(frames)
         /\ Len(frames) \in Nat
         /\ \A i \in 1..(2 * Len(frames)) :
              /\ Twice(frames)[i] = FrameBytes(frames[(i + 1) \div 2])
              /\ (i + 1) \div 2 \in 1..Len(frames)
<1> DEFINE n == Len(frames)
           t == Twice(frames)
<1>1. n \in Nat
  BY LenProperties
<1> HIDE DEF n
<1>2. \A i \in 1..(2 * n) : (i + 1) \div 2 \in 1..n
  BY <1>1
<1>3. \A i \in 1..(2 * n) : FrameBytes(frames[(i + 1) \div 2]) \in Seq(Byte)
  <2> SUFFICES ASSUME NEW i \in 1..(2 * n)
               PROVE  FrameBytes(frames[(i + 1) \div 2]) \in Seq(Byte)
    OBVIOUS
  <2>1. frames[(i + 1) \div 2] \in Frames
    BY <1>2, ElementOfSeq DEF n
  <2> QED BY <2>1, FrameBytesAre
<1>4. t = [i \in 1..(2 * n) |-> FrameBytes(frames[(i + 1) \div 2])]
  BY DEF Twice, n
<1> HIDE DEF t
<1>5. 2 * n \in Nat
  BY <1>1
<1>6. t \in [1..(2 * n) -> Seq(Byte)]
  BY <1>3, <1>4
<1>7. t \in Seq(Seq(Byte)) /\ Len(t) = 2 * n
  <2> DEFINE k == 2 * n
  <2> HIDE DEF k
  <2>1. k \in Nat /\ t \in [1..k -> Seq(Byte)]
    BY <1>5, <1>6 DEF k
  <2>2. t \in Seq(Seq(Byte)) /\ Len(t) = k
    BY <2>1
  <2> QED BY <2>2 DEF k
<1>8. \A i \in 1..(2 * n) : t[i] = FrameBytes(frames[(i + 1) \div 2])
  BY <1>4
<1> QED BY <1>1, <1>2, <1>7, <1>8 DEF n, t

LEMMA TwiceOneMore ==
  ASSUME NEW frames \in Seq(Frames), NEW f \in Frames
  PROVE  Twice(Append(frames, f)) =
           Twice(frames) \o <<FrameBytes(f), FrameBytes(f)>>
<1> DEFINE more == Append(frames, f)
           n == Len(frames)
           b == FrameBytes(f)
           pair == <<b, b>>
           t == Twice(frames)
           u == Twice(more)
           c == t \o pair
<1>1. /\ more \in Seq(Frames) /\ Len(more) = n + 1 /\ n \in Nat
      /\ \A i \in 1..n : more[i] = frames[i]
      /\ more[n + 1] = f
  BY AppendProperties, LenProperties
<1>2. /\ b \in Seq(Byte)
      /\ pair \in Seq(Seq(Byte)) /\ Len(pair) = 2 /\ pair[1] = b /\ pair[2] = b
  <2>1. b \in Seq(Byte)
    BY FrameBytesAre
  <2> HIDE DEF b
  <2> QED BY <2>1
<1>3. /\ t \in Seq(Seq(Byte)) /\ Len(t) = 2 * n
      /\ \A i \in 1..(2 * n) : /\ t[i] = FrameBytes(frames[(i + 1) \div 2])
                               /\ (i + 1) \div 2 \in 1..n
  BY TwiceIs
<1> HIDE DEF more, pair, t
<1>4. /\ u \in Seq(Seq(Byte)) /\ Len(u) = 2 * Len(more)
      /\ \A i \in 1..(2 * Len(more)) : u[i] = FrameBytes(more[(i + 1) \div 2])
  BY <1>1, TwiceIs
<1> HIDE DEF u
<1>5. /\ c \in Seq(Seq(Byte)) /\ Len(c) = Len(t) + Len(pair)
      /\ \A i \in 1..(Len(t) + Len(pair)) :
           c[i] = IF i <= Len(t) THEN t[i] ELSE pair[i - Len(t)]
  <2>1. t \in Seq(Seq(Byte)) /\ pair \in Seq(Seq(Byte))
    BY <1>2, <1>3
  <2> QED BY <2>1, ConcatProperties
<1> HIDE DEF c, n, b
<1>6. Len(c) = Len(u) /\ Len(u) = 2 * n + 2
  BY <1>1, <1>2, <1>3, <1>4, <1>5
<1>7. \A i \in 1..Len(u) : u[i] = c[i]
  <2> SUFFICES ASSUME NEW i \in 1..(2 * n + 2) PROVE u[i] = c[i]
    BY <1>6
  <2>0. u[i] = FrameBytes(more[(i + 1) \div 2])
    BY <1>1, <1>4
  <2>1. CASE i <= 2 * n
    <3>1. i \in 1..(2 * n)
      BY <1>1, <2>1
    <3>2. (i + 1) \div 2 \in 1..n /\ t[i] = FrameBytes(frames[(i + 1) \div 2])
      BY <1>3, <3>1
    <3>3. more[(i + 1) \div 2] = frames[(i + 1) \div 2]
      BY <1>1, <3>2
    <3>4. c[i] = t[i]
      BY <1>1, <1>2, <1>3, <1>5, <2>1
    <3> QED BY <2>0, <3>2, <3>3, <3>4
  <2>2. CASE ~(i <= 2 * n)
    <3>1. (i + 1) \div 2 = n + 1 /\ i - 2 * n \in {1, 2}
      BY <1>1, <2>2
    <3>2. u[i] = b
      BY <1>1, <2>0, <3>1 DEF b
    <3>3. c[i] = pair[i - 2 * n]
      BY <1>1, <1>2, <1>3, <1>5, <2>2
    <3> QED BY <1>2, <3>1, <3>2, <3>3
  <2> QED BY <2>1, <2>2
<1>8. u = c
  BY <1>4, <1>5, <1>6, <1>7, SeqEqual
<1> QED BY <1>8 DEF u, c, t, pair, b, more

LEMMA TwiceOne ==
  ASSUME NEW f \in Frames
  PROVE  Twice(<<f>>) = <<FrameBytes(f), FrameBytes(f)>>
<1> DEFINE one == <<f>>
           b == FrameBytes(f)
           pair == <<b, b>>
           t == Twice(one)
<1>1. one \in Seq(Frames) /\ Len(one) = 1 /\ one[1] = f
  OBVIOUS
<1>2. b \in Seq(Byte)
  BY FrameBytesAre
<1> HIDE DEF one
<1>3. /\ t \in Seq(Seq(Byte)) /\ Len(t) = 2 * Len(one)
      /\ \A i \in 1..(2 * Len(one)) : t[i] = FrameBytes(one[(i + 1) \div 2])
  BY <1>1, TwiceIs
<1> HIDE DEF t
<1>4. Len(t) = 2 /\ t[1] = b /\ t[2] = b
  <2>1. t[1] = FrameBytes(one[(1 + 1) \div 2]) /\ t[2] = FrameBytes(one[(2 + 1) \div 2])
    BY <1>1, <1>3
  <2>2. (1 + 1) \div 2 = 1 /\ (2 + 1) \div 2 = 1
    OBVIOUS
  <2> QED BY <1>1, <1>3, <2>1, <2>2
<1> HIDE DEF b
<1>5. pair \in Seq(Seq(Byte)) /\ Len(pair) = 2 /\ pair[1] = b /\ pair[2] = b
  BY <1>2
<1> HIDE DEF pair
<1>6. t = pair
  <2>1. \A i \in 1..Len(t) : t[i] = pair[i]
    BY <1>4, <1>5
  <2> QED BY <1>3, <1>4, <1>5, <2>1, SeqEqual
<1> QED BY <1>6 DEF t, pair, b, one

\* The bytes laid out at the end of the datagram are the ancillary bytes found
\* there.
LEMMA AncBytesOf ==
  ASSUME NEW anc \in Seq(Byte), Len(anc) \in 1..252, NEW datagram \in WithAudio(anc)
  PROVE  AncBytes(datagram) = anc
<1> DEFINE L == Len(anc)
           audio == <<7>>
           line == Reverse(datagram)
<1>1. PICK head \in {<<ESC, L>>, <<L>>} : datagram = audio \o Reverse(head \o anc)
  BY DEF WithAudio
<1>2. L \in 1..252 /\ L \in Byte /\ ESC \in Byte /\ ESC = 253
  BY DEF Byte, ESC
<1>3. /\ head \in Seq(Byte) /\ Len(head) \in 1..2
      /\ head[1] # 0
      /\ Len(head) = 2 <=> head[1] = ESC
      /\ Len(head) = 2 => head[2] = L
      /\ Len(head) = 1 => head[1] = L
  <2> HIDE DEF L
  <2>1. CASE head = <<L>>
    <3>1. <<L>> \in Seq(Byte) /\ Len(<<L>>) = 1 /\ <<L>>[1] = L
      BY <1>2
    <3> QED BY <1>2, <2>1, <3>1
  <2>2. CASE head = <<ESC, L>>
    <3>1. <<ESC, L>> \in Seq(Byte) /\ Len(<<ESC, L>>) = 2 /\ <<ESC, L>>[1] = ESC
          /\ <<ESC, L>>[2] = L
      BY <1>2
    <3> QED BY <1>2, <2>2, <3>1
  <2> QED BY <1>1, <2>1, <2>2
<1> DEFINE ha == head \o anc
           H == Len(head)
<1>4. /\ ha \in Seq(Byte) /\ Len(ha) = H + L
      /\ \A i \in 1..(H + L) : ha[i] = IF i <= H THEN head[i] ELSE anc[i - H]
  BY <1>3, ConcatProperties
<1> HIDE DEF ha, L, H
<1>5. H \in 1..2 /\ H + L \in Nat
  BY <1>2, <1>3 DEF H
<1> DEFINE r == Reverse(ha)
<1>6. /\ r \in Seq(Byte) /\ Len(r) = H + L
      /\ \A i \in 1..(H + L) : r[i] = ha[(H + L) - i + 1]
  <2> DEFINE k == H + L
  <2>1. r = [i \in 1..k |-> ha[(k - i) + 1]]
    BY <1>4 DEF Reverse
  <2>2. k \in Nat
    BY <1>5
  <2> HIDE DEF k
  <2>3. \A i \in 1..k : ha[(k - i) + 1] \in Byte
    <3> SUFFICES ASSUME NEW i \in 1..k PROVE ha[(k - i) + 1] \in Byte
      OBVIOUS
    <3>1. (k - i) + 1 \in 1..k
      BY <2>2
    <3>2. Len(ha) = k
      BY <1>4 DEF k
    <3> QED BY <1>4, <3>1, <3>2, ElementOfSeq
  <2> HIDE DEF r
  <2>4. r \in Seq(Byte) /\ Len(r) = k
    <3>1. r \in [1..k -> Byte]
      BY <2>1, <2>3
    <3> QED BY <2>2, <3>1
  <2>5. \A i \in 1..k : r[i] = ha[(k - i) + 1]
    BY <2>1
  <2> QED BY <2>4, <2>5 DEF k
<1> HIDE DEF r
<1>7. audio \in Seq(Byte) /\ Len(audio) = 1
  BY DEF Byte
<1> HIDE DEF audio
<1>8. /\ datagram \in Seq(Byte) /\ Len(datagram) = 1 + (H + L)
      /\ \A i \in 1..(H + L) : datagram[1 + i] = r[i]
  <2>1. datagram = audio \o r
    BY <1>1 DEF r, ha
  <2>2. /\ audio \o r \in Seq(Byte) /\ Len(audio \o r) = Len(audio) + Len(r)
        /\ \A i \in 1..(Len(audio) + Len(r)) :
             (audio \o r)[i] = IF i <= Len(audio) THEN audio[i] ELSE r[i - Len(audio)]
    <3>1. audio \in Seq(Byte) /\ r \in Seq(Byte)
      BY <1>6, <1>7
    <3> QED BY <3>1, ConcatProperties
  <2>3. \A i \in 1..(H + L) : 1 + i \in 1..(1 + (H + L)) /\ ~(1 + i <= 1) /\ (1 + i) - 1 = i
    BY <1>5
  <2>4. \A i \in 1..(1 + (H + L)) : datagram[i] = IF i <= 1 THEN audio[i] ELSE r[i - 1]
    BY <1>6, <1>7, <2>1, <2>2
  <2>5. \A i \in 1..(H + L) : datagram[1 + i] = r[i]
    BY <2>3, <2>4
  <2> QED BY <1>6, <1>7, <2>1, <2>2, <2>5
<1>9. \A i \in 1..(H + L) : line[i] = ha[i]
  <2> SUFFICES ASSUME NEW i \in 1..(H + L) PROVE line[i] = ha[i]
    OBVIOUS
  <2> DEFINE k == H + L
             j == (k - i) + 1
  <2>1. line = [x \in 1..(1 + k) |-> datagram[((1 + k) - x) + 1]]
    BY <1>8 DEF Reverse
  <2>2. k \in Nat /\ i \in 1..k
    BY <1>5
  <2> HIDE DEF k
  <2>3. i \in 1..(1 + k) /\ ((1 + k) - i) + 1 = 1 + j /\ j \in 1..k /\ (k - j) + 1 = i
    BY <2>2
  <2>4. line[i] = datagram[1 + j]
    BY <2>1, <2>3
  <2>5. datagram[1 + j] = r[j]
    BY <1>8, <2>3 DEF k
  <2>6. r[j] = ha[(k - j) + 1]
    BY <1>6, <2>3 DEF k
  <2> QED BY <2>3, <2>4, <2>5, <2>6
<1> HIDE DEF line
<1>10. \A i \in 1..H : line[i] = head[i]
  <2>1. \A i \in 1..H : i \in 1..(H + L) /\ i <= H
    BY <1>2, <1>5
  <2> QED BY <1>4, <1>9, <2>1
<1>11. \A i \in 1..L : line[H + i] = anc[i]
  <2>1. \A i \in 1..L : H + i \in 1..(H + L) /\ ~(H + i <= H) /\ (H + i) - H = i
    BY <1>2, <1>5
  <2> QED BY <1>4, <1>9, <2>1
<1>12. AncBytes(datagram) = SubSeq(line, H + 1, H + L)
  <2>1. line[1] = head[1]
    BY <1>5, <1>10
  <2>2. CASE H = 2
    <3>1. line[1] = ESC /\ line[2] = L
      BY <1>3, <1>10, <2>1, <2>2 DEF H
    <3>2. H + 1 = 3 /\ H + L = 2 + L
      BY <2>2
    <3>3. line[1] # 0
      BY <1>2, <3>1
    <3>4. AncBytes(datagram) = SubSeq(line, 3, 2 + line[2])
      BY <3>1, <3>3 DEF AncBytes, line
    <3> QED BY <3>1, <3>2, <3>4
  <2>3. CASE H = 1
    <3>1. line[1] = L /\ line[1] # 0 /\ line[1] # ESC
      BY <1>2, <1>3, <2>1, <2>3 DEF H
    <3>2. H + 1 = 2 /\ H + L = 1 + L
      BY <2>3
    <3> QED BY <3>1, <3>2 DEF AncBytes, line
  <2> QED BY <1>5, <2>2, <2>3
<1> DEFINE w == SubSeq(line, H + 1, H + L)
<1>13. /\ w \in Seq(Byte) /\ Len(w) = L
       /\ \A i \in 1..L : w[i] = anc[i]
  <2> DEFINE m == H + 1
             n == H + L
  <2>1. m \in Int /\ n \in Int /\ m <= n /\ n - m + 1 = L
    BY <1>2, <1>5
  <2>2. \A i \in m..n : line[i] \in Byte
    <3> SUFFICES ASSUME NEW i \in m..n PROVE line[i] \in Byte
      OBVIOUS
    <3>1. i \in 1..(H + L)
      BY <1>2, <1>5
    <3>2. Len(ha) = H + L
      BY <1>4
    <3>3. ha[i] \in Byte
      BY <1>4, <3>1, <3>2, ElementOfSeq
    <3> QED BY <1>9, <3>1, <3>3
  <2>3. \A i \in 1..L : m + i - 1 = H + i
    BY <1>2, <1>5
  <2> HIDE DEF m, n
  <2>4. /\ SubSeq(line, m, n) \in Seq(Byte)
        /\ Len(SubSeq(line, m, n)) = IF m <= n THEN n - m + 1 ELSE 0
        /\ \A i \in 1..(n - m + 1) : SubSeq(line, m, n)[i] = line[m + i - 1]
    BY <2>1, <2>2, SubSeqProperties
  <2>5. \A i \in 1..L : SubSeq(line, m, n)[i] = line[H + i]
    BY <2>1, <2>3, <2>4
  <2>6. Len(SubSeq(line, m, n)) = L
    BY <2>1, <2>4
  <2> QED BY <1>11, <2>4, <2>5, <2>6 DEF m, n
<1> HIDE DEF w
<1>14. w = anc
  BY <1>13, SeqEqual DEF L
<1> QED BY <1>12, <1>14 DEF w

\* The fields have their types.
UecpTyped ==
  /\ uecp \in Decoders /\ decoded \in Seq(Seq(Byte))
  /\ status \in {"running", "failed", "ended"}
  /\ sent \in Seq(Frames) /\ outgoing \in Seq(Byte)
  /\ losses \in 0..MaxLosses

\* As long as no datagram is lost, parsing what is still to come decodes just
\* the frames sent.
OnTheWay ==
  losses = 0 =>
    /\ status # "failed"
    /\ IsPrefix(decoded, Twice(sent))
    /\ status = "running" =>
         ParseBytes(Parser, outgoing) = At(FALSE, FALSE, <<>>, Twice(sent), "running")

UecpIndInv == UecpTyped /\ OnTheWay

LEMMA RunningParser ==
  ASSUME UecpTyped, status = "running"
  PROVE  Parser \in Parsers
BY DEF UecpTyped, Parser, Parsers

\* The empty decoder, and what a decoder between frames is.
LEMMA BetweenFrames ==
  ASSUME NEW u \in Decoders
  PROVE  /\ NewDecoder \in Decoders
         /\ ~u.message_begin_seen => u = NewDecoder
<1>1. <<>> \in Seq(Byte)
  BY EmptySeq
<1>2. NewDecoder \in Decoders
  BY <1>1 DEF NewDecoder, Decoders, Agree
<1>3. ASSUME ~u.message_begin_seen PROVE u = NewDecoder
  <2>1. u.message_begin_seen \in BOOLEAN /\ u.next_untrap \in BOOLEAN /\ Agree(u)
    BY DEF Decoders
  <2>2. u.message_begin_seen = FALSE /\ u.next_untrap = FALSE /\ u.data = <<>>
    BY <1>3, <2>1 DEF Agree
  <2>3. u = [next_untrap |-> u.next_untrap,
             message_begin_seen |-> u.message_begin_seen, data |-> u.data]
    BY DEF Decoders
  <2> QED BY <2>2, <2>3 DEF NewDecoder
<1> QED BY <1>2, <1>3

\* A new parser is the same in both notations.
LEMMA NewParser ==
  ASSUME NEW done
  PROVE  [uecp |-> NewDecoder, decoded |-> done, status |-> "running"] =
           At(FALSE, FALSE, <<>>, done, "running")
BY DEF NewDecoder, At

LEMMA ParseNothing ==
  ASSUME NEW p \in Parsers
  PROVE  ParseBytes(p, <<>>) = p
<1> DEFINE e == <<>>
<1>1. e \in Seq(Byte) /\ Len(e) = 0
  BY EmptySeq
<1> HIDE DEF e
<1>2. ParseBytes(p, e) = Parsed(p, e)[0] /\ Parsed(p, e)[0] = p
  BY <1>1, ParsedIs
<1> QED BY <1>2 DEF e

LEMMA UecpStarts ==
  UecpInit => UecpIndInv
<1> SUFFICES ASSUME UecpInit PROVE UecpIndInv
  OBVIOUS
<1>1. <<>> \in Seq(Byte) /\ <<>> \in Seq(Seq(Byte)) /\ <<>> \in Seq(Frames)
      /\ Len(<<>>) = 0
  BY EmptySeq
<1>2. UecpTyped
  <2>1. NewDecoder \in Decoders
    BY <1>1 DEF NewDecoder, Decoders, Agree
  <2>2. 0 \in 0..MaxLosses
    BY FramesAssumption
  <2> QED BY <1>1, <2>1, <2>2 DEF UecpInit, UecpTyped
<1>3. Twice(sent) = <<>>
  <2> DEFINE e == <<>>
  <2>1. e \in Seq(Frames) /\ e \in Seq(Seq(Byte)) /\ Len(e) = 0
    BY <1>1
  <2> HIDE DEF e
  <2>2. Twice(e) \in Seq(Seq(Byte)) /\ Len(Twice(e)) = 2 * Len(e)
    BY <2>1, TwiceIs
  <2> DEFINE t == Twice(e)
  <2> HIDE DEF t
  <2>3. Len(t) = 0 /\ t \in Seq(Seq(Byte))
    BY <2>1, <2>2 DEF t
  <2>4. t = e
    BY <2>1, <2>3, SeqEqual
  <2> QED BY <2>4 DEF UecpInit, e, t
<1>4. Parser = At(FALSE, FALSE, <<>>, <<>>, "running")
  BY DEF UecpInit, Parser, At, NewDecoder
<1>5. status = "running" /\ outgoing = <<>> /\ decoded = <<>>
  BY DEF UecpInit
<1>6. ParseBytes(Parser, outgoing) = Parser
  <2>1. Parser \in Parsers
    BY <1>2, <1>5, RunningParser
  <2> QED BY <1>5, <2>1, ParseNothing
<1>7. IsPrefix(decoded, Twice(sent))
  <2>1. decoded \in Seq(Seq(Byte)) /\ Twice(sent) = decoded
    BY <1>2, <1>3, <1>5 DEF UecpTyped
  <2> QED BY <2>1, PrefixIs
<1> QED BY <1>2, <1>3, <1>4, <1>5, <1>6, <1>7 DEF UecpIndInv, OnTheWay

LEMMA SendFrameStep ==
  ASSUME UecpIndInv, SendFrame
  PROVE  UecpIndInv'
<1>1. PICK f \in Frames : sent' = Append(sent, f) /\ outgoing' = outgoing \o Stuffed(f)
  BY DEF SendFrame
<1>2. UNCHANGED <<uecp, decoded, status, losses>>
  BY DEF SendFrame
<1>3. UecpTyped /\ OnTheWay
  BY DEF UecpIndInv
<1>4. /\ outgoing \in Seq(Byte) /\ sent \in Seq(Frames) /\ decoded \in Seq(Seq(Byte))
  BY <1>3 DEF UecpTyped
<1>5. UecpTyped'
  <2>1. sent' \in Seq(Frames)
    BY <1>1, <1>4, AppendProperties
  <2>2. Stuffed(f) \in Seq(Byte)
    BY <1>4, ParseStuffed
  <2>3. outgoing' \in Seq(Byte)
    BY <1>1, <1>4, <2>2, ConcatProperties
  <2> QED BY <1>2, <1>3, <2>1, <2>3 DEF UecpTyped
<1> DEFINE pair == <<FrameBytes(f), FrameBytes(f)>>
<1>6. Twice(sent)' = Twice(sent) \o pair
  <2>1. Twice(Append(sent, f)) = Twice(sent) \o pair
    BY <1>4, TwiceOneMore
  <2> QED BY <1>1, <2>1 DEF Twice
<1>7. Twice(sent) \in Seq(Seq(Byte)) /\ pair \in Seq(Seq(Byte))
  <2>1. Twice(sent) \in Seq(Seq(Byte))
    BY <1>4, TwiceIs
  <2>2. FrameBytes(f) \in Seq(Byte)
    BY FrameBytesAre
  <2>3. pair \in Seq(Seq(Byte))
    <3> DEFINE b == FrameBytes(f)
    <3> HIDE DEF b
    <3>1. b \in Seq(Byte)
      BY <2>2 DEF b
    <3>2. <<b, b>> \in Seq(Seq(Byte))
      BY <3>1
    <3> QED BY <3>2 DEF b
  <2> QED BY <2>1, <2>3
<1> HIDE DEF pair
<1>8. ASSUME losses = 0, IsPrefix(decoded, Twice(sent))
      PROVE  IsPrefix(decoded, Twice(sent) \o pair)
  <2>1. IsPrefix(Twice(sent), Twice(sent) \o pair)
    BY <1>7, PrefixOfConcat
  <2>2. Twice(sent) \o pair \in Seq(Seq(Byte))
    BY <1>7, ConcatProperties
  <2> QED BY <1>4, <1>7, <1>8, <2>1, <2>2, PrefixTransitive
<1>9. ASSUME status = "running",
             ParseBytes(Parser, outgoing) = At(FALSE, FALSE, <<>>, Twice(sent), "running")
      PROVE  ParseBytes(Parser, outgoing \o Stuffed(f)) =
               At(FALSE, FALSE, <<>>, Twice(sent) \o pair, "running")
  <2>1. Parser \in Parsers
    BY <1>3, <1>9, RunningParser
  <2>2. Stuffed(f) \in Seq(Byte)
    BY <1>4, ParseStuffed
  <2>3. ParseBytes(Parser, outgoing \o Stuffed(f)) =
          ParseBytes(ParseBytes(Parser, outgoing), Stuffed(f))
    BY <1>4, <2>1, <2>2, ParseConcat
  <2>4. ParseBytes(At(FALSE, FALSE, <<>>, Twice(sent), "running"), Stuffed(f)) =
          At(FALSE, FALSE, <<>>, Twice(sent) \o pair, "running")
    BY <1>7, ParseStuffed DEF pair
  <2> QED BY <1>9, <2>3, <2>4
<1>10. Parser' = Parser
  BY <1>2 DEF Parser
<1>11. OnTheWay'
  <2>1. ASSUME losses = 0
        PROVE  /\ status # "failed" /\ IsPrefix(decoded, Twice(sent) \o pair)
               /\ status = "running" =>
                    ParseBytes(Parser, outgoing \o Stuffed(f)) =
                      At(FALSE, FALSE, <<>>, Twice(sent) \o pair, "running")
    BY <1>3, <1>8, <1>9, <2>1 DEF OnTheWay
  <2>2. ParseBytes(Parser, outgoing)' = ParseBytes(Parser, outgoing \o Stuffed(f))
    BY <1>1, <1>10 DEF ParseBytes
  <2> QED BY <1>2, <1>6, <2>1, <2>2 DEF OnTheWay
<1> QED BY <1>5, <1>11 DEF UecpIndInv

\* A datagram is parsed: n bytes of what was on the way.
LEMMA ReceivedIs ==
  ASSUME UecpTyped, Receive
  PROVE  \E v, w \in Seq(Byte) :
           /\ v # <<>> /\ outgoing = v \o w /\ outgoing' = w
           /\ status = "running" /\ Parser \in Parsers
           /\ uecp' = ParseBytes(Parser, v).uecp
           /\ decoded' = ParseBytes(Parser, v).decoded
           /\ status' = ParseBytes(Parser, v).status
           /\ ParseBytes(Parser, v) \in Parsers
           /\ UNCHANGED <<sent, losses>>
<1>1. PICK n \in 1..MaxChunk :
        /\ Cut(n)
        /\ \E datagram \in WithAudio(SubSeq(outgoing, 1, n)) :
             LET p == ParseAncBytes(AncBytes(datagram))
             IN  uecp' = p.uecp /\ decoded' = p.decoded /\ status' = p.status
  BY DEF Receive
<1> DEFINE v == SubSeq(outgoing, 1, n)
           w == SubSeq(outgoing, n + 1, Len(outgoing))
<1>2. PICK datagram \in WithAudio(v) :
        LET p == ParseAncBytes(AncBytes(datagram))
        IN  uecp' = p.uecp /\ decoded' = p.decoded /\ status' = p.status
  BY <1>1
<1>3. outgoing \in Seq(Byte) /\ Len(outgoing) \in Nat /\ n <= Len(outgoing)
      /\ n \in 1..252
  <2>1. n <= Len(outgoing)
    BY <1>1 DEF Cut
  <2>2. n \in 1..252
    BY FramesAssumption
  <2>3. outgoing \in Seq(Byte)
    BY DEF UecpTyped
  <2> QED BY <2>1, <2>2, <2>3, LenProperties
<1>4. v \in Seq(Byte) /\ Len(v) = n
  <2>1. \A i \in 1..n : outgoing[i] \in Byte
    BY <1>3, ElementOfSeq
  <2>2. /\ SubSeq(outgoing, 1, n) \in Seq(Byte)
        /\ Len(SubSeq(outgoing, 1, n)) = IF 1 <= n THEN n - 1 + 1 ELSE 0
    BY <1>3, <2>1, SubSeqProperties
  <2> QED BY <1>3, <2>2
<1>5. w \in Seq(Byte)
  <2> DEFINE m == n + 1
             k == Len(outgoing)
  <2>1. m \in Int /\ k \in Int
    BY <1>3
  <2>2. \A i \in m..k : outgoing[i] \in Byte
    BY <1>3, ElementOfSeq
  <2> HIDE DEF m, k
  <2>3. SubSeq(outgoing, m, k) \in Seq(Byte)
    BY <2>1, <2>2, SubSeqProperties
  <2> QED BY <2>3 DEF m, k
<1>6. outgoing = v \o w
  <2>1. 1 \in 1..(Len(outgoing) + 1) /\ n \in (1 - 1)..Len(outgoing)
        /\ Len(outgoing) \in n..Len(outgoing)
    BY <1>3
  <2>2. v \o w = SubSeq(outgoing, 1, Len(outgoing))
    BY <1>3, <2>1, ConcatAdjacentSubSeq
  <2> QED BY <1>3, <2>2, SubSeqFull
<1>7. AncBytes(datagram) = v
  <2> HIDE DEF v
  <2> QED BY <1>2, <1>3, <1>4, AncBytesOf
<1>8. status = "running" /\ UNCHANGED <<sent, losses>> /\ outgoing' = w
  BY <1>1 DEF Receive, Cut
<1>9. Parser \in Parsers
  BY <1>8, RunningParser
<1>10. v # <<>>
  <2>1. Len(<<>>) = 0
    BY EmptySeq
  <2> HIDE DEF v
  <2> QED BY <1>3, <1>4, <2>1
<1> HIDE DEF v, w
<1>11. ParseBytes(Parser, v) \in Parsers
  BY <1>4, <1>9, ParseType
<1>12. /\ uecp' = ParseBytes(Parser, v).uecp
       /\ decoded' = ParseBytes(Parser, v).decoded
       /\ status' = ParseBytes(Parser, v).status
  BY <1>2, <1>7 DEF ParseAncBytes
<1> QED BY <1>4, <1>5, <1>6, <1>8, <1>9, <1>10, <1>11, <1>12

LEMMA ReceiveStep ==
  ASSUME UecpIndInv, Receive
  PROVE  UecpIndInv'
<1>1. UecpTyped /\ OnTheWay
  BY DEF UecpIndInv
<1>2. PICK v, w \in Seq(Byte) :
           /\ v # <<>> /\ outgoing = v \o w /\ outgoing' = w
           /\ status = "running" /\ Parser \in Parsers
           /\ uecp' = ParseBytes(Parser, v).uecp
           /\ decoded' = ParseBytes(Parser, v).decoded
           /\ status' = ParseBytes(Parser, v).status
           /\ ParseBytes(Parser, v) \in Parsers
           /\ UNCHANGED <<sent, losses>>
  BY <1>1, ReceivedIs
<1> DEFINE q == ParseBytes(Parser, v)
<1>3. q \in Parsers /\ uecp' = q.uecp /\ decoded' = q.decoded /\ status' = q.status
  BY <1>2
<1> HIDE DEF q
<1>4. UecpTyped'
  <2>1. q.uecp \in Decoders /\ q.decoded \in Seq(Seq(Byte))
        /\ q.status \in {"running", "failed"}
    BY <1>3 DEF Parsers
  <2> QED BY <1>1, <1>2, <1>3, <2>1 DEF UecpTyped
<1>5. Parser' = q
  <2>1. q = [uecp |-> q.uecp, decoded |-> q.decoded, status |-> q.status]
    BY <1>3 DEF Parsers
  <2> QED BY <1>3, <2>1 DEF Parser
<1>6. ParseBytes(Parser, outgoing)' = ParseBytes(q, w)
  BY <1>2, <1>5 DEF ParseBytes
<1>7. ParseBytes(q, w) = ParseBytes(Parser, outgoing)
  <2>1. ParseBytes(Parser, v \o w) = ParseBytes(q, w)
    BY <1>2, ParseConcat DEF q
  <2> QED BY <1>2, <2>1
<1>8. Twice(sent)' = Twice(sent)
  BY <1>2 DEF Twice
<1>9. ASSUME losses = 0
      PROVE  /\ q.status # "failed" /\ IsPrefix(q.decoded, Twice(sent))
             /\ ParseBytes(q, w) = At(FALSE, FALSE, <<>>, Twice(sent), "running")
  <2>1. ParseBytes(q, w) = At(FALSE, FALSE, <<>>, Twice(sent), "running")
    BY <1>1, <1>2, <1>7, <1>9 DEF OnTheWay
  <2>2. ParseBytes(q, w).status = "running" /\ ParseBytes(q, w).decoded = Twice(sent)
    BY <2>1 DEF At
  <2>3. /\ IsPrefix(q.decoded, ParseBytes(q, w).decoded)
        /\ ParseBytes(q, w).status = "running" => q.status = "running"
    BY <1>2, <1>3, ParseMonotone
  <2> QED BY <2>1, <2>2, <2>3
<1>10. OnTheWay'
  BY <1>2, <1>3, <1>6, <1>8, <1>9 DEF OnTheWay
<1> QED BY <1>4, <1>10 DEF UecpIndInv

LEMMA LoseStep ==
  ASSUME UecpIndInv, Lose
  PROVE  UecpIndInv'
<1>1. UecpTyped
  BY DEF UecpIndInv
<1>2. losses' = losses + 1 /\ losses < MaxLosses /\ UNCHANGED <<uecp, decoded, status>>
  BY DEF Lose
<1>3. PICK n \in 1..MaxChunk : Cut(n)
  BY DEF Lose
<1>4. sent' = sent /\ outgoing' = SubSeq(outgoing, n + 1, Len(outgoing))
  BY <1>3 DEF Cut
<1>5. outgoing' \in Seq(Byte)
  <2> DEFINE m == n + 1
             k == Len(outgoing)
  <2>1. outgoing \in Seq(Byte) /\ k \in Nat
    BY <1>1, LenProperties DEF UecpTyped
  <2>2. m \in Int /\ k \in Int
    BY <2>1
  <2>3. \A i \in m..k : outgoing[i] \in Byte
    BY <2>1, ElementOfSeq
  <2> HIDE DEF m, k
  <2>4. SubSeq(outgoing, m, k) \in Seq(Byte)
    BY <2>2, <2>3, SubSeqProperties
  <2> QED BY <1>4, <2>4 DEF m, k
<1>6. losses' \in 0..MaxLosses /\ losses' # 0
  <2>1. losses \in 0..MaxLosses /\ MaxLosses \in Nat
    BY <1>1, FramesAssumption DEF UecpTyped
  <2> QED BY <1>2, <2>1
<1>7. UecpTyped'
  BY <1>1, <1>2, <1>4, <1>5, <1>6 DEF UecpTyped
<1>8. OnTheWay'
  BY <1>6 DEF OnTheWay
<1> QED BY <1>7, <1>8 DEF UecpIndInv

LEMMA ReceiveEmptyStep ==
  ASSUME UecpIndInv, ReceiveEmpty
  PROVE  UecpIndInv'
<1>1. UecpTyped /\ OnTheWay
  BY DEF UecpIndInv
<1>2. status = "running" /\ status' = "ended"
      /\ UNCHANGED <<uecp, decoded, sent, outgoing, losses>>
  BY DEF ReceiveEmpty
<1>3. UecpTyped'
  BY <1>1, <1>2 DEF UecpTyped
<1>4. OnTheWay'
  <2>1. Twice(sent)' = Twice(sent)
    BY <1>2 DEF Twice
  <2> QED BY <1>1, <1>2, <2>1 DEF OnTheWay
<1> QED BY <1>3, <1>4 DEF UecpIndInv

LEMMA UecpStutter ==
  ASSUME UecpIndInv, UNCHANGED uecpVars
  PROVE  UecpIndInv'
<1>1. UNCHANGED <<uecp, decoded, status, sent, outgoing, losses>>
  BY DEF uecpVars
<1>2. Parser' = Parser
  BY <1>1 DEF Parser
<1>3. ParseBytes(Parser, outgoing)' = ParseBytes(Parser, outgoing)
  BY <1>1, <1>2 DEF ParseBytes
<1>4. Twice(sent)' = Twice(sent)
  BY <1>1 DEF Twice
<1> QED BY <1>1, <1>3, <1>4 DEF UecpIndInv, UecpTyped, OnTheWay

LEMMA UecpInductive ==
  UecpSpec => []UecpIndInv
<1>1. UecpInit => UecpIndInv
  BY UecpStarts
<1>2. UecpIndInv /\ [UecpNext]_uecpVars => UecpIndInv'
  BY SendFrameStep, ReceiveStep, LoseStep, ReceiveEmptyStep, UecpStutter DEF UecpNext
<1> QED BY <1>1, <1>2, PTL DEF UecpSpec

LEMMA UecpImplied ==
  ASSUME UecpIndInv
  PROVE  UecpInv
<1>1. UecpTyped /\ OnTheWay
  BY DEF UecpIndInv
<1>2. UecpTypeOK
  <2>1. /\ uecp.next_untrap \in BOOLEAN /\ uecp.message_begin_seen \in BOOLEAN
        /\ uecp.data \in Seq(Byte) /\ Agree(uecp)
    BY <1>1 DEF UecpTyped, Decoders
  <2>2. uecp.message_begin_seen = (uecp.data # <<>>)
    BY <2>1 DEF Agree
  <2> QED BY <1>1, <2>1, <2>2 DEF UecpTypeOK, UecpTyped, Agree
<1>3. RoundTrip
  <2>1. SUFFICES ASSUME losses = 0
                 PROVE  /\ status # "failed" /\ IsPrefix(decoded, Twice(sent))
                        /\ status = "running" /\ outgoing = <<>> => decoded = Twice(sent)
    BY DEF RoundTrip
  <2>2. ASSUME status = "running", outgoing = <<>>
        PROVE  decoded = Twice(sent)
    <3>1. ParseBytes(Parser, <<>>) = At(FALSE, FALSE, <<>>, Twice(sent), "running")
      BY <1>1, <2>1, <2>2 DEF OnTheWay
    <3>2. ParseBytes(Parser, <<>>) = Parser
      BY <1>1, <2>2, RunningParser, ParseNothing
    <3> QED BY <3>1, <3>2 DEF Parser, At
  <2> QED BY <1>1, <2>1, <2>2 DEF OnTheWay
<1> QED BY <1>2, <1>3 DEF UecpInv

\* Whatever frames are sent and however their bytes are cut into datagrams: the
\* decoder's fields agree, and without a loss the parser does not fail and
\* decodes exactly the frames sent, in their order.
THEOREM UecpDecodes ==
  UecpSpec => []UecpInv
<1>1. UecpIndInv => UecpInv
  BY UecpImplied
<1> QED BY <1>1, UecpInductive, PTL

\* After any losses, a decoder that is between frames decodes the next frame
\* that comes whole.
THEOREM UecpReadyBetweenFrames ==
  UecpSpec => ReadyBetweenFrames
<1> DEFINE A(f) == (/\ ~uecp.message_begin_seen
                    /\ outgoing = Stuffed(f) /\ outgoing' = <<>>
                    /\ losses' = losses)
                   => decoded' = decoded \o Twice(<<f>>) /\ uecp' = NewDecoder
<1>1. ASSUME UecpIndInv, [UecpNext]_uecpVars, NEW f \in Frames
      PROVE  A(f)
  <2>1. SUFFICES ASSUME ~uecp.message_begin_seen, outgoing = Stuffed(f),
                        outgoing' = <<>>, losses' = losses
                 PROVE  decoded' = decoded \o Twice(<<f>>) /\ uecp' = NewDecoder
    OBVIOUS
  <2>2. UecpTyped
    BY <1>1 DEF UecpIndInv
  <2>3. decoded \in Seq(Seq(Byte)) /\ uecp \in Decoders /\ outgoing \in Seq(Byte)
        /\ losses \in Nat
    BY <2>2 DEF UecpTyped
  <2>4. Stuffed(f) # <<>>
    BY <2>3, ParseStuffed
  <2>5. CASE SendFrame
    <3>1. PICK g \in Frames : outgoing' = outgoing \o Stuffed(g)
      BY <2>5 DEF SendFrame
    <3>2. Stuffed(g) \in Seq(Byte)
      BY <2>3, ParseStuffed
    <3>3. outgoing = <<>>
      <4> DEFINE t == Stuffed(g)
      <4> HIDE DEF t
      <4>1. t \in Seq(Byte) /\ outgoing \in Seq(Byte) /\ outgoing \o t = <<>>
        BY <2>1, <2>3, <3>1, <3>2 DEF t
      <4> QED BY <4>1, ConcatEqualIffEmpty
    <3> QED BY <2>1, <2>4, <3>3
  <2>6. CASE Receive
    <3>1. PICK v, w \in Seq(Byte) :
             /\ outgoing = v \o w /\ outgoing' = w
             /\ status = "running"
             /\ uecp' = ParseBytes(Parser, v).uecp
             /\ decoded' = ParseBytes(Parser, v).decoded
      BY <2>2, <2>6, ReceivedIs
    <3>2. v = Stuffed(f)
      <4>1. v \o w = v
        BY <2>1, <3>1, ConcatEmptySeq
      <4> QED BY <2>1, <3>1, <4>1
    <3>3. uecp = NewDecoder
      BY <2>1, <2>3, BetweenFrames
    <3>4. Parser = At(FALSE, FALSE, <<>>, decoded, "running")
      BY <3>1, <3>3 DEF Parser, At, NewDecoder
    <3> DEFINE pair == <<FrameBytes(f), FrameBytes(f)>>
    <3>5. ParseBytes(Parser, v) = At(FALSE, FALSE, <<>>, decoded \o pair, "running")
      BY <2>3, <3>2, <3>4, ParseStuffed
    <3>6. uecp' = NewDecoder /\ decoded' = decoded \o pair
      <4> HIDE DEF pair
      <4> QED BY <3>1, <3>5 DEF At, NewDecoder
    <3>7. Twice(<<f>>) = pair
      BY TwiceOne
    <3> QED BY <3>6, <3>7
  <2>7. CASE Lose
    BY <2>1, <2>3, <2>7 DEF Lose
  <2>8. CASE ReceiveEmpty
    BY <2>1, <2>4, <2>8 DEF ReceiveEmpty
  <2>9. CASE UNCHANGED uecpVars
    BY <2>1, <2>4, <2>9 DEF uecpVars
  <2> QED BY <1>1, <2>5, <2>6, <2>7, <2>8, <2>9 DEF UecpNext
<1>2. UecpIndInv /\ [UecpNext]_uecpVars => [\A f \in Frames : A(f)]_uecpVars
  BY <1>1
<1> QED BY <1>2, UecpInductive, PTL DEF UecpSpec, ReadyBetweenFrames

------------------------------------------------------------------------------
(* Reed-Solomon chunks and fragments of an AF packet *)

LEMMA CeilingIs ==
  ASSUME NEW a \in Nat, NEW b \in Nat \ {0}
  PROVE  /\ Ceiling(a, b) \in Nat /\ a <= b * Ceiling(a, b)
         /\ a > 0 => Ceiling(a, b) > 0
         /\ \A m \in Nat : a <= b * m => Ceiling(a, b) <= m
<1> DEFINE x == a + b - 1
           q == x \div b
           r == x % b
<1>1. x \in Nat /\ Ceiling(a, b) = q
  BY DEF Ceiling
<1>2. q \in Nat /\ r \in 0..(b - 1) /\ x = b * q + r
  <2> HIDE DEF x
  <2> QED BY <1>1, DivMod
<1>3. b * q \in Nat /\ a + b - 1 = b * q + r
  BY <1>2, Times
<1> HIDE DEF x, q, r
<1>4. a <= b * q
  BY <1>2, <1>3
<1>5. ASSUME a > 0 PROVE q > 0
  <2> SUFFICES ASSUME q = 0 PROVE FALSE
    BY <1>2
  <2>1. b * q = 0
    OBVIOUS
  <2> QED BY <1>2, <1>3, <1>5, <2>1
<1>6. ASSUME NEW m \in Nat, a <= b * m PROVE q <= m
  <2> SUFFICES ASSUME m + 1 <= q PROVE FALSE
    BY <1>2
  <2>1. b * (m + 1) <= b * q /\ b * (m + 1) = b * m + b /\ b * m \in Nat
    BY <1>2, Times
  <2> QED BY <1>2, <1>3, <1>6, <2>1
<1> QED BY <1>1, <1>2, <1>4, <1>5, <1>6

\* What a sender of n bytes computes.
LEMMA SenderIs ==
  ASSUME NEW n \in Nat \ {0}
  PROVE  /\ NumChunks(n) \in Nat \ {0} /\ ChunkSize(n) \in Nat \ {0}
         /\ ZeroPad(n) \in Nat
         /\ n + ZeroPad(n) = NumChunks(n) * ChunkSize(n)
         /\ Ceiling(n, ChunkSize(n)) <= NumChunks(n)
<1>1. NumChunks(n) \in Nat \ {0}
  BY EdiRsAssumption, CeilingIs DEF NumChunks
<1>2. ChunkSize(n) \in Nat \ {0} /\ n <= NumChunks(n) * ChunkSize(n)
  <2> DEFINE N == NumChunks(n)
  <2>1. N \in Nat \ {0} /\ ChunkSize(n) = Ceiling(n, N)
    BY <1>1 DEF ChunkSize
  <2> HIDE DEF N
  <2>2. Ceiling(n, N) \in Nat /\ Ceiling(n, N) > 0 /\ n <= N * Ceiling(n, N)
    BY <2>1, CeilingIs
  <2> QED BY <2>1, <2>2 DEF N
<1>3. NumChunks(n) * ChunkSize(n) \in Nat
      /\ NumChunks(n) * ChunkSize(n) = ChunkSize(n) * NumChunks(n)
  BY <1>1, <1>2, Times
<1>4. Ceiling(n, ChunkSize(n)) <= NumChunks(n)
  BY <1>1, <1>2, <1>3, CeilingIs
<1> QED BY <1>1, <1>2, <1>3, <1>4 DEF ZeroPad

LEMMA ParityIs ==
  ASSUME NEW chunk
  PROVE  /\ Parity(chunk) \in Seq({Parity(chunk)[j] : j \in 1..ParitySize})
         /\ Len(Parity(chunk)) = ParitySize
<1> DEFINE data == SelectSeq(chunk, LAMBDA byte : byte # Zero)
<1> HIDE DEF data
<1>1. Parity(chunk) = [j \in 1..ParitySize |-> [parity |-> j, of |-> data]]
  BY DEF Parity, data
<1> DEFINE p == Parity(chunk)
           T == {p[j] : j \in 1..ParitySize}
<1>2. ParitySize \in Nat /\ DOMAIN p = 1..ParitySize /\ p = [j \in DOMAIN p |-> p[j]]
  BY <1>1, EdiRsAssumption
<1>3. \A j \in 1..ParitySize : p[j] \in T
  OBVIOUS
<1> HIDE DEF p, T
<1>4. p \in [1..ParitySize -> T]
  BY <1>2, <1>3
<1>5. p \in Seq(T) /\ Len(p) = ParitySize
  BY <1>2, <1>4
<1> QED BY <1>5 DEF p, T

\* The bytes of the c-th chunk, c - 1 whole ones before it.
LEMMA ChunkIs ==
  ASSUME NEW n \in Nat \ {0}, NEW c \in 1..NumChunks(n)
  PROVE  /\ ChunkOf(n, c) \in Seq(Nat) /\ Len(ChunkOf(n, c)) = ChunkSize(n)
         /\ \A j \in 1..ChunkSize(n) :
              (c - 1) * ChunkSize(n) + j <= n =>
                ChunkOf(n, c)[j] = (c - 1) * ChunkSize(n) + j
<1> DEFINE k == ChunkSize(n)
           N == NumChunks(n)
           z == ZeroPad(n)
           s == (c - 1) * k
           u == AfBytes(n)
           v == Zeros(z)
           padded == u \o v
<1>1. /\ N \in Nat \ {0} /\ k \in Nat \ {0} /\ z \in Nat /\ n + z = N * k
  BY SenderIs
<1>2. /\ u \in Seq(Nat) /\ Len(u) = n /\ \A i \in 1..n : u[i] = i
      /\ v \in Seq(Nat) /\ Len(v) = z
  BY <1>1 DEF AfBytes, Zeros, Zero
<1>5. ChunkOf(n, c) = SubSeq(padded, (c - 1) * k + 1, c * k)
  BY DEF ChunkOf
<1> HIDE DEF k, N, z, u, v
<1>3. s \in Nat /\ c * k = s + k /\ s + k <= n + z
  <2>1. c \in 1..N
    BY DEF N
  <2>2. c - 1 \in Nat /\ c \in Nat /\ c = (c - 1) + 1 /\ c <= N
    BY <1>1, <2>1
  <2>3. k * ((c - 1) + 1) = k * (c - 1) + k /\ k * (c - 1) = (c - 1) * k
        /\ k * (c - 1) \in Nat
    BY <1>1, <2>2, Times
  <2>4. k * c <= k * N /\ k * c = c * k /\ k * N = N * k
    BY <1>1, <2>2, Times
  <2> QED BY <1>1, <2>2, <2>3, <2>4
<1>4. /\ padded \in Seq(Nat) /\ Len(padded) = n + z
      /\ \A i \in 1..(n + z) : padded[i] = IF i <= n THEN u[i] ELSE v[i - n]
  BY <1>2, ConcatProperties
<1> HIDE DEF padded
<1>9. ChunkOf(n, c) = SubSeq(padded, s + 1, s + k)
  BY <1>3, <1>5
<1> HIDE DEF s
<1>6. \A i \in (s + 1)..(s + k) : padded[i] \in Nat
  BY <1>1, <1>3, <1>4, ElementOfSeq
<1>7. /\ ChunkOf(n, c) \in Seq(Nat) /\ Len(ChunkOf(n, c)) = k
      /\ \A j \in 1..k : ChunkOf(n, c)[j] = padded[s + j]
  <2>1. s + 1 \in Int /\ s + k \in Int /\ s + 1 <= s + k /\ (s + k) - (s + 1) + 1 = k
    BY <1>1, <1>3
  <2>2. \A j \in 1..k : (s + 1) + j - 1 = s + j
    BY <1>1, <1>3
  <2> QED BY <1>6, <1>9, <2>1, <2>2, SubSeqProperties
<1>8. ASSUME NEW j \in 1..k, s + j <= n PROVE padded[s + j] = s + j
  <2>1. s + j \in 1..n /\ s + j \in 1..(n + z)
    BY <1>1, <1>3, <1>8
  <2> QED BY <1>2, <1>4, <1>8, <2>1
<1> QED BY <1>7, <1>8 DEF k, s

\* Bytes and the parity sent with them.
Elems(n) ==
  Nat \cup {Parity(ChunkOf(n, c))[j] : c \in 1..NumChunks(n), j \in 1..ParitySize}

LEMMA BlockIs ==
  ASSUME NEW n \in Nat \ {0}
  PROVE  LET size == ChunkSize(n) + ParitySize
         IN  /\ RsBlock(n) \in Seq(Elems(n))
             /\ Len(RsBlock(n)) = NumChunks(n) * size
             /\ \A c \in 1..NumChunks(n) :
                  /\ \A j \in 1..ChunkSize(n) :
                       RsBlock(n)[(c - 1) * size + j] = ChunkOf(n, c)[j]
                  /\ \A j \in 1..ParitySize :
                       RsBlock(n)[(c - 1) * size + ChunkSize(n) + j]
                         = Parity(ChunkOf(n, c))[j]
<1> DEFINE k == ChunkSize(n)
           N == NumChunks(n)
           size == k + ParitySize
           piece(c) == ChunkOf(n, c) \o Parity(ChunkOf(n, c))
           seqs == [c \in 1..N |-> piece(c)]
           S == Elems(n)
           off == [i \in 0..N |-> i * size]
<1>1. N \in Nat \ {0} /\ k \in Nat \ {0} /\ ParitySize \in Nat \ {0} /\ size \in Nat
  BY SenderIs, EdiRsAssumption
<1>2. ASSUME NEW c \in 1..N
      PROVE  /\ piece(c) \in Seq(S) /\ Len(piece(c)) = size
             /\ \A j \in 1..k : piece(c)[j] = ChunkOf(n, c)[j]
             /\ \A j \in 1..ParitySize : piece(c)[k + j] = Parity(ChunkOf(n, c))[j]
  <2> DEFINE a == ChunkOf(n, c)
             b == Parity(a)
  <2>1. a \in Seq(Nat) /\ Len(a) = k
    BY ChunkIs
  <2>2. b \in Seq({b[j] : j \in 1..ParitySize}) /\ Len(b) = ParitySize
    BY ParityIs
  <2>3. Nat \subseteq S /\ {b[j] : j \in 1..ParitySize} \subseteq S
    BY DEF Elems
  <2> HIDE DEF a, b, S
  <2>4. a \in Seq(S) /\ b \in Seq(S)
    BY <2>1, <2>2, <2>3, SeqMonotonic
  <2>5. /\ a \o b \in Seq(S) /\ Len(a \o b) = size
        /\ \A j \in 1..size : (a \o b)[j] = IF j <= k THEN a[j] ELSE b[j - k]
    <3> HIDE DEF k
    <3>1. /\ a \o b \in Seq(S) /\ Len(a \o b) = Len(a) + Len(b)
          /\ \A j \in 1..(Len(a) + Len(b)) :
               (a \o b)[j] = IF j <= Len(a) THEN a[j] ELSE b[j - Len(a)]
      BY <2>4, ConcatProperties
    <3> QED BY <2>1, <2>2, <3>1
  <2> HIDE DEF k
  <2>6. \A j \in 1..k : j \in 1..size /\ j <= k
    BY <1>1
  <2>7. \A j \in 1..ParitySize : k + j \in 1..size /\ ~(k + j <= k) /\ (k + j) - k = j
    BY <1>1
  <2>8. \A j \in 1..k : (a \o b)[j] = a[j]
    BY <2>5, <2>6
  <2>9. ASSUME NEW j \in 1..ParitySize PROVE (a \o b)[k + j] = b[j]
    <3> DEFINE x == k + j
    <3>1. x \in 1..size /\ ~(x <= k) /\ x - k = j
      BY <2>7
    <3> HIDE DEF x
    <3>2. (a \o b)[x] = b[x - k]
      BY <2>5, <3>1
    <3> QED BY <3>1, <3>2 DEF x
  <2>10. piece(c) = a \o b
    BY DEF a, b
  <2> QED BY <2>5, <2>8, <2>9, <2>10 DEF a, b, k
<1> HIDE DEF piece, S
<1>3. seqs \in Seq(Seq(S)) /\ Len(seqs) = N /\ N \in 1..Len(seqs)
      /\ \A c \in 1..N : seqs[c] = piece(c)
  <2> HIDE DEF N
  <2>1. seqs \in [1..N -> Seq(S)] /\ DOMAIN seqs = 1..N
    BY <1>2
  <2>2. \A c \in 1..N : seqs[c] = piece(c)
    OBVIOUS
  <2> HIDE DEF seqs
  <2> QED BY <1>1, <2>1, <2>2
<1>4. off \in [0..N -> Nat] /\ off[0] = 0 /\ off[N] = N * size
      /\ \A i \in 1..N : off[i - 1] = (i - 1) * size
  <2>1. \A i \in 0..N : i * size \in Nat
    BY <1>1, Times
  <2>2. 0 * size = 0 /\ 0 \in 0..N /\ N \in 0..N
    BY <1>1
  <2>3. \A i \in 1..N : i - 1 \in 0..N
    BY <1>1
  <2> HIDE DEF size
  <2> QED BY <2>1, <2>2, <2>3
<1>5. \A i \in 1..N : off[i] = off[i - 1] + Len(seqs[i])
  <2> SUFFICES ASSUME NEW i \in 1..N PROVE off[i] = off[i - 1] + Len(seqs[i])
    OBVIOUS
  <2> DEFINE p == i - 1
  <2>1. p \in Nat /\ i = p + 1 /\ off[i] = i * size /\ off[i - 1] = p * size
    BY <1>1, <1>4
  <2>2. Len(seqs[i]) = size
    BY <1>2, <1>3
  <2> HIDE DEF p, size, off, seqs
  <2>3. size * (p + 1) = size * p + size /\ size * p = p * size
        /\ size * (p + 1) = (p + 1) * size
    BY <1>1, <2>1, Times
  <2>4. i * size = p * size + size
    BY <2>1, <2>3
  <2> QED BY <2>1, <2>2, <2>4
<1>6. RsBlock(n) = FlattenSeq(seqs)
  BY DEF RsBlock, piece
<1>7. /\ RsBlock(n) \in Seq(S)
      /\ Len(RsBlock(n)) = N * size
      /\ Places(RsBlock(n), seqs, off, N)
  <2> HIDE DEF seqs, off, size, N
  <2>1. /\ FlattenSeq(seqs) \in Seq(S)
        /\ N = Len(seqs) => Len(FlattenSeq(seqs)) = off[N]
        /\ Places(FlattenSeq(seqs), seqs, off, N)
    <3>1. seqs \in Seq(Seq(S)) /\ N \in 1..Len(seqs)
      BY <1>3
    <3>2. off \in [0..N -> Nat] /\ off[0] = 0
      BY <1>4
    <3> QED BY <1>5, <3>1, <3>2, PlacesOfJoined
  <2> QED BY <1>3, <1>4, <1>6, <2>1
<1>8. ASSUME NEW c \in 1..N
      PROVE  /\ \A j \in 1..k : RsBlock(n)[(c - 1) * size + j] = ChunkOf(n, c)[j]
             /\ \A j \in 1..ParitySize :
                  RsBlock(n)[(c - 1) * size + k + j] = Parity(ChunkOf(n, c))[j]
  <2> DEFINE d == (c - 1) * size
  <2>1. \A j \in 1..size : RsBlock(n)[d + j] = piece(c)[j]
    <3>1. off[c - 1] = d /\ seqs[c] = piece(c) /\ Len(piece(c)) = size
      BY <1>2, <1>3, <1>4
    <3> HIDE DEF d, off, seqs, size
    <3> QED BY <1>7, <3>1 DEF Places
  <2>2. \A j \in 1..k : j \in 1..size
    <3> HIDE DEF k
    <3> QED BY <1>1
  <2>3. ASSUME NEW j \in 1..ParitySize PROVE k + j \in 1..size /\ d + k + j = d + (k + j)
    <3>1. d \in Nat
      <4>1. c - 1 \in Nat
        BY <1>1
      <4> QED BY <1>1, <4>1, Times
    <3> HIDE DEF k, d
    <3> QED BY <1>1, <3>1
  <2> HIDE DEF d, k
  <2>4. \A j \in 1..k : RsBlock(n)[d + j] = ChunkOf(n, c)[j]
    BY <1>2, <2>1, <2>2
  <2>5. ASSUME NEW j \in 1..ParitySize
        PROVE  RsBlock(n)[d + k + j] = Parity(ChunkOf(n, c))[j]
    BY <1>2, <2>1, <2>3
  <2> QED BY <2>4, <2>5 DEF d
<1> QED BY <1>7, <1>8 DEF S

LEMMA DealtIs ==
  ASSUME NEW n \in Nat \ {0}, NEW f \in Nat \ {0}
  PROVE  /\ FragmentSize(n, f) \in Nat \ {0}
         /\ Dealt(n, f) \in Seq(Elems(n)) /\ Len(Dealt(n, f)) = f * FragmentSize(n, f)
         /\ Len(RsBlock(n)) \in Nat /\ Len(RsBlock(n)) <= Len(Dealt(n, f))
         /\ \A i \in 1..Len(RsBlock(n)) : Dealt(n, f)[i] = RsBlock(n)[i]
<1> DEFINE b == RsBlock(n)
           N == NumChunks(n)
           k == ChunkSize(n)
           g == FragmentSize(n, f)
           z == Zeros(f * g - Len(b))
<1>1. b \in Seq(Elems(n)) /\ Len(b) = N * (k + ParitySize)
  BY BlockIs
<1>2. N \in Nat \ {0} /\ k \in Nat \ {0} /\ ParitySize \in Nat \ {0}
  BY SenderIs, EdiRsAssumption
<1>3. Len(b) \in Nat /\ Len(b) > 0
  <2>1. 1 <= k + ParitySize /\ k + ParitySize \in Nat /\ N \in Nat
    BY <1>2
  <2> HIDE DEF N, k, b
  <2>2. N * 1 <= N * (k + ParitySize) /\ N * (k + ParitySize) \in Nat /\ N * 1 = N
    BY <2>1, Times
  <2> QED BY <1>1, <1>2, <2>2
<1>4. g \in Nat \ {0} /\ Len(b) <= f * g
  <2>1. g = Ceiling(Len(b), f)
    BY DEF FragmentSize
  <2> HIDE DEF g, b
  <2> QED BY <1>3, <2>1, CeilingIs
<1>5. f * g \in Nat
  BY <1>4, Times
<1> HIDE DEF g, b
<1>6. z \in Seq(Elems(n)) /\ Len(z) = f * g - Len(b)
  <2>1. Zero \in Elems(n)
    BY DEF Zero, Elems
  <2>2. f * g - Len(b) \in Nat
    BY <1>3, <1>4, <1>5
  <2> QED BY <2>1, <2>2 DEF Zeros
<1>7. Dealt(n, f) = b \o z
  BY DEF Dealt, b, g
<1> HIDE DEF z
<1>8. /\ b \o z \in Seq(Elems(n)) /\ Len(b \o z) = Len(b) + Len(z)
      /\ \A i \in 1..(Len(b) + Len(z)) :
           (b \o z)[i] = IF i <= Len(b) THEN b[i] ELSE z[i - Len(b)]
  BY <1>1, <1>6, ConcatProperties
<1>9. Len(z) \in Nat
  BY <1>6, LenProperties
<1>10. \A i \in 1..Len(b) : i \in 1..(Len(b) + Len(z)) /\ i <= Len(b)
  BY <1>3, <1>9
<1>11. Len(b) + Len(z) = f * g
  BY <1>3, <1>5, <1>6
<1> QED BY <1>3, <1>4, <1>7, <1>8, <1>9, <1>10, <1>11 DEF b, g

\* What get_rs_decoder is called with, and the fragments, when a packet of n
\* bytes has been sent in f fragments.
Protected(n, f) ==
  /\ af = AfBytes(n) /\ chunk_size = ChunkSize(n) /\ zeropad = ZeroPad(n)
  /\ fragments = [i \in 1..f |-> [j \in 1..FragmentSize(n, f) |->
                                    Dealt(n, f)[(j - 1) * f + i]]]

EdiRsInv ==
  fragments # << >> =>
    \E n \in 1..MaxAfLength, f \in 1..MaxFragments : Protected(n, f)

\* zip and join undo the dealing.
LEMMA BlockReceived ==
  ASSUME NEW n \in Nat \ {0}, NEW f \in Nat \ {0}, Protected(n, f)
  PROVE  rs_block = Dealt(n, f)
<1> DEFINE g == FragmentSize(n, f)
           d == Dealt(n, f)
<1>1. g \in Nat \ {0} /\ d \in Seq(Elems(n)) /\ Len(d) = f * g
  BY DealtIs
<1>2. fragments = [i \in 1..f |-> [j \in 1..g |-> d[(j - 1) * f + i]]]
  BY DEF Protected
<1> HIDE DEF g, d
<1>3. Len(fragments) = f /\ Len(fragments[1]) = g
      /\ \A i \in 1..f, j \in 1..g : fragments[i][j] = d[(j - 1) * f + i]
  <2>1. 1 \in 1..f /\ DOMAIN fragments = 1..f
    BY <1>2
  <2>2. Len(fragments) = f
    BY <1>2
  <2>3. fragments[1] = [j \in 1..g |-> d[(j - 1) * f + 1]]
    BY <1>2, <2>1
  <2>4. Len(fragments[1]) = g
    BY <1>1, <2>3
  <2> QED BY <1>2, <2>2, <2>4
<1>4. f * g \in Nat
  BY <1>1, Times
<1>5. ASSUME NEW m \in 1..(f * g)
      PROVE  fragments[((m - 1) % f) + 1][((m - 1) \div f) + 1] = d[m]
  <2> DEFINE x == m - 1
             q == x \div f
             r == x % f
  <2>1. x \in Nat /\ x < f * g /\ m = x + 1
    BY <1>4
  <2>2. q \in Nat /\ r \in 0..(f - 1) /\ x = f * q + r
    <3> HIDE DEF x
    <3> QED BY <2>1, DivMod
  <2> HIDE DEF q, r, x
  <2>3. f * q \in Nat /\ f * q = q * f
    BY <2>2, Times
  <2>4. q + 1 \in 1..g
    <3> SUFFICES ASSUME g <= q PROVE FALSE
      BY <1>1, <2>2
    <3>1. f * g <= f * q
      BY <1>1, <2>2, Times
    <3> QED BY <1>4, <2>1, <2>2, <2>3, <3>1
  <2>5. r + 1 \in 1..f
    BY <2>2
  <2>6. fragments[r + 1][q + 1] = d[((q + 1) - 1) * f + (r + 1)]
    <3> DEFINE i == r + 1
               j == q + 1
    <3>1. i \in 1..f /\ j \in 1..g
      BY <2>4, <2>5
    <3> HIDE DEF i, j
    <3>2. fragments[i][j] = d[(j - 1) * f + i]
      BY <1>3, <3>1
    <3> QED BY <3>2 DEF i, j
  <2>7. (q + 1) - 1 = q
    BY <2>2
  <2>8. q * f + (r + 1) = m
    BY <2>1, <2>2, <2>3
  <2>9. fragments[r + 1][q + 1] = d[m]
    BY <2>6, <2>7, <2>8
  <2> QED BY <2>9 DEF q, r, x
<1>6. rs_block = [m \in 1..(f * g) |-> d[m]]
  BY <1>3, <1>5 DEF rs_block
<1>7. d = [m \in 1..(f * g) |-> d[m]]
  BY <1>1, <1>4
<1> QED BY <1>6, <1>7 DEF d

\* The chunks sent are found, each with its parity; what more the division
\* makes out of the block consists of its bytes.
LEMMA ChunksReceived ==
  ASSUME NEW n \in Nat \ {0}, NEW f \in Nat \ {0}, Protected(n, f)
  PROVE  /\ num_chunks \in Nat /\ NumChunks(n) <= num_chunks
         /\ \A c \in 1..NumChunks(n) :
              rs_chunks[c] = <<ChunkOf(n, c), Parity(ChunkOf(n, c))>>
         /\ \A i \in 1..num_chunks : rs_chunks[i][1] \in Seq(Elems(n))
<1> DEFINE k == ChunkSize(n)
           N == NumChunks(n)
           size == k + ParitySize
           b == RsBlock(n)
           d == rs_block
<1>0. /\ N \in Nat \ {0} /\ k \in Nat \ {0} /\ ParitySize \in Nat \ {0}
      /\ size \in Nat \ {0} /\ k <= size
  BY SenderIs, EdiRsAssumption
<1>1. /\ chunk_size = k /\ data_size = size
      /\ num_chunks = Len(d) \div k
  BY DEF Protected, data_size, num_chunks
<1>2. /\ d \in Seq(Elems(n)) /\ Len(b) \in Nat /\ Len(b) <= Len(d)
      /\ \A i \in 1..Len(b) : d[i] = b[i]
  <2> DEFINE e == Dealt(n, f)
  <2>1. /\ e \in Seq(Elems(n)) /\ Len(b) \in Nat /\ Len(b) <= Len(e)
        /\ \A i \in 1..Len(b) : e[i] = b[i]
    BY DealtIs
  <2>2. d = e
    BY BlockReceived
  <2> HIDE DEF d, e, b
  <2> QED BY <2>1, <2>2
<1>3. /\ Len(b) = N * size
      /\ \A c \in 1..N :
           /\ \A j \in 1..k : b[(c - 1) * size + j] = ChunkOf(n, c)[j]
           /\ \A j \in 1..ParitySize :
                b[(c - 1) * size + k + j] = Parity(ChunkOf(n, c))[j]
  BY BlockIs
<1> HIDE DEF b, d
<1>4. Len(d) \in Nat
  BY <1>2, LenProperties
<1>5. ASSUME NEW i \in 1..num_chunks
      PROVE  LET s == (i - 1) * size
             IN rs_chunks[i] = <<Slice(d, s, s + k), Slice(d, s + k, s + size)>>
  BY <1>1, <1>5 DEF rs_chunks, d
<1>6. num_chunks \in Nat /\ N <= num_chunks
  <2> HIDE DEF N, k, size
  <2> DEFINE q == Len(d) \div k
             r == Len(d) % k
  <2>1. q \in Nat /\ r \in 0..(k - 1) /\ Len(d) = k * q + r
    BY <1>0, <1>4, DivMod
  <2>2. num_chunks = q
    BY <1>1
  <2> HIDE DEF q, r
  <2>3. N <= q
    <3> SUFFICES ASSUME q + 1 <= N PROVE FALSE
      BY <1>0, <2>1
    <3>1. k * (q + 1) <= k * N /\ k * (q + 1) = k * q + k /\ k * q \in Nat
          /\ k * N = N * k /\ k * N \in Nat
      BY <1>0, <2>1, Times
    <3>2. N * k <= N * size /\ N * size \in Nat
      BY <1>0, Times
    <3>3. N * size <= Len(d) /\ r < k
      <4>1. Len(b) = N * size
        BY <1>3
      <4> QED BY <1>0, <1>2, <2>1, <4>1
    <3> DEFINE A == k * q
               B == k * N
               C == N * size
    <3>4. A \in Nat /\ B \in Nat /\ C \in Nat /\ A + k <= B /\ B <= C
      BY <3>1, <3>2
    <3>5. C <= Len(d) /\ Len(d) = A + r
      BY <2>1, <3>3
    <3> HIDE DEF A, B, C
    <3> QED BY <1>0, <1>4, <2>1, <3>3, <3>4, <3>5
  <2> QED BY <2>1, <2>2, <2>3
\* A slice in one piece, and any slice.
<1>7. ASSUME NEW x \in Nat, NEW y \in Nat, x < y, y <= Len(d)
      PROVE  /\ Slice(d, x, y) \in Seq(Elems(n)) /\ Len(Slice(d, x, y)) = y - x
             /\ \A j \in 1..(y - x) : Slice(d, x, y)[j] = d[x + j]
  <2>1. Slice(d, x, y) = SubSeq(d, x + 1, y)
    BY <1>4, <1>7 DEF Slice
  <2>2. \A j \in (x + 1)..y : d[j] \in Elems(n)
    BY <1>2, <1>4, <1>7, ElementOfSeq
  <2>3. x + 1 <= y /\ y - (x + 1) + 1 = y - x /\ x + 1 \in Int /\ y \in Int
    BY <1>7
  <2>4. \A j \in 1..(y - x) : (x + 1) + j - 1 = x + j
    OBVIOUS
  <2> QED BY <2>1, <2>2, <2>3, <2>4, SubSeqProperties
<1>8. ASSUME NEW x \in Nat, NEW y \in Nat PROVE Slice(d, x, y) \in Seq(Elems(n))
  <2> DEFINE e == IF y < Len(d) THEN y ELSE Len(d)
  <2>1. e \in Nat /\ e <= Len(d) /\ Slice(d, x, y) = SubSeq(d, x + 1, e)
    BY <1>4 DEF Slice
  <2> HIDE DEF e
  <2>2. \A j \in (x + 1)..e : d[j] \in Elems(n)
    BY <1>2, <1>4, <2>1, ElementOfSeq
  <2>3. x + 1 \in Int /\ e \in Int
    BY <2>1
  <2> QED BY <2>1, <2>2, <2>3, SubSeqProperties
<1>9. ASSUME NEW c \in 1..N
      PROVE  rs_chunks[c] = <<ChunkOf(n, c), Parity(ChunkOf(n, c))>>
  <2> DEFINE s == (c - 1) * size
             chunk == ChunkOf(n, c)
             prot == Parity(chunk)
             u == Slice(d, s, s + k)
             w == Slice(d, s + k, s + size)
  <2>1. chunk \in Seq(Nat) /\ Len(chunk) = k
    BY ChunkIs
  <2>2. prot \in Seq({prot[j] : j \in 1..ParitySize}) /\ Len(prot) = ParitySize
    BY ParityIs
  <2>3. Nat \subseteq Elems(n) /\ {prot[j] : j \in 1..ParitySize} \subseteq Elems(n)
    BY DEF Elems
  <2>4. /\ \A j \in 1..k : b[s + j] = chunk[j]
        /\ \A j \in 1..ParitySize : b[s + k + j] = prot[j]
    BY <1>3
  <2>5. c \in 1..num_chunks
    <3> HIDE DEF N
    <3> QED BY <1>0, <1>6
  <2>6. rs_chunks[c] = <<u, w>>
    BY <1>5, <2>5
  <2>7. s \in Nat /\ s + size <= Len(b)
    <3> DEFINE p == c - 1
    <3>1. p \in Nat /\ p + 1 <= N /\ s = p * size
      <4> HIDE DEF N
      <4> QED BY <1>0
    <3> HIDE DEF p, s, size, N
    <3>2. size * (p + 1) <= size * N /\ size * (p + 1) = size * p + size
          /\ size * p = p * size /\ size * N = N * size /\ size * p \in Nat
      BY <1>0, <3>1, Times
    <3> QED BY <1>0, <1>3, <3>1, <3>2
  <2> HIDE DEF s, chunk, prot, b
  <2>8. chunk \in Seq(Elems(n)) /\ prot \in Seq(Elems(n))
    BY <2>1, <2>2, <2>3, SeqMonotonic
  <2> HIDE DEF k
  <2>9. u = chunk
    <3>1. s + k \in Nat /\ s < s + k /\ s + k <= Len(d) /\ (s + k) - s = k
      BY <1>0, <1>2, <1>4, <2>7
    <3>2. u \in Seq(Elems(n)) /\ Len(u) = k /\ \A j \in 1..k : u[j] = d[s + j]
      BY <1>7, <2>7, <3>1
    <3>3. \A j \in 1..k : s + j \in 1..Len(b)
      BY <1>0, <1>2, <2>7
    <3>4. \A j \in 1..k : u[j] = chunk[j]
      BY <1>2, <2>4, <3>2, <3>3
    <3> HIDE DEF u
    <3> QED BY <2>1, <2>8, <3>2, <3>4, SeqEqual
  <2>10. w = prot
    <3>1. /\ s + k \in Nat /\ s + size \in Nat /\ s + k < s + size
          /\ s + size <= Len(d) /\ (s + size) - (s + k) = ParitySize
      <4> DEFINE P == ParitySize
                 L == Len(d)
      <4>1. s \in Nat /\ k \in Nat /\ P \in Nat /\ P > 0 /\ size = k + P /\ s + size <= L
        BY <1>0, <1>2, <1>4, <2>7
      <4> HIDE DEF P, L
      <4>2. /\ s + k \in Nat /\ s + size \in Nat /\ s + k < s + size
            /\ (s + size) - (s + k) = P
        BY <4>1
      <4> QED BY <4>1, <4>2 DEF P, L
    <3>2. /\ w \in Seq(Elems(n)) /\ Len(w) = ParitySize
          /\ \A j \in 1..ParitySize : w[j] = d[s + k + j]
      <4> DEFINE x == s + k
                 y == s + size
      <4>1. x \in Nat /\ y \in Nat /\ x < y /\ y <= Len(d) /\ y - x = ParitySize
        BY <3>1
      <4> HIDE DEF x, y
      <4>2. /\ Slice(d, x, y) \in Seq(Elems(n)) /\ Len(Slice(d, x, y)) = ParitySize
            /\ \A j \in 1..ParitySize : Slice(d, x, y)[j] = d[x + j]
        BY <1>7, <4>1
      <4> QED BY <4>2 DEF x, y
    <3>3. \A j \in 1..ParitySize : s + k + j \in 1..Len(b)
      <4> DEFINE P == ParitySize
                 L == Len(b)
      <4>1. s \in Nat /\ k \in Nat /\ P \in Nat /\ L \in Nat /\ size = k + P /\ s + size <= L
        BY <1>0, <1>2, <2>7
      <4> HIDE DEF P, L
      <4>2. \A j \in 1..P : s + k + j \in 1..L
        BY <4>1
      <4> QED BY <4>2 DEF P, L
    <3>4. \A j \in 1..ParitySize : w[j] = prot[j]
      BY <1>2, <2>4, <3>2, <3>3
    <3> HIDE DEF w
    <3> QED BY <2>2, <2>8, <3>2, <3>4, SeqEqual
  <2> QED BY <2>6, <2>9, <2>10 DEF chunk, prot
<1>10. ASSUME NEW i \in 1..num_chunks PROVE rs_chunks[i][1] \in Seq(Elems(n))
  <2> DEFINE s == (i - 1) * size
  <2>1. i - 1 \in Nat
    BY <1>6
  <2>2. s \in Nat
    <3> HIDE DEF size
    <3> QED BY <1>0, <2>1, Times
  <2>3. rs_chunks[i][1] = Slice(d, s, s + k)
    BY <1>5
  <2> HIDE DEF s, k
  <2> QED BY <1>0, <1>8, <2>2, <2>3
<1> QED BY <1>6, <1>9, <1>10

LEMMA PacketReceived ==
  ASSUME NEW n \in Nat \ {0}, NEW f \in Nat \ {0}, Protected(n, f)
  PROVE  /\ Len(af) = n /\ Len(afpacket) \in Nat /\ Len(afpacket) >= n
         /\ SubSeq(afpacket, 1, n) = af
         /\ \A i \in 1..Ceiling(n, chunk_size) : protection_ok(i)
<1> DEFINE k == ChunkSize(n)
           N == NumChunks(n)
           S == Elems(n)
           seqs == [i \in 1..num_chunks |-> rs_chunks[i][1]]
           joined == FlattenSeq(seqs)
           off == [i \in 0..N |-> i * k]
<1>0. /\ N \in Nat \ {0} /\ k \in Nat \ {0} /\ ZeroPad(n) \in Nat
      /\ n + ZeroPad(n) = N * k /\ Ceiling(n, k) <= N /\ Ceiling(n, k) \in Nat
  BY SenderIs, CeilingIs
<1>1. /\ num_chunks \in Nat /\ N <= num_chunks
      /\ \A c \in 1..N : rs_chunks[c] = <<ChunkOf(n, c), Parity(ChunkOf(n, c))>>
      /\ \A i \in 1..num_chunks : rs_chunks[i][1] \in Seq(S)
  BY ChunksReceived
<1>2. /\ chunk_size = k /\ zeropad = ZeroPad(n) /\ af = AfBytes(n)
      /\ Len(af) = n /\ \A i \in 1..n : af[i] = i
  BY DEF Protected, AfBytes
<1>3. ASSUME NEW c \in 1..N
      PROVE  /\ Len(ChunkOf(n, c)) = k
             /\ \A j \in 1..k : (c - 1) * k + j <= n => ChunkOf(n, c)[j] = (c - 1) * k + j
  BY ChunkIs
<1> HIDE DEF k, N, S
<1>4. /\ seqs \in Seq(Seq(S)) /\ Len(seqs) = num_chunks
      /\ \A c \in 1..N : seqs[c] = ChunkOf(n, c)
  <2>1. seqs \in [1..num_chunks -> Seq(S)]
    BY <1>1
  <2>2. \A c \in 1..N : c \in 1..num_chunks
    BY <1>0, <1>1
  <2>3. \A c \in 1..N : seqs[c] = ChunkOf(n, c)
    BY <1>1, <2>2
  <2> HIDE DEF seqs
  <2> QED BY <1>1, <2>1, <2>3
<1>5. /\ off \in [0..N -> Nat] /\ off[0] = 0 /\ off[N] = N * k
      /\ \A i \in 1..N : off[i - 1] = (i - 1) * k /\ off[i] = i * k
  <2>1. \A i \in 0..N : i * k \in Nat
    BY <1>0, Times
  <2>2. 0 * k = 0 /\ 0 \in 0..N /\ N \in 0..N
    BY <1>0
  <2>3. \A i \in 1..N : i - 1 \in 0..N /\ i \in 0..N
    BY <1>0
  <2> QED BY <2>1, <2>2, <2>3
<1>6. \A i \in 1..N : off[i] = off[i - 1] + Len(seqs[i])
  <2> SUFFICES ASSUME NEW i \in 1..N PROVE off[i] = off[i - 1] + Len(seqs[i])
    OBVIOUS
  <2> DEFINE p == i - 1
  <2>1. p \in Nat /\ i = p + 1 /\ off[i] = i * k /\ off[i - 1] = p * k
    BY <1>0, <1>5
  <2>2. Len(seqs[i]) = k
    BY <1>3, <1>4
  <2> HIDE DEF p, off, seqs
  <2>3. k * (p + 1) = k * p + k /\ k * p = p * k /\ k * (p + 1) = (p + 1) * k
    BY <1>0, <2>1, Times
  <2> QED BY <2>1, <2>2, <2>3
<1> HIDE DEF seqs, off
<1>7. joined \in Seq(S) /\ Places(joined, seqs, off, N)
  <2>1. N \in 1..Len(seqs)
    BY <1>0, <1>1, <1>4
  <2>2. seqs \in Seq(Seq(S)) /\ off \in [0..N -> Nat] /\ off[0] = 0
    BY <1>4, <1>5
  <2> QED BY <1>6, <2>1, <2>2, PlacesOfJoined
<1>8. /\ afpacket = SubSeq(joined, 1, Len(joined) - zeropad)
      /\ Len(joined) \in Nat
  BY <1>7, LenProperties DEF afpacket, seqs
<1> HIDE DEF joined
<1>9. N * k <= Len(joined)
  <2>1. N \in 1..N
    BY <1>0
  <2> QED BY <1>5, <1>7, <2>1 DEF Places
<1>10. ASSUME NEW i \in 1..n PROVE joined[i] = i
  <2> DEFINE x == i - 1
             q == x \div k
             r == x % k
  <2>1. x \in Nat /\ x < N * k /\ i = x + 1
    BY <1>0
  <2>2. q \in Nat /\ r \in 0..(k - 1) /\ x = k * q + r
    <3> HIDE DEF x
    <3> QED BY <1>0, <2>1, DivMod
  <2> HIDE DEF x, q, r
  <2>3. k * q \in Nat /\ k * q = q * k /\ k * N = N * k /\ k * N \in Nat
    BY <1>0, <2>2, Times
  <2>4. q + 1 \in 1..N
    <3> SUFFICES ASSUME N <= q PROVE FALSE
      BY <1>0, <2>2
    <3>1. k * N <= k * q
      BY <1>0, <2>2, Times
    <3> QED BY <1>0, <2>1, <2>2, <2>3, <3>1
  <2> DEFINE c == q + 1
             j == r + 1
  <2>5. c \in 1..N /\ j \in 1..k /\ c - 1 = q
    BY <1>0, <2>2, <2>4
  <2>6. q * k + j = i
    BY <1>0, <2>1, <2>2, <2>3
  <2> HIDE DEF c, j
  <2>7. (c - 1) * k + j = i
    BY <2>5, <2>6
  <2>8. joined[off[c - 1] + j] = seqs[c][j]
    BY <1>3, <1>4, <1>7, <2>5 DEF Places
  <2>9. off[c - 1] = (c - 1) * k
    BY <1>5, <2>5
  <2>10. ChunkOf(n, c)[j] = (c - 1) * k + j
    <3>1. (c - 1) * k + j <= n
      BY <2>7
    <3> QED BY <1>3, <2>5, <3>1
  <2> QED BY <1>4, <2>5, <2>7, <2>8, <2>9, <2>10
<1>11. DEFINE m == Len(joined) - zeropad
<1>12. m \in Nat /\ n <= m /\ m <= Len(joined)
  BY <1>0, <1>2, <1>8, <1>9
<1> HIDE DEF m
<1>13. /\ afpacket \in Seq(S) /\ Len(afpacket) = m
       /\ \A i \in 1..m : afpacket[i] = joined[i]
  <2>1. afpacket = SubSeq(joined, 1, m)
    BY <1>8 DEF m
  <2>2. \A i \in 1..m : joined[i] \in S
    BY <1>7, <1>8, <1>12, ElementOfSeq
  <2>3. 1 \in Int /\ m \in Int /\ m - 1 + 1 = m /\ (IF 1 <= m THEN m - 1 + 1 ELSE 0) = m
        /\ \A i \in 1..m : 1 + i - 1 = i
    BY <1>12
  <2> QED BY <2>1, <2>2, <2>3, SubSeqProperties
<1>14. SubSeq(afpacket, 1, n) = af
  <2> DEFINE t == SubSeq(afpacket, 1, n)
  <2>1. \A i \in 1..n : afpacket[i] = i
    BY <1>10, <1>12, <1>13
  <2>2. \A i \in 1..n : afpacket[i] \in Nat
    BY <2>1
  <2>3. 1 \in Int /\ n \in Int /\ (IF 1 <= n THEN n - 1 + 1 ELSE 0) = n
        /\ n - 1 + 1 = n /\ \A i \in 1..n : 1 + i - 1 = i
    OBVIOUS
  <2>4. t \in Seq(Nat) /\ Len(t) = n /\ \A i \in 1..n : t[i] = i
    BY <2>1, <2>2, <2>3, SubSeqProperties
  <2>5. af \in Seq(Nat)
    BY <1>2 DEF AfBytes
  <2> HIDE DEF t
  <2>6. t = af
    BY <1>2, <2>4, <2>5, SeqEqual
  <2> QED BY <2>6 DEF t
<1>15. ASSUME NEW i \in 1..Ceiling(n, chunk_size) PROVE protection_ok(i)
  <2>1. i \in 1..N
    BY <1>0, <1>2
  <2>2. rs_chunks[i] = <<ChunkOf(n, i), Parity(ChunkOf(n, i))>>
    BY <1>1, <2>1
  <2> QED BY <2>2 DEF protection_ok
<1> QED BY <1>2, <1>12, <1>13, <1>14, <1>15

LEMMA EdiRsInductive ==
  EdiRsSpec => []EdiRsInv
<1>1. EdiRsInit => EdiRsInv
  BY DEF EdiRsInit, EdiRsInv
<1>2. EdiRsInv /\ [EdiRsNext]_edirsVars => EdiRsInv'
  <2> SUFFICES ASSUME EdiRsInv, [EdiRsNext]_edirsVars PROVE EdiRsInv'
    OBVIOUS
  <2>1. CASE UNCHANGED edirsVars
    BY <2>1 DEF edirsVars, EdiRsInv, Protected
  <2>2. ASSUME NEW n \in 1..MaxAfLength, NEW f \in 1..MaxFragments, SendProtected(n, f)
        PROVE  EdiRsInv'
    <3>1. Protected(n, f)'
      BY <2>2 DEF SendProtected, Protected
    <3> QED BY <3>1 DEF EdiRsInv
  <2> QED BY <2>1, <2>2 DEF EdiRsNext
<1> QED BY <1>1, <1>2, PTL DEF EdiRsSpec

\* However long an AF packet is, whatever the sizes of chunks and parity, and
\* into however many fragments it was cut: what decode_af gets begins with the
\* packet, and every chunk that was sent is found with its parity
\* (get_rs_decoder).
THEOREM PacketRestored == EdiRsSpec => []AfPacketRestored
<1>1. EdiRsInv => AfPacketRestored
  <2> SUFFICES ASSUME EdiRsInv, fragments # << >>
               PROVE  /\ Len(afpacket) >= Len(af) /\ SubSeq(afpacket, 1, Len(af)) = af
                      /\ \A i \in 1..Ceiling(Len(af), chunk_size) : protection_ok(i)
    BY DEF AfPacketRestored
  <2>1. PICK n \in 1..MaxAfLength, f \in 1..MaxFragments : Protected(n, f)
    BY DEF EdiRsInv
  <2>2. n \in Nat \ {0} /\ f \in Nat \ {0}
    BY EdiRsAssumption
  <2>3. /\ Len(af) = n /\ Len(afpacket) >= n /\ SubSeq(afpacket, 1, n) = af
        /\ \A i \in 1..Ceiling(n, chunk_size) : protection_ok(i)
    BY <2>1, <2>2, PacketReceived
  <2> QED BY <2>3
<1> QED BY <1>1, EdiRsInductive, PTL

------------------------------------------------------------------------------
(* ETI(NI) frames *)

\* The fields of an est item and of a deti item.
LEMMA EstIs ==
  ASSUME NEW e \in Ests
  PROVE  /\ e.scid \in Nat /\ e.sad \in Nat /\ e.tpl \in Nat /\ e.stl \in Nat
         /\ e.scid < 64 /\ e.sad < 1024 /\ e.tpl < 64 /\ e.stl < 1024
         /\ e = [scid |-> e.scid, sad |-> e.sad, tpl |-> e.tpl, stl |-> e.stl]
BY EtiNiAssumption

LEMMA DetiIs ==
  ASSUME NEW d \in Detis
  PROVE  /\ d.fcth \in Nat /\ d.fctl \in Nat /\ d.ficf \in Nat /\ d.mid \in Nat
         /\ d.fp \in Nat /\ d.mnsc \in Nat
         /\ d.atstf \in BOOLEAN /\ d.rfudf \in BOOLEAN
         /\ d.fcth < 32 /\ d.fctl < 256 /\ d.ficf < 2 /\ d.mid < 4 /\ d.fp < 8
         /\ d.mnsc < 65536
BY EtiNiAssumption

\* The partial sums are what their definition says.
LEMMA SumsIs ==
  ASSUME NEW s \in Seq(Nat)
  PROVE  /\ Sums(s) \in [0..Len(s) -> Nat] /\ Sums(s)[0] = 0
         /\ \A i \in 1..Len(s) : Sums(s)[i] = Sums(s)[i - 1] + s[i]
<1> DEFINE N == Len(s)
           step == [x \in Nat \X (1..N) |-> x[1] + s[x[2]]]
           Sum(g) == [i \in 0..N |-> IF i = 0 THEN 0 ELSE g[i - 1] + s[i]]
           g == Sums(s)
<1>1. N \in Nat /\ \A i \in 1..N : s[i] \in Nat
  BY LenProperties, ElementOfSeq
<1>2. step \in [Nat \X (1..N) -> Nat]
  BY <1>1
<1>3. PICK f : Loop(f, N, Nat, 0, step)
  <2> HIDE DEF N, step
  <2> QED BY <1>1, <1>2, LoopExists
<1>4. /\ f \in [0..N -> Nat] /\ f[0] = 0
      /\ \A i \in 1..N : f[i] = f[i - 1] + s[i]
  <2>1. f \in [0..N -> Nat] /\ f[0] = 0 /\ \A i \in 1..N : f[i] = step[<<f[i - 1], i>>]
    BY <1>3 DEF Loop
  <2>2. ASSUME NEW i \in 1..N PROVE f[i] = f[i - 1] + s[i]
    <3>1. i - 1 \in 0..N
      BY <1>1
    <3>2. f[i - 1] \in Nat
      BY <2>1, <3>1
    <3>3. step[<<f[i - 1], i>>] = f[i - 1] + s[i]
      BY <3>2
    <3> QED BY <2>1, <3>3
  <2> QED BY <2>1, <2>2
<1>5. f = Sum(f)
  <2> HIDE DEF N
  <2> QED BY <1>1, <1>4
<1>6. g = Sum(g)
  BY <1>5 DEF Sums
<1> HIDE DEF g, N
<1>7. DOMAIN g = 0..N /\ g[0] = 0 /\ \A i \in 1..N : g[i] = g[i - 1] + s[i]
  BY <1>1, <1>6
<1>8. g \in [0..N -> Nat]
  <2> DEFINE G == {n \in 0..N : g[n] \in Nat}
  <2>1. 0 \in G /\ G \in SUBSET (0..N)
    BY <1>1, <1>7
  <2>2. ASSUME NEW n \in 1..N, n - 1 \in G PROVE n \in G
    <3>1. g[n - 1] \in Nat
      BY <2>2
    <3>2. g[n] = g[n - 1] + s[n] /\ s[n] \in Nat /\ n \in 0..N
      BY <1>1, <1>7
    <3> QED BY <3>1, <3>2
  <2>3. G = 0..N
    <3> HIDE DEF G
    <3> QED BY <1>1, <2>1, <2>2, Numbered
  <2>4. g = [n \in 0..N |-> g[n]]
    BY <1>6
  <2> QED BY <2>3, <2>4
<1> QED BY <1>7, <1>8 DEF g, N

\* No two subchannels of a packet have the same number.
Distinct(es) == \A i, j \in 1..Len(es) : i # j => es[i].scid # es[j].scid

LEMMA NoMoreThan64 ==
  ASSUME NEW es \in Seq(Ests), Distinct(es)
  PROVE  Len(es) \in Nat /\ Len(es) <= 64
<1> DEFINE n == Len(es)
           f == [i \in 1..n |-> es[i].scid]
<1>1. n \in Nat /\ \A i \in 1..n : es[i] \in Ests
  BY LenProperties, ElementOfSeq
<1>2. SUFFICES ASSUME NEW m \in Nat, m = 63 PROVE n <= m + 1
  BY <1>1
<1>3. \A i \in 1..n : es[i].scid \in 0..m
  <2> SUFFICES ASSUME NEW i \in 1..n PROVE es[i].scid \in 0..m
    OBVIOUS
  <2> DEFINE x == es[i].scid
  <2>1. x \in Nat /\ x < 64
    BY <1>1, EstIs
  <2> HIDE DEF x
  <2>2. x \in 0..m
    BY <1>2, <2>1
  <2> QED BY <2>2 DEF x
<1>4. f \in Injection(1..n, 0..m)
  <2>1. f \in [1..n -> 0..m]
    BY <1>3
  <2> QED BY <2>1 DEF Injection, IsInjective, Distinct
<1>5. IsFiniteSet(0..m) /\ Cardinality(0..m) = m + 1
  <2>1. 0 \in Int /\ m \in Int /\ ~(0 > m)
    OBVIOUS
  <2>2. IsFiniteSet(0..m) /\ Cardinality(0..m) = IF 0 > m THEN 0 ELSE m - 0 + 1
    BY <2>1, FS_Interval
  <2> QED BY <2>1, <2>2
<1>6. Cardinality(1..n) = n
  <2>1. 1 \in Int /\ n \in Int
    BY <1>1
  <2>2. Cardinality(1..n) = IF 1 > n THEN 0 ELSE n - 1 + 1
    BY <2>1, FS_Interval
  <2> QED BY <1>1, <2>2
<1>7. Cardinality(1..n) <= Cardinality(0..m)
  <2> HIDE DEF f, n
  <2> QED BY <1>4, <1>5, FS_Injection
<1> QED BY <1>1, <1>5, <1>6, <1>7

\* The FIC that is taken is as long as the mode says, and it is the FIC if there
\* is no RFUD.
LEMMA FicIs ==
  ASSUME NEW d \in Detis
  PROVE  /\ FicWords(d) \in {0, 24, 32}
         /\ FicTaken(d) \in Seq(Int) /\ Len(FicTaken(d)) = 4 * FicWords(d)
         /\ ~d.rfudf => FicTaken(d) = FicData(d)
<1> DEFINE w == 4 * FicWords(d)
           atst == IF d.atstf THEN 8 ELSE 0
           rfud == IF d.rfudf THEN 3 ELSE 0
           a == Filler(6 + atst)
           b == FicData(d)
           c == Filler(rfud)
           ab == a \o b
           value == ab \o c
           x == atst + rfud + 6
<1>1. FicWords(d) \in {0, 24, 32} /\ d.rfudf \in BOOLEAN
  BY DetiIs DEF FicWords
<1>2. w \in Nat /\ atst \in Nat /\ rfud \in Nat /\ (~d.rfudf => rfud = 0)
  BY <1>1
<1> HIDE DEF atst, rfud
<1>3. /\ a \in Seq(Int) /\ Len(a) = 6 + atst
      /\ b \in Seq(Int) /\ Len(b) = w
      /\ c \in Seq(Int) /\ Len(c) = rfud
  <2>1. a \in Seq(Int) /\ Len(a) = 6 + atst
    BY <1>2 DEF Filler
  <2>2. b = [i \in 1..w |-> 1000 + i]
    BY DEF FicData, FicByte
  <2>3. c \in Seq(Int) /\ Len(c) = rfud
    BY <1>2 DEF Filler
  <2> HIDE DEF w, b
  <2>4. b \in Seq(Int) /\ Len(b) = w
    BY <1>2, <2>2
  <2> QED BY <2>1, <2>3, <2>4
<1> HIDE DEF a, b, c, w
<1>4. ab \in Seq(Int) /\ Len(ab) = 6 + atst + w
  BY <1>3, ConcatProperties
<1>5. value \in Seq(Int) /\ Len(value) = x + w
  <2> HIDE DEF ab
  <2>1. value \in Seq(Int) /\ Len(value) = Len(ab) + Len(c)
    BY <1>3, <1>4, ConcatProperties
  <2> QED BY <1>2, <1>3, <1>4, <2>1
<1>6. FicTaken(d) = SubSeq(value, x + 1, x + w)
  <2>1. FicTaken(d) = SubSeq(value, Len(value) - (Len(value) - 6 - atst - rfud) + 1, Len(value))
    BY DEF FicTaken, atst, rfud, a, b, c
  <2> HIDE DEF value
  <2>2. Len(value) - (Len(value) - 6 - atst - rfud) + 1 = x + 1
    BY <1>2, <1>5
  <2> QED BY <1>5, <2>1, <2>2
<1>7. FicTaken(d) \in Seq(Int) /\ Len(FicTaken(d)) = w
  <2> HIDE DEF value, x
  <2>0. x \in Nat
    BY <1>2 DEF x
  <2>1. \A i \in (x + 1)..(x + w) : value[i] \in Int
    BY <1>2, <1>5, <2>0, ElementOfSeq
  <2>2. x + 1 \in Int /\ x + w \in Int /\ (IF x + 1 <= x + w THEN (x + w) - (x + 1) + 1 ELSE 0) = w
    BY <1>2, <2>0
  <2> QED BY <1>6, <2>1, <2>2, SubSeqProperties
<1>8. ASSUME ~d.rfudf PROVE FicTaken(d) = b
  <2>1. rfud = 0 /\ x = Len(a)
    BY <1>2, <1>3, <1>8
  <2>2. Lies(b, ab, Len(a))
    BY <1>3, LiesRight
  <2>3. Lies(b, value, Len(a))
    <3> HIDE DEF ab
    <3>1. Len(a) \in Nat
      BY <1>3, LenProperties
    <3> QED BY <1>3, <1>4, <2>2, <3>1, LiesLeft
  <2>4. SubSeq(value, Len(a) + 1, Len(a) + Len(b)) = b
    <3> HIDE DEF value
    <3>1. Len(a) \in Nat
      BY <1>3, LenProperties
    <3> QED BY <1>3, <1>5, <2>3, <3>1, LiesCut
  <2> QED BY <1>3, <1>6, <2>1, <2>4
<1> QED BY <1>1, <1>7, <1>8 DEF w, b

LEMMA EstDataIs ==
  ASSUME NEW e \in Ests
  PROVE  EstData(e) \in Seq(Int) /\ Len(EstData(e)) = 8 * e.stl /\ e.stl \in Nat
<1> DEFINE x == e.stl
           f == EstData(e)
<1>1. x \in Nat /\ e.scid \in Nat
  BY EstIs
<1>2. f = [i \in 1..(8 * x) |-> DataByte(e, i)]
  BY DEF EstData
<1> HIDE DEF x, f
<1>3. \A i \in 1..(8 * x) : DataByte(e, i) \in Int
  BY <1>1 DEF DataByte
<1>4. 8 * x \in Nat
  BY <1>1
<1>5. f \in Seq(Int) /\ Len(f) = 8 * x
  BY <1>2, <1>3, <1>4
<1> QED BY <1>1, <1>5 DEF x, f

\* What EtiData has when the items of a packet are in.
DataOf(d, es) ==
  [fc |-> FcOf(d), stc |-> [i \in 1..Len(es) |-> Subchannel(es[i])],
   mnsc |-> d.mnsc, fic |-> FicTaken(d)]

\* How many bytes the first subchannels have.
StreamBytes(es) == Sums([i \in 1..Len(es) |-> 8 * es[i].stl])

LEMMA StreamBytesIs ==
  ASSUME NEW es \in Seq(Ests)
  PROVE  /\ StreamBytes(es) \in [0..Len(es) -> Nat] /\ StreamBytes(es)[0] = 0
         /\ \A i \in 1..Len(es) :
              StreamBytes(es)[i] = StreamBytes(es)[i - 1] + 8 * es[i].stl
<1> DEFINE s == [i \in 1..Len(es) |-> 8 * es[i].stl]
<1>1. Len(es) \in Nat /\ \A i \in 1..Len(es) : es[i] \in Ests
  BY LenProperties, ElementOfSeq
<1>2. ASSUME NEW i \in 1..Len(es) PROVE 8 * es[i].stl \in Nat
  <2> DEFINE x == es[i].stl
  <2>1. x \in Nat
    BY <1>1, EstIs
  <2> HIDE DEF x
  <2>2. 8 * x \in Nat
    BY <2>1
  <2> QED BY <2>2 DEF x
<1>3. s \in Seq(Nat) /\ Len(s) = Len(es) /\ \A i \in 1..Len(es) : s[i] = 8 * es[i].stl
  BY <1>1, <1>2, SMTT(30)
<1> HIDE DEF s
<1>4. /\ Sums(s) \in [0..Len(s) -> Nat] /\ Sums(s)[0] = 0
      /\ \A i \in 1..Len(s) : Sums(s)[i] = Sums(s)[i - 1] + s[i]
  BY <1>3, SumsIs
<1>5. StreamBytes(es) = Sums(s)
  BY DEF StreamBytes, s
<1> QED BY <1>3, <1>4, <1>5

\* FL counts a quarter of these bytes.
LEMMA StreamWordsIs ==
  ASSUME NEW d, NEW es \in Seq(Ests)
  PROVE  /\ StreamWords(DataOf(d, es)) \in Nat
         /\ 4 * StreamWords(DataOf(d, es)) = StreamBytes(es)[Len(es)]
<1> DEFINE n == Len(es)
           s == [i \in 1..n |-> 2 * es[i].stl]
           A == Sums(s)
           B == StreamBytes(es)
<1>1. n \in Nat /\ \A i \in 1..n : es[i] \in Ests
  BY LenProperties, ElementOfSeq
<1>2. \A i \in 1..n : es[i].stl \in Nat
  BY <1>1, EstIs
<1>3. s \in Seq(Nat) /\ Len(s) = n /\ \A i \in 1..n : s[i] = 2 * es[i].stl
  BY <1>1, <1>2
<1>4. A \in [0..n -> Nat] /\ A[0] = 0 /\ \A i \in 1..n : A[i] = A[i - 1] + 2 * es[i].stl
  <2> HIDE DEF s
  <2>1. /\ Sums(s) \in [0..Len(s) -> Nat] /\ Sums(s)[0] = 0
        /\ \A i \in 1..Len(s) : Sums(s)[i] = Sums(s)[i - 1] + s[i]
    BY <1>3, SumsIs
  <2> QED BY <1>3, <2>1
<1>5. B \in [0..n -> Nat] /\ B[0] = 0 /\ \A i \in 1..n : B[i] = B[i - 1] + 8 * es[i].stl
  BY StreamBytesIs
<1>6. StreamWords(DataOf(d, es)) = A[n]
  <2>1. /\ DataOf(d, es).stc = [i \in 1..n |-> Subchannel(es[i])]
        /\ \A i \in 1..n : Subchannel(es[i]).STL = es[i].stl
    BY DEF DataOf, Subchannel
  <2>2. Len(DataOf(d, es).stc) = n
    BY <1>1, <2>1
  <2>3. [i \in 1..n |-> 2 * DataOf(d, es).stc[i].STL] = s
    BY <2>1
  <2> QED BY <2>2, <2>3 DEF StreamWords
<1> HIDE DEF A, B, n
<1>7. 4 * A[n] = B[n]
  <2> DEFINE G == {i \in 0..n : 4 * A[i] = B[i]}
  <2>1. 0 \in G /\ G \in SUBSET (0..n)
    BY <1>1, <1>4, <1>5
  <2>2. ASSUME NEW i \in 1..n, i - 1 \in G PROVE i \in G
    <3>1. A[i - 1] \in Nat /\ es[i].stl \in Nat /\ 4 * A[i - 1] = B[i - 1] /\ i \in 0..n
      BY <1>1, <1>2, <1>4, <2>2
    <3>2. A[i] = A[i - 1] + 2 * es[i].stl /\ B[i] = B[i - 1] + 8 * es[i].stl
      BY <1>4, <1>5
    <3> DEFINE a == A[i - 1]
               b == B[i - 1]
               x == es[i].stl
    <3>3. a \in Nat /\ x \in Nat /\ 4 * a = b
      BY <3>1
    <3> HIDE DEF a, b, x
    <3>4. 4 * (a + 2 * x) = b + 8 * x
      BY <3>3
    <3>5. 4 * A[i] = B[i]
      BY <3>2, <3>4 DEF a, b, x
    <3> QED BY <3>1, <3>5
  <2>3. G = 0..n
    <3> HIDE DEF G
    <3> QED BY <1>1, <2>1, <2>2, Numbered
  <2>4. n \in G
    <3> HIDE DEF G
    <3> QED BY <1>1, <2>3
  <2> QED BY <2>4
<1>8. A[n] \in Nat
  BY <1>1, <1>4
<1> QED BY <1>6, <1>7, <1>8 DEF B, n

LEMMA Bytes ==
  ASSUME NEW x \in Nat, NEW y \in Nat
  PROVE  x * 4 + High(y) \in Int /\ Low(y) \in Int
<1>1. High(y) \in Int /\ Low(y) \in Int
  BY DEF High, Low
<1>2. x * 4 \in Int
  OBVIOUS
<1> QED BY <1>1, <1>2

\* The header words.
LEMMA STCIs ==
  ASSUME NEW d, NEW es \in Seq(Ests)
  PROVE  LET s == STC(DataOf(d, es))
         IN  /\ s \in Seq(Int) /\ Len(s) = 4 * Len(es)
             /\ \A i \in 1..Len(es) :
                  /\ s[4 * (i - 1) + 1] = es[i].scid * 4 + High(es[i].sad)
                  /\ s[4 * (i - 1) + 2] = Low(es[i].sad)
                  /\ s[4 * (i - 1) + 3] = es[i].tpl * 4 + High(es[i].stl)
                  /\ s[4 * (i - 1) + 4] = Low(es[i].stl)
<1> DEFINE n == Len(es)
           word(i) == <<es[i].scid * 4 + High(es[i].sad), Low(es[i].sad),
                        es[i].tpl * 4 + High(es[i].stl), Low(es[i].stl)>>
           seqs == [i \in 1..n |-> word(i)]
           off == [i \in 0..n |-> 4 * i]
           s == STC(DataOf(d, es))
<1>1. n \in Nat /\ \A i \in 1..n : es[i] \in Ests
  BY LenProperties, ElementOfSeq
<1>2. s = FlattenSeq(seqs)
  <2>1. /\ DataOf(d, es).stc = [i \in 1..n |-> Subchannel(es[i])]
        /\ \A i \in 1..n : /\ Subchannel(es[i]).SCID = es[i].scid
                           /\ Subchannel(es[i]).SAD = es[i].sad
                           /\ Subchannel(es[i]).TPL = es[i].tpl
                           /\ Subchannel(es[i]).STL = es[i].stl
    BY DEF DataOf, Subchannel
  <2>2. Len(DataOf(d, es).stc) = n
    BY <1>1, <2>1
  <2>3. /\ STC(DataOf(d, es)) =
             FlattenSeq([i \in 1..n |->
               <<DataOf(d, es).stc[i].SCID * 4 + High(DataOf(d, es).stc[i].SAD),
                 Low(DataOf(d, es).stc[i].SAD),
                 DataOf(d, es).stc[i].TPL * 4 + High(DataOf(d, es).stc[i].STL),
                 Low(DataOf(d, es).stc[i].STL)>>])
    BY <2>2 DEF STC
  <2>4. [i \in 1..n |->
           <<DataOf(d, es).stc[i].SCID * 4 + High(DataOf(d, es).stc[i].SAD),
             Low(DataOf(d, es).stc[i].SAD),
             DataOf(d, es).stc[i].TPL * 4 + High(DataOf(d, es).stc[i].STL),
             Low(DataOf(d, es).stc[i].STL)>>] = seqs
    <3>1. \A i \in 1..n : DataOf(d, es).stc[i] = Subchannel(es[i])
      BY <2>1
    <3> QED BY <2>1, <3>1
  <2> QED BY <2>3, <2>4
<1>3. ASSUME NEW i \in 1..n
      PROVE  /\ word(i) \in Seq(Int) /\ Len(word(i)) = 4
             /\ word(i)[1] = es[i].scid * 4 + High(es[i].sad)
             /\ word(i)[2] = Low(es[i].sad)
             /\ word(i)[3] = es[i].tpl * 4 + High(es[i].stl)
             /\ word(i)[4] = Low(es[i].stl)
  <2>1. /\ es[i].scid \in Nat /\ es[i].sad \in Nat /\ es[i].tpl \in Nat
        /\ es[i].stl \in Nat
    BY <1>1, EstIs
  <2>2. /\ es[i].scid * 4 + High(es[i].sad) \in Int /\ Low(es[i].sad) \in Int
        /\ es[i].tpl * 4 + High(es[i].stl) \in Int /\ Low(es[i].stl) \in Int
    BY <2>1, Bytes
  <2> QED BY <2>2
<1> HIDE DEF word, n, s
<1>4. seqs \in Seq(Seq(Int)) /\ Len(seqs) = n /\ \A i \in 1..n : seqs[i] = word(i)
  <2>1. seqs \in [1..n -> Seq(Int)] /\ \A i \in 1..n : seqs[i] = word(i)
    BY <1>3
  <2> HIDE DEF seqs
  <2> QED BY <1>1, <2>1
<1>5. /\ off \in [0..n -> Nat] /\ off[0] = 0 /\ off[n] = 4 * n
      /\ \A i \in 1..n : off[i] = off[i - 1] + 4 /\ off[i - 1] = 4 * (i - 1)
  BY <1>1
<1> HIDE DEF seqs, off
<1>6. \A i \in 1..n : off[i] = off[i - 1] + Len(seqs[i])
  BY <1>3, <1>4, <1>5
<1>7. /\ s \in Seq(Int) /\ Len(s) = 4 * n
      /\ \A i \in 1..n : Lies(seqs[i], s, off[i - 1])
  <2>1. /\ off \in [0..Len(seqs) -> Nat] /\ off[0] = 0 /\ seqs \in Seq(Seq(Int))
        /\ \A i \in 1..Len(seqs) : off[i] = off[i - 1] + Len(seqs[i])
    BY <1>4, <1>5, <1>6
  <2>2. /\ FlattenSeq(seqs) \in Seq(Int) /\ Len(FlattenSeq(seqs)) = off[Len(seqs)]
        /\ \A i \in 1..Len(seqs) : Lies(seqs[i], FlattenSeq(seqs), off[i - 1])
    BY <2>1, JoinedPieces
  <2> QED BY <1>2, <1>4, <1>5, <2>2
<1>8. ASSUME NEW i \in 1..n
      PROVE  /\ s[4 * (i - 1) + 1] = es[i].scid * 4 + High(es[i].sad)
             /\ s[4 * (i - 1) + 2] = Low(es[i].sad)
             /\ s[4 * (i - 1) + 3] = es[i].tpl * 4 + High(es[i].stl)
             /\ s[4 * (i - 1) + 4] = Low(es[i].stl)
  <2>1. Lies(word(i), s, off[i - 1]) /\ off[i - 1] = 4 * (i - 1) /\ Len(word(i)) = 4
    BY <1>3, <1>4, <1>5, <1>7
  <2>2. \A j \in 1..4 : s[4 * (i - 1) + j] = word(i)[j]
    BY <2>1 DEF Lies
  <2> QED BY <1>3, <2>2
<1> QED BY <1>7, <1>8 DEF s, n

\* The streams, one behind the other.
LEMMA MstIs ==
  ASSUME NEW d \in Detis, NEW es \in Seq(Ests)
  PROVE  LET m == MstData(DataOf(d, es))
             w == 4 * FicWords(d)
         IN  /\ m \in Seq(Int) /\ Len(m) = w + StreamBytes(es)[Len(es)]
             /\ Lies(FicTaken(d), m, 0)
             /\ \A i \in 1..Len(es) :
                  Lies(EstData(es[i]), m, w + StreamBytes(es)[i - 1])
<1> DEFINE n == Len(es)
           m == MstData(DataOf(d, es))
           w == 4 * FicWords(d)
           off == StreamBytes(es)
           seqs == [i \in 1..n |-> EstData(es[i])]
           fics == FicTaken(d)
           joined == FlattenSeq(seqs)
<1>1. n \in Nat /\ \A i \in 1..n : es[i] \in Ests
  BY LenProperties, ElementOfSeq
<1>2. m = fics \o joined
  <2>1. /\ DataOf(d, es).stc = [i \in 1..n |-> Subchannel(es[i])]
        /\ \A i \in 1..n : Subchannel(es[i]).data = EstData(es[i])
        /\ DataOf(d, es).fic = fics
    BY DEF DataOf, Subchannel
  <2>2. Len(DataOf(d, es).stc) = n
    BY <1>1, <2>1
  <2> QED BY <2>1, <2>2 DEF MstData
<1>3. ASSUME NEW e \in Ests PROVE EstData(e) \in Seq(Int) /\ Len(EstData(e)) = 8 * e.stl
  BY EstDataIs
<1>4. off \in [0..n -> Nat] /\ off[0] = 0 /\ \A i \in 1..n : off[i] = off[i - 1] + 8 * es[i].stl
  BY StreamBytesIs
<1>5. w \in Nat /\ fics \in Seq(Int) /\ Len(fics) = w
  BY FicIs
<1> HIDE DEF n, off, fics, w
<1>6. seqs \in Seq(Seq(Int)) /\ Len(seqs) = n /\ \A i \in 1..n : seqs[i] = EstData(es[i])
  <2>1. seqs \in [1..n -> Seq(Int)] /\ \A i \in 1..n : seqs[i] = EstData(es[i])
    BY <1>1, <1>3
  <2> HIDE DEF seqs
  <2> QED BY <1>1, <2>1
<1> HIDE DEF seqs
<1>7. /\ joined \in Seq(Int) /\ Len(joined) = off[n]
      /\ \A i \in 1..n : Lies(EstData(es[i]), joined, off[i - 1])
  <2>0. \A i \in 1..n : Len(seqs[i]) = 8 * es[i].stl
    BY <1>1, <1>3, <1>6
  <2>1. /\ off \in [0..Len(seqs) -> Nat] /\ off[0] = 0 /\ seqs \in Seq(Seq(Int))
        /\ \A i \in 1..Len(seqs) : off[i] = off[i - 1] + Len(seqs[i])
    BY <1>4, <1>6, <2>0
  <2>2. /\ FlattenSeq(seqs) \in Seq(Int) /\ Len(FlattenSeq(seqs)) = off[Len(seqs)]
        /\ \A i \in 1..Len(seqs) : Lies(seqs[i], FlattenSeq(seqs), off[i - 1])
    BY <2>1, JoinedPieces
  <2> QED BY <1>6, <2>2
<1> HIDE DEF joined, m
<1>8. m \in Seq(Int) /\ Len(m) = w + off[n]
  <2>1. m \in Seq(Int) /\ Len(m) = Len(fics) + Len(joined)
    BY <1>2, <1>5, <1>7, LenJoined
  <2> QED BY <1>5, <1>7, <2>1
<1>9. Lies(joined, m, w)
  BY <1>2, <1>5, <1>7, LiesRight
<1>10. Lies(fics, m, 0)
  <2>1. Lies(fics, fics, 0)
    BY <1>5 DEF Lies
  <2> QED BY <1>2, <1>5, <1>7, <2>1, LiesLeft
<1>11. ASSUME NEW i \in 1..n PROVE Lies(EstData(es[i]), m, w + off[i - 1])
  <2>1. EstData(es[i]) \in Seq(Int) /\ off[i - 1] \in Nat
    BY <1>1, <1>3, <1>4
  <2> QED BY <1>5, <1>7, <1>8, <1>9, <2>1, LiesIn
<1> QED BY <1>8, <1>10, <1>11 DEF m, w, off, fics, n

\* The first four bytes of the header, the words behind them, the last two.
HeaderHas(d, es) ==
  LET D == DataOf(d, es)
      h == HeaderData(D)
      n == Len(es)
  IN  /\ h \in Seq(Int) /\ Len(h) = 4 * n + 6 /\ Lies(STC(D), h, 4)
      /\ h[1] = Low(d.fcth * 250 + d.fctl) /\ h[2] = d.ficf * 128 + n
      /\ h[3] = d.fp * 32 + d.mid * 8 + ((FL(D) \div 256) % 8)
      /\ h[4] = Low(FL(D))
      /\ h[4 * n + 5] = Low(d.mnsc) /\ h[4 * n + 6] = d.mnsc \div 256
      /\ FL(D) \in Nat
      /\ 4 * FL(D) = 4 * n + 4 + 4 * FicWords(d) + StreamBytes(es)[n]

LEMMA HeaderIs ==
  ASSUME NEW d \in Detis, NEW es \in Seq(Ests), Len(es) <= 64
  PROVE  HeaderHas(d, es)
<1> DEFINE D == DataOf(d, es)
           h == HeaderData(D)
           n == Len(es)
           s == STC(D)
           b1 == Low(d.fcth * 250 + d.fctl)
           b2 == d.ficf * 128 + n
           b3 == d.fp * 32 + d.mid * 8 + ((FL(D) \div 256) % 8)
           b4 == Low(FL(D))
           c1 == Low(d.mnsc)
           c2 == d.mnsc \div 256
           front == <<b1, b2, b3, b4>>
           back == <<c1, c2>>
           fs == front \o s
<1>1. n \in Nat
  BY LenProperties
<1>2. /\ D.fc = [FCT |-> d.fcth * 250 + d.fctl, FICF |-> d.ficf, MID |-> d.mid, FP |-> d.fp]
      /\ D.mnsc = d.mnsc /\ D.stc = [i \in 1..n |-> Subchannel(es[i])]
  BY DEF DataOf, FcOf
<1>3. Len(D.stc) = n
  BY <1>1, <1>2
<1>4. /\ d.fcth \in Nat /\ d.fctl \in Nat /\ d.ficf \in Nat /\ d.mid \in Nat
      /\ d.fp \in Nat /\ d.mnsc \in Nat /\ d.ficf < 2
  BY DetiIs
<1>5. FICL(D) = FicWords(d) /\ FicWords(d) \in Nat
  BY <1>2, FicIs DEF FICL, FicWords
<1>6. /\ s \in Seq(Int) /\ Len(s) = 4 * n
  BY STCIs
<1>7. /\ FL(D) \in Nat
      /\ 4 * FL(D) = 4 * n + 4 + 4 * FicWords(d) + StreamBytes(es)[n]
  <2>1. StreamWords(D) \in Nat /\ 4 * StreamWords(D) = StreamBytes(es)[n]
    BY StreamWordsIs
  <2>2. FL(D) = n + 1 + FicWords(d) + StreamWords(D)
    BY <1>3, <1>5 DEF FL
  <2> HIDE DEF n, D
  <2>3. FL(D) \in Nat /\ 4 * FL(D) = 4 * n + 4 + 4 * FicWords(d) + 4 * StreamWords(D)
    BY <1>1, <1>5, <2>1, <2>2, SMTT(30)
  <2> QED BY <2>1, <2>3
<1>8. h = fs \o back
  <2>1. /\ D.fc.FCT = d.fcth * 250 + d.fctl /\ D.fc.FICF = d.ficf
        /\ D.fc.MID = d.mid /\ D.fc.FP = d.fp /\ D.mnsc = d.mnsc
    BY <1>2
  <2> HIDE DEF D, n
  <2> QED BY <1>3, <2>1 DEF HeaderData
<1>9. /\ b1 \in Int /\ b2 \in Int /\ b3 \in Int /\ b4 \in Int /\ c1 \in Int /\ c2 \in Int
  <2> DEFINE F == FL(D)
  <2>1. F \in Nat
    BY <1>7
  <2> HIDE DEF F, n
  <2>2. b1 \in Int
    BY <1>4 DEF Low
  <2>3. b2 \in Int
    BY <1>1, <1>4
  <2>4. b3 \in Int
    <3>1. d.fp * 32 + d.mid * 8 \in Int
      BY <1>4
    <3>2. (F \div 256) % 8 \in Int
      BY <2>1
    <3> QED BY <3>1, <3>2 DEF F
  <2>5. b4 \in Int
    <3>1. Low(F) \in Int
      BY <2>1 DEF Low
    <3> QED BY <3>1 DEF F
  <2>6. c1 \in Int /\ c2 \in Int
    BY <1>4 DEF Low
  <2> QED BY <2>2, <2>3, <2>4, <2>5, <2>6
<1> HIDE DEF D, n, s, h, b1, b2, b3, b4, c1, c2
<1>10. /\ front \in Seq(Int) /\ Len(front) = 4 /\ front[1] = b1 /\ front[2] = b2
       /\ front[3] = b3 /\ front[4] = b4
       /\ back \in Seq(Int) /\ Len(back) = 2 /\ back[1] = c1 /\ back[2] = c2
  BY <1>9
<1> HIDE DEF front, back
<1>11. /\ fs \in Seq(Int) /\ Len(fs) = 4 * n + 4
       /\ \A i \in 1..(4 + 4 * n) : fs[i] = IF i <= 4 THEN front[i] ELSE s[i - 4]
  <2>1. /\ fs \in Seq(Int) /\ Len(fs) = Len(front) + Len(s)
        /\ \A i \in 1..(Len(front) + Len(s)) :
             fs[i] = IF i <= Len(front) THEN front[i] ELSE s[i - Len(front)]
    BY <1>6, <1>10, ConcatProperties
  <2> HIDE DEF fs
  <2> QED BY <1>1, <1>6, <1>10, <2>1
<1>12. Lies(s, fs, 4)
  BY <1>6, <1>10, LiesRight
<1> HIDE DEF fs
<1>13. /\ h \in Seq(Int) /\ Len(h) = 4 * n + 6
       /\ \A i \in 1..(4 * n + 6) : h[i] = IF i <= 4 * n + 4 THEN fs[i] ELSE back[i - (4 * n + 4)]
  <2>1. /\ h \in Seq(Int) /\ Len(h) = Len(fs) + Len(back)
        /\ \A i \in 1..(Len(fs) + Len(back)) :
             h[i] = IF i <= Len(fs) THEN fs[i] ELSE back[i - Len(fs)]
    <3>1. fs \in Seq(Int) /\ back \in Seq(Int)
      BY <1>10, <1>11
    <3> QED BY <1>8, <3>1, ConcatProperties
  <2>2. Len(fs) + Len(back) = 4 * n + 6
    BY <1>1, <1>10, <1>11
  <2> QED BY <1>11, <2>1, <2>2
<1>14. Lies(s, h, 4)
  <2>1. /\ s \in Seq(Int) /\ fs \in Seq(Int) /\ back \in Seq(Int) /\ 4 \in Nat
        /\ Lies(s, fs, 4)
    BY <1>6, <1>10, <1>11, <1>12
  <2> QED BY <1>8, <2>1, LiesLeft
<1>15. h[1] = b1 /\ h[2] = b2 /\ h[3] = b3 /\ h[4] = b4
  <2>1. \A i \in 1..4 : i \in 1..(4 * n + 6) /\ i <= 4 * n + 4 /\ i \in 1..(4 + 4 * n)
    BY <1>1
  <2>2. \A i \in 1..4 : h[i] = front[i]
    BY <1>11, <1>13, <2>1, SMTT(30)
  <2> QED BY <1>10, <2>2
<1>16. h[4 * n + 5] = c1 /\ h[4 * n + 6] = c2
  <2> DEFINE x == 4 * n + 5
             y == 4 * n + 6
  <2>1. /\ x \in 1..(4 * n + 6) /\ ~(x <= 4 * n + 4) /\ x - (4 * n + 4) = 1
        /\ y \in 1..(4 * n + 6) /\ ~(y <= 4 * n + 4) /\ y - (4 * n + 4) = 2
    BY <1>1
  <2> HIDE DEF x, y
  <2>2. h[x] = back[1] /\ h[y] = back[2]
    BY <1>13, <2>1
  <2> QED BY <1>10, <2>2 DEF x, y
<1> QED BY <1>7, <1>13, <1>14, <1>15, <1>16 DEF b1, b2, b3, b4, c1, c2, s, h, n, D, HeaderHas

\* The parts of a frame.
FrameOf(sync, header, mst) ==
  <<255>> \o sync \o header \o <<CrcByte, CrcByte>>
  \o mst \o <<CrcByte, CrcByte, 255, 255, 255, 255, 255, 255>>

LEMMA FrameParts ==
  ASSUME NEW sync \in Seq(Int), Len(sync) = 3, NEW h \in Seq(Int), NEW m \in Seq(Int)
  PROVE  /\ FrameOf(sync, h, m) \in Seq(Int)
         /\ Len(FrameOf(sync, h, m)) = Len(h) + Len(m) + 14
         /\ Lies(sync, FrameOf(sync, h, m), 1) /\ Lies(h, FrameOf(sync, h, m), 4)
         /\ Lies(m, FrameOf(sync, h, m), Len(h) + 6)
<1> DEFINE a == <<255>>
           c == <<CrcByte, CrcByte>>
           e == <<CrcByte, CrcByte, 255, 255, 255, 255, 255, 255>>
           f1 == a \o sync
           f2 == f1 \o h
           f3 == f2 \o c
           f4 == f3 \o m
           f5 == f4 \o e
<1>1. /\ a \in Seq(Int) /\ Len(a) = 1 /\ c \in Seq(Int) /\ Len(c) = 2
      /\ e \in Seq(Int) /\ Len(e) = 8
  BY DEF CrcByte
<1>2. Len(h) \in Nat /\ Len(m) \in Nat
  BY LenProperties
<1> HIDE DEF a, c, e
<1>3. f1 \in Seq(Int) /\ Len(f1) = 4 /\ Lies(sync, f1, 1)
  <2>1. f1 \in Seq(Int) /\ Len(f1) = Len(a) + Len(sync) /\ Lies(sync, f1, Len(a))
    BY <1>1, LenJoined, LiesRight
  <2> HIDE DEF f1
  <2> QED BY <1>1, <2>1
<1> HIDE DEF f1
<1>4. f2 \in Seq(Int) /\ Len(f2) = 4 + Len(h) /\ Lies(h, f2, 4) /\ Lies(sync, f2, 1)
  <2>1. f2 \in Seq(Int) /\ Len(f2) = 4 + Len(h)
    <3>1. f2 \in Seq(Int) /\ Len(f2) = Len(f1) + Len(h)
      BY <1>3, LenJoined
    <3> HIDE DEF f2
    <3> QED BY <1>3, <3>1
  <2>2. Lies(h, f2, 4)
    BY <1>3, LiesRight
  <2>3. Lies(sync, f2, 1)
    BY <1>3, LiesLeft
  <2> QED BY <2>1, <2>2, <2>3
<1> HIDE DEF f2
<1>5. f3 \in Seq(Int) /\ Len(f3) = Len(h) + 6 /\ Lies(h, f3, 4) /\ Lies(sync, f3, 1)
  <2>1. f3 \in Seq(Int) /\ Len(f3) = Len(f2) + Len(c)
    BY <1>1, <1>4, LenJoined
  <2>2. Lies(h, f3, 4)
    BY <1>1, <1>4, LiesLeft
  <2>3. Lies(sync, f3, 1)
    BY <1>1, <1>4, LiesLeft
  <2>4. Len(f3) = Len(h) + 6
    BY <1>1, <1>2, <1>4, <2>1
  <2> QED BY <2>1, <2>2, <2>3, <2>4
<1> HIDE DEF f3
<1>6. /\ f4 \in Seq(Int) /\ Len(f4) = Len(h) + 6 + Len(m)
      /\ Lies(m, f4, Len(h) + 6) /\ Lies(h, f4, 4) /\ Lies(sync, f4, 1)
  <2>1. f4 \in Seq(Int) /\ Len(f4) = Len(h) + 6 + Len(m)
    <3>1. f4 \in Seq(Int) /\ Len(f4) = Len(f3) + Len(m)
      BY <1>5, LenJoined
    <3> HIDE DEF f4
    <3> QED BY <1>5, <3>1
  <2>2. Lies(m, f4, Len(h) + 6)
    BY <1>5, LiesRight
  <2>3. Lies(h, f4, 4)
    BY <1>5, LiesLeft
  <2>4. Lies(sync, f4, 1)
    BY <1>5, LiesLeft
  <2> QED BY <2>1, <2>2, <2>3, <2>4
<1> HIDE DEF f4
<1>7. f5 \in Seq(Int) /\ Len(f5) = Len(h) + Len(m) + 14
  <2>1. f5 \in Seq(Int) /\ Len(f5) = Len(f4) + Len(e)
    BY <1>1, <1>6, LenJoined
  <2>2. Len(f5) = Len(h) + Len(m) + 14
    BY <1>1, <1>2, <1>6, <2>1
  <2> QED BY <2>1, <2>2
<1>8. Lies(sync, f5, 1)
  BY <1>1, <1>6, LiesLeft
<1>9. Lies(h, f5, 4)
  BY <1>1, <1>6, LiesLeft
<1>10. Lies(m, f5, Len(h) + 6)
  <2>1. Len(h) + 6 \in Nat
    BY <1>2
  <2> QED BY <1>1, <1>6, <2>1, LiesLeft
<1>11. FrameOf(sync, h, m) = f5
  BY DEF FrameOf, f5, f4, f3, f2, f1, a, c, e
<1> HIDE DEF f5
<1> QED BY <1>7, <1>8, <1>9, <1>10, <1>11

\* The numbers in the header bytes.
LEMMA Fields ==
  ASSUME NEW n \in Nat, n <= 64, NEW ficf \in Nat, ficf < 2
  PROVE  (ficf * 128 + n) % 128 = n /\ (ficf * 128 + n) \div 128 = ficf
OBVIOUS

ModeByte(fp, mid, F) == fp * 32 + mid * 8 + ((F \div 256) % 8)

LEMMA Mode ==
  ASSUME NEW fp \in Nat, NEW mid \in Nat, mid < 4, NEW F \in Nat
  PROVE  /\ (ModeByte(fp, mid, F) \div 8) % 4 = mid
         /\ ModeByte(fp, mid, F) \div 32 = fp
         /\ F < 2048 => (256 * ModeByte(fp, mid, F) + Low(F)) % 2048 = F
<1> DEFINE x == (F \div 256) % 8
           b == ModeByte(fp, mid, F)
<1>0. b = fp * 32 + mid * 8 + x
  BY DEF ModeByte
<1>1. x \in Nat /\ x < 8
  OBVIOUS
<1>2. ASSUME F < 2048 PROVE F = 256 * x + Low(F) /\ Low(F) \in Nat /\ Low(F) < 256
  BY <1>2 DEF Low
<1> HIDE DEF x, b
<1>3. (b \div 8) % 4 = mid /\ b \div 32 = fp
  BY <1>0, <1>1
<1>4. ASSUME F < 2048 PROVE (256 * b + Low(F)) % 2048 = F
  <2> DEFINE l == Low(F)
  <2>1. F = 256 * x + l /\ l \in Nat /\ l < 256
    BY <1>2, <1>4
  <2> HIDE DEF l
  <2>2. (256 * b + l) % 2048 = F
    BY <1>0, <1>1, <1>4, <2>1
  <2> QED BY <2>2 DEF l
<1> QED BY <1>3, <1>4 DEF b

LEMMA TenBits ==
  ASSUME NEW a \in Nat, NEW b \in Nat, b < 1024
  PROVE  /\ (a * 4 + High(b)) \div 4 = a
         /\ (256 * (a * 4 + High(b)) + Low(b)) % 1024 = b
<1> DEFINE x == High(b)
           y == Low(b)
<1>1. x \in Nat /\ x < 4 /\ y \in Nat /\ y < 256 /\ b = 256 * x + y
  BY DEF High, Low
<1> HIDE DEF x, y
<1>2. (a * 4 + x) \div 4 = a /\ (256 * (a * 4 + x) + y) % 1024 = b
  BY <1>1
<1> QED BY <1>2 DEF x, y

\* The frame of a packet reads back.
LEMMA ReadBack ==
  ASSUME NEW d \in Detis, NEW es \in Seq(Ests), Distinct(es),
         source = [deti |-> d, ests |-> es],
         frame = generate_eti(DataOf(d, es)),
         crcs = <<HeaderData(DataOf(d, es)), MstData(DataOf(d, es))>>
  PROVE  FrameReadsBack
<1> DEFINE D == DataOf(d, es)
           n == Len(es)
           h == HeaderData(D)
           m == MstData(D)
           s == STC(D)
           w == 4 * FicWords(d)
           B == StreamBytes(es)
           sync == FSync(d.fcth * 250 + d.fctl)
<1>1. n \in Nat /\ n <= 64 /\ \A i \in 1..n : es[i] \in Ests
  BY NoMoreThan64, ElementOfSeq
<1>2. B \in [0..n -> Nat] /\ B[0] = 0 /\ \A i \in 1..n : B[i] = B[i - 1] + 8 * es[i].stl
  BY StreamBytesIs
<1>3. w \in Nat /\ FicTaken(d) \in Seq(Int) /\ Len(FicTaken(d)) = w
      /\ (~d.rfudf => FicTaken(d) = FicData(d))
  BY FicIs
<1>4. /\ h \in Seq(Int) /\ Len(h) = 4 * n + 6 /\ Lies(s, h, 4)
      /\ h[1] = Low(d.fcth * 250 + d.fctl) /\ h[2] = d.ficf * 128 + n
      /\ h[3] = d.fp * 32 + d.mid * 8 + ((FL(D) \div 256) % 8)
      /\ h[4] = Low(FL(D))
      /\ h[4 * n + 5] = Low(d.mnsc) /\ h[4 * n + 6] = d.mnsc \div 256
      /\ FL(D) \in Nat /\ 4 * FL(D) = 4 * n + 4 + w + B[n]
  <2>1. Len(es) <= 64
    BY <1>1
  <2>2. HeaderHas(d, es)
    BY <2>1, HeaderIs
  <2> QED BY <2>2 DEF HeaderHas
<1>5. /\ m \in Seq(Int) /\ Len(m) = w + B[n] /\ Lies(FicTaken(d), m, 0)
      /\ \A i \in 1..n : Lies(EstData(es[i]), m, w + B[i - 1])
  BY MstIs
<1>6. /\ s \in Seq(Int) /\ Len(s) = 4 * n
      /\ \A i \in 1..n : /\ s[4 * (i - 1) + 1] = es[i].scid * 4 + High(es[i].sad)
                         /\ s[4 * (i - 1) + 2] = Low(es[i].sad)
                         /\ s[4 * (i - 1) + 3] = es[i].tpl * 4 + High(es[i].stl)
                         /\ s[4 * (i - 1) + 4] = Low(es[i].stl)
  BY STCIs
<1>7. /\ sync \in Seq(Int) /\ Len(sync) = 3
      /\ (sync[1] = \hf8) = ((d.fcth * 250 + d.fctl) % 2 = 1)
  BY DEF FSync
<1>8. /\ frame \in Seq(Int) /\ Len(frame) = Len(h) + Len(m) + 14
      /\ Lies(sync, frame, 1) /\ Lies(h, frame, 4) /\ Lies(m, frame, Len(h) + 6)
  <2>1. D.fc.FCT = d.fcth * 250 + d.fctl
    BY DEF DataOf, FcOf
  <2>2. frame = <<255>> \o sync \o h \o <<CrcByte, CrcByte>>
                \o m \o <<CrcByte, CrcByte, 255, 255, 255, 255, 255, 255>>
    BY <2>1 DEF generate_eti
  <2> HIDE DEF sync, h, m
  <2>3. sync \in Seq(Int) /\ Len(sync) = 3 /\ h \in Seq(Int) /\ m \in Seq(Int)
    BY <1>4, <1>5, <1>7
  <2> DEFINE f == FrameOf(sync, h, m)
  <2>4. /\ f \in Seq(Int) /\ Len(f) = Len(h) + Len(m) + 14
        /\ Lies(sync, f, 1) /\ Lies(h, f, 4) /\ Lies(m, f, Len(h) + 6)
    BY <2>3, FrameParts
  <2>5. frame = f
    BY <2>2 DEF FrameOf
  <2> HIDE DEF f
  <2> QED BY <2>4, <2>5
<1>9. /\ d.fcth \in Nat /\ d.fctl \in Nat /\ d.ficf \in Nat /\ d.mid \in Nat
      /\ d.fp \in Nat /\ d.mnsc \in Nat
      /\ d.fctl < 256 /\ d.ficf < 2 /\ d.mid < 4
  BY DetiIs
<1>10. source.deti = d /\ source.ests = es
  OBVIOUS
<1>11. B[n] \in Nat /\ \A i \in 1..n : B[i - 1] \in Nat /\ B[i] \in Nat
  <2> HIDE DEF B, n
  <2>1. n \in 0..n /\ \A i \in 1..n : i \in 0..n /\ i - 1 \in 0..n
    BY <1>1
  <2> QED BY <1>2, <2>1
<1>12. w = IF d.ficf = 0 THEN 0 ELSE IF d.mid = 3 THEN 128 ELSE 96
  BY DEF FicWords
<1>13. crcs = <<h, m>>
  OBVIOUS
<1> DEFINE F == FL(D)
<1> HIDE DEF D, n, h, m, s, w, B, sync, F
<1>20. \A j \in 1..(4 * n + 6) : frame[4 + j] = h[j]
  BY <1>4, <1>8 DEF Lies
<1>21. /\ frame[5] = h[1] /\ frame[6] = h[2] /\ frame[7] = h[3] /\ frame[8] = h[4]
       /\ frame[4 * n + 9] = h[4 * n + 5] /\ frame[4 * n + 10] = h[4 * n + 6]
  <2> DEFINE x == 4 * n + 5
             y == 4 * n + 6
  <2>1. /\ \A j \in 1..4 : j \in 1..(4 * n + 6)
        /\ x \in 1..(4 * n + 6) /\ y \in 1..(4 * n + 6)
        /\ 4 + x = 4 * n + 9 /\ 4 + y = 4 * n + 10
    BY <1>1
  <2> HIDE DEF x, y
  <2>2. frame[4 + x] = h[x] /\ frame[4 + y] = h[y]
    BY <1>20, <2>1
  <2>3. \A j \in 1..4 : frame[4 + j] = h[j]
    BY <1>20, <2>1
  <2>4. frame[4 + 1] = h[1] /\ frame[4 + 2] = h[2] /\ frame[4 + 3] = h[3] /\ frame[4 + 4] = h[4]
    BY <2>3
  <2>5. frame[5] = h[1] /\ frame[6] = h[2] /\ frame[7] = h[3] /\ frame[8] = h[4]
    BY <2>4
  <2> QED BY <2>1, <2>2, <2>5 DEF x, y
<1>22. NST = n /\ ReadFicf = d.ficf
  <2>1. frame[6] = d.ficf * 128 + n
    BY <1>4, <1>21
  <2>2. d.ficf \in Nat /\ d.ficf < 2 /\ n \in Nat /\ n <= 64
    BY <1>1, <1>9
  <2> DEFINE x == d.ficf
             y == frame[6]
  <2>3. y = x * 128 + n /\ x \in Nat /\ x < 2 /\ n \in Nat /\ n <= 64
    BY <2>1, <2>2
  <2> HIDE DEF x, y
  <2>4. y % 128 = n /\ y \div 128 = x
    BY <2>3, Fields
  <2> QED BY <2>4 DEF x, y, NST, ReadFicf
<1>23. /\ ReadMid = d.mid /\ frame[7] \div 32 = d.fp
       /\ F < 2048 => ReadFL = F
  <2>1. frame[7] = d.fp * 32 + d.mid * 8 + ((F \div 256) % 8) /\ frame[8] = Low(F) /\ F \in Nat
    BY <1>4, <1>21 DEF F
  <2> DEFINE b == ModeByte(d.fp, d.mid, F)
  <2>2. d.fp \in Nat /\ d.mid \in Nat /\ d.mid < 4 /\ F \in Nat
    BY <1>9, <2>1
  <2>3. /\ (b \div 8) % 4 = d.mid /\ b \div 32 = d.fp
        /\ F < 2048 => (256 * b + Low(F)) % 2048 = F
    BY <2>2, Mode
  <2>4. frame[7] = b /\ frame[7 + 1] = Low(F)
    BY <2>1 DEF ModeByte
  <2> HIDE DEF b
  <2> QED BY <2>3, <2>4 DEF ReadMid, ReadFL, Word
<1>24. ReadFicBytes = w /\ MstStart = 4 * n + 12 /\ MstStart = Len(h) + 6
  BY <1>1, <1>4, <1>12, <1>22, <1>23 DEF ReadFicBytes, MstStart
<1>25. Lies(s, frame, 8)
  <2>1. Lies(s, frame, 4 + 4)
    <3>1. /\ s \in Seq(Int) /\ h \in Seq(Int) /\ frame \in Seq(Int) /\ 4 \in Nat
          /\ Lies(s, h, 4) /\ Lies(h, frame, 4)
      BY <1>4, <1>6, <1>8
    <3> QED BY <3>1, LiesIn
  <2> QED BY <2>1
<1>26. ASSUME NEW i \in 1..n PROVE ReadStc(i) = es[i]
  <2> DEFINE at == 9 + 4 * (i - 1)
             k == 4 * (i - 1)
             e == es[i]
  <2>1. /\ k + 1 \in 1..(4 * n) /\ k + 2 \in 1..(4 * n) /\ k + 3 \in 1..(4 * n)
        /\ k + 4 \in 1..(4 * n)
        /\ 8 + (k + 1) = at /\ 8 + (k + 2) = at + 1 /\ 8 + (k + 3) = at + 2
        /\ 8 + (k + 4) = (at + 2) + 1
    BY <1>1
  <2>2. /\ s[k + 1] = e.scid * 4 + High(e.sad) /\ s[k + 2] = Low(e.sad)
        /\ s[k + 3] = e.tpl * 4 + High(e.stl) /\ s[k + 4] = Low(e.stl)
    BY <1>6
  <2>3. /\ e.scid \in Nat /\ e.sad \in Nat /\ e.tpl \in Nat /\ e.stl \in Nat
        /\ e.sad < 1024 /\ e.stl < 1024
        /\ e = [scid |-> e.scid, sad |-> e.sad, tpl |-> e.tpl, stl |-> e.stl]
    BY <1>1, EstIs
  <2>4. ReadStc(i) = [scid |-> frame[at] \div 4, sad |-> Word(frame, at) % 1024,
                      tpl |-> frame[at + 2] \div 4, stl |-> Word(frame, at + 2) % 1024]
    BY DEF ReadStc
  <2> HIDE DEF at, k, e
  <2>5. \A j \in 1..(4 * n) : frame[8 + j] = s[j]
    BY <1>6, <1>25 DEF Lies
  <2>6. /\ frame[at] = e.scid * 4 + High(e.sad) /\ frame[at + 1] = Low(e.sad)
        /\ frame[at + 2] = e.tpl * 4 + High(e.stl) /\ frame[(at + 2) + 1] = Low(e.stl)
    BY <2>1, <2>2, <2>5
  <2>7. /\ frame[at] \div 4 = e.scid /\ Word(frame, at) % 1024 = e.sad
        /\ frame[at + 2] \div 4 = e.tpl /\ Word(frame, at + 2) % 1024 = e.stl
    BY <2>3, <2>6, TenBits DEF Word
  <2> QED BY <2>3, <2>4, <2>7 DEF e
<1>27. [i \in 1..NST |-> ReadStc(i)] = es
  <2>1. es = [i \in 1..n |-> es[i]]
    BY DEF n
  <2> QED BY <1>22, <1>26, <2>1
<1>28. \A i \in 1..(n + 1) : SubchStart(i) = (4 * n + 12) + (w + B[i - 1])
  <2>1. Sums([j \in 1..NST |-> 8 * ReadStc(j).stl]) = B
    <3>1. [j \in 1..NST |-> 8 * ReadStc(j).stl] = [j \in 1..n |-> 8 * es[j].stl]
      BY <1>22, <1>26
    <3> QED BY <3>1 DEF B, n, StreamBytes
  <2>2. ASSUME NEW i \in 1..(n + 1) PROVE SubchStart(i) = (4 * n + 12) + (w + B[i - 1])
    <3>1. B[i - 1] \in Nat
      BY <1>1, <1>2
    <3>2. SubchStart(i) = MstStart + ReadFicBytes + B[i - 1]
      BY <2>1 DEF SubchStart
    <3> DEFINE u == B[i - 1]
               z == SubchStart(i)
    <3>3. u \in Nat /\ z = (4 * n + 12) + w + u
      BY <1>24, <3>1, <3>2
    <3> HIDE DEF u, z
    <3>4. z = (4 * n + 12) + (w + u)
      BY <1>1, <1>3, <3>3
    <3> QED BY <3>4 DEF u, z
  <2> QED BY <2>2
<1>29. SubchStart(NST + 1) = (4 * n + 12) + (w + B[n])
  <2>1. n + 1 \in 1..(n + 1) /\ (n + 1) - 1 = n
    BY <1>1
  <2> QED BY <1>22, <1>28, <2>1
<1> DEFINE M == 4 * n + 12
<1>30. M \in Nat /\ Lies(m, frame, M)
  <2>1. M = Len(h) + 6 /\ M \in Nat
    BY <1>1, <1>24
  <2> QED BY <1>8, <2>1
<1> HIDE DEF M
<1>31. ASSUME NEW i \in 1..n
       PROVE  SubSeq(frame, SubchStart(i) + 1, SubchStart(i + 1)) = EstData(es[i])
  <2> DEFINE t == EstData(es[i])
             b == w + B[i - 1]
  <2>1. Lies(t, m, b) /\ b \in Nat
    BY <1>3, <1>5, <1>11
  <2>2. t \in Seq(Int) /\ Len(t) = 8 * es[i].stl /\ es[i].stl \in Nat
    BY <1>1, EstDataIs
  <2>3. SubchStart(i) = M + b
    <3>1. i \in 1..(n + 1)
      BY <1>1
    <3> QED BY <1>28, <3>1 DEF M
  <2>4. SubchStart(i + 1) = M + b + Len(t)
    <3>1. i + 1 \in 1..(n + 1) /\ (i + 1) - 1 = i
      BY <1>1
    <3>2. SubchStart(i + 1) = M + (w + B[i])
      BY <1>28, <3>1 DEF M
    <3>3. B[i] = B[i - 1] + 8 * es[i].stl /\ B[i - 1] \in Nat
      BY <1>2, <1>11
    <3> DEFINE u == B[i - 1]
               v == es[i].stl
               l == Len(t)
               z == SubchStart(i + 1)
    <3>4. u \in Nat /\ v \in Nat /\ l = 8 * v /\ z = M + (w + (u + 8 * v)) /\ b = w + u
      BY <2>2, <3>2, <3>3
    <3> HIDE DEF u, v, l, z, b
    <3>5. z = M + b + l
      BY <1>3, <1>30, <3>4
    <3> QED BY <3>5 DEF z, l
  <2> HIDE DEF t, b
  <2>5. Lies(t, frame, M + b)
    BY <1>5, <1>8, <1>30, <2>1, <2>2, LiesIn
  <2> DEFINE c == M + b
  <2>6. c \in Nat /\ Lies(t, frame, c) /\ SubchStart(i) = c /\ SubchStart(i + 1) = c + Len(t)
    BY <1>30, <2>1, <2>3, <2>4, <2>5
  <2> HIDE DEF c
  <2>7. SubSeq(frame, c + 1, c + Len(t)) = t
    BY <1>8, <2>2, <2>6, LiesCut
  <2> QED BY <2>6, <2>7 DEF t
<1>32. ASSUME ~d.rfudf PROVE SubSeq(frame, MstStart + 1, SubchStart(1)) = FicData(d)
  <2> DEFINE t == FicTaken(d)
  <2>1. t \in Seq(Int) /\ Len(t) = w /\ t = FicData(d) /\ Lies(t, m, 0)
    BY <1>3, <1>5, <1>32
  <2> HIDE DEF t
  <2>2. Lies(t, frame, M + 0)
    BY <1>5, <1>8, <1>30, <2>1, LiesIn
  <2>3. Lies(t, frame, M)
    BY <1>30, <2>2
  <2>4. SubSeq(frame, M + 1, M + Len(t)) = t
    BY <1>8, <1>30, <2>1, <2>3, LiesCut
  <2>5. SubchStart(1) = M + Len(t)
    <3>1. 1 \in 1..(n + 1) /\ 1 - 1 = 0
      BY <1>1
    <3>2. SubchStart(1) = M + (w + B[1 - 1])
      BY <1>28, <3>1 DEF M
    <3>3. B[1 - 1] = 0
      BY <1>2, <3>1
    <3> QED BY <1>3, <2>1, <3>2, <3>3
  <2>6. MstStart = M
    BY <1>24 DEF M
  <2> QED BY <2>1, <2>4, <2>5, <2>6
<1>33. d.fcth = 0 => frame[5] = d.fctl
  <2> SUFFICES ASSUME d.fcth = 0 PROVE frame[5] = d.fctl
    OBVIOUS
  <2>1. frame[5] = Low(d.fcth * 250 + d.fctl)
    BY <1>4, <1>21
  <2>2. d.fcth * 250 + d.fctl = d.fctl
    BY <1>9
  <2>3. Low(d.fctl) = d.fctl
    <3> DEFINE x == d.fctl
    <3>1. x \in Nat /\ x < 256
      BY <1>9
    <3> HIDE DEF x
    <3>2. Low(x) = x
      BY <3>1 DEF Low
    <3> QED BY <3>2 DEF x
  <2> QED BY <2>1, <2>2, <2>3
<1>34. (frame[2] = \hf8) = ((d.fcth * 250 + d.fctl) % 2 = 1)
  <2>1. 1 \in 1..Len(sync)
    BY <1>7
  <2>2. frame[1 + 1] = sync[1]
    BY <1>8, <2>1 DEF Lies
  <2>3. frame[2] = sync[1]
    BY <2>2
  <2> QED BY <1>7, <2>3
<1>35. frame[MstStart - 3] + 256 * frame[MstStart - 2] = d.mnsc
  <2>1. MstStart - 3 = 4 * n + 9 /\ MstStart - 2 = 4 * n + 10
    BY <1>1, <1>24
  <2>2. frame[MstStart - 3] = Low(d.mnsc) /\ frame[MstStart - 2] = d.mnsc \div 256
    BY <1>4, <1>21, <2>1
  <2>3. Low(d.mnsc) + 256 * (d.mnsc \div 256) = d.mnsc
    BY <1>9 DEF Low
  <2> QED BY <2>2, <2>3
<1>36. Len(frame) = SubchStart(NST + 1) + 8
  <2>1. Len(frame) = (4 * n + 6) + (w + B[n]) + 14
    BY <1>4, <1>5, <1>8
  <2> QED BY <1>1, <1>3, <1>11, <1>29, <2>1
<1>37. Len(frame) <= 6144 => 4 * ReadFL = SubchStart(NST + 1) - 8
  <2>1. F \in Nat /\ 4 * F = 4 * n + 4 + w + B[n]
    BY <1>4 DEF F
  <2>2. SubchStart(NST + 1) - 8 = 4 * F
    BY <1>1, <1>3, <1>11, <1>29, <2>1
  <2>3. Len(frame) <= 6144 => F < 2048
    BY <1>1, <1>3, <1>11, <1>29, <1>36, <2>1
  <2> QED BY <1>23, <2>2, <2>3
<1>38. crcs = <<SubSeq(frame, 5, MstStart - 2),
                SubSeq(frame, MstStart + 1, SubchStart(NST + 1))>>
  <2>1. SubSeq(frame, 4 + 1, 4 + Len(h)) = h
    <3>1. h \in Seq(Int) /\ frame \in Seq(Int) /\ Lies(h, frame, 4) /\ 4 \in Nat
      BY <1>4, <1>8
    <3> QED BY <3>1, LiesCut
  <2>2. 4 + Len(h) = MstStart - 2
    BY <1>1, <1>4, <1>24
  <2>3. SubSeq(frame, 5, MstStart - 2) = h
    BY <2>1, <2>2
  <2>4. SubSeq(frame, M + 1, M + Len(m)) = m
    BY <1>5, <1>8, <1>30, LiesCut
  <2>5. M = MstStart /\ M + Len(m) = SubchStart(NST + 1)
    BY <1>5, <1>24, <1>29 DEF M
  <2> QED BY <1>13, <2>3, <2>4, <2>5
<1> QED
  <2>1. [i \in 1..NST |-> ReadStc(i)] = source.ests
    BY <1>10, <1>27
  <2>2. \A i \in 1..NST :
          SubSeq(frame, SubchStart(i) + 1, SubchStart(i + 1)) = EstData(source.ests[i])
    BY <1>10, <1>22, <1>31
  <2> QED BY <1>10, <1>23, <1>32, <1>33, <1>34, <1>35, <1>36, <1>37, <1>38, <2>1, <2>2
       DEF FrameReadsBack

\* EtiData has just what the items of the packet say, and the last frame is made
\* of the items of its packet.
Collected ==
  /\ \/ deti = None
     \/ deti \in Detis /\ fc = FcOf(deti) /\ mnsc = deti.mnsc /\ fic = FicTaken(deti)
  /\ ests \in Seq(Ests) /\ Distinct(ests)
  /\ stc = [i \in 1..Len(ests) |-> Subchannel(ests[i])]

Written ==
  frame # << >> =>
    \E d \in Detis, es \in Seq(Ests) :
      /\ Distinct(es) /\ source = [deti |-> d, ests |-> es]
      /\ frame = generate_eti(DataOf(d, es))
      /\ crcs = <<HeaderData(DataOf(d, es)), MstData(DataOf(d, es))>>

EtiNiInv == Collected /\ Written

LEMMA EtiNiInductive == EtiNiSpec => []EtiNiInv
<1>1. EtiNiInit => EtiNiInv
  <2>1. << >> \in Seq(Ests) /\ Len(<< >>) = 0
    BY EmptySeq
  <2>2. [i \in 1..0 |-> Subchannel(<< >>[i])] = << >>
    OBVIOUS
  <2> QED BY <2>1, <2>2 DEF EtiNiInit, EtiNiInv, Collected, Written, Distinct
<1>2. EtiNiInv /\ [EtiNiNext]_etiniVars => EtiNiInv'
  <2> SUFFICES ASSUME EtiNiInv, [EtiNiNext]_etiniVars PROVE EtiNiInv'
    OBVIOUS
  <2>1. ASSUME NEW d \in Detis, deti = None /\ decode_deti(d) PROVE EtiNiInv'
    <3>1. Collected'
      BY <2>1 DEF EtiNiInv, Collected, decode_deti, Distinct
    <3>2. Written'
      BY <2>1 DEF EtiNiInv, Written, decode_deti
    <3> QED BY <3>1, <3>2 DEF EtiNiInv
  <2>2. ASSUME NEW est \in Ests, decode_estn(est) PROVE EtiNiInv'
    <3> DEFINE n == Len(ests)
    <3>1. ests \in Seq(Ests) /\ Distinct(ests) /\ stc = [i \in 1..n |-> Subchannel(ests[i])]
      BY DEF EtiNiInv, Collected
    <3>2. n \in Nat /\ \A i \in 1..n : ests[i] \in Ests /\ ests[i].scid # est.scid
      BY <2>2, <3>1, LenProperties, ElementOfSeq DEF decode_estn
    <3>3. /\ ests' \in Seq(Ests) /\ Len(ests') = n + 1 /\ ests'[n + 1] = est
          /\ \A i \in 1..n : ests'[i] = ests[i]
      BY <2>2, <3>1, AppendProperties DEF decode_estn
    <3>4. Distinct(ests')
      <4> SUFFICES ASSUME NEW i \in 1..(n + 1), NEW j \in 1..(n + 1), i # j
                   PROVE  ests'[i].scid # ests'[j].scid
        BY <3>3 DEF Distinct
      <4>1. (i \in 1..n \/ i = n + 1) /\ (j \in 1..n \/ j = n + 1)
        BY <3>2
      <4> QED BY <3>1, <3>2, <3>3, <4>1 DEF Distinct
    <3>5. stc' = [i \in 1..(n + 1) |-> Subchannel(ests'[i])]
      <4> DEFINE f == [i \in 1..n |-> Subchannel(ests[i])]
                 g == [i \in 1..(n + 1) |-> Subchannel(ests'[i])]
      <4>1. stc' = Append(f, Subchannel(est))
        BY <2>2, <3>1 DEF decode_estn
      <4>2. \A i \in 1..(n + 1) : g[i] = IF i <= n THEN f[i] ELSE Subchannel(est)
        BY <3>2, <3>3
      <4> HIDE DEF n
      <4>3. Append(f, Subchannel(est)) = g
        <5>1. DOMAIN f = 1..n /\ Len(f) = n
          BY <3>2
        <5>2. Append(f, Subchannel(est)) =
                [i \in 1..(n + 1) |-> IF i <= n THEN f[i] ELSE Subchannel(est)]
          BY <3>2, <5>1
        <5> HIDE DEF f
        <5> QED BY <4>2, <5>2
      <4> QED BY <4>1, <4>3
    <3>6. Collected'
      BY <2>2, <3>3, <3>4, <3>5 DEF EtiNiInv, Collected, decode_estn
    <3>7. Written'
      BY <2>2 DEF EtiNiInv, Written, decode_estn
    <3> QED BY <3>6, <3>7 DEF EtiNiInv
  <2>3. CASE EndOfPacket
    <3>1. /\ deti \in Detis /\ ests \in Seq(Ests) /\ Distinct(ests)
          /\ EtiData = DataOf(deti, ests)
      BY <2>3 DEF EndOfPacket, EtiNiInv, Collected, EtiData, DataOf
    <3>2. /\ frame' = generate_eti(DataOf(deti, ests))
          /\ crcs' = <<HeaderData(DataOf(deti, ests)), MstData(DataOf(deti, ests))>>
          /\ source' = [deti |-> deti, ests |-> ests]
      BY <2>3, <3>1 DEF EndOfPacket
    <3>3. Written'
      BY <3>1, <3>2 DEF Written
    <3>4. deti' = None /\ ests' = << >> /\ stc' = << >>
      BY <2>3 DEF EndOfPacket, clear
    <3>5. Collected'
      <4>1. << >> \in Seq(Ests) /\ Len(<< >>) = 0
        BY EmptySeq
      <4>2. [i \in 1..0 |-> Subchannel(<< >>[i])] = << >>
        OBVIOUS
      <4> QED BY <3>4, <4>1, <4>2 DEF Collected, Distinct
    <3> QED BY <3>3, <3>5 DEF EtiNiInv
  <2>4. CASE UNCHANGED etiniVars
    BY <2>4 DEF etiniVars, EtiNiInv, Collected, Written, Distinct
  <2> QED BY <2>1, <2>2, <2>3, <2>4 DEF EtiNiNext
<1> QED BY <1>1, <1>2, PTL DEF EtiNiSpec

\* A reader finds in every frame just the items of its packet (EtiData lines
\* 97-196).
THEOREM FramesReadBack == EtiNiSpec => []FrameReadsBack
<1>1. EtiNiInv => FrameReadsBack
  <2> SUFFICES ASSUME EtiNiInv, frame # << >> PROVE FrameReadsBack
    BY DEF FrameReadsBack
  <2>1. PICK d \in Detis, es \in Seq(Ests) :
          /\ Distinct(es) /\ source = [deti |-> d, ests |-> es]
          /\ frame = generate_eti(DataOf(d, es))
          /\ crcs = <<HeaderData(DataOf(d, es)), MstData(DataOf(d, es))>>
    BY DEF EtiNiInv, Written
  <2> QED BY <2>1, ReadBack
<1> QED BY <1>1, EtiNiInductive, PTL

------------------------------------------------------------------------------
(* The CRCs of EDI and UECP packets *)

Xor(p, q) == ~(p <=> q)

\* What the table does to a byte x: it divides it by the polynomial, which
\* gives x and x shifted by four, and multiplies the quotient with it.  These
\* are the assignments of crc_ccitt.
Quotient(x) == SymDiff(x, RightBy(4, x))
Multiple(q) == SymDiff(q, SymDiff(LeftBy(5, q), LeftBy(12, q) \cap AllOnes))
Divided(r, d) ==
  SymDiff(LeftBy(8, r) \cap AllOnes,
          Multiple(Quotient(SymDiff(RightBy(8, r), Bits(d)))))

LEMMA InSymDiff ==
  ASSUME NEW v, NEW w, NEW k
  PROVE  k \in SymDiff(v, w) <=> Xor(k \in v, k \in w)
BY DEF SymDiff, Xor

LEMMA InShifted ==
  ASSUME NEW w \in SUBSET AllOnes, NEW n \in Nat, NEW k \in Int
  PROVE  /\ k \in LeftBy(n, w) <=> k - n \in w
         /\ k \in RightBy(n, w) <=> k \in AllOnes /\ k + n \in w
BY DEF LeftBy, RightBy, AllOnes

LEMMA Powers ==
  /\ 2^0 = 1 /\ 2^1 = 2 /\ 2^2 = 4 /\ 2^3 = 8 /\ 2^4 = 16 /\ 2^5 = 32
  /\ 2^6 = 64 /\ 2^7 = 128 /\ 2^8 = 256 /\ 2^9 = 512 /\ 2^10 = 1024
  /\ 2^11 = 2048 /\ 2^12 = 4096 /\ 2^13 = 8192 /\ 2^14 = 16384
  /\ 2^15 = 32768
OBVIOUS

LEMMA ByteBits ==
  ASSUME NEW d \in 0..255
  PROVE  Bits(d) \in SUBSET (0..7)
<1>1. /\ 8 \notin Bits(d) /\ 9 \notin Bits(d) /\ 10 \notin Bits(d)
      /\ 11 \notin Bits(d) /\ 12 \notin Bits(d) /\ 13 \notin Bits(d)
      /\ 14 \notin Bits(d) /\ 15 \notin Bits(d)
  BY Powers DEF Bits
<1>2. Bits(d) \subseteq 0..15
  BY DEF Bits, AllOnes
<1> QED BY <1>1, <1>2

Number(b) == b[0] + 2*b[1] + 4*b[2] + 8*b[3]
             + 16*b[4] + 32*b[5] + 64*b[6] + 128*b[7]

LEMMA DigitsAreBits ==
  ASSUME NEW b \in [0..7 -> 0..1]
  PROVE  /\ Number(b) \in 0..255
         /\ \A k \in 0..7 : k \in Bits(Number(b)) <=> b[k] = 1
<1>1. /\ b[0] \in 0..1 /\ b[1] \in 0..1 /\ b[2] \in 0..1 /\ b[3] \in 0..1
      /\ b[4] \in 0..1 /\ b[5] \in 0..1 /\ b[6] \in 0..1 /\ b[7] \in 0..1
  OBVIOUS
<1>2. /\ Number(b) \in 0..255
      /\ 0 \in Bits(Number(b)) <=> b[0] = 1
      /\ 1 \in Bits(Number(b)) <=> b[1] = 1
      /\ 2 \in Bits(Number(b)) <=> b[2] = 1
      /\ 3 \in Bits(Number(b)) <=> b[3] = 1
      /\ 4 \in Bits(Number(b)) <=> b[4] = 1
      /\ 5 \in Bits(Number(b)) <=> b[5] = 1
      /\ 6 \in Bits(Number(b)) <=> b[6] = 1
      /\ 7 \in Bits(Number(b)) <=> b[7] = 1
  BY <1>1, Powers DEF Number, Bits, AllOnes
<1>3. \A k \in 0..7 : k = 0 \/ k = 1 \/ k = 2 \/ k = 3
                      \/ k = 4 \/ k = 5 \/ k = 6 \/ k = 7
  OBVIOUS
<1> QED BY <1>2, <1>3

\* A set of bits of a byte is that of a byte.
LEMMA ByteOfBits ==
  ASSUME NEW w \in SUBSET (0..7)
  PROVE  \E d \in 0..255 : Bits(d) = w
<1> DEFINE b == [k \in 0..7 |-> IF k \in w THEN 1 ELSE 0]
           d == Number(b)
<1>1. b \in [0..7 -> 0..1] /\ \A k \in 0..7 : b[k] = 1 <=> k \in w
  OBVIOUS
<1> HIDE DEF b
<1>2. d \in 0..255 /\ \A k \in 0..7 : k \in Bits(d) <=> b[k] = 1
  BY <1>1, DigitsAreBits
<1> HIDE DEF d
<1>3. Bits(d) \in SUBSET (0..7)
  BY <1>2, ByteBits
<1>4. Bits(d) = w
  BY <1>1, <1>2, <1>3
<1> QED BY <1>2, <1>4

\* The bits of w are those of the multiple of the quotient of x.
LowBits(w, x) ==
  /\ 0 \in w <=> Xor(0 \in x, 4 \in x)
  /\ 1 \in w <=> Xor(1 \in x, 5 \in x)
  /\ 2 \in w <=> Xor(2 \in x, 6 \in x)
  /\ 3 \in w <=> Xor(3 \in x, 7 \in x)
  /\ 4 \in w <=> 4 \in x
  /\ 5 \in w <=> Xor(5 \in x, Xor(0 \in x, 4 \in x))
  /\ 6 \in w <=> Xor(6 \in x, Xor(1 \in x, 5 \in x))
  /\ 7 \in w <=> Xor(7 \in x, Xor(2 \in x, 6 \in x))

HighBits(w, x) ==
  /\ 8 \in w <=> Xor(3 \in x, 7 \in x)
  /\ 9 \in w <=> 4 \in x
  /\ 10 \in w <=> 5 \in x
  /\ 11 \in w <=> 6 \in x
  /\ 12 \in w <=> Xor(0 \in x, Xor(4 \in x, 7 \in x))
  /\ 13 \in w <=> Xor(1 \in x, 5 \in x)
  /\ 14 \in w <=> Xor(2 \in x, 6 \in x)
  /\ 15 \in w <=> Xor(3 \in x, 7 \in x)

\* The table of edi/crc.py and uecpparse/crc.py, bit by bit.
LEMMA TableBits ==
  ASSUME NEW d \in 0..255
  PROVE  /\ LowBits(Bits(crc16tab[d + 1]), Bits(d))
         /\ HighBits(Bits(crc16tab[d + 1]), Bits(d))
<1>1. LowBits(Bits(crc16tab[d + 1]), Bits(d))
  BY Powers, SMTT(30) DEF LowBits, Bits, AllOnes, Xor, crc16tab
<1>2. HighBits(Bits(crc16tab[d + 1]), Bits(d))
  BY Powers, SMTT(30) DEF HighBits, Bits, AllOnes, Xor, crc16tab
<1> QED BY <1>1, <1>2

LEMMA InQuotient ==
  ASSUME NEW x \in SUBSET (0..7)
  PROVE  /\ Quotient(x) \in SUBSET (0..7)
         /\ \A k \in Int :
              k \in Quotient(x) <=> k \in 0..7 /\ Xor(k \in x, k + 4 \in x)
<1>1. x \in SUBSET AllOnes
  BY DEF AllOnes
<1>2. \A k \in Int : k \in RightBy(4, x) <=> k \in 0..3 /\ k + 4 \in x
  BY <1>1, InShifted DEF AllOnes
<1>3. \A k \in Int : k \in x /\ k + 4 \in x => k \in 0..3
  OBVIOUS
<1>4. RightBy(4, x) \subseteq AllOnes
  BY DEF RightBy
<1>5. Quotient(x) \subseteq AllOnes
  BY <1>1, <1>4 DEF Quotient, SymDiff
<1>6. ASSUME NEW k \in Int
      PROVE  k \in Quotient(x) <=> k \in 0..7 /\ Xor(k \in x, k + 4 \in x)
  <2>1. k \in Quotient(x) <=> Xor(k \in x, k \in RightBy(4, x))
    BY InSymDiff DEF Quotient
  <2> QED BY <1>2, <1>3, <2>1 DEF Xor
<1> QED BY <1>5, <1>6 DEF AllOnes

LEMMA InMultiple ==
  ASSUME NEW q \in SUBSET (0..7)
  PROVE  /\ Multiple(q) \in SUBSET AllOnes
         /\ \A k \in AllOnes :
              k \in Multiple(q) <=> Xor(k \in q, Xor(k - 5 \in q, k - 12 \in q))
<1>1. q \in SUBSET AllOnes
  BY DEF AllOnes
<1>2. LeftBy(5, q) \subseteq AllOnes
  BY DEF LeftBy, AllOnes
<1>3. \A k \in AllOnes : /\ k \in LeftBy(5, q) <=> k - 5 \in q
                         /\ k \in LeftBy(12, q) \cap AllOnes <=> k - 12 \in q
  BY DEF LeftBy, AllOnes
<1> QED BY <1>1, <1>2, <1>3, InSymDiff DEF Multiple, SymDiff, Xor

LEMMA MultipleBits ==
  ASSUME NEW x \in SUBSET (0..7)
  PROVE  /\ LowBits(Multiple(Quotient(x)), x)
         /\ HighBits(Multiple(Quotient(x)), x)
<1>1. ASSUME NEW k \in AllOnes
      PROVE  k \in Multiple(Quotient(x)) <=>
               Xor(k \in 0..7 /\ Xor(k \in x, k + 4 \in x),
                   Xor(k - 5 \in 0..7 /\ Xor(k - 5 \in x, k - 1 \in x),
                       k - 12 \in 0..7 /\ Xor(k - 12 \in x, k - 8 \in x)))
  BY InQuotient, InMultiple DEF Xor, AllOnes
<1> QED BY <1>1 DEF LowBits, HighBits, Xor, AllOnes

LEMMA TableIsMultiple ==
  ASSUME NEW d \in 0..255
  PROVE  Bits(crc16tab[d + 1]) = Multiple(Quotient(Bits(d)))
<1> DEFINE x == Bits(d)
           t == Bits(crc16tab[d + 1])
           p == Multiple(Quotient(x))
<1>1. x \in SUBSET (0..7) /\ p \in SUBSET AllOnes /\ t \in SUBSET AllOnes
  BY ByteBits, InQuotient, InMultiple DEF Bits
<1>2. /\ 0 \in t <=> 0 \in p
      /\ 1 \in t <=> 1 \in p
      /\ 2 \in t <=> 2 \in p
      /\ 3 \in t <=> 3 \in p
      /\ 4 \in t <=> 4 \in p
      /\ 5 \in t <=> 5 \in p
      /\ 6 \in t <=> 6 \in p
      /\ 7 \in t <=> 7 \in p
      /\ 8 \in t <=> 8 \in p
      /\ 9 \in t <=> 9 \in p
      /\ 10 \in t <=> 10 \in p
      /\ 11 \in t <=> 11 \in p
      /\ 12 \in t <=> 12 \in p
      /\ 13 \in t <=> 13 \in p
      /\ 14 \in t <=> 14 \in p
      /\ 15 \in t <=> 15 \in p
  <2>1. LowBits(t, x) /\ HighBits(t, x) /\ LowBits(p, x) /\ HighBits(p, x)
    BY <1>1, TableBits, MultipleBits
  <2> HIDE DEF t, p, x
  <2> QED BY <2>1 DEF LowBits, HighBits
<1> HIDE DEF t, p
<1>3. \A k \in AllOnes : k \in t <=> k \in p
  <2>1. \A k \in AllOnes : k = 0 \/ k = 1 \/ k = 2 \/ k = 3 \/ k = 4 \/ k = 5
          \/ k = 6 \/ k = 7 \/ k = 8 \/ k = 9 \/ k = 10 \/ k = 11 \/ k = 12
          \/ k = 13 \/ k = 14 \/ k = 15
    BY DEF AllOnes
  <2> QED BY <1>2, <2>1
<1>4. t = p
  BY <1>1, <1>3
<1> QED BY <1>4 DEF t, p

LEMMA RowIsMultiple ==
  ASSUME NEW x \in SUBSET (0..7)
  PROVE  crc16row[x] = Multiple(Quotient(x))
<1> DEFINE index == CHOOSE i \in 0..255 : Bits(i) = x
<1>1. index \in 0..255 /\ Bits(index) = x
  BY ByteOfBits
<1> HIDE DEF index
<1>2. crc16row[x] = Bits(crc16tab[index + 1])
  BY DEF crc16row, index
<1> QED BY <1>1, <1>2, TableIsMultiple

LEMMA InDivided ==
  ASSUME NEW r \in SUBSET AllOnes, NEW d \in 0..255, NEW x, NEW q,
         x = SymDiff(RightBy(8, r), Bits(d)), q = Quotient(x)
  PROVE  /\ x \in SUBSET (0..7) /\ q \in SUBSET (0..7)
         /\ \A k \in AllOnes : k \in x <=> Xor(k \in Bits(d), k + 8 \in r)
         /\ Divided(r, d) \in SUBSET AllOnes
         /\ \A k \in AllOnes :
              k \in Divided(r, d) <=> Xor(k - 8 \in r, k \in Multiple(q))
<1>1. RightBy(8, r) \subseteq 0..7
  BY DEF RightBy, AllOnes
<1>2. Bits(d) \subseteq 0..7
  BY ByteBits
<1>3. x \in SUBSET (0..7)
  BY <1>1, <1>2 DEF SymDiff
<1>4. q \in SUBSET (0..7)
  BY <1>3, InQuotient
<1>5. Multiple(q) \in SUBSET AllOnes
  BY <1>4, InMultiple
<1>6. \A k \in AllOnes : k \in x <=> Xor(k \in Bits(d), k + 8 \in r)
  BY InSymDiff, InShifted DEF Xor, AllOnes
<1>7. Divided(r, d) = SymDiff(LeftBy(8, r) \cap AllOnes, Multiple(q))
  BY DEF Divided
<1>8. Divided(r, d) \in SUBSET AllOnes
  BY <1>5, <1>7 DEF SymDiff
<1>9. \A k \in AllOnes : k \in LeftBy(8, r) <=> k - 8 \in r
  BY InShifted DEF AllOnes
<1> QED BY <1>3, <1>4, <1>6, <1>7, <1>8, <1>9, InSymDiff DEF Xor

LEMMA DividedIsWord ==
  ASSUME NEW r \in SUBSET AllOnes, NEW d \in 0..255
  PROVE  Divided(r, d) \in SUBSET AllOnes
<1> DEFINE x == SymDiff(RightBy(8, r), Bits(d))
           q == Quotient(x)
<1>1. x = SymDiff(RightBy(8, r), Bits(d)) /\ q = Quotient(x)
  OBVIOUS
<1> HIDE DEF x, q
<1> QED BY <1>1, InDivided

\* A step of crc16 divides.
LEMMA TableStep ==
  ASSUME NEW r \in SUBSET AllOnes, NEW d \in 0..255
  PROVE  crc16_step(r, d) = Divided(r, d)
<1> DEFINE x == SymDiff(RightBy(8, r), Bits(d))
           q == Quotient(x)
           c == SymDiff(LeftBy(8, r), Multiple(q)) \cap AllOnes
<1>0. x = SymDiff(RightBy(8, r), Bits(d)) /\ q = Quotient(x)
  OBVIOUS
<1> HIDE DEF x, q
<1>1. x \in SUBSET (0..7) /\ q \in SUBSET (0..7)
  BY <1>0, InDivided
<1>2. crc16_step(r, d) = c
  BY <1>0, <1>1, RowIsMultiple DEF crc16_step
<1>3. \A k \in AllOnes : k \in c <=> Xor(k - 8 \in r, k \in Multiple(q))
  BY InSymDiff, InShifted DEF Xor, AllOnes
<1>4. /\ Divided(r, d) \in SUBSET AllOnes
      /\ \A k \in AllOnes :
           k \in Divided(r, d) <=> Xor(k - 8 \in r, k \in Multiple(q))
  BY <1>0, InDivided
<1>5. c \in SUBSET AllOnes
  OBVIOUS
<1> HIDE DEF c
<1>6. c = Divided(r, d)
  BY <1>3, <1>4, <1>5
<1> QED BY <1>2, <1>6

\* A step of crc_ccitt divides.
LEMMA CcittStep ==
  ASSUME NEW r \in SUBSET AllOnes, NEW d \in 0..255
  PROVE  crc_ccitt_step(r, d) = Divided(r, d)
<1> DEFINE x == SymDiff(RightBy(8, r), Bits(d))
           q == Quotient(x)
           crc1 == SymDiff((RightBy(8, r) \cup LeftBy(8, r)) \cap AllOnes, Bits(d))
           crc2 == SymDiff(crc1, RightBy(4, LowByte(crc1)))
           crc3 == SymDiff(crc2, LeftBy(12, crc2) \cap AllOnes)
           crc4 == SymDiff(crc3, LeftBy(5, LowByte(crc3)))
<1>0. x = SymDiff(RightBy(8, r), Bits(d)) /\ q = Quotient(x)
  OBVIOUS
<1> HIDE DEF x, q
<1>1. /\ x \in SUBSET (0..7) /\ q \in SUBSET (0..7)
      /\ Divided(r, d) \in SUBSET AllOnes
      /\ \A k \in AllOnes : k \in x <=> Xor(k \in Bits(d), k + 8 \in r)
  BY <1>0, InDivided
<1>2. Bits(d) \subseteq 0..7
  BY ByteBits
<1>3. /\ crc1 \in SUBSET AllOnes
      /\ \A k \in AllOnes :
           k \in crc1 <=> IF k <= 7 THEN k \in x ELSE k - 8 \in r
  <2>1. \A k \in AllOnes : /\ k \in RightBy(8, r) <=> k + 8 \in r
                           /\ k \in LeftBy(8, r) <=> k - 8 \in r
    BY InShifted DEF AllOnes
  <2>2. crc1 \in SUBSET AllOnes
    BY <1>2 DEF SymDiff, AllOnes
  <2>3. ASSUME NEW k \in AllOnes
        PROVE  k \in crc1 <=> Xor(k + 8 \in r \/ k - 8 \in r, k \in Bits(d))
    BY <2>1, InSymDiff DEF Xor
  <2>4. ASSUME NEW k \in AllOnes
        PROVE  /\ k <= 7 => k - 8 \notin r
               /\ ~(k <= 7) => k + 8 \notin r /\ k \notin Bits(d)
    BY <1>2 DEF AllOnes
  <2> HIDE DEF crc1
  <2> QED BY <1>1, <2>2, <2>3, <2>4 DEF Xor
<1> HIDE DEF crc1
<1>4. LowByte(crc1) = x
  <2>1. \A k \in 0..7 : k \in crc1 <=> k \in x
    BY <1>3 DEF AllOnes
  <2> QED BY <1>1, <2>1 DEF LowByte
<1>5. crc2 = SymDiff(crc1, RightBy(4, x))
  BY <1>4
<1>6. /\ crc2 \in SUBSET AllOnes
      /\ \A k \in AllOnes :
           k \in crc2 <=> IF k <= 7 THEN k \in q ELSE k - 8 \in r
  <2>1. x \in SUBSET AllOnes
    BY <1>1 DEF AllOnes
  <2>2. /\ RightBy(4, x) \in SUBSET AllOnes
        /\ \A k \in AllOnes : k \in RightBy(4, x) <=> k + 4 \in x
    BY <2>1, InShifted DEF AllOnes, RightBy
  <2>3. \A k \in AllOnes : /\ k \in crc2 <=> Xor(k \in crc1, k + 4 \in x)
                           /\ k \in q <=> k <= 7 /\ Xor(k \in x, k + 4 \in x)
    BY <1>0, <1>1, <1>5, <2>2, InSymDiff, InQuotient DEF AllOnes, Xor
  <2>4. \A k \in AllOnes : ~(k <= 7) => k + 4 \notin x
    BY <1>1 DEF AllOnes
  <2>5. crc2 \in SUBSET AllOnes
    BY <1>3, <1>5, <2>2 DEF SymDiff
  <2> HIDE DEF crc2
  <2> QED BY <1>3, <2>3, <2>4, <2>5 DEF Xor
<1> HIDE DEF crc2
<1>7. /\ crc3 \in SUBSET AllOnes
      /\ \A k \in AllOnes :
           k \in crc3 <=> Xor(IF k <= 7 THEN k \in q ELSE k - 8 \in r, k - 12 \in q)
  <2>1. \A k \in AllOnes : k \in LeftBy(12, crc2) <=> k - 12 \in crc2
    BY <1>6, InShifted DEF AllOnes
  <2>2. \A k \in AllOnes : k - 12 \in crc2 <=> k - 12 \in q
    BY <1>1, <1>6 DEF AllOnes
  <2>3. crc3 \in SUBSET AllOnes
    BY <1>6 DEF SymDiff
  <2>4. \A k \in AllOnes : k \in crc3 <=> Xor(k \in crc2, k - 12 \in q)
    BY <2>1, <2>2, InSymDiff DEF Xor
  <2> HIDE DEF crc3
  <2> QED BY <1>6, <2>3, <2>4 DEF Xor
<1> HIDE DEF crc3
<1>8. LowByte(crc3) = q
  <2>1. \A k \in AllOnes : k <= 7 => k - 12 \notin q
    BY <1>1 DEF AllOnes
  <2>2. \A k \in 0..7 : k \in crc3 <=> k \in q
    BY <1>7, <2>1 DEF AllOnes, Xor
  <2> QED BY <1>1, <2>2 DEF LowByte
<1>9. /\ crc4 \in SUBSET AllOnes
      /\ \A k \in AllOnes : k \in crc4 <=> Xor(k \in crc3, k - 5 \in q)
  <2>1. q \in SUBSET AllOnes
    BY <1>1 DEF AllOnes
  <2>2. LeftBy(5, q) \subseteq AllOnes
    BY <1>1 DEF LeftBy, AllOnes
  <2>3. \A k \in AllOnes : k \in LeftBy(5, q) <=> k - 5 \in q
    BY <2>1, InShifted DEF AllOnes
  <2>4. crc4 = SymDiff(crc3, LeftBy(5, q))
    BY <1>8
  <2> HIDE DEF crc4
  <2>5. crc4 \in SUBSET AllOnes
    BY <1>7, <2>2, <2>4 DEF SymDiff
  <2> QED BY <2>3, <2>4, <2>5, InSymDiff DEF Xor
<1>10. crc_ccitt_step(r, d) = crc4
  BY DEF crc_ccitt_step, crc4, crc3, crc2, crc1
<1> HIDE DEF crc4
<1>11. \A k \in AllOnes :
         k \in Divided(r, d) <=>
           Xor(k - 8 \in r, Xor(k \in q, Xor(k - 5 \in q, k - 12 \in q)))
  <2>1. \A k \in AllOnes :
          k \in Divided(r, d) <=> Xor(k - 8 \in r, k \in Multiple(q))
    BY <1>0, InDivided
  <2> QED BY <1>1, <2>1, InMultiple DEF Xor
<1>12. \A k \in AllOnes : /\ k <= 7 => k - 8 \notin r
                          /\ ~(k <= 7) => k \notin q
  BY <1>1 DEF AllOnes
<1>13. \A k \in AllOnes : k \in crc4 <=> k \in Divided(r, d)
  BY <1>7, <1>9, <1>11, <1>12 DEF Xor
<1> QED BY <1>1, <1>9, <1>10, <1>13

LEMMA InDivideBit ==
  ASSUME NEW r \in SUBSET AllOnes, NEW bit \in BOOLEAN
  PROVE  /\ DivideBit(r, bit) \in SUBSET AllOnes
         /\ \A k \in AllOnes :
              k \in DivideBit(r, bit) <=>
                Xor(k - 1 \in r, k \in Polynomial /\ Xor(15 \in r, bit))
<1> DEFINE shifted == LeftBy(1, r) \cap AllOnes
<1>1. \A k \in AllOnes : k \in shifted <=> k - 1 \in r
  BY InShifted DEF AllOnes
<1>2. shifted \in SUBSET AllOnes /\ Polynomial \in SUBSET AllOnes
  BY DEF Polynomial, AllOnes
<1>3. DivideBit(r, bit) = IF (15 \in r) = bit THEN shifted
                          ELSE SymDiff(shifted, Polynomial)
  BY DEF DivideBit
<1> HIDE DEF shifted
<1>4. CASE (15 \in r) = bit
  BY <1>1, <1>2, <1>3, <1>4 DEF Xor
<1>5. CASE (15 \in r) # bit
  <2>1. DivideBit(r, bit) = SymDiff(shifted, Polynomial)
    BY <1>3, <1>5
  <2>2. DivideBit(r, bit) \in SUBSET AllOnes
    BY <1>2, <2>1 DEF SymDiff
  <2> QED BY <1>1, <1>5, <2>1, <2>2, InSymDiff DEF Xor
<1> QED BY <1>4, <1>5

\* After n bits the register w is r shifted by n, and the first n bits of the
\* quotient multiplied.
Upto(n, w, r, q) ==
  /\ w \in SUBSET AllOnes
  /\ \A k \in AllOnes :
       k \in w <=> Xor(k - n \in r, k \in Multiple(RightBy(8 - n, q)))

LEMMA UptoNext ==
  ASSUME NEW r \in SUBSET AllOnes, NEW d \in 0..255, NEW x, NEW q,
         x = SymDiff(RightBy(8, r), Bits(d)), q = Quotient(x),
         NEW n \in 1..8, NEW before, NEW after, Upto(n - 1, before, r, q),
         NEW one \in BOOLEAN, one <=> 8 - n \in Bits(d),
         after = DivideBit(before, one)
  PROVE  Upto(n, after, r, q)
<1>0. /\ before \in SUBSET AllOnes
      /\ \A k \in AllOnes :
           k \in before <=> Xor(k - (n - 1) \in r, k \in Multiple(RightBy(9 - n, q)))
  <2>1. 8 - (n - 1) = 9 - n
    OBVIOUS
  <2> QED BY <2>1 DEF Upto
<1> DEFINE Q(m) == RightBy(m, q)
<1>1. /\ x \in SUBSET (0..7) /\ q \in SUBSET (0..7) /\ q \in SUBSET AllOnes
      /\ \A k \in AllOnes : k \in x <=> Xor(k \in Bits(d), k + 8 \in r)
      /\ \A k \in Int : k \in q <=> k \in 0..7 /\ Xor(k \in x, k + 4 \in x)
  <2>1. /\ x \in SUBSET (0..7) /\ q \in SUBSET (0..7)
        /\ \A k \in AllOnes : k \in x <=> Xor(k \in Bits(d), k + 8 \in r)
    BY InDivided
  <2>2. q \in SUBSET AllOnes
    BY <2>1 DEF AllOnes
  <2> QED BY <2>1, <2>2, InQuotient
<1>2. ASSUME NEW m \in 0..8
      PROVE  /\ Q(m) \in SUBSET (0..7)
             /\ \A k \in Int : k \in Q(m) <=> k \in AllOnes /\ k + m \in q
             /\ \A k \in AllOnes :
                  k \in Multiple(Q(m)) <=>
                    Xor(k \in Q(m), Xor(k - 5 \in Q(m), k - 12 \in Q(m)))
  <2>1. \A k \in Int : k \in Q(m) <=> k \in AllOnes /\ k + m \in q
    <3>1. m \in Nat
      OBVIOUS
    <3> QED BY <1>1, <3>1, InShifted
  <2>2. Q(m) \in SUBSET AllOnes
    BY DEF RightBy
  <2>3. Q(m) \in SUBSET (0..7)
    BY <1>1, <2>1, <2>2 DEF AllOnes
  <2> HIDE DEF Q
  <2> QED BY <2>1, <2>3, InMultiple
<1>3. /\ 9 - n \in 0..8 /\ 8 - n \in 0..8 /\ 15 \in AllOnes /\ 8 - n \in AllOnes
  BY DEF AllOnes
<1> HIDE DEF Q
<1>4. Xor(15 \in before, one) <=> 8 - n \in q
  <2>1. 15 \in before <=> Xor(16 - n \in r, 15 \in Multiple(Q(9 - n)))
    BY <1>0, <1>3 DEF Q
  <2>2. 15 \in Multiple(Q(9 - n)) <=> 12 - n \in q
    <3>1. 15 \notin Q(9 - n) /\ 10 \notin Q(9 - n)
      BY <1>2, <1>3
    <3>2. 3 \in Q(9 - n) <=> 12 - n \in q
      BY <1>2, <1>3 DEF AllOnes
    <3> QED BY <1>2, <1>3, <3>1, <3>2 DEF Xor
  <2>3. 8 - n \in x <=> Xor(one, 16 - n \in r)
    BY <1>1, <1>3
  <2>4. 8 - n \in q <=> Xor(8 - n \in x, 12 - n \in x)
    BY <1>1
  <2>5. 12 - n \in q <=> 12 - n \in x
    BY <1>1 DEF Xor
  <2> QED BY <2>1, <2>2, <2>3, <2>4, <2>5 DEF Xor
<1>5. /\ after \in SUBSET AllOnes
      /\ \A k \in AllOnes :
           k \in after <=> Xor(k - 1 \in before, k \in Polynomial /\ 8 - n \in q)
  <2>1. /\ after \in SUBSET AllOnes
        /\ \A k \in AllOnes :
             k \in after <=> Xor(k - 1 \in before,
                                k \in Polynomial /\ Xor(15 \in before, one))
    BY <1>0, InDivideBit
  <2> QED BY <1>4, <2>1
<1>6. \A k \in Int : k \in Q(8 - n) <=>
        Xor(k - 1 \in Q(9 - n), k = 0 /\ 8 - n \in q)
  BY <1>1, <1>2, <1>3 DEF Xor, AllOnes
<1>7. ASSUME NEW k \in AllOnes
      PROVE  k \in Multiple(Q(8 - n)) <=>
               Xor(Xor(k - 1 \in Q(9 - n), Xor(k - 6 \in Q(9 - n), k - 13 \in Q(9 - n))),
                   k \in Polynomial /\ 8 - n \in q)
  <2>1. k \in Polynomial <=> k = 0 \/ k - 5 = 0 \/ k - 12 = 0
    BY DEF Polynomial, AllOnes
  <2>2. k \in Int /\ k - 5 \in Int /\ k - 12 \in Int /\ (k - 5) - 1 = k - 6
        /\ (k - 12) - 1 = k - 13
    BY DEF AllOnes
  <2>3. /\ k - 5 \in Q(8 - n) <=> Xor(k - 6 \in Q(9 - n), k - 5 = 0 /\ 8 - n \in q)
        /\ k - 12 \in Q(8 - n) <=> Xor(k - 13 \in Q(9 - n), k - 12 = 0 /\ 8 - n \in q)
        /\ k \in Q(8 - n) <=> Xor(k - 1 \in Q(9 - n), k = 0 /\ 8 - n \in q)
    BY <1>6, <2>2
  <2>4. k \in Multiple(Q(8 - n)) <=>
          Xor(k \in Q(8 - n), Xor(k - 5 \in Q(8 - n), k - 12 \in Q(8 - n)))
    BY <1>2, <1>3
  <2>5. ~(k = 0 /\ k - 5 = 0) /\ ~(k = 0 /\ k - 12 = 0) /\ ~(k - 5 = 0 /\ k - 12 = 0)
    BY DEF AllOnes
  <2> QED BY <2>1, <2>3, <2>4, <2>5 DEF Xor
<1>8. ASSUME NEW k \in AllOnes
      PROVE  k - 1 \in before <=>
               Xor(k - n \in r,
                   Xor(k - 1 \in Q(9 - n), Xor(k - 6 \in Q(9 - n), k - 13 \in Q(9 - n))))
  <2>1. CASE k = 0
    <3>1. k - n \notin r /\ k - 1 \notin before
      BY <1>0, <2>1 DEF AllOnes
    <3>2. k - 1 \notin Q(9 - n) /\ k - 6 \notin Q(9 - n) /\ k - 13 \notin Q(9 - n)
      BY <1>2, <1>3, <2>1
    <3> QED BY <3>1, <3>2 DEF Xor
  <2>2. CASE k # 0
    <3>1. k - 1 \in AllOnes /\ (k - 1) - (n - 1) = k - n /\ (k - 1) - 5 = k - 6
          /\ (k - 1) - 12 = k - 13
      BY <2>2 DEF AllOnes
    <3>2. k - 1 \in before <=> Xor(k - n \in r, k - 1 \in Multiple(Q(9 - n)))
      BY <1>0, <3>1 DEF Q
    <3>3. k - 1 \in Multiple(Q(9 - n)) <=>
            Xor(k - 1 \in Q(9 - n), Xor(k - 6 \in Q(9 - n), k - 13 \in Q(9 - n)))
      BY <1>2, <1>3, <3>1
    <3> QED BY <3>2, <3>3 DEF Xor
  <2> QED BY <2>1, <2>2
<1>9. \A k \in AllOnes : k \in after <=> Xor(k - n \in r, k \in Multiple(Q(8 - n)))
  BY <1>5, <1>7, <1>8 DEF Xor
<1> QED BY <1>5, <1>9 DEF Q, Upto

\* Division bit by bit divides.
LEMMA BitsStep ==
  ASSUME NEW r \in SUBSET AllOnes, NEW d \in 0..255
  PROVE  DivideByte(r, d) = Divided(r, d)
<1> DEFINE x == SymDiff(RightBy(8, r), Bits(d))
           q == Quotient(x)
           S == SUBSET AllOnes
           One(n) == 8 - n \in Bits(d)
           step == [p \in S \X (1..8) |-> DivideBit(p[1], One(p[2]))]
           Whole(g) == [n \in 0..8 |-> IF n = 0 THEN r ELSE DivideBit(g[n - 1], One(n))]
           after == CHOOSE g : g = Whole(g)
<1>1. x = SymDiff(RightBy(8, r), Bits(d)) /\ q = Quotient(x)
  OBVIOUS
<1> HIDE DEF x, q
<1>2. \A n : One(n) \in BOOLEAN
  OBVIOUS
<1>3. step \in [S \X (1..8) -> S]
  <2> HIDE DEF One
  <2> SUFFICES ASSUME NEW p \in S \X (1..8) PROVE DivideBit(p[1], One(p[2])) \in S
    OBVIOUS
  <2>1. p[1] \in S /\ One(p[2]) \in BOOLEAN
    BY <1>2
  <2> QED BY <2>1, InDivideBit
<1>4. PICK f : Loop(f, 8, S, r, step)
  <2> HIDE DEF step, S
  <2>1. r \in S
    BY DEF S
  <2> QED BY <1>3, <2>1, LoopExists
<1>5. f = Whole(f)
  <2>1. f \in [0..8 -> S] /\ f[0] = r /\ \A n \in 1..8 : f[n] = step[<<f[n - 1], n>>]
    <3> HIDE DEF step, S
    <3> QED BY <1>4 DEF Loop
  <2>2. ASSUME NEW n \in 1..8 PROVE f[n] = DivideBit(f[n - 1], One(n))
    <3>1. n - 1 \in 0..8
      OBVIOUS
    <3>2. f[n - 1] \in S
      <4> HIDE DEF S, step
      <4> QED BY <2>1, <3>1
    <3> HIDE DEF One
    <3>3. step[<<f[n - 1], n>>] = DivideBit(f[n - 1], One(n))
      BY <3>2
    <3> HIDE DEF step
    <3> QED BY <2>1, <3>3
  <2> HIDE DEF One, step, S
  <2> QED BY <2>1, <2>2
<1>6. after = Whole(after)
  BY <1>5
<1>7. DivideByte(r, d) = after[8]
  BY DEF DivideByte
<1> HIDE DEF after
<1>8. after[0] = r /\ \A n \in 1..8 : after[n] = DivideBit(after[n - 1], One(n))
  <2> HIDE DEF One
  <2> QED BY <1>6
<1> DEFINE G == {n \in 0..8 : Upto(n, after[n], r, q)}
<1>9. x \in SUBSET (0..7) /\ q \in SUBSET (0..7)
  BY <1>1, InDivided
<1>10. Upto(0, after[0], r, q)
  <2>1. \A k \in AllOnes : k \notin RightBy(8, q)
    BY <1>9 DEF RightBy, AllOnes
  <2>2. RightBy(8, q) = {}
    BY <2>1 DEF RightBy
  <2>3. \A k \in AllOnes : k \notin Multiple({})
    BY InMultiple DEF Xor
  <2>4. 8 - 0 = 8 /\ \A k \in AllOnes : k - 0 = k
    BY DEF AllOnes
  <2> QED BY <1>8, <2>2, <2>3, <2>4 DEF Xor, Upto
<1>11. ASSUME NEW n \in 1..8, n - 1 \in G PROVE n \in G
  <2> DEFINE v == after[n - 1]
             w == after[n]
  <2>1. Upto(n - 1, v, r, q)
    BY <1>11
  <2>2. w = DivideBit(v, One(n))
    BY <1>8
  <2>3. One(n) \in BOOLEAN /\ (One(n) <=> 8 - n \in Bits(d))
    OBVIOUS
  <2> HIDE DEF v, w, One
  <2>4. Upto(n, w, r, q)
    BY <1>1, <2>1, <2>2, <2>3, UptoNext
  <2> QED BY <2>4 DEF w
<1>12. G = 0..8
  <2>1. G \in SUBSET (0..8) /\ 0 \in G
    BY <1>10
  <2> HIDE DEF G
  <2> QED BY <1>11, <2>1, Numbered
<1>13. Upto(8, after[8], r, q)
  BY <1>12
<1>14. RightBy(0, q) = q
  <2>1. q \in SUBSET AllOnes
    BY <1>9 DEF AllOnes
  <2>2. \A k \in AllOnes : k \in RightBy(0, q) <=> k \in q
    BY <2>1, InShifted DEF AllOnes
  <2>3. RightBy(0, q) \in SUBSET AllOnes
    BY DEF RightBy
  <2> QED BY <2>1, <2>2, <2>3
<1>15. after[8] = Divided(r, d)
  <2>1. /\ Divided(r, d) \in SUBSET AllOnes
        /\ \A k \in AllOnes :
             k \in Divided(r, d) <=> Xor(k - 8 \in r, k \in Multiple(q))
    BY <1>1, InDivided
  <2>2. 8 - 8 = 0
    OBVIOUS
  <2> QED BY <1>13, <1>14, <2>1, <2>2 DEF Upto
<1> QED BY <1>7, <1>15

\* The register after each byte.
Bytewise(s) == [p \in (SUBSET AllOnes) \X (1..Len(s)) |-> Divided(p[1], s[p[2]])]
Registers(s, base) == CHOOSE f : Loop(f, Len(s), SUBSET AllOnes, base, Bytewise(s))
Remainder(s, base) == Registers(s, base)[Len(s)]

LEMMA RegistersAre ==
  ASSUME NEW s \in Seq(Byte), NEW base \in SUBSET AllOnes
  PROVE  /\ Registers(s, base) \in [0..Len(s) -> SUBSET AllOnes]
         /\ Registers(s, base)[0] = base
         /\ \A n \in 1..Len(s) :
              Registers(s, base)[n] = Divided(Registers(s, base)[n - 1], s[n])
         /\ Remainder(s, base) \in SUBSET AllOnes
<1> DEFINE S == SUBSET AllOnes
           f == Registers(s, base)
           N == Len(s)
           step == Bytewise(s)
<1>1. N \in Nat /\ \A n \in 1..N : s[n] \in Byte
  BY LenProperties, ElementOfSeq
<1>2. \A v \in S, d \in Byte : Divided(v, d) \in S
  BY DividedIsWord DEF Byte
<1>3. step \in [S \X (1..N) -> S]
  <2>1. \A p \in S \X (1..N) : Divided(p[1], s[p[2]]) \in S
    BY <1>1, <1>2
  <2> QED BY <2>1 DEF Bytewise
<1>4. Loop(f, N, S, base, step)
  <2>1. \E g : Loop(g, N, S, base, step)
    <3> HIDE DEF step, S, N
    <3>1. base \in S
      BY DEF S
    <3> QED BY <1>1, <1>3, <3>1, LoopExists
  <2> HIDE DEF step
  <2> QED BY <2>1 DEF Registers, step
<1>5. f \in [0..N -> S] /\ f[0] = base /\ \A n \in 1..N : f[n] = step[<<f[n - 1], n>>]
  <2> HIDE DEF step, S, f, N
  <2> QED BY <1>4 DEF Loop
<1> HIDE DEF f
<1>6. ASSUME NEW n \in 1..N PROVE f[n] = Divided(f[n - 1], s[n])
  <2>1. n - 1 \in 0..N
    BY <1>1
  <2>2. f[n - 1] \in S
    <3> HIDE DEF S, step, N
    <3> QED BY <1>5, <2>1
  <2>3. step[<<f[n - 1], n>>] = Divided(f[n - 1], s[n])
    BY <2>2 DEF Bytewise
  <2> HIDE DEF step
  <2> QED BY <1>5, <2>3
<1>7. f[N] \in S
  <2> HIDE DEF S
  <2> QED BY <1>1, <1>5
<1> QED BY <1>5, <1>6, <1>7 DEF f, Remainder

\* What is computed byte by byte is that.
LEMMA OneLoop ==
  ASSUME NEW s \in Seq(Byte), NEW base \in SUBSET AllOnes, NEW g,
         g[0] = base,
         \A n \in 1..Len(s) : g[n - 1] \in SUBSET AllOnes =>
                                g[n] = Divided(g[n - 1], s[n])
  PROVE  \A n \in 0..Len(s) : g[n] = Registers(s, base)[n]
<1> DEFINE f == Registers(s, base)
           N == Len(s)
           G == {n \in 0..N : g[n] = f[n]}
<1>1. N \in Nat
  BY LenProperties
<1>2. /\ f \in [0..N -> SUBSET AllOnes] /\ f[0] = base
      /\ \A n \in 1..N : f[n] = Divided(f[n - 1], s[n])
  BY RegistersAre
<1> HIDE DEF f
<1>3. G \in SUBSET (0..N) /\ 0 \in G
  BY <1>1, <1>2
<1>4. ASSUME NEW n \in 1..N, n - 1 \in G PROVE n \in G
  <2>1. n - 1 \in 0..N /\ n \in 0..N
    BY <1>1
  <2>2. f[n - 1] \in SUBSET AllOnes /\ g[n - 1] = f[n - 1]
    BY <1>2, <1>4, <2>1
  <2> QED BY <1>2, <2>1, <2>2
<1>5. G = 0..N
  <2> HIDE DEF G, N
  <2> QED BY <1>1, <1>3, <1>4, Numbered
<1> QED BY <1>5 DEF f

LEMMA crc16Is ==
  ASSUME NEW s \in Seq(Byte), NEW l_crc \in SUBSET AllOnes
  PROVE  crc16(s, l_crc) = Remainder(s, l_crc)
<1> DEFINE N == Len(s)
           base == l_crc
           f == Registers(s, base)
           Whole(g) == [n \in 0..N |->
                          IF n = 0 THEN base ELSE crc16_step(g[n - 1], s[n])]
           after == CHOOSE g : g = Whole(g)
<1>1. base \in SUBSET AllOnes /\ N \in Nat /\ \A n \in 1..N : s[n] \in 0..255
  BY LenProperties, ElementOfSeq DEF Byte
<1>2. /\ f \in [0..N -> SUBSET AllOnes] /\ f[0] = base
      /\ \A n \in 1..N : f[n] = Divided(f[n - 1], s[n])
  BY <1>1, RegistersAre
<1>3. crc16(s, l_crc) = after[N]
  BY DEF crc16
<1> HIDE DEF f, base
<1>4. f = Whole(f)
  <2>1. ASSUME NEW n \in 1..N PROVE f[n] = crc16_step(f[n - 1], s[n])
    <3>1. n - 1 \in 0..N
      BY <1>1
    <3>2. f[n - 1] \in SUBSET AllOnes
      BY <1>2, <3>1
    <3> QED BY <1>1, <1>2, <3>2, TableStep
  <2> HIDE DEF N
  <2> QED BY <1>1, <1>2, <2>1
<1>5. after = Whole(after)
  BY <1>4
<1> HIDE DEF after
<1>6. after[0] = base /\ \A n \in 1..N : after[n] = crc16_step(after[n - 1], s[n])
  <2> HIDE DEF N
  <2> QED BY <1>1, <1>5
<1>7. \A n \in 1..N : after[n - 1] \in SUBSET AllOnes =>
                        after[n] = Divided(after[n - 1], s[n])
  BY <1>1, <1>6, TableStep
<1>8. after[N] = f[N]
  BY <1>1, <1>6, <1>7, OneLoop DEF f
<1> QED BY <1>3, <1>8 DEF Remainder, f, base, after

LEMMA crc_ccittIs ==
  ASSUME NEW s \in Seq(Byte)
  PROVE  crc_ccitt(s) = SymDiff(Remainder(s, AllOnes), AllOnes)
<1> DEFINE N == Len(s)
           base == AllOnes
           f == Registers(s, base)
           Whole(g) == [n \in 0..N |->
                          IF n = 0 THEN base ELSE crc_ccitt_step(g[n - 1], s[n])]
           after == CHOOSE g : g = Whole(g)
<1>1. base \in SUBSET AllOnes /\ N \in Nat /\ \A n \in 1..N : s[n] \in 0..255
  BY LenProperties, ElementOfSeq DEF Byte
<1>2. /\ f \in [0..N -> SUBSET AllOnes] /\ f[0] = base
      /\ \A n \in 1..N : f[n] = Divided(f[n - 1], s[n])
  BY <1>1, RegistersAre
<1>3. crc_ccitt(s) = SymDiff(after[N], AllOnes)
  BY DEF crc_ccitt
<1> HIDE DEF f, base
<1>4. f = Whole(f)
  <2>1. ASSUME NEW n \in 1..N PROVE f[n] = crc_ccitt_step(f[n - 1], s[n])
    <3>1. n - 1 \in 0..N
      BY <1>1
    <3>2. f[n - 1] \in SUBSET AllOnes
      BY <1>2, <3>1
    <3> QED BY <1>1, <1>2, <3>2, CcittStep
  <2> HIDE DEF N
  <2> QED BY <1>1, <1>2, <2>1
<1>5. after = Whole(after)
  BY <1>4
<1> HIDE DEF after
<1>6. after[0] = base /\ \A n \in 1..N : after[n] = crc_ccitt_step(after[n - 1], s[n])
  <2> HIDE DEF N
  <2> QED BY <1>1, <1>5
<1>7. \A n \in 1..N : after[n - 1] \in SUBSET AllOnes =>
                        after[n] = Divided(after[n - 1], s[n])
  BY <1>1, <1>6, CcittStep
<1>8. after[N] = f[N]
  BY <1>1, <1>6, <1>7, OneLoop DEF f
<1> QED BY <1>3, <1>8 DEF Remainder, f, base, after

LEMMA DivisionIs ==
  ASSUME NEW s \in Seq(Byte)
  PROVE  Division(s) = Remainder(s, AllOnes)
<1> DEFINE N == Len(s)
           base == AllOnes
           f == Registers(s, base)
           Whole(g) == [n \in 0..N |->
                          IF n = 0 THEN base ELSE DivideByte(g[n - 1], s[n])]
           after == CHOOSE g : g = Whole(g)
<1>1. base \in SUBSET AllOnes /\ N \in Nat /\ \A n \in 1..N : s[n] \in 0..255
  BY LenProperties, ElementOfSeq DEF Byte
<1>2. /\ f \in [0..N -> SUBSET AllOnes] /\ f[0] = base
      /\ \A n \in 1..N : f[n] = Divided(f[n - 1], s[n])
  BY <1>1, RegistersAre
<1>3. Division(s) = after[N]
  BY DEF Division
<1> HIDE DEF f, base
<1>4. f = Whole(f)
  <2>1. ASSUME NEW n \in 1..N PROVE f[n] = DivideByte(f[n - 1], s[n])
    <3>1. n - 1 \in 0..N
      BY <1>1
    <3>2. f[n - 1] \in SUBSET AllOnes
      BY <1>2, <3>1
    <3> QED BY <1>1, <1>2, <3>2, BitsStep
  <2> HIDE DEF N
  <2> QED BY <1>1, <1>2, <2>1
<1>5. after = Whole(after)
  BY <1>4
<1> HIDE DEF after
<1>6. after[0] = base /\ \A n \in 1..N : after[n] = DivideByte(after[n - 1], s[n])
  <2> HIDE DEF N
  <2> QED BY <1>1, <1>5
<1>7. \A n \in 1..N : after[n - 1] \in SUBSET AllOnes =>
                        after[n] = Divided(after[n - 1], s[n])
  BY <1>1, <1>6, BitsStep
<1>8. after[N] = f[N]
  BY <1>1, <1>6, <1>7, OneLoop DEF f
<1> QED BY <1>3, <1>8 DEF Remainder, f, base, after

LEMMA RemainderOfNone ==
  ASSUME NEW base \in SUBSET AllOnes
  PROVE  Remainder(<< >>, base) = base
<1>1. << >> \in Seq(Byte) /\ Len(<< >>) = 0
  OBVIOUS
<1> QED BY <1>1, RegistersAre DEF Remainder

LEMMA RemainderOfOneMore ==
  ASSUME NEW s \in Seq(Byte), NEW d \in Byte, NEW base \in SUBSET AllOnes
  PROVE  Remainder(Append(s, d), base) = Divided(Remainder(s, base), d)
<1> DEFINE t == Append(s, d)
           g == Registers(t, base)
<1>1. /\ t \in Seq(Byte) /\ Len(t) = Len(s) + 1 /\ Len(s) \in Nat
      /\ t[Len(s) + 1] = d /\ \A n \in 1..Len(s) : t[n] = s[n]
  BY AppendProperties, LenProperties
<1> HIDE DEF t
<1>2. /\ g[0] = base
      /\ \A n \in 1..Len(t) : g[n] = Divided(g[n - 1], t[n])
  BY <1>1, RegistersAre
<1> HIDE DEF g
<1>3. \A n \in 1..Len(s) : g[n] = Divided(g[n - 1], s[n])
  BY <1>1, <1>2
<1>4. g[Len(s)] = Registers(s, base)[Len(s)]
  BY <1>1, <1>2, <1>3, OneLoop
<1>5. g[Len(s) + 1] = Divided(g[Len(s)], d)
  <2>1. Len(s) + 1 \in 1..Len(t) /\ (Len(s) + 1) - 1 = Len(s)
    BY <1>1
  <2> QED BY <1>1, <1>2, <2>1
<1> QED BY <1>1, <1>4, <1>5 DEF Remainder, g, t

\* What is left of the message is what crc16 is left with after the pieces
\* before and the piece now collected.
CrcInv ==
  /\ fed \in Seq(Byte)
  /\ pieces \in [l_crc : SUBSET AllOnes, piece : Seq(Byte)]
  /\ Remainder(pieces.piece, pieces.l_crc) = Remainder(fed, AllOnes)

LEMMA CrcInvHolds == CrcSpec => []CrcInv
<1>1. CrcInit => CrcInv
  BY DEF CrcInit, CrcInv
<1>2. CrcInv /\ [CrcNext]_crcVars => CrcInv'
  <2> SUFFICES ASSUME CrcInv, [CrcNext]_crcVars PROVE CrcInv'
    OBVIOUS
  <2>1. /\ fed \in Seq(Byte) /\ pieces.l_crc \in SUBSET AllOnes
        /\ pieces.piece \in Seq(Byte)
        /\ pieces = [l_crc |-> pieces.l_crc, piece |-> pieces.piece]
        /\ Remainder(pieces.piece, pieces.l_crc) = Remainder(fed, AllOnes)
    BY DEF CrcInv
  <2>2. ASSUME NEW byte \in FirstBytes \cup OtherBytes, Feed(byte) PROVE CrcInv'
    <3>1. byte \in Byte
      BY CrcAssumption DEF Byte
    <3>2. /\ fed' = Append(fed, byte)
          /\ pieces' = [l_crc |-> pieces.l_crc, piece |-> Append(pieces.piece, byte)]
      BY <2>1, <2>2 DEF Feed
    <3>3. Append(fed, byte) \in Seq(Byte) /\ Append(pieces.piece, byte) \in Seq(Byte)
      BY <2>1, <3>1, AppendProperties
    <3>4. AllOnes \in SUBSET AllOnes
      OBVIOUS
    <3>5. Remainder(Append(pieces.piece, byte), pieces.l_crc) =
            Remainder(Append(fed, byte), AllOnes)
      BY <2>1, <3>1, <3>4, RemainderOfOneMore
    <3> QED BY <2>1, <3>2, <3>3, <3>5 DEF CrcInv
  <2>3. ASSUME EndOfPiece PROVE CrcInv'
    <3> DEFINE r == crc16(pieces.piece, pieces.l_crc)
    <3>1. r = Remainder(pieces.piece, pieces.l_crc)
      BY <2>1, crc16Is
    <3>2. r \in SUBSET AllOnes
      BY <2>1, <3>1, RegistersAre
    <3>3. pieces' = [l_crc |-> r, piece |-> << >>] /\ fed' = fed
      BY <2>3 DEF EndOfPiece
    <3> HIDE DEF r
    <3>4. Remainder(<< >>, r) = Remainder(fed, AllOnes)
      BY <2>1, <3>1, <3>2, RemainderOfNone
    <3>5. << >> \in Seq(Byte)
      OBVIOUS
    <3> QED BY <2>1, <3>2, <3>3, <3>4, <3>5 DEF CrcInv
  <2>4. CASE UNCHANGED crcVars
    BY <2>4 DEF CrcInv, crcVars
  <2> QED BY <2>2, <2>3, <2>4 DEF CrcNext
<1> QED BY <1>1, <1>2, PTL DEF CrcSpec

\* Whatever the message and however it is cut, the table's result is the
\* remainder of the division, and crc_ccitt's its complement.
THEOREM ChecksumsDivide == CrcSpec => []CrcDivides
<1>1. CrcInv => CrcDivides
  <2> SUFFICES ASSUME CrcInv PROVE CrcDivides
    OBVIOUS
  <2>1. /\ fed \in Seq(Byte) /\ pieces.l_crc \in SUBSET AllOnes
        /\ pieces.piece \in Seq(Byte)
        /\ Remainder(pieces.piece, pieces.l_crc) = Remainder(fed, AllOnes)
    BY DEF CrcInv
  <2>2. /\ crc16(pieces.piece, pieces.l_crc) = Remainder(fed, AllOnes)
        /\ crc_ccitt(fed) = SymDiff(Remainder(fed, AllOnes), AllOnes)
        /\ Division(fed) = Remainder(fed, AllOnes)
    BY <2>1, crc16Is, crc_ccittIs, DivisionIs
  <2>3. Remainder(fed, AllOnes) \in SUBSET AllOnes
    BY <2>1, RegistersAre
  <2>4. SymDiff(Remainder(fed, AllOnes), AllOnes) = AllOnes \ Remainder(fed, AllOnes)
    BY <2>3 DEF SymDiff
  <2> QED BY <2>2, <2>4 DEF CrcDivides
<1> QED BY <1>1, CrcInvHolds, PTL
=============================================================================
