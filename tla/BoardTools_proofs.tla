-------------------------- MODULE BoardTools_proofs --------------------------
(***************************************************************************)
(* What the hot load and the silicon checks may conclude from a PASS, for   *)
(* every filter, hash, rule, threshold and plan of samples, with frames     *)
(* lost and btnC pressed anywhere.  A plan writes a word, a register or a   *)
(* rule before it reads any of its kind, so what an answer told of the      *)
(* board stays true of it: the answer did not come from a write's past.     *)
(* And that a board without a fault passes, by the golden stream too.       *)
(***************************************************************************)
EXTENDS BoardTools, FiniteSetTheorems, SequenceTheorems, TLAPS

LEMMA Sizes ==
    /\ Words \in Nat /\ Words > 1 /\ RuleDepth \in Nat /\ RuleDepth > 1
    /\ DefaultPort \in Nat /\ DefaultPort > 0 /\ PktMax \in Nat /\ PktMax > 0
    /\ DefaultHost \in Nat /\ DefaultHost > 0 /\ DefaultRate \in Nat /\ DefaultRate > 0
    /\ WindowLen \in Nat /\ WindowLen > 0 /\ CountMod \in Nat /\ CountMod > 0
    /\ SeqMod \in Nat /\ SeqMod > 1 /\ Epochs \in Nat /\ Epochs > 0
  BY ToolsAssumption

\* A nonempty set of naturals has a least element: the sets {0 .. m} of its
\* members m are well-founded under strict inclusion.
LEMMA LeastExists ==
    ASSUME NEW S \in SUBSET Nat, S # {}
    PROVE  \E m \in S : \A n \in S : m <= n
<1> PICK k \in S : TRUE
  OBVIOUS
<1> DEFINE Below(m) == 0 .. m
           T == {Below(m) : m \in S}
<1>1. IsWellFoundedOn(StrictSubsetOrdering(Nat), FiniteSubsetsOf(Nat))
  BY FS_StrictSubsetOrderingWellFounded
<1>2. T \subseteq FiniteSubsetsOf(Nat) /\ T # {}
  <2>1. \A m \in S : IsFiniteSet(Below(m)) /\ Below(m) \in SUBSET Nat
    BY FS_Interval
  <2> HIDE DEF Below
  <2> QED
    BY <2>1 DEF FiniteSubsetsOf
<1>3. PICK x \in T : \A y \in T : ~(<<y, x>> \in StrictSubsetOrdering(Nat))
  BY <1>1, <1>2, WFMin
<1>4. PICK m \in S : x = Below(m)
  OBVIOUS
<1>5. ASSUME NEW n \in S, ~(m <= n) PROVE FALSE
  <2>1. n < m /\ Below(n) \subseteq Below(m) /\ m \in Below(m) /\ m \notin Below(n)
    BY <1>5
  <2>2. <<Below(n), x>> \in StrictSubsetOrdering(Nat)
    BY <2>1, <1>4 DEF StrictSubsetOrdering
  <2> QED
    BY <1>3, <2>2
<1> QED
  BY <1>5

(***************************************************************************)
(* The plan of a hot load                                                   *)
(***************************************************************************)
LEMMA NonzeroWords ==
    nonzero_addrs \subseteq 0 .. Words - 1 /\ IsFiniteSet(nonzero_addrs)
<1>1. nonzero_addrs \subseteq 0 .. Words - 1
  BY DEF nonzero_addrs, build_words, from_ips
<1>2. IsFiniteSet(0 .. Words - 1)
  BY Sizes, FS_Interval
<1> QED BY <1>1, <1>2, FS_Subset

LEMMA ListIsSeq ==
    ASSUME NEW T, NEW S \in SUBSET T, NEW n \in Nat, NEW f \in [1 .. n -> S]
    PROVE  f \in Seq(T) /\ Len(f) = n
<1>1. f \in [1 .. n -> T]
  OBVIOUS
<1> QED BY <1>1

\* A listing of a set has every element of it.
LEMMA Listed ==
    ASSUME NEW S, IsFiniteSet(S)
    PROVE  /\ Cardinality(S) \in Nat
           /\ Seqs!SetToSeq(S) \in [1 .. Cardinality(S) -> S]
           /\ \A x \in S : \E i \in 1 .. Cardinality(S) : Seqs!SetToSeq(S)[i] = x
<1>1. Cardinality(S) \in Nat /\ ExistsBijection(1 .. Cardinality(S), S)
  BY FS_CardinalityType
<1>2. PICK f \in Bijection(1 .. Cardinality(S), S) : TRUE
  BY <1>1 DEF ExistsBijection
<1>3. f \in [1 .. Cardinality(S) -> S] /\ Seqs!IsInjective(f)
  BY <1>2 DEF Bijection, Injection, IsInjective, Seqs!IsInjective
<1>4. PICK g : g = Seqs!SetToSeq(S)
  OBVIOUS
<1>5. g \in [1 .. Cardinality(S) -> S] /\ Seqs!IsInjective(g)
  <2>1. Seqs!Cardinality(S) = Cardinality(S)
    BY DEF Seqs!Cardinality, Cardinality
  <2>2. g = CHOOSE h \in [1 .. Cardinality(S) -> S] : Seqs!IsInjective(h)
    BY <1>4, <2>1, Zenon DEF Seqs!SetToSeq
  <2> QED BY <1>3, <2>2, Zenon
<1>6. g \in Injection(1 .. Cardinality(S), S)
  BY <1>5 DEF Injection, IsInjective, Seqs!IsInjective
<1>7. Cardinality(1 .. Cardinality(S)) = Cardinality(S)
  BY <1>1, FS_Interval
<1>8. g \in Surjection(1 .. Cardinality(S), S)
  BY <1>6, <1>7, FS_Injection
<1> QED BY <1>1, <1>4, <1>5, <1>8 DEF Surjection

LEMMA ThreeParts ==
    ASSUME NEW T, NEW a \in Seq(T), NEW x \in T, NEW c \in Seq(T),
           NEW p, p = a \o <<x>> \o c
    PROVE  /\ DOMAIN p = 1 .. Len(p) /\ Len(p) = Len(a) + 1 + Len(c)
           /\ \A k \in 1 .. Len(a) : p[k] = a[k]
           /\ p[Len(a) + 1] = x
           /\ \A k \in 1 .. Len(c) : p[Len(a) + 1 + k] = c[k]
<1>1. PICK b : b = <<x>>
  OBVIOUS
<1>2. b \in Seq(T) /\ Len(b) = 1 /\ b[1] = x
  BY <1>1
<1>3. Len(a) \in Nat /\ Len(c) \in Nat
  OBVIOUS
<1>4. PICK u : u = a \o b
  OBVIOUS
<1>5. /\ u \in Seq(T) /\ Len(u) = Len(a) + 1
      /\ \A k \in 1 .. Len(a) + 1 : u[k] = IF k <= Len(a) THEN a[k] ELSE b[k - Len(a)]
  <2>1. /\ a \o b \in Seq(T) /\ Len(a \o b) = Len(a) + Len(b)
        /\ \A k \in 1 .. Len(a) + Len(b) :
              (a \o b)[k] = IF k <= Len(a) THEN a[k] ELSE b[k - Len(a)]
    BY <1>2, ConcatProperties
  <2> QED BY <1>2, <1>4, <2>1
<1>6. p = u \o c
  BY <1>1, <1>4
<1>7. /\ p \in Seq(T) /\ Len(p) = Len(a) + 1 + Len(c)
      /\ \A k \in 1 .. Len(a) + 1 + Len(c) :
            p[k] = IF k <= Len(a) + 1 THEN u[k] ELSE c[k - (Len(a) + 1)]
  <2>1. /\ u \o c \in Seq(T) /\ Len(u \o c) = Len(u) + Len(c)
        /\ \A k \in 1 .. Len(u) + Len(c) :
              (u \o c)[k] = IF k <= Len(u) THEN u[k] ELSE c[k - Len(u)]
    <3>1. u \in Seq(T)
      BY <1>5
    <3> QED BY <3>1, ConcatProperties
  <2> QED BY <1>5, <1>6, <2>1
<1>8. DOMAIN p = 1 .. Len(p)
  BY <1>7
<1>9. \A k \in 1 .. Len(a) : p[k] = a[k]
  BY <1>3, <1>5, <1>7
<1>10. p[Len(a) + 1] = x
  BY <1>2, <1>3, <1>5, <1>7
<1>11. ASSUME NEW k \in 1 .. Len(c) PROVE p[Len(a) + 1 + k] = c[k]
  <2>1. /\ Len(a) + 1 + k \in 1 .. Len(a) + 1 + Len(c) /\ ~(Len(a) + 1 + k <= Len(a) + 1)
        /\ Len(a) + 1 + k - (Len(a) + 1) = k
    BY <1>3
  <2> QED BY <1>7, <2>1
<1> QED BY <1>1, <1>4, <1>6, <1>7, <1>8, <1>9, <1>10, <1>11

\* What FlattenSeq computes by recursion over the first m pieces of s.
Joined(g, s, m) == g = [i \in 1 .. m |-> IF i = 1 THEN s[i] ELSE g[i - 1] \o s[i]]

LEMMA JoinExists ==
    ASSUME NEW s
    PROVE  \A m \in Nat : \E g : Joined(g, s, m)
<1> DEFINE S == {m \in Nat : ~ \E g : Joined(g, s, m)}
<1>1. SUFFICES ASSUME S # {} PROVE FALSE
  OBVIOUS
<1>2. S \in SUBSET Nat
  OBVIOUS
<1> HIDE DEF S
<1>3. PICK m \in S : \A y \in S : m <= y
  BY <1>1, <1>2, LeastExists
<1>4. m \in Nat /\ ~ \E g : Joined(g, s, m)
  BY DEF S
<1>5. m # 0
  <2>1. Joined([i \in 1 .. 0 |-> 0], s, 0)
    BY DEF Joined
  <2> QED BY <1>4, <2>1
<1>6. PICK g : Joined(g, s, m - 1)
  <2>1. m - 1 \in Nat /\ ~(m <= m - 1)
    BY <1>4, <1>5
  <2>2. m - 1 \notin S
    BY <1>3, <2>1
  <2> QED BY <2>1, <2>2 DEF S
<1> DEFINE h == [i \in 1 .. m |-> IF i # m THEN g[i]
                                  ELSE IF m = 1 THEN s[1] ELSE g[m - 1] \o s[m]]
<1>7. \A i \in 1 .. m - 1 : g[i] = IF i = 1 THEN s[i] ELSE g[i - 1] \o s[i]
  BY <1>6 DEF Joined
<1>8. ASSUME NEW i \in 1 .. m
      PROVE  h[i] = IF i = 1 THEN s[i] ELSE h[i - 1] \o s[i]
  <2>1. CASE i = m
    <3>1. m # 1 => m - 1 \in 1 .. m /\ m - 1 # m
      BY <1>4, <1>5
    <3>2. m # 1 => h[m - 1] = g[m - 1]
      BY <3>1
    <3>3. h[m] = IF m = 1 THEN s[1] ELSE g[m - 1] \o s[m]
      BY <2>1
    <3> HIDE DEF h
    <3> QED BY <2>1, <3>2, <3>3
  <2>2. CASE i # m
    <3>1. i \in 1 .. m - 1 /\ h[i] = g[i]
      BY <1>4, <2>2
    <3>2. i # 1 => i - 1 \in 1 .. m /\ i - 1 # m
      BY <1>4, <3>1
    <3>3. i # 1 => h[i - 1] = g[i - 1]
      BY <3>2
    <3> HIDE DEF h
    <3> QED BY <1>7, <3>1, <3>3
  <2> QED BY <2>1, <2>2
<1>9. h = [i \in 1 .. m |-> h[i]]
  OBVIOUS
<1> HIDE DEF h
<1>10. Joined(h, s, m)
  BY <1>8, <1>9 DEF Joined
<1> QED BY <1>4, <1>10

LEMMA PairAppended ==
    ASSUME NEW T, NEW u \in Seq(T), NEW x \in T, NEW y \in T
    PROVE  /\ u \o <<x, y>> \in Seq(T) /\ Len(u \o <<x, y>>) = Len(u) + 2
           /\ \A i \in 1 .. Len(u) : (u \o <<x, y>>)[i] = u[i]
           /\ (u \o <<x, y>>)[Len(u) + 1] = x /\ (u \o <<x, y>>)[Len(u) + 2] = y
<1>1. PICK v \in Seq(T) : v = <<x, y>>
  <2>1. <<x, y>> \in Seq(T)
    OBVIOUS
  <2> QED BY <2>1, Zenon
<1>2. Len(v) = 2 /\ v[1] = x /\ v[2] = y /\ Len(u) \in Nat
  BY <1>1
<1>3. /\ u \o v \in Seq(T) /\ Len(u \o v) = Len(u) + Len(v)
      /\ \A i \in 1 .. Len(u) + Len(v) :
             (u \o v)[i] = IF i <= Len(u) THEN u[i] ELSE v[i - Len(u)]
  BY ConcatProperties
<1>4. /\ u \o v \in Seq(T) /\ Len(u \o v) = Len(u) + 2
      /\ \A i \in 1 .. Len(u) : (u \o v)[i] = u[i]
      /\ (u \o v)[Len(u) + 1] = v[1] /\ (u \o v)[Len(u) + 2] = v[2]
  BY <1>2, <1>3
<1> QED BY <1>1, <1>2, <1>4

\* Read-backs come in pairs: the request and the flush that fetches its answer.
Pairs(r, s, n, T) ==
    /\ r \in Seq(T) /\ Len(r) = 2 * n
    /\ \A i \in 1 .. n : r[2 * i - 1] = s[i][1] /\ r[2 * i] = s[i][2]

LEMMA PairsJoined ==
    ASSUME NEW T, NEW n \in Nat, NEW s, s \in [1 .. n -> T \X T]
    PROVE  Pairs(Seqs!FlattenSeq(s), s, n, T)
<1> DEFINE r == Seqs!FlattenSeq(s)
<1>0. SUFFICES /\ r \in Seq(T) /\ Len(r) = 2 * n
               /\ \A i \in 1 .. n : r[2 * i - 1] = s[i][1] /\ r[2 * i] = s[i][2]
  BY DEF Pairs
<1>1. Len(s) = n /\ \A i \in 1 .. n : s[i] \in T \X T
  OBVIOUS
<1>2. CASE n = 0
  <2>1. s = <<>>
    BY <1>1, <1>2
  <2>2. Seqs!FlattenSeq(s) = <<>>
    BY <2>1 DEF Seqs!FlattenSeq
  <2>3. r = <<>>
    BY <2>2
  <2>4. r \in Seq(T) /\ Len(r) = 0
    BY <2>3
  <2> QED BY <1>2, <2>4
<1>3. CASE n # 0
  <2> DEFINE g == CHOOSE h : Joined(h, s, n)
  <2>1. Joined(g, s, n)
    BY JoinExists
  <2>2. Seqs!FlattenSeq(s) = g[n]
    BY <1>1, <1>3 DEF Seqs!FlattenSeq, Joined
  <2> HIDE DEF g
  <2> DEFINE Good(k) == /\ g[k] \in Seq(T) /\ Len(g[k]) = 2 * k
                        /\ \A i \in 1 .. k : g[k][2 * i - 1] = s[i][1] /\ g[k][2 * i] = s[i][2]
             Bad == {k \in 1 .. n : ~Good(k)}
  <2>3. Bad = {}
    <3>1. SUFFICES ASSUME Bad # {} PROVE FALSE
      OBVIOUS
    <3>2. Bad \in SUBSET Nat
      OBVIOUS
    <3> HIDE DEF Bad
    <3>3. PICK m \in Bad : \A y \in Bad : m <= y
      BY <3>1, <3>2, LeastExists
    <3> HIDE DEF Good
    <3>4. m \in 1 .. n /\ ~Good(m)
      BY DEF Bad
    <3>5. g[m] = IF m = 1 THEN s[m] ELSE g[m - 1] \o s[m]
      BY <2>1, <3>4 DEF Joined
    <3>6. s[m] = <<s[m][1], s[m][2]>> /\ s[m][1] \in T /\ s[m][2] \in T
      BY <1>1, <3>4
    <3>7. CASE m = 1
      <4>1. g[m] = <<s[m][1], s[m][2]>>
        BY <3>5, <3>6, <3>7
      <4>2. /\ g[m] \in Seq(T) /\ Len(g[m]) = 2
            /\ g[m][1] = s[m][1] /\ g[m][2] = s[m][2]
        BY <3>6, <4>1
      <4>3. \A i \in 1 .. m : i = m /\ 2 * i - 1 = 1 /\ 2 * i = 2
        BY <3>7
      <4>4. \A i \in 1 .. m : g[m][2 * i - 1] = s[i][1] /\ g[m][2 * i] = s[i][2]
        BY <4>2, <4>3
      <4> QED BY <3>4, <3>7, <4>2, <4>4 DEF Good
    <3>8. CASE m # 1
      <4>1. m - 1 \in 1 .. n /\ ~(m <= m - 1)
        BY <3>4, <3>8
      <4>2. Good(m - 1)
        BY <3>3, <4>1 DEF Bad
      <4>3. PICK u \in Seq(T) : u = g[m - 1]
        BY <4>2 DEF Good
      <4>4. Len(u) = 2 * (m - 1)
        BY <4>2, <4>3 DEF Good
      <4>5. \A i \in 1 .. m - 1 : u[2 * i - 1] = s[i][1] /\ u[2 * i] = s[i][2]
        BY <4>2, <4>3 DEF Good
      <4>6. g[m] = u \o <<s[m][1], s[m][2]>>
        BY <3>5, <3>6, <3>8, <4>3
      <4>7. /\ g[m] \in Seq(T) /\ Len(g[m]) = Len(u) + 2
            /\ \A i \in 1 .. Len(u) : g[m][i] = u[i]
            /\ g[m][Len(u) + 1] = s[m][1] /\ g[m][Len(u) + 2] = s[m][2]
        BY <3>6, <4>6, PairAppended
      <4>8. ASSUME NEW i \in 1 .. m
            PROVE  g[m][2 * i - 1] = s[i][1] /\ g[m][2 * i] = s[i][2]
        <5>1. CASE i = m
          <6>1. 2 * i - 1 = Len(u) + 1 /\ 2 * i = Len(u) + 2
            BY <3>4, <4>4, <5>1
          <6> QED BY <4>7, <5>1, <6>1
        <5>2. CASE i # m
          <6>1. /\ i \in 1 .. m - 1
                /\ 2 * i - 1 \in 1 .. Len(u) /\ 2 * i \in 1 .. Len(u)
            BY <3>4, <4>4, <5>2
          <6> QED BY <4>5, <4>7, <6>1
        <5> QED BY <5>1, <5>2
      <4>9. Len(g[m]) = 2 * m
        BY <3>4, <4>4, <4>7
      <4> QED BY <3>4, <4>7, <4>8, <4>9 DEF Good
    <3> QED BY <3>4, <3>7, <3>8
  <2> HIDE DEF Good
  <2>4. Good(n)
    <3>1. n \in 1 .. n /\ n \notin Bad
      BY <1>3, <2>3
    <3> QED BY <3>1, Zenon
  <2> QED BY <2>2, <2>4 DEF Good
<1> QED BY <1>2, <1>3

\* What a plan has to be for its answers to mean anything: frames the board
\* answers by opcode alone, and of each kind the write before the read.
Asked == {ClassifyOp} \cup BloomWriteOp .. RuleReadOp

WriteBeforeRead(p, write, read) ==
    \A j, k \in DOMAIN p : p[j].op = write /\ p[k].op = read => j < k

Sound(p) ==
    /\ DOMAIN p = 1 .. Len(p) /\ Len(p) \in Nat
    /\ \A k \in DOMAIN p : p[k].op \in Asked /\ p[k].at \in Nat
    /\ WriteBeforeRead(p, BloomWriteOp, BloomReadOp)
    /\ WriteBeforeRead(p, ThreshWriteOp, ThreshReadOp)
    /\ WriteBeforeRead(p, RuleWriteOp, RuleReadOp)

\* The plan of a hot load writes the words of the new filter and nothing
\* else, reads every word back that is not zero, and ends with a flush.
Loads(p) ==
    /\ \A k \in DOMAIN p : p[k].op = BloomWriteOp =>
          /\ p[k].at \in 0 .. Words - 1
          /\ p[k].val.word = build_words[p[k].at]
    /\ \A w \in 0 .. Words - 1 : \E k \in DOMAIN p : p[k].op = BloomWriteOp /\ p[k].at = w
    /\ \A w \in nonzero_addrs : \E k \in DOMAIN p :
          k + 1 \in DOMAIN p /\ p[k].op = BloomReadOp /\ p[k].at = w
    /\ \A k \in DOMAIN p :
          /\ p[k].op \in {ClassifyOp, BloomWriteOp, BloomReadOp}
          /\ p[k].op = BloomReadOp => p[k].at \in 0 .. Words - 1
    /\ p[Len(p)].op = ClassifyOp

LEMMA Opcodes ==
    /\ ClassifyOp = 0 /\ BloomWriteOp = 16 /\ ThreshWriteOp = 17 /\ RuleWriteOp = 18
    /\ BloomReadOp = 19 /\ ThreshReadOp = 20 /\ RuleReadOp = 21
  BY DEF ClassifyOp, BloomWriteOp, ThreshWriteOp, RuleWriteOp, BloomReadOp,
         ThreshReadOp, RuleReadOp

LEMMA Requests ==
    \A op, at, val :
        Req(op, at, val).op = op /\ Req(op, at, val).at = at /\ Req(op, at, val).val = val
  BY DEF Req

\* The addresses of the read-backs: words, every nonzero one among them.
LEMMA Sampled ==
    ASSUME NEW zeros \in ZeroSamples
    PROVE  LET addrs == Seqs!SetToSeq(nonzero_addrs) \o Seqs!SetToSeq(zeros)
           IN  /\ addrs \in Seq(0 .. Words - 1)
               /\ \A w \in nonzero_addrs : \E i \in 1 .. Len(addrs) : addrs[i] = w
<1>1. zeros \subseteq 0 .. Words - 1 /\ IsFiniteSet(zeros)
  <2>1. zeros \subseteq 0 .. Words - 1
    BY DEF ZeroSamples, build_words, from_ips
  <2>2. IsFiniteSet(0 .. Words - 1)
    BY Sizes, FS_Interval
  <2> QED BY <2>1, <2>2, FS_Subset
<1> DEFINE m == Cardinality(nonzero_addrs)
           A == Seqs!SetToSeq(nonzero_addrs)
           n == Cardinality(zeros)
           Z == Seqs!SetToSeq(zeros)
<1>2. /\ m \in Nat /\ A \in [1 .. m -> nonzero_addrs]
      /\ \A w \in nonzero_addrs : \E i \in 1 .. m : A[i] = w
  BY NonzeroWords, Listed
<1>3. n \in Nat /\ Z \in [1 .. n -> zeros]
  BY <1>1, Listed
<1>x. SUFFICES /\ A \o Z \in Seq(0 .. Words - 1)
               /\ \A w \in nonzero_addrs : \E i \in 1 .. Len(A \o Z) : (A \o Z)[i] = w
  OBVIOUS
<1> HIDE DEF m, A, n, Z
<1>4. A \in Seq(0 .. Words - 1) /\ Len(A) = m
  BY <1>2, NonzeroWords, ListIsSeq
<1>5. Z \in Seq(0 .. Words - 1) /\ Len(Z) = n
  BY <1>1, <1>3, ListIsSeq
<1>6. /\ A \o Z \in Seq(0 .. Words - 1) /\ Len(A \o Z) = m + n
      /\ \A i \in 1 .. m + n : (A \o Z)[i] = IF i <= m THEN A[i] ELSE Z[i - m]
  BY <1>4, <1>5, ConcatProperties
<1>7. ASSUME NEW w \in nonzero_addrs
      PROVE  \E i \in 1 .. Len(A \o Z) : (A \o Z)[i] = w
  <2>1. PICK i \in 1 .. m : A[i] = w
    BY <1>2
  <2>2. i \in 1 .. m + n /\ i <= m
    BY <1>2, <1>3
  <2> QED BY <1>6, <2>1, <2>2
<1> QED BY <1>6, <1>7

\* Position by position: the writes, a flush, the pairs.
LEMMA LoadShape ==
    ASSUME NEW zeros \in ZeroSamples
    PROVE  \E n \in Nat : \E addrs \in [1 .. n -> 0 .. Words - 1] :
              /\ DOMAIN Load(zeros) = 1 .. Len(Load(zeros))
              /\ Len(Load(zeros)) = Words + 1 + 2 * n
              /\ \A k \in 1 .. Words : Load(zeros)[k] = WordWrites[k]
              /\ Load(zeros)[Words + 1] = Flush
              /\ \A i \in 1 .. n :
                    /\ Load(zeros)[Words + 2 * i] = Asking(BloomReadOp, addrs[i])
                    /\ Load(zeros)[Words + 1 + 2 * i] = Flush
              /\ \A w \in nonzero_addrs : \E i \in 1 .. n : addrs[i] = w
<1> DEFINE addrs == Seqs!SetToSeq(nonzero_addrs) \o Seqs!SetToSeq(zeros)
           n == Len(addrs)
           T == {WordWrites[k] : k \in 1 .. Words} \cup {Flush}
                \cup {Asking(BloomReadOp, w) : w \in 0 .. Words - 1}
           a == [i \in 1 .. n |-> Asking(BloomReadOp, addrs[i])]
           q == [i \in 1 .. n |-> <<a[i], Flush>>]
           pairs == Seqs!FlattenSeq(q)
<1>1. /\ addrs \in Seq(0 .. Words - 1)
      /\ \A w \in nonzero_addrs : \E i \in 1 .. n : addrs[i] = w
  BY Sampled
<1>2. Load(zeros) = WordWrites \o <<Flush>>
                    \o Seqs!FlattenSeq([i \in DOMAIN addrs |->
                          <<Asking(BloomReadOp, addrs[i]), Flush>>])
  BY Zenon DEF Load
<1> HIDE DEF addrs
<1>3. n \in Nat /\ DOMAIN addrs = 1 .. n /\ addrs \in [1 .. n -> 0 .. Words - 1]
  BY <1>1, LenProperties
<1>4. [i \in DOMAIN addrs |-> <<Asking(BloomReadOp, addrs[i]), Flush>>]
        = q
  BY <1>3
<1>5. Load(zeros) = WordWrites \o <<Flush>> \o pairs
  BY <1>2, <1>4
<1>6. a \in [1 .. n -> T] /\ Flush \in T
  <2>1. \A i \in 1 .. n : a[i] \in T
    BY <1>3
  <2> QED BY <2>1
<1>7. WordWrites \in Seq(T) /\ Len(WordWrites) = Words
  <2>1. WordWrites \in [1 .. Words -> T]
    BY DEF WordWrites
  <2> HIDE DEF T
  <2> QED BY <2>1, Sizes, ListIsSeq
<1>8. \A i \in 1 .. n : a[i] = Asking(BloomReadOp, addrs[i])
  OBVIOUS
<1> HIDE DEF T, a, n
<1>9. /\ pairs \in Seq(T) /\ Len(pairs) = 2 * n
      /\ \A i \in 1 .. n : pairs[2 * i - 1] = a[i] /\ pairs[2 * i] = Flush
  <2>1. q \in [1 .. n -> T \X T]
    BY <1>6
  <2>2. \A i \in 1 .. n : q[i][1] = a[i] /\ q[i][2] = Flush
    OBVIOUS
  <2>3. n \in Nat
    BY <1>3
  <2> HIDE DEF q
  <2>4. Pairs(Seqs!FlattenSeq(q), q, n, T)
    BY <2>1, <2>3, PairsJoined, Zenon
  <2> QED BY <2>2, <2>4 DEF Pairs
<1> HIDE DEF pairs
<1>10. PICK p : p = Load(zeros)
  OBVIOUS
<1>11. /\ DOMAIN p = 1 .. Len(p) /\ Len(p) = Words + 1 + 2 * n
       /\ \A k \in 1 .. Words : p[k] = WordWrites[k]
       /\ p[Words + 1] = Flush
       /\ \A k \in 1 .. 2 * n : p[Words + 1 + k] = pairs[k]
  <2>1. WordWrites \in Seq(T) /\ Flush \in T /\ pairs \in Seq(T)
    BY <1>6, <1>7, <1>9
  <2>2. p = WordWrites \o <<Flush>> \o pairs
    BY <1>5, <1>10
  <2>3. /\ DOMAIN p = 1 .. Len(p) /\ Len(p) = Len(WordWrites) + 1 + Len(pairs)
        /\ \A k \in 1 .. Len(WordWrites) : p[k] = WordWrites[k]
        /\ p[Len(WordWrites) + 1] = Flush
        /\ \A k \in 1 .. Len(pairs) : p[Len(WordWrites) + 1 + k] = pairs[k]
    BY <2>1, <2>2, ThreeParts
  <2> QED BY <1>7, <1>9, <2>3
<1>12. ASSUME NEW i \in 1 .. n
       PROVE  p[Words + 2 * i] = Asking(BloomReadOp, addrs[i])
              /\ p[Words + 1 + 2 * i] = Flush
  <2>1. /\ 2 * i - 1 \in 1 .. 2 * n /\ 2 * i \in 1 .. 2 * n
        /\ Words + 1 + (2 * i - 1) = Words + 2 * i
    BY <1>3, Sizes
  <2> QED BY <1>8, <1>9, <1>11, <2>1
<1>13. \A w \in nonzero_addrs : \E i \in 1 .. n : addrs[i] = w
  BY <1>1 DEF n
<1> QED BY <1>3, <1>10, <1>11, <1>12, <1>13

LEMMA LoadPlan ==
    ASSUME NEW zeros \in ZeroSamples
    PROVE  Sound(Load(zeros)) /\ Loads(Load(zeros))
<1>0. PICK n \in Nat : \E addrs \in [1 .. n -> 0 .. Words - 1] :
        /\ DOMAIN Load(zeros) = 1 .. Len(Load(zeros))
        /\ Len(Load(zeros)) = Words + 1 + 2 * n
        /\ \A k \in 1 .. Words : Load(zeros)[k] = WordWrites[k]
        /\ Load(zeros)[Words + 1] = Flush
        /\ \A i \in 1 .. n :
              /\ Load(zeros)[Words + 2 * i] = Asking(BloomReadOp, addrs[i])
              /\ Load(zeros)[Words + 1 + 2 * i] = Flush
        /\ \A w \in nonzero_addrs : \E i \in 1 .. n : addrs[i] = w
  BY LoadShape
<1>1. PICK addrs \in [1 .. n -> 0 .. Words - 1] :
        /\ DOMAIN Load(zeros) = 1 .. Len(Load(zeros))
        /\ Len(Load(zeros)) = Words + 1 + 2 * n
        /\ \A k \in 1 .. Words : Load(zeros)[k] = WordWrites[k]
        /\ Load(zeros)[Words + 1] = Flush
        /\ \A i \in 1 .. n :
              /\ Load(zeros)[Words + 2 * i] = Asking(BloomReadOp, addrs[i])
              /\ Load(zeros)[Words + 1 + 2 * i] = Flush
        /\ \A w \in nonzero_addrs : \E i \in 1 .. n : addrs[i] = w
  BY <1>0
<1>2. PICK p : p = Load(zeros)
  OBVIOUS
<1>3. Flush.op = ClassifyOp /\ Flush.at = 0
  BY Requests DEF Flush, Asking
<1>4. \A w : Asking(BloomReadOp, w).op = BloomReadOp /\ Asking(BloomReadOp, w).at = w
  BY Requests DEF Asking
<1>5. \A k \in 1 .. Words : /\ WordWrites[k].op = BloomWriteOp /\ WordWrites[k].at = k - 1
                            /\ WordWrites[k].val.word = build_words[k - 1]
  BY Requests DEF WordWrites
<1>6. /\ DOMAIN p = 1 .. Len(p) /\ Len(p) = Words + 1 + 2 * n
      /\ \A k \in 1 .. Words : /\ p[k].op = BloomWriteOp /\ p[k].at = k - 1
                               /\ p[k].val.word = build_words[k - 1]
      /\ p[Words + 1].op = ClassifyOp /\ p[Words + 1].at = 0
      /\ \A i \in 1 .. n : /\ p[Words + 2 * i].op = BloomReadOp
                           /\ p[Words + 2 * i].at = addrs[i]
                           /\ p[Words + 1 + 2 * i].op = ClassifyOp
                           /\ p[Words + 1 + 2 * i].at = 0
  <2>1. DOMAIN p = 1 .. Len(p) /\ Len(p) = Words + 1 + 2 * n
    BY <1>1, <1>2
  <2>2. \A k \in 1 .. Words : p[k] = WordWrites[k]
    BY <1>1, <1>2
  <2>3. p[Words + 1] = Flush
    BY <1>1, <1>2
  <2>4. \A i \in 1 .. n : /\ p[Words + 2 * i] = Asking(BloomReadOp, addrs[i])
                          /\ p[Words + 1 + 2 * i] = Flush
    BY <1>1, <1>2
  <2>5. \A k \in 1 .. Words : /\ p[k].op = BloomWriteOp /\ p[k].at = k - 1
                              /\ p[k].val.word = build_words[k - 1]
    BY <1>5, <2>2
  <2>6. p[Words + 1].op = ClassifyOp /\ p[Words + 1].at = 0
    BY <1>3, <2>3
  <2>7. ASSUME NEW i \in 1 .. n
        PROVE  /\ p[Words + 2 * i].op = BloomReadOp
               /\ p[Words + 2 * i].at = addrs[i]
               /\ p[Words + 1 + 2 * i].op = ClassifyOp
               /\ p[Words + 1 + 2 * i].at = 0
    <3>1. p[Words + 2 * i] = Asking(BloomReadOp, addrs[i]) /\ p[Words + 1 + 2 * i] = Flush
      BY <2>4
    <3> QED BY <1>3, <1>4, <3>1
  <2> QED BY <2>1, <2>5, <2>6, <2>7
<1>7. ASSUME NEW k \in DOMAIN p
      PROVE  \/ k \in 1 .. Words
             \/ k = Words + 1
             \/ \E i \in 1 .. n : k = Words + 2 * i
             \/ \E i \in 1 .. n : k = Words + 1 + 2 * i
  <2>1. k \in Nat /\ k >= 1 /\ k <= Words + 1 + 2 * n
    BY <1>6, Sizes
  <2>2. CASE k > Words + 1
    <3> DEFINE d == k - (Words + 1)
    <3>1. d \in Nat /\ k = Words + 1 + d /\ d >= 1 /\ d <= 2 * n
      BY <2>1, <2>2, Sizes
    <3> HIDE DEF d
    <3>2. PICK h \in Nat : d = 2 * h \/ d = 2 * h + 1
      <4>1. d \div 2 \in Nat /\ (d = 2 * (d \div 2) \/ d = 2 * (d \div 2) + 1)
        BY <3>1
      <4> QED BY <4>1
    <3>3. CASE d = 2 * h
      BY <3>1, <3>3, Sizes
    <3>4. CASE d = 2 * h + 1
      <4>1. h + 1 \in 1 .. n /\ k = Words + 2 * (h + 1)
        BY <3>1, <3>4, Sizes
      <4> QED BY <4>1
    <3> QED BY <3>2, <3>3, <3>4
  <2> QED BY <2>1, <2>2, Sizes
<1>8. \A k \in DOMAIN p : /\ p[k].op = BloomWriteOp => k \in 1 .. Words
                          /\ p[k].op = BloomReadOp => k > Words /\ p[k].at \in 0 .. Words - 1
                          /\ p[k].op \in {ClassifyOp, BloomWriteOp, BloomReadOp}
                          /\ p[k].at \in Nat
  <2> SUFFICES ASSUME NEW k \in DOMAIN p
      PROVE  /\ p[k].op = BloomWriteOp => k \in 1 .. Words
             /\ p[k].op = BloomReadOp => k > Words /\ p[k].at \in 0 .. Words - 1
             /\ p[k].op \in {ClassifyOp, BloomWriteOp, BloomReadOp}
             /\ p[k].at \in Nat
    OBVIOUS
  <2>1. CASE k \in 1 .. Words
    <3>1. k - 1 \in Nat
      BY <2>1, Sizes
    <3> QED BY <1>6, <2>1, <3>1, Opcodes
  <2>2. CASE k = Words + 1
    BY <1>6, <2>2, Opcodes, Sizes
  <2>3. CASE \E i \in 1 .. n : k = Words + 2 * i
    <3>1. PICK i \in 1 .. n : k = Words + 2 * i
      BY <2>3
    <3>2. addrs[i] \in 0 .. Words - 1 /\ addrs[i] \in Nat /\ k > Words
      BY <3>1, Sizes
    <3> QED BY <1>6, <3>1, <3>2, Opcodes
  <2>4. CASE \E i \in 1 .. n : k = Words + 1 + 2 * i
    <3>1. PICK i \in 1 .. n : k = Words + 1 + 2 * i
      BY <2>4
    <3>2. p[k].op = 0 /\ p[k].at = 0
      BY <1>6, <3>1, Opcodes
    <3> QED BY <3>2, Opcodes
  <2> QED BY <1>7, <2>1, <2>2, <2>3, <2>4
<1>9. Sound(p)
  <2>1. DOMAIN p = 1 .. Len(p) /\ Len(p) \in Nat
    BY <1>6, Sizes
  <2>2. \A k \in DOMAIN p : p[k].op \in Asked /\ p[k].at \in Nat
    BY <1>8, Opcodes DEF Asked
  <2>3. /\ WriteBeforeRead(p, BloomWriteOp, BloomReadOp)
        /\ WriteBeforeRead(p, ThreshWriteOp, ThreshReadOp)
        /\ WriteBeforeRead(p, RuleWriteOp, RuleReadOp)
    <3>1. \A k \in DOMAIN p : p[k].op \notin {ThreshWriteOp, RuleWriteOp}
      BY <1>8, Opcodes
    <3>2. ASSUME NEW j \in DOMAIN p, NEW k \in DOMAIN p,
                 p[j].op = BloomWriteOp, p[k].op = BloomReadOp
          PROVE  j < k
      <4>1. j \in 1 .. Words /\ k > Words /\ k \in Nat
        BY <1>8, <2>1, <3>2
      <4> QED BY <4>1, Sizes
    <3> QED BY <3>1, <3>2 DEF WriteBeforeRead
  <2> QED BY <2>1, <2>2, <2>3 DEF Sound
<1>10. Loads(p)
  <2>1. ASSUME NEW k \in DOMAIN p, p[k].op = BloomWriteOp
        PROVE  p[k].at \in 0 .. Words - 1 /\ p[k].val.word = build_words[p[k].at]
    BY <1>6, <1>8, <2>1, Sizes
  <2>2. ASSUME NEW w \in 0 .. Words - 1
        PROVE  \E k \in DOMAIN p : p[k].op = BloomWriteOp /\ p[k].at = w
    <3>1. w + 1 \in 1 .. Words /\ w + 1 \in DOMAIN p /\ (w + 1) - 1 = w
      BY <1>6, Sizes
    <3> QED BY <1>6, <3>1
  <2>3. ASSUME NEW w \in nonzero_addrs
        PROVE  \E k \in DOMAIN p :
                  k + 1 \in DOMAIN p /\ p[k].op = BloomReadOp /\ p[k].at = w
    <3>1. PICK i \in 1 .. n : addrs[i] = w
      BY <1>1
    <3>2. /\ Words + 2 * i \in DOMAIN p /\ Words + 2 * i + 1 \in DOMAIN p
      BY <1>6, Sizes
    <3> QED BY <1>6, <3>1, <3>2
  <2>4. p[Len(p)].op = ClassifyOp
    <3>1. CASE n = 0
      <4>1. Len(p) = Words + 1
        BY <1>6, <3>1, Sizes
      <4> QED BY <1>6, <4>1
    <3>2. CASE n # 0
      <4>1. n \in 1 .. n /\ Len(p) = Words + 1 + 2 * n
        BY <1>6, <3>2
      <4> QED BY <1>6, <4>1
    <3> QED BY <3>1, <3>2
  <2> QED BY <1>8, <2>1, <2>2, <2>3, <2>4 DEF Loads
<1> QED BY <1>2, <1>9, <1>10

(***************************************************************************)
(* The plans of the two other checks                                        *)
(***************************************************************************)
Chained(p, a, b, c) ==
    /\ DOMAIN p = 1 .. 12 /\ Len(p) = 12
    /\ \A i \in 1 .. 4 : p[i] = a[i]
    /\ \A i \in 1 .. 4 : p[4 + i] = b[i]
    /\ \A i \in 1 .. 4 : p[8 + i] = c[i]

LEMMA FourFour ==
    ASSUME NEW T, NEW a, NEW b, NEW c, a \in Seq(T), b \in Seq(T), c \in Seq(T),
           Len(a) = 4, Len(b) = 4, Len(c) = 4, NEW p, p = a \o b \o c
    PROVE  Chained(p, a, b, c)
<1>1. PICK u : u = a \o b
  OBVIOUS
<1>2. /\ u \in Seq(T) /\ Len(u) = 8
      /\ \A k \in 1 .. 8 : u[k] = IF k <= 4 THEN a[k] ELSE b[k - 4]
  <2>1. /\ a \o b \in Seq(T) /\ Len(a \o b) = Len(a) + Len(b)
        /\ \A k \in 1 .. Len(a) + Len(b) :
              (a \o b)[k] = IF k <= Len(a) THEN a[k] ELSE b[k - Len(a)]
    BY ConcatProperties
  <2> QED BY <1>1, <2>1
<1>3. /\ p \in Seq(T) /\ Len(p) = 12
      /\ \A k \in 1 .. 12 : p[k] = IF k <= 8 THEN u[k] ELSE c[k - 8]
  <2>1. /\ u \o c \in Seq(T) /\ Len(u \o c) = Len(u) + Len(c)
        /\ \A k \in 1 .. Len(u) + Len(c) :
              (u \o c)[k] = IF k <= Len(u) THEN u[k] ELSE c[k - Len(u)]
    <3>1. u \in Seq(T)
      BY <1>2
    <3> QED BY <3>1, ConcatProperties
  <2> QED BY <1>1, <1>2, <2>1
<1>4. ASSUME NEW i \in 1 .. 4
      PROVE  p[i] = a[i] /\ p[4 + i] = b[i] /\ p[8 + i] = c[i]
  <2>1. p[i] = a[i]
    BY <1>2, <1>3
  <2>2. p[4 + i] = b[i]
    BY <1>2, <1>3
  <2>3. p[8 + i] = c[i]
    BY <1>3
  <2> QED BY <2>1, <2>2, <2>3
<1>5. DOMAIN p = 1 .. 12
  <2>1. DOMAIN p = 1 .. Len(p)
    BY <1>3
  <2> QED BY <1>3, <2>1
<1>6. /\ \A i \in 1 .. 4 : p[i] = a[i]
      /\ \A i \in 1 .. 4 : p[4 + i] = b[i]
      /\ \A i \in 1 .. 4 : p[8 + i] = c[i]
  BY <1>4
<1>7. Len(p) = 12
  BY <1>3
<1> QED BY <1>5, <1>6, <1>7 DEF Chained

LEMMA RuntimePlan ==
    LET wide  == [value |-> DefaultRate + 1]
        word  == [word |-> {0, 1}]
        rule  == [rule |-> MyRule]
    IN  /\ DOMAIN RuntimeCheck = 1 .. 12 /\ Len(RuntimeCheck) = 12
        /\ RuntimeCheck[1] = Req(ThreshWriteOp, 2, wide)
        /\ RuntimeCheck[3] = Asking(ThreshReadOp, 2)
        /\ RuntimeCheck[5] = Req(BloomWriteOp, 1, word)
        /\ RuntimeCheck[7] = Asking(BloomReadOp, 1)
        /\ RuntimeCheck[9] = Req(RuleWriteOp, 1, rule)
        /\ RuntimeCheck[11] = Asking(RuleReadOp, 1)
        /\ \A k \in {2, 4, 6, 8, 10, 12} : RuntimeCheck[k] = Flush
<1> DEFINE a == write_then_read(ThreshWriteOp, 2, [value |-> DefaultRate + 1], ThreshReadOp)
           b == write_then_read(BloomWriteOp, 1, [word |-> {0, 1}], BloomReadOp)
           c == write_then_read(RuleWriteOp, 1, [rule |-> MyRule], RuleReadOp)
           T == {a[i] : i \in 1 .. 4} \cup {b[i] : i \in 1 .. 4} \cup {c[i] : i \in 1 .. 4}
<1>1. \A op, at, val, read :
        /\ Len(write_then_read(op, at, val, read)) = 4
        /\ write_then_read(op, at, val, read)[1] = Req(op, at, val)
        /\ write_then_read(op, at, val, read)[2] = Flush
        /\ write_then_read(op, at, val, read)[3] = Asking(read, at)
        /\ write_then_read(op, at, val, read)[4] = Flush
        /\ DOMAIN write_then_read(op, at, val, read) = 1 .. 4
        /\ write_then_read(op, at, val, read)
             = [i \in 1 .. 4 |-> write_then_read(op, at, val, read)[i]]
  <2> SUFFICES ASSUME NEW op, NEW at, NEW val, NEW read
      PROVE  LET w == write_then_read(op, at, val, read)
             IN  /\ Len(w) = 4 /\ w[1] = Req(op, at, val) /\ w[2] = Flush
                 /\ w[3] = Asking(read, at) /\ w[4] = Flush /\ DOMAIN w = 1 .. 4
                 /\ w = [i \in 1 .. 4 |-> w[i]]
    OBVIOUS
  <2>1. PICK w : w = write_then_read(op, at, val, read)
    OBVIOUS
  <2>2. w = <<Req(op, at, val), Flush, Asking(read, at), Flush>>
    BY <2>1 DEF write_then_read
  <2>3. /\ Len(w) = 4 /\ w[1] = Req(op, at, val) /\ w[2] = Flush
        /\ w[3] = Asking(read, at) /\ w[4] = Flush /\ DOMAIN w = 1 .. 4
        /\ w = [i \in 1 .. 4 |-> w[i]]
    BY <2>2
  <2> QED BY <2>1, <2>3
<1>2. a \in Seq(T) /\ b \in Seq(T) /\ c \in Seq(T)
  <2>1. a \in [1 .. 4 -> T] /\ b \in [1 .. 4 -> T] /\ c \in [1 .. 4 -> T]
    BY <1>1
  <2> HIDE DEF a, b, c, T
  <2>2. T \in SUBSET T /\ 4 \in Nat
    OBVIOUS
  <2> QED BY <2>1, <2>2, ListIsSeq
<1>3. RuntimeCheck = a \o b \o c
  BY DEF RuntimeCheck
<1>4. Len(a) = 4 /\ Len(b) = 4 /\ Len(c) = 4
  BY <1>1
<1>5. /\ a[1] = Req(ThreshWriteOp, 2, [value |-> DefaultRate + 1])
      /\ a[3] = Asking(ThreshReadOp, 2) /\ a[2] = Flush /\ a[4] = Flush
  BY <1>1
<1>6. /\ b[1] = Req(BloomWriteOp, 1, [word |-> {0, 1}])
      /\ b[3] = Asking(BloomReadOp, 1) /\ b[2] = Flush /\ b[4] = Flush
  BY <1>1
<1>7. /\ c[1] = Req(RuleWriteOp, 1, [rule |-> MyRule])
      /\ c[3] = Asking(RuleReadOp, 1) /\ c[2] = Flush /\ c[4] = Flush
  BY <1>1
<1> HIDE DEF a, b, c, T
<1>8. PICK p : p = RuntimeCheck
  OBVIOUS
<1>9. /\ DOMAIN p = 1 .. 12 /\ Len(p) = 12
      /\ \A i \in 1 .. 4 : p[i] = a[i]
      /\ \A i \in 1 .. 4 : p[4 + i] = b[i]
      /\ \A i \in 1 .. 4 : p[8 + i] = c[i]
  <2>1. p = a \o b \o c
    BY <1>3, <1>8
  <2>2. Chained(p, a, b, c)
    BY <1>2, <1>4, <2>1, FourFour, Zenon
  <2> QED BY <2>2 DEF Chained
<1>10. /\ p[1] = a[1] /\ p[2] = a[2] /\ p[3] = a[3] /\ p[4] = a[4]
       /\ p[5] = b[1] /\ p[6] = b[2] /\ p[7] = b[3] /\ p[8] = b[4]
       /\ p[9] = c[1] /\ p[10] = c[2] /\ p[11] = c[3] /\ p[12] = c[4]
  <2>1. 1 \in 1 .. 4 /\ 2 \in 1 .. 4 /\ 3 \in 1 .. 4 /\ 4 \in 1 .. 4
    OBVIOUS
  <2>2. /\ p[1] = a[1] /\ p[4 + 1] = b[1] /\ p[8 + 1] = c[1]
        /\ p[2] = a[2] /\ p[4 + 2] = b[2] /\ p[8 + 2] = c[2]
        /\ p[3] = a[3] /\ p[4 + 3] = b[3] /\ p[8 + 3] = c[3]
        /\ p[4] = a[4] /\ p[4 + 4] = b[4] /\ p[8 + 4] = c[4]
    BY <1>9, <2>1
  <2> QED BY <2>2
<1>11. \A k \in {2, 4, 6, 8, 10, 12} : p[k] = Flush
  BY <1>5, <1>6, <1>7, <1>10
<1> QED BY <1>5, <1>6, <1>7, <1>8, <1>9, <1>10, <1>11

LEMMA RuntimeSound == Sound(RuntimeCheck)
<1>1. PICK p : p = RuntimeCheck
  OBVIOUS
<1>2. /\ DOMAIN p = 1 .. 12 /\ Len(p) = 12
      /\ p[1].op = 17 /\ p[1].at = 2 /\ p[3].op = 20 /\ p[3].at = 2
      /\ p[5].op = 16 /\ p[5].at = 1 /\ p[7].op = 19 /\ p[7].at = 1
      /\ p[9].op = 18 /\ p[9].at = 1 /\ p[11].op = 21 /\ p[11].at = 1
      /\ \A k \in {2, 4, 6, 8, 10, 12} : p[k].op = 0 /\ p[k].at = 0
  BY <1>1, RuntimePlan, Requests, Opcodes DEF Asking, Flush
<1>3. \A k \in 1 .. 12 : k \in {1, 3, 5, 7, 9, 11} \/ k \in {2, 4, 6, 8, 10, 12}
  OBVIOUS
<1>4. \A k \in 1 .. 12 : p[k].op \in Asked /\ p[k].at \in Nat
  BY <1>2, <1>3, Opcodes DEF Asked
<1>5. /\ \A k \in 1 .. 12 : p[k].op = 16 => k = 5
      /\ \A k \in 1 .. 12 : p[k].op = 17 => k = 1
      /\ \A k \in 1 .. 12 : p[k].op = 18 => k = 9
      /\ \A k \in 1 .. 12 : p[k].op = 19 => k = 7
      /\ \A k \in 1 .. 12 : p[k].op = 20 => k = 3
      /\ \A k \in 1 .. 12 : p[k].op = 21 => k = 11
  BY <1>2, <1>3
<1>6. /\ WriteBeforeRead(p, BloomWriteOp, BloomReadOp)
      /\ WriteBeforeRead(p, ThreshWriteOp, ThreshReadOp)
      /\ WriteBeforeRead(p, RuleWriteOp, RuleReadOp)
  BY <1>2, <1>5, Opcodes DEF WriteBeforeRead
<1> QED BY <1>1, <1>2, <1>4, <1>6 DEF Sound

LEMMA FlowPlan ==
    /\ DOMAIN FlowCheck = 1 .. Len(FlowCheck) /\ Len(FlowCheck) = DefaultPort + 2
    /\ \A k \in 1 .. DefaultPort + 2 : FlowCheck[k].op = ClassifyOp /\ FlowCheck[k].at = 0
    /\ FlowCheck[DefaultPort] = Syn(SrcB, 1, DefaultPort)
    /\ FlowCheck[DefaultPort + 1] = Syn(SrcA, 1, DefaultPort)
<1> DEFINE d == DefaultPort - 1
           f == [i \in 1 .. d |-> Syn(SrcA, 1, i)]
           x == Syn(SrcB, 1, DefaultPort)
           y == Syn(SrcA, 1, DefaultPort)
           T == {f[i] : i \in 1 .. d} \cup {x, y, Flush}
<1>1. d \in Nat /\ d + 1 = DefaultPort
  BY Sizes
<1>2. FlowCheck = f \o <<x, y, Flush>>
  BY DEF FlowCheck
<1>3. \A src, dst, port : Syn(src, dst, port).op = ClassifyOp /\ Syn(src, dst, port).at = 0
  BY DEF Syn, hdr
<1>4. Flush.op = ClassifyOp /\ Flush.at = 0
  BY Requests DEF Flush, Asking
<1>5. \A t \in T : t.op = ClassifyOp /\ t.at = 0
  BY <1>3, <1>4
<1>6. f \in [1 .. d -> T] /\ x \in T /\ y \in T /\ Flush \in T
  OBVIOUS
<1> HIDE DEF f, x, y, T, d
<1>7. f \in Seq(T) /\ Len(f) = d
  BY <1>1, <1>6, ListIsSeq
<1>8. PICK v \in Seq(T) : v = <<x, y, Flush>> /\ Len(v) = 3 /\ v[1] = x /\ v[2] = y
  <2>1. <<x, y, Flush>> \in Seq(T)
    BY <1>6
  <2>2. PICK v \in Seq(T) : v = <<x, y, Flush>>
    BY <2>1, Zenon
  <2>3. Len(v) = 3 /\ v[1] = x /\ v[2] = y
    BY <2>2
  <2> QED BY <2>2, <2>3
<1>9. /\ f \o v \in Seq(T) /\ Len(f \o v) = Len(f) + Len(v)
      /\ \A k \in 1 .. Len(f) + Len(v) :
            (f \o v)[k] = IF k <= Len(f) THEN f[k] ELSE v[k - Len(f)]
  BY <1>7, ConcatProperties
<1>10. PICK p : p = FlowCheck
  OBVIOUS
<1>11. /\ p \in Seq(T) /\ Len(p) = DefaultPort + 2
       /\ \A k \in 1 .. DefaultPort + 2 : p[k] = IF k <= d THEN f[k] ELSE v[k - d]
  BY <1>1, <1>2, <1>7, <1>8, <1>9, <1>10
<1>12. DOMAIN p = 1 .. Len(p) /\ \A k \in 1 .. DefaultPort + 2 : p[k] \in T
  <2>1. p \in [1 .. Len(p) -> T]
    BY <1>11
  <2> QED BY <1>11, <2>1
<1>13. p[DefaultPort] = x /\ p[DefaultPort + 1] = y
  <2>1. /\ d + 1 \in 1 .. DefaultPort + 2 /\ ~(d + 1 <= d) /\ (d + 1) - d = 1
        /\ d + 2 \in 1 .. DefaultPort + 2 /\ ~(d + 2 <= d) /\ (d + 2) - d = 2
        /\ DefaultPort + 1 = d + 2
    BY <1>1
  <2> QED BY <1>1, <1>8, <1>11, <2>1
<1> QED BY <1>5, <1>10, <1>11, <1>12, <1>13 DEF x, y

\* The SYNs on the shared cell are frames.
LEMMA FlowFrames == Syn(SrcB, 1, DefaultPort) # NoFrame /\ Syn(SrcA, 1, DefaultPort) # NoFrame
<1>1. DefaultPort \in DOMAIN FlowCheck /\ DefaultPort + 1 \in DOMAIN FlowCheck
  BY FlowPlan, Sizes
<1> QED BY <1>1, FlowPlan, PlansAssumption

LEMMA FlowSound == Sound(FlowCheck)
<1>1. PICK p : p = FlowCheck
  OBVIOUS
<1>2. /\ DOMAIN p = 1 .. DefaultPort + 2 /\ Len(p) = DefaultPort + 2
      /\ \A k \in 1 .. DefaultPort + 2 : p[k].op = 0 /\ p[k].at = 0
  BY <1>1, FlowPlan, Opcodes
<1>3. DefaultPort + 2 \in Nat
  BY Sizes
<1> QED BY <1>1, <1>2, <1>3, Opcodes DEF Sound, WriteBeforeRead, Asked

(***************************************************************************)
(* The invariant                                                            *)
(***************************************************************************)
IsFcn(f, S) == f = [x \in S |-> f[x]]

Cells == {FlowBucket[ip] : ip \in Ip}
CellFields == {"fp", "epoch", "pkts", "bytes", "syns", "ports", "hosts", "flags"}
RegFields == {"port", "host", "rate", "epoch"}

Memories ==
    /\ IsFcn(bloom, 0 .. Words - 1)
    /\ IsFcn(rules, 0 .. RuleDepth - 1)
    /\ IsFcn(regs, RegFields)
    /\ IsFcn(flow, Cells)
    /\ \A b \in Cells : IsFcn(flow[b], CellFields)

\* The frame the board holds: none, the other process's, or the last one of
\* the plan.
Course ==
    /\ \E S : rx \in Seq(S)
    /\ Len(rx) <= Len(plan)
    /\ Sound(plan)
    /\ script \in {"hot_load", "runtime_check", "flow_check"}
    /\ script = "hot_load" => Loads(plan)
    /\ script = "runtime_check" => plan = RuntimeCheck
    /\ script = "flow_check" => plan = FlowCheck
    /\ \/ pending = NoFrame
       \/ pending \in OtherFrame
       \/ Len(rx) >= 1 /\ pending = plan[Len(rx)]

\* The filter is a mixture, word by word, of the old one and the new one.
Mixed == script = "hot_load" =>
            \A w \in 0 .. Words - 1 : bloom[w] \in {from_ips(C2)[w], build_words[w]}

\* An answer to a read-back tells what the board still holds: frame k was
\* the read, the writes of its kind are all behind it.
Told(op) == \E k \in 1 .. Len(rx) : plan[k].op = op

BloomTold(r) == r.magic = 90 /\ DOMAIN r.body = {"addr", "word"} =>
    Told(BloomReadOp) /\ bloom[r.body.addr % Words] = r.body.word
RuleTold(r) == r.magic = 90 /\ DOMAIN r.body = {"idx", "rule"} =>
    Told(RuleReadOp) /\ rules[r.body.idx % RuleDepth] = r.body.rule
RegTold(r) == resets = {} /\ r.magic = 90 /\ DOMAIN r.body = {"id", "value"} =>
    Told(ThreshReadOp) /\ RegRead(r.body.id) = r.body.value

TellsTrue(r) == BloomTold(r) /\ RuleTold(r) /\ RegTold(r)
AnswersHold == TellsTrue(resp) /\ \A i \in 1 .. Len(rx) : TellsTrue(rx[i])

\* The cell both flow sources share, while nothing got lost: the flow check
\* has the other source evict it before its own comes back.
CellTaken ==
    script = "flow_check" /\ lost = {} /\ resets = {} =>
        /\ Len(rx) >= 1 => pending = plan[Len(rx)]
        /\ Len(rx) = DefaultPort + 1 => flow[FlowBucket[SrcA]].fp = FlowFp[SrcB]
        /\ Len(rx) = DefaultPort + 2 => /\ flow[FlowBucket[SrcA]].fp = FlowFp[SrcA]
                                        /\ flow[FlowBucket[SrcA]].pkts = 1

ToolInv == \/ script = "verdict_check"
           \/ Memories /\ Course /\ Mixed /\ AnswersHold /\ CellTaken

(***************************************************************************)
(* What one step does to the board, seen from the plan                      *)
(***************************************************************************)
\* The board handles the frame the plan sent last, and it has this opcode.
Handles(op) == Len(rx) >= 1 /\ pending = plan[Len(rx)] /\ pending.op = op

BloomStep ==
    \/ bloom' = bloom
    \/ /\ Handles(BloomWriteOp)
       /\ bloom' = [bloom EXCEPT ![pending.at % Words] = pending.val.word]
RulesStep ==
    \/ rules' = rules
    \/ /\ Handles(RuleWriteOp)
       /\ rules' = [rules EXCEPT ![pending.at % RuleDepth] = pending.val.rule]
RegsStep ==
    \/ regs' = regs
    \/ regs' = RegDefaults /\ resets' # {}
    \/ /\ Handles(ThreshWriteOp) /\ pending.at \in 0 .. 3
       /\ regs' = [regs EXCEPT ![RegName(pending.at)] = pending.val.value]
FlowStep ==
    \/ flow' = flow
    \/ /\ pending.op = ClassifyOp
       /\ \E ep : LET b == FlowBucket[pending.hdr.src]
                  IN  flow' = [flow EXCEPT ![b] = FlowUpdated(flow[b], pending.hdr, ep)]
RespStep ==
    \/ resp' = resp
    \/ resp'.magic # 90
    \/ \E op : resp' = Ack([acked |-> op])
    \/ /\ Handles(BloomReadOp)
       /\ resp' = Ack([addr |-> pending.at, word |-> bloom[pending.at % Words]])
    \/ /\ Handles(RuleReadOp)
       /\ resp' = Ack([idx |-> pending.at, rule |-> rules[pending.at % RuleDepth]])
    \/ /\ Handles(ThreshReadOp)
       /\ resp' = Ack([id |-> pending.at, value |-> RegRead(pending.at)])

BoardStep == BloomStep /\ RulesStep /\ RegsStep /\ FlowStep /\ RespStep

\* An opcode of the plan, or a packet.
LEMMA PendingKind ==
    ASSUME Course, pending # NoFrame
    PROVE  \/ pending.op = ClassifyOp
           \/ /\ Len(rx) >= 1 /\ pending = plan[Len(rx)] /\ Len(rx) \in DOMAIN plan
              /\ pending.op \in Asked /\ pending.at \in Nat
<1>1. CASE pending \in OtherFrame
  BY <1>1, ToolsAssumption
<1>2. CASE Len(rx) >= 1 /\ pending = plan[Len(rx)]
  <2>1. Len(rx) \in Nat
    BY DEF Course
  <2>2. DOMAIN plan = 1 .. Len(plan) /\ Len(plan) \in Nat /\ Len(rx) <= Len(plan)
    BY DEF Course, Sound
  <2>3. Len(rx) \in DOMAIN plan
    BY <1>2, <2>1, <2>2
  <2> QED BY <1>2, <2>3 DEF Course, Sound
<1> QED BY <1>1, <1>2 DEF Course

LEMMA TransferMoves ==
    ASSUME Course, NEW f, Transfer(f)
    PROVE  BoardStep /\ pending' = f
<1>1. CASE pending = NoFrame
  BY <1>1 DEF Transfer, BoardStep, BloomStep, RulesStep, RegsStep, FlowStep, RespStep
<1>2. CASE pending # NoFrame
  <2>1. Effect(pending) /\ pending' = f
    BY <1>2 DEF Transfer
  <2>2. \/ pending.op = ClassifyOp
        \/ Len(rx) >= 1 /\ pending = plan[Len(rx)] /\ pending.op \in Asked
    BY <1>2, PendingKind
  <2>3. pending.op = ClassifyOp \/ pending.op \in 16 .. 21
    BY <2>2, Opcodes DEF Asked
  <2>4. CASE Classify(pending)
    <3>1. resp'.magic = 165 /\ UNCHANGED <<bloom, rules, regs>> /\ FlowStep
      BY <2>4 DEF Classify, FlowStep
    <3> QED BY <2>1, <3>1 DEF BoardStep, BloomStep, RulesStep, RegsStep, RespStep
  <2>5. CASE Write(pending)
    <3>1. pending.op \in {BloomWriteOp, RuleWriteOp, ThreshWriteOp}
      BY <2>5 DEF Write
    <3>2. Handles(pending.op)
      BY <2>2, <3>1, Opcodes DEF Handles
    <3>3. resp' = Ack([acked |-> pending.op]) /\ flow' = flow
      BY <2>5 DEF Write
    <3>4. BloomStep
      BY <2>5, <3>2 DEF Write, BloomStep
    <3>5. RulesStep
      BY <2>5, <3>2 DEF Write, RulesStep
    <3>6. RegsStep
      BY <2>5, <3>2 DEF Write, RegsStep
    <3>7. RespStep /\ FlowStep
      BY <3>3 DEF RespStep, FlowStep
    <3> QED BY <2>1, <3>4, <3>5, <3>6, <3>7 DEF BoardStep
  <2>6. CASE Read(pending)
    <3>1. pending.op \in {BloomReadOp, RuleReadOp, ThreshReadOp}
      BY <2>6 DEF Read
    <3>2. Handles(pending.op)
      BY <2>2, <3>1, Opcodes DEF Handles
    <3>3. UNCHANGED <<bloom, flow, rules, regs>>
      BY <2>6 DEF Read
    <3>4. RespStep
      BY <2>6, <3>2 DEF Read, RespStep
    <3> QED BY <2>1, <3>3, <3>4 DEF BoardStep, BloomStep, RulesStep, RegsStep, FlowStep
  <2>7. ~Telemeter(pending) /\ ~Ignore(pending)
    BY <2>3, Opcodes DEF Telemeter, Ignore, CmsQueryOp, SnapshotOp, HarmonicOp
  <2> QED BY <2>1, <2>4, <2>5, <2>6, <2>7 DEF Effect
<1> QED BY <1>1, <1>2

LEMMA ResetMoves ==
    ASSUME Course, NEW f, AfterReset(f), resets' # {}
    PROVE  BoardStep /\ pending' = f
<1>1. /\ pending' = f /\ resp' = NoAnswer /\ regs' = RegDefaults
      /\ \/ UNCHANGED <<bloom, flow, rules>>
         \/ /\ pending # NoFrame
            /\ \/ /\ pending.op = ClassifyOp
                  /\ LET b == FlowBucket[pending.hdr.src]
                         ep == (count \div WindowLen) % Epochs
                     IN  flow' = [flow EXCEPT ![b] =
                                    FlowUpdated(flow[b], pending.hdr, ep)]
                  /\ UNCHANGED <<bloom, rules>>
               \/ /\ pending.op = BloomWriteOp
                  /\ bloom' = [bloom EXCEPT ![pending.at % Words] = pending.val.word]
                  /\ UNCHANGED <<flow, rules>>
               \/ /\ pending.op = RuleWriteOp
                  /\ rules' = [rules EXCEPT ![pending.at % RuleDepth] = pending.val.rule]
                  /\ UNCHANGED <<bloom, flow>>
  BY DEF AfterReset
<1>2. RegsStep /\ RespStep
  BY <1>1 DEF RegsStep, RespStep, NoAnswer
<1>3. pending # NoFrame /\ pending.op \in {BloomWriteOp, RuleWriteOp} => Handles(pending.op)
  BY PendingKind, Opcodes DEF Handles
<1>4. BloomStep
  BY <1>1, <1>3 DEF BloomStep
<1>5. RulesStep
  BY <1>1, <1>3 DEF RulesStep
<1>6. FlowStep
  BY <1>1 DEF FlowStep
<1> QED BY <1>1, <1>2, <1>4, <1>5, <1>6 DEF BoardStep

\* The transfers of the script and those of the other process.
ScriptStep ==
    /\ Len(rx) < Len(plan)
    /\ rx' = Append(rx, resp')
    /\ pending' \in {NoFrame, plan[Len(rx) + 1]}
    /\ pending' # plan[Len(rx) + 1] => lost' # {}
    /\ lost \subseteq lost' /\ resets \subseteq resets'
OtherStep ==
    /\ UNCHANGED <<rx, lost, resets>>
    /\ pending' \in OtherFrame
    /\ rx = <<>> \/ script = "hot_load"

LEMMA Moves ==
    ASSUME Course, Step \/ Other
    PROVE  BoardStep /\ (ScriptStep \/ OtherStep) /\ UNCHANGED <<script, plan>>
<1>1. CASE Step
  <2>1. Len(rx) \in Nat /\ Len(plan) \in Nat /\ Len(rx) <= Len(plan)
    BY DEF Course, Sound
  <2>2. Len(rx) < Len(plan)
    BY <1>1, <2>1 DEF Step, Finished
  <2> DEFINE f == plan[Len(rx) + 1]
  <2>3. UNCHANGED <<script, plan>>
    BY <1>1 DEF Step
  <2>4. CASE send_frame(f) /\ UNCHANGED <<lost, resets>>
    BY <2>2, <2>3, <2>4, TransferMoves DEF send_frame, ScriptStep
  <2>5. CASE LoseFrame
    <3>1. /\ Transfer(NoFrame) /\ rx' = Append(rx, resp')
          /\ lost' = lost \cup {Len(rx) + 1} /\ resets' = resets
      BY <2>5 DEF LoseFrame, send_frame
    <3>2. lost' # {}
      BY <3>1
    <3> QED BY <2>2, <2>3, <3>1, <3>2, TransferMoves DEF ScriptStep
  <2>6. CASE PressReset(f)
    <3>1. /\ AfterReset(f) /\ rx' = Append(rx, resp')
          /\ resets' = resets \cup {Len(rx) + 1} /\ lost' = lost
      BY <2>6 DEF PressReset
    <3>2. resets' # {}
      BY <3>1
    <3> QED BY <2>2, <2>3, <3>1, <3>2, ResetMoves DEF ScriptStep
  <2> QED BY <1>1, <2>4, <2>5, <2>6 DEF Step
<1>2. CASE Other
  <2>1. PICK f \in OtherFrame : Transfer(f)
    BY <1>2 DEF Other
  <2>2. BoardStep /\ pending' = f
    BY <2>1, TransferMoves
  <2> QED BY <1>2, <2>2 DEF Other, OtherStep
<1> QED BY <1>1, <1>2

\* Frames sent and answers kept go hand in hand.
LEMMA RxGrows ==
    ASSUME Course, ScriptStep
    PROVE  /\ \E S : rx' \in Seq(S)
           /\ Len(rx) \in Nat /\ Len(rx') = Len(rx) + 1
           /\ \A i \in 1 .. Len(rx) : rx'[i] = rx[i]
           /\ rx'[Len(rx) + 1] = resp'
<1>1. PICK S : rx \in Seq(S)
  BY DEF Course
<1> DEFINE T == S \cup {resp'}
<1>2. rx \in Seq(T) /\ resp' \in T
  <2>1. resp' \in T /\ S \subseteq T
    OBVIOUS
  <2>2. rx \in [1 .. Len(rx) -> S] /\ Len(rx) \in Nat
    BY <1>1
  <2> HIDE DEF T
  <2>3. rx \in Seq(T)
    BY <2>1, <2>2, ListIsSeq
  <2> QED BY <2>1, <2>3
<1> HIDE DEF T
<1>3. /\ Append(rx, resp') \in Seq(T)
      /\ Len(Append(rx, resp')) = Len(rx) + 1
      /\ \A i \in 1 .. Len(rx) : Append(rx, resp')[i] = rx[i]
      /\ Append(rx, resp')[Len(rx) + 1] = resp'
  BY <1>2, AppendProperties
<1>4. Len(rx) \in Nat
  BY <1>1
<1>5. rx' = Append(rx, resp')
  BY DEF ScriptStep
<1> QED BY <1>3, <1>4, <1>5

LEMMA CourseKept ==
    ASSUME Course, BoardStep, ScriptStep \/ OtherStep, UNCHANGED <<script, plan>>
    PROVE  Course'
<1>1. /\ Sound(plan') /\ script' \in {"hot_load", "runtime_check", "flow_check"}
      /\ script' = "hot_load" => Loads(plan')
      /\ script' = "runtime_check" => plan' = RuntimeCheck
      /\ script' = "flow_check" => plan' = FlowCheck
  BY DEF Course
<1>2. CASE ScriptStep
  <2>1. (\E S : rx' \in Seq(S)) /\ Len(rx) \in Nat /\ Len(rx') = Len(rx) + 1
    BY <1>2, RxGrows
  <2>2. Len(plan) \in Nat
    BY DEF Course, Sound
  <2>3. Len(rx') <= Len(plan') /\ Len(rx') >= 1
    BY <1>2, <2>1, <2>2 DEF ScriptStep
  <2>4. pending' = NoFrame \/ pending' = plan'[Len(rx')]
    BY <1>2, <2>1 DEF ScriptStep
  <2> QED BY <1>1, <2>1, <2>3, <2>4 DEF Course
<1>3. CASE OtherStep
  BY <1>1, <1>3 DEF Course, OtherStep
<1> QED BY <1>2, <1>3

LEMMA CellDomain ==
    ASSUME NEW c, IsFcn(c, CellFields), NEW p, NEW ep
    PROVE  IsFcn(FlowUpdated(c, p, ep), CellFields)
<1> DEFINE cur == IF c.fp # FlowFp[p.src] \/ c.epoch # ep THEN FreshCell(p.src, ep) ELSE c
<1>1. IsFcn(cur, CellFields)
  <2>1. IsFcn(FreshCell(p.src, ep), CellFields)
    BY DEF FreshCell, IsFcn, CellFields
  <2> QED BY <2>1
<1> HIDE DEF cur
<1> DEFINE seen == [cur EXCEPT
                      !.pkts = Saturate(cur.pkts + 1, PktMax),
                      !.bytes = Saturate(cur.bytes + p.size, ByteMod - 1),
                      !.flags = cur.flags \cup p.flags]
<1>2. IsFcn(seen, CellFields)
  BY <1>1 DEF IsFcn
<1>3. FlowUpdated(c, p, ep) =
        IF SynGate(p)
        THEN [seen EXCEPT !.syns = Saturate(seen.syns + 1, SynMax),
                          !.ports = seen.ports \cup {PortBit[p.port]},
                          !.hosts = seen.hosts \cup {HostBit[p.dst]}]
        ELSE seen
  BY DEF FlowUpdated, cur
<1> HIDE DEF seen
<1> QED BY <1>2, <1>3 DEF IsFcn

LEMMA MemoriesKept ==
    ASSUME Memories, BoardStep
    PROVE  Memories'
<1>1. IsFcn(bloom', 0 .. Words - 1)
  BY DEF Memories, BoardStep, BloomStep, IsFcn
<1>2. IsFcn(rules', 0 .. RuleDepth - 1)
  BY DEF Memories, BoardStep, RulesStep, IsFcn
<1>3. IsFcn(regs', RegFields)
  <2>1. IsFcn(RegDefaults, RegFields)
    BY DEF RegDefaults, RegFields, IsFcn
  <2>2. \A n, v : IsFcn([regs EXCEPT ![n] = v], RegFields)
    BY DEF Memories, IsFcn
  <2>3. IsFcn(regs, RegFields)
    BY DEF Memories
  <2>4. \/ regs' = regs
        \/ regs' = RegDefaults
        \/ \E n, v : regs' = [regs EXCEPT ![n] = v]
    BY DEF BoardStep, RegsStep
  <2> QED BY <2>1, <2>2, <2>3, <2>4
<1>4. IsFcn(flow', Cells) /\ \A b \in Cells : IsFcn(flow'[b], CellFields)
  <2>1. IsFcn(flow, Cells) /\ \A b \in Cells : IsFcn(flow[b], CellFields)
    BY DEF Memories
  <2>2. CASE flow' = flow
    BY <2>1, <2>2
  <2>3. ASSUME NEW ep, NEW a, flow' = [flow EXCEPT ![a] = FlowUpdated(flow[a], pending.hdr, ep)]
        PROVE  IsFcn(flow', Cells) /\ \A b \in Cells : IsFcn(flow'[b], CellFields)
    <3> DEFINE u == FlowUpdated(flow[a], pending.hdr, ep)
    <3>1. a \in Cells => IsFcn(u, CellFields)
      BY <2>1, CellDomain
    <3> HIDE DEF u
    <3>2. flow' = [flow EXCEPT ![a] = u]
      BY <2>3 DEF u
    <3>3. IsFcn(flow', Cells)
      BY <2>1, <3>2 DEF IsFcn
    <3>4. \A b \in Cells : flow'[b] = IF b = a THEN u ELSE flow[b]
      BY <2>1, <3>2 DEF IsFcn
    <3> QED BY <2>1, <3>1, <3>3, <3>4
  <2> QED BY <2>2, <2>3 DEF BoardStep, FlowStep
<1> QED BY <1>1, <1>2, <1>3, <1>4 DEF Memories

LEMMA WordOf ==
    ASSUME NEW a \in 0 .. Words - 1
    PROVE  a % Words = a
  BY Sizes

LEMMA MixedKept ==
    ASSUME Memories, Course, Mixed, BoardStep, UNCHANGED <<script, plan>>
    PROVE  Mixed'
<1>1. SUFFICES ASSUME script = "hot_load", NEW w \in 0 .. Words - 1
               PROVE  bloom'[w] \in {from_ips(C2)[w], build_words[w]}
  BY DEF Mixed
<1>2. bloom[w] \in {from_ips(C2)[w], build_words[w]}
  BY <1>1 DEF Mixed
<1>3. CASE bloom' = bloom
  BY <1>2, <1>3
<1>4. CASE /\ Handles(BloomWriteOp)
           /\ bloom' = [bloom EXCEPT ![pending.at % Words] = pending.val.word]
  <2>1. Len(rx) \in Nat /\ Len(rx) \in DOMAIN plan /\ pending = plan[Len(rx)]
    <3>1. Len(rx) \in Nat /\ Len(rx) >= 1 /\ Len(rx) <= Len(plan) /\ Len(plan) \in Nat
      BY <1>4 DEF Course, Handles, Sound
    <3> QED BY <1>4, <3>1 DEF Course, Handles, Sound
  <2>2. pending.at \in 0 .. Words - 1 /\ pending.val.word = build_words[pending.at]
    BY <1>1, <1>4, <2>1 DEF Course, Loads, Handles
  <2>3. pending.at % Words = pending.at
    BY <2>2, WordOf
  <2>4. bloom'[w] = IF w = pending.at THEN build_words[w] ELSE bloom[w]
    BY <1>4, <2>2, <2>3 DEF Memories, IsFcn
  <2> QED BY <1>2, <2>4
<1> QED BY <1>3, <1>4 DEF BoardStep, BloomStep

\* Once a read has gone out, the board handles no write of its kind.
LEMMA NoLateWrite ==
    ASSUME Course, NEW write, NEW read, WriteBeforeRead(plan, write, read), Told(read)
    PROVE  ~Handles(write)
<1>1. PICK k \in 1 .. Len(rx) : plan[k].op = read
  BY DEF Told
<1>2. Len(rx) \in Nat /\ Len(rx) <= Len(plan) /\ DOMAIN plan = 1 .. Len(plan) /\ Len(plan) \in Nat
  BY DEF Course, Sound
<1>3. k \in DOMAIN plan /\ Len(rx) \in DOMAIN plan /\ ~(Len(rx) < k)
  BY <1>1, <1>2
<1>4. ASSUME Handles(write) PROVE FALSE
  <2>1. plan[Len(rx)].op = write
    BY <1>4 DEF Handles
  <2> QED BY <1>1, <1>3, <2>1 DEF WriteBeforeRead
<1> QED BY <1>4

LEMMA ToldKept ==
    ASSUME Course, ScriptStep \/ OtherStep, UNCHANGED plan, NEW op
    PROVE  /\ Told(op) => Told(op)'
           /\ ScriptStep /\ Len(rx) >= 1 /\ plan[Len(rx)].op = op => Told(op)'
           /\ Len(rx) >= 1 /\ plan[Len(rx)].op = op => Told(op)
<1>1. Len(rx) \in Nat
  BY DEF Course
<1>2. Len(rx') \in {Len(rx), Len(rx) + 1}
  BY RxGrows DEF OtherStep
<1>3. \A k \in 1 .. Len(rx) : k \in 1 .. Len(rx')
  BY <1>1, <1>2
<1>4. Len(rx) >= 1 => Len(rx) \in 1 .. Len(rx)
  BY <1>1
<1> QED BY <1>3, <1>4 DEF Told

LEMMA TellsKept ==
    ASSUME Course, BoardStep, ScriptStep \/ OtherStep, UNCHANGED plan,
           NEW r, TellsTrue(r)
    PROVE  TellsTrue(r)'
<1>1. BloomTold(r)'
  <2>1. SUFFICES ASSUME r.magic = 90, DOMAIN r.body = {"addr", "word"}
                 PROVE  Told(BloomReadOp)' /\ bloom'[r.body.addr % Words] = r.body.word
    BY DEF BloomTold
  <2>2. Told(BloomReadOp) /\ bloom[r.body.addr % Words] = r.body.word
    BY <2>1 DEF TellsTrue, BloomTold
  <2>3. ~Handles(BloomWriteOp)
    BY <2>2, NoLateWrite DEF Course, Sound
  <2>4. bloom' = bloom
    BY <2>3 DEF BoardStep, BloomStep
  <2> QED BY <2>2, <2>4, ToldKept
<1>2. RuleTold(r)'
  <2>1. SUFFICES ASSUME r.magic = 90, DOMAIN r.body = {"idx", "rule"}
                 PROVE  Told(RuleReadOp)' /\ rules'[r.body.idx % RuleDepth] = r.body.rule
    BY DEF RuleTold
  <2>2. Told(RuleReadOp) /\ rules[r.body.idx % RuleDepth] = r.body.rule
    BY <2>1 DEF TellsTrue, RuleTold
  <2>3. ~Handles(RuleWriteOp)
    BY <2>2, NoLateWrite DEF Course, Sound
  <2>4. rules' = rules
    BY <2>3 DEF BoardStep, RulesStep
  <2> QED BY <2>2, <2>4, ToldKept
<1>3. RegTold(r)'
  <2>1. SUFFICES ASSUME resets' = {}, r.magic = 90, DOMAIN r.body = {"id", "value"}
                 PROVE  Told(ThreshReadOp)' /\ RegRead(r.body.id)' = r.body.value
    BY DEF RegTold
  <2>0. resets = {}
    BY <2>1 DEF ScriptStep, OtherStep
  <2>2. Told(ThreshReadOp) /\ RegRead(r.body.id) = r.body.value
    BY <2>0, <2>1 DEF TellsTrue, RegTold
  <2>3. ~Handles(ThreshWriteOp)
    BY <2>2, NoLateWrite DEF Course, Sound
  <2>4. regs' = regs
    BY <2>1, <2>3 DEF BoardStep, RegsStep
  <2> QED BY <2>2, <2>4, ToldKept DEF RegRead
<1> QED BY <1>1, <1>2, <1>3 DEF TellsTrue

\* What the board answers a read with is what it holds.
LEMMA FreshAnswer ==
    ASSUME Course, BoardStep, ScriptStep \/ OtherStep, UNCHANGED plan, TellsTrue(resp)
    PROVE  TellsTrue(resp)'
<1> PICK r : r = resp'
  OBVIOUS
<1>0. SUFFICES TellsTrue(r)'
  BY DEF TellsTrue, BloomTold, RuleTold, RegTold
<1>1. CASE resp' = resp
  <2>1. TellsTrue(r)
    BY <1>1
  <2> QED BY <2>1, TellsKept
<1>2. CASE resp'.magic # 90
  BY <1>2 DEF TellsTrue, BloomTold, RuleTold, RegTold
<1>3. CASE \E op : resp' = Ack([acked |-> op])
  <2>1. DOMAIN r.body = {"acked"}
    BY <1>3 DEF Ack
  <2>2. {"acked"} # {"addr", "word"} /\ {"acked"} # {"idx", "rule"} /\ {"acked"} # {"id", "value"}
    OBVIOUS
  <2> QED BY <2>1, <2>2 DEF TellsTrue, BloomTold, RuleTold, RegTold
<1>4. CASE /\ Handles(BloomReadOp)
           /\ resp' = Ack([addr |-> pending.at, word |-> bloom[pending.at % Words]])
  <2>1. /\ r.body.addr = pending.at /\ r.body.word = bloom[pending.at % Words]
        /\ DOMAIN r.body = {"addr", "word"}
    BY <1>4 DEF Ack
  <2>2. {"addr", "word"} # {"idx", "rule"} /\ {"addr", "word"} # {"id", "value"}
    OBVIOUS
  <2>3. ~Handles(BloomWriteOp)
    BY <1>4, Opcodes DEF Handles
  <2>4. bloom' = bloom
    BY <2>3 DEF BoardStep, BloomStep
  <2>5. Told(BloomReadOp)'
    BY <1>4, ToldKept DEF Handles
  <2> QED BY <2>1, <2>2, <2>4, <2>5 DEF TellsTrue, BloomTold, RuleTold, RegTold
<1>5. CASE /\ Handles(RuleReadOp)
           /\ resp' = Ack([idx |-> pending.at, rule |-> rules[pending.at % RuleDepth]])
  <2>1. /\ r.body.idx = pending.at /\ r.body.rule = rules[pending.at % RuleDepth]
        /\ DOMAIN r.body = {"idx", "rule"}
    BY <1>5 DEF Ack
  <2>2. {"idx", "rule"} # {"addr", "word"} /\ {"idx", "rule"} # {"id", "value"}
    OBVIOUS
  <2>3. ~Handles(RuleWriteOp)
    BY <1>5, Opcodes DEF Handles
  <2>4. rules' = rules
    BY <2>3 DEF BoardStep, RulesStep
  <2>5. Told(RuleReadOp)'
    BY <1>5, ToldKept DEF Handles
  <2> QED BY <2>1, <2>2, <2>4, <2>5 DEF TellsTrue, BloomTold, RuleTold, RegTold
<1>6. CASE /\ Handles(ThreshReadOp)
           /\ resp' = Ack([id |-> pending.at, value |-> RegRead(pending.at)])
  <2>1. /\ r.body.id = pending.at /\ r.body.value = RegRead(pending.at)
        /\ DOMAIN r.body = {"id", "value"}
    BY <1>6 DEF Ack
  <2>2. {"id", "value"} # {"addr", "word"} /\ {"id", "value"} # {"idx", "rule"}
    OBVIOUS
  <2>3. ~Handles(ThreshWriteOp)
    BY <1>6, Opcodes DEF Handles
  <2>4. resets' = {} => regs' = regs
    BY <2>3 DEF BoardStep, RegsStep
  <2>5. Told(ThreshReadOp)'
    BY <1>6, ToldKept DEF Handles
  <2>6. resets' = {} => RegRead(r.body.id)' = r.body.value
    <3> SUFFICES ASSUME resets' = {} PROVE RegRead(r.body.id)' = r.body.value
      OBVIOUS
    <3>1. regs' = regs
      BY <2>4
    <3>2. RegRead(r.body.id)' = RegRead(r.body.id)
      BY <3>1 DEF RegRead
    <3> QED BY <2>1, <3>2
  <2> QED BY <2>1, <2>2, <2>5, <2>6 DEF TellsTrue, BloomTold, RuleTold, RegTold
<1> QED BY <1>1, <1>2, <1>3, <1>4, <1>5, <1>6 DEF BoardStep, RespStep

LEMMA AnswersKept ==
    ASSUME Course, AnswersHold, BoardStep, ScriptStep \/ OtherStep, UNCHANGED plan
    PROVE  AnswersHold'
<1>1. TellsTrue(resp)'
  BY FreshAnswer DEF AnswersHold
<1>2. ASSUME NEW i \in 1 .. Len(rx'), NEW r, r = rx'[i]
      PROVE  TellsTrue(r)'
  <2>1. CASE i \in 1 .. Len(rx) /\ rx'[i] = rx[i]
    <3>1. TellsTrue(r)
      BY <1>2, <2>1 DEF AnswersHold
    <3> QED BY <3>1, TellsKept
  <2>2. CASE r = resp'
    BY <1>1, <2>2 DEF TellsTrue, BloomTold, RuleTold, RegTold
  <2>3. Len(rx) \in Nat
    BY DEF Course
  <2>4. CASE ScriptStep
    <3>1. i \in 1 .. Len(rx) \/ i = Len(rx) + 1
      BY <2>3, <2>4, RxGrows
    <3> QED BY <1>2, <2>1, <2>2, <2>4, <3>1, RxGrows
  <2>5. CASE OtherStep
    BY <2>1, <2>5 DEF OtherStep
  <2> QED BY <2>4, <2>5
<1>3. ASSUME NEW i \in 1 .. Len(rx') PROVE TellsTrue(rx[i])'
  <2>1. PICK r : r = rx'[i]
    OBVIOUS
  <2>2. TellsTrue(r)'
    BY <1>2, <2>1
  <2> QED BY <2>1, <2>2 DEF TellsTrue, BloomTold, RuleTold, RegTold
<1> QED BY <1>1, <1>3 DEF AnswersHold

(***************************************************************************)
(* The flow check                                                           *)
(***************************************************************************)
\* The updated cell is the packet's source's, and counts from one when the
\* cell was another's.
LEMMA CellUpdated ==
    ASSUME NEW c, IsFcn(c, CellFields), NEW p, NEW ep
    PROVE  /\ FlowUpdated(c, p, ep).fp = FlowFp[p.src]
           /\ c.fp # FlowFp[p.src] => FlowUpdated(c, p, ep).pkts = 1
<1> DEFINE cur == IF c.fp # FlowFp[p.src] \/ c.epoch # ep THEN FreshCell(p.src, ep) ELSE c
<1>1. IsFcn(FreshCell(p.src, ep), CellFields)
  BY DEF FreshCell, IsFcn, CellFields
<1>2. FreshCell(p.src, ep).fp = FlowFp[p.src] /\ FreshCell(p.src, ep).pkts = 0
  BY DEF FreshCell
<1>3. IsFcn(cur, CellFields) /\ cur.fp = FlowFp[p.src]
      /\ (c.fp # FlowFp[p.src] => cur.pkts = 0)
  BY <1>1, <1>2
<1> HIDE DEF cur
<1> DEFINE pk == Saturate(cur.pkts + 1, PktMax)
           seen == [cur EXCEPT
                      !.pkts = pk,
                      !.bytes = Saturate(cur.bytes + p.size, ByteMod - 1),
                      !.flags = cur.flags \cup p.flags]
<1>4. FlowUpdated(c, p, ep) =
        IF SynGate(p)
        THEN [seen EXCEPT !.syns = Saturate(seen.syns + 1, SynMax),
                          !.ports = seen.ports \cup {PortBit[p.port]},
                          !.hosts = seen.hosts \cup {HostBit[p.dst]}]
        ELSE seen
  BY DEF FlowUpdated, cur
<1>5. c.fp # FlowFp[p.src] => pk = 1
  BY <1>3, Sizes DEF Saturate
<1> HIDE DEF pk
<1>6. IsFcn(seen, CellFields) /\ seen.fp = FlowFp[p.src] /\ seen.pkts = pk
  BY <1>3 DEF IsFcn, CellFields
<1> HIDE DEF seen
<1>7. FlowUpdated(c, p, ep).fp = seen.fp /\ FlowUpdated(c, p, ep).pkts = seen.pkts
  BY <1>4, <1>6 DEF IsFcn, CellFields
<1> QED BY <1>5, <1>6, <1>7

\* A frame of the flow check that was not lost is classified by the next
\* transfer.
LEMMA FlowFrame ==
    ASSUME Memories, Course, Step, script = "flow_check", resets' = {},
           NEW src \in Ip, pending = Syn(src, 1, DefaultPort), pending # NoFrame
    PROVE  LET b == FlowBucket[src]
           IN  /\ flow'[b].fp = FlowFp[src]
               /\ flow[b].fp # FlowFp[src] => flow'[b].pkts = 1
<1>1. PICK f : Transfer(f)
  <2>1. ~PressReset(plan[Len(rx) + 1])
    BY DEF PressReset
  <2> QED BY <2>1 DEF Step, LoseFrame, send_frame
<1>2. Effect(pending)
  BY <1>1 DEF Transfer
<1>3. pending.op = ClassifyOp /\ pending.hdr.src = src
  BY DEF Syn, hdr
<1>4. Classify(pending)
  BY <1>2, <1>3, Opcodes DEF Effect, Telemeter, Write, Read, Ignore, CmsQueryOp,
     SnapshotOp, HarmonicOp
<1> DEFINE b == FlowBucket[src]
           ep == (count \div WindowLen) % Epochs
           u == FlowUpdated(flow[b], pending.hdr, ep)
<1>5. flow' = [flow EXCEPT ![b] = u]
  BY <1>3, <1>4 DEF Classify
<1>6. b \in Cells
  BY DEF Cells
<1>7. IsFcn(flow[b], CellFields) /\ IsFcn(flow, Cells)
  BY <1>6 DEF Memories
<1>8. u.fp = FlowFp[src] /\ (flow[b].fp # FlowFp[src] => u.pkts = 1)
  BY <1>3, <1>7, CellUpdated
<1> HIDE DEF u
<1>9. flow'[b] = u
  BY <1>5, <1>6, <1>7 DEF IsFcn
<1> QED BY <1>8, <1>9

LEMMA CellTakenKept ==
    ASSUME Memories, Course, CellTaken, Step \/ Other, UNCHANGED <<script, plan>>,
           ScriptStep \/ OtherStep
    PROVE  CellTaken'
<1>1. SUFFICES ASSUME script = "flow_check", lost' = {}, resets' = {}
      PROVE  /\ Len(rx') >= 1 => pending' = plan[Len(rx')]
             /\ Len(rx') = DefaultPort + 1 => flow'[FlowBucket[SrcA]].fp = FlowFp[SrcB]
             /\ Len(rx') = DefaultPort + 2 => /\ flow'[FlowBucket[SrcA]].fp = FlowFp[SrcA]
                                              /\ flow'[FlowBucket[SrcA]].pkts = 1
  BY DEF CellTaken
<1>2. lost = {} /\ resets = {}
  BY <1>1 DEF ScriptStep, OtherStep
<1>3. /\ Len(rx) >= 1 => pending = plan[Len(rx)]
      /\ Len(rx) = DefaultPort + 1 => flow[FlowBucket[SrcA]].fp = FlowFp[SrcB]
  BY <1>1, <1>2 DEF CellTaken
<1>4. plan = FlowCheck /\ Len(rx) \in Nat
  BY <1>1 DEF Course
<1>5. SrcA \in Ip /\ SrcB \in Ip
  BY ToolsAssumption
<1>6. CASE OtherStep
  <2>1. rx' = <<>>
    BY <1>1, <1>6 DEF OtherStep
  <2>2. Len(rx') = 0
    BY <2>1
  <2> QED BY <2>2, Sizes
<1>7. CASE ScriptStep /\ ~OtherStep
  <2>1. Len(rx') = Len(rx) + 1
    BY <1>7, RxGrows
  <2>2. Step
    <3>1. Other => OtherStep
      <4>1. Other => UNCHANGED <<rx, lost, resets>>
        BY DEF Other
      <4>2. rx' # rx
        <5>1. Len(rx') # Len(rx)
          BY <1>4, <2>1
        <5> QED BY <5>1
      <4> QED BY <4>1, <4>2
    <3> QED BY <1>7, <3>1
  <2>3. pending' = plan[Len(rx')]
    BY <1>1, <1>7, <2>1 DEF ScriptStep
  <2>4. CASE Len(rx') = DefaultPort + 1
    <3>1. Len(rx) = DefaultPort /\ DefaultPort >= 1
      BY <1>4, <2>1, <2>4, Sizes
    <3>2. pending = Syn(SrcB, 1, DefaultPort) /\ pending # NoFrame
      BY <1>3, <1>4, <3>1, FlowPlan, FlowFrames
    <3>3. flow'[FlowBucket[SrcB]].fp = FlowFp[SrcB]
      BY <1>1, <1>5, <2>2, <3>2, FlowFrame
    <3>4. Len(rx') # DefaultPort + 2
      BY <2>4, Sizes
    <3> QED BY <2>3, <3>3, <3>4, PairAssumption
  <2>5. CASE Len(rx') = DefaultPort + 2
    <3>1. Len(rx) = DefaultPort + 1 /\ DefaultPort >= 1
      BY <1>4, <2>1, <2>5, Sizes
    <3>2. Len(rx) >= 1 /\ pending = plan[Len(rx)]
      BY <1>3, <3>1, Sizes
    <3>3. plan[DefaultPort + 1] = Syn(SrcA, 1, DefaultPort)
      BY <1>4, FlowPlan
    <3>4. pending = Syn(SrcA, 1, DefaultPort) /\ pending # NoFrame
      BY <3>1, <3>2, <3>3, FlowFrames
    <3>5. flow[FlowBucket[SrcA]].fp # FlowFp[SrcA]
      BY <1>3, <3>1, PairAssumption
    <3>6. flow'[FlowBucket[SrcA]].fp = FlowFp[SrcA] /\ flow'[FlowBucket[SrcA]].pkts = 1
      BY <1>1, <1>5, <2>2, <3>4, <3>5, FlowFrame
    <3>7. Len(rx') # DefaultPort + 1
      BY <2>5, Sizes
    <3> QED BY <2>3, <3>6, <3>7
  <2> QED BY <2>3, <2>4, <2>5
<1> QED BY <1>6, <1>7

(***************************************************************************)
(* The invariant holds                                                      *)
(***************************************************************************)
LEMMA StartsSound ==
    ASSUME ToolsInit, script # "verdict_check"
    PROVE  Memories /\ Course /\ Mixed /\ AnswersHold /\ CellTaken
<1>1. /\ bloom = from_ips(C2)
      /\ flow = [b \in Cells |-> FreshCell(ZeroIp, 0)]
      /\ rules = [i \in 0 .. RuleDepth - 1 |-> BlankRule]
      /\ regs = RegDefaults /\ pending = NoFrame /\ resp = NoAnswer
      /\ rx = <<>>
  BY DEF ToolsInit, Init, Cells
<1>2. Len(rx) = 0 /\ rx \in Seq({})
  BY <1>1
<1>3. Memories
  <2>1. IsFcn(bloom, 0 .. Words - 1)
    BY <1>1 DEF from_ips, IsFcn
  <2>2. IsFcn(rules, 0 .. RuleDepth - 1)
    BY <1>1 DEF IsFcn
  <2>3. IsFcn(regs, RegFields)
    BY <1>1 DEF RegDefaults, RegFields, IsFcn
  <2>4. IsFcn(FreshCell(ZeroIp, 0), CellFields)
    BY DEF FreshCell, CellFields, IsFcn
  <2>5. IsFcn(flow, Cells) /\ \A b \in Cells : flow[b] = FreshCell(ZeroIp, 0)
    BY <1>1 DEF IsFcn
  <2> QED BY <2>1, <2>2, <2>3, <2>4, <2>5 DEF Memories
<1>4. /\ Sound(plan) /\ script \in {"hot_load", "runtime_check", "flow_check"}
      /\ script = "hot_load" => Loads(plan)
      /\ script = "runtime_check" => plan = RuntimeCheck
      /\ script = "flow_check" => plan = FlowCheck
  <2>1. \/ script = "hot_load" /\ \E zeros \in ZeroSamples : plan = Load(zeros)
        \/ script = "runtime_check" /\ plan = RuntimeCheck
        \/ script = "flow_check" /\ plan = FlowCheck
    BY DEF ToolsInit
  <2> QED BY <2>1, LoadPlan, RuntimeSound, FlowSound
<1>5. Course
  <2>1. Len(plan) \in Nat
    BY <1>4 DEF Sound
  <2>2. Len(rx) <= Len(plan)
    BY <1>2, <2>1
  <2> QED BY <1>1, <1>2, <1>4, <2>2 DEF Course
<1>6. Mixed
  BY <1>1 DEF Mixed
<1>7. AnswersHold
  <2>1. TellsTrue(resp)
    BY <1>1 DEF NoAnswer, TellsTrue, BloomTold, RuleTold, RegTold
  <2>2. 1 .. Len(rx) = {}
    BY <1>2
  <2> QED BY <2>1, <2>2 DEF AnswersHold
<1>8. CellTaken
  BY <1>2, Sizes DEF CellTaken
<1> QED BY <1>3, <1>5, <1>6, <1>7, <1>8

LEMMA ToolStep ==
    ASSUME ToolInv, [Step \/ Other]_vars
    PROVE  ToolInv'
<1>1. CASE script = "verdict_check"
  <2>1. script' = script
    BY DEF Step, Other, vars, toolVars
  <2> QED BY <1>1, <2>1 DEF ToolInv
<1>2. CASE script # "verdict_check" /\ (Step \/ Other)
  <2>1. Memories /\ Course /\ Mixed /\ AnswersHold /\ CellTaken
    BY <1>2 DEF ToolInv
  <2>2. BoardStep /\ (ScriptStep \/ OtherStep) /\ UNCHANGED <<script, plan>>
    BY <1>2, <2>1, Moves
  <2>3. Memories'
    BY <2>1, <2>2, MemoriesKept
  <2>4. Course'
    BY <2>1, <2>2, CourseKept
  <2>5. Mixed'
    BY <2>1, <2>2, MixedKept
  <2>6. AnswersHold'
    BY <2>1, <2>2, AnswersKept
  <2>7. CellTaken'
    BY <1>2, <2>1, <2>2, CellTakenKept
  <2> QED BY <2>3, <2>4, <2>5, <2>6, <2>7 DEF ToolInv
<1>3. CASE UNCHANGED vars
  <2>1. UNCHANGED <<bloom, flow, rules, regs, count, pending, resp,
                    script, plan, rx, others, lost, resets>>
    BY <1>3 DEF vars, boardVars, toolVars
  <2> QED BY <2>1 DEF ToolInv, Memories, Course, Mixed, AnswersHold, CellTaken,
             TellsTrue, BloomTold, RuleTold, RegTold, Told, RegRead
<1> QED BY <1>1, <1>2, <1>3

LEMMA ToolsHold == ToolsSpec => []ToolInv
<1>1. ToolsInit => ToolInv
  BY StartsSound DEF ToolInv
<1>2. ToolInv /\ [Step \/ Other]_vars => ToolInv'
  BY ToolStep
<1> QED BY <1>1, <1>2, PTL DEF ToolsSpec

(***************************************************************************)
(* What a PASS is worth                                                     *)
(***************************************************************************)
\* hot_load_bloom.py: an address of both sets hits after every transfer: each
\* word of the filter is the old one or the new one, and both have its bits.
THEOREM KeptHit == ToolsSpec => []KeptMembersAlwaysHit
<1>1. ToolInv => KeptMembersAlwaysHit
  <2>1. SUFFICES ASSUME ToolInv, script = "hot_load", NEW ip \in C2 \cap NewC2
                 PROVE  Member(ip)
    BY DEF KeptMembersAlwaysHit
  <2>2. Mixed
    BY <2>1 DEF ToolInv
  <2>3. \A h \in {Hash1[ip], Hash2[ip]} : h.word \in 0 .. Words - 1 /\ h.bit \in bloom[h.word]
    <3> SUFFICES ASSUME NEW h \in {Hash1[ip], Hash2[ip]}
                 PROVE  h.word \in 0 .. Words - 1 /\ h.bit \in bloom[h.word]
      OBVIOUS
    <3>1. h.word \in 0 .. Words - 1
      BY ToolsAssumption
    <3>2. h.bit \in from_ips(C2)[h.word] /\ h.bit \in build_words[h.word]
      BY <3>1 DEF from_ips, build_words
    <3> QED BY <2>1, <2>2, <3>1, <3>2 DEF Mixed
  <2> QED BY <2>3 DEF Member
<1> QED BY <1>1, ToolsHold, PTL

LEMMA WrittenWord ==
    ASSUME Loads(plan), NEW w \in 0 .. Words - 1
    PROVE  Written(BloomWriteOp, w).val.word = build_words[w]
<1>1. PICK k \in DOMAIN plan : plan[k].op = BloomWriteOp /\ plan[k].at = w
  BY DEF Loads
<1>2. PICK f : f = Written(BloomWriteOp, w)
  OBVIOUS
<1>3. f \in Seqs!ToSet(plan) /\ f.op = BloomWriteOp /\ f.at = w
  BY <1>1, <1>2 DEF Written, Seqs!ToSet
<1>4. PICK j \in DOMAIN plan : f = plan[j]
  BY <1>3 DEF Seqs!ToSet
<1> QED BY <1>2, <1>3, <1>4 DEF Loads

\* hot_load_bloom.py: a PASS leaves no address of the new set out.  Every
\* nonzero word was read back, and an answer stays true of the board.
THEOREM LoadMissesNone == ToolsSpec => []PassedLoadMissesNone
<1>1. ToolInv => PassedLoadMissesNone
  <2>1. SUFFICES ASSUME ToolInv, Finished, script = "hot_load", Passed, NEW ip \in NewC2
                 PROVE  Member(ip)
    BY DEF PassedLoadMissesNone
  <2>2. Course /\ AnswersHold
    BY <2>1 DEF ToolInv
  <2>3. LoadPassed
    BY <2>1 DEF Passed
  <2>4. ASSUME NEW w \in nonzero_addrs PROVE bloom[w] = build_words[w]
    <3>1. w \in 0 .. Words - 1
      BY NonzeroWords
    <3>2. Loads(plan)
      BY <2>1, <2>2 DEF Course
    <3>3. PICK k \in DOMAIN plan :
            k + 1 \in DOMAIN plan /\ plan[k].op = BloomReadOp /\ plan[k].at = w
      BY <3>2 DEF Loads
    <3>4. k \in Reads
      BY <3>3, Opcodes DEF Reads
    <3>5. rx[k + 1] = ReadBack(k)
      BY <2>3, <3>4 DEF LoadPassed, AnswerTo
    <3>6. ReadBack(k) = Ack([addr |-> w, word |-> Written(BloomWriteOp, w).val.word])
      BY <3>3, Opcodes DEF ReadBack
    <3>7. PICK r : r = rx[k + 1]
      OBVIOUS
    <3>8. /\ r.magic = 90 /\ DOMAIN r.body = {"addr", "word"}
          /\ r.body.addr = w /\ r.body.word = build_words[w]
      BY <3>1, <3>2, <3>5, <3>6, <3>7, WrittenWord DEF Ack
    <3>9. k + 1 \in 1 .. Len(rx)
      BY <2>1, <2>2, <3>3 DEF Finished, Course, Sound
    <3>10. bloom[r.body.addr % Words] = r.body.word
      BY <2>2, <3>7, <3>8, <3>9 DEF AnswersHold, TellsTrue, BloomTold
    <3> QED BY <3>1, <3>8, <3>10, WordOf
  <2>5. \A h \in {Hash1[ip], Hash2[ip]} : h.bit \in bloom[h.word]
    <3> SUFFICES ASSUME NEW h \in {Hash1[ip], Hash2[ip]} PROVE h.bit \in bloom[h.word]
      OBVIOUS
    <3>1. h.word \in 0 .. Words - 1
      BY ToolsAssumption
    <3>2. h.bit \in build_words[h.word]
      BY <3>1 DEF from_ips, build_words
    <3>3. h.word \in nonzero_addrs
      BY <3>1, <3>2 DEF nonzero_addrs, build_words, from_ips
    <3> QED BY <2>4, <3>2, <3>3
  <2> QED BY <2>5 DEF Member
<1> QED BY <1>1, ToolsHold, PTL

\* silicon_runtime_check.py: after a PASS without a reset the register, the
\* word and the rule are what the script wrote, whatever was lost.
THEOREM RoundTripHolds == ToolsSpec => []PassedRoundTripHolds
<1>1. ToolInv => PassedRoundTripHolds
  <2>1. SUFFICES ASSUME ToolInv, Finished, script = "runtime_check", Passed, resets = {}
                 PROVE  /\ regs.rate = DefaultRate + 1
                        /\ bloom[1] = {0, 1}
                        /\ rules[1] = MyRule
    BY DEF PassedRoundTripHolds
  <2>2. Course /\ AnswersHold
    BY <2>1 DEF ToolInv
  <2>3. plan = RuntimeCheck /\ DOMAIN plan = 1 .. 12 /\ Len(rx) = 12
    BY <2>1, <2>2, RuntimePlan DEF Course, Finished
  <2>4. /\ plan[1].op = 17 /\ plan[1].at = 2 /\ plan[1].val.value = DefaultRate + 1
        /\ plan[3].op = 20 /\ plan[3].at = 2
        /\ plan[5].op = 16 /\ plan[5].at = 1 /\ plan[5].val.word = {0, 1}
        /\ plan[7].op = 19 /\ plan[7].at = 1
        /\ plan[9].op = 18 /\ plan[9].at = 1 /\ plan[9].val.rule = MyRule
        /\ plan[11].op = 21 /\ plan[11].at = 1
        /\ \A k \in {2, 4, 6, 8, 10, 12} : plan[k].op = 0
    <3>1. \A op, at : Asking(op, at).op = op /\ Asking(op, at).at = at
      BY Requests DEF Asking
    <3>2. Flush.op = 0
      BY <3>1, Opcodes DEF Flush
    <3>3. /\ plan[1] = Req(ThreshWriteOp, 2, [value |-> DefaultRate + 1])
          /\ plan[5] = Req(BloomWriteOp, 1, [word |-> {0, 1}])
          /\ plan[9] = Req(RuleWriteOp, 1, [rule |-> MyRule])
      BY <2>3, RuntimePlan
    <3>4. /\ plan[3] = Asking(ThreshReadOp, 2) /\ plan[7] = Asking(BloomReadOp, 1)
          /\ plan[11] = Asking(RuleReadOp, 1)
          /\ \A k \in {2, 4, 6, 8, 10, 12} : plan[k] = Flush
      BY <2>3, RuntimePlan
    <3>5. /\ plan[1].op = 17 /\ plan[1].at = 2 /\ plan[1].val.value = DefaultRate + 1
          /\ plan[5].op = 16 /\ plan[5].at = 1 /\ plan[5].val.word = {0, 1}
          /\ plan[9].op = 18 /\ plan[9].at = 1 /\ plan[9].val.rule = MyRule
      BY <3>3, Requests, Opcodes
    <3> QED BY <3>1, <3>2, <3>4, <3>5, Opcodes
  <2>5. \A k \in 1 .. 12 : k \in {1, 3, 5, 7, 9, 11} \/ k \in {2, 4, 6, 8, 10, 12}
    OBVIOUS
  <2>6. /\ Written(ThreshWriteOp, 2).val.value = DefaultRate + 1
        /\ Written(BloomWriteOp, 1).val.word = {0, 1}
        /\ Written(RuleWriteOp, 1).val.rule = MyRule
    <3>1. ASSUME NEW k \in 1 .. 12, NEW op \in {16, 17, 18}, plan[k].op = op,
                 \A j \in 1 .. 12 : plan[j].op = op => j = k
          PROVE  Written(op, plan[k].at) = plan[k]
      <4>1. plan[k] \in Seqs!ToSet(plan)
        BY <2>3 DEF Seqs!ToSet
      <4>2. PICK f : f = Written(op, plan[k].at)
        OBVIOUS
      <4>3. f \in Seqs!ToSet(plan) /\ f.op = op
        BY <3>1, <4>1, <4>2 DEF Written
      <4>4. PICK j \in 1 .. 12 : f = plan[j]
        BY <2>3, <4>3 DEF Seqs!ToSet
      <4> QED BY <3>1, <4>2, <4>3, <4>4
    <3>2. /\ \A j \in 1 .. 12 : plan[j].op = 17 => j = 1
          /\ \A j \in 1 .. 12 : plan[j].op = 16 => j = 5
          /\ \A j \in 1 .. 12 : plan[j].op = 18 => j = 9
      BY <2>4, <2>5
    <3>3. Written(17, 2) = plan[1] /\ Written(16, 1) = plan[5] /\ Written(18, 1) = plan[9]
      BY <2>4, <3>1, <3>2
    <3> QED BY <2>4, <3>3, Opcodes
  <2>7. RuntimePassed
    BY <2>1 DEF Passed
  <2>8. \A k \in {3, 7, 11} : k \in Reads /\ k + 1 \in 1 .. Len(rx)
    BY <2>3, <2>4, Opcodes DEF Reads
  <2>9. /\ rx[4] = ReadBack(3) /\ rx[8] = ReadBack(7) /\ rx[12] = ReadBack(11)
    BY <2>7, <2>8 DEF RuntimePassed, AnswerTo
  <2>10. /\ ReadBack(3) = Ack([id |-> 2, value |-> DefaultRate + 1])
         /\ ReadBack(7) = Ack([addr |-> 1, word |-> {0, 1}])
         /\ ReadBack(11) = Ack([idx |-> 1, rule |-> MyRule])
    <3>1. plan[3].op = ThreshReadOp /\ plan[7].op = BloomReadOp /\ plan[11].op = RuleReadOp
      BY <2>4, Opcodes
    <3>2. \A k : plan[k].op = ThreshReadOp => ReadBack(k) =
             Ack([id |-> plan[k].at, value |-> Written(ThreshWriteOp, plan[k].at).val.value])
      BY Opcodes DEF ReadBack
    <3>3. \A k : plan[k].op = BloomReadOp => ReadBack(k) =
             Ack([addr |-> plan[k].at, word |-> Written(BloomWriteOp, plan[k].at).val.word])
      BY Opcodes DEF ReadBack
    <3>4. \A k : plan[k].op = RuleReadOp => ReadBack(k) =
             Ack([idx |-> plan[k].at, rule |-> Written(RuleWriteOp, plan[k].at).val.rule])
      BY Opcodes DEF ReadBack
    <3>5. ReadBack(3) = Ack([id |-> 2, value |-> DefaultRate + 1])
      BY <2>4, <2>6, <3>1, <3>2
    <3>6. ReadBack(7) = Ack([addr |-> 1, word |-> {0, 1}])
      BY <2>4, <2>6, <3>1, <3>3
    <3>7. ReadBack(11) = Ack([idx |-> 1, rule |-> MyRule])
      BY <2>4, <2>6, <3>1, <3>4
    <3> QED BY <3>5, <3>6, <3>7
  <2>11. TellsTrue(rx[4]) /\ TellsTrue(rx[8]) /\ TellsTrue(rx[12])
    BY <2>2, <2>3 DEF AnswersHold
  <2>12. regs.rate = DefaultRate + 1
    <3>1. PICK r : r = rx[4]
      OBVIOUS
    <3>2. r.magic = 90 /\ DOMAIN r.body = {"id", "value"}
          /\ r.body.id = 2 /\ r.body.value = DefaultRate + 1
      BY <2>9, <2>10, <3>1 DEF Ack
    <3>3. RegRead(r.body.id) = r.body.value
      BY <2>1, <2>11, <3>1, <3>2 DEF TellsTrue, RegTold
    <3>4. RegRead(2) = regs[RegName(2)] /\ RegName(2) = "rate"
      BY DEF RegRead, RegName
    <3> QED BY <3>2, <3>3, <3>4
  <2>13. bloom[1] = {0, 1}
    <3>1. PICK r : r = rx[8]
      OBVIOUS
    <3>2. r.magic = 90 /\ DOMAIN r.body = {"addr", "word"}
          /\ r.body.addr = 1 /\ r.body.word = {0, 1}
      BY <2>9, <2>10, <3>1 DEF Ack
    <3>3. bloom[r.body.addr % Words] = r.body.word
      BY <2>11, <3>1, <3>2 DEF TellsTrue, BloomTold
    <3>4. 1 % Words = 1
      BY Sizes
    <3> QED BY <3>2, <3>3, <3>4
  <2>14. rules[1] = MyRule
    <3>1. PICK r : r = rx[12]
      OBVIOUS
    <3>2. r.magic = 90 /\ DOMAIN r.body = {"idx", "rule"}
          /\ r.body.idx = 1 /\ r.body.rule = MyRule
      BY <2>9, <2>10, <3>1 DEF Ack
    <3>3. rules[r.body.idx % RuleDepth] = r.body.rule
      BY <2>11, <3>1, <3>2 DEF TellsTrue, RuleTold
    <3>4. 1 % RuleDepth = 1
      BY Sizes
    <3> QED BY <3>2, <3>3, <3>4
  <2> QED BY <2>12, <2>13, <2>14
<1> QED BY <1>1, ToolsHold, PTL

\* silicon_flow_check.py: when nothing was lost, the cell of the source that
\* came back is its own and one packet old: the other source had evicted it.
THEOREM FlowEvicted == ToolsSpec => []PassedFlowMeansEvicted
<1>1. ToolInv => PassedFlowMeansEvicted
  <2>1. SUFFICES ASSUME ToolInv, Finished, script = "flow_check", lost = {}, resets = {}
                 PROVE  /\ flow[FlowBucket[SrcA]].fp = FlowFp[SrcA]
                        /\ flow[FlowBucket[SrcA]].pkts = 1
    BY DEF PassedFlowMeansEvicted
  <2>2. Len(rx) = DefaultPort + 2
    BY <2>1, FlowPlan DEF ToolInv, Course, Finished
  <2> QED BY <2>1, <2>2 DEF ToolInv, CellTaken
<1> QED BY <1>1, ToolsHold, PTL

(***************************************************************************)
(* The golden stream                                                        *)
(***************************************************************************)
\* A sequence of packets.
IsStream(s) == \E S : s \in Seq(S) /\ \A f \in S : f.op = ClassifyOp

LEMMA StreamFacts ==
    ASSUME NEW s, IsStream(s)
    PROVE  /\ Len(s) \in Nat /\ DOMAIN s = 1 .. Len(s)
           /\ \A k \in 1 .. Len(s) : s[k].op = ClassifyOp
<1>1. PICK S : s \in Seq(S) /\ \A f \in S : f.op = ClassifyOp
  BY DEF IsStream
<1>2. Len(s) \in Nat /\ s \in [1 .. Len(s) -> S]
  BY <1>1
<1> QED BY <1>1, <1>2

LEMMA StreamsJoin ==
    ASSUME NEW s, NEW t, IsStream(s), IsStream(t)
    PROVE  /\ IsStream(s \o t) /\ Len(s \o t) = Len(s) + Len(t)
           /\ \A k \in 1 .. Len(s) + Len(t) :
                 (s \o t)[k] = IF k <= Len(s) THEN s[k] ELSE t[k - Len(s)]
<1>1. PICK S : s \in Seq(S) /\ \A f \in S : f.op = ClassifyOp
  BY DEF IsStream
<1>2. PICK T : t \in Seq(T) /\ \A f \in T : f.op = ClassifyOp
  BY DEF IsStream
<1>3. PICK U : U = S \cup T
  OBVIOUS
<1>4. s \in Seq(U) /\ t \in Seq(U)
  <2>1. s \in [1 .. Len(s) -> S] /\ Len(s) \in Nat /\ S \in SUBSET U
    BY <1>1, <1>3
  <2>2. t \in [1 .. Len(t) -> T] /\ Len(t) \in Nat /\ T \in SUBSET U
    BY <1>2, <1>3
  <2> QED BY <2>1, <2>2, ListIsSeq
<1>5. /\ s \o t \in Seq(U) /\ Len(s \o t) = Len(s) + Len(t)
      /\ \A k \in 1 .. Len(s) + Len(t) :
            (s \o t)[k] = IF k <= Len(s) THEN s[k] ELSE t[k - Len(s)]
  BY <1>4, ConcatProperties
<1>6. \A f \in U : f.op = ClassifyOp
  BY <1>1, <1>2, <1>3
<1> QED BY <1>5, <1>6 DEF IsStream

LEMMA ListIsStream ==
    ASSUME NEW m \in Int, NEW f, f = [i \in 1 .. m |-> f[i]],
           \A i \in 1 .. m : f[i].op = ClassifyOp
    PROVE  IsStream(f) /\ (m >= 0 => Len(f) = m)
<1>1. PICK n \in Nat : 1 .. m = 1 .. n /\ (m >= 0 => m = n)
  <2>1. CASE m >= 0
    BY <2>1
  <2>2. CASE m < 0
    <3>1. 1 .. m = 1 .. 0
      BY <2>2
    <3> QED BY <2>2, <3>1
  <2> QED BY <2>1, <2>2
<1>2. PICK S : S = {f[i] : i \in 1 .. n}
  OBVIOUS
<1>3. f \in [1 .. n -> S]
  BY <1>1, <1>2
<1>4. f \in Seq(S) /\ Len(f) = n
  BY <1>3, ListIsSeq
<1>5. \A x \in S : x.op = ClassifyOp
  BY <1>1, <1>2
<1> QED BY <1>1, <1>4, <1>5 DEF IsStream

LEMMA Packets ==
    /\ \A src, dst, port, tcp, flags : hdr(src, dst, port, tcp, flags).op = ClassifyOp
    /\ \A src, dst, port : Syn(src, dst, port).op = ClassifyOp
    /\ \A src, dst : Udp(src, dst).op = ClassifyOp
    /\ Flush.op = ClassifyOp
<1>1. \A src, dst, port, tcp, flags : hdr(src, dst, port, tcp, flags).op = ClassifyOp
  BY DEF hdr
<1>2. Flush.op = ClassifyOp
  BY Requests DEF Flush, Asking
<1> QED BY <1>1, <1>2 DEF Syn, Udp

LEMMA ShortStreams ==
    ASSUME NEW x, NEW y, x.op = ClassifyOp, y.op = ClassifyOp
    PROVE  /\ IsStream(<<x>>) /\ Len(<<x>>) = 1 /\ <<x>>[1] = x
           /\ IsStream(<<x, y>>)
<1>1. PICK S : S = {x, y}
  OBVIOUS
<1>2. <<x>> \in Seq(S) /\ <<x, y>> \in Seq(S)
  BY <1>1
<1> QED BY <1>1, <1>2 DEF IsStream

LEMMA Scenarios ==
    /\ IsStream(V1_BLOOM_INPUTS) /\ IsStream(BENIGN) /\ IsStream(VSCAN) /\ IsStream(FLOOD)
    /\ IsStream(HSCAN) /\ IsStream(BOUNDARY) /\ IsStream(COMBINED)
<1>1. IsStream(V1_BLOOM_INPUTS) /\ IsStream(BENIGN)
  <2>1. PICK x, y : x = hdr(2, 1, 1, TRUE, {"SYN"}) /\ y = hdr(2, AnyC2, 1, TRUE, {"SYN"})
    OBVIOUS
  <2>2. PICK u, v : u = hdr(4, 1, 1, TRUE, {"ACK"}) /\ v = Udp(6, 3)
    OBVIOUS
  <2>3. x.op = ClassifyOp /\ y.op = ClassifyOp /\ u.op = ClassifyOp /\ v.op = ClassifyOp
    BY <2>1, <2>2 DEF hdr, Udp
  <2>4. IsStream(<<x, y>>) /\ IsStream(<<u, v>>)
    BY <2>3, ShortStreams
  <2> QED BY <2>1, <2>2, <2>4 DEF V1_BLOOM_INPUTS, BENIGN
<1>2. IsStream(VSCAN)
  <2>1. VSCAN = [i \in 1 .. DefaultPort |-> VSCAN[i]]
    BY DEF VSCAN
  <2>2. \A i \in 1 .. DefaultPort : VSCAN[i].op = ClassifyOp
    BY Packets DEF VSCAN
  <2> QED BY <2>1, <2>2, Sizes, ListIsStream
<1>3. IsStream(FLOOD)
  <2>1. FLOOD = [i \in 1 .. DefaultRate |-> FLOOD[i]]
    BY DEF FLOOD
  <2>2. \A i \in 1 .. DefaultRate : FLOOD[i].op = ClassifyOp
    BY Packets DEF FLOOD
  <2> QED BY <2>1, <2>2, Sizes, ListIsStream
<1>4. IsStream(HSCAN)
  <2>1. HSCAN = [i \in 1 .. DefaultHost |-> HSCAN[i]]
    BY DEF HSCAN
  <2>2. \A i \in 1 .. DefaultHost : HSCAN[i].op = ClassifyOp
    BY Packets DEF HSCAN
  <2> QED BY <2>1, <2>2, Sizes, ListIsStream
<1>5. IsStream(COMBINED)
  <2>1. COMBINED = [i \in 1 .. DefaultRate |-> COMBINED[i]]
    BY DEF COMBINED
  <2>2. \A i \in 1 .. DefaultRate : COMBINED[i].op = ClassifyOp
    BY Packets DEF COMBINED
  <2> QED BY <2>1, <2>2, Sizes, ListIsStream
<1>6. IsStream(BOUNDARY)
  <2> DEFINE m == DefaultPort - 1
             n == WindowLen - DefaultPort + 1
             a == [i \in 1 .. m |-> Syn(14, 1, i)]
             b == [i \in 1 .. n |-> Udp(14 + 2 * i, 1)]
             c == <<Syn(14, 1, DefaultPort)>>
  <2>1. BOUNDARY = a \o b \o c
    BY DEF BOUNDARY
  <2>2. a = [i \in 1 .. m |-> a[i]] /\ b = [i \in 1 .. n |-> b[i]]
    OBVIOUS
  <2>3. (\A i \in 1 .. m : a[i].op = ClassifyOp) /\ (\A i \in 1 .. n : b[i].op = ClassifyOp)
    BY Packets
  <2>4. m \in Int /\ n \in Int
    BY Sizes
  <2>5. IsStream(c)
    <3>1. PICK x : x = Syn(14, 1, DefaultPort)
      OBVIOUS
    <3>2. x.op = ClassifyOp
      BY <3>1, Packets
    <3>3. IsStream(<<x>>)
      BY <3>2, ShortStreams
    <3> QED BY <3>1, <3>3
  <2> HIDE DEF a, b, c, m, n
  <2>6. IsStream(a) /\ IsStream(b)
    BY <2>2, <2>3, <2>4, ListIsStream
  <2>7. IsStream(a \o b)
    BY <2>6, StreamsJoin
  <2> QED BY <2>1, <2>5, <2>7, StreamsJoin
<1> QED BY <1>1, <1>2, <1>3, <1>4, <1>5, <1>6

LEMMA StreamExtends ==
    ASSUME NEW s, NEW t, IsStream(s), IsStream(t)
    PROVE  IsStream(Extended(s, t))
<1> DEFINE n == (-Len(s)) % WindowLen
           a == [i \in 1 .. n |-> Udp(30 + 2 * (Len(s) + i), 1)]
<1>1. n \in Int
  <2>1. Len(s) \in Nat
    BY StreamFacts
  <2> QED BY <2>1, Sizes
<1>2. a = [i \in 1 .. n |-> a[i]] /\ \A i \in 1 .. n : a[i].op = ClassifyOp
  BY Packets
<1>3. Extended(s, t) = s \o a \o t
  BY DEF Extended, pad_to_window
<1> HIDE DEF a, n
<1>4. IsStream(a)
  BY <1>1, <1>2, ListIsStream
<1>5. IsStream(s \o a)
  BY <1>4, StreamsJoin
<1> QED BY <1>3, <1>5, StreamsJoin

\* The plan of spi_verdict_check.py: the golden stream and a flush.
LEMMA StreamPlan ==
    /\ IsStream(build_stream) /\ IsStream(VerdictCheck)
    /\ Len(VerdictCheck) = Len(build_stream) + 1
    /\ \A k \in 1 .. Len(build_stream) : VerdictCheck[k] = build_stream[k]
<1>1. IsStream(build_stream)
  BY Scenarios, StreamExtends DEF build_stream
<1>2. IsStream(<<Flush>>) /\ Len(<<Flush>>) = 1
  BY Packets, ShortStreams
<1>3. Len(build_stream) \in Nat
  BY <1>1, StreamFacts
<1>4. PICK s : s = <<Flush>>
  OBVIOUS
<1>5. /\ IsStream(build_stream \o s) /\ Len(build_stream \o s) = Len(build_stream) + 1
      /\ \A k \in 1 .. Len(build_stream) : (build_stream \o s)[k] = build_stream[k]
  BY <1>1, <1>2, <1>3, <1>4, StreamsJoin
<1> QED BY <1>1, <1>4, <1>5 DEF VerdictCheck

(***************************************************************************)
(* spi_verdict_check.py.  What came back is known of two kinds of steps     *)
(* only: btnC leaves no answer, and after a lost frame the answer before it *)
(* comes again.  A PASS excludes both, as each answer has to be a verdict   *)
(* with a seq one above the last.                                           *)
(***************************************************************************)
Unbroken ==
    script = "verdict_check" /\ others = 0 =>
        /\ plan = VerdictCheck /\ (\E S : rx \in Seq(S)) /\ count \in Nat
        /\ lost \cup resets \subseteq 1 .. Len(rx)
        /\ Len(rx) \in lost \/ rx = <<>> => pending = NoFrame
        /\ rx = <<>> => resp = NoAnswer
        /\ rx # <<>> => resp = rx[Len(rx)] /\ rx[1] = NoAnswer
        /\ \A j \in resets : rx[j] = NoAnswer
        /\ \A j \in 2 .. Len(rx) : j - 1 \in lost /\ j \notin resets => rx[j] = rx[j - 1]
        /\ \A j \in 1 .. Len(rx) : rx[j].magic = 165 => rx[j].body.seq \in 0 .. SeqMod - 1

LEMMA SeqRange ==
    ASSUME count \in Nat
    PROVE  /\ (count + 1) % CountMod \in Nat
           /\ (count + 1) % SeqMod \in 0 .. SeqMod - 1
  BY Sizes

\* A transfer answers nothing new, something that is no verdict, or a verdict
\* with the next seq.
LEMMA TransferAnswers ==
    ASSUME NEW f, Transfer(f), count \in Nat
    PROVE  /\ count' \in Nat
           /\ pending = NoFrame => resp' = resp
           /\ \/ resp' = resp
              \/ resp'.magic # 165
              \/ resp'.body.seq \in 0 .. SeqMod - 1
<1>1. CASE pending = NoFrame
  <2>1. count' = count /\ resp' = resp
    BY <1>1 DEF Transfer
  <2> QED BY <2>1
<1>2. CASE pending # NoFrame
  <2>1. Effect(pending) /\ count' = (count + 1) % CountMod
    BY <1>2 DEF Transfer
  <2>2. CASE Classify(pending)
    <3>1. resp'.body.seq = (count + 1) % SeqMod
      BY <2>2 DEF Classify
    <3> QED BY <1>2, <2>1, <3>1, SeqRange
  <2>3. CASE Telemeter(pending)
    <3>1. resp'.magic = 90
      BY <2>3 DEF Telemeter
    <3> QED BY <1>2, <2>1, <3>1, SeqRange
  <2>4. CASE Write(pending) \/ Read(pending)
    <3>1. \E b : resp' = Ack(b)
      BY <2>4 DEF Write, Read
    <3>2. resp'.magic = 90
      BY <3>1 DEF Ack
    <3> QED BY <1>2, <2>1, <3>2, SeqRange
  <2>5. CASE Ignore(pending)
    BY <1>2, <2>1, <2>5, SeqRange DEF Ignore
  <2> QED BY <2>1, <2>2, <2>3, <2>4, <2>5 DEF Effect
<1> QED BY <1>1, <1>2

LEMMA Appended ==
    ASSUME NEW S, NEW r \in Seq(S), NEW x, NEW q, q = Append(r, x)
    PROVE  /\ \E T : q \in Seq(T)
           /\ Len(r) \in Nat /\ Len(q) = Len(r) + 1 /\ q # <<>>
           /\ \A i \in 1 .. Len(r) : q[i] = r[i]
           /\ q[Len(r) + 1] = x
<1>1. PICK T : T = S \cup {x}
  OBVIOUS
<1>2. r \in Seq(T) /\ x \in T /\ Len(r) \in Nat
  <2>1. r \in [1 .. Len(r) -> S] /\ Len(r) \in Nat /\ S \in SUBSET T
    BY <1>1
  <2> QED BY <1>1, <2>1, ListIsSeq
<1>3. /\ q \in Seq(T) /\ Len(q) = Len(r) + 1
      /\ \A i \in 1 .. Len(r) : q[i] = r[i]
      /\ q[Len(r) + 1] = x
  BY <1>2, AppendProperties
<1>4. q # <<>>
  BY <1>2, <1>3
<1> QED BY <1>2, <1>3, <1>4

LEMMA UnbrokenStart == ToolsInit => Unbroken
<1> SUFFICES ASSUME ToolsInit, script = "verdict_check" PROVE Unbroken
  BY DEF Unbroken
<1>1. /\ plan = VerdictCheck /\ rx = <<>> /\ lost = {} /\ resets = {}
      /\ count = 0 /\ pending = NoFrame /\ resp = NoAnswer
  BY DEF ToolsInit, Init
<1>2. rx \in Seq({}) /\ Len(rx) = 0
  BY <1>1
<1> QED BY <1>1, <1>2 DEF Unbroken

LEMMA UnbrokenStep ==
    ASSUME Unbroken, [Step \/ Other]_vars, others \in Nat
    PROVE  Unbroken' /\ others' \in Nat
<1>1. CASE UNCHANGED vars
  BY <1>1 DEF vars, boardVars, toolVars, Unbroken
<1>2. CASE Other
  <2>1. others' = others + 1
    BY <1>2 DEF Other
  <2>2. others' # 0 /\ others' \in Nat
    BY <2>1
  <2> QED BY <2>2 DEF Unbroken
<1>3. CASE Step
  <2>1. script' = script /\ plan' = plan /\ others' = others
    BY <1>3 DEF Step
  <2>2. SUFFICES ASSUME script = "verdict_check", others = 0 PROVE Unbroken'
    BY <2>1 DEF Unbroken
  <2> DEFINE n == Len(rx)
             f == plan[n + 1]
  <2>3. /\ plan = VerdictCheck /\ (\E S : rx \in Seq(S)) /\ count \in Nat
        /\ lost \cup resets \subseteq 1 .. n
        /\ n \in lost \/ rx = <<>> => pending = NoFrame
        /\ rx = <<>> => resp = NoAnswer
        /\ rx # <<>> => resp = rx[n] /\ rx[1] = NoAnswer
        /\ \A j \in resets : rx[j] = NoAnswer
        /\ \A j \in 2 .. n : j - 1 \in lost /\ j \notin resets => rx[j] = rx[j - 1]
        /\ \A j \in 1 .. n : rx[j].magic = 165 => rx[j].body.seq \in 0 .. SeqMod - 1
    BY <2>2 DEF Unbroken
  <2>4. /\ rx' = Append(rx, resp') /\ count' \in Nat
        /\ \/ /\ lost' = lost /\ resets' = resets
              /\ pending = NoFrame => resp' = resp
           \/ /\ lost' = lost \cup {n + 1} /\ resets' = resets /\ pending' = NoFrame
              /\ pending = NoFrame => resp' = resp
           \/ lost' = lost /\ resets' = resets \cup {n + 1} /\ resp' = NoAnswer
        /\ \/ resp' = resp
           \/ resp'.magic # 165
           \/ resp'.body.seq \in 0 .. SeqMod - 1
    <3>1. CASE send_frame(f) /\ UNCHANGED <<lost, resets>>
      BY <2>3, <3>1, TransferAnswers DEF send_frame
    <3>2. CASE LoseFrame
      <4>1. /\ Transfer(NoFrame) /\ rx' = Append(rx, resp')
            /\ lost' = lost \cup {n + 1} /\ resets' = resets
        BY <3>2 DEF LoseFrame, send_frame
      <4>2. pending' = NoFrame
        BY <4>1 DEF Transfer
      <4> QED BY <2>3, <4>1, <4>2, TransferAnswers
    <3>3. CASE PressReset(f)
      <4>1. /\ AfterReset(f) /\ rx' = Append(rx, resp')
            /\ lost' = lost /\ resets' = resets \cup {n + 1}
        BY <3>3 DEF PressReset
      <4>2. count' = 0 /\ resp' = NoAnswer
        BY <4>1 DEF AfterReset
      <4> QED BY <4>1, <4>2 DEF NoAnswer
    <3> QED BY <1>3, <3>1, <3>2, <3>3 DEF Step
  <2>5. /\ (\E T : rx' \in Seq(T)) /\ n \in Nat /\ Len(rx') = n + 1 /\ rx' # <<>>
        /\ \A i \in 1 .. n : rx'[i] = rx[i]
        /\ rx'[n + 1] = resp'
    BY <2>3, <2>4, Appended
  <2>6. rx = <<>> <=> n = 0
    <3>1. PICK S : rx \in Seq(S)
      BY <2>3
    <3> QED BY <3>1, EmptySeq
  <2>7. lost' \cup resets' \subseteq 1 .. n + 1
    BY <2>3, <2>4, <2>5
  <2>8. n + 1 \in lost' => pending' = NoFrame
    BY <2>3, <2>4, <2>5
  <2>9. rx'[1] = NoAnswer
    <3>1. CASE n = 0
      BY <2>3, <2>4, <2>5, <2>6, <3>1
    <3>2. CASE n # 0
      BY <2>3, <2>5, <2>6, <3>2
    <3> QED BY <3>1, <3>2
  <2>10. \A j \in resets' : rx'[j] = NoAnswer
    <3>1. \A j \in resets : rx'[j] = NoAnswer
      BY <2>3, <2>5
    <3> QED BY <2>4, <2>5, <3>1
  <2>11. ASSUME NEW j \in 2 .. n + 1, j - 1 \in lost', j \notin resets'
         PROVE  rx'[j] = rx'[j - 1]
    <3>1. j - 1 \in 1 .. n /\ j - 1 \in lost
      BY <2>4, <2>5, <2>11
    <3>2. CASE j = n + 1
      <4>1. resp' = resp /\ rx # <<>>
        BY <2>3, <2>4, <2>5, <2>6, <2>11, <3>1, <3>2
      <4> QED BY <2>3, <2>5, <3>1, <3>2, <4>1
    <3>3. CASE j # n + 1
      <4>1. j \in 2 .. n /\ j \in 1 .. n /\ j \notin resets
        BY <2>4, <2>5, <2>11, <3>3
      <4> QED BY <2>3, <2>5, <3>1, <4>1
    <3> QED BY <3>2, <3>3
  <2>12. ASSUME NEW j \in 1 .. n + 1, rx'[j].magic = 165
         PROVE  rx'[j].body.seq \in 0 .. SeqMod - 1
    <3>1. CASE j = n + 1
      <4>1. CASE resp' = resp
        <5>1. rx # <<>> /\ n \in 1 .. n /\ rx'[j] = rx[n]
          BY <2>3, <2>5, <2>6, <2>12, <3>1, <4>1 DEF NoAnswer
        <5> QED BY <2>3, <2>12, <5>1
      <4> QED BY <2>4, <2>5, <2>12, <3>1, <4>1
    <3>2. CASE j # n + 1
      <4>1. j \in 1 .. n
        BY <2>5, <3>2
      <4> QED BY <2>3, <2>5, <2>12, <4>1
    <3> QED BY <3>1, <3>2
  <2> HIDE DEF n, f
  <2> QED BY <2>1, <2>3, <2>4, <2>5, <2>7, <2>8, <2>9, <2>10, <2>11, <2>12 DEF Unbroken
<1> QED BY <1>1, <1>2, <1>3

\* spi_verdict_check.py: PASS means that every frame of the stream was
\* classified in one go: a lost frame would repeat a seq, btnC leave a
\* transfer without a verdict, for every stream length and depth of seq.
THEOREM StreamWhole == ToolsSpec => []PassedStreamIsWhole
<1>1. Unbroken => PassedStreamIsWhole
  <2>1. SUFFICES ASSUME Unbroken, Finished, script = "verdict_check", Passed, others = 0
                 PROVE  lost \subseteq {Len(plan)} /\ resets \subseteq {1}
    BY DEF PassedStreamIsWhole
  <2>2. PICK N \in Nat : N = Len(build_stream) /\ Len(plan) = N + 1 /\ Len(rx) = N + 1
    BY <2>1, StreamPlan, StreamFacts DEF Unbroken, Finished
  <2>3. evaluate_run
    BY <2>1 DEF Passed
  <2>4. \A k \in 1 .. N : rx[k + 1].magic = 165
    <3>1. DOMAIN expected_rows = 1 .. N
      BY <2>2 DEF expected_rows
    <3>2. \A k \in DOMAIN expected_rows : rx[k + 1].magic = 165
      BY <2>3 DEF evaluate_run, RowOk, AnswerTo
    <3>3. ASSUME NEW k \in 1 .. N PROVE rx[k + 1].magic = 165
      <4>1. k \in DOMAIN expected_rows
        BY <3>1
      <4> QED BY <3>2, <4>1, Zenon
    <3> QED BY <3>3
  <2>5. \A k \in 2 .. N : rx[k + 1].body.seq = (rx[k].body.seq + 1) % SeqMod
    <3>1. \A k \in 2 .. N : AnswerTo(k).body.seq = (AnswerTo(k - 1).body.seq + 1) % SeqMod
      BY <2>2, <2>3 DEF evaluate_run
    <3>2. \A k \in 2 .. N : (k - 1) + 1 = k
      OBVIOUS
    <3> QED BY <3>1, <3>2 DEF AnswerTo
  <2>6. NoAnswer.magic # 165
    BY DEF NoAnswer
  <2>7. ASSUME NEW j \in resets, j # 1 PROVE FALSE
    <3>1. j \in 2 .. N + 1 /\ rx[j] = NoAnswer
      BY <2>1, <2>2, <2>7 DEF Unbroken
    <3>2. j - 1 \in 1 .. N /\ (j - 1) + 1 = j
      BY <3>1
    <3> QED BY <2>4, <2>6, <3>1, <3>2
  <2>8. ASSUME NEW k \in lost, k # N + 1 PROVE FALSE
    <3>1. k \in 1 .. N /\ k + 1 \in 2 .. Len(rx) /\ (k + 1) - 1 = k
      BY <2>1, <2>2, <2>8 DEF Unbroken
    <3>2. k + 1 \notin resets
      BY <2>7, <3>1
    <3>3. rx[k + 1] = rx[k]
      BY <2>1, <3>1, <3>2 DEF Unbroken
    <3>4. k # 1
      <4>1. rx # <<>> => rx[1] = NoAnswer
        BY <2>1 DEF Unbroken
      <4>2. rx # <<>>
        BY <2>2
      <4> QED BY <2>4, <2>6, <3>1, <3>3, <4>1, <4>2
    <3>5. PICK s : s = rx[k].body.seq
      OBVIOUS
    <3>6. s \in 0 .. SeqMod - 1
      <4>1. rx[k].magic = 165 /\ k \in 1 .. Len(rx)
        BY <2>2, <2>4, <3>1, <3>3
      <4> QED BY <2>1, <3>5, <4>1 DEF Unbroken
    <3>7. s = (s + 1) % SeqMod
      BY <2>5, <3>1, <3>3, <3>4, <3>5
    <3>8. s + 1 = SeqMod \/ s + 1 \in 0 .. SeqMod - 1
      BY <3>6, Sizes
    <3>9. \A m \in 0 .. SeqMod - 1 : m % SeqMod = m
      BY Sizes
    <3>10. SeqMod % SeqMod = 0
      BY Sizes
    <3> QED BY <3>6, <3>7, <3>8, <3>9, <3>10, Sizes
  <2> QED BY <2>2, <2>7, <2>8
<1>2. ToolsInit => Unbroken /\ others \in Nat
  BY UnbrokenStart DEF ToolsInit
<1>3. (Unbroken /\ others \in Nat) /\ [Step \/ Other]_vars => (Unbroken /\ others \in Nat)'
  BY UnbrokenStep
<1> QED BY <1>1, <1>2, <1>3, PTL DEF ToolsSpec

(***************************************************************************)
(* A sound board passes.  Without a lost frame and without btnC the board   *)
(* holds the frame that was sent last and has handled all before it, so     *)
(* each answer can be said beforehand.                                      *)
(***************************************************************************)
Healthy == /\ lost = {} /\ resets = {}
           /\ others = 0 \/ script \in {"runtime_check", "flow_check"}

\* The frames of the plan the board has handled.
Handled == IF rx = <<>> THEN 0 ELSE Len(rx) - 1

InStep ==
    /\ \E S : rx \in Seq(S)
    /\ Len(rx) <= Len(plan)
    /\ rx # <<>> => pending = plan[Len(rx)]
    /\ rx = <<>> => pending = NoFrame \/ (pending \in OtherFrame /\ others # 0)

\* The memories hold what this frame wrote.
Holds(f) ==
    /\ f.op = BloomWriteOp => bloom[f.at] = f.val.word
    /\ f.op = ThreshWriteOp => regs[RegName(f.at)] = f.val.value
    /\ f.op = RuleWriteOp => rules[f.at] = f.val.rule
Answered(k) ==
    /\ k \in Writes => AnswerTo(k) = Ack([acked |-> plan[k].op])
    /\ k \in Reads => AnswerTo(k) = ReadBack(k)
WritesStay == \A k \in 1 .. Handled : Holds(plan[k]) /\ Answered(k)

\* The flow check: the registers have their defaults, so that one SYN in a
\* fresh cell is no scan.
NoScanYet ==
    /\ regs = RegDefaults
    /\ Len(rx) = DefaultPort + 2 => rx[Len(rx)].magic = 165 /\ ~rx[Len(rx)].body.verdict.scan

(***************************************************************************)
(* The golden stream on both tables.                                        *)
(***************************************************************************)
Bin(n) == SrBucket(PacketOf(n).src)
CellAt(n) == FlowBucket[PacketOf(n).src]

Bins == {SrBucket(ip) : ip \in Ip}
SrFields == {"epoch", "pkts", "ports", "hosts"}
Shaped(n) == IsFcn(table[n], Bins) /\ \A b \in Bins : IsFcn(table[n][b], SrFields)

\* Whatever is in a table comes from a frame of that bucket and window, or
\* nothing is in it.
SrTouched(n) ==
    \A b \in Bins :
        \/ table[n][b] = SrBlank(0)
        \/ \E k \in 1 .. n : Bin(k) = b /\ table[n][b].epoch = WindowOf(k)
FlowTouched(n) ==
    \A b \in Cells :
        \/ flow[b] = FreshCell(ZeroIp, 0)
        \/ \E k \in 1 .. n : CellAt(k) = b /\ flow[b].epoch = WindowOf(k)

\* Both tables have counted the same packets.
Agree(c, e) ==
    /\ c.ports = e.ports /\ c.hosts = e.hosts
    /\ \E m \in Nat : c.pkts = Saturate(m, PktMax) /\ e.pkts = Saturate(m, 255)
Matched(n) ==
    \A k \in 1 .. n : WindowOf(k) = WindowOf(n) =>
        /\ table[n][Bin(k)].epoch = WindowOf(n)
        /\ flow[CellAt(k)].epoch = WindowOf(n)
        /\ flow[CellAt(k)].fp = FlowFp[PacketOf(k).src]
        /\ Agree(flow[CellAt(k)], table[n][Bin(k)])

GoodRow(k) == /\ AnswerTo(k).magic = 165
              /\ AnswerTo(k).body.verdict = expected_rows[k]
              /\ AnswerTo(k).body.seq = k % SeqMod

BothTables ==
    /\ bloom = from_ips(C2) /\ rules = [i \in 0 .. RuleDepth - 1 |-> BlankRule]
    /\ regs = RegDefaults /\ count = Handled
    /\ IsFcn(flow, Cells) /\ \A b \in Cells : IsFcn(flow[b], CellFields)
    /\ Shaped(Handled) /\ SrTouched(Handled) /\ FlowTouched(Handled) /\ Matched(Handled)
    /\ \A k \in 1 .. Handled : GoodRow(k)

SoundInv ==
    Healthy =>
        /\ InStep /\ \A k \in DOMAIN plan : plan[k] # NoFrame
        /\ script \in {"hot_load", "runtime_check"} => WritesStay
        /\ script = "flow_check" => NoScanYet
        /\ script = "verdict_check" => plan = VerdictCheck /\ BothTables

(***************************************************************************)
(* One step of a healthy run                                                *)
(***************************************************************************)
\* The script sends the next frame, or the other process a packet before the
\* script begins.
Sends == /\ Len(rx) < Len(plan) /\ Transfer(plan[Len(rx) + 1])
         /\ rx' = Append(rx, resp') /\ others' = others
OtherSends == /\ rx = <<>> /\ rx' = rx /\ others' # 0
              /\ script \in {"runtime_check", "flow_check"}
              /\ \E f \in OtherFrame : Transfer(f)

LEMMA HealthyMoves ==
    ASSUME Healthy', Step \/ Other, others \in Nat, InStep, Len(plan) \in Nat
    PROVE  Sends \/ OtherSends
<1>1. CASE Step
  <2>1. ~LoseFrame /\ ~PressReset(plan[Len(rx) + 1])
    BY DEF LoseFrame, PressReset, Healthy
  <2>2. send_frame(plan[Len(rx) + 1]) /\ others' = others /\ Len(rx) # Len(plan)
    BY <1>1, <2>1 DEF Step, Finished
  <2>3. Len(rx) \in Nat /\ Len(rx) <= Len(plan)
    BY DEF InStep
  <2>4. Len(rx) < Len(plan)
    BY <2>2, <2>3
  <2> QED BY <2>2, <2>4 DEF send_frame, Sends
<1>2. CASE Other
  <2>1. others' # 0
    BY <1>2 DEF Other
  <2>2. script' = script /\ script' \in {"runtime_check", "flow_check"}
    BY <1>2, <2>1 DEF Other, Healthy
  <2> QED BY <1>2, <2>1, <2>2 DEF Other, OtherSends
<1> QED BY <1>1, <1>2

LEMMA HealthyBefore ==
    ASSUME Healthy', Step \/ Other, others \in Nat
    PROVE  Healthy /\ UNCHANGED <<script, plan>> /\ others' \in Nat
<1>1. UNCHANGED <<script, plan>> /\ others' \in Nat /\ others' >= others
  BY DEF Step, Other
<1>2. lost = {} /\ resets = {}
  BY DEF Step, Other, Healthy, LoseFrame, PressReset
<1>3. others' = 0 => others = 0
  BY <1>1
<1> QED BY <1>1, <1>2, <1>3 DEF Healthy

LEMMA HandledCount ==
    ASSUME InStep
    PROVE  /\ Len(rx) \in Nat /\ Handled \in Nat
           /\ rx = <<>> => Handled = 0 /\ Len(rx) = 0
           /\ rx # <<>> => Len(rx) = Handled + 1
<1>1. PICK S : rx \in Seq(S)
  BY DEF InStep
<1>2. Len(rx) \in Nat /\ (rx = <<>> <=> Len(rx) = 0)
  BY <1>1, EmptySeq
<1> QED BY <1>2 DEF Handled

LEMMA SendGrows ==
    ASSUME InStep, Sends, UNCHANGED plan
    PROVE  /\ InStep' /\ rx' # <<>> /\ Handled' = Len(rx)
           /\ \A i \in 1 .. Len(rx) : rx'[i] = rx[i]
           /\ rx'[Len(rx) + 1] = resp'
<1>1. PICK S : rx \in Seq(S)
  BY DEF InStep
<1>2. rx' = Append(rx, resp') /\ pending' = plan[Len(rx) + 1] /\ Len(rx) < Len(plan)
  BY DEF Sends, Transfer
<1>3. PICK n : n = Len(rx)
  OBVIOUS
<1>4. /\ (\E T : rx' \in Seq(T)) /\ n \in Nat /\ Len(rx') = n + 1 /\ rx' # <<>>
      /\ \A i \in 1 .. n : rx'[i] = rx[i]
      /\ rx'[n + 1] = resp'
  BY <1>1, <1>2, <1>3, Appended
<1>5. Len(rx') <= Len(plan)
  <2>1. Len(plan) \in Nat \/ Len(plan) \notin Nat
    OBVIOUS
  <2> QED BY <1>2, <1>3, <1>4
<1>6. InStep'
  BY <1>2, <1>3, <1>4, <1>5 DEF InStep
<1>7. Handled' = n
  BY <1>4 DEF Handled
<1> QED BY <1>3, <1>4, <1>6, <1>7

LEMMA OtherWaits ==
    ASSUME InStep, OtherSends, UNCHANGED plan
    PROVE  InStep' /\ Handled' = 0 /\ Handled = 0
<1>1. rx = <<>> /\ rx' = rx /\ others' # 0 /\ pending' \in OtherFrame
  BY DEF OtherSends, Transfer
<1> QED BY <1>1 DEF InStep, Handled

\* What a frame of a check does, by its opcode.
LEMMA FrameEffect ==
    ASSUME Effect(pending), pending.op \in Asked
    PROVE  /\ pending.op = ClassifyOp =>
                Classify(pending) /\ UNCHANGED <<bloom, rules, regs>>
           /\ pending.op = BloomWriteOp =>
                /\ bloom' = [bloom EXCEPT ![pending.at % Words] = pending.val.word]
                /\ UNCHANGED <<rules, regs>>
           /\ pending.op = ThreshWriteOp =>
                /\ pending.at \in 0 .. 3 =>
                     regs' = [regs EXCEPT ![RegName(pending.at)] = pending.val.value]
                /\ UNCHANGED <<bloom, rules>>
           /\ pending.op = RuleWriteOp =>
                /\ rules' = [rules EXCEPT ![pending.at % RuleDepth] = pending.val.rule]
                /\ UNCHANGED <<bloom, regs>>
           /\ pending.op \in BloomWriteOp .. RuleWriteOp =>
                resp' = Ack([acked |-> pending.op])
           /\ pending.op \in BloomReadOp .. RuleReadOp => UNCHANGED <<bloom, rules, regs>>
           /\ pending.op = BloomReadOp =>
                resp' = Ack([addr |-> pending.at, word |-> bloom[pending.at % Words]])
           /\ pending.op = RuleReadOp =>
                resp' = Ack([idx |-> pending.at, rule |-> rules[pending.at % RuleDepth]])
           /\ pending.op = ThreshReadOp =>
                resp' = Ack([id |-> pending.at, value |-> RegRead(pending.at)])
<1>1. pending.op \in {0, 16, 17, 18, 19, 20, 21}
  BY Opcodes DEF Asked
<1>2. ~Telemeter(pending) /\ ~Ignore(pending)
  BY <1>1, Opcodes DEF Telemeter, Ignore, CmsQueryOp, SnapshotOp, HarmonicOp
<1>3. CASE Classify(pending)
  BY <1>3, Opcodes DEF Classify
<1>4. CASE Write(pending)
  BY <1>1, <1>4, Opcodes DEF Write
<1>5. CASE Read(pending)
  BY <1>1, <1>5, Opcodes DEF Read
<1> QED BY <1>2, <1>3, <1>4, <1>5 DEF Effect

(***************************************************************************)
(* The hot load and the runtime check                                       *)
(***************************************************************************)
\* Every read has a write to read, and one place is written one value.
Coherent(p) ==
    /\ Sound(p) /\ Len(p) >= 1 /\ p[Len(p)].op = ClassifyOp
    /\ \A k \in DOMAIN p :
          /\ p[k].op = BloomWriteOp => p[k].at \in 0 .. Words - 1
          /\ p[k].op = ThreshWriteOp => p[k].at \in 0 .. 3
          /\ p[k].op = RuleWriteOp => p[k].at \in 0 .. RuleDepth - 1
    /\ \A j, k \in DOMAIN p : p[j].op = p[k].op /\ p[j].at = p[k].at =>
          /\ p[j].op = BloomWriteOp => p[j].val.word = p[k].val.word
          /\ p[j].op = ThreshWriteOp => p[j].val.value = p[k].val.value
          /\ p[j].op = RuleWriteOp => p[j].val.rule = p[k].val.rule
    /\ \A k \in DOMAIN p : \A write \in {BloomWriteOp, ThreshWriteOp, RuleWriteOp} :
          p[k].op = write + 3 => \E j \in DOMAIN p : p[j].op = write /\ p[j].at = p[k].at

LEMMA RuntimeCoherent == Coherent(RuntimeCheck)
<1>1. PICK p : p = RuntimeCheck
  OBVIOUS
<1>2. /\ DOMAIN p = 1 .. 12 /\ Len(p) = 12
      /\ p[1].op = 17 /\ p[1].at = 2 /\ p[3].op = 20 /\ p[3].at = 2
      /\ p[5].op = 16 /\ p[5].at = 1 /\ p[7].op = 19 /\ p[7].at = 1
      /\ p[9].op = 18 /\ p[9].at = 1 /\ p[11].op = 21 /\ p[11].at = 1
      /\ \A k \in {2, 4, 6, 8, 10, 12} : p[k].op = 0 /\ p[k].at = 0
  BY <1>1, RuntimePlan, Requests, Opcodes DEF Asking, Flush
<1>3. \A k \in 1 .. 12 : k \in {1, 3, 5, 7, 9, 11} \/ k \in {2, 4, 6, 8, 10, 12}
  OBVIOUS
<1>4. /\ \A k \in 1 .. 12 : p[k].op = 16 => k = 5
      /\ \A k \in 1 .. 12 : p[k].op = 17 => k = 1
      /\ \A k \in 1 .. 12 : p[k].op = 18 => k = 9
      /\ \A k \in 1 .. 12 : p[k].op = 19 => k = 7
      /\ \A k \in 1 .. 12 : p[k].op = 20 => k = 3
      /\ \A k \in 1 .. 12 : p[k].op = 21 => k = 11
  BY <1>2, <1>3
<1>5. \A k \in DOMAIN p :
          /\ p[k].op = BloomWriteOp => p[k].at \in 0 .. Words - 1
          /\ p[k].op = ThreshWriteOp => p[k].at \in 0 .. 3
          /\ p[k].op = RuleWriteOp => p[k].at \in 0 .. RuleDepth - 1
  BY <1>2, <1>4, Opcodes, Sizes
<1>6. ASSUME NEW j \in DOMAIN p, NEW k \in DOMAIN p,
             p[j].op \in {16, 17, 18}, p[j].op = p[k].op
      PROVE  j = k
  <2>1. j = k
    BY <1>2, <1>4, <1>6
  <2> QED BY <2>1
<1>7. ASSUME NEW k \in DOMAIN p, NEW write \in {BloomWriteOp, ThreshWriteOp, RuleWriteOp},
             p[k].op = write + 3
      PROVE  \E j \in DOMAIN p : p[j].op = write /\ p[j].at = p[k].at
  <2>1. CASE write = 16
    <3>1. k = 7
      BY <1>2, <1>4, <1>7, <2>1
    <3>2. 5 \in DOMAIN p /\ p[5].op = write /\ p[5].at = p[k].at
      BY <1>2, <2>1, <3>1
    <3> QED BY <3>2
  <2>2. CASE write = 17
    <3>1. k = 3
      BY <1>2, <1>4, <1>7, <2>2
    <3>2. 1 \in DOMAIN p /\ p[1].op = write /\ p[1].at = p[k].at
      BY <1>2, <2>2, <3>1
    <3> QED BY <3>2
  <2>3. CASE write = 18
    <3>1. k = 11
      BY <1>2, <1>4, <1>7, <2>3
    <3>2. 9 \in DOMAIN p /\ p[9].op = write /\ p[9].at = p[k].at
      BY <1>2, <2>3, <3>1
    <3> QED BY <3>2
  <2> QED BY <2>1, <2>2, <2>3, Opcodes
<1>8. Len(p) >= 1 /\ p[Len(p)].op = ClassifyOp
  BY <1>2, Opcodes
<1>9. \A j, k \in DOMAIN p : p[j].op = p[k].op /\ p[j].at = p[k].at =>
          /\ p[j].op = BloomWriteOp => p[j].val.word = p[k].val.word
          /\ p[j].op = ThreshWriteOp => p[j].val.value = p[k].val.value
          /\ p[j].op = RuleWriteOp => p[j].val.rule = p[k].val.rule
  BY <1>6, Opcodes
<1> QED BY <1>1, <1>5, <1>7, <1>8, <1>9, RuntimeSound DEF Coherent

LEMMA LoadCoherent ==
    ASSUME NEW p, Sound(p), Loads(p)
    PROVE  Coherent(p)
<1>1. \A k \in DOMAIN p :
          /\ p[k].op \in {0, 16, 19}
          /\ p[k].op = 16 => p[k].at \in 0 .. Words - 1 /\ p[k].val.word = build_words[p[k].at]
          /\ p[k].op = 19 => p[k].at \in 0 .. Words - 1
  BY Opcodes DEF Loads
<1>2. \A k \in DOMAIN p :
          /\ p[k].op = BloomWriteOp => p[k].at \in 0 .. Words - 1
          /\ p[k].op # ThreshWriteOp /\ p[k].op # RuleWriteOp
  BY <1>1, Opcodes
<1>3. \A j, k \in DOMAIN p : p[j].op = p[k].op /\ p[j].at = p[k].at =>
          (p[j].op = BloomWriteOp => p[j].val.word = p[k].val.word)
  BY <1>1, Opcodes
<1>4. ASSUME NEW k \in DOMAIN p, NEW write \in {BloomWriteOp, ThreshWriteOp, RuleWriteOp},
             p[k].op = write + 3
      PROVE  \E j \in DOMAIN p : p[j].op = write /\ p[j].at = p[k].at
  <2>1. write = BloomWriteOp /\ p[k].at \in 0 .. Words - 1
    BY <1>1, <1>4, Opcodes
  <2>2. \E j \in DOMAIN p : p[j].op = BloomWriteOp /\ p[j].at = p[k].at
    BY <2>1 DEF Loads
  <2> QED BY <2>1, <2>2
<1>5. Len(p) >= 1 /\ p[Len(p)].op = ClassifyOp
  <2>1. Len(p) # 0
    <3>1. PICK k \in DOMAIN p : p[k].op = BloomWriteOp
      <4>1. 0 \in 0 .. Words - 1
        BY Sizes
      <4> QED BY <4>1 DEF Loads
    <3>2. DOMAIN p = 1 .. Len(p)
      BY DEF Sound
    <3> QED BY <3>1, <3>2
  <2> QED BY <2>1 DEF Loads, Sound
<1> QED BY <1>2, <1>3, <1>4, <1>5 DEF Coherent

LEMMA WrittenIs ==
    ASSUME NEW write, NEW a, NEW j \in DOMAIN plan, plan[j].op = write, plan[j].at = a
    PROVE  \E i \in DOMAIN plan : /\ Written(write, a) = plan[i]
                                  /\ plan[i].op = write /\ plan[i].at = a
<1>1. PICK f : f = Written(write, a)
  OBVIOUS
<1>2. f \in Seqs!ToSet(plan) /\ f.op = write /\ f.at = a
  BY <1>1 DEF Written, Seqs!ToSet
<1>3. PICK i \in DOMAIN plan : f = plan[i]
  BY <1>2 DEF Seqs!ToSet
<1> QED BY <1>1, <1>2, <1>3

LEMMA RegNames ==
    /\ \A a \in 0 .. 3 : RegName(a) \in RegFields
    /\ \A a, b \in 0 .. 3 : RegName(a) = RegName(b) => a = b
<1>1. RegName(0) = "port" /\ RegName(1) = "host" /\ RegName(2) = "rate" /\ RegName(3) = "epoch"
  BY DEF RegName
<1>2. \A a \in 0 .. 3 : a = 0 \/ a = 1 \/ a = 2 \/ a = 3
  OBVIOUS
<1> QED BY <1>1, <1>2 DEF RegFields

\* What was written before is still there once frame n is handled, and frame
\* n too has written.
LEMMA HoldsKept ==
    ASSUME Memories, Coherent(plan), UNCHANGED plan,
           NEW n \in DOMAIN plan, pending = plan[n], Effect(pending),
           NEW k \in 1 .. n, k # n => Holds(plan[k])
    PROVE  Holds(plan[k])'
<1>1. PICK f, g : f = plan[k] /\ g = plan[n]
  OBVIOUS
<1>2. k \in DOMAIN plan /\ k \in Nat /\ n \in Nat
  BY DEF Coherent, Sound
<1>3. g.op \in Asked /\ Effect(pending) /\ pending = g
  BY <1>1 DEF Coherent, Sound
<1>4. f.op = BloomWriteOp => bloom'[f.at] = f.val.word
  <2>1. SUFFICES ASSUME f.op = BloomWriteOp PROVE bloom'[f.at] = f.val.word
    OBVIOUS
  <2>2. f.at \in 0 .. Words - 1 /\ (k # n => bloom[f.at] = f.val.word)
    BY <1>1, <1>2, <2>1 DEF Coherent, Holds
  <2>3. CASE g.op = BloomWriteOp
    <3>1. g.at \in 0 .. Words - 1 /\ (f.at = g.at => f.val.word = g.val.word)
      BY <1>1, <1>2, <2>1, <2>3 DEF Coherent
    <3>2. g.at % Words = g.at
      BY <3>1, WordOf
    <3>3. bloom' = [bloom EXCEPT ![g.at] = g.val.word]
      BY <1>3, <2>3, <3>2, FrameEffect
    <3>4. bloom'[f.at] = IF f.at = g.at THEN g.val.word ELSE bloom[f.at]
      BY <2>2, <3>3 DEF Memories, IsFcn
    <3> QED BY <1>1, <2>2, <3>1, <3>4
  <2>4. CASE g.op # BloomWriteOp
    <3>1. bloom' = bloom /\ k # n
      BY <1>1, <1>3, <2>1, <2>4, FrameEffect, Opcodes DEF Asked
    <3> QED BY <2>2, <3>1
  <2> QED BY <2>3, <2>4
<1>5. f.op = ThreshWriteOp => regs'[RegName(f.at)] = f.val.value
  <2>1. SUFFICES ASSUME f.op = ThreshWriteOp PROVE regs'[RegName(f.at)] = f.val.value
    OBVIOUS
  <2>2. f.at \in 0 .. 3 /\ (k # n => regs[RegName(f.at)] = f.val.value)
    BY <1>1, <1>2, <2>1 DEF Coherent, Holds
  <2>3. CASE g.op = ThreshWriteOp
    <3>1. g.at \in 0 .. 3 /\ (f.at = g.at => f.val.value = g.val.value)
      BY <1>1, <1>2, <2>1, <2>3 DEF Coherent
    <3>2. regs' = [regs EXCEPT ![RegName(g.at)] = g.val.value]
      BY <1>3, <2>3, <3>1, FrameEffect
    <3>3. RegName(f.at) \in RegFields /\ (RegName(f.at) = RegName(g.at) => f.at = g.at)
      BY <2>2, <3>1, RegNames
    <3>4. regs'[RegName(f.at)] =
            IF RegName(f.at) = RegName(g.at) THEN g.val.value ELSE regs[RegName(f.at)]
      BY <3>2, <3>3 DEF Memories, IsFcn
    <3> QED BY <1>1, <2>2, <3>1, <3>3, <3>4
  <2>4. CASE g.op # ThreshWriteOp
    <3>1. regs' = regs /\ k # n
      BY <1>1, <1>3, <2>1, <2>4, FrameEffect, Opcodes DEF Asked
    <3> QED BY <2>2, <3>1
  <2> QED BY <2>3, <2>4
<1>6. f.op = RuleWriteOp => rules'[f.at] = f.val.rule
  <2>1. SUFFICES ASSUME f.op = RuleWriteOp PROVE rules'[f.at] = f.val.rule
    OBVIOUS
  <2>2. f.at \in 0 .. RuleDepth - 1 /\ (k # n => rules[f.at] = f.val.rule)
    BY <1>1, <1>2, <2>1 DEF Coherent, Holds
  <2>3. CASE g.op = RuleWriteOp
    <3>1. g.at \in 0 .. RuleDepth - 1 /\ (f.at = g.at => f.val.rule = g.val.rule)
      BY <1>1, <1>2, <2>1, <2>3 DEF Coherent
    <3>2. g.at % RuleDepth = g.at
      BY <3>1, Sizes
    <3>3. rules' = [rules EXCEPT ![g.at] = g.val.rule]
      BY <1>3, <2>3, <3>2, FrameEffect
    <3>4. rules'[f.at] = IF f.at = g.at THEN g.val.rule ELSE rules[f.at]
      BY <2>2, <3>3 DEF Memories, IsFcn
    <3> QED BY <1>1, <2>2, <3>1, <3>4
  <2>4. CASE g.op # RuleWriteOp
    <3>1. rules' = rules /\ k # n
      BY <1>1, <1>3, <2>1, <2>4, FrameEffect, Opcodes DEF Asked
    <3> QED BY <2>2, <3>1
  <2> QED BY <2>3, <2>4
<1>7. f = plan'[k]
  BY <1>1
<1> QED BY <1>4, <1>5, <1>6, <1>7 DEF Holds

\* A read-back finds what was written.
LEMMA ReadsBack ==
    ASSUME Coherent(plan), NEW n \in DOMAIN plan, pending = plan[n], Effect(pending),
           \A j \in 1 .. n - 1 : Holds(plan[j]), n \in Reads
    PROVE  resp' = ReadBack(n)
<1>1. PICK g : g = plan[n]
  OBVIOUS
<1>2. g.op \in 19 .. 21 /\ g.op \in Asked /\ n \in Nat
  BY <1>1, Opcodes DEF Reads, Coherent, Sound
<1>3. ASSUME NEW write \in {BloomWriteOp, ThreshWriteOp, RuleWriteOp}, g.op = write + 3
      PROVE  \E j, i \in DOMAIN plan :
                /\ Holds(plan[j]) /\ plan[j].op = write /\ plan[j].at = g.at
                /\ plan[i].op = write /\ plan[i].at = g.at /\ Written(write, g.at) = plan[i]
  <2>1. PICK j \in DOMAIN plan : plan[j].op = write /\ plan[j].at = g.at
    BY <1>1, <1>3 DEF Coherent
  <2>2. j < n
    <3>1. \/ write = BloomWriteOp /\ g.op = BloomReadOp
          \/ write = ThreshWriteOp /\ g.op = ThreshReadOp
          \/ write = RuleWriteOp /\ g.op = RuleReadOp
      BY <1>3, Opcodes
    <3> QED BY <1>1, <2>1, <3>1 DEF Coherent, Sound, WriteBeforeRead
  <2>3. j \in 1 .. n - 1
    BY <1>2, <2>2 DEF Coherent, Sound
  <2>4. PICK i \in DOMAIN plan : /\ Written(write, g.at) = plan[i]
                                 /\ plan[i].op = write /\ plan[i].at = g.at
    BY <2>1, WrittenIs
  <2> QED BY <2>1, <2>3, <2>4
<1>4. CASE g.op = BloomReadOp
  <2>1. PICK j, i \in DOMAIN plan :
                /\ Holds(plan[j]) /\ plan[j].op = BloomWriteOp /\ plan[j].at = g.at
                /\ plan[i].op = BloomWriteOp /\ plan[i].at = g.at
                /\ Written(BloomWriteOp, g.at) = plan[i]
    BY <1>3, <1>4, Opcodes
  <2>2. g.at \in 0 .. Words - 1 /\ plan[i].val.word = plan[j].val.word
    BY <2>1 DEF Coherent
  <2>3. bloom[g.at % Words] = Written(BloomWriteOp, g.at).val.word
    BY <2>1, <2>2, WordOf DEF Holds
  <2>4. resp' = Ack([addr |-> g.at, word |-> bloom[g.at % Words]])
    BY <1>1, <1>2, <1>4, FrameEffect
  <2>5. ReadBack(n) = Ack([addr |-> g.at, word |-> Written(BloomWriteOp, g.at).val.word])
    BY <1>1, <1>4, Opcodes DEF ReadBack
  <2> QED BY <2>3, <2>4, <2>5
<1>5. CASE g.op = ThreshReadOp
  <2>1. PICK j, i \in DOMAIN plan :
                /\ Holds(plan[j]) /\ plan[j].op = ThreshWriteOp /\ plan[j].at = g.at
                /\ plan[i].op = ThreshWriteOp /\ plan[i].at = g.at
                /\ Written(ThreshWriteOp, g.at) = plan[i]
    BY <1>3, <1>5, Opcodes
  <2>2. g.at \in 0 .. 3 /\ plan[i].val.value = plan[j].val.value
    BY <2>1 DEF Coherent
  <2>3. RegRead(g.at) = Written(ThreshWriteOp, g.at).val.value
    BY <2>1, <2>2 DEF Holds, RegRead
  <2>4. resp' = Ack([id |-> g.at, value |-> RegRead(g.at)])
    BY <1>1, <1>2, <1>5, FrameEffect
  <2>5. ReadBack(n) = Ack([id |-> g.at, value |-> Written(ThreshWriteOp, g.at).val.value])
    BY <1>1, <1>5, Opcodes DEF ReadBack
  <2> QED BY <2>3, <2>4, <2>5
<1>6. CASE g.op = RuleReadOp
  <2>1. PICK j, i \in DOMAIN plan :
                /\ Holds(plan[j]) /\ plan[j].op = RuleWriteOp /\ plan[j].at = g.at
                /\ plan[i].op = RuleWriteOp /\ plan[i].at = g.at
                /\ Written(RuleWriteOp, g.at) = plan[i]
    BY <1>3, <1>6, Opcodes
  <2>2. g.at \in 0 .. RuleDepth - 1 /\ plan[i].val.rule = plan[j].val.rule
    BY <2>1 DEF Coherent
  <2>3. rules[g.at % RuleDepth] = Written(RuleWriteOp, g.at).val.rule
    <3>1. g.at % RuleDepth = g.at
      BY <2>2, Sizes
    <3> QED BY <2>1, <2>2, <3>1 DEF Holds
  <2>4. resp' = Ack([idx |-> g.at, rule |-> rules[g.at % RuleDepth]])
    BY <1>1, <1>2, <1>6, FrameEffect
  <2>5. ReadBack(n) = Ack([idx |-> g.at, rule |-> Written(RuleWriteOp, g.at).val.rule])
    BY <1>1, <1>6, Opcodes DEF ReadBack
  <2> QED BY <2>3, <2>4, <2>5
<1> QED BY <1>2, <1>4, <1>5, <1>6, Opcodes

LEMMA WritesStayKept ==
    ASSUME Memories, Coherent(plan), InStep, WritesStay, Sends, UNCHANGED plan,
           \A k \in DOMAIN plan : plan[k] # NoFrame
    PROVE  WritesStay'
<1>1. PICK n : n = Len(rx)
  OBVIOUS
<1>2. /\ rx' # <<>> /\ Handled' = n /\ n \in Nat
      /\ \A i \in 1 .. n : rx'[i] = rx[i]
      /\ rx'[n + 1] = resp'
  BY <1>1, SendGrows, HandledCount
<1>3. CASE n = 0
  BY <1>2, <1>3 DEF WritesStay
<1>4. CASE n # 0
  <2>1. rx # <<>> /\ Handled = n - 1 /\ n < Len(plan)
    BY <1>1, <1>2, <1>4, HandledCount DEF Sends
  <2>2. n \in DOMAIN plan /\ pending = plan[n] /\ pending # NoFrame
    BY <1>1, <1>2, <1>4, <2>1 DEF InStep, Coherent, Sound
  <2>3. Effect(pending)
    BY <2>2 DEF Sends, Transfer
  <2>4. \A k \in 1 .. n - 1 : Holds(plan[k]) /\ Answered(k)
    BY <2>1 DEF WritesStay
  <2>5. pending.op \in Asked
    BY <2>2 DEF Coherent, Sound
  <2>6. ASSUME NEW k \in 1 .. n PROVE (Holds(plan[k]) /\ Answered(k))'
    <3>1. k # n => k \in 1 .. n - 1
      BY <1>2
    <3>2. Holds(plan[k])'
      BY <2>2, <2>3, <2>4, <3>1, HoldsKept
    <3>3. CASE k # n
      <4>1. Answered(k) /\ rx'[k + 1] = rx[k + 1]
        BY <1>2, <2>4, <3>1, <3>3
      <4> QED BY <3>2, <4>1 DEF Answered, Writes, Reads, AnswerTo, ReadBack, Written
    <3>4. CASE k = n
      <4>1. n \in Writes => resp' = Ack([acked |-> plan[n].op])
        BY <2>2, <2>3, <2>5, FrameEffect DEF Writes
      <4>2. n \in Reads => resp' = ReadBack(n)
        BY <2>2, <2>3, <2>4, ReadsBack
      <4>3. rx'[k + 1] = resp'
        BY <1>2, <3>4
      <4>4. Reads' = Reads /\ Writes' = Writes /\ ReadBack(n)' = ReadBack(n)
        BY DEF Reads, Writes, ReadBack, Written
      <4>5. n' = n /\ k' = k
        OBVIOUS
      <4> QED BY <3>2, <3>4, <4>1, <4>2, <4>3, <4>4 DEF Answered, AnswerTo
    <3> QED BY <3>3, <3>4
  <2> QED BY <1>2, <2>6 DEF WritesStay
<1> QED BY <1>3, <1>4

(***************************************************************************)
(* The flow check                                                           *)
(***************************************************************************)
\* What the flow table counts on from: the cell, or a fresh one.
Current(c, p, ep) ==
    IF c.fp # FlowFp[p.src] \/ c.epoch # ep THEN FreshCell(p.src, ep) ELSE c

LEMMA CellCounts ==
    ASSUME NEW c, IsFcn(c, CellFields), NEW p, NEW ep
    PROVE  /\ FlowUpdated(c, p, ep).fp = FlowFp[p.src]
           /\ FlowUpdated(c, p, ep).epoch = ep
           /\ FlowUpdated(c, p, ep).pkts = Saturate(Current(c, p, ep).pkts + 1, PktMax)
           /\ FlowUpdated(c, p, ep).ports = Current(c, p, ep).ports \cup
                IF SynGate(p) THEN {PortBit[p.port]} ELSE {}
           /\ FlowUpdated(c, p, ep).hosts = Current(c, p, ep).hosts \cup
                IF SynGate(p) THEN {HostBit[p.dst]} ELSE {}
<1>1. PICK cur : cur = Current(c, p, ep)
  OBVIOUS
<1>2. IsFcn(FreshCell(p.src, ep), CellFields)
  BY DEF FreshCell, IsFcn, CellFields
<1>3. FreshCell(p.src, ep).fp = FlowFp[p.src] /\ FreshCell(p.src, ep).epoch = ep
  BY DEF FreshCell
<1>4. IsFcn(cur, CellFields) /\ cur.fp = FlowFp[p.src] /\ cur.epoch = ep
  BY <1>1, <1>2, <1>3 DEF Current
<1>5. PICK seen : seen = [cur EXCEPT
                      !.pkts = Saturate(cur.pkts + 1, PktMax),
                      !.bytes = Saturate(cur.bytes + p.size, ByteMod - 1),
                      !.flags = cur.flags \cup p.flags]
  OBVIOUS
<1>6. FlowUpdated(c, p, ep) =
        IF SynGate(p)
        THEN [seen EXCEPT !.syns = Saturate(seen.syns + 1, SynMax),
                          !.ports = seen.ports \cup {PortBit[p.port]},
                          !.hosts = seen.hosts \cup {HostBit[p.dst]}]
        ELSE seen
  BY <1>1, <1>5 DEF FlowUpdated, Current
<1>7. /\ IsFcn(seen, CellFields) /\ seen.fp = cur.fp /\ seen.epoch = cur.epoch
      /\ seen.pkts = Saturate(cur.pkts + 1, PktMax)
      /\ seen.ports = cur.ports /\ seen.hosts = cur.hosts
  BY <1>4, <1>5 DEF IsFcn, CellFields
<1>8. PICK u : u = FlowUpdated(c, p, ep)
  OBVIOUS
<1>9. CASE SynGate(p)
  <2>1. /\ u.fp = seen.fp /\ u.epoch = seen.epoch /\ u.pkts = seen.pkts
        /\ u.ports = seen.ports \cup {PortBit[p.port]}
        /\ u.hosts = seen.hosts \cup {HostBit[p.dst]}
    BY <1>6, <1>7, <1>8, <1>9 DEF IsFcn, CellFields
  <2> QED BY <1>1, <1>4, <1>7, <1>8, <1>9, <2>1
<1>10. CASE ~SynGate(p)
  <2>1. u = seen
    BY <1>6, <1>8, <1>10
  <2>2. u.ports = seen.ports \cup {} /\ u.hosts = seen.hosts \cup {}
    BY <2>1
  <2> QED BY <1>1, <1>4, <1>7, <1>8, <1>10, <2>1, <2>2
<1> QED BY <1>9, <1>10

\* A SYN that found the cell another's makes no scan.
LEMMA OneSyn ==
    ASSUME NEW c, IsFcn(c, CellFields), NEW p, NEW ep, c.fp # FlowFp[p.src],
           regs = RegDefaults
    PROVE  ~ScanHit(FlowUpdated(c, p, ep))
<1>1. PICK u : u = FlowUpdated(c, p, ep)
  OBVIOUS
<1>2. Current(c, p, ep).ports = {} /\ Current(c, p, ep).hosts = {}
  BY DEF Current, FreshCell
<1>3. /\ u.ports = {} \/ u.ports = {PortBit[p.port]}
      /\ u.hosts = {} \/ u.hosts = {HostBit[p.dst]}
  BY <1>1, <1>2, CellCounts
<1>4. ASSUME NEW S, NEW x, S = {} \/ S = {x}
      PROVE  Cardinality(S) \in 0 .. 1
  <2>1. CASE S = {}
    <3>1. Cardinality(S) = 0
      BY <2>1, FS_EmptySet
    <3> QED BY <3>1
  <2>2. CASE S = {x}
    <3>1. Cardinality(S) = 1
      BY <2>2, FS_Singleton
    <3> QED BY <3>1
  <2> QED BY <1>4, <2>1, <2>2
<1>5. Cardinality(u.ports) \in 0 .. 1 /\ Cardinality(u.hosts) \in 0 .. 1
  BY <1>3, <1>4
<1>6. regs.port > 1 /\ regs.host > 1 /\ regs.port \in Nat /\ regs.host \in Nat
  BY Sizes, PlansAssumption DEF RegDefaults
<1> QED BY <1>1, <1>5, <1>6 DEF ScanHit

LEMMA NoScanYetKept ==
    ASSUME Memories, Course, CellTaken, Healthy, InStep, NoScanYet, script = "flow_check",
           Sends \/ OtherSends, UNCHANGED <<script, plan>>
    PROVE  NoScanYet'
<1>1. PICK n : n = Len(rx)
  OBVIOUS
<1>2. PICK f : Transfer(f)
  BY DEF Sends, OtherSends
<1>3. plan = FlowCheck /\ Len(plan) = DefaultPort + 2 /\ n \in Nat
  BY <1>1, FlowPlan, HandledCount DEF Course
<1>4. pending = NoFrame \/ pending.op = ClassifyOp
  <2>1. CASE rx = <<>>
    BY <2>1, ToolsAssumption DEF InStep
  <2>2. CASE rx # <<>>
    <3>1. n \in 1 .. DefaultPort + 2 /\ pending = plan[n]
      BY <1>1, <1>3, <2>2, HandledCount, Sizes DEF InStep
    <3> QED BY <1>3, <3>1, FlowPlan
  <2> QED BY <2>1, <2>2
<1>5. regs' = regs
  <2>1. CASE pending = NoFrame
    BY <1>2, <2>1 DEF Transfer
  <2>2. CASE pending # NoFrame
    BY <1>2, <1>4, <2>2, FrameEffect DEF Transfer, Asked
  <2> QED BY <2>1, <2>2
<1>6. regs = RegDefaults
  BY DEF NoScanYet
<1>7. ASSUME Len(rx') = DefaultPort + 2
      PROVE  rx'[Len(rx')].magic = 165 /\ ~rx'[Len(rx')].body.verdict.scan
  <2>1. Sends
    <3>1. OtherSends => rx' = <<>>
      BY DEF OtherSends
    <3>2. rx' # <<>>
      BY <1>7, Sizes
    <3> QED BY <3>1, <3>2
  <2>2. Handled' = n /\ rx' # <<>> /\ InStep' /\ rx'[n + 1] = resp'
    BY <1>1, <2>1, SendGrows
  <2>3. Len(rx') = n + 1
    <3>1. PICK S : rx \in Seq(S)
      BY DEF InStep
    <3>2. rx' = Append(rx, resp')
      BY <2>1 DEF Sends
    <3> QED BY <1>1, <3>1, <3>2, Appended
  <2>4. n = DefaultPort + 1 /\ rx # <<>>
    <3>1. n = DefaultPort + 1 /\ n # 0
      BY <1>3, <1>7, <2>3, Sizes
    <3> QED BY <1>1, <3>1, HandledCount
  <2>5. pending = Syn(SrcA, 1, DefaultPort) /\ pending # NoFrame
    BY <1>1, <1>3, <2>4, FlowPlan, FlowFrames DEF InStep
  <2>6. pending.hdr.src = SrcA /\ SrcA \in Ip
    BY <2>5, ToolsAssumption DEF Syn, hdr
  <2>7. flow[FlowBucket[SrcA]].fp # FlowFp[SrcA]
    BY <1>1, <2>4, PairAssumption DEF CellTaken, Healthy
  <2>8. IsFcn(flow[FlowBucket[SrcA]], CellFields)
    BY <2>6 DEF Memories, Cells
  <2>9. Classify(pending)
    BY <1>2, <1>4, <2>5, FrameEffect DEF Transfer, Asked
  <2>10. PICK cell : /\ cell = FlowUpdated(flow[FlowBucket[SrcA]], pending.hdr,
                                           (count \div WindowLen) % Epochs)
                     /\ resp' = [magic |-> 165, body |->
                                  [verdict |-> VerdictOf(Member(pending.hdr.src) \/
                                             Member(pending.hdr.dst),
                                             cell, Lookup(pending.hdr.src)),
                                   seq |-> (count + 1) % SeqMod]]
    BY <2>6, <2>9 DEF Classify
  <2>11. ~ScanHit(cell)
    BY <1>6, <2>6, <2>7, <2>8, <2>10, OneSyn
  <2>12. resp'.magic = 165 /\ resp'.body.verdict.scan = ScanHit(cell)
    BY <2>10 DEF VerdictOf
  <2>13. rx'[Len(rx')] = resp'
    BY <2>2, <2>3
  <2> QED BY <2>11, <2>12, <2>13
<1>8. RegDefaults' = RegDefaults
  BY DEF RegDefaults
<1> QED BY <1>5, <1>6, <1>7, <1>8 DEF NoScanYet

(***************************************************************************)
(* The golden stream: numbers                                               *)
(***************************************************************************)
LEMMA DivFacts ==
    ASSUME NEW w \in Nat, w > 0, NEW a \in Nat
    PROVE  /\ a \div w \in Nat
           /\ \A b \in Nat : a <= b => a \div w <= b \div w
           /\ \A m \in Nat : a < w * m => a \div w < m
<1>1. PICK q \in Int, r \in Int : a = w * q + r /\ 0 <= r /\ r < w /\ q = a \div w
  OBVIOUS
<1>2. q >= 0
  BY <1>1
<1>3. ASSUME NEW b \in Nat, a <= b PROVE a \div w <= b \div w
  <2>1. PICK s \in Int, t \in Int : b = w * s + t /\ 0 <= t /\ t < w /\ s = b \div w
    OBVIOUS
  <2>2. ~(s < q)
    BY <1>1, <1>3, <2>1
  <2> QED BY <1>1, <2>1, <2>2
<1>4. ASSUME NEW m \in Nat, a < w * m PROVE a \div w < m
  BY <1>1, <1>4
<1> QED BY <1>1, <1>2, <1>3, <1>4

\* The seq after that of frame k - 1 is that of frame k.
LEMMA NextSeq ==
    ASSUME NEW k \in Nat, k > 0
    PROVE  (((k - 1) % SeqMod) + 1) % SeqMod = k % SeqMod
<1>1. PICK m \in Nat : m = SeqMod /\ m > 1
  BY Sizes
<1>2. PICK q \in Int, r \in Int : k - 1 = m * q + r /\ 0 <= r /\ r < m /\ r = (k - 1) % m
  BY <1>1
<1>3. PICK s \in Int, t \in Int : k = m * s + t /\ 0 <= t /\ t < m /\ t = k % m
  BY <1>1
<1>4. CASE r + 1 < m
  <2>1. (r + 1) % m = r + 1
    BY <1>1, <1>2, <1>4
  <2>2. t = r + 1
    <3>1. s = q
      <4>1. ~(s < q)
        BY <1>1, <1>2, <1>3, <1>4
      <4>2. ~(q < s)
        BY <1>1, <1>2, <1>3, <1>4
      <4> QED BY <1>2, <1>3, <4>1, <4>2
    <3> QED BY <1>1, <1>2, <1>3, <3>1
  <2> QED BY <1>1, <1>2, <1>3, <2>1, <2>2
<1>5. CASE r + 1 = m
  <2>1. (r + 1) % m = 0
    BY <1>1, <1>2, <1>5
  <2>2. t = 0
    BY <1>1, <1>2, <1>3, <1>5
  <2> QED BY <1>1, <1>2, <1>3, <2>1, <2>2
<1> QED BY <1>2, <1>4, <1>5

\* The windows of the stream are numbered in order, and each has its epoch.
LEMMA Windows ==
    /\ Len(build_stream) \in Nat /\ Len(build_stream) < CountMod
    /\ \A n \in 1 .. Len(build_stream) :
          /\ WindowOf(n) \in Nat /\ WindowOf(n) % Epochs = WindowOf(n)
          /\ \A k \in 1 .. n : WindowOf(k) <= WindowOf(n)
<1>1. Len(build_stream) \in Nat /\ Len(build_stream) < CountMod
      /\ Len(build_stream) <= WindowLen * Epochs
  BY StreamPlan, StreamFacts, StreamAssumption
<1>2. ASSUME NEW n \in 1 .. Len(build_stream)
      PROVE  /\ WindowOf(n) \in Nat /\ WindowOf(n) % Epochs = WindowOf(n)
             /\ \A k \in 1 .. n : WindowOf(k) <= WindowOf(n)
  <2>1. PICK a \in Nat : a = n - 1 /\ a < WindowLen * Epochs
    BY <1>1, Sizes
  <2>2. a \div WindowLen \in Nat /\ a \div WindowLen < Epochs
    BY <2>1, Sizes, DivFacts
  <2>3. \A k \in 1 .. n : k - 1 \in Nat /\ k - 1 <= a
    BY <2>1
  <2>4. \A k \in 1 .. n : (k - 1) \div WindowLen <= a \div WindowLen
    BY <2>1, <2>3, Sizes, DivFacts
  <2>5. (a \div WindowLen) % Epochs = a \div WindowLen
    BY <2>2, Sizes
  <2> QED BY <2>1, <2>2, <2>4, <2>5 DEF WindowOf
<1> QED BY <1>1, <1>2

(***************************************************************************)
(* The golden stream: the table of scan_rate.py                             *)
(***************************************************************************)
After(t, n) == [t EXCEPT ![Bin(n)] = SrUpdated(t[Bin(n)], PacketOf(n), WindowOf(n) % Epochs)]
Empty == [b \in Bins |-> SrBlank(0)]
Tables(g, m) == g = [n \in 0 .. m |-> IF n = 0 THEN Empty ELSE After(g[n - 1], n)]

LEMMA TablesExist == \A m \in Nat : \E g : Tables(g, m)
<1> DEFINE S == {m \in Nat : ~ \E g : Tables(g, m)}
<1>1. SUFFICES ASSUME S # {} PROVE FALSE
  OBVIOUS
<1>2. S \in SUBSET Nat
  OBVIOUS
<1> HIDE DEF S
<1>3. PICK m \in S : \A y \in S : m <= y
  BY <1>1, <1>2, LeastExists
<1>4. m \in Nat /\ ~ \E g : Tables(g, m)
  BY DEF S
<1>5. m # 0
  <2>1. Tables([n \in 0 .. 0 |-> Empty], 0)
    BY DEF Tables
  <2> QED BY <1>4, <2>1
<1>6. PICK g : Tables(g, m - 1)
  <2>1. m - 1 \in Nat /\ ~(m <= m - 1)
    BY <1>4, <1>5
  <2>2. m - 1 \notin S
    BY <1>3, <2>1
  <2> QED BY <2>1, <2>2 DEF S
<1> DEFINE h == [n \in 0 .. m |-> IF n # m THEN g[n] ELSE After(g[m - 1], m)]
<1>7. \A n \in 0 .. m - 1 : g[n] = IF n = 0 THEN Empty ELSE After(g[n - 1], n)
  BY <1>6 DEF Tables
<1>8. ASSUME NEW n \in 0 .. m
      PROVE  h[n] = IF n = 0 THEN Empty ELSE After(h[n - 1], n)
  <2>1. CASE n = m
    <3>1. m - 1 \in 0 .. m /\ m - 1 # m
      BY <1>4, <1>5
    <3>2. h[m - 1] = g[m - 1]
      BY <3>1
    <3>3. h[m] = After(g[m - 1], m)
      BY <1>4
    <3> HIDE DEF h
    <3> QED BY <1>5, <2>1, <3>2, <3>3
  <2>2. CASE n # m
    <3>1. n \in 0 .. m - 1 /\ h[n] = g[n]
      BY <1>4, <2>2
    <3>2. n # 0 => n - 1 \in 0 .. m /\ n - 1 # m
      BY <1>4, <3>1
    <3>3. n # 0 => h[n - 1] = g[n - 1]
      BY <3>2
    <3> HIDE DEF h
    <3> QED BY <1>7, <3>1, <3>3
  <2> QED BY <2>1, <2>2
<1>9. h = [n \in 0 .. m |-> h[n]]
  OBVIOUS
<1> HIDE DEF h
<1>10. Tables(h, m)
  BY <1>8, <1>9 DEF Tables
<1> QED BY <1>4, <1>10

LEMMA TableIs ==
    /\ table[0] = Empty
    /\ \A n \in 1 .. Len(build_stream) : table[n] = After(table[n - 1], n)
<1>1. PICK N \in Nat : N = Len(build_stream)
  BY Windows
<1>2. table = CHOOSE g : Tables(g, N)
  BY <1>1 DEF table, Tables, Empty, After, Bins, Bin
<1>3. Tables(table, N)
  BY <1>2, TablesExist
<1>4. \A n \in 0 .. N : table[n] = IF n = 0 THEN Empty ELSE After(table[n - 1], n)
  BY <1>3 DEF Tables
<1>5. 0 \in 0 .. N /\ \A n \in 1 .. N : n \in 0 .. N /\ n # 0
  OBVIOUS
<1> QED BY <1>1, <1>4, <1>5

(***************************************************************************)
(* The golden stream: one frame on both tables                              *)
(***************************************************************************)
\* What the reference table counts on from.
SrCurrent(e, ep) == IF e.epoch # ep THEN SrBlank(ep) ELSE e

LEMMA SrCounts ==
    ASSUME NEW e, IsFcn(e, SrFields), NEW p, NEW ep
    PROVE  /\ IsFcn(SrUpdated(e, p, ep), SrFields)
           /\ SrUpdated(e, p, ep).epoch = ep
           /\ SrUpdated(e, p, ep).pkts = Saturate(SrCurrent(e, ep).pkts + 1, 255)
           /\ SrUpdated(e, p, ep).ports = SrCurrent(e, ep).ports \cup
                IF SynGate(p) THEN {PortBit[p.port]} ELSE {}
           /\ SrUpdated(e, p, ep).hosts = SrCurrent(e, ep).hosts \cup
                IF SynGate(p) THEN {HostBit[p.dst]} ELSE {}
<1>1. PICK cur : cur = SrCurrent(e, ep)
  OBVIOUS
<1>2. IsFcn(SrBlank(ep), SrFields) /\ SrBlank(ep).epoch = ep
  BY DEF SrBlank, IsFcn, SrFields
<1>3. IsFcn(cur, SrFields) /\ cur.epoch = ep
  BY <1>1, <1>2 DEF SrCurrent
<1>4. PICK seen : seen = [cur EXCEPT !.pkts = Saturate(cur.pkts + 1, 255)]
  OBVIOUS
<1>5. SrUpdated(e, p, ep) =
        IF SynGate(p)
        THEN [seen EXCEPT !.ports = seen.ports \cup {PortBit[p.port]},
                          !.hosts = seen.hosts \cup {HostBit[p.dst]}]
        ELSE seen
  BY <1>1, <1>4 DEF SrUpdated, SrCurrent
<1>6. /\ IsFcn(seen, SrFields) /\ seen.epoch = ep
      /\ seen.pkts = Saturate(cur.pkts + 1, 255)
      /\ seen.ports = cur.ports /\ seen.hosts = cur.hosts
  BY <1>3, <1>4 DEF IsFcn, SrFields
<1>7. PICK u : u = SrUpdated(e, p, ep)
  OBVIOUS
<1>8. CASE SynGate(p)
  <2>1. u = [seen EXCEPT !.ports = seen.ports \cup {PortBit[p.port]},
                         !.hosts = seen.hosts \cup {HostBit[p.dst]}]
    BY <1>5, <1>7, <1>8
  <2>2. IsFcn(u, SrFields)
    BY <1>6, <2>1 DEF IsFcn
  <2>3. /\ u.epoch = seen.epoch /\ u.pkts = seen.pkts
        /\ u.ports = seen.ports \cup {PortBit[p.port]}
        /\ u.hosts = seen.hosts \cup {HostBit[p.dst]}
    BY <1>6, <2>1 DEF IsFcn, SrFields
  <2> QED BY <1>1, <1>6, <1>7, <1>8, <2>2, <2>3
<1>9. CASE ~SynGate(p)
  <2>1. u = seen
    BY <1>5, <1>7, <1>9
  <2>2. u.ports = seen.ports \cup {} /\ u.hosts = seen.hosts \cup {}
    BY <2>1
  <2> QED BY <1>1, <1>6, <1>7, <1>9, <2>1, <2>2
<1> QED BY <1>8, <1>9

\* Sources of one window that share a cell, or an entry, are one source.
LEMMA StreamSources ==
    ASSUME NEW n \in 1 .. Len(build_stream)
    PROVE  /\ PacketOf(n).src \in Ip \ {ZeroIp} /\ Bin(n) \in Bins /\ CellAt(n) \in Cells
           /\ \A k \in 1 .. Len(build_stream) :
                 /\ CellAt(k) = CellAt(n) => Bin(k) = Bin(n)
                 /\ WindowOf(k) = WindowOf(n) /\ Bin(k) = Bin(n) =>
                      PacketOf(k).src = PacketOf(n).src /\ CellAt(k) = CellAt(n)
<1>1. PacketOf(n).src \in Ip \ {ZeroIp}
  BY StreamAssumption
<1>2. Bin(n) \in Bins /\ CellAt(n) \in Cells
  BY <1>1 DEF Bin, Bins, CellAt, Cells
<1>3. \A k \in 1 .. Len(build_stream) :
        /\ CellAt(k) = CellAt(n) => Bin(k) = Bin(n)
        /\ WindowOf(k) = WindowOf(n) /\ Bin(k) = Bin(n) => PacketOf(k).src = PacketOf(n).src
  BY StreamAssumption DEF Bin, CellAt, SrBucket
<1>4. \A k : PacketOf(k).src = PacketOf(n).src => CellAt(k) = CellAt(n)
  BY DEF CellAt
<1> QED BY <1>1, <1>2, <1>3, <1>4

LEMMA TableStep ==
    ASSUME NEW n \in 1 .. Len(build_stream), Shaped(n - 1), SrTouched(n - 1)
    PROVE  /\ Shaped(n) /\ SrTouched(n)
           /\ table[n][Bin(n)] = SrUpdated(table[n - 1][Bin(n)], PacketOf(n), WindowOf(n))
           /\ \A b \in Bins : b # Bin(n) => table[n][b] = table[n - 1][b]
<1>1. PICK t, u : t = table[n - 1] /\ u = table[n]
  OBVIOUS
<1>2. PICK e : e = SrUpdated(t[Bin(n)], PacketOf(n), WindowOf(n))
  OBVIOUS
<1>3. u = [t EXCEPT ![Bin(n)] = e]
  BY <1>1, <1>2, TableIs, Windows DEF After
<1>4. IsFcn(t, Bins) /\ (\A b \in Bins : IsFcn(t[b], SrFields)) /\ Bin(n) \in Bins
  BY <1>1, StreamSources DEF Shaped
<1>5. IsFcn(u, Bins) /\ u[Bin(n)] = e /\ \A b \in Bins : b # Bin(n) => u[b] = t[b]
  BY <1>3, <1>4 DEF IsFcn
<1>6. IsFcn(e, SrFields) /\ e.epoch = WindowOf(n)
  BY <1>2, <1>4, SrCounts
<1>7. Shaped(n)
  BY <1>1, <1>4, <1>5, <1>6 DEF Shaped
<1>8. ASSUME NEW b \in Bins
      PROVE  u[b] = SrBlank(0) \/ \E k \in 1 .. n : Bin(k) = b /\ u[b].epoch = WindowOf(k)
  <2>1. CASE b = Bin(n)
    BY <1>5, <1>6, <2>1
  <2>2. CASE b # Bin(n)
    <3>1. t[b] = SrBlank(0) \/ \E k \in 1 .. n - 1 : Bin(k) = b /\ t[b].epoch = WindowOf(k)
      BY <1>1 DEF SrTouched
    <3>2. 1 .. n - 1 \subseteq 1 .. n /\ u[b] = t[b]
      BY <1>5, <2>2
    <3> QED BY <3>1, <3>2
  <2> QED BY <2>1, <2>2
<1>9. SrTouched(n)
  BY <1>1, <1>8 DEF SrTouched
<1> QED BY <1>1, <1>2, <1>5, <1>7, <1>9

\* Frame n on the flow table.
FlowTakes(n) ==
    flow' = [flow EXCEPT ![CellAt(n)] = FlowUpdated(flow[CellAt(n)], PacketOf(n), WindowOf(n))]

LEMMA FlowTableStep ==
    ASSUME NEW n \in 1 .. Len(build_stream), FlowTakes(n), FlowTouched(n - 1),
           IsFcn(flow, Cells), \A b \in Cells : IsFcn(flow[b], CellFields)
    PROVE  /\ IsFcn(flow', Cells) /\ \A b \in Cells : IsFcn(flow'[b], CellFields)
           /\ FlowTouched(n)'
           /\ flow'[CellAt(n)] = FlowUpdated(flow[CellAt(n)], PacketOf(n), WindowOf(n))
           /\ \A b \in Cells : b # CellAt(n) => flow'[b] = flow[b]
<1>1. PICK t, u : t = flow /\ u = flow'
  OBVIOUS
<1>2. PICK e : e = FlowUpdated(t[CellAt(n)], PacketOf(n), WindowOf(n))
  OBVIOUS
<1>3. u = [t EXCEPT ![CellAt(n)] = e]
  BY <1>1, <1>2 DEF FlowTakes
<1>4. IsFcn(t, Cells) /\ (\A b \in Cells : IsFcn(t[b], CellFields)) /\ CellAt(n) \in Cells
  BY <1>1, StreamSources
<1>5. IsFcn(u, Cells) /\ u[CellAt(n)] = e /\ \A b \in Cells : b # CellAt(n) => u[b] = t[b]
  BY <1>3, <1>4 DEF IsFcn
<1>6. IsFcn(e, CellFields) /\ e.epoch = WindowOf(n)
  BY <1>2, <1>4, CellDomain, CellCounts
<1>7. \A b \in Cells : IsFcn(u[b], CellFields)
  BY <1>4, <1>5, <1>6
<1>8. ASSUME NEW b \in Cells
      PROVE  \/ u[b] = FreshCell(ZeroIp, 0)
             \/ \E k \in 1 .. n : CellAt(k) = b /\ u[b].epoch = WindowOf(k)
  <2>1. CASE b = CellAt(n)
    BY <1>5, <1>6, <2>1
  <2>2. CASE b # CellAt(n)
    <3>1. \/ t[b] = FreshCell(ZeroIp, 0)
          \/ \E k \in 1 .. n - 1 : CellAt(k) = b /\ t[b].epoch = WindowOf(k)
      BY <1>1 DEF FlowTouched
    <3>2. 1 .. n - 1 \subseteq 1 .. n /\ u[b] = t[b]
      BY <1>5, <2>2
    <3> QED BY <3>1, <3>2
  <2> QED BY <2>1, <2>2
<1>9. FlowTouched(n)'
  BY <1>1, <1>8 DEF FlowTouched
<1> QED BY <1>1, <1>2, <1>5, <1>7, <1>9

\* Both tables count frame n on from the same counts.
LEMMA SameStart ==
    ASSUME NEW n \in 1 .. Len(build_stream), SrTouched(n - 1), FlowTouched(n - 1), Matched(n - 1)
    PROVE  Agree(Current(flow[CellAt(n)], PacketOf(n), WindowOf(n)),
                 SrCurrent(table[n - 1][Bin(n)], WindowOf(n)))
<1>1. PICK c, e, w : c = flow[CellAt(n)] /\ e = table[n - 1][Bin(n)] /\ w = WindowOf(n)
  OBVIOUS
<1>2. \A k \in 1 .. n - 1 :
        /\ k \in 1 .. Len(build_stream) /\ k \in 1 .. n
        /\ WindowOf(k) \in Nat /\ WindowOf(n - 1) \in Nat
        /\ WindowOf(k) <= WindowOf(n - 1) /\ WindowOf(n - 1) <= w
  <2>1. SUFFICES ASSUME NEW k \in 1 .. n - 1
                 PROVE  /\ k \in 1 .. Len(build_stream) /\ k \in 1 .. n
                        /\ WindowOf(k) \in Nat /\ WindowOf(n - 1) \in Nat
                        /\ WindowOf(k) <= WindowOf(n - 1) /\ WindowOf(n - 1) <= w
    OBVIOUS
  <2>2. /\ k \in 1 .. Len(build_stream) /\ k \in 1 .. n
        /\ n - 1 \in 1 .. Len(build_stream) /\ n - 1 \in 1 .. n
    BY Windows
  <2> QED BY <1>1, <2>2, Windows
<1>3. CASE \E k \in 1 .. n - 1 : WindowOf(k) = w /\ PacketOf(k).src = PacketOf(n).src
  <2>1. PICK k \in 1 .. n - 1 : WindowOf(k) = w /\ PacketOf(k).src = PacketOf(n).src
    BY <1>3
  <2>2. WindowOf(k) = WindowOf(n - 1) /\ WindowOf(n - 1) = w
    BY <1>2, <2>1
  <2>3. Bin(k) = Bin(n) /\ CellAt(k) = CellAt(n)
    BY <2>1 DEF Bin, CellAt
  <2>4. e.epoch = w /\ c.epoch = w /\ c.fp = FlowFp[PacketOf(n).src] /\ Agree(c, e)
    BY <1>1, <2>1, <2>2, <2>3 DEF Matched
  <2>5. Current(c, PacketOf(n), w) = c /\ SrCurrent(e, w) = e
    BY <2>4 DEF Current, SrCurrent
  <2> QED BY <1>1, <2>4, <2>5
<1>4. CASE ~\E k \in 1 .. n - 1 : WindowOf(k) = w /\ PacketOf(k).src = PacketOf(n).src
  <2>1. PICK x, y : x = Current(c, PacketOf(n), w) /\ y = SrCurrent(e, w)
    OBVIOUS
  <2>2. x.pkts = 0 /\ x.ports = {} /\ x.hosts = {}
    <3>1. CASE c = FreshCell(ZeroIp, 0)
      BY <2>1, <3>1 DEF Current, FreshCell
    <3>2. CASE \E k \in 1 .. n - 1 : CellAt(k) = CellAt(n) /\ c.epoch = WindowOf(k)
      <4>1. PICK k \in 1 .. n - 1 : CellAt(k) = CellAt(n) /\ c.epoch = WindowOf(k)
        BY <3>2
      <4>2. c.epoch # w
        BY <1>1, <1>2, <1>4, <4>1, StreamSources
      <4> QED BY <2>1, <4>2 DEF Current, FreshCell
    <3>3. CellAt(n) \in Cells
      BY StreamSources
    <3> QED BY <1>1, <3>1, <3>2, <3>3 DEF FlowTouched
  <2>3. y.pkts = 0 /\ y.ports = {} /\ y.hosts = {}
    <3>1. CASE e = SrBlank(0)
      BY <2>1, <3>1 DEF SrCurrent, SrBlank
    <3>2. CASE \E k \in 1 .. n - 1 : Bin(k) = Bin(n) /\ e.epoch = WindowOf(k)
      <4>1. PICK k \in 1 .. n - 1 : Bin(k) = Bin(n) /\ e.epoch = WindowOf(k)
        BY <3>2
      <4>2. e.epoch # w
        BY <1>1, <1>2, <1>4, <4>1, StreamSources
      <4> QED BY <2>1, <4>2 DEF SrCurrent, SrBlank
    <3>3. Bin(n) \in Bins
      BY StreamSources
    <3> QED BY <1>1, <3>1, <3>2, <3>3 DEF SrTouched
  <2>4. Saturate(0, PktMax) = 0 /\ Saturate(0, 255) = 0
    BY Sizes DEF Saturate
  <2> QED BY <1>1, <2>1, <2>2, <2>3, <2>4 DEF Agree
<1> QED BY <1>3, <1>4

\* Frame n leaves the tables matched: its own source's counts went on from
\* the same, those of the window's other sources were left alone.
LEMMA MatchedKept ==
    ASSUME NEW n \in 1 .. Len(build_stream), FlowTakes(n),
           Shaped(n - 1), SrTouched(n - 1), FlowTouched(n - 1), Matched(n - 1),
           IsFcn(flow, Cells), \A b \in Cells : IsFcn(flow[b], CellFields)
    PROVE  Matched(n)'
<1>1. PICK w : w = WindowOf(n)
  OBVIOUS
<1>2. PICK d, f : d = flow'[CellAt(n)] /\ f = table[n][Bin(n)]
  OBVIOUS
<1>3. CellAt(n) \in Cells /\ Bin(n) \in Bins
  BY StreamSources
<1>4. /\ d = FlowUpdated(flow[CellAt(n)], PacketOf(n), w)
      /\ f = SrUpdated(table[n - 1][Bin(n)], PacketOf(n), w)
  BY <1>1, <1>2, TableStep, FlowTableStep
<1>5. d.epoch = w /\ f.epoch = w /\ d.fp = FlowFp[PacketOf(n).src] /\ Agree(d, f)
  <2>1. PICK c, e : /\ c = Current(flow[CellAt(n)], PacketOf(n), w)
                    /\ e = SrCurrent(table[n - 1][Bin(n)], w)
    OBVIOUS
  <2>2. Agree(c, e)
    BY <1>1, <2>1, SameStart
  <2>3. PICK P, H : /\ P = IF SynGate(PacketOf(n)) THEN {PortBit[PacketOf(n).port]} ELSE {}
                    /\ H = IF SynGate(PacketOf(n)) THEN {HostBit[PacketOf(n).dst]} ELSE {}
    OBVIOUS
  <2>4. /\ d.epoch = w /\ d.fp = FlowFp[PacketOf(n).src]
        /\ d.pkts = Saturate(c.pkts + 1, PktMax)
        /\ d.ports = c.ports \cup P /\ d.hosts = c.hosts \cup H
    <3>1. IsFcn(flow[CellAt(n)], CellFields)
      BY <1>3
    <3> QED BY <1>4, <2>1, <2>3, <3>1, CellCounts
  <2>5. /\ f.epoch = w /\ f.pkts = Saturate(e.pkts + 1, 255)
        /\ f.ports = e.ports \cup P /\ f.hosts = e.hosts \cup H
    <3>1. IsFcn(table[n - 1][Bin(n)], SrFields)
      BY <1>3 DEF Shaped
    <3> QED BY <1>4, <2>1, <2>3, <3>1, SrCounts
  <2>6. d.ports = f.ports /\ d.hosts = f.hosts
    BY <2>2, <2>4, <2>5 DEF Agree
  <2>7. Agree(d, f)
    <3>1. PICK m \in Nat : c.pkts = Saturate(m, PktMax) /\ e.pkts = Saturate(m, 255)
      BY <2>2 DEF Agree
    <3>2. PICK q \in Nat : q = m + 1
      OBVIOUS
    <3>3. d.pkts = Saturate(q, PktMax) /\ f.pkts = Saturate(q, 255)
      BY <2>4, <2>5, <3>1, <3>2, Sizes DEF Saturate
    <3> QED BY <2>6, <3>3 DEF Agree
  <2> QED BY <2>4, <2>5, <2>7
<1>6. ASSUME NEW k \in 1 .. n, WindowOf(k) = w
      PROVE  /\ table[n][Bin(k)].epoch = w
             /\ flow'[CellAt(k)].epoch = w
             /\ flow'[CellAt(k)].fp = FlowFp[PacketOf(k).src]
             /\ Agree(flow'[CellAt(k)], table[n][Bin(k)])
  <2>1. k \in 1 .. Len(build_stream)
    BY Windows
  <2>2. CASE Bin(k) = Bin(n)
    <3>1. PacketOf(k).src = PacketOf(n).src /\ CellAt(k) = CellAt(n)
      BY <1>1, <1>6, <2>1, <2>2, StreamSources
    <3> QED BY <1>2, <1>5, <2>2, <3>1
  <2>3. CASE Bin(k) # Bin(n)
    <3>1. CellAt(k) # CellAt(n) /\ k # n
      BY <2>1, <2>3, StreamSources
    <3>2. k \in 1 .. n - 1 /\ n - 1 \in 1 .. Len(build_stream) /\ n - 1 \in 1 .. n
      BY <3>1, Windows
    <3>3. WindowOf(n - 1) = w
      <4>1. /\ WindowOf(k) <= WindowOf(n - 1) /\ WindowOf(n - 1) <= w
            /\ WindowOf(n - 1) \in Nat /\ WindowOf(k) \in Nat
        BY <1>1, <2>1, <3>2, Windows
      <4> QED BY <1>6, <4>1
    <3>4. /\ table[n - 1][Bin(k)].epoch = w
          /\ flow[CellAt(k)].epoch = w
          /\ flow[CellAt(k)].fp = FlowFp[PacketOf(k).src]
          /\ Agree(flow[CellAt(k)], table[n - 1][Bin(k)])
      BY <1>6, <3>2, <3>3 DEF Matched
    <3>5. CellAt(k) \in Cells /\ Bin(k) \in Bins
      BY <2>1, StreamSources
    <3>6. flow'[CellAt(k)] = flow[CellAt(k)]
      BY <3>1, <3>5, FlowTableStep
    <3>7. table[n][Bin(k)] = table[n - 1][Bin(k)]
      BY <2>3, <3>5, TableStep
    <3> QED BY <3>4, <3>6, <3>7
  <2> QED BY <2>2, <2>3
<1> QED BY <1>1, <1>6 DEF Matched

(***************************************************************************)
(* The golden stream: the verdicts                                          *)
(***************************************************************************)
LEMMA LargestIs ==
    ASSUME NEW S \in SUBSET Nat, NEW m \in S, \A x \in S : x <= m
    PROVE  Largest(S) = m
<1>1. PICK y : y = Largest(S)
  OBVIOUS
<1>2. y \in S /\ \A x \in S : x <= y
  BY <1>1 DEF Largest
<1>3. y <= m /\ m <= y
  BY <1>2
<1> QED BY <1>1, <1>2, <1>3

\* The severity of a verdict without a rule.
LEMMA Severities ==
    ASSUME NEW hit \in BOOLEAN, NEW scan \in BOOLEAN, NEW rate \in BOOLEAN
    PROVE  Largest({IF hit THEN 3 ELSE 0, IF scan THEN 2 ELSE 0, IF rate THEN 2 ELSE 0, 0 % 4})
         = Largest({IF hit THEN 3 ELSE 0, IF scan \/ rate THEN 2 ELSE 0})
<1>1. PICK m : m = IF hit THEN 3 ELSE IF scan \/ rate THEN 2 ELSE 0
  OBVIOUS
<1>2. PICK a, b, c : /\ a = IF hit THEN 3 ELSE 0
                     /\ b = IF scan THEN 2 ELSE 0
                     /\ c = IF rate THEN 2 ELSE 0
  OBVIOUS
<1>3. PICK d : d = IF scan \/ rate THEN 2 ELSE 0
  OBVIOUS
<1>4. /\ a \in 0 .. m /\ b \in 0 .. m /\ c \in 0 .. m /\ d \in 0 .. m
      /\ a \in Nat /\ b \in Nat /\ c \in Nat /\ d \in Nat /\ m \in Nat
  BY <1>1, <1>2, <1>3
<1>5. (m = a \/ m = b \/ m = c) /\ (m = a \/ m = d)
  BY <1>1, <1>2, <1>3
<1>6. Largest({a, b, c, 0}) = m
  <2>1. {a, b, c, 0} \in SUBSET Nat /\ m \in {a, b, c, 0} /\ \A x \in {a, b, c, 0} : x <= m
    BY <1>4, <1>5
  <2> QED BY <2>1, LargestIs
<1>7. Largest({a, d}) = m
  <2>1. {a, d} \in SUBSET Nat /\ m \in {a, d} /\ \A x \in {a, d} : x <= m
    BY <1>4, <1>5
  <2> QED BY <2>1, LargestIs
<1>8. 0 % 4 = 0
  OBVIOUS
<1> QED BY <1>2, <1>3, <1>6, <1>7, <1>8

LEMMA SameVerdict ==
    ASSUME NEW cell, NEW e, Agree(cell, e), NEW p,
           regs = RegDefaults, bloom = from_ips(C2)
    PROVE  VerdictOf(Member(p.src) \/ Member(p.dst), cell, NoMatch) = classify(e, p)
<1>1. PICK hit \in BOOLEAN : hit = (Member(p.src) \/ Member(p.dst))
  BY DEF Member
<1>2. hit = (MemberOf(from_ips(C2), p.src) \/ MemberOf(from_ips(C2), p.dst))
  BY <1>1 DEF Member, MemberOf
<1>3. PICK scan \in BOOLEAN : scan = (\/ Cardinality(e.ports) >= DefaultPort
                                      \/ Cardinality(e.hosts) >= DefaultHost)
  OBVIOUS
<1>4. ScanHit(cell) = scan
  BY <1>3 DEF ScanHit, Agree, RegDefaults
<1>5. PICK rate \in BOOLEAN : rate = (e.pkts >= DefaultRate)
  <2>1. e.pkts \in Nat
    BY DEF Agree, Saturate
  <2>2. (e.pkts >= DefaultRate) \in BOOLEAN
    BY <2>1, Sizes
  <2> QED BY <2>2
<1>6. RateHit(cell) = rate
  <2>1. PICK m \in Nat : cell.pkts = Saturate(m, PktMax) /\ e.pkts = Saturate(m, 255)
    BY DEF Agree
  <2>2. DefaultRate <= PktMax /\ DefaultRate <= 255
    BY StreamAssumption
  <2>3. cell.pkts >= DefaultRate <=> m >= DefaultRate
    BY <2>1, <2>2, Sizes DEF Saturate
  <2>4. e.pkts >= DefaultRate <=> m >= DefaultRate
    BY <2>1, <2>2, Sizes DEF Saturate
  <2>5. regs.rate = DefaultRate
    BY DEF RegDefaults
  <2>6. RateHit(cell) <=> rate
    BY <1>5, <2>3, <2>4, <2>5 DEF RateHit
  <2> QED BY <2>6 DEF RateHit
<1>7. NoMatch.match = FALSE /\ NoMatch.sev = 0 /\ NoMatch.action = {}
  BY DEF NoMatch
<1>8. VerdictOf(hit, cell, NoMatch) =
        [bloom |-> hit, scan |-> scan, rate |-> rate, rule |-> FALSE,
         sev |-> Largest({IF hit THEN 3 ELSE 0, IF scan THEN 2 ELSE 0,
                          IF rate THEN 2 ELSE 0, 0 % 4}),
         escalate |-> hit \/ scan \/ rate]
  <2>1. (\/ hit \/ ScanHit(cell) \/ RateHit(cell) \/ NoMatch.match
         \/ 2 \in NoMatch.action) = (hit \/ scan \/ rate)
    BY <1>4, <1>6, <1>7
  <2> QED BY <1>4, <1>6, <1>7, <2>1 DEF VerdictOf
<1>9. classify(e, p) =
        [bloom |-> hit, scan |-> scan, rate |-> rate, rule |-> FALSE,
         sev |-> Largest({IF hit THEN 3 ELSE 0, IF scan \/ rate THEN 2 ELSE 0}),
         escalate |-> hit \/ scan \/ rate]
  BY <1>2, <1>3, <1>5 DEF classify
<1> QED BY <1>1, <1>8, <1>9, Severities

\* Frame n of the stream, classified after all before it.
LEMMA StreamRow ==
    ASSUME NEW n \in 1 .. Len(build_stream), BothTables, Handled = n - 1,
           Classify(build_stream[n])
    PROVE  /\ FlowTakes(n) /\ Matched(n)'
           /\ resp'.magic = 165 /\ resp'.body.verdict = expected_rows[n]
           /\ resp'.body.seq = n % SeqMod
<1>1. PICK f : f = build_stream[n]
  OBVIOUS
<1>2. f.hdr = PacketOf(n) /\ FlowBucket[f.hdr.src] = CellAt(n)
  BY <1>1 DEF PacketOf, CellAt
<1>3. count = n - 1 /\ count + 1 = n
  BY DEF BothTables
<1>4. (count \div WindowLen) % Epochs = WindowOf(n)
  <2>1. WindowOf(n) % Epochs = WindowOf(n)
    BY Windows
  <2> QED BY <1>3, <2>1 DEF WindowOf
<1>5. PICK cell : /\ cell = FlowUpdated(flow[CellAt(n)], PacketOf(n), WindowOf(n))
                  /\ flow' = [flow EXCEPT ![CellAt(n)] = cell]
                  /\ resp' = [magic |-> 165, body |->
                       [verdict |-> VerdictOf(Member(f.hdr.src) \/ Member(f.hdr.dst),
                                              cell, Lookup(f.hdr.src)),
                        seq |-> (count + 1) % SeqMod]]
  BY <1>1, <1>2, <1>4 DEF Classify
<1>6. FlowTakes(n)
  BY <1>5 DEF FlowTakes
<1>7. /\ IsFcn(flow, Cells) /\ \A b \in Cells : IsFcn(flow[b], CellFields)
      /\ Shaped(n - 1) /\ SrTouched(n - 1) /\ FlowTouched(n - 1) /\ Matched(n - 1)
  BY DEF BothTables
<1>8. Matched(n)'
  BY <1>6, <1>7, MatchedKept
<1>9. Agree(cell, table[n][Bin(n)])
  <2>1. flow'[CellAt(n)] = cell
    BY <1>5, <1>6, <1>7, FlowTableStep
  <2>2. n \in 1 .. n /\ WindowOf(n) = WindowOf(n)
    OBVIOUS
  <2>3. Agree(flow'[CellAt(n)], table[n][Bin(n)])
    BY <1>8, <2>2 DEF Matched
  <2> QED BY <2>1, <2>3
<1>10. Lookup(f.hdr.src) = NoMatch
  <2>1. f.hdr.src \in Ip /\ f.hdr.src # ZeroIp
    BY <1>2, StreamSources
  <2>2. RuleHash[f.hdr.src] \in 0 .. RuleDepth - 1
    BY <2>1, ToolsAssumption
  <2>3. rules[RuleHash[f.hdr.src]] = BlankRule
    BY <2>2 DEF BothTables
  <2> QED BY <2>1, <2>3 DEF Lookup, BlankRule
<1>11. VerdictOf(Member(f.hdr.src) \/ Member(f.hdr.dst), cell, NoMatch)
         = classify(table[n][Bin(n)], f.hdr)
  BY <1>9, SameVerdict DEF BothTables
<1>12. expected_rows[n] = classify(table[n][Bin(n)], f.hdr)
  BY <1>2 DEF expected_rows, Bin
<1>13. resp'.magic = 165 /\ resp'.body.verdict = expected_rows[n] /\ resp'.body.seq = n % SeqMod
  BY <1>3, <1>5, <1>10, <1>11, <1>12
<1> QED BY <1>6, <1>8, <1>13

LEMMA BothTablesKept ==
    ASSUME plan = VerdictCheck, Healthy, script = "verdict_check", InStep, BothTables,
           Sends, UNCHANGED plan
    PROVE  BothTables'
<1>1. PICK n : n = Len(rx)
  OBVIOUS
<1>2. /\ Handled' = n /\ n \in Nat
      /\ \A i \in 1 .. n : rx'[i] = rx[i]
      /\ rx'[n + 1] = resp'
  BY <1>1, SendGrows, HandledCount
<1>3. Transfer(plan[n + 1]) /\ n <= Len(build_stream)
  BY <1>1, <1>2, StreamPlan, Windows DEF Sends
<1>4. RegDefaults' = RegDefaults /\ from_ips(C2)' = from_ips(C2)
  BY DEF RegDefaults, from_ips
<1>5. CASE n = 0
  <2>1. rx = <<>> /\ Handled = 0
    BY <1>1, <1>5, HandledCount
  <2>2. pending = NoFrame
    BY <2>1 DEF InStep, Healthy
  <2>3. UNCHANGED <<bloom, flow, rules, regs, count>>
    <3>1. pending = NoFrame => UNCHANGED <<bloom, flow, rules, regs, count, resp>>
      BY <1>3 DEF Transfer
    <3> QED BY <2>2, <3>1
  <2>4. FlowTouched(0)' /\ Matched(0)'
    BY <2>1, <2>3 DEF BothTables, FlowTouched, Matched
  <2> QED BY <1>2, <1>4, <1>5, <2>1, <2>3, <2>4 DEF BothTables
<1>6. CASE n # 0
  <2>1. n \in 1 .. Len(build_stream) /\ rx # <<>> /\ Handled = n - 1
    BY <1>1, <1>2, <1>3, <1>6, HandledCount, Windows
  <2>2. pending = build_stream[n] /\ pending.op = ClassifyOp /\ pending # NoFrame
    <3>1. pending = plan[n] /\ plan[n] = build_stream[n]
      BY <1>1, <2>1, StreamPlan DEF InStep
    <3>2. n \in DOMAIN VerdictCheck /\ VerdictCheck[n].op = ClassifyOp
      BY <2>1, Windows, StreamPlan, StreamFacts
    <3> QED BY <3>1, <3>2, PlansAssumption
  <2>3. Effect(pending) /\ count' = (count + 1) % CountMod
    BY <1>3, <2>2 DEF Transfer
  <2>4. Classify(pending) /\ UNCHANGED <<bloom, rules, regs>>
    BY <2>2, <2>3, FrameEffect DEF Asked
  <2>5. /\ FlowTakes(n) /\ Matched(n)' /\ resp'.magic = 165
        /\ resp'.body.verdict = expected_rows[n] /\ resp'.body.seq = n % SeqMod
    BY <2>1, <2>2, <2>4, StreamRow
  <2>6. count' = n
    <3>1. count = n - 1
      BY <2>1 DEF BothTables
    <3>2. count + 1 = n /\ n < CountMod
      BY <1>2, <2>1, <3>1, Sizes, Windows
    <3> QED BY <1>2, <2>3, <3>2, Sizes
  <2>7. /\ IsFcn(flow', Cells) /\ \A b \in Cells : IsFcn(flow'[b], CellFields)
        /\ FlowTouched(n)'
    BY <2>1, <2>5, FlowTableStep DEF BothTables
  <2>8. Shaped(n) /\ SrTouched(n)
    BY <2>1, TableStep DEF BothTables
  <2>9. ASSUME NEW k \in 1 .. n PROVE GoodRow(k)'
    <3>1. CASE k = n
      BY <1>2, <2>5, <3>1 DEF GoodRow, AnswerTo
    <3>2. CASE k # n
      <4>1. k \in 1 .. n - 1 /\ k + 1 \in 1 .. n
        BY <1>2, <3>2
      <4>2. GoodRow(k) /\ rx'[k + 1] = rx[k + 1]
        BY <1>2, <2>1, <4>1 DEF BothTables
      <4> QED BY <4>2 DEF GoodRow, AnswerTo
    <3> QED BY <3>1, <3>2
  <2> QED BY <1>2, <1>4, <2>4, <2>5, <2>6, <2>7, <2>8, <2>9 DEF BothTables
<1> QED BY <1>5, <1>6

(***************************************************************************)
(* The healthy run, script by script                                        *)
(***************************************************************************)
LEMMA SoundStart == ToolsInit => SoundInv
<1> SUFFICES ASSUME ToolsInit PROVE SoundInv
  OBVIOUS
<1>1. /\ bloom = from_ips(C2) /\ flow = [b \in Cells |-> FreshCell(ZeroIp, 0)]
      /\ rules = [i \in 0 .. RuleDepth - 1 |-> BlankRule]
      /\ regs = RegDefaults /\ count = 0 /\ pending = NoFrame /\ rx = <<>>
  BY DEF ToolsInit, Init, Cells
<1>2. Len(rx) = 0 /\ rx \in Seq({}) /\ Handled = 0
  BY <1>1 DEF Handled
<1>3. \/ script = "hot_load" /\ \E zeros \in ZeroSamples : plan = Load(zeros)
      \/ script = "runtime_check" /\ plan = RuntimeCheck
      \/ script = "flow_check" /\ plan = FlowCheck
      \/ script = "verdict_check" /\ plan = VerdictCheck
  BY DEF ToolsInit
<1>4. \A k \in DOMAIN plan : plan[k] # NoFrame
  BY <1>3, PlansAssumption
<1>5. Len(plan) \in Nat
  <2>1. \A zeros \in ZeroSamples : Len(Load(zeros)) \in Nat
    BY LoadPlan DEF Sound
  <2>2. Len(RuntimeCheck) \in Nat /\ Len(FlowCheck) \in Nat
    BY RuntimeSound, FlowSound DEF Sound
  <2>3. Len(VerdictCheck) \in Nat
    BY StreamPlan, StreamFacts
  <2> QED BY <1>3, <2>1, <2>2, <2>3
<1>6. InStep
  BY <1>1, <1>2, <1>5 DEF InStep
<1>7. WritesStay
  BY <1>2 DEF WritesStay
<1>8. NoScanYet
  <2>1. Len(rx) # DefaultPort + 2
    BY <1>2, Sizes
  <2> QED BY <1>1, <2>1 DEF NoScanYet
<1>9. BothTables
  <2>1. IsFcn(flow, Cells) /\ \A b \in Cells : flow[b] = FreshCell(ZeroIp, 0)
    BY <1>1 DEF IsFcn
  <2>2. IsFcn(FreshCell(ZeroIp, 0), CellFields)
    BY DEF FreshCell, CellFields, IsFcn
  <2>3. IsFcn(table[0], Bins) /\ \A b \in Bins : table[0][b] = SrBlank(0)
    BY TableIs DEF Empty, IsFcn
  <2>4. IsFcn(SrBlank(0), SrFields)
    BY DEF SrBlank, SrFields, IsFcn
  <2>5. Shaped(0) /\ SrTouched(0)
    BY <2>3, <2>4 DEF Shaped, SrTouched
  <2>6. FlowTouched(0) /\ Matched(0)
    BY <2>1 DEF FlowTouched, Matched
  <2> QED BY <1>1, <1>2, <2>1, <2>2, <2>5, <2>6 DEF BothTables
<1>10. script = "verdict_check" => plan = VerdictCheck
  BY <1>3
<1> QED BY <1>4, <1>6, <1>7, <1>8, <1>9, <1>10 DEF SoundInv

LEMMA SoundStep ==
    ASSUME ToolInv, SoundInv, others \in Nat, [Step \/ Other]_vars
    PROVE  SoundInv' /\ others' \in Nat
<1>1. CASE UNCHANGED vars
  <2>1. UNCHANGED <<bloom, flow, rules, regs, count, pending, resp,
                    script, plan, rx, others, lost, resets>>
    BY <1>1 DEF vars, boardVars, toolVars
  <2>2. UNCHANGED <<Healthy, Handled, InStep, NoScanYet>>
    BY <2>1 DEF Healthy, Handled, InStep, NoScanYet, RegDefaults
  <2>3. WritesStay' = WritesStay
    BY <2>1, <2>2 DEF WritesStay, Holds, Answered, Writes, Reads, AnswerTo, ReadBack, Written
  <2>4. BothTables' = BothTables
    BY <2>1, <2>2 DEF BothTables, FlowTouched, Matched, GoodRow, AnswerTo, RegDefaults, from_ips
  <2> QED BY <2>1, <2>2, <2>3, <2>4 DEF SoundInv
<1>2. CASE Step \/ Other
  <2>1. others' \in Nat
    BY <1>2 DEF Step, Other
  <2>2. SUFFICES ASSUME Healthy' PROVE SoundInv'
    BY <2>1 DEF SoundInv
  <2>3. Healthy /\ UNCHANGED <<script, plan>>
    BY <1>2, <2>2, HealthyBefore
  <2>4. /\ InStep /\ \A k \in DOMAIN plan : plan[k] # NoFrame
        /\ script \in {"hot_load", "runtime_check"} => WritesStay
        /\ script = "flow_check" => NoScanYet
        /\ script = "verdict_check" => plan = VerdictCheck /\ BothTables
    BY <2>3 DEF SoundInv
  <2>5. script # "verdict_check" => Memories /\ Course /\ CellTaken
    BY DEF ToolInv
  <2>6. Len(plan) \in Nat
    <3>1. CASE script = "verdict_check"
      BY <2>4, <3>1, StreamPlan, StreamFacts
    <3>2. CASE script # "verdict_check"
      BY <2>5, <3>2 DEF Course, Sound
    <3> QED BY <3>1, <3>2
  <2>7. Sends \/ OtherSends
    BY <1>2, <2>2, <2>4, <2>6, HealthyMoves
  <2>8. InStep'
    BY <2>3, <2>4, <2>7, SendGrows, OtherWaits
  <2>9. script \in {"hot_load", "runtime_check"} => WritesStay'
    <3>1. SUFFICES ASSUME script \in {"hot_load", "runtime_check"} PROVE WritesStay'
      OBVIOUS
    <3>2. CASE OtherSends
      <4>1. Handled' = 0
        BY <2>3, <2>4, <3>2, OtherWaits
      <4> QED BY <4>1 DEF WritesStay
    <3>3. CASE Sends
      <4>1. Memories /\ Course
        BY <2>5, <3>1
      <4>2. Coherent(plan)
        BY <3>1, <4>1, RuntimeCoherent, LoadCoherent DEF Course
      <4> QED BY <2>3, <2>4, <3>1, <3>3, <4>1, <4>2, WritesStayKept
    <3> QED BY <2>7, <3>2, <3>3
  <2>10. script = "flow_check" => NoScanYet'
    BY <2>3, <2>4, <2>5, <2>7, NoScanYetKept
  <2>11. script = "verdict_check" => BothTables'
    <3>1. SUFFICES ASSUME script = "verdict_check" PROVE BothTables'
      OBVIOUS
    <3>2. Sends
      BY <2>7, <3>1 DEF OtherSends
    <3> QED BY <2>3, <2>4, <3>1, <3>2, BothTablesKept
  <2>12. VerdictCheck' = VerdictCheck
    OBVIOUS
  <2> QED BY <2>3, <2>4, <2>8, <2>9, <2>10, <2>11, <2>12 DEF SoundInv
<1> QED BY <1>1, <1>2

\* silicon_runtime_check.py, silicon_flow_check.py, spi_verdict_check.py and
\* hot_load_bloom.py fail no sound board: each read-back finds what was
\* written last, one SYN in the evicted cell is no scan, and on every frame
\* of the golden stream the flow table counts what the coarser reference
\* table counts, whose sources keep apart within a window.
THEOREM SoundPasses == ToolsSpec => []SoundBoardPasses
<1>1. ToolInv /\ SoundInv => SoundBoardPasses
  <2>1. SUFFICES ASSUME ToolInv, SoundInv, Finished, Healthy PROVE Passed
    BY DEF SoundBoardPasses, Healthy
  <2>2. InStep
    BY <2>1 DEF SoundInv
  <2>3. script # "verdict_check" => Course
    BY <2>1 DEF ToolInv
  <2>4. /\ script \in {"hot_load", "runtime_check"} => WritesStay
        /\ script = "flow_check" => NoScanYet
        /\ script = "verdict_check" => plan = VerdictCheck /\ BothTables
    BY <2>1 DEF SoundInv
  <2>5. CASE script \in {"hot_load", "runtime_check"}
    <3>1. Coherent(plan)
      BY <2>3, <2>5, RuntimeCoherent, LoadCoherent DEF Course
    <3>2. PICK m \in Nat : m = Len(plan) /\ Len(rx) = m /\ m >= 1 /\ DOMAIN plan = 1 .. m
      BY <2>1, <3>1 DEF Coherent, Sound, Finished
    <3>3. Handled = m - 1
      <4>1. Len(rx) # 0
        BY <3>2
      <4>2. rx # <<>> /\ Len(rx) = Handled + 1 /\ Handled \in Nat
        BY <2>2, <4>1, HandledCount
      <4> QED BY <3>2, <4>2
    <3>4. ASSUME NEW k \in Reads \cup Writes PROVE Answered(k)
      <4>1. k \in 1 .. m /\ plan[k].op # ClassifyOp
        BY <3>2, <3>4, Opcodes DEF Reads, Writes
      <4>2. k # m
        BY <3>1, <3>2, <4>1 DEF Coherent
      <4>3. k \in 1 .. Handled
        BY <3>2, <3>3, <4>1, <4>2
      <4> QED BY <2>4, <2>5, <4>3 DEF WritesStay
    <3>5. /\ \A k \in Reads : AnswerTo(k) = ReadBack(k)
          /\ \A k \in Writes : AnswerTo(k) = Ack([acked |-> plan[k].op])
      BY <3>4 DEF Answered
    <3> QED BY <2>5, <3>5 DEF Passed, LoadPassed, RuntimePassed
  <2>6. CASE script = "flow_check"
    <3>1. Len(plan) = DefaultPort + 2 /\ Len(rx) = DefaultPort + 2
      BY <2>1, <2>3, <2>6, FlowPlan DEF Course, Finished
    <3>2. (Len(plan) - 1) + 1 = Len(rx)
      BY <3>1, Sizes
    <3>3. rx[Len(rx)].magic = 165 /\ ~rx[Len(rx)].body.verdict.scan
      BY <2>4, <2>6, <3>1 DEF NoScanYet
    <3>4. FlowPassed
      BY <3>2, <3>3 DEF FlowPassed, AnswerTo
    <3> QED BY <2>6, <3>4 DEF Passed
  <2>7. CASE script = "verdict_check"
    <3>1. PICK N \in Nat : N = Len(build_stream) /\ Len(plan) = N + 1 /\ Len(rx) = N + 1
      BY <2>1, <2>4, <2>7, StreamPlan, Windows DEF Finished
    <3>2. Handled = N
      <4>1. Len(rx) # 0
        BY <3>1
      <4>2. rx # <<>> /\ Len(rx) = Handled + 1 /\ Handled \in Nat
        BY <2>2, <4>1, HandledCount
      <4> QED BY <3>1, <4>2
    <3>3. \A k \in 1 .. N : GoodRow(k)
      BY <2>4, <2>7, <3>2 DEF BothTables
    <3>4. DOMAIN expected_rows = 1 .. N
      BY <3>1 DEF expected_rows
    <3>5. ASSUME NEW k \in DOMAIN expected_rows PROVE RowOk(k)
      <4>1. GoodRow(k)
        BY <3>3, <3>4
      <4> QED BY <4>1 DEF GoodRow, RowOk
    <3>6. ASSUME NEW k \in 2 .. Len(plan) - 1
          PROVE  AnswerTo(k).body.seq = (AnswerTo(k - 1).body.seq + 1) % SeqMod
      <4>1. k \in 1 .. N /\ k - 1 \in 1 .. N /\ k \in Nat /\ k > 0
        BY <3>1
      <4>2. GoodRow(k) /\ GoodRow(k - 1)
        BY <3>3, <4>1
      <4>3. AnswerTo(k).body.seq = k % SeqMod /\ AnswerTo(k - 1).body.seq = (k - 1) % SeqMod
        BY <4>2 DEF GoodRow
      <4> QED BY <4>1, <4>3, NextSeq
    <3>7. evaluate_run
      BY <3>5, <3>6 DEF evaluate_run
    <3> QED BY <2>7, <3>7 DEF Passed
  <2>8. script \in {"hot_load", "runtime_check", "flow_check", "verdict_check"}
    BY <2>3 DEF Course
  <2> QED BY <2>5, <2>6, <2>7, <2>8
<1>2. ToolsInit => SoundInv /\ others \in Nat
  BY SoundStart DEF ToolsInit
<1>3. ToolInv /\ (SoundInv /\ others \in Nat) /\ [Step \/ Other]_vars
        => (SoundInv /\ others \in Nat)'
  BY SoundStep
<1> QED BY <1>1, <1>2, <1>3, ToolsHold, PTL DEF ToolsSpec

=============================================================================
