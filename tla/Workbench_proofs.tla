---------------------------- MODULE Workbench_proofs ----------------------------
(***************************************************************************)
(* The proofs about what a user does before and after a job: the scope     *)
(* decisions, the scans and the worksheet, which share no state.           *)
(***************************************************************************)
EXTENDS ScopeDecisions, ScanCommands, Worksheets,
        FiniteSetTheorems, WellFoundedInduction, TLAPS

--------------------------------------------------------------------------------
(* Numbers: powers of two, digits, quotients. *)

(* Some number of a set of numbers is the least. *)
LEMMA LeastNumber ==
    ASSUME NEW S \in SUBSET Nat, S # {}
    PROVE  \E m \in S : \A n \in S : m <= n
<1>1. PICK m \in S : \A n \in S : <<n, m>> \notin OpToRel(<, Nat)
  BY NatLessThanWellFounded, WFMin
<1>2. \A n \in S : ~(n < m)
  BY <1>1 DEF OpToRel
<1>3. QED
  BY <1>2

(* A power of two is how many sets of numbers up to n there are. *)
LEMMA Powers ==
    ASSUME NEW n \in Nat
    PROVE  2^n \in Nat \ {0}
<1>1. IsFiniteSet(1..n) /\ Cardinality(1..n) = n
  BY FS_Interval
<1>2. IsFiniteSet(SUBSET (1..n)) /\ Cardinality(SUBSET (1..n)) = 2^n
  BY <1>1, FS_SUBSET
<1>3. Cardinality(SUBSET (1..n)) \in Nat
  BY <1>2, FS_CardinalityType
<1>4. {} \in SUBSET (1..n)
  OBVIOUS
<1>5. Cardinality(SUBSET (1..n)) # 0
  BY <1>2, <1>4, FS_EmptySet
<1>6. QED
  BY <1>2, <1>3, <1>5

(* The sets of numbers up to a + b are the sets of those up to a and the sets *)
(* of the others, put together.                                               *)
LEMMA PowersAdd ==
    ASSUME NEW a \in Nat, NEW b \in Nat
    PROVE  2^(a + b) = 2^a * 2^b
<1> DEFINE A == 1..a
           B == (a + 1)..(a + b)
           C == 1..(a + b)
           join == [p \in (SUBSET A) \X (SUBSET B) |-> p[1] \cup p[2]]
<1>1. A \cap B = {} /\ A \cup B = C
  OBVIOUS
<1>2. /\ IsFiniteSet(A) /\ Cardinality(A) = a
      /\ IsFiniteSet(B) /\ Cardinality(B) = b
      /\ IsFiniteSet(C) /\ Cardinality(C) = a + b
  <2>1. a \in Int /\ b \in Int /\ a + 1 \in Int /\ a + b \in Int /\ 1 \in Int
    OBVIOUS
  <2>2. /\ (IF 1 > a THEN 0 ELSE a - 1 + 1) = a
        /\ (IF a + 1 > a + b THEN 0 ELSE a + b - (a + 1) + 1) = b
        /\ (IF 1 > a + b THEN 0 ELSE a + b - 1 + 1) = a + b
    OBVIOUS
  <2>3. IsFiniteSet(A) /\ Cardinality(A) = a
    BY <2>1, <2>2, FS_Interval
  <2>4. IsFiniteSet(B) /\ Cardinality(B) = b
    BY <2>1, <2>2, FS_Interval
  <2>5. IsFiniteSet(C) /\ Cardinality(C) = a + b
    BY <2>1, <2>2, FS_Interval
  <2>6. QED
    BY <2>3, <2>4, <2>5
<1> HIDE DEF A, B, C
<1>3. /\ IsFiniteSet(SUBSET A) /\ Cardinality(SUBSET A) = 2^a
      /\ IsFiniteSet(SUBSET B) /\ Cardinality(SUBSET B) = 2^b
      /\ IsFiniteSet(SUBSET C) /\ Cardinality(SUBSET C) = 2^(a + b)
  BY <1>2, FS_SUBSET
<1>4. PICK S, T : S = SUBSET A /\ T = SUBSET B
  OBVIOUS
<1>5. IsFiniteSet(S \X T) /\ Cardinality(S \X T) = 2^a * 2^b
  <2>1. /\ IsFiniteSet(S) /\ Cardinality(S) = 2^a
        /\ IsFiniteSet(T) /\ Cardinality(T) = 2^b
    BY <1>3, <1>4
  <2>2. QED
    BY <2>1, FS_Product
<1>6. join \in [S \X T -> SUBSET C]
  BY <1>1, <1>4
<1>7. \A p, q \in S \X T : join[p] = join[q] => p = q
  <2> TAKE p, q \in S \X T
  <2> HAVE join[p] = join[q]
  <2>1. /\ p[1] \subseteq A /\ p[2] \subseteq B /\ p = <<p[1], p[2]>>
        /\ q[1] \subseteq A /\ q[2] \subseteq B /\ q = <<q[1], q[2]>>
    BY <1>4
  <2>2. p[1] \cup p[2] = q[1] \cup q[2]
    BY <1>4
  <2>3. p[1] = q[1] /\ p[2] = q[2]
    BY <1>1, <2>1, <2>2
  <2>4. QED
    BY <2>1, <2>3
<1>8. \A c \in SUBSET C : \E p \in S \X T : join[p] = c
  <2> TAKE c \in SUBSET C
  <2>1. <<c \cap A, c \cap B>> \in S \X T
    BY <1>4
  <2>2. (c \cap A) \cup (c \cap B) = c
    BY <1>1
  <2>3. join[<<c \cap A, c \cap B>>] = c
    BY <1>4, <2>1, <2>2
  <2>4. QED
    BY <2>1, <2>3
<1> HIDE DEF join
<1>9. ExistsBijection(S \X T, SUBSET C)
  <2>1. PICK P : P = S \X T
    OBVIOUS
  <2>2. DOMAIN join = P /\ join \in [P -> SUBSET C]
    BY <1>6, <2>1
  <2>3. join \in Injection(P, SUBSET C)
    BY <1>7, <2>1, <2>2 DEF Injection, IsInjective
  <2>4. join \in Surjection(P, SUBSET C)
    BY <1>8, <2>1, <2>2 DEF Surjection
  <2>5. QED
    BY <2>1, <2>3, <2>4 DEF ExistsBijection, Bijection
<1>10. Cardinality(SUBSET C) = Cardinality(S \X T)
  BY <1>5, <1>9, FS_Bijection
<1>11. QED
  BY <1>3, <1>5, <1>10

(* So a larger power is a multiple of a smaller one. *)
LEMMA PowersGrow ==
    ASSUME NEW a \in Nat, NEW b \in Nat, a <= b
    PROVE  2^a <= 2^b
<1>1. PICK c \in Nat : b = a + c
  <2>1. b - a \in Nat /\ b = a + (b - a)
    OBVIOUS
  <2>2. QED
    BY <2>1
<1>2. 2^b = 2^a * 2^c
  BY <1>1, PowersAdd
<1>3. PICK x \in Nat \ {0}, y \in Nat \ {0} : x = 2^a /\ y = 2^c
  BY Powers
<1>4. x <= x * y
  BY SMT
<1>5. QED
  BY <1>2, <1>3, <1>4

(* The values of the digits up to each place exist: if not, there is a least *)
(* place to which they do not, and they do to the one before.                *)
LEMMA Digits ==
    ASSUME NEW N \in Nat, NEW B \in Nat, NEW d \in [1..N -> Nat]
    PROVE  \E f \in [0..N -> Nat] :
              f[0] = 0 /\ \A n \in 1..N : f[n] = f[n - 1] * B + d[n]
<1> DEFINE Sums(f, k) == f[0] = 0 /\ \A n \in 1..k : f[n] = f[n - 1] * B + d[n]
           S == {k \in 0..N : ~\E f \in [0..k -> Nat] : Sums(f, k)}
<1>1. ASSUME S # {} PROVE FALSE
  <2>1. PICK m \in S : \A k \in S : m <= k
    <3>1. S \in SUBSET Nat
      OBVIOUS
    <3> HIDE DEF S
    <3>2. QED
      BY <1>1, <3>1, LeastNumber
  <2>2. m \in 0..N /\ ~\E f \in [0..m -> Nat] : Sums(f, m)
    OBVIOUS
  <2>3. m # 0
    <3>1. [n \in 0..0 |-> 0] \in [0..0 -> Nat] /\ Sums([n \in 0..0 |-> 0], 0)
      OBVIOUS
    <3>2. QED
      BY <2>2, <3>1
  <2>4. PICK f \in [0..(m - 1) -> Nat] : Sums(f, m - 1)
    <3>1. m - 1 \in 0..N /\ ~(m <= m - 1)
      BY <2>2, <2>3
    <3>2. m - 1 \notin S
      BY <2>1, <3>1
    <3>3. QED
      BY <3>1, <3>2
  <2>5. PICK c \in Nat : c = f[m - 1] * B + d[m]
    <3>1. f[m - 1] \in Nat /\ d[m] \in Nat
      BY <2>2, <2>3, <2>4
    <3>2. f[m - 1] * B \in Nat
      BY <3>1
    <3>3. QED
      BY <3>1, <3>2
  <2> DEFINE g == [n \in 0..m |-> IF n = m THEN c ELSE f[n]]
  <2>6. \A n \in 0..(m - 1) : n \in 0..m /\ n # m
    BY <2>2, <2>3
  <2>7. /\ g \in [0..m -> Nat] /\ g[m] = c
        /\ \A n \in 0..(m - 1) : g[n] = f[n]
    <3>1. \A n \in 0..m : n # m => n \in 0..(m - 1)
      BY <2>2, <2>3
    <3>2. QED
      BY <2>2, <2>4, <2>5, <2>6, <3>1
  <2> HIDE DEF g
  <2>8. g[0] = 0
    BY <2>2, <2>3, <2>4, <2>7
  <2>9. ASSUME NEW n \in 1..m PROVE g[n] = g[n - 1] * B + d[n]
    <3>1. n - 1 \in 0..(m - 1) /\ (n # m => n \in 1..(m - 1) /\ n \in 0..(m - 1))
      BY <2>2, <2>3
    <3>2. g[n - 1] = f[n - 1]
      BY <2>7, <3>1
    <3>3. CASE n = m
      BY <2>5, <2>7, <3>2, <3>3
    <3>4. CASE n # m
      BY <2>4, <2>7, <3>1, <3>2, <3>4
    <3>5. QED
      BY <3>3, <3>4
  <2>10. QED
    BY <2>2, <2>7, <2>8, <2>9
<1>2. N \in 0..N
  OBVIOUS
<1>3. \E f \in [0..N -> Nat] : Sums(f, N)
  BY <1>1, <1>2
<1>4. QED
  BY <1>3

(* Quotient and remainder. *)
LEMMA Division ==
    ASSUME NEW a \in Nat, NEW d \in Nat \ {0}
    PROVE  /\ a \div d \in Nat /\ a % d \in 0..(d - 1)
           /\ a = d * (a \div d) + (a % d)
OBVIOUS

(* Numbers have the same part above a power exactly if they are cut down to *)
(* the same number.                                                         *)
LEMMA Cut ==
    ASSUME NEW a \in Nat, NEW b \in Nat, NEW d \in Nat \ {0}
    PROVE  a - (a % d) = b - (b % d) <=> a \div d = b \div d
<1>1. PICK p, q, r, s : /\ p = a \div d /\ r = a % d
                        /\ q = b \div d /\ s = b % d
  OBVIOUS
<1>2. /\ p \in Nat /\ r \in 0..(d - 1) /\ a = d * p + r
      /\ q \in Nat /\ s \in 0..(d - 1) /\ b = d * q + s
  BY <1>1, Division
<1>3. PICK x \in Nat, y \in Nat : x = d * p /\ y = d * q
  BY <1>2
<1>4. a - r = x /\ b - s = y
  BY <1>2, <1>3
<1>5. x = y => p = q
  <2>1. ASSUME x = y, p < q PROVE FALSE
    <3>1. PICK w \in Nat : q = p + 1 + w
      <4>1. q - (p + 1) \in Nat /\ q = p + 1 + (q - (p + 1))
        BY <1>2, <2>1
      <4>2. QED
        BY <4>1
    <3>2. d * q = d * p + d + d * w
      BY <1>2, <3>1
    <3>3. d * w \in Nat
      OBVIOUS
    <3>4. QED
      BY <1>3, <2>1, <3>2, <3>3
  <2>2. ASSUME x = y, q < p PROVE FALSE
    <3>1. PICK w \in Nat : p = q + 1 + w
      <4>1. p - (q + 1) \in Nat /\ p = q + 1 + (p - (q + 1))
        BY <1>2, <2>2
      <4>2. QED
        BY <4>1
    <3>2. d * p = d * q + d + d * w
      BY <1>2, <3>1
    <3>3. d * w \in Nat
      OBVIOUS
    <3>4. QED
      BY <1>3, <2>2, <3>2, <3>3
  <2>3. QED
    BY <1>2, <2>1, <2>2
<1>6. p = q => x = y
  BY <1>3
<1>7. QED
  BY <1>1, <1>4, <1>5, <1>6

(* What is above a power and what is below it. *)
LEMMA PutTogether ==
    ASSUME NEW m \in Nat, NEW d \in Nat \ {0}, NEW r \in 0..(d - 1)
    PROVE  (m * d + r) \div d = m /\ (m * d + r) % d = r
<1>1. PICK x \in Nat : x = m * d
  OBVIOUS
<1>2. PICK a \in Nat : a = x + r
  OBVIOUS
<1>3. PICK q, s : q = a \div d /\ s = a % d
  OBVIOUS
<1>4. q \in Nat /\ s \in 0..(d - 1) /\ a = d * q + s
  BY <1>3, Division
<1>5. q = m
  <2>1. ASSUME q < m PROVE FALSE
    <3>1. PICK w \in Nat : m = q + 1 + w
      <4>1. m - (q + 1) \in Nat /\ m = q + 1 + (m - (q + 1))
        BY <1>4, <2>1
      <4>2. QED
        BY <4>1
    <3>2. m * d = d * q + d + d * w
      BY <1>4, <3>1
    <3>3. d * w \in Nat /\ d * q \in Nat
      BY <1>4
    <3>4. QED
      BY <1>1, <1>2, <1>4, <3>2, <3>3
  <2>2. ASSUME m < q PROVE FALSE
    <3>1. PICK w \in Nat : q = m + 1 + w
      <4>1. q - (m + 1) \in Nat /\ q = m + 1 + (q - (m + 1))
        BY <1>4, <2>2
      <4>2. QED
        BY <4>1
    <3>2. d * q = m * d + d + d * w
      BY <3>1
    <3>3. d * w \in Nat
      OBVIOUS
    <3>4. QED
      BY <1>1, <1>2, <1>4, <3>2, <3>3
  <2>3. QED
    BY <1>4, <2>1, <2>2
<1>6. d * q = x
  BY <1>1, <1>5
<1>7. s = r
  BY <1>2, <1>4, <1>6
<1>8. QED
  BY <1>1, <1>2, <1>3, <1>5, <1>7
--------------------------------------------------------------------------------
(* Scope decisions: canonical forms, and what they allow. *)

(* A sequence is behind at least one more element of another exactly if it *)
(* is another suffix.                                                      *)
LEMMA SuffixIs ==
    ASSUME NEW X, NEW s \in Seq(X), NEW t \in Seq(X)
    PROVE  IsSuffix(s, t) <=>
              /\ Len(s) <= Len(t)
              /\ \A i \in 1..Len(s) : s[i] = t[Len(t) - Len(s) + i]
<1> DEFINE m == Len(s)
           n == Len(t)
<1>1. m \in Nat /\ n \in Nat
  OBVIOUS
<1>2. PICK a, b : a = Reverse(s) /\ b = Reverse(t)
  OBVIOUS
<1>3. /\ a \in Seq(X) /\ Len(a) = m /\ \A i \in 1..m : a[i] = s[m - i + 1]
      /\ b \in Seq(X) /\ Len(b) = n /\ \A i \in 1..n : b[i] = t[n - i + 1]
  <2>1. a \in Seq(X) /\ Len(a) = m /\ \A i \in 1..m : a[i] = s[m - i + 1]
    <3>1. a = [i \in 1..m |-> s[(m - i) + 1]]
      BY <1>2 DEF Reverse
    <3>2. \A i \in 1..m : (m - i) + 1 \in 1..m
      OBVIOUS
    <3>3. QED
      BY <1>1, <3>1, <3>2
  <2>2. b \in Seq(X) /\ Len(b) = n /\ \A i \in 1..n : b[i] = t[n - i + 1]
    <3>1. b = [i \in 1..n |-> t[(n - i) + 1]]
      BY <1>2 DEF Reverse
    <3>2. \A i \in 1..n : (n - i) + 1 \in 1..n
      OBVIOUS
    <3>3. QED
      BY <1>1, <3>1, <3>2
  <2>3. QED
    BY <2>1, <2>2
<1>4. IsSuffix(s, t) <=> m <= n /\ SubSeq(a, 1, m) = SubSeq(b, 1, m)
  BY <1>2, <1>3 DEF IsSuffix, IsPrefix
<1>5. ASSUME m <= n
      PROVE  SubSeq(a, 1, m) = SubSeq(b, 1, m) <=> \A i \in 1..m : a[i] = b[i]
  <2>1. \A i \in 1..m : i \in 1..n
    BY <1>1, <1>5
  <2>2. /\ SubSeq(a, 1, m) = [i \in 1..m |-> a[i]]
        /\ SubSeq(b, 1, m) = [i \in 1..m |-> b[i]]
    BY <1>1, <1>3, <1>5, <2>1
  <2>3. QED
    BY <2>2
<1>6. ASSUME m <= n
      PROVE  (\A i \in 1..m : a[i] = b[i]) <=> \A i \in 1..m : s[i] = t[n - m + i]
  <2>1. \A i \in 1..m : /\ m - i + 1 \in 1..m /\ m - i + 1 \in 1..n
                        /\ m - (m - i + 1) + 1 = i
                        /\ n - (m - i + 1) + 1 = n - m + i
    BY <1>1, <1>6
  <2>2. ASSUME \A i \in 1..m : a[i] = b[i], NEW i \in 1..m
        PROVE  s[i] = t[n - m + i]
    <3>1. PICK j \in 1..m : /\ j = m - i + 1 /\ j \in 1..n
                            /\ m - j + 1 = i /\ n - j + 1 = n - m + i
      BY <2>1
    <3>2. a[j] = s[i] /\ b[j] = t[n - m + i]
      BY <1>3, <3>1
    <3>3. QED
      BY <2>2, <3>2
  <2>3. ASSUME \A i \in 1..m : s[i] = t[n - m + i], NEW j \in 1..m
        PROVE  a[j] = b[j]
    <3>1. PICK i \in 1..m : i = m - j + 1 /\ n - m + i = n - j + 1
      <4>1. m - j + 1 \in 1..m /\ n - m + (m - j + 1) = n - j + 1
        BY <1>1
      <4>2. QED
        BY <4>1
    <3>2. j \in 1..n
      BY <1>1, <1>6
    <3>3. a[j] = s[i] /\ b[j] = t[n - m + i]
      BY <1>3, <3>1, <3>2
    <3>4. QED
      BY <2>3, <3>3
  <2>4. QED
    BY <2>2, <2>3
<1>7. QED
  BY <1>4, <1>5, <1>6

(* A name is below another exactly if that one is what is left of it after *)
(* some first labels.                                                      *)
LEMMA BelowIs ==
    ASSUME NEW X, NEW s \in Seq(X), NEW t \in Seq(X), s # <<>>
    PROVE  Below(t, s) <=> \E n \in 1..Len(t) - 1 : SubSeq(t, n + 1, Len(t)) = s
<1> DEFINE Behind(n) == /\ Len(s) = Len(t) - n
                        /\ \A i \in 1..Len(s) : s[i] = t[n + i]
<1>1. Len(s) \in Nat \ {0} /\ Len(t) \in Nat
  OBVIOUS
<1>2. ASSUME NEW n \in 0..Len(t)
      PROVE  SubSeq(t, n + 1, Len(t)) = s <=> Behind(n)
  <2>1. PICK u : u = SubSeq(t, n + 1, Len(t))
    OBVIOUS
  <2>2. /\ u \in Seq(X) /\ Len(u) = Len(t) - n
        /\ \A i \in 1..Len(u) : u[i] = t[n + i]
    BY <1>1, <2>1
  <2>3. u = [i \in 1..Len(u) |-> u[i]] /\ s = [i \in 1..Len(s) |-> s[i]]
    BY <2>2
  <2>4. u = s <=> Len(u) = Len(s) /\ \A i \in 1..Len(s) : u[i] = s[i]
    BY <2>3
  <2>5. QED
    BY <2>1, <2>2, <2>4
<1>3. t = s <=> Behind(0)
  <2>1. 0 \in 0..Len(t) /\ SubSeq(t, 0 + 1, Len(t)) = t
    BY <1>1
  <2>2. QED
    BY <1>2, <2>1
<1>4. IsSuffix(s, t) <=> \E n \in 0..Len(t) : Behind(n)
  <2>1. ASSUME IsSuffix(s, t)
        PROVE  \E n \in 0..Len(t) : Behind(n)
    <3>1. Len(s) <= Len(t) /\ \A i \in 1..Len(s) : s[i] = t[Len(t) - Len(s) + i]
      BY <2>1, SuffixIs
    <3>2. Len(t) - Len(s) \in 0..Len(t) /\ Len(s) = Len(t) - (Len(t) - Len(s))
      BY <1>1, <3>1
    <3>3. QED
      BY <3>1, <3>2
  <2>2. ASSUME NEW n \in 0..Len(t), Behind(n)
        PROVE  IsSuffix(s, t)
    <3>1. n = Len(t) - Len(s) /\ Len(s) <= Len(t)
      BY <1>1, <2>2
    <3>2. QED
      BY <2>2, <3>1, SuffixIs
  <2>3. QED
    BY <2>1, <2>2
<1>5. \A n \in 0..Len(t) : Behind(n) => n \in 0..Len(t) - 1
  BY <1>1
<1>6. ASSUME NEW n \in 0..Len(t), NEW k \in 0..Len(t), Behind(n), Behind(k)
      PROVE  n = k
  BY <1>1, <1>6
<1> HIDE DEF Behind
<1>7. Below(t, s) <=> \E n \in 1..Len(t) - 1 : Behind(n)
  <2>1. ASSUME Below(t, s)
        PROVE  \E n \in 1..Len(t) - 1 : Behind(n)
    <3>1. PICK n \in 0..Len(t) : Behind(n)
      BY <1>4, <2>1 DEF Below
    <3>2. n # 0
      BY <1>3, <2>1, <3>1 DEF Below
    <3>3. n \in 1..Len(t) - 1
      BY <1>1, <1>5, <3>1, <3>2
    <3>4. QED
      BY <3>1, <3>3
  <2>2. ASSUME NEW n \in 1..Len(t) - 1, Behind(n)
        PROVE  Below(t, s)
    <3>1. n \in 0..Len(t) /\ 0 \in 0..Len(t) /\ n # 0
      BY <1>1
    <3>2. t # s
      BY <1>3, <1>6, <2>2, <3>1
    <3>3. QED
      BY <1>4, <2>2, <3>1, <3>2 DEF Below
  <2>3. QED
    BY <2>1, <2>2
<1>8. \A n \in 1..Len(t) - 1 : n \in 0..Len(t)
  BY <1>1
<1>9. QED
  BY <1>2, <1>7, <1>8

(* Labels that all are plain octets. *)
IsQuad(labels) ==
    /\ Len(labels) = Octets
    /\ \A i \in 1..Octets : labels[i] \in DOMAIN Octet

(* What the recursion of QuadValue says. *)
QuadFits(value, labels) ==
    value = [n \in 0..Octets |->
                IF n = 0 THEN 0 ELSE value[n - 1] * (2^OctetBits) + Octet[labels[n]]]

(* There is a function that fits it. *)
LEMMA QuadFitsSome ==
    ASSUME NEW labels, IsQuad(labels)
    PROVE  \E value : QuadFits(value, labels)
<1> DEFINE d == [n \in 1..Octets |-> Octet[labels[n]]]
           B == 2^OctetBits
<1>1. Octets \in Nat /\ OctetBits \in Nat
  BY RulesAssumption
<1>2. B \in Nat
  BY <1>1, Powers
<1>3. d \in [1..Octets -> Nat]
  <2>1. \A n \in 1..Octets : Octet[labels[n]] \in Nat
    BY <1>2, RulesAssumption DEF IsQuad
  <2>2. QED
    BY <2>1
<1> HIDE DEF d, B
<1>4. PICK f \in [0..Octets -> Nat] :
          f[0] = 0 /\ \A n \in 1..Octets : f[n] = f[n - 1] * B + d[n]
  BY <1>1, <1>2, <1>3, Digits
<1>5. \A n \in 0..Octets : f[n] = IF n = 0 THEN 0 ELSE f[n - 1] * B + Octet[labels[n]]
  <2>1. \A n \in 1..Octets : d[n] = Octet[labels[n]]
    BY DEF d
  <2>2. \A n \in 0..Octets : n # 0 => n \in 1..Octets
    BY <1>1
  <2>3. QED
    BY <1>4, <2>1, <2>2
<1>6. f = [n \in 0..Octets |-> IF n = 0 THEN 0 ELSE f[n - 1] * B + Octet[labels[n]]]
  <2>1. f = [n \in 0..Octets |-> f[n]]
    BY <1>4
  <2>2. QED
    BY <1>5, <2>1
<1>7. QED
  BY <1>6 DEF QuadFits, B

(* A quad writes a number of its bits. *)
LEMMA QuadIsBounded ==
    ASSUME NEW labels, IsQuad(labels)
    PROVE  QuadValue(labels) \in 0..(2^Bits4 - 1)
<1> DEFINE value[n \in 0..Octets] ==
               IF n = 0 THEN 0 ELSE value[n - 1] * (2^OctetBits) + Octet[labels[n]]
           Fits(f) == f = [n \in 0..Octets |->
                    IF n = 0 THEN 0 ELSE f[n - 1] * (2^OctetBits) + Octet[labels[n]]]
           P(n) == 2^(n * OctetBits)
           S == {n \in 0..Octets : ~(value[n] \in 0..(P(n) - 1))}
<1>1. Octets \in Nat /\ OctetBits \in Nat
  BY RulesAssumption
<1>2. QuadValue(labels) = value[Octets]
  BY DEF QuadValue
<1>3. value = CHOOSE f : Fits(f)
  OBVIOUS
<1>4. PICK f : Fits(f)
  BY QuadFitsSome DEF QuadFits
<1>5. Fits(value)
  <2> HIDE DEF value, Fits
  <2>1. QED
    BY <1>3, <1>4
<1>6. /\ value[0] = 0
      /\ \A n \in 1..Octets : value[n] = value[n - 1] * (2^OctetBits) + Octet[labels[n]]
  <2> HIDE DEF value
  <2>1. /\ 0 \in 0..Octets
        /\ \A n \in 1..Octets : n \in 0..Octets /\ n # 0
    BY <1>1
  <2>2. \A n \in 0..Octets : value[n] =
            IF n = 0 THEN 0 ELSE value[n - 1] * (2^OctetBits) + Octet[labels[n]]
    BY <1>5
  <2>3. QED
    BY <2>1, <2>2
<1> HIDE DEF value
<1>7. ASSUME S # {} PROVE FALSE
  <2>1. PICK m \in S : \A n \in S : m <= n
    <3>1. S \in SUBSET Nat
      OBVIOUS
    <3> HIDE DEF S
    <3>2. QED
      BY <1>7, <3>1, LeastNumber
  <2>2. m \in 0..Octets /\ ~(value[m] \in 0..(P(m) - 1))
    OBVIOUS
  <2>3. m # 0
    <3>1. P(0) \in Nat \ {0}
      <4>1. 0 * OctetBits = 0
        BY <1>1
      <4>2. QED
        BY <4>1, Powers
    <3>2. value[0] \in 0..(P(0) - 1)
      BY <1>6, <3>1
    <3>3. QED
      BY <2>2, <3>2
  <2>4. value[m - 1] \in 0..(P(m - 1) - 1)
    <3>1. m - 1 \in 0..Octets /\ ~(m <= m - 1)
      BY <1>1, <2>2, <2>3
    <3>2. m - 1 \notin S
      BY <2>1, <3>1
    <3>3. QED
      BY <3>1, <3>2
  <2>5. PICK o, B, p, v :
            /\ o = Octet[labels[m]] /\ B = 2^OctetBits /\ p = P(m - 1) /\ v = value[m - 1]
    OBVIOUS
  <2>6. m - 1 \in Nat /\ (m - 1) * OctetBits \in Nat
    <3>1. m - 1 \in Nat
      BY <2>2, <2>3
    <3>2. PICK k \in Nat : k = m - 1
      BY <3>1
    <3>3. k * OctetBits \in Nat
      BY <1>1
    <3>4. QED
      BY <3>2, <3>3
  <2>7. B \in Nat \ {0} /\ p \in Nat \ {0}
    BY <1>1, <2>5, <2>6, Powers
  <2>8. o \in 0..(B - 1)
    <3>1. labels[m] \in DOMAIN Octet
      BY <2>2, <2>3 DEF IsQuad
    <3>2. QED
      BY <2>5, <3>1, RulesAssumption
  <2>9. v \in 0..(p - 1)
    BY <2>4, <2>5
  <2>10. P(m) = p * B
    <3>1. m * OctetBits = (m - 1) * OctetBits + OctetBits
      <4>1. PICK k \in Nat : m = k + 1 /\ k = m - 1
        BY <2>6
      <4>2. (k + 1) * OctetBits = k * OctetBits + OctetBits
        BY <1>1
      <4>3. QED
        BY <4>1, <4>2
    <3>2. PICK a \in Nat : a = (m - 1) * OctetBits
      BY <2>6
    <3>3. 2^(a + OctetBits) = 2^a * 2^OctetBits
      BY <1>1, PowersAdd
    <3>4. QED
      BY <2>5, <3>1, <3>2, <3>3
  <2>11. value[m] = v * B + o
    <3>1. m \in 1..Octets
      BY <1>1, <2>2, <2>3
    <3>2. QED
      BY <1>6, <2>5, <3>1
  <2>12. v * B + o \in 0..(p * B - 1)
    <3>1. v + 1 <= p /\ v \in Nat /\ p \in Nat
      BY <2>7, <2>9
    <3>2. PICK w \in Nat : p = v + 1 + w
      <4>1. p - (v + 1) \in Nat /\ p = v + 1 + (p - (v + 1))
        BY <3>1
      <4>2. QED
        BY <4>1
    <3>3. PICK x, y : x = v * B /\ y = w * B /\ x \in Nat /\ y \in Nat
      BY <2>7, <3>1
    <3>4. p * B = x + B + y
      BY <2>7, <3>1, <3>2, <3>3
    <3>5. QED
      BY <2>7, <2>8, <3>3, <3>4
  <2>13. QED
    BY <2>2, <2>10, <2>11, <2>12
<1>8. value[Octets] \in 0..(P(Octets) - 1)
  BY <1>1, <1>7
<1>9. QED
  BY <1>2, <1>8 DEF Bits4

(* What is known of the notations that can be literals, and of all. *)
LiteralFits(r) ==
    /\ r.form = "dotted" => r.labels \in Seq(DOMAIN Fold)
    /\ r.form = "colons" => r.number \in 0..(2^Bits6 - 1)

NotationFits(e) ==
    /\ LiteralFits(e)
    /\ e.form = "brackets" => LiteralFits(e.inside)
    /\ e.form \in {"wildcard", "range"} => LiteralFits(e.base)
    /\ e.form = "range" => e.prefix \in Nat

(* All that users write is like this. *)
LEMMA NotationsFit ==
    ASSUME NEW e \in Notations
    PROVE  NotationFits(e)
<1>1. \A r \in Literals : LiteralFits(r)
  BY DEF Literals, LiteralFits
<1>2. \A r \in Hosts : LiteralFits(r) /\ (r.form = "brackets" => LiteralFits(r.inside))
                       /\ r.form \notin {"wildcard", "range"}
  BY <1>1 DEF Hosts, Literals, LiteralFits
<1>3. CASE e \in Hosts
  BY <1>2, <1>3 DEF NotationFits
<1>4. CASE e \in [form : {"wildcard"}, base : Hosts]
  BY <1>2, <1>4 DEF NotationFits, LiteralFits
<1>5. CASE e \in [form : {"range"}, base : Hosts, prefix : Nat]
  BY <1>2, <1>5 DEF NotationFits, LiteralFits
<1>6. QED
  BY <1>3, <1>4, <1>5, NotationsAssumption

(* An address: its version and its number. *)
IsAddress(a) ==
    /\ a = [version |-> a.version, number |-> a.number]
    /\ a.version \in {4, 6} /\ a.number \in Nat

(* What is read is the address written: that of a quad has its bits. *)
LEMMA LiteralIs ==
    ASSUME NEW r, LiteralFits(r), NEW a, a = Literal(r), a # Invalid
    PROVE  /\ IsAddress(a)
           /\ \/ /\ r.form = "dotted" /\ IsQuad(r.labels)
                 /\ a.version = 4 /\ a.number = QuadValue(r.labels)
                 /\ a.number \in 0..(2^Bits4 - 1)
              \/ r.form = "colons" /\ a.version = 6 /\ a.number = r.number
<1>1. Bits4 \in Nat /\ Bits6 \in Nat
  BY RulesAssumption DEF Bits4
<1>2. 2^Bits4 \in Nat \ {0} /\ 2^Bits6 \in Nat \ {0}
  BY <1>1, Powers
<1>3. CASE /\ r.form = "dotted" /\ IsQuad(r.labels)
           /\ a = [version |-> 4, number |-> QuadValue(r.labels)]
  <2>1. QuadValue(r.labels) \in 0..(2^Bits4 - 1)
    BY <1>3, QuadIsBounded
  <2>2. QED
    BY <1>2, <1>3, <2>1 DEF IsAddress
<1>4. CASE r.form = "colons" /\ a = [version |-> 6, number |-> r.number]
  BY <1>2, <1>4 DEF IsAddress, LiteralFits
<1>5. QED
  BY <1>3, <1>4 DEF Literal, IsQuad

(* So what is canonical is an address, brackets and mapping or not. *)
LEMMA AddressIs ==
    ASSUME NEW e, NotationFits(e), NEW a, a = CanonicalIp(e), a # Invalid
    PROVE  IsAddress(a) /\ e.form \in {"dotted", "colons", "brackets"}
<1>1. PICK r : /\ r = IF e.form = "brackets" THEN e.inside ELSE e
               /\ LiteralFits(r)
  BY DEF NotationFits
<1>2. PICK b : b = Literal(r)
  OBVIOUS
<1>3. b # Invalid
  BY <1>1, <1>2 DEF CanonicalIp
<1>4. IsAddress(b) /\ r.form \in {"dotted", "colons"}
  BY <1>1, <1>2, <1>3, LiteralIs
<1>5. 2^Bits4 \in Nat \ {0}
  BY RulesAssumption, Powers DEF Bits4
<1>6. b.number % (2^Bits4) \in Nat
  BY <1>4, <1>5 DEF IsAddress
<1>7. IsAddress([version |-> 4, number |-> b.number % (2^Bits4)])
  BY <1>6 DEF IsAddress
<1>8. a = b \/ a = [version |-> 4, number |-> b.number % (2^Bits4)]
  BY <1>1, <1>2 DEF CanonicalIp
<1>9. e.form \in {"dotted", "colons", "brackets"}
  BY <1>1, <1>4
<1>10. QED
  BY <1>4, <1>7, <1>8, <1>9

(* The folded labels, and the labels there are. *)
NamesOf(labels) == [i \in DOMAIN labels |-> Fold[labels[i]]]

Spelt == {Fold[s] : s \in DOMAIN Fold}

(* A canonical domain has the folded labels, at least one. *)
LEMMA NamesAre ==
    ASSUME NEW r, LiteralFits(r), NEW n, n = CanonicalDomain(r), n # Invalid
    PROVE  /\ r.form = "dotted" /\ n = NamesOf(r.labels)
           /\ n \in Seq(Spelt) /\ n # <<>>
<1>1. /\ r.form = "dotted" /\ n = NamesOf(r.labels) /\ Len(r.labels) >= 2
  BY DEF CanonicalDomain, NamesOf
<1>2. r.labels \in Seq(DOMAIN Fold)
  BY <1>1 DEF LiteralFits
<1>3. /\ Len(r.labels) \in Nat /\ DOMAIN r.labels = 1..Len(r.labels)
      /\ \A i \in 1..Len(r.labels) : Fold[r.labels[i]] \in Spelt
  BY <1>2 DEF Spelt
<1>4. n \in Seq(Spelt) /\ Len(n) = Len(r.labels)
  BY <1>1, <1>3 DEF NamesOf
<1>5. QED
  BY <1>1, <1>3, <1>4

(* A canonical range is cut down from the literal by a power that divides its *)
(* bits, and no broader than the floor.                                       *)
LEMMA RangeIs ==
    ASSUME NEW e, LiteralFits(e.base), e.prefix \in Nat,
           NEW r, r = CanonicalCidr(e), r # Invalid
    PROVE  \E a : /\ a = Literal(e.base) /\ IsAddress(a)
                  /\ r.version = a.version
                  /\ r.size = 2^(Width(a.version) - e.prefix)
                  /\ r.number = a.number - (a.number % r.size)
                  /\ r.size \in Nat \ {0}
                  /\ 2^(Width(a.version) - MinPrefix(a.version)) \in Nat
                  /\ r.size <= 2^(Width(a.version) - MinPrefix(a.version))
<1>1. PICK a : a = Literal(e.base)
  OBVIOUS
<1>2. /\ a # Invalid
      /\ e.prefix \in MinPrefix(a.version)..Width(a.version)
      /\ r.version = a.version
      /\ r.size = 2^(Width(a.version) - e.prefix)
      /\ r.number = a.number - (a.number % r.size)
  BY <1>1 DEF CanonicalCidr, AcceptedPrefixes
<1>3. IsAddress(a)
  BY <1>1, <1>2, LiteralIs
<1>4. PICK w \in Nat, m \in Nat : /\ w = Width(a.version) /\ m = MinPrefix(a.version)
                                  /\ m <= w
  BY <1>3, RulesAssumption DEF IsAddress, Width, MinPrefix, Bits4
<1>5. w - e.prefix \in Nat /\ w - m \in Nat /\ w - e.prefix <= w - m
  BY <1>2, <1>4
<1>6. r.size \in Nat \ {0}
  BY <1>2, <1>4, <1>5, Powers
<1>7. 2^(w - m) \in Nat /\ r.size <= 2^(w - m)
  <2>1. PICK x \in Nat, y \in Nat : x = w - e.prefix /\ y = w - m /\ x <= y
    BY <1>5
  <2>2. 2^x <= 2^y /\ 2^y \in Nat
    BY <2>1, Powers, PowersGrow
  <2>3. QED
    BY <1>2, <1>4, <2>1, <2>2
<1>8. QED
  BY <1>1, <1>2, <1>3, <1>4, <1>6, <1>7

(* The kinds of canonical entries. *)
LEMMA EntryIs ==
    ASSUME NEW e, NotationFits(e), NEW c, c = CanonicalEntry(e), c # Invalid
    PROVE  /\ c.value # Invalid
           /\ \/ /\ e.form = "wildcard"
                 /\ c.type = "wildcard_domain" /\ c.value = CanonicalDomain(e.base)
              \/ e.form = "range" /\ c.type = "cidr" /\ c.value = CanonicalCidr(e)
              \/ /\ e.form \notin {"wildcard", "range"} /\ CanonicalIp(e) # Invalid
                 /\ c.type = "ip" /\ c.value = CanonicalIp(e)
              \/ /\ e.form \notin {"wildcard", "range"} /\ CanonicalIp(e) = Invalid
                 /\ c.type = "domain" /\ c.value = CanonicalDomain(e)
BY DEF CanonicalEntry, Typed

(* A canonical target has the type asked for. *)
LEMMA TargetIs ==
    ASSUME NEW raw, NEW type \in Types, NEW t, t = CanonicalTarget(raw, type), t # Invalid
    PROVE  /\ t.type = type /\ t.value # Invalid
           /\ t.value = IF type = "ip" THEN CanonicalIp(raw) ELSE CanonicalDomain(raw)
BY DEF CanonicalTarget, Typed

(* What a wildcard allows is what it denotes. *)
LEMMA WildcardDenotes ==
    ASSUME NEW e, NotationFits(e), NEW c, c = CanonicalEntry(e), c # Invalid,
           e.form = "wildcard",
           NEW X, NEW h \in Seq(X)
    PROVE  Below(h, c.value) <=> Denotes(e, "hostname", h)
<1>1. PICK n : n = c.value /\ n = CanonicalDomain(e.base) /\ n # Invalid
  BY EntryIs
<1>2. n = NamesOf(e.base.labels) /\ n \in Seq(Spelt) /\ n # <<>>
  BY <1>1, NamesAre DEF NotationFits
<1>3. n \in Seq(X \cup Spelt) /\ h \in Seq(X \cup Spelt)
  BY <1>2
<1>4. Below(h, n) <=> \E k \in 1..Len(h) - 1 : SubSeq(h, k + 1, Len(h)) = n
  BY <1>2, <1>3, BelowIs
<1>5. Denotes(e, "hostname", h) <=>
         \E k \in 1..Len(h) - 1 : SubSeq(h, k + 1, Len(h)) = n
  <2>1. CanonicalIp(e) = Invalid
    BY AddressIs
  <2>2. QED
    BY <1>2, <2>1 DEF Denotes, NamesOf
<1>6. QED
  BY <1>1, <1>4, <1>5

(* What a range allows is what it denotes. *)
LEMMA RangeDenotes ==
    ASSUME NEW e, NotationFits(e), NEW c, c = CanonicalEntry(e), c # Invalid,
           e.form = "range",
           NEW h, IsAddress(h)
    PROVE  Within(h, c.value) <=> Denotes(e, "ip", h)
<1>1. PICK r : r = c.value /\ r = CanonicalCidr(e) /\ r # Invalid
  BY EntryIs
<1>2. PICK a : /\ a = Literal(e.base) /\ IsAddress(a)
               /\ r.version = a.version
               /\ r.size = 2^(Width(a.version) - e.prefix)
               /\ r.number = a.number - (a.number % r.size)
               /\ r.size \in Nat \ {0}
  BY <1>1, RangeIs DEF NotationFits
<1>3. Within(h, r) <=>
         /\ h.version = a.version
         /\ h.number - (h.number % r.size) = a.number - (a.number % r.size)
  BY <1>2 DEF Within
<1>4. h.number - (h.number % r.size) = a.number - (a.number % r.size)
         <=> h.number \div r.size = a.number \div r.size
  BY <1>2, Cut DEF IsAddress
<1>5. Denotes(e, "ip", h) <=>
         /\ a.version = h.version
         /\ a.number \div (2^(Width(h.version) - e.prefix))
               = h.number \div (2^(Width(h.version) - e.prefix))
  BY <1>2 DEF Denotes
<1>6. QED
  BY <1>1, <1>2, <1>3, <1>4, <1>5

(* So each entry allows the canonical targets that its notation denotes. *)
LEMMA EntryDenotes ==
    ASSUME NEW e, NotationFits(e), NEW c, c = CanonicalEntry(e), c # Invalid,
           NEW raw, NotationFits(raw), NEW type \in Types,
           NEW t, t = CanonicalTarget(raw, type), t # Invalid
    PROVE  Covers(c, t) <=> Denotes(e, type, t.value)
<1>1. PICK h : /\ h = t.value /\ h # Invalid /\ t.type = type
               /\ h = IF type = "ip" THEN CanonicalIp(raw) ELSE CanonicalDomain(raw)
  BY TargetIs
<1>2. type = "ip" => IsAddress(h)
  BY <1>1, AddressIs
<1>3. type = "hostname" => h \in Seq(Spelt)
  BY <1>1, NamesAre DEF NotationFits
<1>4. CASE /\ e.form = "wildcard" /\ c.type = "wildcard_domain"
  <2>1. CASE type = "hostname"
    <3>1. Covers(c, t) <=> Below(h, c.value)
      BY <1>1, <1>4, <2>1 DEF Covers
    <3>2. QED
      BY <1>1, <1>3, <1>4, <2>1, <3>1, WildcardDenotes
  <2>2. CASE type = "ip"
    <3>1. ~Covers(c, t)
      BY <1>1, <1>4, <2>2 DEF Covers
    <3>2. CanonicalIp(e) = Invalid
      BY <1>4, AddressIs
    <3>3. ~Denotes(e, type, h)
      BY <1>4, <2>2, <3>2 DEF Denotes
    <3>4. QED
      BY <1>1, <3>1, <3>3
  <2>3. QED
    BY <2>1, <2>2 DEF Types
<1>5. CASE /\ e.form = "range" /\ c.type = "cidr"
  <2>1. CASE type = "ip"
    <3>1. Covers(c, t) <=> Within(h, c.value)
      BY <1>1, <1>5, <2>1 DEF Covers
    <3>2. QED
      BY <1>1, <1>2, <1>5, <2>1, <3>1, RangeDenotes
  <2>2. CASE type = "hostname"
    <3>1. ~Covers(c, t)
      BY <1>1, <1>5, <2>2 DEF Covers
    <3>2. ~Denotes(e, type, h)
      BY <1>5, <2>2 DEF Denotes
    <3>3. QED
      BY <1>1, <3>1, <3>2
  <2>3. QED
    BY <2>1, <2>2 DEF Types
<1>6. CASE /\ e.form \notin {"wildcard", "range"} /\ CanonicalIp(e) # Invalid
           /\ c.type = "ip" /\ c.value = CanonicalIp(e)
  <2>1. Covers(c, t) <=> type = "ip" /\ h = CanonicalIp(e)
    BY <1>1, <1>6 DEF Covers, Types
  <2>2. Denotes(e, type, h) <=> type = "ip" /\ CanonicalIp(e) = h
    BY <1>6 DEF Denotes
  <2>3. QED
    BY <1>1, <2>1, <2>2
<1>7. CASE /\ e.form \notin {"wildcard", "range"} /\ CanonicalIp(e) = Invalid
           /\ c.type = "domain" /\ c.value = CanonicalDomain(e) /\ c.value # Invalid
  <2>1. Covers(c, t) <=> type = "hostname" /\ h = c.value
    BY <1>1, <1>7 DEF Covers, Types
  <2>2. c.value = NamesOf(e.labels)
    BY <1>7, NamesAre DEF NotationFits
  <2>3. Denotes(e, type, h) <=> type = "hostname" /\ c.value = h
    BY <1>7, <2>2 DEF Denotes, NamesOf
  <2>4. QED
    BY <1>1, <2>1, <2>3
<1>8. QED
  BY <1>4, <1>5, <1>6, <1>7, EntryIs
--------------------------------------------------------------------------------
(* The rows are of entries that have a canonical form. *)

ScopeInv ==
    /\ written \in Seq({e \in Notations : CanonicalEntry(e) # Invalid})
    /\ asked # Nothing => asked \in [raw : Notations, type : Types]

LEMMA NextKeepsScope == ScopeInv /\ [Next]_vars => ScopeInv'
<1> SUFFICES ASSUME ScopeInv, [Next]_vars
             PROVE  ScopeInv'
  OBVIOUS
<1>1. ASSUME NEW raw \in Notations, Enable(raw) PROVE ScopeInv'
  BY <1>1 DEF ScopeInv, Enable
<1>2. ASSUME NEW raw \in Notations, Respell(raw) PROVE ScopeInv'
  BY <1>2 DEF ScopeInv, Respell
<1>3. ASSUME NEW raw \in Notations, NEW type \in Types, Ask(raw, type) PROVE ScopeInv'
  BY <1>3 DEF ScopeInv, Ask
<1>4. CASE UNCHANGED vars
  BY <1>4 DEF ScopeInv, vars
<1>5. QED
  BY <1>1, <1>2, <1>3, <1>4 DEF Next

(* The invariant of the scope: what is enabled was valid, and the target one *)
(* that can be written.                                                      *)
THEOREM ScopeInductive == Spec => []ScopeInv
<1>1. Init => ScopeInv
  BY DEF Init, ScopeInv
<1>2. QED
  BY <1>1, NextKeepsScope, PTL DEF Spec

(* What the rows are. *)
LEMMA EntriesFit ==
    ASSUME ScopeInv
    PROVE  /\ Len(written) \in Nat /\ DOMAIN written = 1..Len(written)
           /\ DOMAIN Enabled = DOMAIN written
           /\ \A i \in DOMAIN written : /\ NotationFits(written[i])
                                        /\ Enabled[i] = CanonicalEntry(written[i])
                                        /\ Enabled[i] # Invalid
BY NotationsFit DEF ScopeInv, Enabled

(* What evaluate comes to: with no rows there is none to allow. *)
LEMMA DecisionIs ==
    ASSUME ScopeInv, NEW raw, NEW type
    PROVE  Evaluate(raw, type, Enabled) = "in_scope" <=>
              /\ CanonicalTarget(raw, type) # Invalid
              /\ \E i \in DOMAIN written : Covers(Enabled[i], CanonicalTarget(raw, type))
<1>1. Enabled = <<>> => DOMAIN written = {}
  BY EntriesFit
<1>2. DOMAIN Enabled = DOMAIN written
  BY EntriesFit
<1>3. QED
  BY <1>1, <1>2 DEF Evaluate

(* evaluate allows a target exactly if it is a valid one and some entry, by its *)
(* notation, stands for it, for any entries, labels and widths of addresses.    *)
THEOREM DecisionsMean == Spec => []DecisionsFollowMeaning
<1>1. ScopeInv => DecisionsFollowMeaning
  <2> SUFFICES ASSUME ScopeInv, asked # Nothing,
                      NEW t, t = CanonicalTarget(asked.raw, asked.type)
               PROVE  Decision = "in_scope" <=>
                         /\ t # Invalid
                         /\ \E i \in DOMAIN written :
                               Denotes(written[i], asked.type, t.value)
    BY DEF DecisionsFollowMeaning
  <2>1. asked.type \in Types /\ NotationFits(asked.raw)
    BY NotationsFit DEF ScopeInv
  <2>2. t # Invalid => \A i \in DOMAIN written :
           Covers(Enabled[i], t) <=> Denotes(written[i], asked.type, t.value)
    BY <2>1, EntriesFit, EntryDenotes
  <2>3. QED
    BY <2>2, DecisionIs DEF Decision
<1>2. QED
  BY <1>1, ScopeInductive, PTL

(* The places of the addresses that each entry may allow. *)
Places(i) == {i} \X (1..Widest(written[i]))

AllPlaces == UNION {Places(i) : i \in DOMAIN written}

(* The address at a place of an entry. *)
At(p) ==
    LET entry == Enabled[p[1]]
    IN  IF entry.type = "ip"
        THEN entry.value
        ELSE [version |-> entry.value.version, number |-> entry.value.number + (p[2] - 1)]

(* A range has no more places than its size at the floor. *)
LEMMA WidestIs ==
    ASSUME ScopeInv, NEW i \in DOMAIN written
    PROVE  /\ Widest(written[i]) \in Nat
           /\ Enabled[i].type # "cidr" => Widest(written[i]) = 1
           /\ Enabled[i].type = "cidr" =>
                 \E r : /\ r = Enabled[i].value
                        /\ r.size \in Nat \ {0} /\ r.size <= Widest(written[i])
<1>1. PICK e : e = written[i] /\ NotationFits(e)
               /\ Enabled[i] = CanonicalEntry(e) /\ Enabled[i] # Invalid
  BY EntriesFit
<1>2. CASE e.form # "range"
  <2>1. Widest(e) = 1
    BY <1>2 DEF Widest
  <2>2. Enabled[i].type # "cidr"
    BY <1>1, <1>2, EntryIs
  <2>3. QED
    BY <1>1, <2>1, <2>2
<1>3. CASE e.form = "range"
  <2>1. PICK r : /\ r = Enabled[i].value /\ r = CanonicalCidr(e) /\ r # Invalid
                 /\ Enabled[i].type = "cidr"
    BY <1>1, <1>3, EntryIs
  <2>2. PICK a : /\ a = Literal(e.base) /\ r.size \in Nat \ {0}
                 /\ 2^(Width(a.version) - MinPrefix(a.version)) \in Nat
                 /\ r.size <= 2^(Width(a.version) - MinPrefix(a.version))
    BY <1>1, <1>3, <2>1, RangeIs DEF NotationFits
  <2>3. Widest(e) = 2^(Width(a.version) - MinPrefix(a.version))
    BY <1>3, <2>2 DEF Widest
  <2>4. QED
    BY <1>1, <2>1, <2>2, <2>3
<1>4. QED
  BY <1>2, <1>3

(* There are as many places as numbers. *)
LEMMA PlacesAreFinite ==
    ASSUME ScopeInv
    PROVE  IsFiniteSet(AllPlaces)
<1> DEFINE places == [i \in DOMAIN written |-> Places(i)]
           All == {Places(i) : i \in DOMAIN written}
<1>1. ASSUME NEW i \in DOMAIN written PROVE IsFiniteSet(Places(i))
  <2>1. PICK w \in Nat : w = Widest(written[i])
    BY WidestIs
  <2>2. PICK S, T : S = {i} /\ T = 1..w
    OBVIOUS
  <2>3. IsFiniteSet(S)
    BY <2>2, FS_Singleton
  <2>4. IsFiniteSet(T)
    BY <2>2, FS_Interval
  <2>5. IsFiniteSet(S \X T)
    BY <2>3, <2>4, FS_Product
  <2>6. QED
    BY <2>1, <2>2, <2>5 DEF Places
<1>2. IsFiniteSet(DOMAIN written)
  BY EntriesFit, FS_Interval
<1>3. places \in Surjection(DOMAIN written, All)
  BY DEF Surjection
<1>4. IsFiniteSet(All)
  BY <1>2, <1>3, FS_Surjection
<1>5. \A P \in All : IsFiniteSet(P)
  BY <1>1
<1> HIDE DEF All
<1>6. IsFiniteSet(UNION All)
  BY <1>4, <1>5, FS_UNION
<1>7. QED
  BY <1>6 DEF All, AllPlaces

(* Every address allowed is at a place. *)
LEMMA AllowedAreAt ==
    ASSUME ScopeInv, NEW a \in AllowedAddresses
    PROVE  \E p \in AllPlaces : a = At(p)
<1>1. PICK raw \in Notations : a = CanonicalIp(raw) /\ Allows(raw, "ip", Enabled)
  BY DEF AllowedAddresses
<1>2. PICK t : t = CanonicalTarget(raw, "ip")
  OBVIOUS
<1>3. PICK i \in DOMAIN written : t # Invalid /\ Covers(Enabled[i], t)
  BY <1>1, <1>2, DecisionIs DEF Allows
<1>4. t.type = "ip" /\ t.value = a /\ a # Invalid
  BY <1>1, <1>2, <1>3, TargetIs DEF Types
<1>5. IsAddress(a)
  BY <1>1, <1>4, AddressIs, NotationsFit
<1>6. \A k \in 1..Widest(written[i]) : <<i, k>> \in AllPlaces
  BY DEF AllPlaces, Places
<1>7. CASE Enabled[i].type = "ip" /\ a = Enabled[i].value
  <2>1. <<i, 1>> \in AllPlaces
    BY <1>6, <1>7, WidestIs
  <2>2. At(<<i, 1>>) = a
    BY <1>7 DEF At
  <2>3. QED
    BY <2>1, <2>2
<1>8. CASE Enabled[i].type = "cidr" /\ Within(a, Enabled[i].value)
  <2>1. PICK r : /\ r = Enabled[i].value
                 /\ r.size \in Nat \ {0} /\ r.size <= Widest(written[i])
    BY <1>8, WidestIs
  <2>2. /\ a.version = r.version
        /\ a.number - (a.number % r.size) = r.number
    BY <1>8, <2>1 DEF Within
  <2>3. PICK k : k = (a.number % r.size) + 1
    OBVIOUS
  <2>4. a.number % r.size \in 0..(r.size - 1)
    BY <1>5, <2>1, Division DEF IsAddress
  <2>5. k \in 1..Widest(written[i])
    BY <2>1, <2>3, <2>4, WidestIs
  <2>6. r.number + (k - 1) = a.number
    BY <1>5, <2>2, <2>3, <2>4 DEF IsAddress
  <2>7. At(<<i, k>>) = [version |-> r.version, number |-> r.number + (k - 1)]
    BY <1>8, <2>1 DEF At
  <2>8. At(<<i, k>>) = a
    BY <1>5, <2>2, <2>6, <2>7 DEF IsAddress
  <2>9. QED
    BY <1>6, <2>5, <2>8
<1>9. QED
  BY <1>3, <1>4, <1>7, <1>8 DEF Covers

(* The entries together allow no more addresses than their places: one each, or    *)
(* the size of a range at MIN_IPV4_PREFIX or MIN_IPV6_PREFIX, whatever is written. *)
THEOREM BreadthBounded == Spec => []BreadthIsBounded
<1>1. ScopeInv => BreadthIsBounded
  <2> SUFFICES ASSUME ScopeInv
               PROVE  Cardinality(AllowedAddresses) <= Cardinality(AllPlaces)
    BY DEF BreadthIsBounded, AllPlaces, Places
  <2> DEFINE Addresses == {At(p) : p \in AllPlaces}
             at == [p \in AllPlaces |-> At(p)]
  <2>1. IsFiniteSet(AllPlaces)
    BY PlacesAreFinite
  <2>2. at \in Surjection(AllPlaces, Addresses)
    BY DEF Surjection
  <2>3. IsFiniteSet(Addresses) /\ Cardinality(Addresses) <= Cardinality(AllPlaces)
    BY <2>1, <2>2, FS_Surjection
  <2>4. AllowedAddresses \in SUBSET Addresses
    BY AllowedAreAt
  <2> HIDE DEF Addresses
  <2>5. /\ IsFiniteSet(AllowedAddresses)
        /\ Cardinality(AllowedAddresses) <= Cardinality(Addresses)
    BY <2>3, <2>4, FS_Subset
  <2>6. QED
    BY <2>1, <2>3, <2>5, FS_CardinalityType
<1>2. QED
  BY <1>1, ScopeInductive, PTL
--------------------------------------------------------------------------------
(* Folding leaves octets alone: two quads with the same names are the same. *)

LEMMA SameQuad ==
    ASSUME NEW k, NEW l, k \in Seq(DOMAIN Fold), l \in Seq(DOMAIN Fold),
           IsQuad(k), IsQuad(l),
           \A i \in DOMAIN k : Fold[k[i]] = Fold[l[i]]
    PROVE  k = l
<1>1. Len(k) = Octets /\ Len(l) = Octets
  BY DEF IsQuad
<1>2. \A i \in 1..Octets : k[i] = l[i]
  <2>1. \A s \in DOMAIN Octet : Fold[s] = s
    BY RulesAssumption
  <2>2. DOMAIN k = 1..Octets
    BY <1>1
  <2>3. QED
    BY <2>1, <2>2 DEF IsQuad
<1>3. k = [i \in 1..Octets |-> k[i]] /\ l = [i \in 1..Octets |-> l[i]]
  BY <1>1
<1>4. QED
  BY <1>2, <1>3

(* An address that is not written in brackets. *)
LEMMA PlainAddress ==
    ASSUME NEW e, NotationFits(e), e.form # "brackets", CanonicalIp(e) # Invalid
    PROVE  \E a : /\ a = Literal(e) /\ a # Invalid
                  /\ CanonicalIp(e) =
                        IF a.version = 6 /\ a.number \div (2^Bits4) = MappedTop
                        THEN [version |-> 4, number |-> a.number % (2^Bits4)]
                        ELSE a
BY DEF CanonicalIp

(* Notations of one host have the same canonical target, if they have one. *)
LEMMA SameHostSameTarget ==
    ASSUME NEW t, NotationFits(t), NEW u, NotationFits(u), SameHost(t, u),
           NEW type \in Types,
           CanonicalTarget(t, type) # Invalid, CanonicalTarget(u, type) # Invalid
    PROVE  CanonicalTarget(t, type) = CanonicalTarget(u, type)
<1>1. CASE /\ t.form = "dotted" /\ u.form = "dotted"
           /\ Len(t.labels) = Len(u.labels)
           /\ \A i \in DOMAIN t.labels : Fold[t.labels[i]] = Fold[u.labels[i]]
  <2>1. t.labels \in Seq(DOMAIN Fold) /\ u.labels \in Seq(DOMAIN Fold)
    BY <1>1 DEF NotationFits, LiteralFits
  <2>2. CASE type = "hostname"
    <3>1. CanonicalDomain(t) # Invalid /\ CanonicalDomain(u) # Invalid
      BY <2>2 DEF CanonicalTarget, Typed
    <3>2. CanonicalDomain(t) = NamesOf(t.labels) /\ CanonicalDomain(u) = NamesOf(u.labels)
      BY <3>1, NamesAre DEF NotationFits
    <3>3. DOMAIN t.labels = DOMAIN u.labels
      BY <1>1, <2>1
    <3>4. NamesOf(t.labels) = NamesOf(u.labels)
      BY <1>1, <3>3 DEF NamesOf
    <3>5. QED
      BY <2>2, <3>2, <3>4 DEF CanonicalTarget
  <2>3. CASE type = "ip"
    <3>1. CanonicalIp(t) # Invalid /\ CanonicalIp(u) # Invalid
      BY <2>3 DEF CanonicalTarget, Typed
    <3>2. PICK a, b : /\ a = Literal(t) /\ a # Invalid /\ b = Literal(u) /\ b # Invalid
                      /\ a.version # 6 => CanonicalIp(t) = a
                      /\ b.version # 6 => CanonicalIp(u) = b
      BY <1>1, <3>1, PlainAddress
    <3>3. /\ IsAddress(a) /\ a.version = 4 /\ a.number = QuadValue(t.labels)
          /\ IsAddress(b) /\ b.version = 4 /\ b.number = QuadValue(u.labels)
          /\ IsQuad(t.labels) /\ IsQuad(u.labels)
      BY <1>1, <3>2, LiteralIs DEF NotationFits
    <3>4. t.labels = u.labels
      BY <1>1, <2>1, <3>3, SameQuad
    <3>5. a = b
      BY <3>3, <3>4 DEF IsAddress
    <3>6. QED
      BY <2>3, <3>2, <3>3, <3>5 DEF CanonicalTarget
  <2>4. QED
    BY <2>2, <2>3 DEF Types
<1>2. CASE /\ t.form = "dotted" /\ u.form = "colons" /\ Literal(t) # Invalid
           /\ u.number = MappedTop * (2^Bits4) + Literal(t).number
  <2>1. type = "ip"
    <3>1. CanonicalDomain(u) = Invalid
      BY <1>2 DEF CanonicalDomain
    <3>2. QED
      BY <3>1 DEF CanonicalTarget, Typed, Types
  <2>2. CanonicalIp(t) # Invalid /\ CanonicalIp(u) # Invalid
    BY <2>1 DEF CanonicalTarget, Typed
  <2>3. PICK a : /\ a = Literal(t) /\ a # Invalid
                 /\ a.version # 6 => CanonicalIp(t) = a
    BY <1>2, <2>2, PlainAddress
  <2>4. PICK b : /\ b = Literal(u) /\ b # Invalid
                 /\ b.version = 6 /\ b.number \div (2^Bits4) = MappedTop =>
                       CanonicalIp(u) = [version |-> 4, number |-> b.number % (2^Bits4)]
    BY <1>2, <2>2, PlainAddress
  <2>5. IsAddress(a) /\ a.version = 4 /\ a.number \in 0..(2^Bits4 - 1)
    BY <1>2, <2>3, LiteralIs DEF NotationFits
  <2>6. b.version = 6 /\ b.number = u.number
    BY <1>2, <2>4, LiteralIs DEF NotationFits
  <2>7. b.number = MappedTop * (2^Bits4) + a.number
    BY <1>2, <2>3, <2>6
  <2>8. 2^Bits4 \in Nat \ {0} /\ MappedTop \in Nat
    BY RulesAssumption, Powers DEF Bits4
  <2>9. b.number \div (2^Bits4) = MappedTop /\ b.number % (2^Bits4) = a.number
    <3>1. PICK m \in Nat, d \in Nat \ {0}, r \in Nat :
              /\ m = MappedTop /\ d = 2^Bits4 /\ r = a.number
              /\ r \in 0..(d - 1)
      BY <2>5, <2>8
    <3>2. b.number = m * d + r
      BY <2>7, <3>1
    <3>3. (m * d + r) \div d = m /\ (m * d + r) % d = r
      BY <3>1, PutTogether
    <3>4. QED
      BY <3>1, <3>2, <3>3
  <2>10. CanonicalIp(u) = a
    BY <2>4, <2>5, <2>6, <2>9 DEF IsAddress
  <2>11. QED
    BY <2>1, <2>3, <2>5, <2>10 DEF CanonicalTarget
<1>3. QED
  BY <1>1, <1>2 DEF SameHost

(* A host is decided alike however it is written: in other spellings of its *)
(* labels, or as an IPv4-mapped address.                                    *)
THEOREM NotationsAlike == Spec => NotationsCollapse
<1> DEFINE Alike == asked # Nothing /\ "invalid_target" \notin {Decision, Decision'} =>
                       Decision' = Decision
<1>1. ScopeInv /\ ScopeInv' /\ [Next]_vars => [Alike]_vars
  <2> SUFFICES ASSUME ScopeInv, ScopeInv', Next, asked # Nothing,
                      Decision # "invalid_target", Decision' # "invalid_target"
               PROVE  Decision' = Decision
    OBVIOUS
  <2>1. PICK raw \in Notations : Respell(raw)
    BY DEF Next, Enable, Ask
  <2>2. PICK t \in Notations, type \in Types :
            /\ t = asked.raw /\ type = asked.type /\ SameHost(t, raw)
            /\ raw = asked'.raw /\ type = asked'.type
    <3>1. asked \in [raw : Notations, type : Types]
      BY DEF ScopeInv
    <3>2. asked'.raw = raw /\ asked'.type = asked.type
      BY <2>1, <3>1 DEF Respell
    <3>3. SameHost(asked.raw, raw)
      BY <2>1 DEF Respell
    <3>4. asked.raw \in Notations /\ asked.type \in Types
      BY <3>1
    <3>5. QED
      BY <3>2, <3>3, <3>4
  <2>3. Enabled' = Enabled
    BY <2>1 DEF Respell, Enabled
  <2>4. Decision = Evaluate(t, type, Enabled) /\ Decision' = Evaluate(raw, type, Enabled)
    BY <2>2, <2>3 DEF Decision
  <2>5. CanonicalTarget(t, type) # Invalid /\ CanonicalTarget(raw, type) # Invalid
    BY <2>4 DEF Evaluate
  <2>6. CanonicalTarget(t, type) = CanonicalTarget(raw, type)
    BY <2>2, <2>5, NotationsFit, SameHostSameTarget
  <2>7. QED
    BY <2>4, <2>6 DEF Evaluate
<1>2. QED
  BY <1>1, ScopeInductive, PTL DEF Spec, NotationsCollapse
--------------------------------------------------------------------------------
(* Scans: the ports, the words of the command, and the invariant. *)

Upto(S, p) == {q \in S : q <= p}

(* A larger element of a set of numbers has more elements up to it. *)
LEMMA UptoGrows ==
    ASSUME NEW S \in SUBSET Nat, IsFiniteSet(S)
    PROVE  /\ \A p \in S : Cardinality(Upto(S, p)) \in 1..Cardinality(S)
           /\ \A p, q \in S : p < q => Cardinality(Upto(S, p)) < Cardinality(Upto(S, q))
<1>1. ASSUME NEW p \in S
      PROVE  IsFiniteSet(Upto(S, p)) /\ Cardinality(Upto(S, p)) \in 1..Cardinality(S)
  <2>1. Upto(S, p) \in SUBSET S /\ p \in Upto(S, p)
    BY DEF Upto
  <2>2. IsFiniteSet(Upto(S, p)) /\ Cardinality(Upto(S, p)) <= Cardinality(S)
    BY <2>1, FS_Subset
  <2>3. Cardinality(Upto(S, p)) \in Nat /\ Cardinality(Upto(S, p)) # 0
    BY <2>1, <2>2, FS_CardinalityType, FS_EmptySet
  <2>4. QED
    BY <2>2, <2>3, FS_CardinalityType
<1>2. ASSUME NEW p \in S, NEW q \in S, p < q
      PROVE  Cardinality(Upto(S, p)) < Cardinality(Upto(S, q))
  <2>1. Upto(S, p) \in SUBSET Upto(S, q) /\ Upto(S, p) # Upto(S, q)
    <3>1. \A r \in S : r <= p => r <= q
      BY <1>2
    <3>2. q \in Upto(S, q) /\ q \notin Upto(S, p)
      BY <1>2 DEF Upto
    <3>3. QED
      BY <3>1, <3>2 DEF Upto
  <2>2. /\ Cardinality(Upto(S, p)) <= Cardinality(Upto(S, q))
        /\ Cardinality(Upto(S, p)) # Cardinality(Upto(S, q))
    BY <1>1, <2>1, FS_Subset
  <2>3. QED
    BY <1>1, <2>2
<1>3. QED
  BY <1>1, <1>2

(* Every place up to the size of the set has an element that counts to it. *)
LEMMA PlacesAreTaken ==
    ASSUME NEW S \in SUBSET Nat, IsFiniteSet(S), NEW i \in 1..Cardinality(S)
    PROVE  \E p \in S : Cardinality(Upto(S, p)) = i
<1> DEFINE n == Cardinality(S)
           place == [p \in S |-> Cardinality(Upto(S, p))]
<1>1. place \in [S -> 1..n]
  BY UptoGrows
<1>2. ASSUME NEW p \in S, NEW q \in S, place[p] = place[q]
      PROVE  p = q
  <2>1. Cardinality(Upto(S, p)) = Cardinality(Upto(S, q))
    BY <1>2
  <2>2. /\ Cardinality(Upto(S, p)) \in Nat
        /\ ~(p < q) /\ ~(q < p)
    BY <2>1, UptoGrows
  <2>3. QED
    BY <2>2
<1>3. place \in Injection(S, 1..n)
  BY <1>1, <1>2 DEF Injection, IsInjective
<1>4. n \in Nat /\ IsFiniteSet(1..n) /\ Cardinality(1..n) = n
  BY FS_CardinalityType, FS_Interval
<1>5. place \in Surjection(S, 1..n)
  BY <1>3, <1>4, FS_Injection
<1>6. \E p \in S : place[p] = i
  BY <1>5 DEF Surjection
<1>7. QED
  BY <1>6

(* Ascending has the elements of a finite set of numbers, in order. *)
LEMMA AscendingOrders ==
    ASSUME NEW S \in SUBSET Nat, IsFiniteSet(S)
    PROVE  /\ Ascending(S) \in Seq(S)
           /\ Range(Ascending(S)) = S
           /\ \A i, j \in DOMAIN Ascending(S) : i < j => Ascending(S)[i] < Ascending(S)[j]
<1> DEFINE n == Cardinality(S)
           A == Ascending(S)
<1>1. n \in Nat
  BY FS_CardinalityType
<1>2. A = [i \in 1..n |-> CHOOSE p \in S : Cardinality(Upto(S, p)) = i]
  BY DEF Ascending, Upto
<1> HIDE DEF A
<1>3. ASSUME NEW i \in 1..n
      PROVE  A[i] \in S /\ Cardinality(Upto(S, A[i])) = i
  <2>1. A[i] = CHOOSE p \in S : Cardinality(Upto(S, p)) = i
    BY <1>2
  <2>2. QED
    BY <2>1, PlacesAreTaken
<1>4. A \in Seq(S) /\ DOMAIN A = 1..n
  <2>1. DOMAIN A = 1..n /\ A \in [1..n -> S]
    BY <1>2, <1>3
  <2>2. QED
    BY <1>1, <2>1
<1>5. ASSUME NEW i \in 1..n, NEW j \in 1..n, i < j
      PROVE  A[i] < A[j]
  <2>1. /\ A[i] \in S /\ Cardinality(Upto(S, A[i])) = i
        /\ A[j] \in S /\ Cardinality(Upto(S, A[j])) = j
    BY <1>3
  <2>2. PICK p \in S, q \in S : p = A[i] /\ q = A[j]
    BY <2>1
  <2>3. p # q /\ ~(q < p)
    BY <1>1, <1>5, <2>1, <2>2, UptoGrows
  <2>4. QED
    BY <2>2, <2>3
<1>6. ASSUME NEW p \in S
      PROVE  p \in Range(A)
  <2>1. PICK i \in 1..n : i = Cardinality(Upto(S, p))
    BY UptoGrows
  <2>2. PICK q \in S : q = A[i] /\ Cardinality(Upto(S, q)) = i
    BY <1>3
  <2>3. ~(q < p) /\ ~(p < q)
    BY <1>1, <2>1, <2>2, UptoGrows
  <2>4. A[i] = p
    BY <2>2, <2>3
  <2>5. QED
    BY <1>4, <2>4 DEF Range
<1>7. Range(A) \subseteq S
  BY <1>3, <1>4 DEF Range
<1>8. QED
  BY <1>4, <1>5, <1>6, <1>7 DEF A
--------------------------------------------------------------------------------
(* The segments of a port text, and the ports that all of them mean. *)

Segments == Seq(Seq(Words)) \ {<<>>}

Meant(spec) == {p \in AllPorts : \E i \in DOMAIN spec : Means(spec[i], p)}

(* A sequence that is shorter than two is empty, or has one member. *)
LEMMA ShortIs ==
    ASSUME NEW S, NEW s \in Seq(S), Len(s) <= 1
    PROVE  \/ s = <<>> /\ Len(s) = 0
           \/ s # <<>> /\ Len(s) = 1 /\ s = <<s[1]>> /\ DOMAIN s = {1} /\ s[1] \in S
<1>1. Len(s) \in Nat /\ DOMAIN s = 1..Len(s) /\ s = [i \in 1..Len(s) |-> s[i]]
  OBVIOUS
<1>2. CASE Len(s) = 0
  BY <1>1, <1>2
<1>3. CASE Len(s) = 1
  <2>1. DOMAIN s = {1} /\ s[1] \in S
    BY <1>1, <1>3
  <2>2. s = <<s[1]>>
    BY <1>1, <1>3
  <2>3. s # <<>>
    BY <1>3
  <2>4. QED
    BY <1>3, <2>1, <2>2, <2>3
<1>4. QED
  BY <1>1, <1>2, <1>3

(* What a sequence is. *)
LEMMA ItsMembers ==
    ASSUME NEW S, NEW s \in Seq(S)
    PROVE  s = [i \in 1..Len(s) |-> s[i]] /\ DOMAIN s = 1..Len(s)
OBVIOUS

(* A function on the first numbers is a sequence. *)
LEMMA NumberedIs ==
    ASSUME NEW n \in Nat, NEW S, NEW f \in [1..n -> S]
    PROVE  f \in Seq(S) /\ Len(f) = n
OBVIOUS

(* A piece of one word is read as that word's number. *)
LEMMA NumberOfWord ==
    ASSUME NEW word
    PROVE  Number(<<word>>) = word.number
<1> DEFINE piece == <<word>>
           upto[i \in DOMAIN piece] ==
               IF i = 1 THEN piece[1].number
                        ELSE upto[i - 1] * piece[i].shift + piece[i].number
           Fits(f) == f = [i \in DOMAIN piece |->
                              IF i = 1 THEN piece[1].number
                              ELSE f[i - 1] * piece[i].shift + piece[i].number]
           alone == [i \in DOMAIN piece |-> word.number]
<1>1. DOMAIN piece = {1} /\ piece[1] = word /\ Len(piece) = 1
  OBVIOUS
<1>2. Fits(alone)
  BY <1>1
<1>3. upto = CHOOSE f : Fits(f)
  OBVIOUS
<1>4. Fits(upto)
  <2> HIDE DEF upto, Fits, alone
  <2>1. QED
    BY <1>2, <1>3
<1>5. Number(piece) = upto[Len(piece)]
  BY DEF Number
<1> HIDE DEF upto
<1>6. upto[1] = word.number
  BY <1>1, <1>4
<1>7. QED
  BY <1>1, <1>5, <1>6

(* What is not refused has ports between two numbers, both of them ports. *)
LEMMA SegmentPorts ==
    ASSUME NEW segment \in Segments, ~Refused(segment)
    PROVE  PortsOf(segment) \in SUBSET AllPorts
<1>1. Len(segment) \in Nat \ {0} /\ DOMAIN segment = 1..Len(segment)
  BY DEF Segments
<1>2. \A i \in DOMAIN segment : Number(segment[i]) \in AllPorts
  BY DEF Refused
<1>3. Number(segment[1]) \in AllPorts /\ Number(Last(segment)) \in AllPorts
  BY <1>1, <1>2 DEF Last
<1>4. QED
  BY <1>3, CommandsAssumption DEF PortsOf, AllPorts

(* Without blanks parse_port_spec refuses a segment exactly if it means no port. *)
LEMMA SegmentsMean ==
    ASSUME NEW segment \in Segments, \A i \in DOMAIN segment : Len(segment[i]) <= 1
    PROVE  /\ Refused(segment) <=> \A p \in AllPorts : ~Means(segment, p)
           /\ ~Refused(segment) => PortsOf(segment) = {p \in AllPorts : Means(segment, p)}
<1> DEFINE n == Len(segment)
           first == segment[1][1].number
           last == segment[n][1].number
           IsPort(piece) == Len(piece) = 1 /\ piece[1].shift > 0 /\ piece[1].number \in AllPorts
           Plain == n <= 2 /\ \A i \in 1..n : IsPort(segment[i])
<1>1. n \in Nat \ {0} /\ DOMAIN segment = 1..n
  BY DEF Segments
<1>2. MaxPort \in Nat
  BY CommandsAssumption
<1>3. ASSUME NEW i \in 1..n
      PROVE  /\ IsNumber(segment[i]) /\ Number(segment[i]) \in AllPorts <=> IsPort(segment[i])
             /\ IsPort(segment[i]) => Number(segment[i]) = segment[i][1].number
  <2>1. PICK piece : piece = segment[i] /\ piece \in Seq(Words) /\ Len(piece) <= 1
    <3>1. i \in DOMAIN segment /\ i \in 1..Len(segment)
      BY <1>1
    <3>2. segment[i] \in Seq(Words)
      BY <3>1 DEF Segments
    <3>3. Len(segment[i]) <= 1
      BY <3>1
    <3>4. QED
      BY <3>2, <3>3
  <2>2. CASE piece = <<>>
    <3>1. Len(piece) = 0
      BY <2>2
    <3>2. ~IsNumber(piece)
      BY <2>2 DEF IsNumber
    <3>3. QED
      BY <2>1, <3>1, <3>2
  <2>3. CASE piece # <<>>
    <3>1. Len(piece) = 1 /\ piece = <<piece[1]>> /\ DOMAIN piece = {1}
      BY <2>1, <2>3, ShortIs
    <3>2. Number(piece) = piece[1].number
      BY <3>1, NumberOfWord
    <3>3. IsNumber(piece) <=> piece[1].shift > 0
      BY <2>3, <3>1 DEF IsNumber
    <3>4. QED
      BY <2>1, <3>1, <3>2, <3>3
  <2>4. QED
    BY <2>2, <2>3
<1>4. Plain => /\ Number(segment[1]) = first /\ Number(Last(segment)) = last
               /\ first \in AllPorts /\ last \in AllPorts
  <2>1. 1 \in 1..n /\ n \in 1..n /\ Last(segment) = segment[n]
    BY <1>1 DEF Last
  <2>2. QED
    BY <1>3, <2>1
<1>5. Refused(segment) <=> ~Plain \/ Number(segment[1]) > Number(Last(segment))
  BY <1>1, <1>3 DEF Refused
<1>6. \A p : Means(segment, p) <=> Plain /\ first <= p /\ p <= last
  BY <1>1 DEF Means
<1>7. PortsOf(segment) = Number(segment[1])..Number(Last(segment))
  BY DEF PortsOf
<1> HIDE DEF Plain, first, last, n
<1>8. Refused(segment) <=> \A p \in AllPorts : ~Means(segment, p)
  <2>1. CASE Plain
    <3>1. first \in AllPorts /\ last \in AllPorts
      BY <1>4, <2>1
    <3>2. CASE first > last
      BY <1>2, <1>4, <1>5, <1>6, <2>1, <3>1, <3>2 DEF AllPorts
    <3>3. CASE ~(first > last)
      <4>1. Means(segment, first)
        BY <1>2, <1>6, <2>1, <3>1, <3>3 DEF AllPorts
      <4>2. QED
        BY <1>4, <1>5, <2>1, <3>1, <3>3, <4>1
    <3>4. QED
      BY <3>2, <3>3
  <2>2. CASE ~Plain
    BY <1>5, <1>6, <2>2
  <2>3. QED
    BY <2>1, <2>2
<1>9. ASSUME ~Refused(segment)
      PROVE  PortsOf(segment) = {p \in AllPorts : Means(segment, p)}
  <2>1. Plain /\ first \in AllPorts /\ last \in AllPorts
    BY <1>4, <1>5, <1>9
  <2>2. \A p : p \in first..last <=> p \in AllPorts /\ first <= p /\ p <= last
    BY <1>2, <2>1 DEF AllPorts
  <2>3. QED
    BY <1>4, <1>6, <1>7, <2>1, <2>2
<1>10. QED
  BY <1>8, <1>9

(* A text that is not refused makes a list of ports, each once and in order. *)
LEMMA ParsedInOrder ==
    ASSUME NEW spec \in PortTexts, ParsePortSpec(spec) # Absent
    PROVE  /\ \A i \in DOMAIN spec : ~Refused(spec[i])
           /\ Range(ParsePortSpec(spec)) = UNION {PortsOf(spec[i]) : i \in DOMAIN spec}
           /\ Range(ParsePortSpec(spec)) \subseteq AllPorts
           /\ \A i, j \in DOMAIN ParsePortSpec(spec) :
                 i < j => ParsePortSpec(spec)[i] < ParsePortSpec(spec)[j]
<1> DEFINE ports == UNION {PortsOf(spec[i]) : i \in DOMAIN spec}
<1>1. \A i \in DOMAIN spec : spec[i] \in Segments
  BY DEF PortTexts, Segments
<1>2. \A i \in DOMAIN spec : ~Refused(spec[i])
  BY DEF ParsePortSpec
<1>3. ParsePortSpec(spec) = Ascending(ports)
  BY <1>2 DEF ParsePortSpec
<1>4. ports \in SUBSET AllPorts
  BY <1>1, <1>2, SegmentPorts
<1>5. AllPorts \in SUBSET Nat /\ IsFiniteSet(AllPorts)
  BY CommandsAssumption, FS_Interval DEF AllPorts
<1>6. PICK S : S = ports /\ S \in SUBSET Nat /\ IsFiniteSet(S)
  <2> HIDE DEF ports
  <2>1. QED
    BY <1>4, <1>5, FS_Subset
<1>7. /\ Range(Ascending(S)) = S
      /\ \A i, j \in DOMAIN Ascending(S) : i < j => Ascending(S)[i] < Ascending(S)[j]
  BY <1>6, AscendingOrders
<1>8. QED
  BY <1>2, <1>3, <1>4, <1>6, <1>7

(* It is a list, which is how one can tell it from a refusal. *)
LEMMA ParsedUnlessRefused ==
    ASSUME NEW spec \in PortTexts, \A i \in DOMAIN spec : ~Refused(spec[i])
    PROVE  ParsePortSpec(spec) # Absent
<1> DEFINE ports == UNION {PortsOf(spec[i]) : i \in DOMAIN spec}
<1>1. \A i \in DOMAIN spec : spec[i] \in Segments
  BY DEF PortTexts, Segments
<1>2. ports \in SUBSET AllPorts
  BY <1>1, SegmentPorts
<1>3. AllPorts \in SUBSET Nat /\ IsFiniteSet(AllPorts)
  BY CommandsAssumption, FS_Interval DEF AllPorts
<1>4. PICK S : S = ports /\ S \in SUBSET AllPorts /\ S \in SUBSET Nat /\ IsFiniteSet(S)
  BY <1>2, <1>3, FS_Subset
<1>5. Ascending(S) \in Seq(S)
  BY <1>4, AscendingOrders
<1>6. Ascending(S) \in Seq(AllPorts)
  BY <1>4, <1>5
<1>7. ParsePortSpec(spec) = Ascending(S)
  BY <1>4 DEF ParsePortSpec
<1>8. QED
  BY <1>6, <1>7, CommandsAssumption

(* What parse_port_spec makes of a text without blanks: the ports meant, or nothing. *)
LEMMA Parsed ==
    ASSUME NEW spec \in PortTexts, ~Spaced(spec)
    PROVE  /\ ParsePortSpec(spec) # Absent <=>
                  \A i \in DOMAIN spec : \E p \in AllPorts : Means(spec[i], p)
           /\ ParsePortSpec(spec) # Absent => Range(ParsePortSpec(spec)) = Meant(spec)
<1>1. ASSUME NEW i \in DOMAIN spec
      PROVE  /\ Refused(spec[i]) <=> \A p \in AllPorts : ~Means(spec[i], p)
             /\ ~Refused(spec[i]) =>
                   PortsOf(spec[i]) = {p \in AllPorts : Means(spec[i], p)}
  <2>1. spec[i] \in Segments
    BY DEF PortTexts, Segments
  <2>2. \A j \in DOMAIN spec[i] : Len(spec[i][j]) <= 1
    <3>1. ASSUME NEW j \in DOMAIN spec[i] PROVE Len(spec[i][j]) \in Nat
      BY <2>1 DEF Segments
    <3>2. QED
      BY <3>1 DEF Spaced
  <2>3. QED
    BY <2>1, <2>2, SegmentsMean
<1>2. ParsePortSpec(spec) # Absent <=> \A i \in DOMAIN spec : ~Refused(spec[i])
  BY ParsedInOrder, ParsedUnlessRefused
<1>3. ASSUME ParsePortSpec(spec) # Absent
      PROVE  Range(ParsePortSpec(spec)) = Meant(spec)
  <2>1. UNION {PortsOf(spec[i]) : i \in DOMAIN spec} = Meant(spec)
    BY <1>1, <1>2, <1>3 DEF Meant
  <2>2. QED
    BY <1>3, <2>1, ParsedInOrder
<1>4. QED
  BY <1>1, <1>2, <1>3

(* The text of a step that joins ports means these ports. *)
LEMMA JoinedMeans ==
    ASSUME NEW ports \in SUBSET AllPorts
    PROVE  /\ Joined(ports) \in PortTexts
           /\ ~Spaced(Joined(ports))
           /\ \A i \in DOMAIN Joined(ports) : \E p \in AllPorts : Means(Joined(ports)[i], p)
           /\ Meant(Joined(ports)) = ports
<1>1. MaxPort \in Nat /\ AllPorts \in SUBSET Nat /\ IsFiniteSet(ports)
  <2>1. MaxPort \in Nat /\ AllPorts \in SUBSET Nat /\ IsFiniteSet(AllPorts)
    BY CommandsAssumption, FS_Interval DEF AllPorts
  <2>2. QED
    BY <2>1, FS_Subset
<1>2. PICK A : A = Ascending(ports) /\ A \in Seq(ports) /\ Range(A) = ports
  BY <1>1, AscendingOrders
<1>3. Joined(ports) = [i \in 1..Len(A) |-> <<<<Word(A[i])>>>>]
  BY <1>2 DEF Joined
<1>4. \A i \in 1..Len(A) : A[i] \in ports /\ A[i] \in AllPorts
  BY <1>2
<1>5. ASSUME NEW n \in AllPorts
      PROVE  /\ <<<<Word(n)>>>> \in Segments
             /\ \A i \in DOMAIN <<<<Word(n)>>>> : Len(<<<<Word(n)>>>>[i]) = 1
             /\ \A p \in AllPorts : Means(<<<<Word(n)>>>>, p) <=> p = n
  <2>1. n \in Nat /\ Shift[n] \in Nat \ {0}
    BY <1>1, CommandsAssumption
  <2>2. \A p \in AllPorts : n <= p /\ p <= n <=> p = n
    BY <1>1, <2>1
  <2>3. PICK w \in Words : w = Word(n) /\ w.number = n /\ w.shift > 0
    <3>1. Word(n) = [number |-> n, shift |-> Shift[n]]
      BY DEF Word
    <3>2. Word(n) \in Words /\ Word(n).number = n /\ Word(n).shift > 0
      BY <2>1, <3>1 DEF Words
    <3>3. QED
      BY <3>2
  <2>4. <<<<w>>>> \in Segments
    BY DEF Segments
  <2>5. QED
    BY <2>1, <2>2, <2>3, <2>4 DEF Means
<1>6. Joined(ports) \in PortTexts
  <2>1. \A i \in 1..Len(A) : <<<<Word(A[i])>>>> \in Segments
    BY <1>4, <1>5
  <2>2. Len(A) \in Nat
    BY <1>2
  <2>3. QED
    BY <1>3, <2>1, <2>2 DEF PortTexts, Segments
<1>7. DOMAIN Joined(ports) = 1..Len(A) /\ DOMAIN A = 1..Len(A)
  BY <1>2, <1>3
<1>8. ASSUME NEW i \in 1..Len(A)
      PROVE  /\ \A p \in AllPorts : Means(Joined(ports)[i], p) <=> p = A[i]
             /\ \A j \in DOMAIN Joined(ports)[i] : Len(Joined(ports)[i][j]) = 1
  <2>1. PICK n \in AllPorts : n = A[i] /\ Joined(ports)[i] = <<<<Word(n)>>>>
    BY <1>3, <1>4
  <2>2. QED
    BY <1>5, <2>1
<1>9. Meant(Joined(ports)) = ports
  <2>1. Meant(Joined(ports)) = {p \in AllPorts : \E i \in 1..Len(A) : p = A[i]}
    BY <1>7, <1>8 DEF Meant
  <2>2. ports = {A[i] : i \in 1..Len(A)}
    BY <1>2, <1>7 DEF Range
  <2>3. QED
    BY <2>1, <2>2
<1>10. ~Spaced(Joined(ports))
  <2>1. ~(1 > 1)
    OBVIOUS
  <2>2. QED
    BY <1>7, <1>8, <2>1 DEF Spaced
<1>11. QED
  BY <1>4, <1>6, <1>7, <1>8, <1>9, <1>10

(* What the recursion says of the kinds of words. *)
KindsFit(words, kinds) ==
    /\ Len(words) \in Nat /\ DOMAIN words = 1..Len(words)
    /\ kinds = [i \in 1..Len(words) |-> kinds[i]]
    /\ \A i \in 1..Len(words) : kinds[i] =
           IF i = 1 THEN "executable"
           ELSE IF kinds[i - 1] = "flag" /\ words[i - 1] \in ValueFlags THEN "value"
           ELSE IF i = Len(words) /\ words[i] \notin NmapFlags THEN "target"
           ELSE "flag"

(* Nothing else fits it. *)
LEMMA KindsAre ==
    ASSUME NEW words, NEW kinds, KindsFit(words, kinds)
    PROVE  Kinds(words) = kinds
<1> DEFINE n == Len(words)
           kind[i \in DOMAIN words] ==
               IF i = 1 THEN "executable"
               ELSE IF kind[i - 1] = "flag" /\ words[i - 1] \in ValueFlags THEN "value"
               ELSE IF i = Len(words) /\ words[i] \notin NmapFlags THEN "target"
               ELSE "flag"
           Fits(f) == f = [i \in 1..n |->
                       IF i = 1 THEN "executable"
                       ELSE IF f[i - 1] = "flag" /\ words[i - 1] \in ValueFlags
                       THEN "value"
                       ELSE IF i = n /\ words[i] \notin NmapFlags THEN "target"
                       ELSE "flag"]
<1>1. n \in Nat /\ DOMAIN words = 1..n
  BY DEF KindsFit
<1>2. kind = CHOOSE f : Fits(f)
  BY <1>1
<1>3. Fits(kinds)
  BY DEF KindsFit
<1>4. Fits(kind)
  <2> HIDE DEF kind, Fits
  <2>1. QED
    BY <1>2, <1>3
<1>5. Kinds(words) = kind
  BY DEF Kinds
<1> HIDE DEF kind
<1> DEFINE S == {i \in 1..n : kind[i] # kinds[i]}
<1>6. ASSUME S # {} PROVE FALSE
  <2>1. PICK m \in S : \A i \in S : m <= i
    <3>1. S \in SUBSET Nat
      OBVIOUS
    <3> HIDE DEF S
    <3>2. QED
      BY <1>6, <3>1, LeastNumber
  <2>2. kind[m] # kinds[m] /\ m \in 1..n
    OBVIOUS
  <2>3. m # 1
    BY <1>3, <1>4, <2>2
  <2>4. m - 1 \in 1..n /\ ~(m <= m - 1)
    BY <2>2, <2>3
  <2>5. kind[m - 1] = kinds[m - 1]
    BY <2>1, <2>4
  <2>6. QED
    BY <1>3, <1>4, <2>2, <2>3, <2>5
<1>7. DOMAIN kind = 1..n /\ DOMAIN kinds = 1..n
  BY <1>3, <1>4
<1>8. kind = kinds
  <2>1. kind = [i \in 1..n |-> kind[i]] /\ kinds = [i \in 1..n |-> kinds[i]]
    BY <1>3, <1>4
  <2>2. \A i \in 1..n : kind[i] = kinds[i]
    BY <1>6
  <2>3. QED
    BY <2>1, <2>2
<1>9. QED
  BY <1>5, <1>8

(* An argument is known by its word, kind and owner. *)
IsArgument(a) == a = Argument(a.word, a.kind, a.whose)

(* A command whose words are read off correctly from the word before. *)
ReadableAt(argv, i) ==
    /\ argv[i].kind = IF argv[i - 1].kind = "flag" /\ argv[i - 1].word \in ValueFlags
                      THEN "value"
                      ELSE IF i = Len(argv) /\ argv[i].word \notin NmapFlags
                      THEN "target"
                      ELSE "flag"
    /\ argv[i].whose = IF \/ argv[i].kind = "target"
                          \/ argv[i].kind = "value" /\ argv[i - 1].word \in UserFlags
                       THEN "user" ELSE "tool"

Readable(argv) ==
    /\ Len(argv) \in Nat \ {0} /\ argv = [i \in 1..Len(argv) |-> argv[i]]
    /\ \A i \in 1..Len(argv) : IsArgument(argv[i])
    /\ argv[1].kind = "executable" /\ argv[1].whose = "tool"
    /\ \A i \in 2..Len(argv) : ReadableAt(argv, i)

(* The parts of an argument. *)
LEMMA ArgumentIs ==
    ASSUME NEW a, NEW w, NEW k, NEW u, a = Argument(w, k, u)
    PROVE  IsArgument(a) /\ a.word = w /\ a.kind = k /\ a.whose = u
BY DEF Argument, IsArgument

(* explain_argv gives every word of such a command its part. *)
LEMMA ReadableIsExplained ==
    ASSUME NEW argv, Readable(argv)
    PROVE  ExplainArgv([i \in DOMAIN argv |-> argv[i].word]) = argv
<1> DEFINE n == Len(argv)
           words == [i \in DOMAIN argv |-> argv[i].word]
           kinds == [i \in 1..n |-> argv[i].kind]
           Whose(i) == IF \/ kinds[i] = "target"
                          \/ kinds[i] = "value" /\ words[i - 1] \in UserFlags
                       THEN "user" ELSE "tool"
<1>1. n \in Nat \ {0} /\ DOMAIN argv = 1..n
  BY DEF Readable
<1>2. DOMAIN words = 1..n /\ Len(words) = n /\ \A i \in 1..n : words[i] = argv[i].word
  <2>1. words \in [1..n -> {argv[i].word : i \in 1..n}]
    BY <1>1
  <2>2. words \in Seq({argv[i].word : i \in 1..n})
    BY <1>1, <2>1
  <2>3. QED
    BY <1>1, <2>1, <2>2
<1>3. \A i \in 1..n : kinds[i] =
          IF i = 1 THEN "executable"
          ELSE IF kinds[i - 1] = "flag" /\ words[i - 1] \in ValueFlags THEN "value"
          ELSE IF i = n /\ words[i] \notin NmapFlags THEN "target"
          ELSE "flag"
  <2>1. argv[1].kind = "executable"
    BY DEF Readable
  <2>2. ASSUME NEW i \in 1..n, i # 1
        PROVE  argv[i].kind = IF kinds[i - 1] = "flag" /\ words[i - 1] \in ValueFlags
                              THEN "value"
                              ELSE IF i = n /\ words[i] \notin NmapFlags THEN "target"
                              ELSE "flag"
    <3>1. i \in 2..n /\ i - 1 \in 1..n
      BY <1>1, <2>2
    <3>2. QED
      BY <1>2, <3>1 DEF Readable, ReadableAt
  <2>3. QED
    BY <2>1, <2>2
<1>4. kinds = [i \in 1..n |-> kinds[i]]
  OBVIOUS
<1> HIDE DEF words, kinds
<1>5. Kinds(words) = kinds
  <2>1. KindsFit(words, kinds)
    BY <1>1, <1>2, <1>3, <1>4 DEF KindsFit
  <2>2. QED
    BY <2>1, KindsAre
<1>6. ASSUME NEW i \in 1..n
      PROVE  argv[i] = Argument(words[i], kinds[i], Whose(i))
  <2>1. argv[i].whose = Whose(i)
    <3>1. CASE i = 1
      BY <1>1, <1>3, <3>1 DEF Readable
    <3>2. CASE i # 1
      <4>1. i \in 2..n /\ i - 1 \in 1..n
        BY <1>1, <3>2
      <4>2. QED
        BY <1>2, <4>1 DEF Readable, ReadableAt, kinds
    <3>3. QED
      BY <3>1, <3>2
  <2>2. kinds[i] = argv[i].kind /\ words[i] = argv[i].word
    BY <1>2 DEF kinds
  <2> HIDE DEF Whose
  <2>3. QED
    BY <2>1, <2>2 DEF Readable, IsArgument
<1>7. ExplainArgv(words) = [i \in 1..n |-> Argument(words[i], kinds[i], Whose(i))]
  BY <1>1, <1>2, <1>5 DEF ExplainArgv
<1>8. argv = [i \in 1..n |-> argv[i]]
  BY <1>1 DEF Readable
<1>9. QED
  BY <1>6, <1>7, <1>8 DEF words

(* The arguments that choose the ports: one flag, or one with its value. *)
LEMMA PortArgumentsAre ==
    ASSUME NEW preset \in Presets
    PROVE  \/ PortArguments(preset) = <<Flag("-p-")>>
           \/ \E flag \in UserFlags : \E w :
                 PortArguments(preset) = <<Flag(flag), Chosen(w)>>
BY DEF PortArguments, Presets, UserFlags

(* The arguments that a preset makes can be read off, each from the one before. *)
LEMMA ArgumentsAreReadable ==
    ASSUME NEW preset \in Presets
    PROVE  \E A : /\ A = TcpScanArguments(preset)
                  /\ Len(A) \in Nat \ {0} /\ A = [i \in 1..Len(A) |-> A[i]]
                  /\ \A i \in 1..Len(A) : IsArgument(A[i])
                  /\ Len(A) > 1 /\ A[1].word = "-sT"
                  /\ A[1].kind = "flag" /\ A[1].whose = "tool"
                  /\ \A i \in 2..Len(A) : ReadableAt(A, i)
<1> DEFINE P == PortArguments(preset)
<1>1. PICK A, b, c, d, e, x, y, z :
          /\ A = TcpScanArguments(preset)
          /\ A = <<b, c, d, e>> \o P \o <<x, y, z>>
          /\ b = Flag("-sT") /\ c = Flag("-Pn") /\ d = Flag("--max-rate")
          /\ e = Fixed(MaxRate(preset))
          /\ x = Flag("-oX") /\ y = Fixed("-") /\ z = Argument("target", "target", "user")
  BY DEF TcpScanArguments
<1>2. /\ IsArgument(b) /\ b.kind = "flag" /\ b.word = "-sT" /\ b.whose = "tool"
      /\ IsArgument(c) /\ c.kind = "flag" /\ c.word = "-Pn" /\ c.whose = "tool"
      /\ IsArgument(d) /\ d.kind = "flag" /\ d.word = "--max-rate" /\ d.whose = "tool"
      /\ IsArgument(e) /\ e.kind = "value" /\ e.whose = "tool"
      /\ IsArgument(x) /\ x.kind = "flag" /\ x.word = "-oX" /\ x.whose = "tool"
      /\ IsArgument(y) /\ y.kind = "value" /\ y.whose = "tool"
      /\ IsArgument(z) /\ z.kind = "target" /\ z.word = "target" /\ z.whose = "user"
  BY <1>1, ArgumentIs DEF Flag, Fixed
<1>3. /\ b.word \notin ValueFlags /\ c.word \notin ValueFlags
      /\ d.word \in ValueFlags \ UserFlags /\ x.word \in ValueFlags \ UserFlags
      /\ z.word \notin NmapFlags
  BY <1>2 DEF ValueFlags, UserFlags, NmapFlags
<1> DEFINE S == {b, c, d, e, x, y, z} \cup {P[i] : i \in DOMAIN P}
<1>4. ASSUME P \in Seq(S)
      PROVE  /\ A \in Seq(S) /\ Len(A) = Len(P) + 7
             /\ A[1] = b /\ A[2] = c /\ A[3] = d /\ A[4] = e
             /\ \A i \in 1..Len(P) : A[4 + i] = P[i]
             /\ A[Len(P) + 5] = x /\ A[Len(P) + 6] = y /\ A[Len(P) + 7] = z
  <2>1. b \in S /\ c \in S /\ d \in S /\ e \in S /\ x \in S /\ y \in S /\ z \in S
    OBVIOUS
  <2> HIDE DEF P, S
  <2>2. PICK B : B = <<b, c, d, e>> \o P /\ A = B \o <<x, y, z>>
    BY <1>1
  <2>3. /\ B \in Seq(S) /\ Len(B) = Len(P) + 4
        /\ B[1] = b /\ B[2] = c /\ B[3] = d /\ B[4] = e
        /\ \A i \in 1..Len(P) : B[4 + i] = P[i]
    BY <1>4, <2>1, <2>2
  <2>4. A \in Seq(S) /\ Len(A) = Len(B) + 3
    BY <2>1, <2>2, <2>3
  <2>5. \A i \in 1..Len(B) : A[i] = B[i]
    BY <2>1, <2>2, <2>3
  <2>6. A[Len(B) + 1] = x /\ A[Len(B) + 2] = y /\ A[Len(B) + 3] = z
    BY <2>1, <2>2, <2>3
  <2>7. QED
    BY <1>4, <2>3, <2>4, <2>5, <2>6
<1>5. CASE P = <<Flag("-p-")>>
  <2>1. PICK f : /\ f = Flag("-p-") /\ IsArgument(f)
                 /\ f.kind = "flag" /\ f.word = "-p-" /\ f.whose = "tool"
    BY ArgumentIs DEF Flag
  <2>2. P \in Seq(S) /\ Len(P) = 1 /\ P[1] = f
    BY <1>5, <2>1
  <2>3. f.word \notin ValueFlags
    BY <2>1 DEF ValueFlags
  <2> HIDE DEF P, S
  <2>4. /\ A \in Seq(S) /\ Len(A) = 8
        /\ A[1] = b /\ A[2] = c /\ A[3] = d /\ A[4] = e
        /\ A[5] = f /\ A[6] = x /\ A[7] = y /\ A[8] = z
    BY <1>4, <2>2
  <2>5. ASSUME NEW i \in 2..8 PROVE ReadableAt(A, i)
    BY <1>2, <1>3, <2>1, <2>3, <2>4 DEF ReadableAt
  <2>6. Len(A) \in Nat \ {0} /\ A = [i \in 1..Len(A) |-> A[i]]
    BY <2>4
  <2>7. \A i \in 1..Len(A) : IsArgument(A[i])
    BY <1>2, <2>1, <2>4
  <2>8. Len(A) > 1 /\ A[1] = b
    BY <2>4
  <2>9. \A i \in 2..Len(A) : ReadableAt(A, i)
    BY <2>4, <2>5
  <2>10. QED
    BY <1>1, <1>2, <2>6, <2>7, <2>8, <2>9
<1>6. CASE \E flag \in UserFlags : \E w : P = <<Flag(flag), Chosen(w)>>
  <2>1. PICK flag, w : flag \in UserFlags /\ P = <<Flag(flag), Chosen(w)>>
    BY <1>6
  <2>2. PICK f, g : /\ f = Flag(flag) /\ IsArgument(f)
                    /\ f.kind = "flag" /\ f.word = flag /\ f.whose = "tool"
                    /\ g = Chosen(w) /\ IsArgument(g)
                    /\ g.kind = "value" /\ g.whose = "user"
    BY ArgumentIs DEF Flag, Chosen
  <2>3. P \in Seq(S) /\ Len(P) = 2 /\ P[1] = f /\ P[2] = g
    BY <2>1, <2>2
  <2>4. f.word \in ValueFlags \cap UserFlags
    BY <2>1, <2>2 DEF ValueFlags, UserFlags
  <2> HIDE DEF P, S
  <2>5. /\ A \in Seq(S) /\ Len(A) = 9
        /\ A[1] = b /\ A[2] = c /\ A[3] = d /\ A[4] = e
        /\ A[5] = f /\ A[6] = g /\ A[7] = x /\ A[8] = y /\ A[9] = z
    BY <1>4, <2>3
  <2>6. ASSUME NEW i \in 2..9 PROVE ReadableAt(A, i)
    BY <1>2, <1>3, <2>2, <2>4, <2>5 DEF ReadableAt
  <2>7. Len(A) \in Nat \ {0} /\ A = [i \in 1..Len(A) |-> A[i]]
    BY <2>5
  <2>8. \A i \in 1..Len(A) : IsArgument(A[i])
    BY <1>2, <2>2, <2>5
  <2>9. Len(A) > 1 /\ A[1] = b
    BY <2>5
  <2>10. \A i \in 2..Len(A) : ReadableAt(A, i)
    BY <2>5, <2>6
  <2>11. QED
    BY <1>1, <1>2, <2>7, <2>8, <2>9, <2>10
<1>7. QED
  BY <1>5, <1>6, PortArgumentsAre

(* The words of nmap's path: the executable, and what looks like flags. *)
PathParts(path) ==
    [i \in 1..Len(path) |->
        Argument(path[i], IF i = 1 THEN "executable" ELSE "flag", "tool")]

(* A recorded command with what its words were. *)
Command(path, preset) == PathParts(path) \o TcpScanArguments(preset)

(* What a command has where, and which words are recorded of it. *)
LEMMA CommandIs ==
    ASSUME NEW path \in Paths, NEW preset \in Presets
    PROVE  LET A == TcpScanArguments(preset)
               C == Command(path, preset)
               n == Len(path)
           IN  /\ n \in Nat \ {0} /\ Len(A) \in Nat \ {0}
               /\ Len(C) = n + Len(A) /\ C = [i \in 1..Len(C) |-> C[i]]
               /\ \A i \in 1..n : C[i] = PathParts(path)[i]
               /\ \A i \in 1..Len(A) : C[n + i] = A[i]
               /\ Recorded(path, A) = [i \in DOMAIN C |-> C[i].word]
<1>1. PICK A : /\ A = TcpScanArguments(preset)
               /\ Len(A) \in Nat \ {0} /\ A = [i \in 1..Len(A) |-> A[i]]
  BY ArgumentsAreReadable
<1>2. PICK n : n = Len(path) /\ n \in Nat \ {0} /\ path = [i \in 1..n |-> path[i]]
  BY CommandsAssumption
<1>3. PICK H : H = PathParts(path) /\ H = [i \in 1..n |-> H[i]]
  BY <1>2 DEF PathParts
<1>4. PICK S : H \in Seq(S) /\ A \in Seq(S)
  <2> DEFINE S == {H[i] : i \in 1..n} \cup {A[i] : i \in 1..Len(A)}
  <2>1. H \in [1..n -> S] /\ A \in [1..Len(A) -> S]
    BY <1>1, <1>3
  <2> HIDE DEF S
  <2>2. H \in Seq(S) /\ A \in Seq(S)
    BY <1>1, <1>2, <2>1, NumberedIs
  <2>3. QED
    BY <2>2
<1>5. PICK C : C = Command(path, preset) /\ C = H \o A
  BY <1>1, <1>3 DEF Command
<1>6. Len(H) = n
  <2>1. DOMAIN H = 1..n
    BY <1>3
  <2>2. DOMAIN H = 1..Len(H) /\ Len(H) \in Nat
    BY <1>4
  <2>3. QED
    BY <1>2, <2>1, <2>2
<1>7. /\ C \in Seq(S) /\ Len(C) = n + Len(A) /\ DOMAIN C = 1..(n + Len(A))
      /\ \A i \in 1..n : C[i] = H[i]
      /\ \A i \in 1..Len(A) : C[n + i] = A[i]
      /\ C = [i \in 1..(n + Len(A)) |-> C[i]]
  <2>1. C \in Seq(S) /\ Len(C) = n + Len(A)
    <3>1. H \o A \in Seq(S)
      BY <1>4
    <3>2. Len(H \o A) = Len(H) + Len(A)
      BY <1>4
    <3>3. QED
      BY <1>5, <1>6, <3>1, <3>2
  <2>2. \A i \in 1..n : C[i] = H[i]
    BY <1>1, <1>2, <1>4, <1>5, <1>6
  <2>3. ASSUME NEW i \in 1..Len(A) PROVE C[n + i] = A[i]
    <3>1. PICK k : /\ k = n + i /\ k \in 1..(n + Len(A)) /\ ~(k <= n)
                   /\ k - n = i
      <4>1. n \in Nat /\ Len(A) \in Nat /\ i \in 1..Len(A)
        BY <1>1, <1>2
      <4>2. QED
        BY <4>1
    <3>2. C[k] = A[k - n]
      BY <1>4, <1>5, <1>6, <3>1
    <3>3. QED
      BY <3>1, <3>2
  <2>4. C = [i \in 1..Len(C) |-> C[i]] /\ DOMAIN C = 1..Len(C)
    BY <2>1, ItsMembers
  <2>5. QED
    BY <2>1, <2>2, <2>3, <2>4
<1> DEFINE W == [i \in DOMAIN A |-> A[i].word]
<1>8. PICK T : path \in Seq(T) /\ W \in Seq(T) /\ Len(W) = Len(A)
  <2> DEFINE T == {path[i] : i \in 1..n} \cup {A[i].word : i \in 1..Len(A)}
  <2>1. DOMAIN A = 1..Len(A)
    BY <1>1
  <2>2. path \in [1..n -> T] /\ W \in [1..Len(A) -> T]
    BY <1>2, <2>1
  <2> HIDE DEF T, W
  <2>3. path \in Seq(T) /\ W \in Seq(T) /\ Len(W) = Len(A)
    BY <1>1, <1>2, <2>2, NumberedIs
  <2>4. QED
    BY <2>3
<1>9. Recorded(path, A) = path \o W
  BY DEF Recorded
<1>10. \A i \in DOMAIN A : W[i] = A[i].word
  OBVIOUS
<1> HIDE DEF W
<1>11. /\ path \o W = [i \in 1..(n + Len(A)) |-> (path \o W)[i]]
       /\ \A i \in 1..n : (path \o W)[i] = path[i]
       /\ \A i \in 1..Len(A) : (path \o W)[n + i] = W[i]
  <2>1. path \o W \in Seq(T) /\ Len(path \o W) = n + Len(A)
    BY <1>2, <1>8
  <2>2. \A i \in 1..n : (path \o W)[i] = path[i]
    BY <1>1, <1>2, <1>8
  <2>3. ASSUME NEW i \in 1..Len(A) PROVE (path \o W)[n + i] = W[i]
    <3>1. PICK k : /\ k = n + i /\ k \in 1..(n + Len(A)) /\ ~(k <= n)
                   /\ k - n = i
      <4>1. n \in Nat /\ Len(A) \in Nat /\ i \in 1..Len(A)
        BY <1>1, <1>2
      <4>2. QED
        BY <4>1
    <3>2. (path \o W)[k] = W[k - n]
      BY <1>2, <1>8, <3>1
    <3>3. QED
      BY <3>1, <3>2
  <2>4. path \o W = [i \in 1..(n + Len(A)) |-> (path \o W)[i]]
    BY <2>1, ItsMembers
  <2>5. QED
    BY <2>2, <2>3, <2>4
<1>12. \A i \in 1..n : H[i].word = path[i]
  BY <1>2, <1>3 DEF PathParts, Argument
<1>13. ASSUME NEW i \in 1..(n + Len(A)) PROVE (path \o W)[i] = C[i].word
  <2>1. CASE i \in 1..n
    BY <1>7, <1>11, <1>12, <2>1
  <2>2. CASE i \notin 1..n
    <3>1. i - n \in 1..Len(A) /\ n + (i - n) = i /\ DOMAIN A = 1..Len(A)
      BY <1>1, <1>2, <2>2
    <3>2. (path \o W)[n + (i - n)] = W[i - n] /\ C[n + (i - n)] = A[i - n]
      BY <1>7, <1>11, <3>1
    <3>3. W[i - n] = A[i - n].word
      BY <1>10, <3>1
    <3>4. QED
      BY <3>1, <3>2, <3>3
  <2>3. QED
    BY <2>1, <2>2
<1>14. Recorded(path, A) = [i \in DOMAIN C |-> C[i].word]
  BY <1>7, <1>9, <1>11, <1>13
<1>15. C = [i \in 1..Len(C) |-> C[i]] /\ \A i \in 1..n : C[i] = PathParts(path)[i]
  BY <1>3, <1>7
<1>16. QED
  BY <1>1, <1>2, <1>5, <1>7, <1>14, <1>15

(* The words of a recorded command can be read off, those of the path too. *)
LEMMA ScanIsReadable ==
    ASSUME NEW path \in Paths, NEW preset \in Presets
    PROVE  Readable(Command(path, preset))
<1>1. PICK A : /\ A = TcpScanArguments(preset)
               /\ Len(A) \in Nat \ {0} /\ Len(A) > 1
               /\ \A i \in 1..Len(A) : IsArgument(A[i])
               /\ A[1].word = "-sT" /\ A[1].kind = "flag" /\ A[1].whose = "tool"
               /\ \A i \in 2..Len(A) : ReadableAt(A, i)
  BY ArgumentsAreReadable
<1>2. PICK C, n : C = Command(path, preset) /\ n = Len(path)
  OBVIOUS
<1>3. /\ n \in Nat \ {0}
      /\ Len(C) = n + Len(A) /\ C = [i \in 1..Len(C) |-> C[i]]
      /\ \A i \in 1..n : C[i] = PathParts(path)[i]
      /\ \A i \in 1..Len(A) : C[n + i] = A[i]
  BY <1>1, <1>2, CommandIs
<1>4. ASSUME NEW i \in 1..n
      PROVE  /\ IsArgument(C[i]) /\ C[i].whose = "tool"
             /\ C[i].kind = IF i = 1 THEN "executable" ELSE "flag"
             /\ C[i].word \notin NmapFlags /\ C[i].word \notin ValueFlags
  <2>1. C[i] = Argument(path[i], IF i = 1 THEN "executable" ELSE "flag", "tool")
    BY <1>2, <1>3 DEF PathParts
  <2>2. path[i] \notin NmapFlags
    BY <1>2, <1>3, CommandsAssumption
  <2>3. path[i] \notin ValueFlags
    BY <2>2 DEF NmapFlags, ValueFlags
  <2>4. PICK a, k : a = C[i] /\ k = IF i = 1 THEN "executable" ELSE "flag"
    OBVIOUS
  <2>5. a = Argument(path[i], k, "tool")
    BY <2>1, <2>4
  <2>6. IsArgument(a) /\ a.word = path[i] /\ a.kind = k /\ a.whose = "tool"
    BY <2>5, ArgumentIs
  <2>7. QED
    BY <2>2, <2>3, <2>4, <2>6
<1>5. ASSUME NEW i \in 2..Len(C) PROVE ReadableAt(C, i)
  <2>1. CASE i <= n
    <3>1. i \in 1..n /\ i - 1 \in 1..n /\ i # Len(C) /\ i # 1
      BY <1>1, <1>2, <1>3, <2>1
    <3>2. QED
      BY <1>4, <3>1 DEF ReadableAt
  <2>2. CASE i = n + 1
    <3>1. i - 1 \in 1..n /\ 1 \in 1..Len(A) /\ i # Len(C)
      BY <1>1, <1>2, <1>3, <2>2
    <3>2. C[i] = A[1]
      BY <1>2, <1>3, <2>2, <3>1
    <3>3. QED
      BY <1>1, <1>4, <3>1, <3>2 DEF ReadableAt
  <2>3. CASE i > n + 1
    <3>1. PICK k : k = i - n /\ k \in 2..Len(A) /\ i = n + k /\ i - 1 = n + (k - 1)
                   /\ k - 1 \in 1..Len(A) /\ k \in 1..Len(A)
      BY <1>1, <1>2, <1>3, <2>3
    <3>2. C[n + k] = A[k] /\ C[n + (k - 1)] = A[k - 1]
      BY <1>2, <1>3, <3>1
    <3>3. i = Len(C) <=> k = Len(A)
      <4>1. Len(C) = n + Len(A) /\ n \in Nat /\ Len(A) \in Nat /\ k \in Nat /\ i = n + k
        BY <1>1, <1>2, <1>3, <3>1
      <4>2. QED
        BY <4>1
    <3>4. ReadableAt(A, k)
      BY <1>1, <3>1
    <3>5. C[i] = A[k] /\ C[i - 1] = A[k - 1]
      BY <3>1, <3>2
    <3>6. QED
      BY <3>3, <3>4, <3>5 DEF ReadableAt
  <2>4. i \in Nat /\ n \in Nat
    BY <1>2, <1>3
  <2>5. QED
    BY <2>1, <2>2, <2>3, <2>4
<1>6. ASSUME NEW i \in 1..Len(C) PROVE IsArgument(C[i])
  <2>1. CASE i <= n
    BY <1>2, <1>3, <1>4, <2>1
  <2>2. CASE ~(i <= n)
    <3>1. i - n \in 1..Len(A) /\ n + (i - n) = i
      BY <1>1, <1>2, <1>3, <2>2
    <3>2. QED
      BY <1>1, <1>2, <1>3, <3>1
  <2>3. QED
    BY <2>1, <2>2
<1>7. C[1].kind = "executable" /\ C[1].whose = "tool"
  BY <1>2, <1>3, <1>4
<1>8. Len(C) \in Nat \ {0}
  BY <1>1, <1>2, <1>3
<1>9. QED
  BY <1>2, <1>3, <1>5, <1>6, <1>7, <1>8 DEF Readable

(* The modules that read ports. *)
Scanning == {"active.tcp_scan", "active.service_detection"}

(* A form that a step has filled in has the ports that were open then. *)
FormFits(f) ==
    /\ f.spec \in PortTexts
    /\ f.module = "active.tcp_scan" => f.preset \in Presets /\ ~f.step
    /\ f.module \in Scanning /\ f.step =>
          f.open \in SUBSET AllPorts /\ f.spec = Joined(f.open)

(* A run is of such a form, and has the ports that it asks for. *)
ScanFits ==
    /\ FormFits(scan.form)
    /\ scan.form.module \in Scanning
    /\ scan.ports = PortsAsked(scan.form)
    /\ scan.path \in Paths

CommandsInv ==
    /\ form # Absent => FormFits(form)
    /\ scan # Absent => ScanFits
    /\ shown # Absent => /\ scan # Absent /\ scan.form.module = "active.tcp_scan"
                         /\ shown = Command(scan.path, scan.form.preset)

(* The parts of a form, and of the form of a step. *)
LEMMA FormIs ==
    ASSUME NEW module, NEW preset, NEW spec, NEW f, f = Form(module, preset, spec)
    PROVE  /\ f.module = module /\ f.preset = preset /\ f.spec = spec /\ ~f.step
           /\ \A ports : LET g == [f EXCEPT !.step = TRUE, !.open = ports]
                         IN  g.module = module /\ g.spec = spec /\ g.open = ports
BY DEF Form

(* What is open is a port. *)
LEMMA OpenPortsArePorts == OpenPorts \in SUBSET AllPorts
BY DEF OpenPorts

(* The steps that open a form with ports ask for the open ones. *)
LEMMA NextStepsAre ==
    ASSUME NEW step \in NextSteps
    PROVE  \E module, preset, spec :
              /\ step = Form(module, preset, spec)
              /\ \/ module \notin Scanning /\ spec = <<>>
                 \/ module = "active.service_detection" /\ spec = Joined(OpenPorts)
<1> DEFINE Others == {"passive.rdap", "active.http_overview", "active.tls_review"}
<1>1. \A module \in Others : module \notin Scanning
  BY DEF Scanning
<1>2. CASE step = Form("active.service_detection", "", Joined(OpenPorts))
  BY <1>2
<1>3. CASE \E module \in Others : \E preset : step = Form(module, preset, <<>>)
  <2> HIDE DEF Others
  <2>1. QED
    BY <1>1, <1>3
<1>4. QED
  <2>1. \/ step \in {Form("passive.rdap", "", <<>>)}
        \/ step \in {Form("active.http_overview", "http", <<>>)}
        \/ step \in {Form(module, "https", <<>>) :
                        module \in {"active.tls_review", "active.http_overview"}}
        \/ step \in {Form("active.service_detection", "", Joined(OpenPorts))}
    BY DEF NextSteps, StepsIf
  <2>2. QED
    BY <1>2, <1>3, <2>1

(* Nothing written is a text too. *)
LEMMA EmptyText == <<>> \in PortTexts
BY DEF PortTexts

(* The actions keep the invariant. *)
LEMMA OpenStepFits ==
    ASSUME CommandsInv, OpenStep
    PROVE  CommandsInv'
<1>1. PICK step \in NextSteps : form' = [step EXCEPT !.step = TRUE, !.open = OpenPorts]
  BY DEF OpenStep
<1>2. PICK module, preset, spec :
          /\ step = Form(module, preset, spec)
          /\ \/ module \notin Scanning /\ spec = <<>>
             \/ module = "active.service_detection" /\ spec = Joined(OpenPorts)
  BY NextStepsAre
<1>3. form'.module = module /\ form'.spec = spec /\ form'.open = OpenPorts
  BY <1>1, <1>2, FormIs
<1>4. FormFits(form')
  <2>1. spec \in PortTexts
    BY <1>2, EmptyText, OpenPortsArePorts, JoinedMeans
  <2>2. module # "active.tcp_scan"
    BY <1>2 DEF Scanning
  <2>3. QED
    BY <1>2, <1>3, <2>1, <2>2, OpenPortsArePorts DEF FormFits
<1>5. QED
  BY <1>4 DEF CommandsInv, ScanFits, OpenStep

LEMMA FillInFits ==
    ASSUME CommandsInv, FillIn
    PROVE  CommandsInv'
<1>1. \A module, preset, spec :
         /\ form' = Form(module, preset, spec)
         /\ spec \in PortTexts
         /\ module = "active.tcp_scan" => preset \in Presets
         => FormFits(form')
  BY FormIs DEF FormFits
<1>2. FormFits(form')
  <2>1. CASE \E preset \in Presets : form' = Form("active.tcp_scan", preset, <<>>)
    BY <1>1, <2>1, EmptyText
  <2>2. CASE \E spec \in Specs : form' = Form("active.tcp_scan", "custom", spec)
    BY <1>1, <2>2, CommandsAssumption DEF Presets
  <2>3. CASE \E spec \in Specs : form' = Form("active.service_detection", "", spec)
    BY <1>1, <2>3, CommandsAssumption
  <2>4. QED
    BY <2>1, <2>2, <2>3 DEF FillIn
<1>3. QED
  BY <1>2 DEF CommandsInv, ScanFits, FillIn

LEMMA RunFormFits ==
    ASSUME CommandsInv, RunForm
    PROVE  CommandsInv'
<1>1. PICK s : /\ s = scan' /\ s.form = form /\ s.ports = PortsAsked(form)
               /\ s.path \in Paths
  BY DEF RunForm
<1>2. FormFits(form) /\ form.module \in Scanning
  BY DEF CommandsInv, RunForm, Scanning
<1>3. ScanFits'
  BY <1>1, <1>2 DEF ScanFits
<1>4. QED
  BY <1>3 DEF CommandsInv, RunForm

LEMMA JobCommandFits ==
    ASSUME CommandsInv, JobCommand
    PROVE  CommandsInv'
<1>1. scan.form.preset \in Presets /\ scan.path \in Paths
  BY DEF CommandsInv, ScanFits, FormFits, JobCommand
<1>2. shown' = Command(scan.path, scan.form.preset)
  <2>1. PICK C : C = Command(scan.path, scan.form.preset) /\ Readable(C)
    BY <1>1, ScanIsReadable
  <2>2. Recorded(scan.path, TcpScanArguments(scan.form.preset)) = [i \in DOMAIN C |-> C[i].word]
    BY <1>1, <2>1, CommandIs
  <2>3. shown' = ExplainArgv([i \in DOMAIN C |-> C[i].word])
    BY <2>2 DEF JobCommand
  <2>4. QED
    BY <2>1, <2>3, ReadableIsExplained
<1>3. QED
  BY <1>2 DEF CommandsInv, ScanFits, JobCommand

LEMMA NextKeepsCommands ==
    ASSUME CommandsInv, [CommandsNext]_commandVars
    PROVE  CommandsInv'
<1>1. CASE OpenStep
  BY <1>1, OpenStepFits
<1>2. CASE FillIn
  BY <1>2, FillInFits
<1>3. CASE RunForm
  BY <1>3, RunFormFits
<1>4. CASE ScanAnswers
  BY <1>4 DEF CommandsInv, ScanFits, ScanAnswers
<1>5. CASE JobCommand
  BY <1>5, JobCommandFits
<1>6. CASE \E type \in {"service", "other"} : OtherFindings(type)
  BY <1>6 DEF CommandsInv, ScanFits, OtherFindings
<1>7. CASE UNCHANGED commandVars
  BY <1>7 DEF CommandsInv, ScanFits, commandVars
<1>8. QED
  BY <1>1, <1>2, <1>3, <1>4, <1>5, <1>6, <1>7 DEF CommandsNext

(* The invariant of the scans: forms, runs and explanations come from one *)
(* another.                                                               *)
THEOREM CommandsInductive == CommandsSpec => []CommandsInv
<1>1. CommandsInit => CommandsInv
  BY DEF CommandsInit, CommandsInv
<1>2. CommandsInv /\ [CommandsNext]_commandVars => CommandsInv'
  BY NextKeepsCommands
<1>3. QED
  BY <1>1, <1>2, PTL DEF CommandsSpec

(* Under it the ports are as meant. *)
LEMMA FitsAsMeant ==
    ASSUME CommandsInv
    PROVE  PortsAreAsMeant
<1> SUFFICES ASSUME scan # Absent, scan.form.preset \in {"", "custom"},
                    NEW spec, spec = scan.form.spec
             PROVE  /\ ~Spaced(spec) =>
                          /\ scan.ports # Absent <=>
                                \A i \in DOMAIN spec : \E p \in AllPorts : Means(spec[i], p)
                          /\ scan.ports # Absent => Range(scan.ports) = Meant(spec)
                    /\ scan.ports # Absent =>
                          /\ Range(scan.ports) \subseteq AllPorts
                          /\ \A i, j \in DOMAIN scan.ports :
                                i < j => scan.ports[i] < scan.ports[j]
                    /\ scan.form.step => /\ scan.ports # Absent
                                         /\ Range(scan.ports) = scan.form.open
  BY DEF PortsAreAsMeant, Meant
<1>1. spec \in PortTexts
  BY DEF CommandsInv, ScanFits, FormFits
<1>2. PICK ports : ports = scan.ports /\ ports = ParsePortSpec(spec)
  BY DEF CommandsInv, ScanFits, PortsAsked, Presets
<1>3. scan.form.step => scan.form.open \in SUBSET AllPorts /\ spec = Joined(scan.form.open)
  BY DEF CommandsInv, ScanFits, FormFits
<1>4. ~Spaced(spec) =>
         /\ ports # Absent <=> \A i \in DOMAIN spec : \E p \in AllPorts : Means(spec[i], p)
         /\ ports # Absent => Range(ports) = Meant(spec)
  BY <1>1, <1>2, Parsed
<1>5. ports # Absent => /\ Range(ports) \subseteq AllPorts
                        /\ \A i, j \in DOMAIN ports : i < j => ports[i] < ports[j]
  BY <1>1, <1>2, ParsedInOrder
<1>6. scan.form.step => /\ ports # Absent
                        /\ Range(ports) = scan.form.open
  BY <1>3, <1>4, JoinedMeans
<1>7. QED
  BY <1>2, <1>4, <1>5, <1>6

(* If no blanks part its numbers, nmap is asked for just the ports that the field *)
(* means, or the form is refused because a segment means none; whatever the text, *)
(* for ports only, each once and in order; and a recommended form asks for the    *)
(* ports that were open; for any number of ports and any text.                    *)
THEOREM PortsMeant == CommandsSpec => []PortsAreAsMeant
BY CommandsInductive, FitsAsMeant, PTL

(* explain_argv gives each argument of a recorded TCP scan back the part it had, *)
(* wherever nmap's path ends, and no other word of the path a part that matters. *)
THEOREM CommandsExplained == CommandsSpec => []CommandsAreExplained
<1>1. ASSUME CommandsInv PROVE CommandsAreExplained
  <2> SUFFICES ASSUME shown # Absent, NEW A, A = TcpScanArguments(scan.form.preset),
                      NEW n, n = Len(scan.path)
               PROVE  /\ Len(shown) = n + Len(A)
                      /\ \A i \in DOMAIN A : shown[n + i] = A[i]
                      /\ shown[1] = Argument(scan.path[1], "executable", "tool")
                      /\ \A i \in 2..n : shown[i].kind = "flag" /\ shown[i].whose = "tool"
    BY DEF CommandsAreExplained
  <2>1. PICK path \in Paths, preset \in Presets :
            /\ path = scan.path /\ preset = scan.form.preset
            /\ shown = Command(path, preset)
    BY <1>1 DEF CommandsInv, ScanFits, FormFits
  <2>2. /\ n \in Nat \ {0} /\ Len(shown) = n + Len(A)
        /\ \A i \in 1..n : shown[i] = PathParts(path)[i]
        /\ \A i \in 1..Len(A) : shown[n + i] = A[i]
    BY <2>1, CommandIs
  <2>3. DOMAIN A = 1..Len(A)
    BY <2>1, ArgumentsAreReadable
  <2>4. shown[1] = Argument(path[1], "executable", "tool")
    <3>1. 1 \in 1..n /\ n = Len(path)
      BY <2>1, <2>2
    <3>2. PathParts(path)[1] = Argument(path[1], "executable", "tool")
      BY <3>1 DEF PathParts
    <3>3. QED
      BY <2>2, <3>1, <3>2
  <2>5. ASSUME NEW i \in 2..n PROVE shown[i].kind = "flag" /\ shown[i].whose = "tool"
    <3>1. i \in 1..n /\ i # 1 /\ n = Len(path)
      BY <2>1, <2>2
    <3>2. PathParts(path)[i] = Argument(path[i], "flag", "tool")
      BY <3>1 DEF PathParts
    <3>3. shown[i] = Argument(path[i], "flag", "tool")
      BY <2>2, <3>1, <3>2
    <3>4. QED
      BY <3>3, ArgumentIs
  <2>6. QED
    BY <2>1, <2>2, <2>3, <2>4, <2>5
<1>2. CommandsInv => CommandsAreExplained
  BY <1>1
<1>3. QED
  BY <1>2, CommandsInductive, PTL
--------------------------------------------------------------------------------
(* The worksheet. *)

(* What a field has is from a save that none has followed; a save leaves a field *)
(* alone if it sends what it has read, so the invariant also says where a value  *)
(* comes from that is not what a waiting request has read: from a save that was  *)
(* committed after that request began.                                           *)
Phases == {"idle", "read", "saved", "failed"}

HistoryInv ==
    /\ phase \in [Puts -> Phases]
    /\ saves \in Seq(Puts)
    /\ began \in [Puts -> Nat]
    /\ \A q \in Puts : began[q] <= Len(saves)
    /\ \A i \in 1..Len(saves) : phase[saves[i]] = "saved"

RowInv ==
    /\ row \in Sheets \cup {NoRow}
    /\ read \in [Puts -> Sheets \cup {NoRow}]
    /\ row = NoRow <=> saves = <<>>

(* Save i gave the field its value, and no save has followed it. *)
Latest(f, i) ==
    /\ i \in 1..Len(saves)
    /\ row[f] = Body[saves[i]][f]
    /\ \A j \in 1..Len(saves) : began[saves[j]] < i

OriginInv ==
    saves # <<>> =>
        /\ \A f \in Fields : \E i \in 1..Len(saves) : Latest(f, i)
        /\ \A q \in Puts, f \in Fields :
              phase[q] = "read" /\ read[q] # NoRow =>
                  \/ row[f] = read[q][f]
                  \/ \E i \in 1..Len(saves) : Latest(f, i) /\ began[q] < i

ReadersInv == \A q \in Puts : phase[q] = "read" /\ saves = <<>> => read[q] = NoRow

SheetInv == HistoryInv /\ RowInv /\ OriginInv /\ ReadersInv
--------------------------------------------------------------------------------
LEMMA StartSheet == WorksheetsInit => SheetInv
BY DEF WorksheetsInit, SheetInv, HistoryInv, RowInv, OriginInv, ReadersInv, Phases

LEMMA TurnTaken ==
    ASSUME HistoryInv, NEW q \in Puts, NEW from, NEW to \in Phases, Turn(q, from, to)
    PROVE  /\ phase' \in [Puts -> Phases]
           /\ phase[q] = from /\ phase'[q] = to
           /\ \A p \in Puts \ {q} : phase'[p] = phase[p]
BY DEF HistoryInv, Turn

(* A save is added to the history. *)
LEMMA SaveAdded ==
    ASSUME SheetInv, NEW q \in Puts, Turn(q, "read", "saved"),
           saves' = Append(saves, q), began' = began
    PROVE  /\ HistoryInv'
           /\ Len(saves') = Len(saves) + 1 /\ saves' # <<>>
           /\ saves'[Len(saves) + 1] = q
           /\ \A i \in 1..Len(saves) : saves'[i] = saves[i]
           /\ \A i \in 1..Len(saves') : began'[saves'[i]] < Len(saves) + 1
<1>1. saves \in Seq(Puts) /\ Len(saves) \in Nat
  BY DEF SheetInv, HistoryInv
<1>2. /\ saves' \in Seq(Puts)
      /\ Len(saves') = Len(saves) + 1 /\ saves' # <<>>
      /\ saves'[Len(saves) + 1] = q
      /\ \A i \in 1..Len(saves) : saves'[i] = saves[i]
  BY <1>1
<1>3. /\ phase' \in [Puts -> Phases] /\ phase'[q] = "saved"
      /\ \A p \in Puts \ {q} : phase'[p] = phase[p]
  BY TurnTaken DEF SheetInv, Phases
<1>4. ASSUME NEW i \in 1..Len(saves') PROVE saves'[i] \in Puts /\ phase'[saves'[i]] = "saved"
  <2>1. CASE i = Len(saves) + 1
    BY <1>2, <1>3, <2>1
  <2>2. CASE i \in 1..Len(saves)
    <3>1. saves'[i] = saves[i] /\ saves[i] \in Puts /\ phase[saves[i]] = "saved"
      BY <1>1, <1>2, <2>2 DEF SheetInv, HistoryInv
    <3>2. QED
      BY <1>3, <3>1
  <2>3. QED
    BY <1>1, <1>2, <2>1, <2>2
<1>5. HistoryInv'
  <2>1. \A p \in Puts : began'[p] \in Nat /\ began[p] <= Len(saves) /\ began' = began
    BY DEF SheetInv, HistoryInv
  <2>2. \A p \in Puts : began'[p] <= Len(saves')
    BY <1>1, <1>2, <2>1
  <2>3. began' \in [Puts -> Nat]
    BY DEF SheetInv, HistoryInv
  <2>4. QED
    BY <1>2, <1>3, <1>4, <2>2, <2>3 DEF HistoryInv
<1>6. \A p \in Puts : began'[p] < Len(saves) + 1
  BY <1>1 DEF SheetInv, HistoryInv
<1>7. QED
  BY <1>2, <1>4, <1>5, <1>6

(* A field that the new save gives its value to. *)
LEMMA NewIsLast ==
    ASSUME SheetInv, NEW q \in Puts, Turn(q, "read", "saved"),
           saves' = Append(saves, q), began' = began,
           NEW f \in Fields, row'[f] = Body[q][f]
    PROVE  \E i \in 1..Len(saves') :
              Latest(f, i)' /\ \A p \in Puts : began'[p] < i
<1>1. PICK i \in Nat : i = Len(saves) + 1
  BY DEF SheetInv, HistoryInv
<1>2. \A p \in Puts : began'[p] < i
  BY <1>1 DEF SheetInv, HistoryInv
<1>3. i \in 1..Len(saves') /\ saves'[i] = q
  BY <1>1, SaveAdded
<1>4. \A j \in 1..Len(saves') : began'[saves'[j]] < i
  BY <1>1, SaveAdded
<1>5. Latest(f, i)'
  BY <1>3, <1>4 DEF Latest
<1>6. QED
  BY <1>2, <1>3, <1>5

LEMMA ReadKeepsSheet ==
    ASSUME SheetInv, NEW q \in Puts, ReadSheet(q)
    PROVE  SheetInv'
<1>1. /\ phase' \in [Puts -> Phases] /\ phase[q] = "idle" /\ phase'[q] = "read"
      /\ \A p \in Puts \ {q} : phase'[p] = phase[p]
  BY TurnTaken DEF SheetInv, ReadSheet, Phases
<1>2. /\ row' = row /\ saves' = saves
      /\ read'[q] = row /\ read' \in [Puts -> Sheets \cup {NoRow}]
      /\ began'[q] = Len(saves) /\ began' \in [Puts -> Nat]
      /\ \A p \in Puts \ {q} : read'[p] = read[p] /\ began'[p] = began[p]
  BY DEF SheetInv, ReadSheet, RowInv, HistoryInv
<1>3. \A i \in 1..Len(saves) : saves[i] \in Puts \ {q}
  BY <1>1 DEF SheetInv, HistoryInv
<1>4. HistoryInv'
  <2>1. \A p \in Puts : began'[p] <= Len(saves')
    <3>1. Len(saves) \in Nat
      BY DEF SheetInv, HistoryInv
    <3>2. \A p \in Puts \ {q} : began'[p] <= Len(saves)
      BY <1>2 DEF SheetInv, HistoryInv
    <3>3. QED
      BY <1>2, <3>1, <3>2
  <2>2. \A i \in 1..Len(saves') : phase'[saves'[i]] = "saved"
    BY <1>1, <1>2, <1>3 DEF SheetInv, HistoryInv
  <2>3. QED
    BY <1>1, <1>2, <2>1, <2>2 DEF SheetInv, HistoryInv
<1>5. RowInv'
  BY <1>2 DEF SheetInv, RowInv
<1>6. \A f \in Fields, i \in 1..Len(saves) : Latest(f, i)' <=> Latest(f, i)
  BY <1>2, <1>3 DEF Latest
<1>7. OriginInv'
  <2>1. ASSUME NEW p \in Puts \ {q}, NEW f \in Fields, saves # <<>>,
               phase'[p] = "read", read'[p] # NoRow
        PROVE  \/ row'[f] = read'[p][f]
               \/ \E i \in 1..Len(saves') : Latest(f, i)' /\ began'[p] < i
    BY <1>1, <1>2, <1>6, <2>1 DEF SheetInv, OriginInv
  <2>2. \A f \in Fields : row'[f] = read'[q][f]
    BY <1>2
  <2>3. saves # <<>> => \A f \in Fields : \E i \in 1..Len(saves') : Latest(f, i)'
    BY <1>2, <1>6 DEF SheetInv, OriginInv
  <2>4. QED
    BY <1>2, <2>1, <2>2, <2>3 DEF OriginInv
<1>8. ReadersInv'
  BY <1>1, <1>2 DEF SheetInv, ReadersInv, RowInv
<1>9. QED
  BY <1>4, <1>5, <1>7, <1>8 DEF SheetInv

LEMMA InsertKeepsSheet ==
    ASSUME SheetInv, NEW q \in Puts, InsertSheet(q)
    PROVE  SheetInv'
<1>1. /\ Turn(q, "read", "saved") /\ saves' = Append(saves, q) /\ began' = began
      /\ read' = read /\ row' = Body[q]
      /\ row = NoRow /\ saves = <<>>
  BY DEF SheetInv, RowInv, InsertSheet
<1>2. /\ phase'[q] = "saved" /\ \A p \in Puts \ {q} : phase'[p] = phase[p]
  BY <1>1, TurnTaken DEF SheetInv, Phases
<1>3. HistoryInv' /\ saves' # <<>>
  BY <1>1, SaveAdded
<1>4. RowInv'
  BY <1>1, <1>3, WorksheetAssumption DEF SheetInv, RowInv
<1>5. \A f \in Fields : \E i \in 1..Len(saves') : Latest(f, i)'
  BY <1>1, NewIsLast
<1>6. \A p \in Puts : phase'[p] = "read" => read'[p] = NoRow
  BY <1>1, <1>2 DEF SheetInv, ReadersInv
<1>7. OriginInv'
  BY <1>5, <1>6 DEF OriginInv
<1>8. QED
  BY <1>3, <1>4, <1>6, <1>7 DEF SheetInv, ReadersInv

(* The field keeps a value that the save has not read: it is of a save that *)
(* was committed after this one began, and this one has not followed it.   *)
LEMMA StillLast ==
    ASSUME SheetInv, NEW q \in Puts, Turn(q, "read", "saved"),
           saves' = Append(saves, q), began' = began,
           NEW f \in Fields, row'[f] = row[f],
           NEW i \in 1..Len(saves), Latest(f, i), began[q] < i
    PROVE  Latest(f, i)' /\ i \in 1..Len(saves')
<1>1. Len(saves) \in Nat
  BY DEF SheetInv, HistoryInv
<1>2. i \in 1..Len(saves')
  BY <1>1, SaveAdded
<1>3. ASSUME NEW j \in 1..Len(saves') PROVE began'[saves'[j]] < i
  <2>1. CASE j \in 1..Len(saves)
    BY <2>1, SaveAdded DEF Latest
  <2>2. CASE j = Len(saves) + 1
    BY <2>2, SaveAdded
  <2>3. QED
    BY <1>1, <2>1, <2>2, SaveAdded
<1>4. row'[f] = Body[saves'[i]][f]
  BY SaveAdded DEF Latest
<1>5. QED
  BY <1>2, <1>3, <1>4 DEF Latest

LEMMA UpdateKeepsSheet ==
    ASSUME SheetInv, NEW q \in Puts, UpdateSheet(q)
    PROVE  SheetInv'
<1>1. /\ Turn(q, "read", "saved") /\ saves' = Append(saves, q) /\ began' = began
      /\ read' = read /\ read[q] # NoRow
      /\ row' = Written(q)
  BY DEF UpdateSheet
<1>2. /\ phase[q] = "read" /\ phase'[q] = "saved"
      /\ \A p \in Puts \ {q} : phase'[p] = phase[p]
  BY <1>1, TurnTaken DEF SheetInv, Phases
<1>3. HistoryInv' /\ saves' # <<>>
  BY <1>1, SaveAdded
<1>4. saves # <<>> /\ row \in Sheets
  BY <1>1, <1>2 DEF SheetInv, ReadersInv, RowInv
<1>5. \A f \in Fields : row'[f] = IF Body[q][f] = read[q][f] THEN row[f] ELSE Body[q][f]
  BY <1>1 DEF Written
<1>6. RowInv'
  <2>1. row' \in Sheets
    <3>. DEFINE values == {Body[p][f] : p \in Puts, f \in Fields}
    <3>1. \A f \in Fields : row[f] \in values /\ Body[q][f] \in values
      BY <1>4, WorksheetAssumption DEF Sheets
    <3>2. row' = [f \in Fields |-> IF Body[q][f] = read[q][f] THEN row[f] ELSE Body[q][f]]
      BY <1>1 DEF Written
    <3> HIDE DEF values
    <3>3. row' \in [Fields -> values]
      BY <3>1, <3>2
    <3>4. QED
      BY <3>3 DEF values, Sheets
  <2>2. QED
    BY <1>1, <1>3, <2>1, WorksheetAssumption DEF SheetInv, RowInv
<1>7. ReadersInv'
  BY <1>3 DEF ReadersInv
<1>8. ASSUME NEW f \in Fields
      PROVE  /\ \E i \in 1..Len(saves') : Latest(f, i)'
             /\ \A p \in Puts : phase'[p] = "read" /\ read'[p] # NoRow =>
                   \/ row'[f] = read'[p][f]
                   \/ \E i \in 1..Len(saves') : Latest(f, i)' /\ began'[p] < i
  <2>1. CASE row'[f] = Body[q][f]
    BY <1>1, <2>1, NewIsLast
  <2>2. CASE row'[f] # Body[q][f]
    <3>1. row'[f] = row[f] /\ row[f] # read[q][f]
      BY <1>5, <2>2
    <3>2. PICK i \in 1..Len(saves) : Latest(f, i) /\ began[q] < i
      BY <1>1, <1>2, <1>4, <3>1 DEF SheetInv, OriginInv
    <3>3. Latest(f, i)' /\ i \in 1..Len(saves')
      BY <1>1, <3>1, <3>2, StillLast
    <3>4. ASSUME NEW p \in Puts, phase'[p] = "read", read'[p] # NoRow
          PROVE  \/ row'[f] = read'[p][f]
                 \/ \E k \in 1..Len(saves') : Latest(f, k)' /\ began'[p] < k
      <4>1. p # q /\ phase[p] = "read" /\ read[p] # NoRow
        BY <1>1, <1>2, <3>4
      <4>2. CASE row[f] = read[p][f]
        BY <1>1, <3>1, <4>2
      <4>3. CASE row[f] # read[p][f]
        <5>1. PICK k \in 1..Len(saves) : Latest(f, k) /\ began[p] < k
          BY <1>4, <4>1, <4>3 DEF SheetInv, OriginInv
        <5>2. CASE began[q] < k
          <6>1. Latest(f, k)' /\ k \in 1..Len(saves')
            BY <1>1, <3>1, <5>1, <5>2, StillLast
          <6>2. QED
            BY <1>1, <5>1, <6>1
        <5>3. CASE ~(began[q] < k)
          <6>1. began[p] < i
            BY <3>2, <5>1, <5>3 DEF SheetInv, HistoryInv
          <6>2. QED
            BY <1>1, <3>3, <6>1
        <5>4. QED
          BY <5>2, <5>3
      <4>4. QED
        BY <4>2, <4>3
    <3>5. QED
      BY <3>3, <3>4
  <2>3. QED
    BY <2>1, <2>2
<1>9. OriginInv'
  BY <1>8 DEF OriginInv
<1>10. QED
  BY <1>3, <1>6, <1>7, <1>9 DEF SheetInv

(* A request that ends without a save. *)
LEMMA FailureKeepsSheet ==
    ASSUME SheetInv, NEW q \in Puts, Turn(q, "read", "failed"),
           UNCHANGED <<row, read, began, saves>>
    PROVE  SheetInv'
<1>1. /\ phase' \in [Puts -> Phases] /\ phase[q] = "read" /\ phase'[q] = "failed"
      /\ \A p \in Puts \ {q} : phase'[p] = phase[p]
  BY TurnTaken DEF SheetInv, Phases
<1>2. HistoryInv'
  BY <1>1 DEF SheetInv, HistoryInv
<1>3. RowInv'
  BY DEF SheetInv, RowInv
<1>4. OriginInv'
  BY <1>1 DEF SheetInv, OriginInv, Latest
<1>5. ReadersInv'
  BY <1>1 DEF SheetInv, ReadersInv
<1>6. QED
  BY <1>2, <1>3, <1>4, <1>5 DEF SheetInv

LEMMA NextKeepsSheet == SheetInv /\ [WorksheetsNext]_sheetVars => SheetInv'
<1> SUFFICES ASSUME SheetInv, [WorksheetsNext]_sheetVars PROVE SheetInv'
  OBVIOUS
<1>1. ASSUME NEW q \in Puts, ReadSheet(q) PROVE SheetInv'
  BY <1>1, ReadKeepsSheet
<1>2. ASSUME NEW q \in Puts, InsertSheet(q) PROVE SheetInv'
  BY <1>2, InsertKeepsSheet
<1>3. ASSUME NEW q \in Puts, UpdateSheet(q) PROVE SheetInv'
  BY <1>3, UpdateKeepsSheet
<1>4. ASSUME NEW q \in Puts, InsertRefused(q) \/ SaveTimesOut(q) PROVE SheetInv'
  BY <1>4, FailureKeepsSheet DEF InsertRefused, SaveTimesOut
<1>5. CASE UNCHANGED sheetVars
  BY <1>5 DEF sheetVars, SheetInv, HistoryInv, RowInv, OriginInv, ReadersInv, Latest
<1>6. QED
  BY <1>1, <1>2, <1>3, <1>4, <1>5 DEF WorksheetsNext

(* The invariant of the worksheet's saves. *)
THEOREM SheetInductive == WorksheetsSpec => []SheetInv
BY StartSheet, NextKeepsSheet, PTL DEF WorksheetsSpec

(* Every field of the worksheet has the value of a save that no other save *)
(* has followed, however many saves there are at a time.                   *)
THEOREM NoSaveIsUndone == WorksheetsSpec => []FieldsAreOfLastSaves
<1>1. ASSUME SheetInv PROVE FieldsAreOfLastSaves
  <2>1. DOMAIN saves = 1..Len(saves)
    BY <1>1 DEF SheetInv, HistoryInv
  <2>2. saves = <<>> => row = NoRow
    BY <1>1 DEF SheetInv, RowInv
  <2>3. saves # <<>> => \A f \in Fields : \E i \in 1..Len(saves) : Latest(f, i)
    BY <1>1 DEF SheetInv, OriginInv
  <2>4. QED
    BY <2>1, <2>2, <2>3 DEF Latest, FieldsAreOfLastSaves
<1>2. QED
  BY <1>1, SheetInductive, PTL
================================================================================
