------------------------ MODULE AxiLiteSlaveProofs ------------------------
(***************************************************************************)
(* What both accelerators' AXI4-Lite slaves guarantee, for any registers   *)
(* behind them: lemmas about one edge of the two channels, cited by the    *)
(* proofs of the modules that extend AxiLiteSlave.                         *)
(***************************************************************************)
EXTENDS AxiLiteSlave, TwosComplement, FiniteSetTheorems, WellFoundedInduction,
        TLAPS

-----------------------------------------------------------------------------
(* What the arithmetic of fixed-width registers rests on, for every width. *)
(* The provers know nothing of exponentiation, so the facts about 2^n are  *)
(* read off the cardinality of a powerset.                                 *)

\* 2^n is a positive natural number: it counts the subsets of 1..n.
LEMMA PowPositive ==
    ASSUME NEW n \in Nat
    PROVE  2^n \in Nat /\ 2^n > 0
<1>1. IsFiniteSet(1..n) /\ Cardinality(1..n) = n
  BY FS_Interval
<1>2. IsFiniteSet(SUBSET (1..n)) /\ Cardinality(SUBSET (1..n)) = 2^n
  BY <1>1, FS_SUBSET
<1>3. Cardinality(SUBSET (1..n)) \in Nat
  BY <1>2, FS_CardinalityType
<1>4. SUBSET (1..n) # {}
  OBVIOUS
<1>5. Cardinality(SUBSET (1..n)) # 0
  BY <1>2, <1>4, FS_EmptySet
<1> QED BY <1>2, <1>3, <1>5

\* 2^n doubles with n: the subsets of 1..n+1 are those without n+1 and,
\* one for each of them, those with it.
LEMMA PowDouble ==
    ASSUME NEW n \in Nat
    PROVE  2^(n+1) = 2 * 2^n
<1> DEFINE A == SUBSET (1..n)
           B == {s \in SUBSET (1..(n+1)) : n+1 \in s}
           f == [s \in A |-> s \cup {n+1}]
<1>1. /\ IsFiniteSet(1..n) /\ Cardinality(1..n) = n
      /\ IsFiniteSet(1..(n+1)) /\ Cardinality(1..(n+1)) = n+1
  BY FS_Interval
<1>2. /\ IsFiniteSet(A) /\ Cardinality(A) = 2^n
      /\ Cardinality(SUBSET (1..(n+1))) = 2^(n+1)
  BY <1>1, FS_SUBSET
<1>3. f \in Bijection(A, B)
  <2>1. f \in [A -> B]
    OBVIOUS
  <2>2. \A s, t \in A : f[s] = f[t] => s = t
    <3> SUFFICES ASSUME NEW s \in A, NEW t \in A, f[s] = f[t] PROVE s = t
      OBVIOUS
    <3>1. n+1 \notin s /\ n+1 \notin t
      OBVIOUS
    <3>2. s = f[s] \ {n+1} /\ t = f[t] \ {n+1}
      BY <3>1, Zenon
    <3> QED BY <3>2
  <2>3. \A t \in B : \E s \in A : f[s] = t
    <3> SUFFICES ASSUME NEW t \in B PROVE \E s \in A : f[s] = t
      OBVIOUS
    <3>1. t \ {n+1} \in A
      OBVIOUS
    <3>2. f[t \ {n+1}] = t
      BY <3>1
    <3> QED BY <3>1, <3>2
  <2> QED BY <2>1, <2>2, <2>3 DEF Bijection, Injection, Surjection, IsInjective
<1>4. IsFiniteSet(B) /\ Cardinality(B) = 2^n
  BY <1>2, <1>3, FS_Bijection DEF ExistsBijection
<1>5. A \cup B = SUBSET (1..(n+1)) /\ A \cap B = {}
  <2>1. \A s : s \in SUBSET (1..(n+1)) /\ n+1 \notin s => s \in A
    OBVIOUS
  <2>2. \A s \in A : s \in SUBSET (1..(n+1)) /\ n+1 \notin s
    OBVIOUS
  <2> HIDE DEF A
  <2> QED BY <2>1, <2>2, Zenon
<1>6. Cardinality(A \cap B) = 0
  BY <1>5, FS_EmptySet
<1>7. Cardinality(A \cup B) = Cardinality(A) + Cardinality(B) - Cardinality(A \cap B)
  BY <1>2, <1>4, FS_Union
<1>8. 2^n \in Nat
  BY PowPositive
<1>9. 2^(n+1) = 2^n + 2^n - 0
  BY <1>2, <1>4, <1>5, <1>6, <1>7, Zenon
<1> QED BY <1>8, <1>9

\* 2^n grows with n: the subsets of 1..m are among those of 1..n.
LEMMA PowMonotone ==
    ASSUME NEW m \in Nat, NEW n \in Nat, m <= n
    PROVE  2^m <= 2^n
<1>1. /\ IsFiniteSet(1..m) /\ Cardinality(1..m) = m
      /\ IsFiniteSet(1..n) /\ Cardinality(1..n) = n
  BY FS_Interval
<1>2. /\ Cardinality(SUBSET (1..m)) = 2^m
      /\ IsFiniteSet(SUBSET (1..n)) /\ Cardinality(SUBSET (1..n)) = 2^n
  BY <1>1, FS_SUBSET
<1>3. SUBSET (1..m) \in SUBSET (SUBSET (1..n))
  OBVIOUS
<1> QED BY <1>2, <1>3, FS_Subset

\* Exponents add: a subset of 1..m+n is a subset of 1..m together with one of
\* m+1..m+n.
LEMMA PowSum ==
    ASSUME NEW m \in Nat, NEW n \in Nat
    PROVE  2^(m+n) = 2^m * 2^n
<1> DEFINE A == SUBSET (1..m)
           B == SUBSET ((m+1)..(m+n))
           C == SUBSET (1..(m+n))
           f == [p \in A \X B |-> p[1] \cup p[2]]
<1>1. /\ IsFiniteSet(1..m) /\ Cardinality(1..m) = m
      /\ IsFiniteSet((m+1)..(m+n)) /\ Cardinality((m+1)..(m+n)) = n
      /\ IsFiniteSet(1..(m+n)) /\ Cardinality(1..(m+n)) = m+n
  <2>1. IsFiniteSet(1..m) /\ Cardinality(1..m) = m
    BY FS_Interval
  <2>2. m+1 \in Int /\ m+n \in Int
    OBVIOUS
  <2>3. /\ IsFiniteSet((m+1)..(m+n))
        /\ Cardinality((m+1)..(m+n)) = IF m+1 > m+n THEN 0 ELSE (m+n) - (m+1) + 1
    BY <2>2, FS_Interval, Zenon
  <2>4. /\ IsFiniteSet(1..(m+n))
        /\ Cardinality(1..(m+n)) = IF 1 > m+n THEN 0 ELSE (m+n) - 1 + 1
    BY <2>2, FS_Interval
  <2> QED BY <2>1, <2>3, <2>4
<1>2. /\ IsFiniteSet(A) /\ Cardinality(A) = 2^m
      /\ IsFiniteSet(B) /\ Cardinality(B) = 2^n
      /\ Cardinality(C) = 2^(m+n)
  BY <1>1, FS_SUBSET
<1>3. IsFiniteSet(A \X B) /\ Cardinality(A \X B) = 2^m * 2^n
  BY <1>2, FS_Product
<1>4. f \in Bijection(A \X B, C)
  <2>1. ASSUME NEW p \in A \X B PROVE f[p] \in C
    <3>1. p[1] \in A /\ p[2] \in B
      OBVIOUS
    <3>2. p[1] \subseteq 1..(m+n) /\ p[2] \subseteq 1..(m+n)
      BY <3>1
    <3> QED BY <3>2
  <2>2. f \in [A \X B -> C]
    BY <2>1
  <2>3. \A p \in A \X B : p[1] = f[p] \cap (1..m) /\ p[2] = f[p] \cap ((m+1)..(m+n))
    <3> SUFFICES ASSUME NEW p \in A \X B
                 PROVE  /\ p[1] = f[p] \cap (1..m)
                        /\ p[2] = f[p] \cap ((m+1)..(m+n))
      OBVIOUS
    <3>1. p[1] \subseteq 1..m /\ p[2] \subseteq (m+1)..(m+n)
      OBVIOUS
    <3>2. (1..m) \cap ((m+1)..(m+n)) = {}
      OBVIOUS
    <3>3. f[p] = p[1] \cup p[2]
      OBVIOUS
    <3> QED BY <3>1, <3>2, <3>3, Zenon
  <2>4. \A p, q \in A \X B : f[p] = f[q] => p = q
    <3> SUFFICES ASSUME NEW p \in A \X B, NEW q \in A \X B, f[p] = f[q] PROVE p = q
      OBVIOUS
    <3>1. p[1] = q[1] /\ p[2] = q[2]
      <4>1. p[1] = f[p] \cap (1..m) /\ p[2] = f[p] \cap ((m+1)..(m+n))
        BY <2>3
      <4>2. q[1] = f[q] \cap (1..m) /\ q[2] = f[q] \cap ((m+1)..(m+n))
        BY <2>3
      <4> HIDE DEF f
      <4> QED BY <4>1, <4>2
    <3>2. p = <<p[1], p[2]>> /\ q = <<q[1], q[2]>>
      OBVIOUS
    <3> QED BY <3>1, <3>2, Zenon
  <2>5. \A t \in C : \E p \in A \X B : f[p] = t
    <3> SUFFICES ASSUME NEW t \in C PROVE \E p \in A \X B : f[p] = t
      OBVIOUS
    <3> DEFINE q == <<t \cap (1..m), t \cap ((m+1)..(m+n))>>
    <3>1. q \in A \X B
      OBVIOUS
    <3>2. f[q] = (t \cap (1..m)) \cup (t \cap ((m+1)..(m+n)))
      BY <3>1
    <3>3. \A i \in t : i \in 1..m \/ i \in (m+1)..(m+n)
      OBVIOUS
    <3>4. f[q] = t
      BY <3>2, <3>3, Zenon
    <3> QED BY <3>1, <3>4
  <2> HIDE DEF A, B, C, f
  <2> QED BY <2>2, <2>4, <2>5 DEF Bijection, Injection, Surjection, IsInjective
<1>5. Cardinality(C) = Cardinality(A \X B)
  BY <1>3, <1>4, FS_Bijection DEF ExistsBijection
<1> QED BY <1>2, <1>3, <1>5

\* Reduction modulo a positive number lands below it.
LEMMA ModRange ==
    ASSUME NEW M \in Nat, M > 0, NEW x \in Int
    PROVE  x % M \in 0 .. M-1
OBVIOUS

\* Assigning any integer to a signed register leaves a value of its range.
LEMMA SignedInRange ==
    ASSUME NEW w \in Nat \ {0}, NEW x \in Int
    PROVE  Signed(x, w) \in SignedRange(w)
<1> DEFINE H == 2^(w-1)
           M == 2^w
<1>1. w-1 \in Nat /\ w = (w-1) + 1
  OBVIOUS
<1>2. H \in Nat /\ M \in Nat /\ M > 0
  BY <1>1, PowPositive
<1>3. M = 2 * H
  BY <1>1, PowDouble
<1>4. (x + H) % M \in 0 .. M-1
  BY <1>2, ModRange
<1>5. Signed(x, w) = ((x + H) % M) - H /\ SignedRange(w) = -H .. H-1
  BY DEF Signed, SignedRange
<1> HIDE DEF H, M
<1> QED BY <1>2, <1>3, <1>4, <1>5

\* A value of its range survives assignment to a signed register.
LEMMA SignedOfRange ==
    ASSUME NEW w \in Nat \ {0}, NEW x \in SignedRange(w)
    PROVE  Signed(x, w) = x
<1> DEFINE H == 2^(w-1)
           M == 2^w
<1>1. w-1 \in Nat /\ w = (w-1) + 1
  OBVIOUS
<1>2. H \in Nat /\ M \in Nat /\ M > 0
  BY <1>1, PowPositive
<1>3. M = 2 * H
  BY <1>1, PowDouble
<1>4. Signed(x, w) = ((x + H) % M) - H /\ x \in -H .. H-1
  BY DEF Signed, SignedRange
<1> HIDE DEF H, M
<1>5. x + H \in 0 .. M-1
  BY <1>2, <1>3, <1>4
<1>6. (x + H) % M = x + H
  BY <1>2, <1>5
<1> QED BY <1>2, <1>4, <1>6

\* Assigning any integer to an unsigned register leaves a value of its range.
LEMMA UnsignedInRange ==
    ASSUME NEW w \in Nat, NEW x \in Int
    PROVE  Unsigned(x, w) \in 0 .. 2^w - 1
<1>1. 2^w \in Nat /\ 2^w > 0
  BY PowPositive
<1> QED BY <1>1, ModRange DEF Unsigned

\* Every non-empty set of naturals has a least element: the form in which
\* induction reaches the provers, as a least counterexample.
LEMMA LeastNat ==
    ASSUME NEW T, T \subseteq Nat, T # {}
    PROVE  \E x \in T : \A y \in T : x <= y
<1> DEFINE R == {ss \in Nat \X Nat : ss[1] < ss[2]}
<1>1. IsWellFoundedOn(R, Nat)
  BY NatLessThanWellFounded, Zenon DEF OpToRel
<1>2. \E x \in T : \A y \in T : ~ (<<y, x>> \in R)
  <2> HIDE DEF R
  <2> QED BY <1>1, WFMin
<1>3. PICK x \in T : \A y \in T : ~ (<<y, x>> \in R)
  BY <1>2
<1>4. \A y \in T : x <= y
  <2> SUFFICES ASSUME NEW y \in T PROVE x <= y
    OBVIOUS
  <2>1. ~ (<<y, x>> \in R) /\ x \in Nat /\ y \in Nat
    BY <1>3
  <2>2. ~ (y < x)
    BY <2>1
  <2> QED BY <2>1, <2>2
<1> QED BY <1>4

\* Quotient and remainder are unique.
LEMMA ModUnique ==
    ASSUME NEW M \in Nat, M > 0, NEW q \in Int, NEW r \in 0..M-1
    PROVE (M * q + r) % M = r
<1> DEFINE x == M * q + r
           q2 == x \div M
           r2 == x % M
<1>1. x \in Int /\ q2 \in Int /\ r2 \in 0 .. M-1
  OBVIOUS
<1>2. x = M * q2 + r2
  OBVIOUS
<1>3. M * (q - q2) = r2 - r
  BY <1>1, <1>2
<1> HIDE DEF x, q2, r2
<1>4. CASE q - q2 >= 1
  <2>1. M * (q - q2) >= M
    BY <1>1, <1>4
  <2> QED BY <1>1, <1>3, <2>1
<1>5. CASE q2 - q >= 1
  <2>1. M * (q2 - q) >= M
    BY <1>1, <1>5
  <2>2. M * (q2 - q) = r - r2
    BY <1>1, <1>3
  <2> QED BY <1>1, <2>2, <2>1
<1>6. CASE q = q2
  <2>1. r2 = r
    BY <1>1, <1>3, <1>6
  <2> QED BY <2>1 DEF r2, x
<1> QED BY <1>1, <1>4, <1>5, <1>6

\* Adding a multiple of the modulus leaves the remainder.
LEMMA ModShift ==
    ASSUME NEW M \in Nat, M > 0, NEW x \in Int, NEW k \in Int
    PROVE (x + M * k) % M = x % M
<1>1. x = M * (x \div M) + (x % M) /\ x \div M \in Int /\ x % M \in 0..M-1
  OBVIOUS
<1>2. x + M * k = M * (x \div M + k) + (x % M)
  BY <1>1
<1>3. x \div M + k \in Int
  BY <1>1
<1> QED BY <1>1, <1>2, <1>3, ModUnique

\* What a signed register shows of x differs from x by a multiple of 2^w.
LEMMA SignedCongruent ==
    ASSUME NEW w \in Nat \ {0}, NEW x \in Int
    PROVE  \E k \in Int : Signed(x, w) = x + 2^w * k
<1> DEFINE H == 2^(w-1)
           M == 2^w
<1>1. w-1 \in Nat
  OBVIOUS
<1>2. H \in Nat /\ M \in Nat /\ M > 0
  BY <1>1, PowPositive
<1> HIDE DEF H, M
<1>3. /\ x + H = M * ((x + H) \div M) + ((x + H) % M)
      /\ (x + H) \div M \in Int /\ (x + H) % M \in Int
  BY <1>2
<1>4. Signed(x, w) = ((x + H) % M) - H
  BY DEF Signed, H, M
<1> DEFINE k == (x + H) \div M
<1>5. -k \in Int /\ M * (-k) = -(M * k)
  BY <1>2, <1>3
<1>6. Signed(x, w) = x + M * (-k)
  BY <1>2, <1>3, <1>4, <1>5
<1> QED BY <1>5, <1>6 DEF M

\* Wrapping the operands of a sum first does not change what the register shows
\* of the sum.
LEMMA SignedSum ==
    ASSUME NEW w \in Nat \ {0}, NEW x \in Int, NEW y \in Int
    PROVE  Signed(Signed(x, w) + Signed(y, w), w) = Signed(x + y, w)
<1> DEFINE H == 2^(w-1)
           M == 2^w
<1>1. w-1 \in Nat
  OBVIOUS
<1>2. H \in Nat /\ M \in Nat /\ M > 0
  BY <1>1, PowPositive
<1>3. PICK k \in Int : Signed(x, w) = x + M * k
  BY SignedCongruent
<1>4. PICK l \in Int : Signed(y, w) = y + M * l
  BY SignedCongruent
<1> HIDE DEF H, M
<1>5. k + l \in Int /\ M * (k + l) = M * k + M * l /\ M * k \in Int /\ M * l \in Int
  BY <1>2
<1>6. Signed(x, w) + Signed(y, w) + H = (x + y + H) + M * (k + l)
  BY <1>2, <1>3, <1>4, <1>5
<1>7. ((x + y + H) + M * (k + l)) % M = (x + y + H) % M
  <2>1. x + y + H \in Int
    BY <1>2
  <2> QED BY <1>2, <1>5, <2>1, ModShift
<1> QED BY <1>6, <1>7 DEF Signed, H, M

\* A counter that wraps shows the count, wrapped.
LEMMA UnsignedNext ==
    ASSUME NEW w \in Nat, NEW x \in Int
    PROVE  Unsigned(Unsigned(x, w) + 1, w) = Unsigned(x + 1, w)
<1> DEFINE M == 2^w
<1>1. M \in Nat /\ M > 0
  BY PowPositive
<1> HIDE DEF M
<1>2. x = M * (x \div M) + (x % M) /\ x \div M \in Int /\ x % M \in Int
  BY <1>1
<1> DEFINE k == x \div M
           r == x % M
<1> HIDE DEF k, r
<1>3. x = M * k + r /\ k \in Int /\ r \in Int /\ M * k \in Int
  BY <1>1, <1>2 DEF k, r
<1>4. x + 1 = (r + 1) + M * k
  BY <1>3
<1>5. (x + 1) % M = (r + 1) % M
  <2>1. r + 1 \in Int
    BY <1>3
  <2>2. ((r + 1) + M * k) % M = (r + 1) % M
    BY <1>1, <1>3, <2>1, ModShift
  <2> QED BY <1>4, <2>2
<1> QED BY <1>5 DEF Unsigned, M, r

-----------------------------------------------------------------------------
(* The slave                                                               *)

\* The ports carry what the environment may put on them.
SlavePortsOK(aw, w, bready, ar, rready) ==
    /\ aw \in [valid : BOOLEAN, addr : WrAddrs]
    /\ w \in [valid : BOOLEAN, data : WrData]
    /\ ar \in [valid : BOOLEAN, addr : RdAddrs \cup {"NONE"}]
    /\ ar.valid => ar.addr \in RdAddrs
    /\ bready \in BOOLEAN /\ rready \in BOOLEAN

\* Every edge the next-state relation takes has well-typed ports.
LEMMA SlavePorts ==
    ASSUME SlaveTypeOK,
           NEW aw \in AwPort, NEW w \in WPort, NEW bready \in BPort,
           NEW ar \in ArPort, NEW rready \in RPort
    PROVE  SlavePortsOK(aw, w, bready, ar, rready)
<1>1. aw \in [valid : BOOLEAN, addr : WrAddrs]
  <2>1. CASE aw = [valid |-> FALSE, addr |-> aw_addr_q]
    BY <2>1 DEF SlaveTypeOK
  <2>2. CASE aw \in [valid : {TRUE}, addr : WrAddrs]
    BY <2>2
  <2> QED BY <2>1, <2>2 DEF AwPort, Offer
<1>2. w \in [valid : BOOLEAN, data : WrData]
  <2>1. CASE w = [valid |-> FALSE, data |-> w_data_q]
    BY <2>1 DEF SlaveTypeOK
  <2>2. CASE w \in [valid : {TRUE}, data : WrData]
    BY <2>2
  <2> QED BY <2>1, <2>2 DEF WPort, Offer
<1>3. /\ ar \in [valid : BOOLEAN, addr : RdAddrs \cup {"NONE"}]
      /\ ar.valid => ar.addr \in RdAddrs
  <2>1. CASE ar = [valid |-> FALSE, addr |-> rd_reg]
    BY <2>1 DEF SlaveTypeOK
  <2>2. CASE ar \in [valid : {TRUE}, addr : RdAddrs]
    BY <2>2
  <2> QED BY <2>1, <2>2 DEF ArPort, Offer
<1>4. bready \in BOOLEAN /\ rready \in BOOLEAN
  BY DEF BPort, RPort, Offer
<1> QED BY <1>1, <1>2, <1>3, <1>4 DEF SlavePortsOK

-----------------------------------------------------------------------------
(* Type correctness                                                        *)

\* Zero, the reset value of the data bus, is a word.
LEMMA ZeroWord == 0 \in Words
<1>1. 2^AXIL_DATA_W \in Nat /\ 2^AXIL_DATA_W > 0
  BY BusWidth, PowPositive
<1> QED BY <1>1 DEF Words

\* Reset leaves both channels well typed.
LEMMA SlaveResetTypes == SlaveTypeOK /\ SlaveReset => SlaveTypeOK'
<1> SUFFICES ASSUME SlaveTypeOK, SlaveReset PROVE SlaveTypeOK'
  OBVIOUS
<1>1. /\ aw_pend' \in BOOLEAN /\ w_pend' \in BOOLEAN /\ bvalid_q' \in BOOLEAN
      /\ rvalid_q' \in BOOLEAN
  BY DEF SlaveReset
<1>2. unanswered' \in Int /\ rd_reg' \in RdAddrs \cup {"NONE"}
  BY DEF SlaveReset
<1>3. /\ aw_addr_q' \in WrAddrs /\ w_data_q' \in WrData /\ rdata_q' \in Words
      /\ applied' \in SUBSET [addr : WrAddrs, data : WrData]
  BY ZeroWord DEF SlaveTypeOK, SlaveReset
<1>4. awq' \in Seq(WrAddrs) /\ wq' \in Seq(WrData)
  BY DEF SlaveReset
<1> QED BY <1>1, <1>2, <1>3, <1>4 DEF SlaveTypeOK

\* So are they initially.
LEMMA SlaveInitTypes == SlaveInit => SlaveTypeOK
<1> SUFFICES ASSUME SlaveInit PROVE SlaveTypeOK
  OBVIOUS
<1>1. /\ aw_pend \in BOOLEAN /\ w_pend \in BOOLEAN /\ bvalid_q \in BOOLEAN
      /\ rvalid_q \in BOOLEAN
  BY DEF SlaveInit
<1>2. unanswered \in Int /\ rd_reg \in RdAddrs \cup {"NONE"}
  BY DEF SlaveInit
<1>3. /\ aw_addr_q \in WrAddrs /\ w_data_q \in WrData /\ rdata_q \in Words
      /\ applied \in SUBSET [addr : WrAddrs, data : WrData]
  BY ZeroWord DEF SlaveInit
<1>4. awq \in Seq(WrAddrs) /\ wq \in Seq(WrData)
  BY DEF SlaveInit
<1> QED BY <1>1, <1>2, <1>3, <1>4 DEF SlaveTypeOK

\* An edge keeps both channels well typed if the multiplexer shows a word to
\* every read it answers.
LEMMA SlaveEdgeTypes ==
    ASSUME SlaveTypeOK, NEW aw, NEW w, NEW bready, NEW ar, NEW rready, NEW word,
           SlavePortsOK(aw, w, bready, ar, rready),
           ar.addr \in RdAddrs => word \in Words,
           SlaveEdge(aw, w, bready, ar, rready, word)
    PROVE  SlaveTypeOK'
<1>1. /\ aw.valid \in BOOLEAN /\ aw.addr \in WrAddrs
      /\ w.valid \in BOOLEAN /\ w.data \in WrData
      /\ ar.valid \in BOOLEAN /\ (ar.valid => ar.addr \in RdAddrs)
      /\ bready \in BOOLEAN /\ rready \in BOOLEAN
  BY DEF SlavePortsOK
<1>2. /\ aw_pend' \in BOOLEAN /\ w_pend' \in BOOLEAN /\ bvalid_q' \in BOOLEAN
      /\ aw_addr_q' \in WrAddrs /\ w_data_q' \in WrData
  <2>1. WriteChannel(aw, w, bready)
    BY DEF SlaveEdge
  <2> QED BY <1>1, <2>1 DEF WriteChannel, SlaveTypeOK
<1>3. rvalid_q' \in BOOLEAN /\ rdata_q' \in Words
  <2>1. ReadChannel(ar, rready, word)
    BY DEF SlaveEdge
  <2>2. ar_fire(ar) => word \in Words
    BY <1>1 DEF ar_fire
  <2> QED BY <2>1, <2>2 DEF ReadChannel, SlaveTypeOK
<1>4. /\ awq' \in Seq(WrAddrs) /\ wq' \in Seq(WrData)
      /\ applied' \in SUBSET [addr : WrAddrs, data : WrData]
      /\ unanswered' \in Int /\ rd_reg' \in RdAddrs \cup {"NONE"}
  <2>0. SlaveHistory(aw, w, bready, ar)
    BY DEF SlaveEdge
  <2> DEFINE awAll == Queued(awq, aw_fire(aw), aw.addr)
             wAll  == Queued(wq, w_fire(w), w.data)
  <2>1. awAll \in Seq(WrAddrs) /\ wAll \in Seq(WrData)
    BY <1>1 DEF SlaveTypeOK, Queued
  <2>2. /\ awq' = IF awAll # <<>> /\ wAll # <<>> THEN Tail(awAll) ELSE awAll
        /\ wq'  = IF awAll # <<>> /\ wAll # <<>> THEN Tail(wAll) ELSE wAll
        /\ applied' = IF awAll # <<>> /\ wAll # <<>>
                      THEN {[addr |-> Head(awAll), data |-> Head(wAll)]} ELSE {}
    BY <2>0 DEF SlaveHistory
  <2> HIDE DEF awAll, wAll
  <2>3. /\ awq' \in Seq(WrAddrs) /\ wq' \in Seq(WrData)
        /\ applied' \in SUBSET [addr : WrAddrs, data : WrData]
    BY <2>1, <2>2
  <2>4. unanswered' \in Int /\ rd_reg' \in RdAddrs \cup {"NONE"}
    BY <1>1, <2>0 DEF SlaveHistory, SlaveTypeOK, ar_fire
  <2> QED BY <2>3, <2>4
<1> QED BY <1>2, <1>3, <1>4 DEF SlaveTypeOK

-----------------------------------------------------------------------------
(* The inductive invariant of the write channel                            *)

\* At most one half of a write is held, nothing is held while a response is
\* outstanding, and what is held is what the master issued.
WriteChannelInv ==
    /\ SlaveTypeOK
    /\ ~(aw_pend /\ w_pend)
    /\ bvalid_q => ~aw_pend /\ ~w_pend
    /\ awq = IF aw_pend THEN <<aw_addr_q>> ELSE <<>>
    /\ wq = IF w_pend THEN <<w_data_q>> ELSE <<>>
    /\ OneResponsePerWrite

\* A one-element sequence.
LEMMA Singleton ==
    ASSUME NEW x
    PROVE  <<x>> # <<>> /\ Head(<<x>>) = x /\ Tail(<<x>>) = <<>>
OBVIOUS

\* What the history calls a completed write is exactly what the slave commits:
\* same edge, same address, same data.
LEMMA PairingIsCommit ==
    ASSUME WriteChannelInv, NEW aw, NEW w, NEW bready, NEW ar, NEW rready,
           SlavePortsOK(aw, w, bready, ar, rready),
           SlaveHistory(aw, w, bready, ar)
    PROVE  /\ awq' = IF ~wr_commit(aw, w) /\ (aw_pend \/ aw_fire(aw))
                     THEN <<wr_addr(aw)>> ELSE <<>>
           /\ wq' = IF ~wr_commit(aw, w) /\ (w_pend \/ w_fire(w))
                    THEN <<wr_data(w)>> ELSE <<>>
           /\ applied' = IF wr_commit(aw, w)
                         THEN {[addr |-> wr_addr(aw), data |-> wr_data(w)]} ELSE {}
           /\ unanswered' = unanswered + (IF wr_commit(aw, w) THEN 1 ELSE 0)
                                       - (IF bvalid_q /\ bready THEN 1 ELSE 0)
<1> DEFINE awAll == Queued(awq, aw_fire(aw), aw.addr)
           wAll  == Queued(wq, w_fire(w), w.data)
           paired == awAll # <<>> /\ wAll # <<>>
<1>0. aw.valid \in BOOLEAN /\ w.valid \in BOOLEAN
  BY DEF SlavePortsOK
<1>1. awAll = IF aw_pend \/ aw_fire(aw) THEN <<wr_addr(aw)>> ELSE <<>>
  BY <1>0 DEF WriteChannelInv, aw_fire, s_axi_awready, wr_addr, Queued
<1>2. wAll = IF w_pend \/ w_fire(w) THEN <<wr_data(w)>> ELSE <<>>
  BY <1>0 DEF WriteChannelInv, w_fire, s_axi_wready, wr_data, Queued
<1>3. paired <=> wr_commit(aw, w)
  <2> HIDE DEF awAll, wAll
  <2>1. awAll # <<>> <=> (aw_pend \/ aw_fire(aw))
    BY <1>1, Singleton, Zenon
  <2>2. wAll # <<>> <=> (w_pend \/ w_fire(w))
    BY <1>2, Singleton, Zenon
  <2> QED BY <2>1, <2>2 DEF wr_commit
<1>4. /\ awq' = IF paired THEN Tail(awAll) ELSE awAll
      /\ wq' = IF paired THEN Tail(wAll) ELSE wAll
      /\ applied' = IF paired THEN {[addr |-> Head(awAll), data |-> Head(wAll)]} ELSE {}
      /\ unanswered' = unanswered + (IF paired THEN 1 ELSE 0)
                                  - (IF bvalid_q /\ bready THEN 1 ELSE 0)
  BY DEF SlaveHistory
<1> HIDE DEF awAll, wAll, paired
<1>5. wr_commit(aw, w) => awAll = <<wr_addr(aw)>> /\ wAll = <<wr_data(w)>>
  BY <1>1, <1>2 DEF wr_commit
<1>6. wr_commit(aw, w) => /\ Head(awAll) = wr_addr(aw) /\ Tail(awAll) = <<>>
                          /\ Head(wAll) = wr_data(w) /\ Tail(wAll) = <<>>
  BY <1>5, Singleton, Zenon
<1>7. awq' = IF ~wr_commit(aw, w) /\ (aw_pend \/ aw_fire(aw))
             THEN <<wr_addr(aw)>> ELSE <<>>
  BY <1>1, <1>3, <1>4, <1>6
<1>8. wq' = IF ~wr_commit(aw, w) /\ (w_pend \/ w_fire(w))
            THEN <<wr_data(w)>> ELSE <<>>
  BY <1>2, <1>3, <1>4, <1>6
<1>9. applied' = IF wr_commit(aw, w)
                 THEN {[addr |-> wr_addr(aw), data |-> wr_data(w)]} ELSE {}
  BY <1>3, <1>4, <1>6
<1>10. unanswered' = unanswered + (IF wr_commit(aw, w) THEN 1 ELSE 0)
                                - (IF bvalid_q /\ bready THEN 1 ELSE 0)
  BY <1>3, <1>4
<1> QED BY <1>7, <1>8, <1>9, <1>10

\* An edge keeps the write channel's invariant.
LEMMA SlaveEdgeInv ==
    ASSUME WriteChannelInv, NEW aw, NEW w, NEW bready, NEW ar, NEW rready, NEW word,
           SlavePortsOK(aw, w, bready, ar, rready),
           ar.addr \in RdAddrs => word \in Words,
           SlaveEdge(aw, w, bready, ar, rready, word)
    PROVE  WriteChannelInv'
<1>1. /\ aw.valid \in BOOLEAN /\ w.valid \in BOOLEAN /\ bready \in BOOLEAN
  BY DEF SlavePortsOK
<1>2. SlaveTypeOK'
  BY SlaveEdgeTypes DEF WriteChannelInv
<1>3. WriteChannel(aw, w, bready) /\ SlaveHistory(aw, w, bready, ar)
  BY DEF SlaveEdge
<1>4. /\ awq' = IF ~wr_commit(aw, w) /\ (aw_pend \/ aw_fire(aw))
                THEN <<wr_addr(aw)>> ELSE <<>>
      /\ wq' = IF ~wr_commit(aw, w) /\ (w_pend \/ w_fire(w))
               THEN <<wr_data(w)>> ELSE <<>>
      /\ unanswered' = unanswered + (IF wr_commit(aw, w) THEN 1 ELSE 0)
                                  - (IF bvalid_q /\ bready THEN 1 ELSE 0)
  BY <1>3, PairingIsCommit
<1>5. ~(aw_pend' /\ w_pend') /\ (bvalid_q' => ~aw_pend' /\ ~w_pend')
  BY <1>1, <1>3 DEF WriteChannel, WriteChannelInv, SlaveTypeOK,
     wr_commit, aw_fire, w_fire, s_axi_awready, s_axi_wready
<1>6. awq' = IF aw_pend' THEN <<aw_addr_q'>> ELSE <<>>
  BY <1>3, <1>4 DEF WriteChannel, wr_addr, aw_fire, s_axi_awready
<1>7. wq' = IF w_pend' THEN <<w_data_q'>> ELSE <<>>
  BY <1>3, <1>4 DEF WriteChannel, wr_data, w_fire, s_axi_wready
<1>8. OneResponsePerWrite'
  <2>1. bvalid_q => ~wr_commit(aw, w)
    BY DEF WriteChannelInv, wr_commit, aw_fire, w_fire, s_axi_awready, s_axi_wready
  <2>2. bvalid_q' <=> (bvalid_q \/ wr_commit(aw, w)) /\ ~(bvalid_q /\ bready)
    BY <1>3, Zenon DEF WriteChannel
  <2>3. unanswered = IF bvalid_q THEN 1 ELSE 0
    BY DEF WriteChannelInv, OneResponsePerWrite
  <2>4. unanswered' = unanswered + (IF wr_commit(aw, w) THEN 1 ELSE 0)
                                 - (IF bvalid_q /\ bready THEN 1 ELSE 0)
    BY <1>4
  <2>5. unanswered' = IF bvalid_q' THEN 1 ELSE 0
    <3>1. CASE bvalid_q /\ bready
      BY <2>1, <2>2, <2>3, <2>4, <3>1
    <3>2. CASE bvalid_q /\ ~bready
      BY <2>1, <2>2, <2>3, <2>4, <3>2
    <3>3. CASE ~bvalid_q
      BY <2>2, <2>3, <2>4, <3>3
    <3> QED BY <3>1, <3>2, <3>3
  <2> QED BY <2>5 DEF OneResponsePerWrite
<1> QED BY <1>2, <1>5, <1>6, <1>7, <1>8 DEF WriteChannelInv

\* Reset establishes it from any well-typed state.
LEMMA SlaveResetInv == SlaveTypeOK /\ SlaveReset => WriteChannelInv'
<1> SUFFICES ASSUME SlaveTypeOK, SlaveReset PROVE WriteChannelInv'
  OBVIOUS
<1>1. SlaveTypeOK'
  BY SlaveResetTypes
<1> QED BY <1>1 DEF SlaveReset, WriteChannelInv, OneResponsePerWrite

\* It holds initially.
LEMMA SlaveInitInv == SlaveInit => WriteChannelInv
<1> SUFFICES ASSUME SlaveInit PROVE WriteChannelInv
  OBVIOUS
<1>1. SlaveTypeOK
  BY SlaveInitTypes
<1> QED BY <1>1 DEF SlaveInit, WriteChannelInv, OneResponsePerWrite

\* Stuttering keeps it.
LEMMA SlaveStutterInv == WriteChannelInv /\ UNCHANGED slaveVars => WriteChannelInv'
BY DEF slaveVars, WriteChannelInv, SlaveTypeOK, OneResponsePerWrite
=============================================================================
