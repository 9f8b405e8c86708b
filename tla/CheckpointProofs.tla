---------------------------- MODULE CheckpointProofs ----------------------------
(* Opening a checkpoint, for every set of files: what opens lies in its    *)
(* file, overlaps nothing and is whole, the preflight reads the same       *)
(* header as the parser, however many windows it takes, and the names of   *)
(* the two translations are those that the builders ask for.               *)
EXTENDS Checkpoint, TLAPS, FiniteSetTheorems, WellFoundedInduction

(* Counting: a set with 0 and with every successor of its members has all. *)
LEMMA CountUp ==
  ASSUME NEW S \in SUBSET Nat, 0 \in S, \A n \in S : n + 1 \in S
  PROVE  \A n \in Nat : n \in S
<1> SUFFICES ASSUME NEW n \in Nat, n \notin S PROVE FALSE
  OBVIOUS
<1> DEFINE R == OpToRel(<, Nat)
           T == Nat \ S
<1>1. IsWellFoundedOn(R, Nat)
  BY NatLessThanWellFounded
<1>2. T \subseteq Nat /\ T # {}
  OBVIOUS
<1>3. PICK low \in T : \A y \in T : ~ (<<y, low>> \in R)
  <2> HIDE DEF R, T
  <2> QED
    BY <1>1, <1>2, WFMin
<1>4. low - 1 \in Nat /\ low - 1 < low
  OBVIOUS
<1>5. low - 1 \notin T
  BY <1>3, <1>4 DEF OpToRel
<1>6. low - 1 \in S
  BY <1>4, <1>5
<1>7. low - 1 + 1 = low
  BY <1>4
<1> QED
  BY <1>6, <1>7
--------------------------------------------------------------------------------
(* Total, Numel and Cursor walk a sequence; each is a function defined by  *)
(* recursion on the position.  These are the functions, and the right-hand *)
(* sides of their equations up to a last position.                         *)

Sums(s) ==
  LET sum[k \in 0 .. Len(s)] == IF k = 0 THEN 0 ELSE sum[k - 1] + s[k] IN sum
SumsTo(s, last, sum) == [k \in 0 .. last |-> IF k = 0 THEN 0 ELSE sum[k - 1] + s[k]]

Products(s) ==
  LET product[k \in 0 .. Len(s)] == IF k = 0 THEN 1 ELSE product[k - 1] * s[k] IN product
ProductsTo(s, last, product) ==
  [k \in 0 .. last |-> IF k = 0 THEN 1 ELSE product[k - 1] * s[k]]

Cursors(fields, n) ==
  LET c[k \in 0 .. Len(fields)] ==
        IF k = 0 THEN [ok |-> TRUE, pos |-> 0] ELSE take(c[k - 1], fields[k], n)
  IN c
CursorsTo(fields, n, last, c) ==
  [k \in 0 .. last |->
     IF k = 0 THEN [ok |-> TRUE, pos |-> 0] ELSE take(c[k - 1], fields[k], n)]

LEMMA TotalIsLast ==
  ASSUME NEW s
  PROVE  Total(s) = Sums(s)[Len(s)]
BY DEF Total, Sums

LEMMA NumelIsLast ==
  ASSUME NEW s
  PROVE  Numel(s) = Products(s)[Len(s)]
BY DEF Numel, Products

LEMMA CursorIsLast ==
  ASSUME NEW fields, NEW n
  PROVE  Cursor(fields, n) = Cursors(fields, n)[Len(fields)]
BY DEF Cursor, Cursors

LEMMA SumsExist ==
  ASSUME NEW s, Len(s) \in Nat
  PROVE  \E sum : sum = SumsTo(s, Len(s), sum)
<1> DEFINE S == {n \in Nat : \E sum : sum = SumsTo(s, n, sum)}
<1>1. 0 \in S
  <2> DEFINE a == [k \in 0 .. 0 |-> 0]
  <2>1. a = SumsTo(s, 0, a)
    BY DEF SumsTo
  <2> QED
    BY <2>1
<1>2. ASSUME NEW n \in S PROVE n + 1 \in S
  <2>1. PICK a : a = SumsTo(s, n, a)
    OBVIOUS
  <2> DEFINE b == SumsTo(s, n + 1, a)
  <2>2. ASSUME NEW k \in 0 .. n + 1, k # 0 PROVE b[k - 1] = a[k - 1]
    <3>1. k - 1 \in 0 .. n /\ k - 1 \in 0 .. n + 1
      BY <2>2
    <3>2. a[k - 1] = IF k - 1 = 0 THEN 0 ELSE a[k - 1 - 1] + s[k - 1]
      BY <2>1, <3>1 DEF SumsTo
    <3> QED
      BY <3>1, <3>2 DEF SumsTo
  <2>3. b = SumsTo(s, n + 1, b)
    BY <2>2 DEF SumsTo
  <2> HIDE DEF b
  <2> QED
    BY <2>3
<1>3. S \in SUBSET Nat
  OBVIOUS
<1>4. Len(s) \in S
  <2> HIDE DEF S
  <2> QED
    BY <1>1, <1>2, <1>3, CountUp
<1> QED
  BY <1>4

LEMMA SumsUnfold ==
  ASSUME NEW s, Len(s) \in Nat
  PROVE  \A k \in 0 .. Len(s) :
           Sums(s)[k] = IF k = 0 THEN 0 ELSE Sums(s)[k - 1] + s[k]
<1>1. Sums(s) = CHOOSE sum : sum = SumsTo(s, Len(s), sum)
  BY DEF Sums, SumsTo
<1>2. Sums(s) = SumsTo(s, Len(s), Sums(s))
  BY <1>1, SumsExist
<1> QED
  BY <1>2 DEF SumsTo

LEMMA ProductsExist ==
  ASSUME NEW s, Len(s) \in Nat
  PROVE  \E product : product = ProductsTo(s, Len(s), product)
<1> DEFINE S == {m \in Nat : \E product : product = ProductsTo(s, m, product)}
<1>1. 0 \in S
  <2> DEFINE a == [k \in 0 .. 0 |-> 1]
  <2>1. a = ProductsTo(s, 0, a)
    BY DEF ProductsTo
  <2> QED
    BY <2>1
<1>2. ASSUME NEW m \in S PROVE m + 1 \in S
  <2>1. PICK a : a = ProductsTo(s, m, a)
    OBVIOUS
  <2> DEFINE b == ProductsTo(s, m + 1, a)
  <2>2. ASSUME NEW k \in 0 .. m + 1, k # 0 PROVE b[k - 1] = a[k - 1]
    <3>1. k - 1 \in 0 .. m /\ k - 1 \in 0 .. m + 1
      BY <2>2
    <3>2. a[k - 1] = IF k - 1 = 0 THEN 1 ELSE a[k - 1 - 1] * s[k - 1]
      BY <2>1, <3>1 DEF ProductsTo
    <3> QED
      BY <3>1, <3>2 DEF ProductsTo
  <2>3. b = ProductsTo(s, m + 1, b)
    BY <2>2 DEF ProductsTo
  <2> HIDE DEF b
  <2> QED
    BY <2>3
<1>3. S \in SUBSET Nat
  OBVIOUS
<1>4. Len(s) \in S
  <2> HIDE DEF S
  <2> QED
    BY <1>1, <1>2, <1>3, CountUp
<1> QED
  BY <1>4

LEMMA ProductsUnfold ==
  ASSUME NEW s, Len(s) \in Nat
  PROVE  \A k \in 0 .. Len(s) :
           Products(s)[k] = IF k = 0 THEN 1 ELSE Products(s)[k - 1] * s[k]
<1>1. Products(s) = CHOOSE product : product = ProductsTo(s, Len(s), product)
  BY DEF Products, ProductsTo
<1>2. Products(s) = ProductsTo(s, Len(s), Products(s))
  BY <1>1, ProductsExist
<1> QED
  BY <1>2 DEF ProductsTo

LEMMA CursorsExist ==
  ASSUME NEW fields, NEW n, Len(fields) \in Nat
  PROVE  \E c : c = CursorsTo(fields, n, Len(fields), c)
<1> DEFINE S == {m \in Nat : \E c : c = CursorsTo(fields, n, m, c)}
<1>1. 0 \in S
  <2> DEFINE a == [k \in 0 .. 0 |-> [ok |-> TRUE, pos |-> 0]]
  <2>1. a = CursorsTo(fields, n, 0, a)
    BY DEF CursorsTo
  <2> QED
    BY <2>1
<1>2. ASSUME NEW m \in S PROVE m + 1 \in S
  <2>1. PICK a : a = CursorsTo(fields, n, m, a)
    OBVIOUS
  <2> DEFINE b == CursorsTo(fields, n, m + 1, a)
  <2>2. ASSUME NEW k \in 0 .. m + 1, k # 0 PROVE b[k - 1] = a[k - 1]
    <3>1. k - 1 \in 0 .. m /\ k - 1 \in 0 .. m + 1
      BY <2>2
    <3>2. a[k - 1] = IF k - 1 = 0 THEN [ok |-> TRUE, pos |-> 0] ELSE take(a[k - 1 - 1], fields[k - 1], n)
      BY <2>1, <3>1 DEF CursorsTo
    <3> QED
      BY <3>1, <3>2 DEF CursorsTo
  <2>3. b = CursorsTo(fields, n, m + 1, b)
    BY <2>2 DEF CursorsTo
  <2> HIDE DEF b
  <2> QED
    BY <2>3
<1>3. S \in SUBSET Nat
  OBVIOUS
<1>4. Len(fields) \in S
  <2> HIDE DEF S
  <2> QED
    BY <1>1, <1>2, <1>3, CountUp
<1> QED
  BY <1>4

LEMMA CursorsUnfold ==
  ASSUME NEW fields, NEW n, Len(fields) \in Nat
  PROVE  \A k \in 0 .. Len(fields) :
           Cursors(fields, n)[k] = IF k = 0 THEN [ok |-> TRUE, pos |-> 0] ELSE take(Cursors(fields, n)[k - 1], fields[k], n)
<1>1. Cursors(fields, n) = CHOOSE c : c = CursorsTo(fields, n, Len(fields), c)
  BY DEF Cursors, CursorsTo
<1>2. Cursors(fields, n) = CursorsTo(fields, n, Len(fields), Cursors(fields, n))
  BY <1>1, CursorsExist
<1> QED
  BY <1>2 DEF CursorsTo

LEMMA SumsAreNat ==
  ASSUME NEW s \in Seq(Nat)
  PROVE  \A k \in 0 .. Len(s) : Sums(s)[k] \in Nat
<1> DEFINE S == {m \in Nat : m <= Len(s) => Sums(s)[m] \in Nat}
<1>1. Len(s) \in Nat /\ \A k \in 1 .. Len(s) : s[k] \in Nat
  OBVIOUS
<1>2. \A k \in 0 .. Len(s) : Sums(s)[k] = IF k = 0 THEN 0 ELSE Sums(s)[k - 1] + s[k]
  BY <1>1, SumsUnfold
<1>3. 0 \in S
  BY <1>1, <1>2
<1>4. ASSUME NEW m \in S PROVE m + 1 \in S
  <2>1. CASE ~(m + 1 <= Len(s))
    BY <2>1
  <2>2. CASE m + 1 <= Len(s)
    <3>1. m + 1 \in 0 .. Len(s) /\ m + 1 # 0 /\ m <= Len(s) /\ m + 1 - 1 = m
      BY <2>2, <1>1
    <3>2. Sums(s)[m] \in Nat /\ s[m + 1] \in Nat
      BY <1>1, <3>1
    <3>3. Sums(s)[m + 1] = Sums(s)[m] + s[m + 1]
      BY <1>2, <3>1
    <3> QED
      BY <3>2, <3>3
  <2> QED
    BY <2>1, <2>2
<1>5. \A m \in Nat : m \in S
  <2>1. S \in SUBSET Nat
    OBVIOUS
  <2> HIDE DEF S
  <2> QED
    BY <1>3, <1>4, <2>1, CountUp
<1> QED
  BY <1>1, <1>5

LEMMA ProductsAreNat ==
  ASSUME NEW s \in Seq(Nat)
  PROVE  \A k \in 0 .. Len(s) : Products(s)[k] \in Nat
<1> DEFINE S == {m \in Nat : m <= Len(s) => Products(s)[m] \in Nat}
<1>1. Len(s) \in Nat /\ \A k \in 1 .. Len(s) : s[k] \in Nat
  OBVIOUS
<1>2. \A k \in 0 .. Len(s) : Products(s)[k] = IF k = 0 THEN 1 ELSE Products(s)[k - 1] * s[k]
  BY <1>1, ProductsUnfold
<1>3. 0 \in S
  BY <1>1, <1>2
<1>4. ASSUME NEW m \in S PROVE m + 1 \in S
  <2>1. CASE ~(m + 1 <= Len(s))
    BY <2>1
  <2>2. CASE m + 1 <= Len(s)
    <3>1. m + 1 \in 0 .. Len(s) /\ m + 1 # 0 /\ m <= Len(s) /\ m + 1 - 1 = m
      BY <2>2, <1>1
    <3>2. Products(s)[m] \in Nat /\ s[m + 1] \in Nat
      BY <1>1, <3>1
    <3>3. Products(s)[m + 1] = Products(s)[m] * s[m + 1]
      BY <1>2, <3>1
    <3> QED
      BY <3>2, <3>3
  <2> QED
    BY <2>1, <2>2
<1>5. \A m \in Nat : m \in S
  <2>1. S \in SUBSET Nat
    OBVIOUS
  <2> HIDE DEF S
  <2> QED
    BY <1>3, <1>4, <2>1, CountUp
<1> QED
  BY <1>1, <1>5

(* One step of the cursor, against the running total.                      *)
LEMMA TakeStep ==
  ASSUME NEW n \in Nat, NEW c \in [ok : BOOLEAN, pos : Nat], NEW w \in Nat, NEW sum \in Nat,
         c.ok <=> sum <= n, c.ok => c.pos = sum
  PROVE  /\ take(c, w, n) \in [ok : BOOLEAN, pos : Nat]
         /\ take(c, w, n).ok <=> sum + w <= n
         /\ take(c, w, n).ok => take(c, w, n).pos = sum + w
<1>1. CASE c.ok /\ c.pos + w <= n
  <2>1. take(c, w, n) = [c EXCEPT !.pos = @ + w]
    BY <1>1 DEF take
  <2> QED
    BY <1>1, <2>1
<1>2. CASE ~(c.ok /\ c.pos + w <= n)
  <2>1. take(c, w, n) = [c EXCEPT !.ok = FALSE]
    BY <1>2 DEF take
  <2>2. ~ (sum + w <= n)
    BY <1>2
  <2> QED
    BY <2>1, <2>2
<1> QED
  BY <1>1, <1>2

(* The cursor gets through the fields when all of them fit, and only then: *)
(* a field that does not fit stops it for good.                            *)
LEMMA CursorFits ==
  ASSUME NEW fields \in Seq(Nat), NEW n \in Nat
  PROVE  Cursor(fields, n).ok <=> Total(fields) <= n
<1> DEFINE c == Cursors(fields, n)
           sum == Sums(fields)
           S == {m \in Nat : m <= Len(fields) =>
                   /\ c[m] \in [ok : BOOLEAN, pos : Nat]
                   /\ c[m].ok <=> sum[m] <= n
                   /\ c[m].ok => c[m].pos = sum[m]}
<1>1. Len(fields) \in Nat /\ \A k \in 1 .. Len(fields) : fields[k] \in Nat
  OBVIOUS
<1>2. \A k \in 0 .. Len(fields) : sum[k] = IF k = 0 THEN 0 ELSE sum[k - 1] + fields[k]
  BY <1>1, SumsUnfold
<1>3. \A k \in 0 .. Len(fields) :
        c[k] = IF k = 0 THEN [ok |-> TRUE, pos |-> 0] ELSE take(c[k - 1], fields[k], n)
  BY <1>1, CursorsUnfold
<1>4. \A k \in 0 .. Len(fields) : sum[k] \in Nat
  BY SumsAreNat
<1> HIDE DEF c, sum
<1>5. 0 \in S
  <2>1. 0 \in 0 .. Len(fields)
    BY <1>1
  <2>2. c[0] = [ok |-> TRUE, pos |-> 0] /\ sum[0] = 0
    BY <1>2, <1>3, <2>1
  <2>3. c[0] \in [ok : BOOLEAN, pos : Nat] /\ c[0].ok = TRUE /\ c[0].pos = 0
    BY <2>2
  <2>4. sum[0] <= n
    BY <2>2
  <2> QED
    BY <2>2, <2>3, <2>4
<1>6. ASSUME NEW m \in S PROVE m + 1 \in S
  <2>1. CASE ~(m + 1 <= Len(fields))
    BY <2>1
  <2>2. CASE m + 1 <= Len(fields)
    <3>1. m + 1 \in 0 .. Len(fields) /\ m + 1 # 0 /\ m <= Len(fields) /\ m + 1 - 1 = m
      BY <2>2, <1>1
    <3>2. c[m] \in [ok : BOOLEAN, pos : Nat] /\ (c[m].ok <=> sum[m] <= n)
            /\ (c[m].ok => c[m].pos = sum[m])
      BY <3>1
    <3>3. sum[m] \in Nat /\ fields[m + 1] \in Nat
      BY <1>1, <1>4, <3>1
    <3>4. c[m + 1] = take(c[m], fields[m + 1], n) /\ sum[m + 1] = sum[m] + fields[m + 1]
      BY <1>2, <1>3, <3>1
    <3>5. /\ take(c[m], fields[m + 1], n) \in [ok : BOOLEAN, pos : Nat]
          /\ take(c[m], fields[m + 1], n).ok <=> sum[m] + fields[m + 1] <= n
          /\ take(c[m], fields[m + 1], n).ok
               => take(c[m], fields[m + 1], n).pos = sum[m] + fields[m + 1]
      BY <3>2, <3>3, TakeStep
    <3> QED
      BY <3>4, <3>5
  <2> QED
    BY <2>1, <2>2
<1>7. \A m \in Nat : m \in S
  <2>1. S \in SUBSET Nat
    OBVIOUS
  <2> HIDE DEF S
  <2> QED
    BY <1>5, <1>6, <2>1, CountUp
<1>8. c[Len(fields)].ok <=> sum[Len(fields)] <= n
  BY <1>1, <1>7
<1> QED
  BY <1>8, TotalIsLast, CursorIsLast DEF c, sum

--------------------------------------------------------------------------------
(* Whole rows make whole blocks.                                           *)

LEMMA NumelIsRows ==
  ASSUME NEW shape \in Seq(Nat), shape # <<>>
  PROVE  /\ Len(shape) \in Nat \ {0} /\ shape[Len(shape)] \in Nat
         /\ \E p \in Nat : Numel(shape) = p * shape[Len(shape)]
<1>1. Len(shape) \in Nat \ {0} /\ shape[Len(shape)] \in Nat
  OBVIOUS
<1> DEFINE p == Products(shape)[Len(shape) - 1]
<1>2. Len(shape) \in 0 .. Len(shape) /\ Len(shape) - 1 \in 0 .. Len(shape)
  BY <1>1
<1>3. Products(shape)[Len(shape)] = p * shape[Len(shape)]
  BY <1>1, <1>2, ProductsUnfold
<1>4. p \in Nat
  BY <1>2, ProductsAreNat
<1> QED
  BY <1>1, <1>3, <1>4, NumelIsLast

LEMMA WholeBlocks ==
  ASSUME NEW p \in Nat, NEW row \in Nat, row % 4 = 0
  PROVE  ((p * row) \div 4) * 3 * 4 = p * row * 3
<1>1. PICK q \in Nat : row = 4 * q
  OBVIOUS
<1> DEFINE m == p * q
<1>2. p * row = 4 * m /\ m \in Nat
  BY <1>1
<1> HIDE DEF m
<1>3. (4 * m) \div 4 = m
  BY <1>2
<1> QED
  BY <1>2, <1>3

LEMMA WholeRows ==
  ASSUME NEW dtype \in DOMAIN Codecs, NEW shape \in Seq(Nat), shape # <<>>,
         shape[Len(shape)] % Codecs[dtype].grain = 0
  PROVE  storage_bytes(dtype, Numel(shape)) * Codecs[dtype].grain
           = Numel(shape) * Codecs[dtype].bytes
<1> DEFINE row == shape[Len(shape)]
<1>1. row \in Nat /\ \E p \in Nat : Numel(shape) = p * row
  BY NumelIsRows
<1>2. PICK p \in Nat : Numel(shape) = p * row
  BY <1>1
<1> HIDE DEF row
<1>3. p * row \in Nat
  BY <1>1
<1>4. CASE dtype = "F16"
  <2>1. Codecs[dtype].grain = 1 /\ Codecs[dtype].bytes = 2
    BY <1>4 DEF Codecs
  <2>2. storage_bytes(dtype, Numel(shape)) = ((p * row) \div 1) * 2
    BY <1>2, <2>1 DEF storage_bytes
  <2> QED
    BY <1>2, <1>3, <2>1, <2>2
<1>5. CASE dtype = "Q4"
  <2>1. Codecs[dtype].grain = 4 /\ Codecs[dtype].bytes = 3
    BY <1>5 DEF Codecs
  <2>2. storage_bytes(dtype, Numel(shape)) = ((p * row) \div 4) * 3
    BY <1>2, <2>1 DEF storage_bytes
  <2>3. row % 4 = 0
    BY <2>1 DEF row
  <2>4. ((p * row) \div 4) * 3 * 4 = p * row * 3
    BY <1>1, <2>3, WholeBlocks
  <2> QED
    BY <1>2, <2>1, <2>2, <2>4
<1> QED
  BY <1>4, <1>5 DEF Codecs

LEMMA RoundsUp ==
  ASSUME NEW n \in Nat, NEW a \in Nat \ {0}
  PROVE  RoundUp(n, a) \in Nat /\ RoundUp(n, a) >= n
<1> DEFINE q == (n + a - 1) \div a
           c == (n + a - 1) % a
<1>1. q \in Nat /\ c \in 0 .. a - 1 /\ n + a - 1 = q * a + c
  BY Z3
<1> HIDE DEF q, c
<1>2. q * a \in Nat
  BY <1>1
<1>3. RoundUp(n, a) = q * a
  BY DEF RoundUp, q
<1>4. q * a >= n
  BY <1>1, <1>2
<1> QED
  BY <1>2, <1>3, <1>4

--------------------------------------------------------------------------------
(* Sorting.  The spans of a file can be put in order, whatever they are.   *)

HasEnds(S) == \A t \in S : t.off \in Nat /\ t.end \in Nat
Sorted(s) == \A j, k \in DOMAIN s : j < k => Before(s[j], s[k])

LEMMA LastExists ==
  ASSUME NEW S, IsFiniteSet(S), S # {}, HasEnds(S)
  PROVE  \E m \in S : \A b \in S : Before(b, m)
<1> DEFINE Has(T) == \E m \in T : \A b \in T : Before(b, m)
           N == {n \in Nat : \A T \in SUBSET S : Cardinality(T) = n + 1 => Has(T)}
<1>1. 0 \in N
  <2> SUFFICES ASSUME NEW T \in SUBSET S, Cardinality(T) = 0 + 1 PROVE Has(T)
    OBVIOUS
  <2>1. IsFiniteSet(T) /\ Cardinality(T) = 1
    BY FS_Subset
  <2>2. PICK x : T = {x}
    BY <2>1, FS_Singleton
  <2>3. x.off \in Nat /\ x.end \in Nat
    BY <2>2 DEF HasEnds
  <2>4. Before(x, x)
    BY <2>3 DEF Before
  <2> QED
    BY <2>2, <2>4
<1>2. ASSUME NEW n \in N PROVE n + 1 \in N
  <2> SUFFICES ASSUME NEW T \in SUBSET S, Cardinality(T) = n + 1 + 1 PROVE Has(T)
    OBVIOUS
  <2>1. IsFiniteSet(T)
    BY FS_Subset
  <2>2. PICK x \in T : TRUE
    BY <2>1, FS_EmptySet
  <2>3. Cardinality(T \ {x}) = n + 1
    BY <2>1, <2>2, FS_RemoveElement
  <2>4. PICK m \in T \ {x} : \A b \in T \ {x} : Before(b, m)
    BY <2>3
  <2>5. /\ x.off \in Nat /\ x.end \in Nat /\ m.off \in Nat /\ m.end \in Nat
        /\ \A b \in T : b.off \in Nat /\ b.end \in Nat
    BY <2>2, <2>4 DEF HasEnds
  <2>6. CASE Before(x, m)
    BY <2>4, <2>6
  <2>7. CASE ~Before(x, m)
    <3>1. Before(m, x) /\ Before(x, x)
      BY <2>5, <2>7 DEF Before
    <3>2. ASSUME NEW b \in T \ {x} PROVE Before(b, x)
      <4>1. Before(b, m)
        BY <2>4
      <4> QED
        BY <3>1, <4>1, <2>5 DEF Before
    <3> QED
      BY <2>2, <3>1, <3>2
  <2> QED
    BY <2>6, <2>7
<1>3. \A n \in Nat : n \in N
  <2>1. N \in SUBSET Nat
    OBVIOUS
  <2> HIDE DEF N
  <2> QED
    BY <1>1, <1>2, <2>1, CountUp
<1>4. Cardinality(S) \in Nat /\ Cardinality(S) # 0
  BY FS_CardinalityType, FS_EmptySet
<1>5. Cardinality(S) - 1 \in N
  BY <1>3, <1>4
<1>6. Cardinality(S) = Cardinality(S) - 1 + 1
  BY <1>4
<1> QED
  BY <1>5, <1>6

LEMMA SortExists ==
  ASSUME NEW S, IsFiniteSet(S), HasEnds(S)
  PROVE  \E s \in SetToSeqs(S) : Sorted(s)
<1> DEFINE Has(T, n) == \E s \in [1 .. n -> T] :
                          (\A a, b \in 1 .. n : a # b => s[a] # s[b]) /\ Sorted(s)
           N == {n \in Nat : \A T \in SUBSET S : Cardinality(T) = n => Has(T, n)}
<1>1. 0 \in N
  <2> SUFFICES ASSUME NEW T \in SUBSET S, Cardinality(T) = 0 PROVE Has(T, 0)
    OBVIOUS
  <2> DEFINE s == [k \in 1 .. 0 |-> 0]
  <2>1. 1 .. 0 = {} /\ DOMAIN s = 1 .. 0
    OBVIOUS
  <2>2. s \in [1 .. 0 -> T]
    BY <2>1
  <2>3. Sorted(s)
    BY <2>1 DEF Sorted
  <2> QED
    BY <2>1, <2>2, <2>3
<1>2. ASSUME NEW n \in N PROVE n + 1 \in N
  <2> SUFFICES ASSUME NEW T \in SUBSET S, Cardinality(T) = n + 1 PROVE Has(T, n + 1)
    OBVIOUS
  <2>1. IsFiniteSet(T) /\ T # {}
    BY FS_Subset, FS_EmptySet
  <2>2. HasEnds(T)
    BY DEF HasEnds
  <2>3. PICK m \in T : \A b \in T : Before(b, m)
    BY <2>1, <2>2, LastExists
  <2>4. Cardinality(T \ {m}) = n
    <3>1. n \in Nat /\ Cardinality(T) = n + 1
      OBVIOUS
    <3> HIDE DEF N
    <3>2. Cardinality(T \ {m}) = Cardinality(T) - 1
      BY <2>1, <2>3, FS_RemoveElement
    <3> QED
      BY <3>1, <3>2
  <2>5. PICK s \in [1 .. n -> T \ {m}] :
          (\A a, b \in 1 .. n : a # b => s[a] # s[b]) /\ Sorted(s)
    BY <2>4
  <2> DEFINE r == [k \in 1 .. n + 1 |-> IF k = n + 1 THEN m ELSE s[k]]
  <2>6. \A k \in 1 .. n + 1 : k = n + 1 \/ k \in 1 .. n
    OBVIOUS
  <2>7. \A k \in 1 .. n : k \in 1 .. n + 1 /\ k # n + 1 /\ r[k] = s[k] /\ s[k] \in T \ {m}
    OBVIOUS
  <2>8. n + 1 \in 1 .. n + 1 /\ r[n + 1] = m
    OBVIOUS
  <2>9. DOMAIN r = 1 .. n + 1 /\ DOMAIN s = 1 .. n
    OBVIOUS
  <2>10. r \in [1 .. n + 1 -> T]
    BY <2>6, <2>7
  <2> HIDE DEF r
  <2>11. \A a, b \in 1 .. n + 1 : a # b => r[a] # r[b]
    BY <2>5, <2>6, <2>7, <2>8
  <2>12. Sorted(r)
    <3> SUFFICES ASSUME NEW j \in 1 .. n + 1, NEW k \in 1 .. n + 1, j < k
                 PROVE  Before(r[j], r[k])
      BY <2>9 DEF Sorted
    <3>1. j \in 1 .. n
      OBVIOUS
    <3>2. CASE k = n + 1
      BY <2>3, <2>7, <2>8, <3>1, <3>2
    <3>3. CASE k \in 1 .. n
      <4>1. Before(s[j], s[k])
        BY <2>5, <2>9, <3>1, <3>3 DEF Sorted
      <4> QED
        BY <2>7, <3>1, <3>3, <4>1
    <3> QED
      BY <2>6, <3>2, <3>3
  <2> QED
    BY <2>10, <2>11, <2>12
<1>3. \A n \in Nat : n \in N
  <2>1. N \in SUBSET Nat
    OBVIOUS
  <2> HIDE DEF N
  <2> QED
    BY <1>1, <1>2, <2>1, CountUp
<1>4. Cardinality(S) \in Nat
  BY FS_CardinalityType
<1>5. Has(S, Cardinality(S))
  BY <1>3, <1>4
<1> QED
  BY <1>5 DEF SetToSeqs

(* The sorted spans are spans of the file, each of them, in order.         *)
LEMMA SpansSorted ==
  ASSUME NEW f, IsFiniteSet(f.tensors), HasEnds(f.tensors)
  PROVE  LET n == Cardinality(f.tensors) IN
         /\ n \in Nat
         /\ Spans(f) \in [1 .. n -> f.tensors]
         /\ \A j, k \in 1 .. n : j < k => Before(Spans(f)[j], Spans(f)[k])
         /\ \A t \in f.tensors : \E k \in 1 .. n : Spans(f)[k] = t
<1> DEFINE S == f.tensors
           n == Cardinality(S)
           s == Spans(f)
<1>1. n \in Nat
  BY FS_CardinalityType
<1>2. s = CHOOSE r \in SetToSeqs(S) : Sorted(r)
  BY DEF Spans, Sorted
<1>3. \E r \in SetToSeqs(S) : Sorted(r)
  BY SortExists
<1>4. s \in SetToSeqs(S) /\ Sorted(s)
  <2> HIDE DEF s, S
  <2> QED
    BY <1>2, <1>3
<1> HIDE DEF s
<1>5. s \in [1 .. n -> S] /\ \A a, b \in 1 .. n : a # b => s[a] # s[b]
  BY <1>4 DEF SetToSeqs
<1>6. s \in Injection(1 .. n, S)
  BY <1>5 DEF Injection, IsInjective
<1>7. IsFiniteSet(1 .. n) /\ Cardinality(1 .. n) = n
  BY <1>1, FS_Interval
<1>8. s \in Surjection(1 .. n, S)
  BY <1>6, <1>7, FS_Injection
<1>9. \A j, k \in 1 .. n : j < k => Before(s[j], s[k])
  BY <1>4, <1>5 DEF Sorted
<1>10. \A t \in S : \E k \in 1 .. n : s[k] = t
  BY <1>8 DEF Surjection
<1> QED
  BY <1>1, <1>5, <1>9, <1>10 DEF s

(* What parse_shard compares are neighbours; in order, that is all pairs.  *)
LEMMA ShardApart ==
  ASSUME NEW f, NEW len, IsFiniteSet(f.tensors), HasEnds(f.tensors), parse_shard(f, len),
         NEW s \in f.tensors, NEW t \in f.tensors, s # t
  PROVE  s.end <= t.off \/ t.end <= s.off
<1> DEFINE n == Cardinality(f.tensors)
           r == Spans(f)
<1>1. /\ n \in Nat
      /\ r \in [1 .. n -> f.tensors]
      /\ \A j, k \in 1 .. n : j < k => Before(r[j], r[k])
      /\ \A u \in f.tensors : \E k \in 1 .. n : r[k] = u
  BY SpansSorted
<1>2. \A k \in 1 .. Len(r) - 1 : r[k + 1].off >= r[k].end
  BY DEF parse_shard
<1> HIDE DEF n, r
<1>3. Len(r) = n
  BY <1>1
<1>4. \A k \in 1 .. n : r[k].off \in Nat /\ r[k].end \in Nat
  BY <1>1 DEF HasEnds
<1>5. ASSUME NEW j \in 1 .. n, NEW k \in 1 .. n, j < k PROVE r[j].end <= r[k].off
  <2>1. j \in 1 .. Len(r) - 1 /\ j + 1 \in 1 .. n
    BY <1>1, <1>3, <1>5
  <2>2. r[j].end <= r[j + 1].off
    BY <1>2, <1>4, <2>1
  <2>3. CASE k = j + 1
    BY <2>2, <2>3
  <2>4. CASE j + 1 < k
    <3>1. Before(r[j + 1], r[k])
      BY <1>1, <2>1, <2>4
    <3>2. r[j + 1].off <= r[k].off
      BY <1>4, <2>1, <3>1 DEF Before
    <3> QED
      BY <1>4, <2>1, <2>2, <3>2
  <2> QED
    BY <1>5, <2>3, <2>4
<1>6. PICK j \in 1 .. n : r[j] = s
  BY <1>1
<1>7. PICK k \in 1 .. n : r[k] = t
  BY <1>1
<1>8. j < k \/ k < j
  BY <1>1, <1>6, <1>7
<1> QED
  BY <1>5, <1>6, <1>7, <1>8
--------------------------------------------------------------------------------
(* What holds all the time.                                                *)

Known ==
  /\ repo \in Repos /\ want \in Nat /\ i \in Nat \ {0}
  /\ DOMAIN disk = DOMAIN repo.files /\ \A n \in DOMAIN disk : disk[n] \in Int

LEMMA FileIsTyped ==
  ASSUME repo \in Repos, NEW n \in DOMAIN repo.files
  PROVE  /\ File(n).magic \in BOOLEAN /\ File(n).fields \in Seq(Nat) /\ File(n).len \in Nat
         /\ File(n).align \in Nat \ {0} /\ IsFiniteSet(File(n).tensors)
         /\ \A t \in File(n).tensors :
              IsName(t.name) /\ t.off \in Nat /\ t.end \in Nat /\ t.shape \in Seq(Nat)
BY RepoAssumption DEF File

LEMMA KnownInit == Init => Known
<1> SUFFICES ASSUME Init PROVE Known
  OBVIOUS
<1>1. repo \in Repos /\ want = Window /\ i = 1
  BY DEF Init
<1>2. PICK left \in [DOMAIN repo.files -> {"whole", "short", "gone"}] :
        disk = [n \in DOMAIN repo.files |->
                  CASE left[n] = "whole" -> repo.files[n].len
                    [] left[n] = "short" -> repo.files[n].len - 1
                    [] OTHER -> 0]
  BY DEF Init
<1>3. ASSUME NEW n \in DOMAIN repo.files PROVE disk[n] \in Int
  <2>1. repo.files[n].len \in Nat
    BY <1>1, FileIsTyped DEF File
  <2>2. disk[n] = repo.files[n].len \/ disk[n] = repo.files[n].len - 1 \/ disk[n] = 0
    BY <1>2
  <2> QED
    BY <2>1, <2>2
<1>4. DOMAIN disk = DOMAIN repo.files
  BY <1>2
<1> QED
  BY <1>1, <1>3, <1>4, WindowAssumption DEF Known

LEMMA KnownStep == Known /\ [Next]_vars => Known'
<1> SUFFICES ASSUME Known, [Next]_vars PROVE Known'
  OBVIOUS
<1>1. repo' = repo /\ disk' = disk
  BY DEF Next, vars, Preflight, PreflightShard, PreflightDone, SkipPreflight, Missing,
         OpenPart, Opened, merge_extra
<1>2. want' = want \/ want' = Window \/ want' = want * 2
  BY DEF Next, vars, Preflight, PreflightShard, PreflightDone, SkipPreflight, Missing,
         OpenPart, Opened, merge_extra
<1>3. i' = i \/ i' = i + 1 \/ i' = 1
  BY DEF Next, vars, Preflight, PreflightShard, PreflightDone, SkipPreflight, Missing,
         OpenPart, Opened, merge_extra
<1>4. want' \in Nat
  BY <1>2, WindowAssumption DEF Known
<1>5. i' \in Nat \ {0}
  BY <1>3 DEF Known
<1> QED
  BY <1>1, <1>4, <1>5 DEF Known

LEMMA SameFiles ==
  ASSUME [Next]_vars
  PROVE  /\ repo' = repo /\ disk' = disk /\ IsGguf' = IsGguf /\ ToOpen' = ToOpen
         /\ \A m : File(m)' = File(m)
         /\ \A m, t : Placed(m, t)' = Placed(m, t)
         /\ \A m : Parses(m)' <=> Parses(m)
<1>1. repo' = repo /\ disk' = disk
  BY DEF Next, vars, Preflight, PreflightShard, PreflightDone, SkipPreflight, Missing,
         OpenPart, Opened, merge_extra
<1>2. IsGguf' = IsGguf /\ \A m : File(m)' = File(m)
  BY <1>1 DEF IsGguf, File
<1>3. Found' = Found /\ FoundInOrder' = FoundInOrder /\ OnDisk' = OnDisk
  BY <1>1 DEF FoundInOrder, Found, OnDisk
<1>4. ToOpen' = ToOpen
  BY <1>1, <1>2, <1>3 DEF ToOpen, SplitSet, Shards
<1>5. \A m, t : Placed(m, t)' = Placed(m, t)
  BY <1>2 DEF Placed
<1>6. \A m : Parses(m)' <=> Parses(m)
  BY <1>1, <1>2 DEF Parses
<1> QED
  BY <1>1, <1>2, <1>4, <1>5, <1>6

(* Where an entry of the table comes from: a file that parsed.             *)
ComesFrom(n, entry, m, t) ==
  /\ m \in DOMAIN repo.files /\ Parses(m) /\ t \in File(m).tensors
  /\ entry = Placed(m, t) /\ (~IsGguf => t.name = n)
InPlace == \A n \in DOMAIN table : \E m, t : ComesFrom(n, table[n], m, t)

LEMMA TableOfMain ==
  ASSUME NEW m
  PROVE  /\ \A n \in DOMAIN TableOf(m, translate) : \E t \in File(m).tensors :
               translate(t.name) = n /\ TableOf(m, translate)[n] = Placed(m, t)
         /\ \A t \in File(m).tensors :
               /\ translate(t.name) \in DOMAIN TableOf(m, translate)
               /\ TableOf(m, translate)[translate(t.name)].file = m
<1>1. \A n \in DOMAIN TableOf(m, translate) : \E t \in File(m).tensors :
               translate(t.name) = n /\ TableOf(m, translate)[n] = Placed(m, t)
  BY DEF TableOf
<1>2. \A t \in File(m).tensors : translate(t.name) \in DOMAIN TableOf(m, translate)
  BY DEF TableOf
<1>3. \A t : Placed(m, t).file = m
  BY DEF Placed
<1> QED
  BY <1>1, <1>2, <1>3

LEMMA TableOfTowers ==
  ASSUME NEW m
  PROVE  \A n \in DOMAIN TableOf(m, translate_mmproj) : \E t \in File(m).tensors :
           TableOf(m, translate_mmproj)[n] = Placed(m, t)
BY DEF TableOf

LEMMA InPlaceInit == Init => InPlace
BY DEF Init, InPlace, Empty

LEMMA InPlaceStep == Known /\ InPlace /\ [Next]_vars => InPlace'
<1> SUFFICES ASSUME Known, InPlace, [Next]_vars PROVE InPlace'
  OBVIOUS
<1>2. ASSUME NEW n \in DOMAIN table' PROVE \E m, t : ComesFrom(n, table'[n], m, t)
  <2>1. CASE n \in DOMAIN table /\ table'[n] = table[n]
    BY <2>1 DEF InPlace
  <2>2. CASE OpenPart /\ ~(n \in DOMAIN table /\ table'[n] = table[n])
    <3> DEFINE new == TableOf(Current, translate)
    <3>1. FilesThere /\ i \in DOMAIN ToOpen /\ (table' = Empty \/ Parses(Current))
            /\ (table' = Empty \/ table' = Keeping(table, new))
      BY <2>2 DEF OpenPart
    <3>2. table' # Empty
      BY DEF Empty
    <3>3. Current \in DOMAIN repo.files
      BY <3>1 DEF FilesThere, OnDisk, Current
    <3>4. n \in DOMAIN new /\ table'[n] = new[n]
      <4>1. table' = Keeping(table, new)
        BY <3>1, <3>2
      <4> HIDE DEF new
      <4>2. /\ DOMAIN table' = DOMAIN table \cup DOMAIN new
            /\ \A x \in DOMAIN table : table'[x] = table[x]
            /\ \A x \in DOMAIN new : x \notin DOMAIN table => table'[x] = new[x]
        BY <4>1 DEF Keeping
      <4> QED
        BY <2>2, <4>2
    <3>5. PICK t \in File(Current).tensors :
            translate(t.name) = n /\ new[n] = Placed(Current, t)
      BY <3>4, TableOfMain
    <3>6. ~IsGguf => t.name = n
      BY <3>5 DEF translate, Verbatim
    <3>7. ComesFrom(n, table'[n], Current, t)
      BY <3>1, <3>2, <3>3, <3>4, <3>5, <3>6 DEF ComesFrom
    <3> QED
      BY <3>7
  <2>3. CASE merge_extra /\ ~(n \in DOMAIN table /\ table'[n] = table[n])
    <3> DEFINE new == TableOf(repo.mmproj, translate_mmproj)
    <3>1. /\ IsGguf /\ repo.mmproj # NoFile
          /\ \/ table' = Empty
             \/ table' = Keeping(table, new) /\ parse_part(File(repo.mmproj), disk[repo.mmproj])
      BY <2>3 DEF merge_extra
    <3>2. table' # Empty
      BY DEF Empty
    <3>3. repo.mmproj \in DOMAIN repo.files /\ Parses(repo.mmproj)
      BY <3>1, <3>2, RepoAssumption DEF Known, Parses
    <3>4. n \in DOMAIN new /\ table'[n] = new[n]
      <4>1. table' = Keeping(table, new)
        BY <3>1, <3>2
      <4> HIDE DEF new
      <4>2. /\ DOMAIN table' = DOMAIN table \cup DOMAIN new
            /\ \A x \in DOMAIN table : table'[x] = table[x]
            /\ \A x \in DOMAIN new : x \notin DOMAIN table => table'[x] = new[x]
        BY <4>1 DEF Keeping
      <4> QED
        BY <2>3, <4>2
    <3>5. PICK t \in File(repo.mmproj).tensors : new[n] = Placed(repo.mmproj, t)
      BY <3>4, TableOfTowers
    <3>6. ComesFrom(n, table'[n], repo.mmproj, t)
      BY <3>1, <3>3, <3>4, <3>5 DEF ComesFrom
    <3> QED
      BY <3>6
  <2>4. CASE ~OpenPart /\ ~merge_extra
    <3>1. table' = table
      BY <2>4 DEF Next, vars, Preflight, PreflightShard, PreflightDone, SkipPreflight, Missing,
                  Opened
    <3> QED
      BY <3>1 DEF InPlace
  <2> QED
    BY <2>1, <2>2, <2>3, <2>4
<1> QED
  BY <1>2, SameFiles DEF InPlace, ComesFrom

(* Every tensor of the parts that are behind is in the table, under its    *)
(* own name and from its own part.                                         *)
Entered(k) ==
  \A t \in File(ToOpen[k]).tensors :
    translate(t.name) \in DOMAIN table /\ table[translate(t.name)].file = ToOpen[k]
Behind ==
  pc \in {"open", "opened"} => \A k \in DOMAIN ToOpen : k < i => Entered(k)
AtEnd ==
  pc = "opened" /\ (IsGguf \/ repo.index # <<>>) => \A k \in DOMAIN ToOpen : k < i

LEMMA BehindInit == Init => Behind /\ AtEnd
BY DEF Init, Behind, AtEnd

LEMMA EnteredStays ==
  ASSUME [Next]_vars, \A n \in DOMAIN table : n \in DOMAIN table' /\ table'[n] = table[n],
         NEW k, Entered(k)
  PROVE  Entered(k)'
BY SameFiles DEF Entered, translate

LEMMA CountedFromOne ==
  ASSUME Known
  PROVE  \A k \in DOMAIN ToOpen : k \in Nat \ {0}
<1>1. CASE IsGguf \/ repo.index # <<>>
  <2>1. ToOpen = repo.parts \/ ToOpen = repo.index
    BY <1>1 DEF ToOpen, SplitSet, Shards
  <2>2. ToOpen \in Seq(DOMAIN repo.files)
    BY <2>1, RepoAssumption DEF Known
  <2> QED
    BY <2>2
<1>2. CASE ~IsGguf /\ repo.index = <<>>
  <2>1. \/ ToOpen = <<"model.safetensors">>
        \/ ToOpen = [k \in 1 .. Cardinality(Found) |-> repo.parts[FoundInOrder[k]]]
    BY <1>2 DEF ToOpen, Shards
  <2>2. CASE ToOpen = <<"model.safetensors">>
    BY <2>2
  <2>3. CASE ToOpen = [k \in 1 .. Cardinality(Found) |-> repo.parts[FoundInOrder[k]]]
    <3>1. DOMAIN ToOpen = 1 .. Cardinality(Found)
      BY <2>3
    <3>2. IsFiniteSet(Found)
      <4>1. repo.parts \in Seq(DOMAIN repo.files)
        BY RepoAssumption DEF Known
      <4>2. Found \in SUBSET (1 .. Len(repo.parts)) /\ Len(repo.parts) \in Nat
        BY <4>1 DEF Found
      <4>3. IsFiniteSet(1 .. Len(repo.parts))
        BY <4>2, FS_Interval
      <4> QED
        BY <4>2, <4>3, FS_Subset
    <3>3. Cardinality(Found) \in Nat
      BY <3>2, FS_CardinalityType
    <3> QED
      BY <3>1, <3>3
  <2> QED
    BY <2>1, <2>2, <2>3
<1> QED
  BY <1>1, <1>2

LEMMA BehindStep == Known /\ Behind /\ AtEnd /\ [Next]_vars => Behind' /\ AtEnd'
<1> SUFFICES ASSUME Known, Behind, AtEnd, [Next]_vars PROVE Behind' /\ AtEnd'
  OBVIOUS
<1> USE DEF Known
<1>1. CASE Preflight \/ PreflightShard \/ Missing
  <2>1. pc' \notin {"open", "opened"}
    BY <1>1 DEF Preflight, PreflightShard, Missing
  <2> QED
    BY <2>1 DEF Behind, AtEnd
<1>2. CASE PreflightDone \/ SkipPreflight
  <2>1. pc' = "open" /\ i' = 1
    BY <1>2 DEF PreflightDone, SkipPreflight
  <2>2. \A k \in DOMAIN ToOpen' : ~(k < i')
    BY <2>1, CountedFromOne, SameFiles
  <2> QED
    BY <2>1, <2>2 DEF Behind, AtEnd
<1>3. CASE OpenPart
  <2> DEFINE new == TableOf(Current, translate)
  <2>1. /\ pc = "open" /\ i \in DOMAIN ToOpen
        /\ \/ pc' = "failed"
           \/ /\ table' = Keeping(table, new) /\ i' = i + 1 /\ pc' = pc
              /\ DOMAIN new \cap DOMAIN table = {}
    BY <1>3 DEF OpenPart
  <2>2. CASE pc' = "failed"
    BY <2>2 DEF Behind, AtEnd
  <2>3. CASE pc' # "failed"
    <3> HIDE DEF new
    <3>1. /\ DOMAIN table' = DOMAIN table \cup DOMAIN new
          /\ \A x \in DOMAIN table : table'[x] = table[x]
          /\ \A x \in DOMAIN new : x \notin DOMAIN table => table'[x] = new[x]
      BY <2>1, <2>3 DEF Keeping
    <3>2. \A k \in DOMAIN ToOpen : k < i => Entered(k)'
      <4>1. \A k \in DOMAIN ToOpen : k < i => Entered(k)
        BY <2>1 DEF Behind
      <4>2. \A n \in DOMAIN table : n \in DOMAIN table' /\ table'[n] = table[n]
        BY <3>1
      <4> QED
        BY <4>1, <4>2, EnteredStays
    <3>3. ASSUME NEW k \in DOMAIN ToOpen, k = i PROVE Entered(k)'
      <4>1. ToOpen[k] = Current
        BY <3>3 DEF Current
      <4>2. ASSUME NEW t \in File(Current).tensors
            PROVE  /\ translate(t.name) \in DOMAIN table'
                   /\ table'[translate(t.name)].file = Current
        <5>1. translate(t.name) \in DOMAIN new /\ new[translate(t.name)].file = Current
          BY TableOfMain DEF new
        <5> QED
          BY <2>1, <2>3, <3>1, <5>1
      <4> QED
        BY <4>1, <4>2, SameFiles DEF Entered, translate
    <3>4. \A k \in DOMAIN ToOpen : k < i + 1 => Entered(k)'
      <4>1. \A k \in DOMAIN ToOpen : k < i + 1 => k < i \/ k = i
        BY CountedFromOne
      <4> QED
        BY <3>2, <3>3, <4>1
    <3> QED
      BY <2>1, <2>3, <3>4, SameFiles DEF Behind, AtEnd
  <2> QED
    BY <2>2, <2>3
<1>4. CASE Opened
  <2>1. i' = i /\ table' = table /\ pc = "open" /\ i \notin DOMAIN ToOpen /\ UNCHANGED repo
    BY <1>4 DEF Opened
  <2>2. \A k : Entered(k)' <=> Entered(k)
    BY <2>1, SameFiles DEF Entered, translate
  <2>3. IsGguf \/ repo.index # <<>> => \A k \in DOMAIN ToOpen : k < i
    <3> SUFFICES ASSUME IsGguf \/ repo.index # <<>> PROVE \A k \in DOMAIN ToOpen : k < i
      OBVIOUS
    <3>1. ToOpen = repo.parts \/ ToOpen = repo.index
      BY DEF ToOpen, SplitSet, Shards
    <3>2. ToOpen \in Seq(DOMAIN repo.files)
      BY <3>1, RepoAssumption
    <3>3. Len(ToOpen) \in Nat /\ DOMAIN ToOpen = 1 .. Len(ToOpen)
      BY <3>2
    <3> QED
      BY <2>1, <3>3
  <2>4. \A k \in DOMAIN ToOpen : k < i => Entered(k)
    BY <2>1 DEF Behind
  <2> QED
    BY <2>1, <2>2, <2>3, <2>4, SameFiles DEF Behind, AtEnd
<1>5. CASE merge_extra
  <2> DEFINE new == TableOf(repo.mmproj, translate_mmproj)
  <2>1. /\ pc = "opened" /\ i' = i
        /\ pc' = "failed" \/ (pc' = pc /\ table' = Keeping(table, new))
    BY <1>5 DEF merge_extra
  <2>2. CASE pc' = "failed"
    BY <2>2 DEF Behind, AtEnd
  <2>3. CASE pc' # "failed"
    <3> HIDE DEF new
    <3>1. /\ DOMAIN table' = DOMAIN table \cup DOMAIN new
          /\ \A x \in DOMAIN table : table'[x] = table[x]
      BY <2>1, <2>3 DEF Keeping
    <3>2. \A n \in DOMAIN table : n \in DOMAIN table' /\ table'[n] = table[n]
      BY <3>1
    <3>3. \A k \in DOMAIN ToOpen : k < i => Entered(k)
      BY <2>1 DEF Behind
    <3>4. \A k \in DOMAIN ToOpen : k < i => Entered(k)'
      BY <3>2, <3>3, EnteredStays
    <3> QED
      BY <2>1, <2>3, <3>4, SameFiles DEF Behind, AtEnd
  <2> QED
    BY <2>2, <2>3
<1>6. CASE UNCHANGED vars
  <2>1. pc' = pc /\ i' = i /\ table' = table
    BY <1>6 DEF vars
  <2> QED
    BY <2>1, SameFiles DEF Behind, AtEnd, Entered, translate
<1> QED
  BY <1>1, <1>2, <1>3, <1>4, <1>5, <1>6 DEF Next

(* bytes() stays within the data of its file.                              *)
LEMMA InItsFileHolds == Known /\ InPlace => InItsFile
<1> SUFFICES ASSUME Known, InPlace, NEW n \in DOMAIN table
             PROVE  /\ table[n].offset >= Total(File(table[n].file).fields)
                    /\ table[n].offset + table[n].nbytes <= disk[table[n].file]
  BY DEF InItsFile
<1>1. PICK m, t : ComesFrom(n, table[n], m, t)
  BY DEF InPlace
<1>2. /\ m \in DOMAIN repo.files /\ Parses(m) /\ t \in File(m).tensors
      /\ table[n] = Placed(m, t)
  BY <1>1 DEF ComesFrom
<1>3. File(m).fields \in Seq(Nat) /\ File(m).align \in Nat \ {0} /\ t.off \in Nat /\ t.end \in Nat
  BY <1>2, FileIsTyped DEF Known
<1> DEFINE total == Total(File(m).fields)
<1>4. total \in Nat
  <2>1. Len(File(m).fields) \in 0 .. Len(File(m).fields)
    BY <1>3
  <2> QED
    BY <1>3, <2>1, TotalIsLast, SumsAreNat
<1>5. disk[m] \in Int
  BY <1>2 DEF Known
<1> HIDE DEF total
<1>6. CASE IsGguf
  <2>1. /\ table[n].file = m /\ table[n].offset = At(File(m), t)
        /\ table[n].nbytes = storage_bytes(t.dtype, Numel(t.shape))
    BY <1>2, <1>6 DEF Placed
  <2>2. At(File(m), t) + storage_bytes(t.dtype, Numel(t.shape)) <= disk[m]
    BY <1>2, <1>6 DEF Parses, parse_part
  <2>3. RoundUp(total, File(m).align) \in Nat /\ RoundUp(total, File(m).align) >= total
    BY <1>3, <1>4, RoundsUp
  <2>4. At(File(m), t) = RoundUp(total, File(m).align) + t.off
    BY DEF At, DataStart, total
  <2>5. At(File(m), t) >= total
    BY <1>3, <1>4, <2>3, <2>4
  <2> QED
    BY <2>1, <2>2, <2>5 DEF total
<1>7. CASE ~IsGguf
  <2>1. table[n].file = m /\ table[n].offset = total + t.off /\ table[n].nbytes = t.end - t.off
    BY <1>2, <1>7 DEF Placed, total
  <2>2. t.off <= t.end /\ t.end <= disk[m] - total
    BY <1>2, <1>7 DEF Parses, parse_shard, total
  <2>3. total + t.off >= total /\ total + t.off + (t.end - t.off) <= disk[m]
    BY <1>3, <1>4, <1>5, <2>2
  <2> QED
    BY <2>1, <2>3 DEF total
<1> QED
  BY <1>6, <1>7

(* No byte of a safetensors checkpoint belongs to two tensors.             *)
LEMMA NoAliasHolds == Known /\ InPlace => NoAlias
<1> SUFFICES ASSUME Known, InPlace, ~IsGguf, NEW a \in DOMAIN table, NEW b \in DOMAIN table,
                    a # b, table[a].file = table[b].file
             PROVE  Bytes(a) \cap Bytes(b) = {}
  BY DEF NoAlias
<1>1. PICK m, s : ComesFrom(a, table[a], m, s)
  BY DEF InPlace
<1>2. PICK l, t : ComesFrom(b, table[b], l, t)
  BY DEF InPlace
<1>3. /\ m \in DOMAIN repo.files /\ Parses(m) /\ s \in File(m).tensors
      /\ table[a] = Placed(m, s) /\ s.name = a
  BY <1>1 DEF ComesFrom
<1>4. t \in File(l).tensors /\ table[b] = Placed(l, t) /\ t.name = b
  BY <1>2 DEF ComesFrom
<1> DEFINE total == Total(File(m).fields)
<1>5. table[a].file = m /\ table[a].offset = total + s.off /\ table[a].nbytes = s.end - s.off
  BY <1>3 DEF Placed, total
<1>6. l = m
  BY <1>4, <1>5 DEF Placed
<1>7. table[b].offset = total + t.off /\ table[b].nbytes = t.end - t.off
  BY <1>4, <1>6 DEF Placed, total
<1>8. /\ IsFiniteSet(File(m).tensors) /\ HasEnds(File(m).tensors) /\ File(m).fields \in Seq(Nat)
      /\ s.off \in Nat /\ s.end \in Nat /\ t.off \in Nat /\ t.end \in Nat
  BY <1>3, <1>4, <1>6, FileIsTyped DEF Known, HasEnds
<1>9. s.end <= t.off \/ t.end <= s.off
  <2>1. parse_shard(File(m), disk[m])
    BY <1>3 DEF Parses
  <2>2. s # t /\ t \in File(m).tensors
    BY <1>3, <1>4, <1>6
  <2> QED
    BY <1>3, <1>8, <2>1, <2>2, ShardApart
<1>10. total \in Nat
  <2>1. Len(File(m).fields) \in 0 .. Len(File(m).fields)
    BY <1>8
  <2> QED
    BY <1>8, <2>1, TotalIsLast, SumsAreNat
<1> HIDE DEF total
<1>11. /\ Bytes(a) = total + s.off .. total + s.off + (s.end - s.off) - 1
       /\ Bytes(b) = total + t.off .. total + t.off + (t.end - t.off) - 1
  BY <1>5, <1>7 DEF Bytes
<1>12. ASSUME NEW x \in Bytes(a), x \in Bytes(b) PROVE FALSE
  <2>1. /\ x \in Int
        /\ total + s.off <= x /\ x <= total + s.off + (s.end - s.off) - 1
        /\ total + t.off <= x /\ x <= total + t.off + (t.end - t.off) - 1
    BY <1>11, <1>12
  <2>2. s.off \in Nat /\ s.end \in Nat /\ t.off \in Nat /\ t.end \in Nat
    BY <1>8
  <2>3. x <= total + s.end - 1 /\ x <= total + t.end - 1
    BY <1>10, <2>1, <2>2
  <2> QED
    BY <1>9, <1>10, <2>1, <2>2, <2>3
<1> QED
  BY <1>12

(* What opened has every tensor of every part.                             *)
LEMMA OpenIsWholeHolds == Behind /\ AtEnd => OpenIsWhole
BY DEF Behind, AtEnd, OpenIsWhole, Entered

(* GgufWeights::open, SafetensorsLoader::load and merge_extra: whatever    *)
(* the headers say, as long as their sums fit the machine's integers, and  *)
(* however much of each file is there, the bytes of every tensor in the    *)
(* table lie in the data of its own file, no two tensors of a safetensors  *)
(* checkpoint share one, and a checkpoint that opened has them all.        *)
THEOREM WhatOpensIsSound == Spec => []OpenIsSound
<1> DEFINE IInv == Known /\ InPlace /\ Behind /\ AtEnd
<1>1. Init => IInv
  BY KnownInit, InPlaceInit, BehindInit
<1>2. IInv /\ [Next]_vars => IInv'
  BY KnownStep, InPlaceStep, BehindStep
<1>3. IInv => OpenIsSound
  BY InItsFileHolds, NoAliasHolds, OpenIsWholeHolds DEF OpenIsSound
<1> QED
  BY <1>1, <1>2, <1>3, PTL DEF Spec
--------------------------------------------------------------------------------
(* The preflight.                                                          *)

Validated ==
  \A n \in DOMAIN passed :
    /\ n \in DOMAIN repo.files /\ passed[n] = File(n).tensors
    /\ Total(File(n).fields) <= File(n).len
    /\ IsGguf => Values(File(n)) /\ RowsFit(File(n))

LEMMA ReachIsWithin ==
  ASSUME Known, NEW n \in DOMAIN repo.files
  PROVE  Reach(File(n)) \in Nat /\ Reach(File(n)) <= File(n).len
<1>1. File(n).len \in Nat /\ want \in Nat
  BY FileIsTyped DEF Known
<1> QED
  BY <1>1 DEF Reach, Smaller

LEMMA ValidatedStep == Known /\ Validated /\ [Next]_vars => Validated'
<1> SUFFICES ASSUME Known, Validated, [Next]_vars PROVE Validated'
  OBVIOUS
<1>1. /\ \A m : File(m)' = File(m)
      /\ \A m : Values(File(m))' <=> Values(File(m))
      /\ \A m : RowsFit(File(m))' <=> RowsFit(File(m))
  BY SameFiles DEF Values, RowsFit
<1>2. ASSUME NEW n \in DOMAIN passed'
      PROVE  /\ n \in DOMAIN repo.files /\ passed'[n] = File(n).tensors
             /\ Total(File(n).fields) <= File(n).len
             /\ IsGguf => Values(File(n)) /\ RowsFit(File(n))
  <2>1. CASE n \in DOMAIN passed /\ passed'[n] = passed[n]
    BY <2>1 DEF Validated
  <2>2. CASE Preflight /\ ~(n \in DOMAIN passed /\ passed'[n] = passed[n])
    <3>1. /\ IsGguf /\ i <= Len(SplitSet)
          /\ \/ passed' = passed
             \/ /\ parse_header_bytes(File(Current), Reach(File(Current)))
                /\ RowsFit(File(Current))
                /\ passed' = Keeping([m \in {Current} |-> File(Current).tensors], passed)
      BY <2>2 DEF Preflight
    <3>2. n = Current /\ passed'[n] = File(Current).tensors
      BY <2>2, <3>1 DEF Keeping
    <3>3. Current \in DOMAIN repo.files
      <4>1. repo.parts \in Seq(DOMAIN repo.files) /\ i \in Nat \ {0}
        BY RepoAssumption DEF Known
      <4> QED
        BY <3>1, <4>1 DEF Current, ToOpen, SplitSet
    <3>4. Values(File(Current)) /\ RowsFit(File(Current))
            /\ Cursor(File(Current).fields, Reach(File(Current))).ok
      BY <2>2, <3>1 DEF parse_header_bytes
    <3>5. File(Current).fields \in Seq(Nat) /\ File(Current).len \in Nat
      BY <3>3, FileIsTyped DEF Known
    <3>6. Reach(File(Current)) \in Nat /\ Reach(File(Current)) <= File(Current).len
      BY <3>3, ReachIsWithin
    <3>7. Total(File(Current).fields) <= Reach(File(Current))
      BY <3>4, <3>5, <3>6, CursorFits
    <3>8. Total(File(Current).fields) \in Nat
      <4>1. Len(File(Current).fields) \in 0 .. Len(File(Current).fields)
        BY <3>5
      <4> QED
        BY <3>5, <4>1, TotalIsLast, SumsAreNat
    <3> QED
      BY <3>2, <3>3, <3>4, <3>5, <3>6, <3>7, <3>8
  <2>3. CASE PreflightShard /\ ~(n \in DOMAIN passed /\ passed'[n] = passed[n])
    <3> DEFINE p == repo.parts[i]
    <3>1. /\ ~IsGguf /\ i <= Len(repo.parts)
          /\ \/ passed' = passed
             \/ /\ Total(File(p).fields) <= File(p).len
                /\ passed' = Keeping([m \in {p} |-> File(p).tensors], passed)
      BY <2>3 DEF PreflightShard
    <3>2. n = p /\ passed'[n] = File(p).tensors /\ Total(File(p).fields) <= File(p).len
      BY <2>3, <3>1 DEF Keeping
    <3>3. p \in DOMAIN repo.files
      <4>1. repo.parts \in Seq(DOMAIN repo.files) /\ i \in Nat \ {0}
        BY RepoAssumption DEF Known
      <4> QED
        BY <3>1, <4>1
    <3> QED
      BY <3>1, <3>2, <3>3
  <2>4. CASE ~Preflight /\ ~PreflightShard
    <3>1. passed' = passed \/ passed' = Empty
      BY <2>4 DEF Next, vars, PreflightDone, SkipPreflight, Missing, OpenPart, Opened, merge_extra
    <3> QED
      BY <2>1, <3>1 DEF Empty
  <2> QED
    BY <2>1, <2>2, <2>3, <2>4
<1> QED
  BY <1>1, <1>2, SameFiles DEF Validated

LEMMA PreflightIsWholeHolds == Known /\ Validated => PreflightIsWhole
<1> SUFFICES ASSUME Known, Validated PROVE PreflightIsWhole
  OBVIOUS
<1>1. \A n \in DOMAIN passed : Total(File(n).fields) <= File(n).len
  BY DEF Validated
<1>2. ASSUME IsGguf, NEW n \in DOMAIN passed, NEW t \in passed[n], t.shape # <<>>
      PROVE  storage_bytes(t.dtype, Numel(t.shape)) * Codecs[t.dtype].grain
               = Numel(t.shape) * Codecs[t.dtype].bytes
  <2>1. /\ n \in DOMAIN repo.files /\ t \in File(n).tensors
        /\ Values(File(n)) /\ RowsFit(File(n))
    BY <1>2 DEF Validated
  <2>2. t.shape \in Seq(Nat) /\ t.dtype \in DOMAIN Codecs
    BY <2>1, FileIsTyped DEF Known, Values, ggml_dtype
  <2>3. t.shape[Len(t.shape)] % Codecs[t.dtype].grain = 0
    BY <1>2, <2>1 DEF RowsFit
  <2> QED
    BY <1>2, <2>2, <2>3, WholeRows
<1> QED
  BY <1>1, <1>2 DEF PreflightIsWhole

LEMMA PreflightFindsStep == Known /\ PreflightFinds /\ [Next]_vars => PreflightFinds'
<1> SUFFICES ASSUME Known, PreflightFinds, [Next]_vars, pc' = "refused", IsGguf
             PROVE  PreflightFinds'
  BY SameFiles DEF PreflightFinds
<1> DEFINE f == File(Current)
           Finds == f.magic /\ Values(f) /\ RowsFit(f) => Total(f.fields) > Smaller(f.len, Cap)
<1>1. CASE pc = "refused"
  <2>1. i' = i
    BY <1>1 DEF Next, vars, Preflight, PreflightShard, PreflightDone, SkipPreflight, Missing,
                OpenPart, Opened, merge_extra
  <2>2. Finds
    BY <1>1 DEF PreflightFinds
  <2> QED
    BY <2>1, <2>2, SameFiles DEF PreflightFinds, Current, Values, RowsFit
<1>2. CASE pc # "refused"
  <2>1. Preflight
    BY <1>2 DEF Next, vars, PreflightShard, PreflightDone, SkipPreflight, Missing,
                OpenPart, Opened, merge_extra
  <2>2. pc = "preflight" /\ i <= Len(SplitSet)
    BY <2>1 DEF Preflight
  <2> DEFINE parsed == parse_header_bytes(f, Reach(f))
  <2>3. /\ i' = i /\ ~(parsed /\ RowsFit(f)) /\ ~(~parsed /\ Grows(f))
    <3> HIDE DEF f
    <3>1. CASE parsed /\ RowsFit(f)
      BY <1>2, <2>1, <2>2, <3>1 DEF Preflight, f
    <3>2. CASE ~parsed /\ Grows(f)
      BY <1>2, <2>1, <2>2, <3>2 DEF Preflight, f
    <3>3. CASE ~(parsed /\ RowsFit(f)) /\ ~(~parsed /\ Grows(f))
      BY <2>1, <3>3 DEF Preflight, f
    <3> QED
      BY <3>1, <3>2, <3>3
  <2>4. Current \in DOMAIN repo.files
    <3>1. repo.parts \in Seq(DOMAIN repo.files) /\ i \in Nat \ {0}
      BY RepoAssumption DEF Known
    <3> QED
      BY <2>2, <3>1 DEF Current, ToOpen, SplitSet
  <2>5. f.fields \in Seq(Nat) /\ f.len \in Nat /\ want \in Nat
    BY <2>4, FileIsTyped DEF Known
  <2>6. Reach(f) \in Nat
    BY <2>4, ReachIsWithin
  <2>7. Total(f.fields) \in Nat
    <3>1. Len(f.fields) \in 0 .. Len(f.fields)
      BY <2>5
    <3> QED
      BY <2>5, <3>1, TotalIsLast, SumsAreNat
  <2>8. Finds
    <3> HIDE DEF f
    <3> SUFFICES ASSUME f.magic, Values(f), RowsFit(f)
                 PROVE  Total(f.fields) > Smaller(f.len, Cap)
      OBVIOUS
    <3>1. ~Cursor(f.fields, Reach(f)).ok
      BY <2>3 DEF parse_header_bytes
    <3>2. Total(f.fields) > Reach(f)
      BY <2>5, <2>6, <2>7, <3>1, CursorFits
    <3>3. ~Grows(f)
      BY <2>3, <3>1 DEF parse_header_bytes
    <3> QED
      BY <2>5, <2>7, <3>2, <3>3, WindowAssumption DEF Grows, Reach, Smaller
  <2> QED
    BY <2>3, <2>8, SameFiles DEF PreflightFinds, Current, Values, RowsFit
<1> QED
  BY <1>1, <1>2

(* preflight_gguf and preflight_safetensors: the header they accept is the *)
(* header of the whole file, in it no row ends in half a block, and a good *)
(* header is refused only when it is longer than the file or the cap.      *)
THEOREM ThePreflightIsExact == Spec => []PreflightIsExact
<1> DEFINE IInv == Known /\ Validated /\ PreflightFinds
<1>1. Init => IInv
  <2>1. Init => Validated /\ PreflightFinds
    BY DEF Init, Validated, PreflightFinds, Empty
  <2> QED
    BY <2>1, KnownInit
<1>2. IInv /\ [Next]_vars => IInv'
  BY KnownStep, ValidatedStep, PreflightFindsStep
<1>3. IInv => PreflightIsExact
  BY PreflightIsWholeHolds DEF PreflightIsExact
<1> QED
  BY <1>1, <1>2, <1>3, PTL DEF Spec
--------------------------------------------------------------------------------
(* Types.  The window doubles until it is the cap, and never passes it.    *)

WindowStep == \E k \in {1, 2, 4, 8, 16, 32, 64} : want = k * Window
WindowTyped == WindowStep /\ want \in Window .. Cap

LEMMA WindowTypedStep == WindowTyped /\ [Next]_vars => WindowTyped'
<1> SUFFICES ASSUME WindowTyped, [Next]_vars PROVE WindowTyped'
  OBVIOUS
<1>1. \/ want' = want \/ want' = Window \/ (want' = want * 2 /\ want < Cap)
  BY DEF Next, vars, Preflight, PreflightShard, PreflightDone, SkipPreflight, Missing,
         OpenPart, Opened, merge_extra, Grows
<1>2. PICK c \in {1, 2, 4, 8, 16, 32, 64} : Cap = c * Window
  BY WindowAssumption
<1>3. PICK k \in {1, 2, 4, 8, 16, 32, 64} : want = k * Window
  BY DEF WindowTyped, WindowStep
<1>4. Window \in Nat \ {0}
  BY WindowAssumption
<1>5. CASE want' = want
  BY <1>5 DEF WindowTyped, WindowStep
<1>6. CASE want' = Window
  BY <1>2, <1>4, <1>6 DEF WindowTyped, WindowStep
<1>7. CASE want' = want * 2 /\ want < Cap
  <2>1. k * Window < c * Window
    BY <1>2, <1>3, <1>7
  <2>2. k < c
    BY <1>4, <2>1
  <2>3. 2 * k <= c /\ 2 * k \in {1, 2, 4, 8, 16, 32, 64}
    BY <2>2
  <2>4. want' = (2 * k) * Window
    BY <1>3, <1>4, <1>7
  <2>5. Window <= (2 * k) * Window /\ (2 * k) * Window <= c * Window
    BY <1>4, <2>3
  <2>6. (2 * k) * Window \in Int
    BY <1>4
  <2> QED
    BY <1>2, <1>4, <2>3, <2>4, <2>5, <2>6 DEF WindowTyped, WindowStep
<1> QED
  BY <1>1, <1>5, <1>6, <1>7

LEMMA TableTyped ==
  Known /\ InPlace => \A n \in DOMAIN table :
    table[n].file \in DOMAIN repo.files /\ table[n].dtype \in DOMAIN Codecs
<1> SUFFICES ASSUME Known, InPlace, NEW n \in DOMAIN table
             PROVE  table[n].file \in DOMAIN repo.files /\ table[n].dtype \in DOMAIN Codecs
  OBVIOUS
<1>1. PICK m, t : ComesFrom(n, table[n], m, t)
  BY DEF InPlace
<1>2. /\ m \in DOMAIN repo.files /\ Parses(m) /\ t \in File(m).tensors
      /\ table[n] = Placed(m, t)
  BY <1>1 DEF ComesFrom
<1>3. table[n].file = m /\ table[n].dtype = t.dtype
  BY <1>2 DEF Placed
<1>4. CASE IsGguf
  <2>1. Values(File(m))
    BY <1>2, <1>4 DEF Parses, parse_part, Values
  <2> QED
    BY <1>2, <1>3, <2>1 DEF Values, ggml_dtype
<1>5. CASE ~IsGguf
  <2>1. t.dtype = "F16"
    BY <1>2, <1>5 DEF Parses, parse_shard
  <2> QED
    BY <1>2, <1>3, <2>1 DEF Codecs
<1> QED
  BY <1>4, <1>5

(* The window stays between its first size and the cap, and the table      *)
(* speaks of files that are there and of types the kernels execute.        *)
THEOREM CheckpointIsTyped == Spec => []TypeOK
<1> DEFINE States == pc \in {"preflight", "refused", "open", "opened", "failed"}
           IInv == Known /\ InPlace /\ Validated /\ WindowTyped /\ States
<1>1. Init => IInv
  <2>1. Init => Validated /\ States
    BY DEF Init, Validated, Empty
  <2>2. Init => WindowTyped
    <3> SUFFICES ASSUME Init PROVE WindowTyped
      OBVIOUS
    <3>1. want = 1 * Window /\ Window <= Cap /\ want \in Int
      BY WindowAssumption DEF Init
    <3> QED
      BY <3>1, WindowAssumption DEF WindowTyped, WindowStep
  <2> QED
    BY <2>1, <2>2, KnownInit, InPlaceInit
<1>2. IInv /\ [Next]_vars => IInv'
  <2>1. States /\ [Next]_vars => States'
    BY DEF Next, vars, Preflight, PreflightShard, PreflightDone, SkipPreflight, Missing,
           OpenPart, Opened, merge_extra
  <2> HIDE DEF States
  <2> QED
    BY <2>1, KnownStep, InPlaceStep, ValidatedStep, WindowTypedStep
<1>3. IInv => TypeOK
  BY TableTyped DEF Known, Validated, WindowTyped, TypeOK
<1> QED
  BY <1>1, <1>2, <1>3, PTL DEF Spec
--------------------------------------------------------------------------------
(* Names.                                                                  *)

(* A table names each stem once, so it renames it to what it is listed     *)
(* with; what no table lists keeps its name.                               *)
Functional(T) == \A p, q \in T : p[1] = q[1] => p[2] = q[2]

LEMMA TablesAreFunctional ==
  /\ Functional(TextStems) /\ Functional(TextTops)
  /\ Functional(Gemma4Stems) /\ Functional(Gemma4Tops)
  /\ Functional(VisionTails) /\ Functional(VisionStatStems)
  /\ Functional(AudioTails) /\ Functional(AudioStatStems)
  /\ Functional(TowerTops) /\ Functional(Towers)
<1>1. Functional(TextStems) /\ Functional(TextTops)
  BY DEF Functional, TextStems, TextTops
<1>2. Functional(Gemma4Stems) /\ Functional(Gemma4Tops)
  BY DEF Functional, Gemma4Stems, Gemma4Tops, TextStems, TextTops
<1>3. Functional(VisionTails) /\ Functional(VisionStatStems)
  BY DEF Functional, VisionTails, VisionStatStems
<1>4. Functional(AudioTails)
  BY DEF Functional, AudioTails
<1>5. Functional(AudioStatStems)
  BY DEF Functional, AudioStatStems
<1>6. Functional(TowerTops) /\ Functional(Towers)
  BY DEF Functional, TowerTops, Towers
<1> QED
  BY <1>1, <1>2, <1>3, <1>4, <1>5, <1>6

LEMMA RenamesListed ==
  ASSUME NEW T, Functional(T), NEW p \in T
  PROVE  Renamed(T, p[1]) = p[2]
<1>1. p[1] \in Keys(T)
  BY DEF Keys
<1> QED
  BY <1>1 DEF Functional, Renamed

LEMMA KeepsOthers ==
  ASSUME NEW T, NEW stem, stem \notin Keys(T)
  PROVE  Renamed(T, stem) = stem
BY DEF Renamed

(* What the builders ask for is written.                                   *)
LEMMA Gemma4Listed ==
  \A s \in Gemma4Layer(Top, {}) : \E p \in Gemma4Stems : p[2] = s
<1> SUFFICES ASSUME NEW s \in Gemma4Layer(Top, {}) PROVE \E p \in Gemma4Stems : p[2] = s
  OBVIOUS
<1>1. /\ <<"ffn_norm", "pre_feedforward_layernorm">> \in Gemma4Stems
      /\ <<"attn_q_norm", "self_attn.q_norm">> \in Gemma4Stems
      /\ <<"attn_k_norm", "self_attn.k_norm">> \in Gemma4Stems
      /\ <<"post_attention_norm", "post_attention_layernorm">> \in Gemma4Stems
      /\ <<"post_ffw_norm", "post_feedforward_layernorm">> \in Gemma4Stems
      /\ <<"post_norm", "post_per_layer_input_norm">> \in Gemma4Stems
      /\ <<"inp_gate", "per_layer_input_gate">> \in Gemma4Stems
      /\ <<"proj", "per_layer_projection">> \in Gemma4Stems
  BY DEF Gemma4Stems
<1>2. CASE \E p \in TextStems : p[1] # "ffn_norm" /\ p[2] = s
  BY <1>2 DEF Gemma4Stems
<1>3. CASE ~\E p \in TextStems : p[1] # "ffn_norm" /\ p[2] = s
  <2>1. s \in {"self_attn.q_norm", "self_attn.k_norm", "pre_feedforward_layernorm",
               "post_attention_layernorm", "post_feedforward_layernorm",
               "per_layer_input_gate", "per_layer_projection", "post_per_layer_input_norm"}
    BY <1>3 DEF Gemma4Layer, TextStems
  <2> QED
    BY <1>1, <2>1
<1> QED
  BY <1>2, <1>3

LEMMA Gemma4IsWritten ==
  ASSUME NEW Shared, NEW asked \in Gemma4Asks(Shared)
  PROVE  \E n \in TextExport(Gemma4Stems, Gemma4Tops) : translate_gemma4(n) = asked
<1> DEFINE Outer == Of("language_model", {Top}, {"embed_tokens", "norm", "embed_tokens_per_layer",
                       "per_layer_model_projection", "per_layer_projection_norm"}, {"weight"})
<1>1. CASE \E l \in Layers, s \in Gemma4Layer(Top, {}) : asked = <<"language_model", l, s, "weight">>
  <2>1. PICK l \in Layers, s \in Gemma4Layer(Top, {}) :
          asked = <<"language_model", l, s, "weight">>
    BY <1>1
  <2>2. PICK p \in Gemma4Stems : p[2] = s
    BY Gemma4Listed
  <2>3. Renamed(Gemma4Stems, p[1]) = s /\ p[1] \in Keys(Gemma4Stems)
    BY <2>2, TablesAreFunctional, RenamesListed DEF Keys
  <2>4. <<"blk", l, p[1], "weight">> \in TextExport(Gemma4Stems, Gemma4Tops)
    BY <2>3 DEF TextExport, Of
  <2>5. translate_gemma4(<<"blk", l, p[1], "weight">>) = asked
    BY <2>1, <2>3, NamesAssumption DEF translate_gemma4
  <2> QED
    BY <2>4, <2>5
<1>2. CASE asked \in Outer
  <2>1. PICK s \in {"embed_tokens", "norm", "embed_tokens_per_layer",
                    "per_layer_model_projection", "per_layer_projection_norm"} :
          asked = <<"language_model", Top, s, "weight">>
    BY <1>2 DEF Of
  <2>2. PICK p \in Gemma4Tops : p[2] = s
    BY DEF Gemma4Tops, TextTops
  <2>3. Renamed(Gemma4Tops, p[1]) = s /\ p[1] \in Keys(Gemma4Tops)
    BY <2>2, TablesAreFunctional, RenamesListed DEF Keys
  <2>4. <<"lm", Top, p[1], "weight">> \in TextExport(Gemma4Stems, Gemma4Tops)
    BY <2>3 DEF TextExport, Of
  <2>5. translate_gemma4(<<"lm", Top, p[1], "weight">>) = asked
    BY <2>1, <2>3 DEF translate_gemma4
  <2> QED
    BY <2>4, <2>5
<1>3. ASSUME NEW l \in Layers,
             asked \in Of("language_model", {l}, Gemma4Layer(l, Shared), {"weight"})
      PROVE  \E s \in Gemma4Layer(Top, {}) : asked = <<"language_model", l, s, "weight">>
  <2> DEFINE stems == Gemma4Layer(l, Shared)
  <2>1. stems \subseteq Gemma4Layer(Top, {})
    BY DEF Gemma4Layer
  <2>2. asked \in Of("language_model", {l}, stems, {"weight"})
    BY <1>3
  <2> HIDE DEF stems
  <2>3. \E s \in stems : asked = <<"language_model", l, s, "weight">>
    BY <2>2 DEF Of
  <2> QED
    BY <2>1, <2>3
<1>4. \/ \E l \in Layers : asked \in Of("language_model", {l}, Gemma4Layer(l, Shared), {"weight"})
      \/ asked \in Outer
  BY DEF Gemma4Asks
<1> QED
  BY <1>1, <1>2, <1>3, <1>4

LEMMA StdIsWritten ==
  \A asked \in StdAsks : \E n \in TextExport(TextStems, TextTops) : translate_name(n) = asked
<1> SUFFICES ASSUME NEW asked \in StdAsks
             PROVE  \E n \in TextExport(TextStems, TextTops) : translate_name(n) = asked
  OBVIOUS
<1>1. CASE asked[2] \in Layers
  <2>1. /\ asked = <<"model", asked[2], asked[3], "weight">>
        /\ \E p \in TextStems : p[2] = asked[3]
    BY <1>1, NamesAssumption DEF StdAsks, Of, TextStems
  <2>2. PICK p \in TextStems : p[2] = asked[3]
    BY <2>1
  <2>3. Renamed(TextStems, p[1]) = asked[3] /\ p[1] \in Keys(TextStems)
    BY <2>2, TablesAreFunctional, RenamesListed DEF Keys
  <2>4. <<"blk", asked[2], p[1], "weight">> \in TextExport(TextStems, TextTops)
    BY <1>1, <2>3 DEF TextExport, Of
  <2>5. translate_name(<<"blk", asked[2], p[1], "weight">>) = asked
    BY <1>1, <2>1, <2>3, NamesAssumption DEF translate_name
  <2> QED
    BY <2>4, <2>5
<1>2. CASE asked[2] \notin Layers
  <2>1. /\ asked = <<"model", Top, asked[3], "weight">>
        /\ \E p \in TextTops : p[2] = asked[3]
    BY <1>2 DEF StdAsks, Of, TextTops
  <2>2. PICK p \in TextTops : p[2] = asked[3]
    BY <2>1
  <2>3. Renamed(TextTops, p[1]) = asked[3] /\ p[1] \in Keys(TextTops)
    BY <2>2, TablesAreFunctional, RenamesListed DEF Keys
  <2>4. <<"lm", Top, p[1], "weight">> \in TextExport(TextStems, TextTops)
    BY <2>3 DEF TextExport, Of
  <2>5. translate_name(<<"lm", Top, p[1], "weight">>) = asked
    BY <2>1, <2>3 DEF translate_name
  <2> QED
    BY <2>4, <2>5
<1> QED
  BY <1>1, <1>2

(* The projector file in three parts: the blocks of the two towers, and    *)
(* what stands outside the blocks.                                         *)
VisionExport(n) ==
  /\ n = <<"v", n[2], n[3], n[4]>> /\ n[2] \in Layers
  /\ \/ /\ n[3] \in Keys(VisionTails) \ {"attn_norm", "post_attention_norm", "ffn_norm", "post_ffw_norm"}
        /\ n[4] = "weight"
     \/ n[3] \in Keys(VisionStatStems) /\ n[4] \in Stats
AudioExport(n) ==
  /\ n = <<"a", n[2], n[3], n[4]>> /\ n[2] \in Layers
  /\ \/ n[3] \in Keys(AudioTails) /\ n[4] = "weight"
     \/ n[3] \in {"attn_q", "conv_pw1", "ffn_up"} /\ n[4] = "bias"
     \/ n[3] \in Keys(AudioStatStems) /\ n[4] \in Stats
     \/ n[3] = "per_dim_scale" /\ n[4] = "weight"
OutsideExport ==
  {<<"a", Top, s, "weight">> : s \in {"conv1d.0", "conv1d.0.norm", "conv1d.1", "conv1d.1.norm",
                                      "input_projection", "pre_encode.out"}}
  \cup {<<"a", Top, "pre_encode.out", "bias">>, <<"v", Top, "patch_embd", "weight">>,
        <<"v", Top, "position_embd", "weight">>, <<"mm", Top, "input_projection", "weight">>,
        <<"mm", Top, "a.input_projection", "weight">>}

LEMMA ExportParts ==
  \A n : n \in TowerExport <=> VisionExport(n) \/ AudioExport(n) \/ n \in OutsideExport
<1>1. ASSUME NEW n, n \in TowerExport
      PROVE  VisionExport(n) \/ AudioExport(n) \/ n \in OutsideExport
  BY <1>1 DEF TowerExport, Of, VisionExport, AudioExport, OutsideExport
<1>2. ASSUME NEW n, VisionExport(n) PROVE n \in TowerExport
  BY <1>2 DEF TowerExport, Of, VisionExport
<1>3. ASSUME NEW n, AudioExport(n) PROVE n \in TowerExport
  BY <1>3 DEF TowerExport, Of, AudioExport
<1>4. ASSUME NEW n \in OutsideExport PROVE n \in TowerExport
  BY DEF TowerExport, Of, OutsideExport
<1> QED
  BY <1>1, <1>2, <1>3, <1>4
Spelled(t, part, layer, stem, suffix) ==
  t[1] = part /\ t[2] = layer /\ t[3] = stem /\ t[4] = suffix

LEMMA Components ==
  ASSUME NEW t, NEW a, NEW b, NEW c, NEW d, t = <<a, b, c, d>>
  PROVE  Spelled(t, a, b, c, d)
BY DEF Spelled

LEMMA VisionRenames ==
  ASSUME NEW n, VisionExport(n)
  PROVE  \E p \in IF n[4] \in Stats THEN VisionStatStems
                  ELSE {q \in VisionTails : q[1] \notin {"attn_norm", "post_attention_norm",
                                                        "ffn_norm", "post_ffw_norm"}} :
           /\ p[1] = n[3]
           /\ Spelled(translate_mmproj(n), "vision_tower", n[2], p[2], n[4])
<1>1. n[2] # Top /\ n[1] = "v" /\ n[4] \in Stats \cup {"weight"}
  BY NamesAssumption DEF VisionExport
<1>2. CASE n[4] \in Stats
  <2>1. PICK p \in VisionStatStems : p[1] = n[3]
    BY <1>2 DEF VisionExport, Keys, Stats
  <2>2. Renamed(VisionStatStems, n[3]) = p[2]
    BY <2>1, TablesAreFunctional, RenamesListed
  <2> QED
    BY <1>1, <1>2, <2>1, <2>2, Components DEF translate_mmproj, VisionBlock
<1>3. CASE n[4] \notin Stats
  <2>1. PICK p \in VisionTails : p[1] = n[3]
    BY <1>3 DEF VisionExport, Keys
  <2>2. Renamed(VisionTails, n[3]) = p[2]
    BY <2>1, TablesAreFunctional, RenamesListed
  <2>3. n[3] \notin {"attn_norm", "post_attention_norm", "ffn_norm", "post_ffw_norm"}
    BY <1>3 DEF VisionExport
  <2> QED
    BY <1>1, <1>3, <2>1, <2>2, <2>3, Components DEF translate_mmproj, VisionBlock
<1> QED
  BY <1>2, <1>3

LEMMA AudioRenames ==
  ASSUME NEW n, AudioExport(n)
  PROVE  \/ /\ n[3] = "per_dim_scale" /\ n[4] = "weight"
            /\ Spelled(translate_mmproj(n), "audio_tower", n[2], "self_attn.per_dim_scale", "")
         \/ \E p \in IF n[4] \in Stats THEN AudioStatStems ELSE AudioTails :
              /\ p[1] = n[3] /\ n[4] # ""
              /\ Spelled(translate_mmproj(n), "audio_tower", n[2], p[2], n[4])
<1>1. n[2] # Top /\ n[1] = "a"
  BY NamesAssumption DEF AudioExport
<1>2. CASE n[3] = "per_dim_scale"
  <2>1. n[3] \notin Keys(AudioTails) /\ n[3] \notin Keys(AudioStatStems)
    BY <1>2 DEF Keys, AudioTails, AudioStatStems
  <2> QED
    BY <1>1, <1>2, <2>1, Components DEF AudioExport, translate_mmproj, AudioBlock
<1>3. CASE n[3] # "per_dim_scale" /\ n[4] \in Stats
  <2>1. PICK p \in AudioStatStems : p[1] = n[3]
    BY <1>3 DEF AudioExport, Keys, Stats
  <2>2. Renamed(AudioStatStems, n[3]) = p[2]
    BY <2>1, TablesAreFunctional, RenamesListed
  <2>3. n[4] # ""
    BY <1>3 DEF Stats
  <2> QED
    BY <1>1, <1>3, <2>1, <2>2, <2>3, Components DEF translate_mmproj, AudioBlock
<1>4. CASE n[3] # "per_dim_scale" /\ n[4] \notin Stats
  <2>1. n[3] \in Keys(AudioTails) /\ n[4] \in {"weight", "bias"}
    BY <1>4 DEF AudioExport, Keys, AudioTails
  <2>2. PICK p \in AudioTails : p[1] = n[3]
    BY <2>1 DEF Keys
  <2>3. Renamed(AudioTails, n[3]) = p[2]
    BY <2>2, TablesAreFunctional, RenamesListed
  <2> QED
    BY <1>1, <1>4, <2>1, <2>2, <2>3, Components DEF translate_mmproj, AudioBlock
<1> QED
  BY <1>2, <1>3, <1>4

(* What becomes of the names outside the blocks, and which name each came  *)
(* from.                                                                   *)
LEMMA OutsideTops ==
  ASSUME NEW m, NEW s, NEW x, x \notin Stats, NEW to, NEW r,
         <<<<m, s>>, <<to, r>>>> \in TowerTops, s # "position_embd"
  PROVE  translate_mmproj(<<m, Top, s, x>>) = <<to, Top, r, x>>
<1> DEFINE n == <<m, Top, s, x>>
<1>1. n[1] = m /\ n[2] = Top /\ n[3] = s /\ n[4] = x
  OBVIOUS
<1>2. <<m, s>> \in Keys(TowerTops)
  BY DEF Keys
<1>3. Renamed(TowerTops, <<m, s>>) = <<to, r>>
  BY TablesAreFunctional, RenamesListed
<1>4. <<m, s>> # <<"v", "position_embd">>
  OBVIOUS
<1> HIDE DEF n
<1>5. translate_mmproj(n) = <<to, Top, r, x>>
  BY <1>1, <1>2, <1>3, <1>4 DEF translate_mmproj
<1> QED
  BY <1>5 DEF n

LEMMA OutsideRenames ==
  /\ \A x \in {"weight", "bias"} :
       /\ translate_mmproj(<<"a", Top, "conv1d.0", x>>)
            = <<"audio_tower", Top, "subsample_conv_projection.layer0.conv", x>>
       /\ translate_mmproj(<<"a", Top, "conv1d.0.norm", x>>)
            = <<"audio_tower", Top, "subsample_conv_projection.layer0.norm", x>>
       /\ translate_mmproj(<<"a", Top, "conv1d.1", x>>)
            = <<"audio_tower", Top, "subsample_conv_projection.layer1.conv", x>>
       /\ translate_mmproj(<<"a", Top, "conv1d.1.norm", x>>)
            = <<"audio_tower", Top, "subsample_conv_projection.layer1.norm", x>>
       /\ translate_mmproj(<<"a", Top, "input_projection", x>>)
            = <<"audio_tower", Top, "subsample_conv_projection.input_proj_linear", x>>
       /\ translate_mmproj(<<"a", Top, "pre_encode.out", x>>)
            = <<"audio_tower", Top, "output_proj", x>>
       /\ translate_mmproj(<<"v", Top, "patch_embd", x>>)
            = <<"vision_tower", Top, "patch_embedder.input_proj", x>>
       /\ translate_mmproj(<<"mm", Top, "input_projection", x>>)
            = <<"embed_vision", Top, "embedding_projection", x>>
       /\ translate_mmproj(<<"mm", Top, "a.input_projection", x>>)
            = <<"embed_audio", Top, "embedding_projection", x>>
  /\ translate_mmproj(<<"v", Top, "position_embd", "weight">>)
       = <<"vision_tower", Top, "patch_embedder.position_embedding_table", "">>
<1>1. "weight" \notin Stats /\ "bias" \notin Stats
  BY DEF Stats
<1>2. ASSUME NEW x \in {"weight", "bias"}
      PROVE  /\ translate_mmproj(<<"a", Top, "conv1d.0", x>>)
                 = <<"audio_tower", Top, "subsample_conv_projection.layer0.conv", x>>
            /\ translate_mmproj(<<"a", Top, "conv1d.0.norm", x>>)
                 = <<"audio_tower", Top, "subsample_conv_projection.layer0.norm", x>>
            /\ translate_mmproj(<<"a", Top, "conv1d.1", x>>)
                 = <<"audio_tower", Top, "subsample_conv_projection.layer1.conv", x>>
            /\ translate_mmproj(<<"a", Top, "conv1d.1.norm", x>>)
                 = <<"audio_tower", Top, "subsample_conv_projection.layer1.norm", x>>
            /\ translate_mmproj(<<"a", Top, "input_projection", x>>)
                 = <<"audio_tower", Top, "subsample_conv_projection.input_proj_linear", x>>
            /\ translate_mmproj(<<"a", Top, "pre_encode.out", x>>)
                 = <<"audio_tower", Top, "output_proj", x>>
            /\ translate_mmproj(<<"v", Top, "patch_embd", x>>)
                 = <<"vision_tower", Top, "patch_embedder.input_proj", x>>
            /\ translate_mmproj(<<"mm", Top, "input_projection", x>>)
                 = <<"embed_vision", Top, "embedding_projection", x>>
            /\ translate_mmproj(<<"mm", Top, "a.input_projection", x>>)
                 = <<"embed_audio", Top, "embedding_projection", x>>
  <2>1. x \notin Stats
    BY <1>1
  <2>2. translate_mmproj(<<"a", Top, "conv1d.0", x>>) = <<"audio_tower", Top, "subsample_conv_projection.layer0.conv", x>>
    <3>1. <<<<"a", "conv1d.0">>, <<"audio_tower", "subsample_conv_projection.layer0.conv">>>> \in TowerTops
      BY DEF TowerTops
    <3> QED
      BY <2>1, <3>1, OutsideTops
  <2>3. translate_mmproj(<<"a", Top, "conv1d.0.norm", x>>) = <<"audio_tower", Top, "subsample_conv_projection.layer0.norm", x>>
    <3>1. <<<<"a", "conv1d.0.norm">>, <<"audio_tower", "subsample_conv_projection.layer0.norm">>>> \in TowerTops
      BY DEF TowerTops
    <3> QED
      BY <2>1, <3>1, OutsideTops
  <2>4. translate_mmproj(<<"a", Top, "conv1d.1", x>>) = <<"audio_tower", Top, "subsample_conv_projection.layer1.conv", x>>
    <3>1. <<<<"a", "conv1d.1">>, <<"audio_tower", "subsample_conv_projection.layer1.conv">>>> \in TowerTops
      BY DEF TowerTops
    <3> QED
      BY <2>1, <3>1, OutsideTops
  <2>5. translate_mmproj(<<"a", Top, "conv1d.1.norm", x>>) = <<"audio_tower", Top, "subsample_conv_projection.layer1.norm", x>>
    <3>1. <<<<"a", "conv1d.1.norm">>, <<"audio_tower", "subsample_conv_projection.layer1.norm">>>> \in TowerTops
      BY DEF TowerTops
    <3> QED
      BY <2>1, <3>1, OutsideTops
  <2>6. translate_mmproj(<<"a", Top, "input_projection", x>>) = <<"audio_tower", Top, "subsample_conv_projection.input_proj_linear", x>>
    <3>1. <<<<"a", "input_projection">>, <<"audio_tower", "subsample_conv_projection.input_proj_linear">>>> \in TowerTops
      BY DEF TowerTops
    <3> QED
      BY <2>1, <3>1, OutsideTops
  <2>7. translate_mmproj(<<"a", Top, "pre_encode.out", x>>) = <<"audio_tower", Top, "output_proj", x>>
    <3>1. <<<<"a", "pre_encode.out">>, <<"audio_tower", "output_proj">>>> \in TowerTops
      BY DEF TowerTops
    <3> QED
      BY <2>1, <3>1, OutsideTops
  <2>8. translate_mmproj(<<"v", Top, "patch_embd", x>>) = <<"vision_tower", Top, "patch_embedder.input_proj", x>>
    <3>1. <<<<"v", "patch_embd">>, <<"vision_tower", "patch_embedder.input_proj">>>> \in TowerTops
      BY DEF TowerTops
    <3> QED
      BY <2>1, <3>1, OutsideTops
  <2>9. translate_mmproj(<<"mm", Top, "input_projection", x>>) = <<"embed_vision", Top, "embedding_projection", x>>
    <3>1. <<<<"mm", "input_projection">>, <<"embed_vision", "embedding_projection">>>> \in TowerTops
      BY DEF TowerTops
    <3> QED
      BY <2>1, <3>1, OutsideTops
  <2>10. translate_mmproj(<<"mm", Top, "a.input_projection", x>>) = <<"embed_audio", Top, "embedding_projection", x>>
    <3>1. <<<<"mm", "a.input_projection">>, <<"embed_audio", "embedding_projection">>>> \in TowerTops
      BY DEF TowerTops
    <3> QED
      BY <2>1, <3>1, OutsideTops
  <2> QED
    BY <2>2, <2>3, <2>4, <2>5, <2>6, <2>7, <2>8, <2>9, <2>10
<1>3. translate_mmproj(<<"v", Top, "position_embd", "weight">>)
        = <<"vision_tower", Top, "patch_embedder.position_embedding_table", "">>
  BY DEF translate_mmproj
<1> QED
  BY <1>2, <1>3

Undo(t) ==
  IF t[3] = "subsample_conv_projection.layer0.conv" THEN <<"a", Top, "conv1d.0", t[4]>>
  ELSE IF t[3] = "subsample_conv_projection.layer0.norm" THEN <<"a", Top, "conv1d.0.norm", t[4]>>
  ELSE IF t[3] = "subsample_conv_projection.layer1.conv" THEN <<"a", Top, "conv1d.1", t[4]>>
  ELSE IF t[3] = "subsample_conv_projection.layer1.norm" THEN <<"a", Top, "conv1d.1.norm", t[4]>>
  ELSE IF t[3] = "subsample_conv_projection.input_proj_linear" THEN <<"a", Top, "input_projection", t[4]>>
  ELSE IF t[3] = "output_proj" THEN <<"a", Top, "pre_encode.out", t[4]>>
  ELSE IF t[3] = "patch_embedder.input_proj" THEN <<"v", Top, "patch_embd", t[4]>>
  ELSE IF t[3] = "patch_embedder.position_embedding_table" THEN <<"v", Top, "position_embd", "weight">>
  ELSE IF t[1] = "embed_vision" THEN <<"mm", Top, "input_projection", t[4]>>
  ELSE <<"mm", Top, "a.input_projection", t[4]>>

LEMMA Undoes ==
  ASSUME NEW t
  PROVE  /\ t[1] = "audio_tower" /\ t[3] = "subsample_conv_projection.layer0.conv" => Undo(t) = <<"a", Top, "conv1d.0", t[4]>>
         /\ t[1] = "audio_tower" /\ t[3] = "subsample_conv_projection.layer0.norm" => Undo(t) = <<"a", Top, "conv1d.0.norm", t[4]>>
         /\ t[1] = "audio_tower" /\ t[3] = "subsample_conv_projection.layer1.conv" => Undo(t) = <<"a", Top, "conv1d.1", t[4]>>
         /\ t[1] = "audio_tower" /\ t[3] = "subsample_conv_projection.layer1.norm" => Undo(t) = <<"a", Top, "conv1d.1.norm", t[4]>>
         /\ t[1] = "audio_tower" /\ t[3] = "subsample_conv_projection.input_proj_linear" => Undo(t) = <<"a", Top, "input_projection", t[4]>>
         /\ t[1] = "audio_tower" /\ t[3] = "output_proj" => Undo(t) = <<"a", Top, "pre_encode.out", t[4]>>
         /\ t[1] = "vision_tower" /\ t[3] = "patch_embedder.input_proj" => Undo(t) = <<"v", Top, "patch_embd", t[4]>>
         /\ t[1] = "embed_vision" /\ t[3] = "embedding_projection" => Undo(t) = <<"mm", Top, "input_projection", t[4]>>
         /\ t[1] = "embed_audio" /\ t[3] = "embedding_projection" => Undo(t) = <<"mm", Top, "a.input_projection", t[4]>>
         /\ t[3] = "patch_embedder.position_embedding_table" =>
              Undo(t) = <<"v", Top, "position_embd", "weight">>
BY DEF Undo

LEMMA OutsideUndone ==
  \A n \in OutsideExport : Undo(translate_mmproj(n)) = n /\ translate_mmproj(n)[2] = Top
<1> SUFFICES ASSUME NEW n \in OutsideExport
             PROVE  Undo(translate_mmproj(n)) = n /\ translate_mmproj(n)[2] = Top
  OBVIOUS
<1> DEFINE t == translate_mmproj(n)
           Named(part, stem, to, r) ==
             \E x \in {"weight", "bias"} : n = <<part, Top, stem, x>> /\ t = <<to, Top, r, x>>
<1>1. \/ n = <<"v", Top, "position_embd", "weight">>
             /\ t = <<"vision_tower", Top, "patch_embedder.position_embedding_table", "">>
      \/ Named("a", "conv1d.0", "audio_tower", "subsample_conv_projection.layer0.conv")
      \/ Named("a", "conv1d.0.norm", "audio_tower", "subsample_conv_projection.layer0.norm")
      \/ Named("a", "conv1d.1", "audio_tower", "subsample_conv_projection.layer1.conv")
      \/ Named("a", "conv1d.1.norm", "audio_tower", "subsample_conv_projection.layer1.norm")
      \/ Named("a", "input_projection", "audio_tower", "subsample_conv_projection.input_proj_linear")
      \/ Named("a", "pre_encode.out", "audio_tower", "output_proj")
      \/ Named("v", "patch_embd", "vision_tower", "patch_embedder.input_proj")
      \/ Named("mm", "input_projection", "embed_vision", "embedding_projection")
      \/ Named("mm", "a.input_projection", "embed_audio", "embedding_projection")
  BY OutsideRenames DEF OutsideExport
<1> HIDE DEF t
<1>2. CASE /\ n = <<"v", Top, "position_embd", "weight">>
           /\ t = <<"vision_tower", Top, "patch_embedder.position_embedding_table", "">>
  <2>1. t[3] = "patch_embedder.position_embedding_table" /\ t[2] = Top
    BY <1>2
  <2>2. Undo(t) = n
    BY <1>2, <2>1, Undoes
  <2> QED
    BY <2>1, <2>2 DEF t
<1>3. CASE Named("a", "conv1d.0", "audio_tower", "subsample_conv_projection.layer0.conv")
  BY <1>3, Undoes DEF t
<1>4. CASE Named("a", "conv1d.0.norm", "audio_tower", "subsample_conv_projection.layer0.norm")
  BY <1>4, Undoes DEF t
<1>5. CASE Named("a", "conv1d.1", "audio_tower", "subsample_conv_projection.layer1.conv")
  BY <1>5, Undoes DEF t
<1>6. CASE Named("a", "conv1d.1.norm", "audio_tower", "subsample_conv_projection.layer1.norm")
  BY <1>6, Undoes DEF t
<1>7. CASE Named("a", "input_projection", "audio_tower", "subsample_conv_projection.input_proj_linear")
  BY <1>7, Undoes DEF t
<1>8. CASE Named("a", "pre_encode.out", "audio_tower", "output_proj")
  BY <1>8, Undoes DEF t
<1>9. CASE Named("v", "patch_embd", "vision_tower", "patch_embedder.input_proj")
  BY <1>9, Undoes DEF t
<1>10. CASE Named("mm", "input_projection", "embed_vision", "embedding_projection")
  BY <1>10, Undoes DEF t
<1>11. CASE Named("mm", "a.input_projection", "embed_audio", "embedding_projection")
  BY <1>11, Undoes DEF t
<1> QED
  BY <1>1, <1>2, <1>3, <1>4, <1>5, <1>6, <1>7, <1>8, <1>9, <1>10, <1>11
(* No two names of an export become one.                                   *)
LEMMA ExportsApart ==
  \A m, n \in TowerExport : translate_mmproj(m) = translate_mmproj(n) => m = n
<1> SUFFICES ASSUME NEW m \in TowerExport, NEW n \in TowerExport,
                    translate_mmproj(m) = translate_mmproj(n)
             PROVE  m = n
  OBVIOUS
<1>1. /\ \A o : VisionExport(o) => /\ translate_mmproj(o)[1] = "vision_tower"
                                   /\ translate_mmproj(o)[2] \in Layers
      /\ \A o : AudioExport(o) => /\ translate_mmproj(o)[1] = "audio_tower"
                                  /\ translate_mmproj(o)[2] \in Layers
      /\ \A o \in OutsideExport : translate_mmproj(o)[2] \notin Layers
  <2>1. ASSUME NEW o, VisionExport(o)
        PROVE  translate_mmproj(o)[1] = "vision_tower" /\ translate_mmproj(o)[2] \in Layers
    <3>1. o[2] \in Layers
      BY <2>1 DEF VisionExport
    <3> QED
      BY <2>1, <3>1, VisionRenames DEF Spelled
  <2>2. ASSUME NEW o, AudioExport(o)
        PROVE  translate_mmproj(o)[1] = "audio_tower" /\ translate_mmproj(o)[2] \in Layers
    <3>1. o[2] \in Layers
      BY <2>2 DEF AudioExport
    <3> QED
      BY <2>2, <3>1, AudioRenames DEF Spelled
  <2> QED
    BY <2>1, <2>2, OutsideUndone, NamesAssumption
<1>2. CASE VisionExport(m) /\ VisionExport(n)
  <2>1. /\ m = <<"v", m[2], m[3], m[4]>> /\ n = <<"v", n[2], n[3], n[4]>>
    BY <1>2 DEF VisionExport
  <2>2. PICK p \in IF m[4] \in Stats THEN VisionStatStems
                   ELSE {q \in VisionTails : q[1] \notin {"attn_norm", "post_attention_norm",
                                                         "ffn_norm", "post_ffw_norm"}} :
          p[1] = m[3] /\ Spelled(translate_mmproj(m), "vision_tower", m[2], p[2], m[4])
    BY <1>2, VisionRenames
  <2>3. PICK r \in IF n[4] \in Stats THEN VisionStatStems
                   ELSE {q \in VisionTails : q[1] \notin {"attn_norm", "post_attention_norm",
                                                         "ffn_norm", "post_ffw_norm"}} :
          r[1] = n[3] /\ Spelled(translate_mmproj(n), "vision_tower", n[2], r[2], n[4])
    BY <1>2, VisionRenames
  <2>4. m[2] = n[2] /\ p[2] = r[2] /\ m[4] = n[4]
    BY <2>2, <2>3 DEF Spelled
  <2>5. p[1] = r[1]
    <3>1. CASE m[4] \in Stats
      <4>1. p \in VisionStatStems /\ r \in VisionStatStems
        BY <2>2, <2>3, <2>4, <3>1
      <4> QED
        BY <2>4, <4>1 DEF VisionStatStems
    <3>2. CASE m[4] \notin Stats
      <4>1. /\ p \in VisionTails /\ r \in VisionTails
            /\ p[1] \notin {"attn_norm", "post_attention_norm", "ffn_norm", "post_ffw_norm"}
            /\ r[1] \notin {"attn_norm", "post_attention_norm", "ffn_norm", "post_ffw_norm"}
        BY <2>2, <2>3, <2>4, <3>2
      <4> QED
        BY <2>4, <4>1 DEF VisionTails
    <3> QED
      BY <3>1, <3>2
  <2> QED
    BY <2>1, <2>2, <2>3, <2>4, <2>5
<1>3. CASE AudioExport(m) /\ AudioExport(n)
  <2>1. /\ m = <<"a", m[2], m[3], m[4]>> /\ n = <<"a", n[2], n[3], n[4]>>
    BY <1>3 DEF AudioExport
  <2> DEFINE Scale(o) == o[3] = "per_dim_scale" /\ o[4] = "weight"
             Plain(o) == \E p \in IF o[4] \in Stats THEN AudioStatStems ELSE AudioTails :
                           /\ p[1] = o[3] /\ o[4] # ""
                           /\ Spelled(translate_mmproj(o), "audio_tower", o[2], p[2], o[4])
  <2>2. \A o : AudioExport(o) =>
          \/ Scale(o) /\ Spelled(translate_mmproj(o), "audio_tower", o[2], "self_attn.per_dim_scale", "")
          \/ Plain(o)
    BY AudioRenames
  <2>3. CASE Plain(m) /\ Plain(n)
    <3>1. PICK p \in IF m[4] \in Stats THEN AudioStatStems ELSE AudioTails :
            p[1] = m[3] /\ Spelled(translate_mmproj(m), "audio_tower", m[2], p[2], m[4])
      BY <2>3
    <3>2. PICK r \in IF n[4] \in Stats THEN AudioStatStems ELSE AudioTails :
            r[1] = n[3] /\ Spelled(translate_mmproj(n), "audio_tower", n[2], r[2], n[4])
      BY <2>3
    <3>3. m[2] = n[2] /\ p[2] = r[2] /\ m[4] = n[4]
      BY <3>1, <3>2 DEF Spelled
    <3>4. p[1] = r[1]
      <4>1. CASE m[4] \in Stats
        <5>1. p \in AudioStatStems /\ r \in AudioStatStems
          BY <3>1, <3>2, <3>3, <4>1
        <5> QED
          BY <3>3, <5>1 DEF AudioStatStems
      <4>2. CASE m[4] \notin Stats
        <5>1. p \in AudioTails /\ r \in AudioTails
          BY <3>1, <3>2, <3>3, <4>2
        <5> QED
          BY <3>3, <5>1 DEF AudioTails
      <4> QED
        BY <4>1, <4>2
    <3> QED
      BY <2>1, <3>1, <3>2, <3>3, <3>4
  <2>4. CASE ~Plain(m) \/ ~Plain(n)
    <3>1. \A o : AudioExport(o) /\ ~Plain(o) =>
            Scale(o) /\ Spelled(translate_mmproj(o), "audio_tower", o[2], "self_attn.per_dim_scale", "")
      BY <2>2
    <3>2. \A o : Plain(o) => translate_mmproj(o)[4] = o[4] /\ o[4] # ""
      BY DEF Spelled
    <3> HIDE DEF Plain
    <3>3. ~Plain(m) /\ ~Plain(n)
      <4>1. \A o : AudioExport(o) /\ ~Plain(o) => translate_mmproj(o)[4] = ""
        BY <3>1 DEF Spelled
      <4> QED
        BY <1>3, <2>4, <3>2, <4>1
    <3>4. /\ m[3] = n[3] /\ m[4] = n[4]
          /\ Spelled(translate_mmproj(m), "audio_tower", m[2], "self_attn.per_dim_scale", "")
          /\ Spelled(translate_mmproj(n), "audio_tower", n[2], "self_attn.per_dim_scale", "")
      <4>1. AudioExport(m) /\ ~Plain(m) /\ AudioExport(n) /\ ~Plain(n)
        BY <1>3, <3>3
      <4>2. /\ Scale(m) /\ Spelled(translate_mmproj(m), "audio_tower", m[2], "self_attn.per_dim_scale", "")
            /\ Scale(n) /\ Spelled(translate_mmproj(n), "audio_tower", n[2], "self_attn.per_dim_scale", "")
        <5> HIDE DEF Scale
        <5> QED
          BY <3>1, <4>1
      <4> QED
        BY <4>2
    <3>5. m[2] = n[2]
      BY <3>4 DEF Spelled
    <3> QED
      BY <2>1, <3>4, <3>5
  <2> QED
    BY <2>3, <2>4
<1>4. CASE m \in OutsideExport /\ n \in OutsideExport
  BY <1>4, OutsideUndone
<1>5. /\ VisionExport(m) \/ AudioExport(m) \/ m \in OutsideExport
      /\ VisionExport(n) \/ AudioExport(n) \/ n \in OutsideExport
  BY ExportParts
<1> QED
  BY <1>1, <1>2, <1>3, <1>4, <1>5
(* What the towers ask for is written.                                     *)
LEMMA BlockWeights ==
  ASSUME NEW l \in Layers, NEW stem, NEW x \in {"weight", "bias"}
  PROVE  /\ translate_mmproj(<<"v", l, stem, x>>)
              = <<"vision_tower", l, Renamed(VisionTails, stem), x>>
         /\ stem # "per_dim_scale" =>
              translate_mmproj(<<"a", l, stem, x>>)
                = <<"audio_tower", l, Renamed(AudioTails, stem), x>>
         /\ translate_mmproj(<<"a", l, "per_dim_scale", x>>)
              = <<"audio_tower", l, "self_attn.per_dim_scale", "">>
<1>1. l # Top /\ x \notin Stats
  BY NamesAssumption DEF Stats
<1> QED
  BY <1>1 DEF translate_mmproj, VisionBlock, AudioBlock

LEMMA VisionIsWritten ==
  ASSUME NEW asked \in VisionAsks
  PROVE  \E n \in TowerExport : translate_mmproj(n) = asked
<1> DEFINE stems == VisionClips \cup {"input_layernorm", "post_attention_layernorm",
                      "pre_feedforward_layernorm", "post_feedforward_layernorm",
                      "self_attn.q_norm", "self_attn.k_norm"}
           outer == {<<"vision_tower", Top, "patch_embedder.input_proj", "weight">>,
                     <<"vision_tower", Top, "patch_embedder.position_embedding_table", "">>,
                     <<"embed_vision", Top, "embedding_projection", "weight">>}
<1>1. asked \in Of("vision_tower", Layers, stems, {"weight"}) \/ asked \in outer
  BY DEF VisionAsks
<1>2. CASE asked \in Of("vision_tower", Layers, stems, {"weight"})
  <2>1. PICK l \in Layers, s \in stems : asked = <<"vision_tower", l, s, "weight">>
    <3> HIDE DEF stems
    <3> QED
      BY <1>2 DEF Of
  <2>2. PICK p \in VisionTails :
          p[2] = s /\ p[1] \notin {"attn_norm", "post_attention_norm", "ffn_norm", "post_ffw_norm"}
    BY DEF VisionClips, VisionTails
  <2>3. Renamed(VisionTails, p[1]) = s /\ p[1] \in Keys(VisionTails)
    BY <2>2, TablesAreFunctional, RenamesListed DEF Keys
  <2>4. <<"v", l, p[1], "weight">> \in TowerExport
    BY <2>2, <2>3, ExportParts DEF VisionExport
  <2>5. translate_mmproj(<<"v", l, p[1], "weight">>) = asked
    BY <2>1, <2>3, BlockWeights
  <2> QED
    BY <2>4, <2>5
<1>3. CASE asked \in outer
  <2>1. /\ <<"v", Top, "patch_embd", "weight">> \in TowerExport
        /\ <<"v", Top, "position_embd", "weight">> \in TowerExport
        /\ <<"mm", Top, "input_projection", "weight">> \in TowerExport
    BY ExportParts DEF OutsideExport
  <2> QED
    BY <1>3, <2>1, OutsideRenames
<1> QED
  BY <1>1, <1>2, <1>3

LEMMA AudioIsWritten ==
  ASSUME NEW asked \in AudioAsks
  PROVE  \E n \in TowerExport : translate_mmproj(n) = asked
<1> DEFINE stems == AudioClips \cup {"feed_forward1.pre_layer_norm",
                      "feed_forward1.post_layer_norm", "feed_forward2.pre_layer_norm",
                      "feed_forward2.post_layer_norm", "norm_pre_attn", "norm_post_attn",
                      "self_attn.relative_k_proj", "lconv1d.pre_layer_norm",
                      "lconv1d.depthwise_conv1d", "lconv1d.conv_norm", "norm_out"}
           tops == {"subsample_conv_projection.layer0.conv", "subsample_conv_projection.layer0.norm",
                    "subsample_conv_projection.layer1.conv", "subsample_conv_projection.layer1.norm",
                    "subsample_conv_projection.input_proj_linear", "output_proj"}
           scale == {"self_attn.per_dim_scale"}
           bare == {""}
           outer == {<<"audio_tower", Top, "output_proj", "bias">>,
                     <<"embed_audio", Top, "embedding_projection", "weight">>}
<1>1. \/ asked \in Of("audio_tower", Layers, stems, {"weight"})
      \/ asked \in Of("audio_tower", Layers, scale, bare)
      \/ asked \in Of("audio_tower", {Top}, tops, {"weight"})
      \/ asked \in outer
  BY DEF AudioAsks
<1>2. CASE asked \in Of("audio_tower", Layers, stems, {"weight"})
  <2>1. PICK l \in Layers, s \in stems : asked = <<"audio_tower", l, s, "weight">>
    <3> HIDE DEF stems
    <3> QED
      BY <1>2 DEF Of
  <2>2. PICK p \in AudioTails : p[2] = s
    BY DEF AudioClips, AudioTails
  <2>3. Renamed(AudioTails, p[1]) = s /\ p[1] \in Keys(AudioTails)
    BY <2>2, TablesAreFunctional, RenamesListed DEF Keys
  <2>4. p[1] # "per_dim_scale"
    BY <2>2 DEF AudioTails
  <2>5. <<"a", l, p[1], "weight">> \in TowerExport
    BY <2>3, ExportParts DEF AudioExport
  <2>6. translate_mmproj(<<"a", l, p[1], "weight">>) = asked
    BY <2>1, <2>3, <2>4, BlockWeights
  <2> QED
    BY <2>5, <2>6
<1>3. CASE asked \in Of("audio_tower", Layers, scale, bare)
  <2>1. PICK l \in Layers, s \in scale, x \in bare : asked = <<"audio_tower", l, s, x>>
    <3> HIDE DEF scale, bare
    <3> QED
      BY <1>3 DEF Of
  <2>2. <<"a", l, "per_dim_scale", "weight">> \in TowerExport
    BY ExportParts DEF AudioExport
  <2> QED
    BY <2>1, <2>2, BlockWeights
<1>4. CASE asked \in Of("audio_tower", {Top}, tops, {"weight"})
  <2>1. PICK s \in tops : asked = <<"audio_tower", Top, s, "weight">>
    <3> HIDE DEF tops
    <3> QED
      BY <1>4 DEF Of
  <2>2. \A stem \in {"conv1d.0", "conv1d.0.norm", "conv1d.1", "conv1d.1.norm",
                     "input_projection", "pre_encode.out"} :
          <<"a", Top, stem, "weight">> \in TowerExport
    BY ExportParts DEF OutsideExport
  <2> QED
    BY <2>1, <2>2, OutsideRenames
<1>5. CASE asked \in outer
  <2>1. /\ <<"a", Top, "pre_encode.out", "bias">> \in TowerExport
        /\ <<"mm", Top, "a.input_projection", "weight">> \in TowerExport
    BY ExportParts DEF OutsideExport
  <2> QED
    BY <1>5, <2>1, OutsideRenames
<1> QED
  BY <1>1, <1>2, <1>3, <1>4, <1>5

(* A bound goes where its weight goes, whatever else the file holds.       *)
LEMMA VisionBound ==
  ASSUME NEW stem, Renamed(VisionTails, stem) \in VisionClips
  PROVE  Renamed(VisionStatStems, stem) = Renamed(VisionTails, stem)
<1>1. CASE stem \in Keys(VisionTails)
  <2>1. PICK p \in VisionTails : p[1] = stem
    BY <1>1 DEF Keys
  <2>2. Renamed(VisionTails, stem) = p[2]
    BY <2>1, TablesAreFunctional, RenamesListed
  <2>3. p[2] \in VisionClips => p \in VisionStatStems
    BY DEF VisionTails, VisionClips, VisionStatStems
  <2> QED
    BY <2>1, <2>2, <2>3, TablesAreFunctional, RenamesListed
<1>2. CASE stem \notin Keys(VisionTails)
  <2>1. stem \notin Keys(VisionStatStems)
    BY <1>2 DEF Keys, VisionTails, VisionStatStems
  <2> QED
    BY <1>2, <2>1, KeepsOthers
<1> QED
  BY <1>1, <1>2

LEMMA AudioBound ==
  ASSUME NEW stem, Renamed(AudioTails, stem) \in AudioClips
  PROVE  Renamed(AudioStatStems, stem) = Renamed(AudioTails, stem)
<1>1. CASE stem \in Keys(AudioTails)
  <2>1. PICK p \in AudioTails : p[1] = stem
    BY <1>1 DEF Keys
  <2>2. Renamed(AudioTails, stem) = p[2]
    BY <2>1, TablesAreFunctional, RenamesListed
  <2>3. p[2] \in AudioClips => p \in AudioStatStems
    BY DEF AudioTails, AudioClips, AudioStatStems
  <2> QED
    BY <2>1, <2>2, <2>3, TablesAreFunctional, RenamesListed
<1>2. CASE stem \notin Keys(AudioTails)
  <2>1. stem \notin Keys(AudioStatStems)
    BY <1>2 DEF Keys, AudioTails, AudioStatStems
  <2> QED
    BY <1>2, <2>1, KeepsOthers
<1> QED
  BY <1>1, <1>2
(* A name in its parts: what its weight becomes, what it becomes itself.   *)
LEMMA BoundOfParts ==
  ASSUME NEW part, NEW l, NEW stem, NEW x \in Stats, NEW w, NEW own,
         w = translate_mmproj(<<part, l, stem, "weight">>),
         own = translate_mmproj(<<part, l, stem, x>>),
         <<w[1], w[2], w[3], x>> \in BoundsAsked
  PROVE  own = <<w[1], w[2], w[3], x>>
<1>1. "weight" \notin Stats
  BY DEF Stats
<1>2. /\ w[2] \in Layers
      /\ \/ w[1] = "vision_tower" /\ w[3] \in VisionClips
         \/ w[1] = "audio_tower" /\ w[3] \in AudioClips
  <2>1. \/ <<w[1], w[2], w[3], x>> \in Of("vision_tower", Layers, VisionClips, Stats)
        \/ <<w[1], w[2], w[3], x>> \in Of("audio_tower", Layers, AudioClips, Stats)
    BY DEF BoundsAsked
  <2> QED
    BY <2>1 DEF Of
<1>3. CASE l = Top
  <2>1. w[2] = Top
    BY <1>3 DEF translate_mmproj
  <2> QED
    BY <1>2, <2>1, NamesAssumption
<1>4. CASE l # Top /\ part = "v"
  <2>1. w = <<"vision_tower", l, Renamed(VisionTails, stem), "weight">>
    BY <1>1, <1>4 DEF translate_mmproj, VisionBlock
  <2>2. own = <<"vision_tower", l, Renamed(VisionStatStems, stem), x>>
    BY <1>4 DEF translate_mmproj, VisionBlock
  <2>3. Renamed(VisionTails, stem) \in VisionClips
    BY <1>2, <2>1
  <2> QED
    BY <2>1, <2>2, <2>3, VisionBound
<1>5. CASE l # Top /\ part = "a" /\ stem = "per_dim_scale"
  <2>1. w = <<"audio_tower", l, "self_attn.per_dim_scale", "">>
    BY <1>5 DEF translate_mmproj, AudioBlock
  <2>2. "self_attn.per_dim_scale" \notin AudioClips
    BY DEF AudioClips
  <2>3. PICK s, d : s = "self_attn.per_dim_scale" /\ w = <<"audio_tower", l, s, d>>
    BY <2>1
  <2>4. s \in AudioClips
    BY <1>2, <2>3
  <2> QED
    BY <2>2, <2>3, <2>4
<1>6. CASE l # Top /\ part = "a" /\ stem # "per_dim_scale"
  <2>1. w = <<"audio_tower", l, Renamed(AudioTails, stem), "weight">>
    BY <1>1, <1>6 DEF translate_mmproj, AudioBlock
  <2>2. own = <<"audio_tower", l, Renamed(AudioStatStems, stem), x>>
    BY <1>6 DEF translate_mmproj, AudioBlock
  <2>3. Renamed(AudioTails, stem) \in AudioClips
    BY <1>2, <2>1
  <2> QED
    BY <2>1, <2>2, <2>3, AudioBound
<1>7. CASE l # Top /\ part \notin {"v", "a"}
  <2>1. w = <<part, l, stem, "weight">> /\ own = <<part, l, stem, x>>
    BY <1>7 DEF translate_mmproj
  <2> QED
    BY <2>1
<1> QED
  BY <1>3, <1>4, <1>5, <1>6, <1>7

LEMMA BoundBesideWeight ==
  ASSUME NEW name, IsName(name), name[4] \in Stats,
         Beside(translate_mmproj(Beside(name, "weight")), name[4]) \in BoundsAsked
  PROVE  translate_mmproj(name)
           = Beside(translate_mmproj(Beside(name, "weight")), name[4])
<1> DEFINE w == translate_mmproj(<<name[1], name[2], name[3], "weight">>)
           own == translate_mmproj(<<name[1], name[2], name[3], name[4]>>)
<1>1. translate_mmproj(name) = own
  BY DEF IsName
<1>2. /\ Beside(translate_mmproj(Beside(name, "weight")), name[4])
           = <<w[1], w[2], w[3], name[4]>>
  BY DEF Beside
<1>3. <<w[1], w[2], w[3], name[4]>> \in BoundsAsked
  BY <1>2
<1>4. own = <<w[1], w[2], w[3], name[4]>>
  BY <1>3, BoundOfParts
<1> QED
  BY <1>1, <1>2, <1>4

(* What merge_extra entered stays.                                         *)
Merged ==
  extra => /\ pc = "opened" /\ repo.mmproj # NoFile
           /\ \A t \in File(repo.mmproj).tensors : translate_mmproj(t.name) \in DOMAIN table

LEMMA MergedStep == Merged /\ [Next]_vars => Merged'
<1> SUFFICES ASSUME Merged, [Next]_vars, extra' PROVE Merged'
  BY DEF Merged
<1>1. CASE extra
  <2>1. pc = "opened"
    BY <1>1 DEF Merged
  <2>2. table' = table /\ pc' = pc
    BY <1>1, <2>1 DEF Next, vars, Preflight, PreflightShard, PreflightDone, SkipPreflight,
                      Missing, OpenPart, Opened, merge_extra
  <2> QED
    BY <1>1, <2>2, SameFiles DEF Merged
<1>2. CASE ~extra
  <2>1. merge_extra
    BY <1>2 DEF Next, vars, Preflight, PreflightShard, PreflightDone, SkipPreflight,
                Missing, OpenPart, Opened
  <2>2. /\ pc' = "opened" /\ repo.mmproj # NoFile
        /\ table' = Keeping(table, TableOf(repo.mmproj, translate_mmproj))
    BY <1>2, <2>1 DEF merge_extra
  <2>3. \A t \in File(repo.mmproj).tensors :
          translate_mmproj(t.name) \in DOMAIN TableOf(repo.mmproj, translate_mmproj)
    BY DEF TableOf
  <2>4. \A t \in File(repo.mmproj).tensors : translate_mmproj(t.name) \in DOMAIN table'
    BY <2>2, <2>3 DEF Keeping
  <2> QED
    BY <2>2, <2>4, SameFiles DEF Merged
<1> QED
  BY <1>1, <1>2

LEMMA TextMeets ==
  ASSUME OpenIsWhole, pc = "opened", IsGguf, TextIsWhole
  PROVE  IF repo.arch = "gemma4" THEN Gemma4Asks({}) \subseteq DOMAIN table
                                 ELSE StdAsks \subseteq DOMAIN table
<1>1. \A k \in DOMAIN SplitSet : \A t \in File(SplitSet[k]).tensors :
        translate(t.name) \in DOMAIN table
  BY DEF OpenIsWhole, ToOpen
<1>2. CASE repo.arch = "gemma4"
  <2>1. \A name : translate(name) = translate_gemma4(name)
    BY <1>2 DEF translate
  <2> SUFFICES ASSUME NEW asked \in Gemma4Asks({}) PROVE asked \in DOMAIN table
    BY <1>2
  <2>2. PICK n \in TextExport(Gemma4Stems, Gemma4Tops) : translate_gemma4(n) = asked
    BY Gemma4IsWritten
  <2>3. PICK k \in DOMAIN SplitSet : \E t \in File(SplitSet[k]).tensors : t.name = n
    BY <1>2 DEF TextIsWhole
  <2> QED
    BY <1>1, <2>1, <2>2, <2>3
<1>3. CASE repo.arch # "gemma4"
  <2>1. \A name : translate(name) = translate_name(name)
    BY <1>3 DEF translate
  <2> SUFFICES ASSUME NEW asked \in StdAsks PROVE asked \in DOMAIN table
    BY <1>3
  <2>2. PICK n \in TextExport(TextStems, TextTops) : translate_name(n) = asked
    BY StdIsWritten
  <2>3. PICK k \in DOMAIN SplitSet : \E t \in File(SplitSet[k]).tensors : t.name = n
    BY <1>3 DEF TextIsWhole
  <2> QED
    BY <1>1, <2>1, <2>2, <2>3
<1> QED
  BY <1>2, <1>3

LEMMA TowersMeet ==
  ASSUME Merged, extra, TowersAreWhole
  PROVE  /\ VisionAsks \cup AudioAsks \subseteq DOMAIN table
         /\ \A s, t \in File(repo.mmproj).tensors :
              s.name # t.name => translate_mmproj(s.name) # translate_mmproj(t.name)
<1>1. \A n \in TowerExport : \E t \in File(repo.mmproj).tensors : t.name = n
  BY DEF TowersAreWhole
<1>2. \A t \in File(repo.mmproj).tensors :
        t.name \in TowerExport /\ translate_mmproj(t.name) \in DOMAIN table
  BY DEF Merged, TowersAreWhole
<1>3. ASSUME NEW asked \in VisionAsks \cup AudioAsks PROVE asked \in DOMAIN table
  <2>1. PICK n \in TowerExport : translate_mmproj(n) = asked
    BY VisionIsWritten, AudioIsWritten
  <2> QED
    BY <1>1, <1>2, <2>1
<1> QED
  BY <1>2, <1>3, ExportsApart

LEMMA BoundsMeet == Known /\ Merged => BoundsFollowWeights
<1> SUFFICES ASSUME Known, Merged, extra, NEW t \in File(repo.mmproj).tensors,
                    t.name[4] \in Stats,
                    Beside(translate_mmproj(Beside(t.name, "weight")), t.name[4]) \in BoundsAsked
             PROVE  /\ translate_mmproj(t.name)
                         = Beside(translate_mmproj(Beside(t.name, "weight")), t.name[4])
                    /\ Beside(translate_mmproj(Beside(t.name, "weight")), t.name[4]) \in DOMAIN table
  BY DEF BoundsFollowWeights
<1>1. translate_mmproj(t.name) \in DOMAIN table
  BY DEF Merged
<1>2. IsName(t.name)
  <2>1. repo \in Repos /\ repo.mmproj \in DOMAIN repo.files
    BY RepoAssumption DEF Known, Merged
  <2> QED
    BY <2>1, FileIsTyped
<1> QED
  BY <1>1, <1>2, BoundBesideWeight

(* translate_name, translate_gemma4 and translate_mmproj against the       *)
(* builders, for any number of blocks: what a builder asks for is in the   *)
(* table of a complete export under the name it asks by, no two names of a *)
(* projector become one, and a clip bound lands beside its weight.         *)
THEOREM NamesMeetTheBuilders == Spec => []NamesMeet
<1> DEFINE IInv == Known /\ Behind /\ AtEnd /\ Merged
<1>1. Init => IInv
  BY KnownInit, BehindInit DEF Init, Merged
<1>2. IInv /\ [Next]_vars => IInv'
  BY KnownStep, BehindStep, MergedStep
<1>3. IInv => NamesMeet
  <2> SUFFICES ASSUME IInv PROVE NamesMeet
    OBVIOUS
  <2>1. OpenIsWhole
    BY OpenIsWholeHolds
  <2> QED
    BY <2>1, TextMeets, TowersMeet, BoundsMeet DEF NamesMeet, BuildersFindTheirs
<1> QED
  BY <1>1, <1>2, <1>3, PTL DEF Spec
================================================================================
