-------------------------- MODULE SwipeReportProofs --------------------------
(***************************************************************************)
(* For descriptors with any number of items, usages and sizes: the layout  *)
(* of the parser is the one the items mean, and for any number of swipes,  *)
(* read in whatever pieces, the getters return what the reader sent.       *)
(*                                                                         *)
(* The sums of sizes are recursive functions; what they compute is proved  *)
(* by induction, which follows from the order of the natural numbers being *)
(* well founded.  The invariant has two parts: DInv relates the parser and *)
(* the items, and StreamInv says that the bytes from the report being read *)
(* to those the reader has still to send are whole reports in line.        *)
(***************************************************************************)
EXTENDS SwipeReport, SequenceTheorems, WellFoundedInduction, TLAPS

-----------------------------------------------------------------------------
(* Induction over the natural numbers, from their order. *)

\* A set of numbers that is not empty has a least one.
LEMMA NatMin ==
  ASSUME NEW T \in SUBSET Nat, T # {}
  PROVE  \E m \in T : \A k \in T : m <= k
<1>1. \E x \in T : \A y \in T : ~ (<<y, x>> \in OpToRel(<, Nat))
  BY NatLessThanWellFounded, WFMin, Zenon
<1>2. \A x, y \in Nat : y < x => <<y, x>> \in OpToRel(<, Nat)
  BY Zenon DEF OpToRel
<1>3. PICK m \in T : \A y \in T : ~ (<<y, m>> \in OpToRel(<, Nat))
  BY <1>1, Zenon
<1>4. \A y \in T : ~(y < m)
  BY <1>2, <1>3, Zenon
<1> QED BY <1>4

\* What holds of 0 and of each number after one it holds of holds of all.
LEMMA SetInduction ==
  ASSUME NEW S, 0 \in S, \A n \in Nat : n \in S => n + 1 \in S
  PROVE  Nat \subseteq S
<1> SUFFICES ASSUME NEW n0 \in Nat, n0 \notin S PROVE FALSE
  OBVIOUS
<1>1. PICK m \in Nat \ S : \A k \in Nat \ S : m <= k
  <2>1. Nat \ S \in SUBSET Nat /\ Nat \ S # {}
    OBVIOUS
  <2> QED BY <2>1, NatMin, Zenon
<1>2. m # 0 /\ m - 1 \in Nat
  BY <1>1
<1>3. m - 1 \in S
  BY <1>1, <1>2
<1> QED BY <1>1, <1>2, <1>3

\* f begins with z, and g makes each value from the one before and its place.
Unfolds(f, z, g, n) == f[0] = z /\ \A k \in 1 .. n : f[k] = g[<<f[k - 1], k>>]

\* A recursive definition that goes from each place to the next has a value.
LEMMA PrefixRecursion ==
  ASSUME NEW n \in Nat, NEW T, NEW z \in T, NEW g \in [T \X (1 .. n) -> T]
  PROVE  \E f \in [0 .. n -> T] : Unfolds(f, z, g, n)
<1> DEFINE S == {m \in Nat : m <= n => \E f \in [0 .. m -> T] :
                   f[0] = z /\ \A k \in 1 .. m : f[k] = g[<<f[k - 1], k>>]}
<1>1. 0 \in S
  <2> DEFINE f == [k \in 0 .. 0 |-> z]
  <2>1. f \in [0 .. 0 -> T] /\ f[0] = z /\ 1 .. 0 = {}
    OBVIOUS
  <2> QED BY <2>1
<1>2. ASSUME NEW m \in Nat, m \in S PROVE m + 1 \in S
  <2> SUFFICES ASSUME m + 1 <= n
               PROVE  \E f \in [0 .. (m + 1) -> T] :
                        f[0] = z /\ \A k \in 1 .. (m + 1) : f[k] = g[<<f[k - 1], k>>]
    OBVIOUS
  <2>1. PICK f \in [0 .. m -> T] :
          f[0] = z /\ \A k \in 1 .. m : f[k] = g[<<f[k - 1], k>>]
    BY <1>2
  <2> DEFINE h == [k \in 0 .. (m + 1) |-> IF k = m + 1 THEN g[<<f[m], m + 1>>] ELSE f[k]]
  <2>2. g[<<f[m], m + 1>>] \in T
    <3>1. f[m] \in T /\ m + 1 \in 1 .. n
      BY <2>1
    <3> QED BY <3>1
  <2>3. h \in [0 .. (m + 1) -> T] /\ h[0] = z
    BY <2>1, <2>2
  <2>4. ASSUME NEW k \in 1 .. (m + 1) PROVE h[k] = g[<<h[k - 1], k>>]
    <3>1. CASE k = m + 1
      <4>1. h[m + 1] = g[<<f[m], m + 1>>] /\ h[m] = f[m]
        OBVIOUS
      <4>2. k - 1 = m
        BY <3>1
      <4> HIDE DEF h
      <4> QED BY <3>1, <4>1, <4>2
    <3>2. CASE k # m + 1
      <4>1. k \in 1 .. m /\ h[k] = f[k] /\ h[k - 1] = f[k - 1]
        BY <3>2
      <4> QED BY <2>1, <4>1
    <3> QED BY <3>1, <3>2
  <2> HIDE DEF h
  <2> QED BY <2>3, <2>4
<1> HIDE DEF S
<1>3. n \in S
  BY <1>1, <1>2, SetInduction, Zenon
<1> QED BY <1>3 DEF S, Unfolds

-----------------------------------------------------------------------------
(* Sums over fields. *)

Plain == [id : {MCCR_USAGE} \cup UsageIds, size : Nat]

\* The fields are records, and their sizes numbers.
LEMMA FieldSizes ==
  ASSUME NEW fields \in Seq(Plain)
  PROVE  /\ Len(fields) \in Nat
         /\ \A i \in 1 .. Len(fields) : fields[i] \in Plain /\ fields[i].size \in Nat
<1>1. \A i \in 1 .. Len(fields) : fields[i] \in Plain
  BY ElementOfSeq
<1>2. \A x \in Plain : x.size \in Nat
  BY DEF Plain
<1> QED BY <1>1, <1>2

\* The bits before each field are those before the one before it and its own.
LEMMA BitsDef ==
  ASSUME NEW fields \in Seq(Plain)
  PROVE  /\ Bits(fields) \in [0 .. Len(fields) -> Nat]
         /\ Bits(fields)[0] = 0
         /\ \A k \in 1 .. Len(fields) :
              Bits(fields)[k] = Bits(fields)[k - 1] + fields[k].size
<1> DEFINE n == Len(fields)
           g == [p \in Nat \X (1 .. n) |-> p[1] + fields[p[2]].size]
           P(f) == f = [k \in 0 .. n |-> IF k = 0 THEN 0 ELSE f[k - 1] + fields[k].size]
<1>1. n \in Nat /\ 0 \in Nat /\ g \in [Nat \X (1 .. n) -> Nat]
  BY FieldSizes
<1>2. PICK f \in [0 .. n -> Nat] : Unfolds(f, 0, g, n)
  <2> HIDE DEF g, n
  <2> QED BY <1>1, PrefixRecursion, Zenon
<1>3. \A k \in 1 .. n : f[k] = f[k - 1] + fields[k].size
  <2> TAKE k \in 1 .. n
  <2>1. f[k - 1] \in Nat
    BY <1>1
  <2> QED BY <1>2, <2>1 DEF Unfolds
<1>4. P(f)
  <2> HIDE DEF g
  <2>1. \A k \in 0 .. n : k # 0 => k \in 1 .. n
    BY <1>1
  <2> QED BY <1>2, <1>3, <2>1 DEF Unfolds
<1>5. P(Bits(fields))
  <2> HIDE DEF P
  <2>1. Bits(fields) = CHOOSE b : P(b)
    BY DEF Bits, P
  <2> QED BY <2>1, <1>4, Zenon
<1> DEFINE B == Bits(fields)
<1>6. B = [k \in 0 .. n |-> IF k = 0 THEN 0 ELSE B[k - 1] + fields[k].size]
  BY <1>5
<1> HIDE DEF B
<1>7. DOMAIN B = 0 .. n /\ B[0] = 0
      /\ \A k \in 1 .. n : B[k] = B[k - 1] + fields[k].size
  BY <1>1, <1>6
<1>8. \A k \in 0 .. n : B[k] \in Nat
  <2> DEFINE S == {k \in Nat : k <= n => B[k] \in Nat}
  <2>1. 0 \in S
    BY <1>7
  <2>2. ASSUME NEW k \in Nat, k \in S PROVE k + 1 \in S
    <3> SUFFICES ASSUME k + 1 <= n PROVE B[k + 1] \in Nat
      OBVIOUS
    <3>1. k + 1 \in 1 .. n /\ (k + 1) - 1 = k /\ B[k] \in Nat
      BY <1>1, <2>2
    <3>2. B[k + 1] = B[k] + fields[k + 1].size
      BY <1>7, <3>1
    <3> QED BY <3>1, <3>2, FieldSizes
  <2> HIDE DEF S
  <2>3. Nat \subseteq S
    BY <2>1, <2>2, SetInduction, Zenon
  <2> QED BY <2>3, <1>1 DEF S
<1>9. B = [k \in 0 .. n |-> B[k]]
  BY <1>6
<1> QED BY <1>7, <1>8, <1>9 DEF B

\* They never become fewer.
LEMMA BitsMonotone ==
  ASSUME NEW fields \in Seq(Plain)
  PROVE  \A j \in 0 .. Len(fields) : \A i \in 0 .. j : Bits(fields)[i] <= Bits(fields)[j]
<1> DEFINE n == Len(fields)
           B == Bits(fields)
           S == {j \in Nat : j <= n => \A i \in 0 .. j : B[i] <= B[j]}
<1> HIDE DEF B
<1>1. B[0] = 0 /\ (\A k \in 0 .. n : B[k] \in Nat) /\ n \in Nat
      /\ \A k \in 1 .. n : B[k] = B[k - 1] + fields[k].size /\ fields[k].size \in Nat
  BY BitsDef, FieldSizes DEF B
<1>2. 0 \in S
  BY <1>1
<1>3. ASSUME NEW j \in Nat, j \in S PROVE j + 1 \in S
  <2> SUFFICES ASSUME j + 1 <= n, NEW i \in 0 .. (j + 1) PROVE B[i] <= B[j + 1]
    OBVIOUS
  <2>1. B[j + 1] = B[j] + fields[j + 1].size /\ fields[j + 1].size \in Nat
    <3>1. j + 1 \in 1 .. n /\ (j + 1) - 1 = j
      BY <1>1
    <3> QED BY <1>1, <3>1
  <2>2. B[i] \in Nat /\ B[j] \in Nat
    BY <1>1
  <2>3. CASE i = j + 1
    BY <2>1, <2>2, <2>3
  <2>4. CASE i # j + 1
    <3>1. i \in 0 .. j
      BY <2>4
    <3>2. B[i] <= B[j]
      BY <1>1, <1>3, <3>1
    <3> QED BY <2>1, <2>2, <3>2
  <2> QED BY <2>3, <2>4
<1> HIDE DEF S
<1>4. Nat \subseteq S
  BY <1>2, <1>3, SetInduction, Zenon
<1> QED BY <1>1, <1>4 DEF S, B

\* What does not reach Word is added without wrapping around.
LEMMA OffsetsAreBits ==
  ASSUME NEW fields \in Seq(Plain), Length(fields) < Word
  PROVE  \A k \in 0 .. Len(fields) : Offsets(fields)[k] = Bits(fields)[k]
<1> DEFINE n == Len(fields)
           B == Bits(fields)
           P(f) == f = [k \in 0 .. n |->
                          IF k = 0 THEN 0 ELSE (f[k - 1] + fields[k].size) % Word]
<1>1. B[0] = 0 /\ n \in Nat /\ B = [k \in 0 .. n |-> B[k]]
      /\ \A k \in 1 .. n : B[k] = B[k - 1] + fields[k].size
  BY BitsDef
<1>2. \A k \in 0 .. n : B[k] \in 0 .. (Word - 1)
  <2> TAKE k \in 0 .. n
  <2>1. B[k] <= B[n] /\ B[k] \in Nat /\ B[n] \in Nat /\ B[n] < Word
    <3>1. n \in 0 .. n /\ k \in 0 .. n
      BY <1>1
    <3>2. B[k] <= B[n]
      BY <3>1, BitsMonotone
    <3> QED BY <3>1, <3>2, BitsDef DEF Length
  <2> QED BY <2>1, WordBytes
<1> HIDE DEF B
<1>3. \A k \in 1 .. n : B[k] % Word = B[k]
  <2> TAKE k \in 1 .. n
  <2>1. B[k] \in 0 .. (Word - 1)
    BY <1>1, <1>2
  <2> QED BY <2>1, WordBytes
<1>4. P(B)
  <2>1. \A k \in 0 .. n : k # 0 => k \in 1 .. n
    BY <1>1
  <2>2. \A k \in 0 .. n : B[k] = IF k = 0 THEN 0 ELSE (B[k - 1] + fields[k].size) % Word
    BY <1>1, <1>3, <2>1
  <2> QED BY <1>1, <2>2
<1>5. P(Offsets(fields))
  <2> HIDE DEF P
  <2>1. Offsets(fields) = CHOOSE f : P(f)
    BY DEF Offsets, P
  <2> QED BY <2>1, <1>4, Zenon
<1> DEFINE O == Offsets(fields)
<1>6. O[0] = 0 /\ \A k \in 1 .. n : O[k] = (O[k - 1] + fields[k].size) % Word
  <2> HIDE DEF O
  <2>1. O = [k \in 0 .. n |-> IF k = 0 THEN 0 ELSE (O[k - 1] + fields[k].size) % Word]
    BY <1>5 DEF O
  <2>2. \A k \in 0 .. n : O[k] = IF k = 0 THEN 0 ELSE (O[k - 1] + fields[k].size) % Word
    BY <2>1, Zenon
  <2>3. 0 \in 0 .. n /\ \A k \in 1 .. n : k \in 0 .. n /\ k # 0
    BY <1>1
  <2>4. O[0] = 0
    BY <2>2, <2>3
  <2> QED BY <2>2, <2>3, <2>4
<1> DEFINE S == {k \in Nat : k <= n => O[k] = B[k]}
<1> HIDE DEF O
<1>7. 0 \in S
  BY <1>1, <1>6
<1>8. ASSUME NEW k \in Nat, k \in S PROVE k + 1 \in S
  <2> SUFFICES ASSUME k + 1 <= n PROVE O[k + 1] = B[k + 1]
    OBVIOUS
  <2>1. k + 1 \in 1 .. n /\ (k + 1) - 1 = k /\ O[k] = B[k]
    BY <1>1, <1>8
  <2>2. O[k + 1] = (B[k] + fields[k + 1].size) % Word
    BY <1>6, <2>1
  <2>3. B[k + 1] = B[k] + fields[k + 1].size
    BY <1>1, <2>1
  <2> QED BY <1>3, <2>1, <2>2, <2>3
<1> HIDE DEF S
<1>9. Nat \subseteq S
  BY <1>7, <1>8, SetInduction, Zenon
<1> QED BY <1>1, <1>9 DEF S, O, B

\* The first fields of a longer layout are where they are in a shorter one, and
\* fields of one size added to it follow at equal distances.
LEMMA BitsOfConcat ==
  ASSUME NEW a \in Seq(Plain), NEW b \in Seq(Plain)
  PROVE  \A k \in 0 .. Len(a) : Bits(a \o b)[k] = Bits(a)[k]
<1> DEFINE c == a \o b
           A == Bits(a)
           C == Bits(c)
           S == {k \in Nat : k <= Len(a) => C[k] = A[k]}
<1>1. c \in Seq(Plain) /\ Len(c) = Len(a) + Len(b) /\ Len(a) \in Nat /\ Len(b) \in Nat
      /\ \A k \in 1 .. Len(a) : c[k] = a[k]
  BY ConcatProperties
<1> HIDE DEF c
<1>2. A[0] = 0 /\ \A k \in 1 .. Len(a) : A[k] = A[k - 1] + a[k].size
  BY BitsDef
<1>3. C[0] = 0 /\ \A k \in 1 .. Len(c) : C[k] = C[k - 1] + c[k].size
  BY <1>1, BitsDef
<1> HIDE DEF A, C
<1>4. 0 \in S
  BY <1>2, <1>3
<1>5. ASSUME NEW k \in Nat, k \in S PROVE k + 1 \in S
  <2> SUFFICES ASSUME k + 1 <= Len(a) PROVE C[k + 1] = A[k + 1]
    OBVIOUS
  <2>1. k + 1 \in 1 .. Len(a) /\ k + 1 \in 1 .. Len(c) /\ (k + 1) - 1 = k /\ C[k] = A[k]
    BY <1>1, <1>5
  <2> QED BY <1>1, <1>2, <1>3, <2>1
<1> HIDE DEF S
<1>6. Nat \subseteq S
  BY <1>4, <1>5, SetInduction, Zenon
<1> QED BY <1>1, <1>6 DEF S, A, C, c

\* Fields of one size are at multiples of it.
LEMMA BitsOfEqual ==
  ASSUME NEW a \in Seq(Plain), NEW b \in Seq(Plain), NEW size \in Nat,
         \A k \in 1 .. Len(b) : b[k].size = size
  PROVE  \A k \in 0 .. Len(b) : Bits(a \o b)[Len(a) + k] = Length(a) + k * size
<1> DEFINE c == a \o b
           C == Bits(c)
           L == Length(a)
           S == {k \in Nat : k <= Len(b) => C[Len(a) + k] = L + k * size}
<1>1. c \in Seq(Plain) /\ Len(c) = Len(a) + Len(b) /\ Len(a) \in Nat /\ Len(b) \in Nat
      /\ \A k \in 1 .. Len(b) : c[Len(a) + k] = b[k]
  BY ConcatProperties
<1>2. C[Len(a)] = L
  BY <1>1, BitsOfConcat DEF Length
<1>3. L \in Nat
  BY <1>1, BitsDef DEF Length
<1> HIDE DEF c
<1>4. \A k \in 1 .. Len(c) : C[k] = C[k - 1] + c[k].size
  BY <1>1, BitsDef
<1> HIDE DEF C, L
<1>5. 0 \in S
  BY <1>1, <1>2, <1>3
<1>6. ASSUME NEW k \in Nat, k \in S PROVE k + 1 \in S
  <2> SUFFICES ASSUME k + 1 <= Len(b) PROVE C[Len(a) + (k + 1)] = L + (k + 1) * size
    OBVIOUS
  <2>1. /\ k + 1 \in 1 .. Len(b) /\ Len(a) + (k + 1) \in 1 .. Len(c)
        /\ (Len(a) + (k + 1)) - 1 = Len(a) + k /\ C[Len(a) + k] = L + k * size
    BY <1>1, <1>6
  <2>2. C[Len(a) + (k + 1)] = (L + k * size) + size
    BY <1>1, <1>4, <2>1
  <2>3. (k + 1) * size = k * size + size /\ k * size \in Nat
    OBVIOUS
  <2> QED BY <1>3, <2>2, <2>3
<1> HIDE DEF S
<1>7. Nat \subseteq S
  BY <1>5, <1>6, SetInduction, Zenon
<1> QED BY <1>1, <1>7 DEF S, C, L, c

-----------------------------------------------------------------------------
(* The parser and what the items mean. *)

Ids == {MCCR_USAGE} \cup UsageIds

Contexts == [report_size : Nat, wip : Seq(Plain), INPUT : Seq(Plain), FEATURE : Seq(Plain),
             fatal_error : BOOLEAN]
Meanings == [size : Nat, count : Nat, usages : Seq(Ids), sized : BOOLEAN,
             INPUT : Seq(Plain), FEATURE : Seq(Plain), canonical : BOOLEAN]

\* The usages since the last main item have the size their count gives them.
CountTaken(c, h) ==
  LET n == Len(h.usages)
      size_bits == (h.count * h.size) % Word
  IN  /\ n = 1 => c.wip[1].size = size_bits /\ size_bits # 0
      /\ n > 1 => \A i \in 1 .. n : c.wip[i].size = size_bits \div n

SameUsages(c, h) ==
  Len(c.wip) = Len(h.usages) /\ \A i \in 1 .. Len(h.usages) : c.wip[i].id = h.usages[i]

\* The reports so far are the ones meant, unless they are too long for a word,
\* and no field of them is empty.
SameReports(c, h) ==
  \A R \in Report :
    /\ Length(h[R]) < Word => c[R] = h[R]
    /\ \A i \in 1 .. Len(h[R]) : h[R][i].size >= 1

\* How the parser keeps up with the items.
Agree(c, h) ==
  /\ c.report_size = h.size
  /\ SameUsages(c, h)
  /\ h.sized => CountTaken(c, h)
  /\ SameReports(c, h)

\* The fields an item gives to the usages before it.
FieldsOf(h) ==
  [i \in 1 .. Len(h.usages) |->
     [id |-> h.usages[i], size |-> IF Len(h.usages) = 1 THEN h.size * h.count ELSE h.size]]

Usual(h) ==
  h.sized /\ h.size > 0 /\ Len(h.usages) > 0
    /\ (Len(h.usages) = 1 \/ h.count = Len(h.usages))

\* The values of the items.
LEMMA ItemValue ==
  ASSUME NEW item \in Items
  PROVE  /\ item.tag = "USAGE" => item.value \in Ids
         /\ item.tag \in {"REPORT_SIZE", "REPORT_COUNT"} => item.value \in Nat
         /\ item.tag \in {"USAGE", "REPORT_SIZE", "REPORT_COUNT", "USAGE_PAGE", "COLLECTION",
                          "INPUT", "FEATURE", "OUTPUT", "RESERVED", "END_COLLECTION"}
<1>1. item.tag = "USAGE" => item.value \in Ids
  BY DEF Items, Item, Ids, Report
<1>2. item.tag = "REPORT_SIZE" => item.value \in Sizes
  BY DEF Items, Item, Report
<1>3. item.tag = "REPORT_COUNT" => item.value \in Counts
  BY DEF Items, Item, Report
<1>4. Sizes \subseteq Nat /\ Counts \subseteq Nat
  BY ItemValues, WordBytes
<1>5. item.tag \in {"USAGE", "REPORT_SIZE", "REPORT_COUNT", "USAGE_PAGE", "COLLECTION",
                    "INPUT", "FEATURE", "OUTPUT", "RESERVED", "END_COLLECTION"}
  BY DEF Items, Item, Report
<1> QED BY <1>1, <1>2, <1>3, <1>4, <1>5

\* The kinds of items.
LEMMA ItemKinds ==
  ASSUME NEW c \in Contexts, NEW h \in Meanings, NEW item \in Items
  PROVE  /\ item.tag = "USAGE" =>
              /\ parse_item(c, item) = [c EXCEPT !.wip = Append(@, [id |-> item.value, size |-> 0])]
              /\ Meaning(h, item) = [h EXCEPT !.usages = Append(@, item.value), !.sized = FALSE]
         /\ item.tag = "USAGE_PAGE" =>
              /\ parse_item(c, item) \in {c, Fatal(c)}
              /\ Meaning(h, item) = h
         /\ item.tag = "REPORT_SIZE" =>
              /\ parse_item(c, item) = [c EXCEPT !.report_size = item.value]
              /\ Meaning(h, item) = [h EXCEPT !.size = item.value, !.sized = FALSE]
         /\ item.tag = "REPORT_COUNT" =>
              /\ parse_item(c, item) = process_report_count(c, item.value)
              /\ Meaning(h, item) = [h EXCEPT !.count = item.value, !.sized = TRUE]
         /\ item.tag \in {"COLLECTION", "END_COLLECTION", "OUTPUT", "RESERVED"} =>
              /\ \/ parse_item(c, item) = [c EXCEPT !.wip = <<>>]
                 \/ parse_item(c, item) = c /\ c.wip = <<>>
                 \/ parse_item(c, item) = Fatal(c)
              /\ Meaning(h, item) = [h EXCEPT !.usages = <<>>, !.sized = FALSE]
         /\ item.tag \in Report =>
              /\ parse_item(c, item) = [[c EXCEPT ![item.tag] = @ \o c.wip] EXCEPT !.wip = <<>>]
              /\ Meaning(h, item) =
                   IF Usual(h)
                     THEN [[h EXCEPT !.usages = <<>>, !.sized = FALSE]
                             EXCEPT ![item.tag] = @ \o FieldsOf(h)]
                     ELSE [[h EXCEPT !.usages = <<>>, !.sized = FALSE]
                             EXCEPT !.INPUT = <<>>, !.FEATURE = <<>>, !.canonical = FALSE]
<1>1. CASE item.tag = "USAGE"
  BY <1>1 DEF parse_item, Meaning, process_usage, Report
<1>2. CASE item.tag = "USAGE_PAGE"
  BY <1>2 DEF parse_item, Meaning, process_usage_page, Report
<1>3. CASE item.tag = "REPORT_SIZE"
  BY <1>3 DEF parse_item, Meaning, process_report_size, Report
<1>4. CASE item.tag = "REPORT_COUNT"
  BY <1>4 DEF parse_item, Meaning, Report
<1>5. CASE item.tag = "COLLECTION"
  BY <1>5 DEF parse_item, Meaning, process_collection, cleanup_usage_array, Report
<1>6. CASE item.tag = "END_COLLECTION"
  BY <1>6 DEF parse_item, Meaning, process_collection_end, Report
<1>7. CASE item.tag \in {"OUTPUT", "RESERVED"}
  BY <1>7 DEF parse_item, Meaning, process_input_output_feature, cleanup_usage_array, Report
<1>8. CASE item.tag \in Report
  <2>1. parse_item(c, item) = [[c EXCEPT ![item.tag] = @ \o c.wip] EXCEPT !.wip = <<>>]
    BY <1>8 DEF parse_item, process_input_output_feature, cleanup_usage_array, Report
  <2>2. Meaning(h, item) =
          IF Usual(h)
            THEN [[h EXCEPT !.usages = <<>>, !.sized = FALSE]
                    EXCEPT ![item.tag] = @ \o FieldsOf(h)]
            ELSE [[h EXCEPT !.usages = <<>>, !.sized = FALSE]
                    EXCEPT !.INPUT = <<>>, !.FEATURE = <<>>, !.canonical = FALSE]
    BY <1>8 DEF Meaning, FieldsOf, Usual, Report
  <2> QED BY <1>8, <2>1, <2>2 DEF Report
<1> QED BY <1>1, <1>2, <1>3, <1>4, <1>5, <1>6, <1>7, <1>8, ItemValue DEF Report

\* All usages since the last main item get a size.
Given(c, size) ==
  [c EXCEPT !.wip = [i \in 1 .. Len(c.wip) |-> [id |-> c.wip[i].id, size |-> size]]]

\* What a count leaves: no usage to count for, sizes for all of them, or a
\* fatal error.
LEMMA CountLeaves ==
  ASSUME NEW c \in Contexts, NEW value \in Nat, NEW size_bits,
         size_bits = (value * c.report_size) % Word
  PROVE  /\ size_bits \in Nat
         /\ Len(c.wip) = 0 => process_report_count(c, value) = c
         /\ Len(c.wip) = 1 =>
              process_report_count(c, value) =
                IF size_bits = 0 THEN Fatal(Given(c, size_bits)) ELSE Given(c, size_bits)
         /\ Len(c.wip) > 1 =>
              process_report_count(c, value) =
                IF size_bits % Len(c.wip) # 0 THEN Fatal(c)
                  ELSE Given(c, size_bits \div Len(c.wip))
<1> DEFINE n == Len(c.wip)
<1>1. c.wip \in Seq(Plain) /\ n \in Nat /\ DOMAIN c.wip = 1 .. n
  BY DEF Contexts
<1>2. size_bits \in Nat
  <2>1. value * c.report_size \in Nat
    BY DEF Contexts
  <2> QED BY <2>1, WordBytes
<1>3. \A size : [c EXCEPT !.wip = [i \in DOMAIN @ |-> [@[i] EXCEPT !.size = size]]]
                  = Given(c, size)
  <2> TAKE size
  <2>1. \A i \in 1 .. n : c.wip[i] \in Plain
    BY <1>1, ElementOfSeq
  <2>2. \A x \in Plain : [x EXCEPT !.size = size] = [id |-> x.id, size |-> size]
    BY DEF Plain
  <2> QED BY <1>1, <2>1, <2>2 DEF Given
<1>4. CASE n = 0
  <2>1. process_report_count(c, value) = c
    BY <1>4 DEF process_report_count
  <2> HIDE DEF n
  <2>2. n # 1 /\ ~(n > 1)
    BY <1>4
  <2> QED BY <1>2, <1>4, <2>1, <2>2 DEF n
<1>5. CASE n = 1
  <2>1. size_bits \div n = size_bits /\ n # 0
    BY <1>2, <1>5
  <2>2. process_report_count(c, value) =
          IF size_bits = 0 THEN Fatal(Given(c, size_bits)) ELSE Given(c, size_bits)
    BY <1>3, <1>5, <2>1 DEF process_report_count
  <2> QED BY <1>2, <1>5, <2>2
<1>6. CASE n > 1
  <2>1. n # 0 /\ n # 1
    <3> HIDE DEF n
    <3> QED BY <1>1, <1>6
  <2>2. process_report_count(c, value) =
          IF size_bits % n # 0 THEN Fatal(c) ELSE Given(c, size_bits \div n)
    BY <1>3, <1>6, <2>1 DEF process_report_count
  <2> QED BY <1>2, <1>6, <2>1, <2>2
<1> HIDE DEF n
<1>7. n = 0 \/ n = 1 \/ n > 1
  BY <1>1
<1> QED BY <1>4, <1>5, <1>6, <1>7 DEF n

\* Dividing a sum of equal parts gives a part.
LEMMA Quotient ==
  ASSUME NEW n \in Nat, n > 0, NEW k \in Nat PROVE (n * k) \div n = k
OBVIOUS

\* The usages of the parser are these fields, when they fit.
LEMMA UsagesAreFields ==
  ASSUME NEW c \in Contexts, NEW h \in Meanings, SameUsages(c, h), CountTaken(c, h), Usual(h)
  PROVE  /\ FieldsOf(h) \in Seq(Plain) /\ Len(FieldsOf(h)) = Len(h.usages)
         /\ \E size \in Nat :
              /\ size >= 1
              /\ \A i \in 1 .. Len(FieldsOf(h)) : FieldsOf(h)[i].size = size
              /\ Len(h.usages) * size < Word => c.wip = FieldsOf(h)
<1> DEFINE n == Len(h.usages)
           F == FieldsOf(h)
           size == IF n = 1 THEN h.size * h.count ELSE h.size
           size_bits == (h.count * h.size) % Word
<1>1. /\ h.usages \in Seq(Ids) /\ n \in Nat /\ h.size \in Nat /\ h.count \in Nat
      /\ c.wip \in Seq(Plain)
  BY DEF Meanings, Contexts
<1>2. n > 0 /\ h.size > 0 /\ (n = 1 \/ h.count = n)
  BY DEF Usual
<1>3. h.count * h.size \in Nat /\ h.size * h.count = h.count * h.size
  BY <1>1
<1>4. size \in Nat
  BY <1>1, <1>3
<1>5. \A i \in 1 .. n : h.usages[i] \in Ids
  BY <1>1, ElementOfSeq
<1>6. F = [i \in 1 .. n |-> [id |-> h.usages[i], size |-> size]]
  BY DEF FieldsOf
<1> HIDE DEF F
<1>7. F \in Seq(Plain) /\ Len(F) = n
  <2> HIDE DEF size, n
  <2>1. \A i \in 1 .. n : [id |-> h.usages[i], size |-> size] \in Plain
    BY <1>4, <1>5 DEF Plain, Ids
  <2> QED BY <1>1, <1>6, <2>1
<1>8. \A i \in 1 .. n : F[i] = [id |-> h.usages[i], size |-> size]
  BY <1>6
<1>9. /\ n = 1 => c.wip[1].size = size_bits /\ size_bits # 0
      /\ n > 1 => \A i \in 1 .. n : c.wip[i].size = size_bits \div n
  BY DEF CountTaken
<1>10. size >= 1
  <2>1. CASE n = 1
    <3>1. h.count * h.size # 0
      BY <1>9, <2>1, WordBytes
    <3> QED BY <1>3, <2>1, <3>1
  <2>2. CASE n # 1
    BY <1>1, <1>2, <2>2
  <2> QED BY <2>1, <2>2
<1>11. ASSUME n * size < Word PROVE c.wip = F
  <2>1. \A i \in 1 .. n : c.wip[i].size = size
    <3>1. CASE n = 1
      <4>1. size = h.count * h.size /\ size < Word
        BY <1>3, <1>4, <1>11, <3>1
      <4>2. size_bits = size
        BY <1>4, <4>1, WordBytes
      <4> QED BY <1>9, <3>1, <4>2
    <3>2. CASE n # 1
      <4>1. size = h.size /\ h.count = n
        BY <1>2, <3>2
      <4>2. size_bits = (n * h.size) % Word
        BY <4>1
      <4>3. n * h.size \in Nat /\ n * h.size < Word
        BY <1>1, <1>11, <4>1
      <4>4. size_bits = n * h.size
        BY <4>2, <4>3, WordBytes
      <4>5. size_bits \div n = h.size
        BY <1>1, <1>2, <4>4, Quotient
      <4>6. n > 1
        <5> HIDE DEF n, size, size_bits
        <5> QED BY <1>1, <1>2, <3>2
      <4> QED BY <1>9, <4>1, <4>5, <4>6
    <3> QED BY <3>1, <3>2
  <2>2. Len(c.wip) = n /\ \A i \in 1 .. n : c.wip[i].id = h.usages[i]
    BY DEF SameUsages
  <2>3. \A i \in 1 .. n : c.wip[i] \in Plain
    BY <1>1, <2>2, ElementOfSeq
  <2> HIDE DEF size, n
  <2>4. \A i \in 1 .. n : c.wip[i] = F[i]
    BY <1>8, <2>1, <2>2, <2>3 DEF Plain
  <2> QED BY <1>1, <1>7, <2>2, <2>4, SeqEqual
<1> HIDE DEF size, n
<1>12. \A i \in 1 .. Len(F) : F[i].size = size
  BY <1>7, <1>8
<1> QED BY <1>4, <1>7, <1>10, <1>11, <1>12 DEF F, n

\* The fields of an item are fields.
LEMMA FieldsTyped ==
  ASSUME NEW h \in Meanings
  PROVE  FieldsOf(h) \in Seq(Plain) /\ Len(FieldsOf(h)) = Len(h.usages)
<1>1. PICK n \in Nat : n = Len(h.usages)
  BY DEF Meanings
<1>2. PICK size \in Nat : size = IF n = 1 THEN h.size * h.count ELSE h.size
  <2>1. h.size * h.count \in Nat /\ h.size \in Nat
    BY DEF Meanings
  <2> QED BY <2>1
<1>3. \A i \in 1 .. n : [id |-> h.usages[i], size |-> size] \in Plain
  <2> TAKE i \in 1 .. n
  <2>1. h.usages \in Seq(Ids)
    BY DEF Meanings
  <2>2. h.usages[i] \in Ids
    BY <1>1, <2>1, ElementOfSeq
  <2> QED BY <2>2 DEF Plain, Ids
<1>4. FieldsOf(h) = [i \in 1 .. n |-> [id |-> h.usages[i], size |-> size]]
  BY <1>1, <1>2 DEF FieldsOf
<1> QED BY <1>1, <1>3, <1>4

\* Giving the usages a size leaves a parse context.
LEMMA GivenTyped ==
  ASSUME NEW c \in Contexts, NEW size \in Nat
  PROVE  Given(c, size) \in Contexts
<1>1. PICK n \in Nat : n = Len(c.wip)
  BY DEF Contexts
<1>2. \A i \in 1 .. n : c.wip[i] \in Plain
  <2>1. c.wip \in Seq(Plain)
    BY DEF Contexts
  <2> QED BY <1>1, <2>1, ElementOfSeq
<1>3. \A i \in 1 .. n : [id |-> c.wip[i].id, size |-> size] \in Plain
  BY <1>2 DEF Plain
<1>4. [i \in 1 .. n |-> [id |-> c.wip[i].id, size |-> size]] \in Seq(Plain)
  BY <1>3
<1>5. \A wip \in Seq(Plain) : [c EXCEPT !.wip = wip] \in Contexts
  BY DEF Contexts
<1> QED BY <1>1, <1>4, <1>5 DEF Given

\* A count that is no fatal error gives one size to all, if there are any.
\* So does a count.
LEMMA CountTyped ==
  ASSUME NEW c \in Contexts, NEW value \in Nat
  PROVE  process_report_count(c, value) \in Contexts
<1>1. PICK bits : bits = (value * c.report_size) % Word
  OBVIOUS
<1>2. PICK n \in Nat : n = Len(c.wip)
  BY DEF Contexts
<1>3. bits \in Nat
  BY <1>1, CountLeaves
<1>4. \A x \in Contexts : Fatal(x) \in Contexts
  BY DEF Fatal, Contexts
<1>5. CASE n = 0
  BY <1>1, <1>2, <1>5, CountLeaves
<1>6. CASE n = 1
  <2>1. Given(c, bits) \in Contexts
    BY <1>3, GivenTyped
  <2>2. process_report_count(c, value) = IF bits = 0 THEN Fatal(Given(c, bits)) ELSE Given(c, bits)
    BY <1>1, <1>2, <1>6, CountLeaves
  <2> QED BY <1>4, <2>1, <2>2
<1>7. CASE n > 1
  <2>1. bits \div n \in Nat
    BY <1>3, <1>7
  <2>2. Given(c, bits \div n) \in Contexts
    BY <2>1, GivenTyped
  <2>3. process_report_count(c, value) = IF bits % n # 0 THEN Fatal(c) ELSE Given(c, bits \div n)
    BY <1>1, <1>2, <1>7, CountLeaves
  <2> QED BY <1>4, <2>2, <2>3
<1> QED BY <1>5, <1>6, <1>7

\* Every item leaves a parse context and a meaning.
LEMMA ItemTyped ==
  ASSUME NEW c \in Contexts, NEW h \in Meanings, NEW item \in Items
  PROVE  parse_item(c, item) \in Contexts /\ Meaning(h, item) \in Meanings
<1> DEFINE c2 == parse_item(c, item)
           h2 == Meaning(h, item)
<1> HIDE DEF c2, h2
<1>1. /\ c.report_size \in Nat /\ c.wip \in Seq(Plain) /\ c.INPUT \in Seq(Plain)
      /\ c.FEATURE \in Seq(Plain)
      /\ h.usages \in Seq(Ids) /\ h.INPUT \in Seq(Plain) /\ h.FEATURE \in Seq(Plain)
      /\ <<>> \in Seq(Plain) /\ <<>> \in Seq(Ids)
  BY DEF Contexts, Meanings
<1>2. \A x \in Contexts : Fatal(x) \in Contexts
  BY DEF Fatal, Contexts
<1>3. \A x \in Contexts : \A wip \in Seq(Plain) : [x EXCEPT !.wip = wip] \in Contexts
  BY DEF Contexts
<1>4. \A usages \in Seq(Ids) :
        [h EXCEPT !.usages = usages, !.sized = FALSE] \in Meanings
  BY DEF Meanings
<1>5. CASE item.tag = "USAGE"
  <2>1. item.value \in Ids
    BY <1>5, ItemValue
  <2>2. [id |-> item.value, size |-> 0] \in Plain
    BY <2>1 DEF Plain, Ids
  <2>3. Append(c.wip, [id |-> item.value, size |-> 0]) \in Seq(Plain)
        /\ Append(h.usages, item.value) \in Seq(Ids)
    BY <1>1, <2>1, <2>2, AppendProperties
  <2>4. c2 = [c EXCEPT !.wip = Append(c.wip, [id |-> item.value, size |-> 0])]
    BY <1>5, ItemKinds DEF c2
  <2>5. h2 = [h EXCEPT !.usages = Append(h.usages, item.value), !.sized = FALSE]
    BY <1>5 DEF Meaning, Report, h2
  <2> QED BY <1>3, <1>4, <2>3, <2>4, <2>5 DEF c2, h2
<1>6. CASE item.tag = "USAGE_PAGE"
  <2>1. c2 = c \/ c2 = Fatal(c)
    BY <1>6, ItemKinds DEF c2
  <2>2. h2 = h
    BY <1>6, ItemKinds DEF h2
  <2> QED BY <1>2, <2>1, <2>2 DEF c2, h2
<1>7. CASE item.tag = "REPORT_SIZE"
  <2>1. item.value \in Nat
    BY <1>7, ItemValue
  <2>2. [c EXCEPT !.report_size = item.value] \in Contexts
    BY <2>1 DEF Contexts
  <2>3. [h EXCEPT !.size = item.value, !.sized = FALSE] \in Meanings
    BY <2>1 DEF Meanings
  <2> QED BY <1>7, <2>2, <2>3, ItemKinds
<1>8. CASE item.tag = "REPORT_COUNT"
  <2>1. item.value \in Nat
    BY <1>8, ItemValue
  <2>2. [h EXCEPT !.count = item.value, !.sized = TRUE] \in Meanings
    BY <2>1 DEF Meanings
  <2>3. process_report_count(c, item.value) \in Contexts
    BY <2>1, CountTyped
  <2>4. c2 = process_report_count(c, item.value)
    BY <1>8, ItemKinds DEF c2
  <2>5. h2 = [h EXCEPT !.count = item.value, !.sized = TRUE]
    BY <1>8 DEF Meaning, Report, h2
  <2> QED BY <2>2, <2>3, <2>4, <2>5 DEF c2, h2
<1>9. CASE item.tag \in {"COLLECTION", "END_COLLECTION", "OUTPUT", "RESERVED"}
  <2>1. c2 = [c EXCEPT !.wip = <<>>] \/ c2 = c \/ c2 = Fatal(c)
    BY <1>9, ItemKinds DEF c2
  <2>2. h2 = [h EXCEPT !.usages = <<>>, !.sized = FALSE]
    BY <1>9, ItemKinds, ZenonT(60) DEF h2
  <2>3. c2 \in Contexts
    BY <1>1, <1>2, <1>3, <2>1
  <2>4. h2 \in Meanings
    BY <1>1, <1>4, <2>2
  <2> QED BY <2>3, <2>4 DEF c2, h2
<1>10. CASE item.tag \in Report
  <2>1. [c EXCEPT ![item.tag] = @ \o c.wip] \in Contexts
    <3>1. c.INPUT \o c.wip \in Seq(Plain) /\ c.FEATURE \o c.wip \in Seq(Plain)
      BY <1>1, ConcatProperties
    <3> QED BY <1>10, <3>1 DEF Contexts, Report
  <2>2. c2 \in Contexts
    <3>1. c2 = [[c EXCEPT ![item.tag] = @ \o c.wip] EXCEPT !.wip = <<>>]
      BY <1>10, ItemKinds DEF c2
    <3> QED BY <1>1, <1>3, <2>1, <3>1, Zenon
  <2> DEFINE h1 == [h EXCEPT !.usages = <<>>, !.sized = FALSE]
  <2>3. h1 \in Meanings /\ h1.INPUT = h.INPUT /\ h1.FEATURE = h.FEATURE
    BY <1>1, <1>4 DEF Meanings
  <2> HIDE DEF h1
  <2>4. [h1 EXCEPT ![item.tag] = @ \o FieldsOf(h)] \in Meanings
    <3>1. h.INPUT \o FieldsOf(h) \in Seq(Plain) /\ h.FEATURE \o FieldsOf(h) \in Seq(Plain)
      BY <1>1, FieldsTyped, ConcatProperties
    <3> QED BY <1>10, <2>3, <3>1 DEF Meanings, Report
  <2>5. [h1 EXCEPT !.INPUT = <<>>, !.FEATURE = <<>>, !.canonical = FALSE] \in Meanings
    BY <1>1, <2>3 DEF Meanings
  <2>6. h2 \in Meanings
    BY <1>10, <2>4, <2>5, ItemKinds, ZenonT(60) DEF h1, h2
  <2> QED BY <2>2, <2>6 DEF c2, h2
<1> QED BY <1>5, <1>6, <1>7, <1>8, <1>9, <1>10, ItemValue DEF Report

\* An input or feature item: the usages become fields of the report.
LEMMA ReportGrows ==
  ASSUME NEW c \in Contexts, NEW h \in Meanings, NEW R \in Report, Agree(c, h), Usual(h)
  PROVE  /\ Length(h[R] \o FieldsOf(h)) < Word => c[R] \o c.wip = h[R] \o FieldsOf(h)
         /\ \A i \in 1 .. Len(h[R] \o FieldsOf(h)) : (h[R] \o FieldsOf(h))[i].size >= 1
<1> DEFINE F == FieldsOf(h)
           a == h[R]
<1>1. a \in Seq(Plain) /\ Len(a) \in Nat
  BY DEF Meanings, Report
<1>2. F \in Seq(Plain) /\ Len(F) = Len(h.usages) /\ Len(F) \in Nat
  BY FieldsTyped
<1>3. PICK size \in Nat :
        /\ size >= 1
        /\ \A i \in 1 .. Len(F) : F[i].size = size
        /\ Len(h.usages) * size < Word => c.wip = F
  <2>1. SameUsages(c, h) /\ CountTaken(c, h)
    BY DEF Agree, Usual
  <2> QED BY <2>1, UsagesAreFields
<1> HIDE DEF F, a
<1>4. /\ a \o F \in Seq(Plain) /\ Len(a \o F) = Len(a) + Len(F)
      /\ \A i \in 1 .. Len(a \o F) :
           (a \o F)[i] = IF i <= Len(a) THEN a[i] ELSE F[i - Len(a)]
  <2>1. a \o F \in Seq(Plain) /\ Len(a \o F) = Len(a) + Len(F)
    BY <1>1, <1>2, ConcatProperties
  <2>2. \A i \in 1 .. Len(a) + Len(F) :
          (a \o F)[i] = IF i <= Len(a) THEN a[i] ELSE F[i - Len(a)]
    BY <1>1, <1>2, ConcatProperties, Zenon
  <2> QED BY <2>1, <2>2
<1>5. /\ Length(a) < Word => c[R] = a
      /\ \A i \in 1 .. Len(a) : a[i].size >= 1
  BY DEF Agree, SameReports, a
<1>6. ASSUME Length(a \o F) < Word PROVE c[R] \o c.wip = a \o F
  <2>1. Length(a \o F) = Length(a) + Len(F) * size
    <3>1. Bits(a \o F)[Len(a) + Len(F)] = Length(a) + Len(F) * size
      <4>1. Len(F) \in 0 .. Len(F)
        BY <1>2
      <4> QED BY <1>1, <1>2, <1>3, <4>1, BitsOfEqual
    <3> QED BY <1>4, <3>1 DEF Length
  <2>2. Length(a) \in Nat
    BY <1>1, BitsDef DEF Length
  <2>3. Len(F) * size \in Nat
    BY <1>2, <1>3
  <2>4. Length(a) < Word /\ Len(F) * size < Word
    BY <1>6, <2>1, <2>2, <2>3, WordBytes
  <2> QED BY <1>2, <1>3, <1>5, <2>4
<1>7. ASSUME NEW i \in 1 .. Len(a \o F) PROVE (a \o F)[i].size >= 1
  <2>1. CASE i <= Len(a)
    BY <1>1, <1>4, <1>5, <2>1
  <2>2. CASE ~(i <= Len(a))
    <3>1. i - Len(a) \in 1 .. Len(F)
      BY <1>1, <1>2, <1>4, <2>2
    <3>2. F[i - Len(a)].size >= 1
      BY <1>3, <3>1
    <3> QED BY <1>4, <2>2, <3>2
  <2> QED BY <2>1, <2>2
<1> QED BY <1>6, <1>7 DEF F, a

\* The parser keeps up with every item.
LEMMA AgreeStep ==
  ASSUME NEW c \in Contexts, NEW h \in Meanings, NEW item \in Items, Agree(c, h),
         NEW c2, c2 = parse_item(c, item), NEW h2, h2 = Meaning(h, item),
         c2.fatal_error = FALSE, h2.canonical = TRUE
  PROVE  Agree(c2, h2)
<1>1. c2 \in Contexts /\ h2 \in Meanings
  BY ItemTyped
<1>2. /\ c.report_size = h.size /\ SameUsages(c, h) /\ (h.sized => CountTaken(c, h))
      /\ SameReports(c, h)
  BY DEF Agree
<1>3. (\A R \in Report : c2[R] = c[R] /\ h2[R] = h[R]) => SameReports(c2, h2)
  BY <1>2 DEF SameReports
<1>4. \A x : Fatal([c EXCEPT !.wip = x]).fatal_error = TRUE /\ Fatal(c).fatal_error = TRUE
  BY DEF Fatal, Contexts
<1>5. CASE item.tag = "USAGE"
  <2>1. c2 = [c EXCEPT !.wip = Append(c.wip, [id |-> item.value, size |-> 0])]
    BY <1>5 DEF parse_item, process_usage
  <2>2. h2 = [h EXCEPT !.usages = Append(h.usages, item.value), !.sized = FALSE]
    BY <1>5 DEF Meaning, Report
  <2>3. /\ c2.report_size = c.report_size /\ c2.INPUT = c.INPUT /\ c2.FEATURE = c.FEATURE
        /\ c2.wip = Append(c.wip, [id |-> item.value, size |-> 0])
    BY <2>1 DEF Contexts
  <2>4. /\ h2.size = h.size /\ h2.INPUT = h.INPUT /\ h2.FEATURE = h.FEATURE
        /\ h2.usages = Append(h.usages, item.value) /\ h2.sized = FALSE
    BY <2>2 DEF Meanings
  <2>5. SameReports(c2, h2)
    BY <1>3, <2>3, <2>4 DEF Report
  <2>6. SameUsages(c2, h2)
    <3>1. item.value \in Ids /\ [id |-> item.value, size |-> 0] \in Plain
      <4>1. item.value \in Ids
        BY <1>5, ItemValue
      <4> QED BY <4>1 DEF Plain, Ids
    <3>2. c.wip \in Seq(Plain) /\ h.usages \in Seq(Ids)
      BY DEF Contexts, Meanings
    <3>3. PICK n \in Nat : n = Len(c.wip) /\ n = Len(h.usages)
                           /\ \A i \in 1 .. n : c.wip[i].id = h.usages[i]
      BY <1>2, <3>2 DEF SameUsages
    <3>4. Len(c2.wip) = n + 1 /\ (\A i \in 1 .. n : c2.wip[i] = c.wip[i])
          /\ c2.wip[n + 1] = [id |-> item.value, size |-> 0]
      <4>1. PICK e \in Plain : e = [id |-> item.value, size |-> 0]
        BY <3>1
      <4>2. c2.wip = Append(c.wip, e)
        BY <2>3, <4>1
      <4>3. Len(Append(c.wip, e)) = n + 1 /\ (\A i \in 1 .. n : Append(c.wip, e)[i] = c.wip[i])
            /\ Append(c.wip, e)[n + 1] = e
        <5>1. c.wip \in Seq(Plain) /\ n = Len(c.wip)
          BY <3>2, <3>3
        <5>2. /\ Len(Append(c.wip, e)) = Len(c.wip) + 1
              /\ \A i \in 1 .. Len(c.wip) : Append(c.wip, e)[i] = c.wip[i]
              /\ Append(c.wip, e)[Len(c.wip) + 1] = e
          BY <5>1, AppendProperties
        <5> QED BY <5>1, <5>2
      <4> QED BY <4>1, <4>2, <4>3
    <3>5. Len(h2.usages) = n + 1 /\ (\A i \in 1 .. n : h2.usages[i] = h.usages[i])
          /\ h2.usages[n + 1] = item.value
      BY <2>4, <3>1, <3>2, <3>3, AppendProperties
    <3>6. \A i \in 1 .. (n + 1) : c2.wip[i].id = h2.usages[i]
      <4> TAKE i \in 1 .. (n + 1)
      <4>1. CASE i = n + 1
        BY <3>4, <3>5, <4>1
      <4>2. CASE i # n + 1
        <5>1. i \in 1 .. n
          BY <4>2
        <5> QED BY <3>3, <3>4, <3>5, <5>1
      <4> QED BY <4>1, <4>2
    <3> QED BY <3>4, <3>5, <3>6 DEF SameUsages
  <2> QED BY <1>2, <2>3, <2>4, <2>5, <2>6 DEF Agree
<1>6. CASE item.tag = "USAGE_PAGE"
  <2>1. c2 = c \/ c2 = Fatal(c)
    BY <1>6 DEF parse_item, process_usage_page
  <2>2. h2 = h
    BY <1>6 DEF Meaning, Report
  <2> QED BY <1>4, <2>1, <2>2
<1>7. CASE item.tag = "REPORT_SIZE"
  <2>1. c2 = [c EXCEPT !.report_size = item.value]
    BY <1>7 DEF parse_item, process_report_size
  <2>2. h2 = [h EXCEPT !.size = item.value, !.sized = FALSE]
    BY <1>7 DEF Meaning, Report
  <2>3. /\ c2.report_size = item.value /\ c2.INPUT = c.INPUT /\ c2.FEATURE = c.FEATURE
        /\ c2.wip = c.wip
    BY <2>1 DEF Contexts
  <2>4. /\ h2.size = item.value /\ h2.INPUT = h.INPUT /\ h2.FEATURE = h.FEATURE
        /\ h2.usages = h.usages /\ h2.sized = FALSE
    BY <2>2 DEF Meanings
  <2>5. SameReports(c2, h2)
    BY <1>3, <2>3, <2>4 DEF Report
  <2>6. SameUsages(c2, h2)
    BY <1>2, <2>3, <2>4 DEF SameUsages
  <2> QED BY <2>3, <2>4, <2>5, <2>6 DEF Agree
<1>8. CASE item.tag = "REPORT_COUNT"
  <2>1. c2 = process_report_count(c, item.value)
    BY <1>8 DEF parse_item
  <2>2. h2 = [h EXCEPT !.count = item.value, !.sized = TRUE]
    BY <1>8 DEF Meaning, Report
  <2>3. /\ h2.size = h.size /\ h2.INPUT = h.INPUT /\ h2.FEATURE = h.FEATURE
        /\ h2.usages = h.usages /\ h2.count = item.value
    BY <2>2 DEF Meanings
  <2>4. item.value \in Nat
    BY <1>8, ItemValue
  <2>5. PICK bits : bits = (item.value * c.report_size) % Word
    OBVIOUS
  <2>6. PICK n \in Nat : n = Len(c.wip) /\ n = Len(h.usages)
    BY <1>2 DEF SameUsages, Contexts
  <2>7. \A i \in 1 .. n : c.wip[i].id = h.usages[i]
    BY <1>2, <2>6 DEF SameUsages
  <2>8. bits = (h2.count * h2.size) % Word
    BY <1>2, <2>3, <2>5
  <2>9. ASSUME NEW size, c2 = Given(c, size)
        PROVE  /\ c2.report_size = h2.size /\ SameUsages(c2, h2) /\ SameReports(c2, h2)
               /\ \A i \in 1 .. n : c2.wip[i].size = size
    <3>1. /\ c2.report_size = c.report_size /\ c2.INPUT = c.INPUT /\ c2.FEATURE = c.FEATURE
          /\ c2.wip = [i \in 1 .. n |-> [id |-> c.wip[i].id, size |-> size]]
      BY <2>6, <2>9 DEF Given, Contexts
    <3>2. Len(c2.wip) = n
      BY <3>1
    <3>3. \A i \in 1 .. n : c2.wip[i].id = h2.usages[i] /\ c2.wip[i].size = size
      BY <2>3, <2>7, <3>1
    <3>4. SameUsages(c2, h2)
      BY <2>3, <2>6, <3>2, <3>3 DEF SameUsages
    <3>5. SameReports(c2, h2)
      BY <1>3, <2>3, <3>1 DEF Report
    <3> QED BY <1>2, <2>3, <3>1, <3>3, <3>4, <3>5
  <2>10. CASE n = 0
    <3>1. c2 = c
      BY <2>1, <2>4, <2>5, <2>6, <2>10, CountLeaves
    <3>2. SameReports(c2, h2)
      BY <1>3, <2>3, <3>1 DEF Report
    <3>3. SameUsages(c2, h2)
      BY <1>2, <2>3, <3>1 DEF SameUsages
    <3>4. CountTaken(c2, h2)
      BY <2>3, <2>6, <2>10 DEF CountTaken
    <3> QED BY <1>2, <2>3, <3>1, <3>2, <3>3, <3>4 DEF Agree
  <2>11. CASE n = 1
    <3>1. c2 = IF bits = 0 THEN Fatal(Given(c, bits)) ELSE Given(c, bits)
      BY <2>1, <2>4, <2>5, <2>6, <2>11, CountLeaves
    <3>2. c2 = Given(c, bits) /\ bits # 0
      BY <1>4, <3>1 DEF Given
    <3>3. /\ c2.report_size = h2.size /\ SameUsages(c2, h2) /\ SameReports(c2, h2)
          /\ \A i \in 1 .. n : c2.wip[i].size = bits
      BY <2>9, <3>2
    <3>4. CountTaken(c2, h2)
      <4>1. Len(h2.usages) = 1 /\ ~(Len(h2.usages) > 1) /\ c2.wip[1].size = bits
        BY <2>3, <2>6, <2>11, <3>3
      <4> QED BY <2>8, <3>2, <4>1 DEF CountTaken
    <3> QED BY <3>3, <3>4 DEF Agree
  <2>12. CASE n > 1
    <3>1. c2 = IF bits % n # 0 THEN Fatal(c) ELSE Given(c, bits \div n)
      <4>1. process_report_count(c, item.value) =
              IF bits % n # 0 THEN Fatal(c) ELSE Given(c, bits \div n)
        <5>1. Len(c.wip) > 1
          BY <2>6, <2>12
        <5>2. process_report_count(c, item.value) =
                IF bits % Len(c.wip) # 0 THEN Fatal(c) ELSE Given(c, bits \div Len(c.wip))
          BY <2>4, <2>5, <5>1, CountLeaves, ZenonT(40)
        <5> QED BY <2>6, <5>2
      <4> QED BY <2>1, <4>1
    <3>2. c2 = Given(c, bits \div n)
      BY <1>4, <3>1
    <3>3. /\ c2.report_size = h2.size /\ SameUsages(c2, h2) /\ SameReports(c2, h2)
          /\ \A i \in 1 .. n : c2.wip[i].size = bits \div n
      BY <2>9, <3>2
    <3>4. CountTaken(c2, h2)
      <4>1. Len(h2.usages) = n
        BY <2>3, <2>6
      <4>2. n # 1
        BY <2>12
      <4> QED BY <2>8, <3>3, <4>1, <4>2 DEF CountTaken
    <3> QED BY <3>3, <3>4 DEF Agree
  <2> QED BY <2>10, <2>11, <2>12
<1>9. CASE item.tag \in {"COLLECTION", "END_COLLECTION", "OUTPUT", "RESERVED"}
  <2>1. c2 = [c EXCEPT !.wip = <<>>] \/ (c2 = c /\ c.wip = <<>>) \/ c2 = Fatal(c)
    BY <1>9, ItemKinds
  <2>2. h2 = [h EXCEPT !.usages = <<>>, !.sized = FALSE]
    BY <1>9 DEF Meaning, Report
  <2>3. /\ c2.report_size = c.report_size /\ c2.INPUT = c.INPUT /\ c2.FEATURE = c.FEATURE
        /\ c2.wip = <<>>
    BY <1>4, <2>1 DEF Contexts
  <2>4. /\ h2.size = h.size /\ h2.INPUT = h.INPUT /\ h2.FEATURE = h.FEATURE
        /\ h2.usages = <<>> /\ h2.sized = FALSE
    BY <2>2 DEF Meanings
  <2>5. SameReports(c2, h2)
    BY <1>3, <2>3, <2>4 DEF Report
  <2>6. SameUsages(c2, h2)
    BY <2>3, <2>4 DEF SameUsages
  <2> QED BY <1>2, <2>3, <2>4, <2>5, <2>6 DEF Agree
<1>10. CASE item.tag \in Report
  <2> DEFINE h1 == [h EXCEPT !.usages = <<>>, !.sized = FALSE]
  <2>1. c2 = [[c EXCEPT ![item.tag] = @ \o c.wip] EXCEPT !.wip = <<>>]
    BY <1>10, ItemKinds
  <2>2. h2 = IF Usual(h) THEN [h1 EXCEPT ![item.tag] = @ \o FieldsOf(h)]
               ELSE [h1 EXCEPT !.INPUT = <<>>, !.FEATURE = <<>>, !.canonical = FALSE]
    BY <1>10 DEF Meaning, FieldsOf, Usual, Report
  <2>3. /\ h1 \in Meanings /\ h1.size = h.size /\ h1.INPUT = h.INPUT /\ h1.FEATURE = h.FEATURE
        /\ h1.usages = <<>> /\ h1.sized = FALSE
    <3>1. \A us \in Seq(Ids) : LET x == [h EXCEPT !.usages = us, !.sized = FALSE] IN
            /\ x \in Meanings /\ x.size = h.size /\ x.INPUT = h.INPUT /\ x.FEATURE = h.FEATURE
            /\ x.usages = us /\ x.sized = FALSE
      BY DEF Meanings
    <3>2. <<>> \in Seq(Ids)
      OBVIOUS
    <3> QED BY <3>1, <3>2
  <2> HIDE DEF h1
  <2>4. [h1 EXCEPT !.INPUT = <<>>, !.FEATURE = <<>>, !.canonical = FALSE].canonical = FALSE
    BY <2>3 DEF Meanings
  <2>5. Usual(h) /\ h2 = [h1 EXCEPT ![item.tag] = @ \o FieldsOf(h)]
    BY <2>2, <2>4
  <2>6. /\ h2.size = h.size /\ h2.usages = <<>> /\ h2.sized = FALSE
        /\ \A R \in Report : h2[R] = IF R = item.tag THEN h[R] \o FieldsOf(h) ELSE h[R]
    BY <1>10, <2>3, <2>5 DEF Meanings, Report
  <2>7. /\ c2.report_size = c.report_size /\ c2.wip = <<>>
        /\ \A R \in Report : c2[R] = IF R = item.tag THEN c[R] \o c.wip ELSE c[R]
    BY <1>10, <2>1 DEF Contexts, Report
  <2>8. SameReports(c2, h2)
    <3> SUFFICES ASSUME NEW R \in Report
                 PROVE  /\ Length(h2[R]) < Word => c2[R] = h2[R]
                        /\ \A i \in 1 .. Len(h2[R]) : h2[R][i].size >= 1
      BY DEF SameReports
    <3>1. CASE R = item.tag
      <4>1. h2[R] = h[R] \o FieldsOf(h) /\ c2[R] = c[R] \o c.wip
        BY <2>6, <2>7, <3>1
      <4> QED BY <2>5, <4>1, ReportGrows
    <3>2. CASE R # item.tag
      BY <1>2, <2>6, <2>7, <3>2 DEF SameReports
    <3> QED BY <3>1, <3>2
  <2>9. SameUsages(c2, h2)
    BY <2>6, <2>7 DEF SameUsages
  <2> QED BY <1>2, <2>6, <2>7, <2>8, <2>9 DEF Agree
<1> QED BY <1>5, <1>6, <1>7, <1>8, <1>9, <1>10, ItemValue DEF Report

-----------------------------------------------------------------------------
(* The layout. *)

\* What process_report() makes of usages that are the fields meant.
LEMMA LayoutMeant ==
  ASSUME NEW usages, NEW fields \in Seq(Plain), Length(fields) < Word => usages = fields,
         \A i \in 1 .. Len(fields) : fields[i].size >= 1, ~Fails(usages)
  PROVE  /\ SameLayout(process_report(usages), fields)
         /\ Length(fields) < Word =>
              /\ process_report(usages).size \in Nat /\ process_report(usages).size >= 1
              /\ DOMAIN process_report(usages).usages = 1 .. Len(fields)
<1> SUFFICES ASSUME Length(fields) < Word
             PROVE  /\ SameLayout(process_report(fields), fields)
                    /\ process_report(fields).size \in Nat /\ process_report(fields).size >= 1
                    /\ DOMAIN process_report(fields).usages = 1 .. Len(fields)
  BY DEF SameLayout
<1>1. PICK n \in Nat : n = Len(fields) /\ DOMAIN fields = 1 .. n
  OBVIOUS
<1>2. \A k \in 0 .. n : Offsets(fields)[k] = Bits(fields)[k]
  BY <1>1, OffsetsAreBits
<1>3. \A i \in 1 .. n : Offsets(fields)[i - 1] = Before(fields, i)
  <2> TAKE i \in 1 .. n
  <2>1. i - 1 \in 0 .. n
    OBVIOUS
  <2> QED BY <1>2, <2>1 DEF Before
<1>4. Total(fields) = Length(fields)
  BY <1>1, <1>2 DEF Total, Length
<1>5. ~Fails(fields)
  OBVIOUS
<1>6. fields # <<>> /\ Length(fields) % 8 = 0
  BY <1>4, <1>5 DEF Fails
<1>7. n >= 1
  BY <1>1, <1>6, EmptySeq
<1>8. Length(fields) \in Nat /\ Length(fields) >= 1
  <2>1. Bits(fields)[n] \in Nat /\ Bits(fields)[1] \in Nat
    BY <1>1, <1>7, BitsDef
  <2>2. Bits(fields)[1] = 0 + fields[1].size
    <3>1. 1 \in 1 .. n /\ 1 - 1 = 0
      BY <1>7
    <3> QED BY <1>1, <3>1, BitsDef
  <2>3. fields[1].size \in Nat /\ fields[1].size >= 1
    BY <1>1, <1>7, FieldSizes
  <2>4. Bits(fields)[1] <= Bits(fields)[n]
    <3>1. n \in 0 .. Len(fields) /\ 1 \in 0 .. n
      BY <1>1, <1>7
    <3> QED BY <3>1, BitsMonotone
  <2> QED BY <1>1, <2>1, <2>2, <2>3, <2>4 DEF Length
<1> DEFINE report == process_report(fields)
<1>9. report.size = Length(fields) \div 8
  BY <1>4 DEF process_report
<1>10. report.size * 8 = Length(fields) /\ report.size \in Nat /\ report.size >= 1
  BY <1>6, <1>8, <1>9
<1>11. report.usages = [i \in 1 .. n |-> [id |-> fields[i].id, size |-> fields[i].size,
                                         offset |-> Before(fields, i)]]
  <2>1. report.usages = [i \in 1 .. n |-> [id |-> fields[i].id, size |-> fields[i].size,
                                           offset |-> Offsets(fields)[i - 1]]]
    BY <1>1 DEF process_report
  <2> HIDE DEF report
  <2> QED BY <1>3, <2>1
<1> HIDE DEF report
<1>12. /\ Len(report.usages) = n /\ DOMAIN report.usages = 1 .. n
       /\ \A i \in 1 .. n :
            report.usages[i] = [id |-> fields[i].id, size |-> fields[i].size,
                                offset |-> Before(fields, i)]
  BY <1>11
<1>13. SameLayout(report, fields)
  BY <1>1, <1>10, <1>12 DEF SameLayout
<1> QED BY <1>1, <1>10, <1>12, <1>13 DEF report

\* The parser and the items: while the descriptor is parsed they agree, as long
\* as the parser goes on and the descriptor is of the usual kind, and the layout
\* parsed is the one meant.
DInv ==
  /\ ctx \in Contexts /\ hid \in Meanings
  /\ phase \in {"parsing", "parsed", "failed"}
  /\ phase = "parsing" /\ ctx.fatal_error = FALSE /\ hid.canonical = TRUE => Agree(ctx, hid)
  /\ phase = "parsed" /\ hid.canonical = TRUE =>
       /\ SameLayout(input, hid.INPUT) /\ SameLayout(feature, hid.FEATURE)
       /\ Length(hid.INPUT) < Word =>
            input.size \in Nat /\ input.size >= 1 /\ DOMAIN input.usages = 1 .. Len(hid.INPUT)

\* Nothing was parsed yet.
LEMMA DInit == ASSUME Init PROVE DInv
<1>1. ctx = [report_size |-> 0, wip |-> <<>>, INPUT |-> <<>>, FEATURE |-> <<>>,
             fatal_error |-> FALSE]
  BY DEF Init
<1>2. hid = [size |-> 0, count |-> 0, usages |-> <<>>, sized |-> FALSE, INPUT |-> <<>>,
             FEATURE |-> <<>>, canonical |-> TRUE]
  BY DEF Init
<1>3. <<>> \in Seq(Plain) /\ <<>> \in Seq(Ids) /\ Len(<<>>) = 0
  OBVIOUS
<1>4. ctx \in Contexts
  BY <1>1, <1>3 DEF Contexts
<1>5. hid \in Meanings
  BY <1>2, <1>3 DEF Meanings
<1>6. SameUsages(ctx, hid)
  BY <1>1, <1>2 DEF SameUsages
<1>7. SameReports(ctx, hid)
  BY <1>1, <1>2 DEF SameReports, Report
<1>8. Agree(ctx, hid)
  BY <1>1, <1>2, <1>6, <1>7 DEF Agree
<1>9. phase = "parsing"
  BY DEF Init
<1> QED BY <1>4, <1>5, <1>8, <1>9 DEF DInv

\* An item, and the end of the descriptor.
LEMMA ParseStep ==
  ASSUME DInv, Parse
  PROVE  DInv'
<1>1. CASE parse_report_descriptor
  <2>1. PICK item \in Items :
          /\ ctx' = parse_item(ctx, item)
          /\ hid' = IF hid.canonical THEN Meaning(hid, item) ELSE hid
    BY <1>1 DEF parse_report_descriptor
  <2>2. phase = "parsing" /\ phase' = phase /\ ~ctx.fatal_error
    BY <1>1 DEF parse_report_descriptor
  <2>3. ctx \in Contexts /\ hid \in Meanings
    BY DEF DInv
  <2>4. ctx' \in Contexts /\ Meaning(hid, item) \in Meanings
    BY <2>1, <2>3, ItemTyped
  <2>5. hid' \in Meanings
    BY <2>1, <2>3, <2>4
  <2>6. hid.canonical \in BOOLEAN /\ ctx.fatal_error \in BOOLEAN
    BY <2>3 DEF Contexts, Meanings
  <2>7. ASSUME ctx'.fatal_error = FALSE, hid'.canonical = TRUE PROVE Agree(ctx', hid')
    <3>1. hid.canonical
      BY <2>1, <2>6, <2>7
    <3>2. hid' = Meaning(hid, item)
      BY <2>1, <3>1
    <3>3. Agree(ctx, hid)
      BY <2>2, <2>6, <3>1 DEF DInv
    <3> QED BY <2>1, <2>3, <2>7, <3>2, <3>3, AgreeStep
  <2>8. Agree(ctx', hid') <=> Agree(ctx, hid)'
    BY DEF Agree, SameUsages, SameReports, CountTaken, Length, Bits
  <2> QED BY <2>2, <2>4, <2>5, <2>7, <2>8 DEF DInv
<1>2. CASE mccr_parse_report_descriptor
  <2>1. ctx' = [ctx EXCEPT !.report_size = 0, !.wip = <<>>, !.INPUT = <<>>, !.FEATURE = <<>>]
    BY <1>2 DEF mccr_parse_report_descriptor
  <2>2. ctx \in Contexts /\ hid \in Meanings /\ phase = "parsing"
    BY <1>2 DEF DInv, mccr_parse_report_descriptor
  <2>3. <<>> \in Seq(Plain) /\ <<>> \in Seq(Ids)
    OBVIOUS
  <2>4. ctx' \in Contexts
    BY <2>1, <2>2, <2>3 DEF Contexts
  <2>5. CASE phase' = "failed" /\ UNCHANGED hid
    BY <2>2, <2>4, <2>5 DEF DInv
  <2>6. CASE /\ ~ctx.fatal_error /\ ~Fails(ctx.INPUT) /\ ~Fails(ctx.FEATURE)
             /\ phase' = "parsed" /\ input' = process_report(ctx.INPUT)
             /\ feature' = process_report(ctx.FEATURE)
             /\ hid' = [hid EXCEPT !.size = 0, !.count = 0, !.usages = <<>>, !.sized = FALSE]
    <3>1. hid' \in Meanings /\ hid'.canonical = hid.canonical
          /\ hid'.INPUT = hid.INPUT /\ hid'.FEATURE = hid.FEATURE
      <4>1. \A us \in Seq(Ids) :
              LET x == [hid EXCEPT !.size = 0, !.count = 0, !.usages = us, !.sized = FALSE] IN
              /\ x \in Meanings /\ x.canonical = hid.canonical
              /\ x.INPUT = hid.INPUT /\ x.FEATURE = hid.FEATURE
        BY <2>2 DEF Meanings
      <4> QED BY <2>3, <2>6, <4>1
    <3>2. ASSUME hid.canonical = TRUE
          PROVE  /\ SameLayout(input', hid.INPUT) /\ SameLayout(feature', hid.FEATURE)
                 /\ Length(hid.INPUT) < Word =>
                      /\ input'.size \in Nat /\ input'.size >= 1
                      /\ DOMAIN input'.usages = 1 .. Len(hid.INPUT)
      <4>1. ctx.fatal_error = FALSE
        BY <2>2, <2>6 DEF Contexts
      <4>2. SameReports(ctx, hid)
        BY <2>2, <3>2, <4>1 DEF DInv, Agree
      <4>3. /\ Length(hid.INPUT) < Word => ctx.INPUT = hid.INPUT
            /\ Length(hid.FEATURE) < Word => ctx.FEATURE = hid.FEATURE
            /\ \A i \in 1 .. Len(hid.INPUT) : hid.INPUT[i].size >= 1
            /\ \A i \in 1 .. Len(hid.FEATURE) : hid.FEATURE[i].size >= 1
        BY <4>2 DEF SameReports, Report
      <4>4. hid.INPUT \in Seq(Plain) /\ hid.FEATURE \in Seq(Plain)
        BY <2>2 DEF Meanings
      <4>5. /\ SameLayout(input', hid.INPUT)
            /\ Length(hid.INPUT) < Word =>
                 /\ input'.size \in Nat /\ input'.size >= 1
                 /\ DOMAIN input'.usages = 1 .. Len(hid.INPUT)
        BY <2>6, <4>3, <4>4, LayoutMeant
      <4>6. SameLayout(feature', hid.FEATURE)
        BY <2>6, <4>3, <4>4, LayoutMeant
      <4> QED BY <4>5, <4>6
    <3>3. /\ SameLayout(input', hid.INPUT) = SameLayout(input, hid.INPUT)'
          /\ SameLayout(feature', hid.FEATURE) = SameLayout(feature, hid.FEATURE)'
          /\ Length(hid.INPUT)' = Length(hid.INPUT)
      BY <3>1 DEF SameLayout, Length, Before, Bits
    <3> QED BY <2>4, <2>6, <3>1, <3>2, <3>3 DEF DInv
  <2> QED BY <1>2, <2>5, <2>6 DEF mccr_parse_report_descriptor
<1> QED BY <1>1, <1>2 DEF Parse

\* A step of the reader or of the receive leaves the descriptor alone.
LEMMA DescriptorKept == ASSUME DInv, UNCHANGED descriptor PROVE DInv'
<1>1. ctx' = ctx /\ input' = input /\ feature' = feature /\ phase' = phase /\ hid' = hid
  BY DEF descriptor
<1>2. Agree(ctx, hid)' <=> Agree(ctx, hid)
  BY <1>1 DEF Agree, SameUsages, SameReports, CountTaken, Length, Bits
<1>3. /\ SameLayout(input, hid.INPUT)' <=> SameLayout(input, hid.INPUT)
      /\ SameLayout(feature, hid.FEATURE)' <=> SameLayout(feature, hid.FEATURE)
      /\ Length(hid.INPUT)' = Length(hid.INPUT)
  BY <1>1 DEF SameLayout, Length, Before, Bits
<1> QED BY <1>1, <1>2, <1>3 DEF DInv

-----------------------------------------------------------------------------
(* Bytes of reports of L bytes, in line. *)

\* Byte b is sent next after byte a.
Follows(a, b, L) == b = IF a[2] = L THEN <<a[1] + 1, 1>> ELSE <<a[1], a[2] + 1>>

\* The bytes of whole reports up to the n-th, perhaps without the last ones.
InStep(s, L, n) ==
  /\ s \in Seq((1 .. n) \X (1 .. L))
  /\ s # <<>> => s[1][2] = 1
  /\ \A j \in 1 .. (Len(s) - 1) : Follows(s[j], s[j + 1], L)

EndsWith(s, e) == s # <<>> => s[Len(s)] = e

\* The first L bytes are those of one report.
LEMMA FirstReport ==
  ASSUME NEW L \in Nat, NEW n \in Nat, NEW s, InStep(s, L, n), s # <<>>
  PROVE  /\ s[1][1] \in 1 .. n
         /\ \A k \in 1 .. Len(s) : k <= L => s[k] = <<s[1][1], k>>
<1> DEFINE S == {k \in Nat : k + 1 <= Len(s) /\ k + 1 <= L => s[k + 1] = <<s[1][1], k + 1>>}
<1>1. /\ s \in Seq((1 .. n) \X (1 .. L)) /\ s[1][2] = 1
      /\ \A j \in 1 .. (Len(s) - 1) : Follows(s[j], s[j + 1], L)
  BY DEF InStep
<1>2. PICK m \in Nat \ {0} : m = Len(s)
  BY <1>1, EmptySeq
<1>3. \A j \in 1 .. m : s[j] \in (1 .. n) \X (1 .. L)
  BY <1>1, <1>2, ElementOfSeq
<1>4. s[1] \in (1 .. n) \X (1 .. L)
  BY <1>3
<1>5. 0 \in S
  BY <1>1, <1>4
<1>6. ASSUME NEW k \in Nat, k \in S PROVE k + 1 \in S
  <2> SUFFICES ASSUME (k + 1) + 1 <= Len(s), (k + 1) + 1 <= L
               PROVE  s[(k + 1) + 1] = <<s[1][1], (k + 1) + 1>>
    OBVIOUS
  <2>1. s[k + 1] = <<s[1][1], k + 1>>
    BY <1>2, <1>6
  <2>2. k + 1 \in 1 .. (Len(s) - 1)
    BY <1>2
  <2>3. Follows(s[k + 1], s[(k + 1) + 1], L)
    BY <1>1, <2>2
  <2>4. s[k + 1][2] = k + 1 /\ s[k + 1][1] = s[1][1] /\ k + 1 # L
    BY <2>1
  <2> QED BY <2>3, <2>4 DEF Follows
<1> HIDE DEF S
<1>7. Nat \subseteq S
  BY <1>5, <1>6, SetInduction, Zenon
<1>8. ASSUME NEW k \in 1 .. Len(s), k <= L PROVE s[k] = <<s[1][1], k>>
  <2>1. k - 1 \in S /\ (k - 1) + 1 = k
    BY <1>2, <1>7
  <2> QED BY <1>8, <2>1 DEF S
<1> QED BY <1>4, <1>8

\* The first bytes of a line are a line.
LEMMA LineTaken ==
  ASSUME NEW L \in Nat, NEW n \in Nat, NEW T, NEW a \in Seq(T), NEW b \in Seq(T),
         InStep(a \o b, L, n)
  PROVE  InStep(a, L, n)
<1>1. PICK p \in Nat : p = Len(a)
  OBVIOUS
<1>2. PICK q \in Nat : q = Len(b)
  OBVIOUS
<1>3. Len(a \o b) = p + q
  BY <1>1, <1>2, ConcatProperties
<1>4. \A i \in 1 .. p : (a \o b)[i] = a[i]
  <2>1. \A i \in 1 .. p : i \in 1 .. (Len(a) + Len(b)) /\ i <= Len(a)
    BY <1>1, <1>2
  <2>2. \A i \in 1 .. (Len(a) + Len(b)) :
          (a \o b)[i] = IF i <= Len(a) THEN a[i] ELSE b[i - Len(a)]
    BY ConcatProperties
  <2> QED BY <2>1, <2>2
<1>5. \A i \in 1 .. p : (a \o b)[i] \in (1 .. n) \X (1 .. L)
  BY <1>3, ElementOfSeq, SMTT(40) DEF InStep
<1>6. a \in Seq((1 .. n) \X (1 .. L))
  BY <1>1, <1>4, <1>5
<1>7. a # <<>> => a[1][2] = 1
  <2> SUFFICES ASSUME a # <<>> PROVE a[1][2] = 1
    OBVIOUS
  <2>1. p >= 1
    BY <1>1, EmptySeq
  <2>2. a \o b # <<>>
    BY <1>3, <2>1
  <2> QED BY <1>4, <2>1, <2>2 DEF InStep
<1>8. ASSUME NEW j \in 1 .. (p - 1) PROVE Follows(a[j], a[j + 1], L)
  <2>1. j \in 1 .. (Len(a \o b) - 1) /\ j \in 1 .. p /\ j + 1 \in 1 .. p
    BY <1>3
  <2> QED BY <1>4, <2>1 DEF InStep
<1> QED BY <1>1, <1>6, <1>7, <1>8 DEF InStep

\* What comes after a whole report begins with the next one.
LEMMA LineDropped ==
  ASSUME NEW L \in Nat, NEW n \in Nat, NEW T, NEW a \in Seq(T), NEW b \in Seq(T),
         InStep(a \o b, L, n), Len(a) \in {0, L}, L >= 1
  PROVE  InStep(b, L, n)
<1>1. PICK p \in Nat : p = Len(a)
  OBVIOUS
<1>2. PICK q \in Nat : q = Len(b)
  OBVIOUS
<1> DEFINE s == a \o b
<1>3. Len(s) = p + q
  BY <1>1, <1>2, ConcatProperties
<1>4. \A i \in 1 .. q : s[p + i] = b[i]
  <2>1. \A i \in 1 .. q : p + i \in 1 .. (Len(a) + Len(b)) /\ ~(p + i <= Len(a))
                          /\ (p + i) - Len(a) = i
    BY <1>1, <1>2
  <2>2. \A i \in 1 .. (Len(a) + Len(b)) :
          s[i] = IF i <= Len(a) THEN a[i] ELSE b[i - Len(a)]
    BY ConcatProperties
  <2> QED BY <2>1, <2>2
<1> HIDE DEF s
<1>5. InStep(s, L, n)
  BY DEF s
<1>6. \A i \in 1 .. q : s[p + i] \in (1 .. n) \X (1 .. L)
  <2> TAKE i \in 1 .. q
  <2>1. p + i \in 1 .. Len(s)
    BY <1>3
  <2> QED BY <1>5, <2>1, ElementOfSeq DEF InStep
<1>7. b \in Seq((1 .. n) \X (1 .. L))
  <2>1. \A i \in 1 .. q : b[i] \in (1 .. n) \X (1 .. L)
    BY <1>4, <1>6
  <2> QED BY <1>2, <2>1
<1>8. b # <<>> => b[1][2] = 1
  <2> SUFFICES ASSUME b # <<>> PROVE b[1][2] = 1
    OBVIOUS
  <2>1. q >= 1
    BY <1>2, EmptySeq
  <2>2. s # <<>> /\ b[1] = s[p + 1]
    BY <1>3, <1>4, <2>1
  <2>3. CASE p = 0
    BY <1>5, <2>2, <2>3 DEF InStep
  <2>4. CASE p = L
    <3>1. p \in 1 .. Len(s) /\ p \in 1 .. (Len(s) - 1)
      BY <1>3, <2>1, <2>4
    <3>2. s[p] = <<s[1][1], L>>
      BY <1>5, <2>2, <2>4, <3>1, FirstReport
    <3>3. Follows(s[p], s[p + 1], L)
      BY <1>5, <3>1 DEF InStep
    <3> QED BY <2>2, <3>2, <3>3 DEF Follows
  <2> QED BY <1>1, <2>3, <2>4
<1>9. ASSUME NEW j \in 1 .. (q - 1) PROVE Follows(b[j], b[j + 1], L)
  <2>1. p + j \in 1 .. (Len(s) - 1) /\ j \in 1 .. q /\ j + 1 \in 1 .. q
        /\ (p + j) + 1 = p + (j + 1)
    BY <1>3
  <2>2. Follows(s[p + j], s[(p + j) + 1], L)
    BY <1>5, <2>1 DEF InStep
  <2> QED BY <1>4, <2>1, <2>2
<1> QED BY <1>2, <1>7, <1>8, <1>9 DEF InStep

\* The next report follows what ends with the one before.
LEMMA LineSwiped ==
  ASSUME NEW L \in Nat, NEW n \in Nat, NEW s, InStep(s, L, n), EndsWith(s, <<n, L>>), L >= 1,
         NEW r, r = [k \in 1 .. L |-> <<n + 1, k>>]
  PROVE  InStep(s \o r, L, n + 1) /\ EndsWith(s \o r, <<n + 1, L>>)
<1> DEFINE B == (1 .. (n + 1)) \X (1 .. L)
           t == s \o r
<1>1. \A k \in 1 .. L : <<n + 1, k>> \in B
  OBVIOUS
<1>2. r \in Seq(B) /\ Len(r) = L
  BY <1>1
<1>3. PICK p \in Nat : p = Len(s)
  BY DEF InStep
<1>4. \A i \in 1 .. p : s[i] \in (1 .. n) \X (1 .. L)
  BY <1>3, ElementOfSeq DEF InStep
<1>5. s \in Seq(B)
  <2>1. \A i \in 1 .. p : s[i] \in B
    BY <1>4
  <2> QED BY <1>3, <2>1 DEF InStep
<1> HIDE DEF B
<1>6. t \in Seq(B) /\ Len(t) = p + L
  BY <1>2, <1>3, <1>5, ConcatProperties
<1>7. \A i \in 1 .. (p + L) : t[i] = IF i <= p THEN s[i] ELSE r[i - p]
  <2>1. \A i \in 1 .. (Len(s) + Len(r)) : t[i] = IF i <= Len(s) THEN s[i] ELSE r[i - Len(s)]
    BY <1>2, <1>5, ConcatProperties
  <2> QED BY <1>2, <1>3, <2>1
<1> HIDE DEF t
<1>8. /\ \A i \in 1 .. p : t[i] = s[i]
      /\ \A k \in 1 .. L : t[p + k] = <<n + 1, k>>
  <2>1. ASSUME NEW i \in 1 .. p PROVE t[i] = s[i]
    <3>1. i \in 1 .. (p + L) /\ i <= p
      OBVIOUS
    <3> QED BY <1>7, <3>1
  <2>2. ASSUME NEW k \in 1 .. L PROVE t[p + k] = <<n + 1, k>>
    <3>1. p + k \in 1 .. (p + L) /\ ~(p + k <= p) /\ (p + k) - p = k
      OBVIOUS
    <3> QED BY <1>7, <3>1
  <2> QED BY <2>1, <2>2
<1>9. t[1][2] = 1
  <2>1. CASE p = 0
    BY <1>8, <2>1
  <2>2. CASE p # 0
    <3>1. s # <<>> /\ 1 \in 1 .. p
      BY <1>3, <2>2
    <3> QED BY <1>8, <3>1 DEF InStep
  <2> QED BY <2>1, <2>2
<1>10. ASSUME NEW j \in 1 .. ((p + L) - 1) PROVE Follows(t[j], t[j + 1], L)
  <2>1. CASE j < p
    <3>1. j \in 1 .. (Len(s) - 1) /\ j \in 1 .. p /\ j + 1 \in 1 .. p
      BY <1>3, <2>1
    <3> QED BY <1>8, <3>1 DEF InStep
  <2>2. CASE j = p
    <3>1. s # <<>> /\ p \in 1 .. p /\ 1 \in 1 .. L
      BY <1>3, <2>2
    <3>2. t[j] = <<n, L>> /\ t[j + 1] = <<n + 1, 1>>
      BY <1>3, <1>8, <2>2, <3>1 DEF EndsWith
    <3> QED BY <3>2 DEF Follows
  <2>3. CASE j > p
    <3>1. PICK k \in Nat : j = p + k
      BY <2>3
    <3>2. k \in 1 .. L /\ k + 1 \in 1 .. L /\ k # L /\ j + 1 = p + (k + 1)
      BY <2>3, <3>1
    <3>3. t[j] = <<n + 1, k>> /\ t[j + 1] = <<n + 1, k + 1>>
      BY <1>8, <3>1, <3>2
    <3> QED BY <3>2, <3>3 DEF Follows
  <2> QED BY <2>1, <2>2, <2>3
<1>11. InStep(t, L, n + 1)
  BY <1>6, <1>9, <1>10 DEF InStep, B
<1>12. EndsWith(t, <<n + 1, L>>)
  <2>1. L \in 1 .. L
    OBVIOUS
  <2> QED BY <1>6, <1>8, <2>1 DEF EndsWith
<1> QED BY <1>11, <1>12 DEF t

\* Sequences put together and cut.
LEMMA Assoc ==
  ASSUME NEW T, NEW a \in Seq(T), NEW b \in Seq(T), NEW c \in Seq(T)
  PROVE  (a \o b) \o c = a \o (b \o c)
BY ConcatAssociative

\* Bytes that move from one sequence to the next stay in place.
LEMMA Regroup ==
  ASSUME NEW T, NEW a \in Seq(T), NEW b \in Seq(T), NEW c \in Seq(T), NEW d \in Seq(T)
  PROVE  (a \o b) \o (c \o d) = a \o ((b \o c) \o d)
<1>1. PICK e \in Seq(T) : e = c \o d
  BY ConcatProperties
<1>2. (a \o b) \o e = a \o (b \o e)
  BY Assoc, SMTT(40)
<1>3. (b \o c) \o d = b \o (c \o d)
  BY Assoc, SMTT(40)
<1> QED BY <1>1, <1>2, <1>3

\* One byte is sent.
LEMMA MoveHead ==
  ASSUME NEW T, NEW w \in Seq(T), NEW u \in Seq(T), u # <<>>
  PROVE  Append(w, Head(u)) \o Tail(u) = w \o u
<1>1. Head(u) \in T /\ Tail(u) \in Seq(T) /\ <<Head(u)>> \in Seq(T)
  OBVIOUS
<1>2. Append(w, Head(u)) = w \o <<Head(u)>>
  BY <1>1, AppendIsConcat
<1>3. (w \o <<Head(u)>>) \o Tail(u) = w \o (<<Head(u)>> \o Tail(u))
  BY <1>1, ConcatAssociative
<1>4. <<Head(u)>> \o Tail(u) = u
  <2> DEFINE v == <<Head(u)>> \o Tail(u)
  <2>1. v \in Seq(T) /\ Len(v) = Len(u) /\ \A i \in 1 .. Len(v) : v[i] = u[i]
    BY <1>1, HeadTailProperties
  <2> QED BY <2>1, SeqEqual
<1> QED BY <1>2, <1>3, <1>4

\* A read takes the first n bytes.
LEMMA Cut ==
  ASSUME NEW T, NEW w \in Seq(T), NEW n \in 1 .. Len(w)
  PROVE  /\ SubSeq(w, 1, n) \in Seq(T) /\ Len(SubSeq(w, 1, n)) = n
         /\ SubSeq(w, n + 1, Len(w)) \in Seq(T)
         /\ SubSeq(w, 1, n) \o SubSeq(w, n + 1, Len(w)) = w
<1>1. Len(w) \in Nat /\ n \in Nat /\ \A i \in 1 .. Len(w) : w[i] \in T
  BY ElementOfSeq
<1>2. SubSeq(w, 1, n) \in Seq(T) /\ Len(SubSeq(w, 1, n)) = n
  <2>1. \A i \in 1 .. n : w[i] \in T
    BY <1>1
  <2> QED BY <1>1, <2>1, SubSeqProperties
<1>3. SubSeq(w, n + 1, Len(w)) \in Seq(T)
  <2>1. \A i \in (n + 1) .. Len(w) : w[i] \in T
    BY <1>1
  <2> QED BY <1>1, <2>1, SubSeqProperties
<1>4. SubSeq(w, 1, n) \o SubSeq(w, n + 1, Len(w)) = SubSeq(w, 1, Len(w))
  <2>1. 1 \in 1 .. (Len(w) + 1) /\ n \in (1 - 1) .. Len(w) /\ Len(w) \in n .. Len(w)
    BY <1>1
  <2> QED BY <2>1, ConcatAdjacentSubSeq
<1>5. SubSeq(w, 1, Len(w)) = w
  BY SubSeqFull
<1> QED BY <1>2, <1>3, <1>4, <1>5

-----------------------------------------------------------------------------
(* The reader, the receive and what is between them. *)

\* A byte is named by its swipe and its place.
Byte == Nat \X Nat
Bytewise == Seq(Byte)

\* What was sent and not yet dropped, and what is to be sent.
Stream == data \o (wire \o unsent)

\* As long as the reader was never late, what there is are whole reports in
\* line, cut short only by unplugging, and a receive stops between two reports.
ReportsInLine ==
  /\ InStep(Stream, input.size, swipes)
  /\ gone = FALSE => EndsWith(Stream, <<swipes, input.size>>)
  /\ status = "reading" => Len(data) < input.size
  /\ status = "OK" => Len(data) = input.size
  /\ status # "reading" => Len(data) \in {0, input.size} \/ (gone = TRUE /\ wire = <<>>)

\* The bytes between the reader and the report.
StreamInv ==
  /\ data \in Bytewise /\ wire \in Bytewise /\ unsent \in Bytewise
  /\ swipes \in Nat /\ gone \in BOOLEAN /\ late \in BOOLEAN
  /\ ~Open => /\ data = <<>> /\ wire = <<>> /\ unsent = <<>>
              /\ swipes = 0 /\ status = "none" /\ gone = FALSE
  /\ gone = TRUE => unsent = <<>>
  /\ Open /\ Regular /\ late = FALSE => ReportsInLine

\* A usual descriptor that was parsed gives the size of a report.
LEMMA RegularSize ==
  ASSUME DInv, Open, Regular
  PROVE  /\ input.size \in Nat /\ input.size >= 1 /\ Length(hid.INPUT) \div 8 = input.size
         /\ SameLayout(input, hid.INPUT)
<1>1. hid.canonical = TRUE
  BY DEF Regular, DInv, Meanings
<1>2. SameLayout(input, hid.INPUT) /\ input.size \in Nat /\ input.size >= 1
  BY <1>1 DEF DInv, Open, Regular
<1>3. input.size * 8 = Length(hid.INPUT)
  BY <1>2 DEF SameLayout, Regular
<1> QED BY <1>2, <1>3

\* No bytes are in line.
LEMMA EmptyLine == ASSUME NEW L, NEW n, NEW e PROVE InStep(<<>>, L, n) /\ EndsWith(<<>>, e)
<1>1. <<>> \in Seq((1 .. n) \X (1 .. L)) /\ Len(<<>>) = 0
  OBVIOUS
<1>2. \A j \in 1 .. (Len(<<>>) - 1) : FALSE
  BY <1>1
<1> QED BY <1>1, <1>2 DEF InStep, EndsWith

\* The bytes on their way are bytes.
LEMMA StreamTyped ==
  ASSUME StreamInv
  PROVE  wire \o unsent \in Bytewise /\ Stream \in Bytewise
BY ConcatProperties DEF StreamInv, Stream, Bytewise

\* At first there are none.
LEMMA StreamInit == ASSUME SInit PROVE StreamInv
<1>1. <<>> \in Bytewise
  BY DEF Bytewise
<1>2. phase = "parsing"
  BY DEF SInit, Init
<1> QED BY <1>1, <1>2 DEF SInit, StreamInv, Open

\* The descriptor was parsed.
LEMMA StreamParsed ==
  ASSUME StreamInv, Parse, UNCHANGED <<reader, data, status, timeout>>, DInv'
  PROVE  StreamInv'
<1>1. phase = "parsing"
  BY DEF Parse, parse_report_descriptor, mccr_parse_report_descriptor
<1>2. /\ data = <<>> /\ wire = <<>> /\ unsent = <<>> /\ swipes = 0 /\ status = "none"
      /\ gone = FALSE
  BY <1>1 DEF StreamInv, Open
<1>3. /\ data' = data /\ wire' = wire /\ unsent' = unsent /\ swipes' = swipes
      /\ status' = status /\ gone' = gone /\ late' = late
  BY DEF reader
<1>4. ASSUME Open', Regular' PROVE ReportsInLine'
  <2>1. Stream' = <<>>
    <3>1. <<>> \in Seq({})
      OBVIOUS
    <3>2. <<>> \o <<>> = <<>>
      BY <3>1, ConcatEmptySeq
    <3> QED BY <1>2, <1>3, <3>2 DEF Stream
  <2>2. InStep(Stream', input'.size, swipes') /\ EndsWith(Stream', <<swipes', input'.size>>)
    BY <2>1, EmptyLine
  <2>3. InStep(Stream, input.size, swipes)' /\ EndsWith(Stream, <<swipes, input.size>>)'
    BY <2>2 DEF InStep, EndsWith, Follows
  <2>4. status' = "none" /\ Len(data') = 0
    BY <1>2, <1>3
  <2> QED BY <2>3, <2>4 DEF ReportsInLine
<1> QED BY <1>2, <1>3, <1>4 DEF StreamInv

\* What a step has to keep once the descriptor was parsed.
LEMMA StreamGoesOn ==
  ASSUME Open', data' \in Bytewise, wire' \in Bytewise, unsent' \in Bytewise,
         swipes' \in Nat, gone' \in BOOLEAN, late' \in BOOLEAN,
         gone' = TRUE => unsent' = <<>>, Regular' /\ late' = FALSE => ReportsInLine'
  PROVE  StreamInv'
BY Zenon DEF StreamInv

\* A card is swiped: one more report is to be sent.
LEMMA StreamSwipe ==
  ASSUME StreamInv, DInv, Swipe
  PROVE  StreamInv'
<1>1. /\ Open /\ Regular /\ gone = FALSE /\ unsent = <<>>
      /\ swipes' = swipes + 1
      /\ unsent' = [k \in 1 .. (Length(hid.INPUT) \div 8) |-> <<swipes', k>>]
      /\ data' = data /\ wire' = wire /\ gone' = gone /\ late' = late /\ status' = status
      /\ ctx' = ctx /\ input' = input /\ feature' = feature /\ phase' = phase /\ hid' = hid
  BY DEF Swipe, descriptor, StreamInv
<1>2. PICK L \in Nat : L = input.size /\ L >= 1 /\ Length(hid.INPUT) \div 8 = L
  BY <1>1, RegularSize
<1>3. PICK n \in Nat : n = swipes
  BY DEF StreamInv
<1>4. unsent' = [k \in 1 .. L |-> <<n + 1, k>>]
  BY <1>1, <1>2, <1>3
<1>5. unsent' \in Bytewise
  <2>1. \A k \in 1 .. L : <<n + 1, k>> \in Nat \X Nat
    OBVIOUS
  <2> QED BY <1>4, <2>1 DEF Bytewise, Byte
<1>6. ASSUME late = FALSE PROVE ReportsInLine'
  <2>1. ReportsInLine
    BY <1>1, <1>6 DEF StreamInv
  <2> DEFINE s == data \o wire
             r == [k \in 1 .. L |-> <<n + 1, k>>]
  <2>2. Stream = s /\ Stream' = s \o r
    <3>1. data \in Seq(Byte) /\ wire \in Seq(Byte) /\ unsent' \in Seq(Byte)
      BY <1>5 DEF StreamInv, Bytewise
    <3>2. wire \o <<>> = wire
      BY <3>1, ConcatEmptySeq
    <3>3. PICK u \in Seq(Byte) : u = unsent'
      BY <3>1
    <3>4. (data \o wire) \o u = data \o (wire \o u)
      BY <3>1, Assoc
    <3> QED BY <1>1, <1>4, <3>2, <3>3, <3>4 DEF Stream
  <2> HIDE DEF s
  <2>3. InStep(s, L, n) /\ EndsWith(s, <<n, L>>)
    BY <1>1, <1>2, <1>3, <2>1, <2>2 DEF ReportsInLine
  <2>4. InStep(s \o r, L, n + 1) /\ EndsWith(s \o r, <<n + 1, L>>)
    BY <1>2, <2>3, LineSwiped
  <2> HIDE DEF r
  <2>5. InStep(Stream', input'.size, swipes') /\ EndsWith(Stream', <<swipes', input'.size>>)
    BY <1>1, <1>2, <1>3, <2>2, <2>4
  <2>6. InStep(Stream, input.size, swipes)' /\ EndsWith(Stream, <<swipes, input.size>>)'
    BY <2>5 DEF InStep, EndsWith, Follows
  <2> QED BY <1>1, <2>1, <2>6 DEF ReportsInLine
<1>7. Open'
  BY <1>1 DEF Open
<1>8. /\ data' \in Bytewise /\ wire' \in Bytewise /\ late' \in BOOLEAN /\ gone' \in BOOLEAN
      /\ swipes' \in Nat /\ gone' = FALSE
  BY <1>1 DEF StreamInv
<1> QED BY <1>1, <1>5, <1>6, <1>7, <1>8, StreamGoesOn

\* The line after a step that takes nothing from it and adds nothing to it.
LEMMA SameLine ==
  ASSUME ReportsInLine, Stream' = Stream, UNCHANGED <<input, swipes>>,
         gone' = FALSE => gone = FALSE
  PROVE  /\ InStep(Stream, input.size, swipes)'
         /\ gone' = FALSE => EndsWith(Stream, <<swipes, input.size>>)'
<1>1. InStep(Stream', input'.size, swipes')
  BY DEF ReportsInLine
<1>2. gone' = FALSE => EndsWith(Stream', <<swipes', input'.size>>)
  BY DEF ReportsInLine
<1> QED BY <1>1, <1>2 DEF InStep, EndsWith, Follows

\* The reader sends a byte.
LEMMA StreamSend ==
  ASSUME StreamInv, DInv, Send
  PROVE  StreamInv'
<1>1. /\ gone = FALSE /\ unsent # <<>>
      /\ wire' = Append(wire, Head(unsent)) /\ unsent' = Tail(unsent)
      /\ data' = data /\ gone' = gone /\ late' = late /\ status' = status /\ swipes' = swipes
      /\ ctx' = ctx /\ input' = input /\ feature' = feature /\ phase' = phase /\ hid' = hid
  BY DEF Send, descriptor, StreamInv
<1>2. Open /\ Open'
  BY <1>1 DEF StreamInv, Open
<1>3. data \in Seq(Byte) /\ wire \in Seq(Byte) /\ unsent \in Seq(Byte)
  BY DEF StreamInv, Bytewise
<1>4. Head(unsent) \in Byte /\ Tail(unsent) \in Seq(Byte)
  BY <1>1, <1>3, HeadTailProperties
<1>5. wire' \in Bytewise /\ unsent' \in Bytewise
  BY <1>1, <1>3, <1>4, AppendProperties DEF Bytewise
<1>6. Append(wire, Head(unsent)) \o Tail(unsent) = wire \o unsent
  BY <1>1, <1>3, MoveHead
<1>7. Stream' = Stream
  BY <1>1, <1>6 DEF Stream
<1>8. ASSUME Regular', late' = FALSE PROVE ReportsInLine'
  <2>1. Regular
    BY <1>1, <1>8 DEF Regular, Length, Bits
  <2>2. ReportsInLine
    BY <1>1, <1>2, <1>8, <2>1 DEF StreamInv
  <2>3. /\ InStep(Stream, input.size, swipes)'
        /\ gone' = FALSE => EndsWith(Stream, <<swipes, input.size>>)'
    BY <1>1, <1>7, <2>2, SameLine
  <2> QED BY <1>1, <2>2, <2>3 DEF ReportsInLine
<1>9. /\ data' \in Bytewise /\ late' \in BOOLEAN /\ gone' \in BOOLEAN
      /\ swipes' \in Nat /\ gone' = FALSE
  BY <1>1 DEF StreamInv
<1> QED BY <1>2, <1>5, <1>8, <1>9, StreamGoesOn

\* The reader is unplugged: what it had still to send is lost.
LEMMA StreamUnplug ==
  ASSUME StreamInv, DInv, Unplug
  PROVE  StreamInv'
<1>1. /\ Open /\ gone = FALSE /\ gone' = TRUE /\ unsent' = <<>>
      /\ wire' = wire /\ data' = data /\ late' = late /\ status' = status /\ swipes' = swipes
      /\ ctx' = ctx /\ input' = input /\ feature' = feature /\ phase' = phase /\ hid' = hid
  BY DEF Unplug, descriptor, StreamInv
<1>2. Open'
  BY <1>1 DEF Open
<1>3. data \in Seq(Byte) /\ wire \in Seq(Byte) /\ unsent \in Seq(Byte)
  BY DEF StreamInv, Bytewise
<1>4. unsent' \in Bytewise
  BY <1>1 DEF Bytewise
<1>5. ASSUME Regular', late' = FALSE PROVE ReportsInLine'
  <2>1. Regular
    BY <1>1, <1>5 DEF Regular, Length, Bits
  <2>2. ReportsInLine
    BY <1>1, <1>5, <2>1 DEF StreamInv
  <2>3. PICK L \in Nat : L = input.size
    BY <1>1, <2>1, RegularSize
  <2>4. PICK n \in Nat : n = swipes
    BY DEF StreamInv
  <2> DEFINE a == data \o wire
  <2>5. Stream' = a
    <3>1. wire \o <<>> = wire
      BY <1>3, ConcatEmptySeq
    <3> QED BY <1>1, <3>1 DEF Stream
  <2>6. Stream = a \o unsent /\ a \in Seq(Byte)
    <3>1. (data \o wire) \o unsent = data \o (wire \o unsent)
      BY <1>3, Assoc
    <3>2. a \in Seq(Byte)
      BY <1>3, ConcatProperties
    <3> QED BY <3>1, <3>2 DEF Stream
  <2> HIDE DEF a
  <2>7. InStep(a \o unsent, L, n)
    BY <2>2, <2>3, <2>4, <2>6 DEF ReportsInLine
  <2>8. InStep(a, L, n)
    BY <1>3, <2>6, <2>7, LineTaken
  <2>9. InStep(Stream', input'.size, swipes')
    BY <1>1, <2>3, <2>4, <2>5, <2>8
  <2>10. InStep(Stream, input.size, swipes)'
    BY <2>9 DEF InStep, Follows
  <2> QED BY <1>1, <2>2, <2>10 DEF ReportsInLine
<1>6. /\ data' \in Bytewise /\ wire' \in Bytewise /\ late' \in BOOLEAN /\ gone' \in BOOLEAN
      /\ swipes' \in Nat
  BY <1>1 DEF StreamInv
<1> QED BY <1>1, <1>2, <1>4, <1>5, <1>6, StreamGoesOn

\* The rest of a line ends as the line does.
LEMMA EndsAfter ==
  ASSUME NEW T, NEW a \in Seq(T), NEW b \in Seq(T), NEW e, EndsWith(a \o b, e)
  PROVE  EndsWith(b, e)
<1> SUFFICES ASSUME b # <<>> PROVE b[Len(b)] = e
  BY DEF EndsWith
<1>1. PICK p \in Nat : p = Len(a)
  OBVIOUS
<1>2. PICK q \in Nat \ {0} : q = Len(b)
  BY EmptySeq
<1> DEFINE t == a \o b
<1>3. t \in Seq(T) /\ Len(t) = p + q
  BY <1>1, <1>2, ConcatProperties
<1>4. \A i \in 1 .. (Len(a) + Len(b)) : t[i] = IF i <= Len(a) THEN a[i] ELSE b[i - Len(a)]
  BY ConcatProperties
<1> HIDE DEF t
<1>5. t # <<>>
  BY <1>2, <1>3
<1>6. t[p + q] = e
  BY <1>3, <1>5 DEF EndsWith, t
<1>7. p + q \in 1 .. (p + q) /\ ~(p + q <= p) /\ (p + q) - p = q
  BY <1>2
<1>8. t[p + q] = b[q]
  BY <1>1, <1>2, <1>4, <1>7
<1> QED BY <1>2, <1>6, <1>8

\* A receive starts with a new report.
LEMMA StreamWait ==
  ASSUME StreamInv, DInv, mccr_device_wait_swipe_report
  PROVE  StreamInv'
<1>1. /\ Open /\ status # "reading" /\ status' = "reading" /\ data' = <<>>
      /\ wire' = wire /\ unsent' = unsent /\ gone' = gone /\ late' = late /\ swipes' = swipes
      /\ ctx' = ctx /\ input' = input /\ feature' = feature /\ phase' = phase /\ hid' = hid
  BY DEF mccr_device_wait_swipe_report, descriptor, reader
<1>2. Open'
  BY <1>1 DEF Open
<1>3. data \in Seq(Byte) /\ wire \in Seq(Byte) /\ unsent \in Seq(Byte)
  BY DEF StreamInv, Bytewise
<1>4. wire \o unsent \in Seq(Byte) /\ data' \in Bytewise
  BY <1>1, <1>3, ConcatProperties DEF Bytewise
<1>5. ASSUME Regular', late' = FALSE PROVE ReportsInLine'
  <2>1. Regular
    BY <1>1, <1>5 DEF Regular, Length, Bits
  <2>2. ReportsInLine
    BY <1>1, <1>5, <2>1 DEF StreamInv
  <2>3. PICK L \in Nat : L = input.size /\ L >= 1
    BY <1>1, <2>1, RegularSize
  <2>4. PICK n \in Nat : n = swipes
    BY DEF StreamInv
  <2> DEFINE b == wire \o unsent
  <2>5. Stream' = b
    BY <1>1, <1>4, ConcatEmptySeq DEF Stream
  <2>6. Stream = data \o b
    BY DEF Stream
  <2>7. b \in Seq(Byte)
    BY <1>4
  <2>8. gone = TRUE /\ wire = <<>> => b = <<>>
    <3>1. gone = TRUE => unsent = <<>>
      BY DEF StreamInv
    <3>2. <<>> \o <<>> = <<>>
      BY <1>3, ConcatEmptySeq
    <3> QED BY <3>1, <3>2
  <2> HIDE DEF b
  <2>9. InStep(data \o b, L, n) /\ (gone = FALSE => EndsWith(data \o b, <<n, L>>))
    BY <2>2, <2>3, <2>4, <2>6 DEF ReportsInLine
  <2>10. InStep(b, L, n)
    <3>1. CASE Len(data) \in {0, L}
      BY <1>3, <2>3, <2>7, <2>9, <3>1, LineDropped
    <3>2. CASE gone = TRUE /\ wire = <<>>
      BY <2>8, <3>2, EmptyLine
    <3> QED BY <1>1, <2>2, <2>3, <3>1, <3>2 DEF ReportsInLine
  <2>11. gone = FALSE => EndsWith(b, <<n, L>>)
    BY <1>3, <2>7, <2>9, EndsAfter
  <2>12. InStep(Stream', input'.size, swipes')
    BY <1>1, <2>3, <2>4, <2>5, <2>10
  <2>13. gone' = FALSE => EndsWith(Stream', <<swipes', input'.size>>)
    BY <1>1, <2>3, <2>4, <2>5, <2>11
  <2>14. /\ InStep(Stream, input.size, swipes)'
         /\ (gone = FALSE => EndsWith(Stream, <<swipes, input.size>>))'
    BY <2>12, <2>13 DEF InStep, EndsWith, Follows
  <2>15. Len(data') < input'.size
    BY <1>1, <2>3
  <2> QED BY <1>1, <2>14, <2>15 DEF ReportsInLine
<1>6. /\ wire' \in Bytewise /\ unsent' \in Bytewise /\ late' \in BOOLEAN /\ gone' \in BOOLEAN
      /\ swipes' \in Nat /\ (gone' = TRUE => unsent' = <<>>)
  BY <1>1 DEF StreamInv
<1> QED BY <1>2, <1>4, <1>5, <1>6, StreamGoesOn

\* Some bytes are read.
LEMMA StreamReadSome ==
  ASSUME StreamInv, DInv, read_some
  PROVE  StreamInv'
<1>1. PICK n \in 1 .. Len(wire) :
        /\ n <= Missing
        /\ data' = data \o SubSeq(wire, 1, n)
        /\ wire' = SubSeq(wire, n + 1, Len(wire))
  BY DEF read_some
<1>2. /\ status = "reading" /\ unsent' = unsent
      /\ gone' = gone /\ late' = late /\ swipes' = swipes
      /\ status' = IF Len(data') = input.size THEN "OK" ELSE "reading"
      /\ ctx' = ctx /\ input' = input /\ feature' = feature /\ phase' = phase /\ hid' = hid
  BY DEF read_some, descriptor
<1>3. Open /\ Open'
  BY <1>2 DEF StreamInv, Open
<1>4. data \in Seq(Byte) /\ wire \in Seq(Byte) /\ unsent \in Seq(Byte)
  BY DEF StreamInv, Bytewise
<1> DEFINE s1 == SubSeq(wire, 1, n)
           s2 == SubSeq(wire, n + 1, Len(wire))
<1>5. s1 \in Seq(Byte) /\ s2 \in Seq(Byte) /\ Len(s1) = n /\ s1 \o s2 = wire
  BY <1>4, Cut
<1> HIDE DEF s1, s2
<1>6. data' = data \o s1 /\ wire' = s2
  BY <1>1 DEF s1, s2
<1>7. data \o s1 \in Seq(Byte) /\ Len(data \o s1) = Len(data) + n
  BY <1>4, <1>5, ConcatProperties
<1>8. data' \in Bytewise /\ wire' \in Bytewise
  BY <1>5, <1>6, <1>7 DEF Bytewise
<1>9. Stream' = Stream
  <2>1. data \in Seq(Byte) /\ s1 \in Seq(Byte) /\ s2 \in Seq(Byte) /\ unsent \in Seq(Byte)
    BY <1>4, <1>5
  <2>2. (data \o s1) \o (s2 \o unsent) = data \o ((s1 \o s2) \o unsent)
    BY <2>1, Regroup, SMTT(60)
  <2> QED BY <1>2, <1>5, <1>6, <2>2 DEF Stream
<1>10. ASSUME Regular', late' = FALSE PROVE ReportsInLine'
  <2>1. Regular
    BY <1>2, <1>10 DEF Regular, Length, Bits
  <2>2. ReportsInLine
    BY <1>2, <1>3, <1>10, <2>1 DEF StreamInv
  <2>3. PICK L \in Nat : L = input.size /\ L >= 1
    BY <1>3, <2>1, RegularSize
  <2>4. PICK d \in Nat : d = Len(data)
    BY <1>4
  <2>5. n \in Nat /\ n <= L - d
    BY <1>1, <1>4, <2>3, <2>4 DEF Missing
  <2>6. Len(data') = d + n /\ d + n <= L
    BY <1>6, <1>7, <2>3, <2>4, <2>5
  <2>7. /\ InStep(Stream, input.size, swipes)'
        /\ gone' = FALSE => EndsWith(Stream, <<swipes, input.size>>)'
    BY <1>2, <1>9, <2>2, SameLine
  <2>8. /\ status' = "reading" => Len(data') < input'.size
        /\ status' = "OK" => Len(data') = input'.size
        /\ status' \in {"reading", "OK"}
    BY <1>2, <2>3, <2>6
  <2> QED BY <2>7, <2>8 DEF ReportsInLine
<1>11. /\ unsent' \in Bytewise /\ late' \in BOOLEAN /\ gone' \in BOOLEAN
       /\ swipes' \in Nat /\ (gone' = TRUE => unsent' = <<>>)
  BY <1>2 DEF StreamInv
<1> QED BY <1>3, <1>8, <1>10, <1>11, StreamGoesOn

\* None is read in time: between two reports, unless the reader is late.
LEMMA StreamReadNothing ==
  ASSUME StreamInv, DInv, read_nothing
  PROVE  StreamInv'
<1>1. /\ status = "reading"
      /\ Missing = 0 \/ (wire = <<>> /\ gone = FALSE /\ (timeout \/ data # <<>>))
      /\ timeout /\ data = <<>> => status' = "TIMED_OUT"
      /\ late' = (late \/ unsent # <<>>)
      /\ data' = data /\ wire' = wire /\ unsent' = unsent /\ gone' = gone /\ swipes' = swipes
      /\ ctx' = ctx /\ input' = input /\ feature' = feature /\ phase' = phase /\ hid' = hid
  BY DEF read_nothing, descriptor, StreamInv
<1>2. Open /\ Open'
  BY <1>1 DEF StreamInv, Open
<1>3. data \in Seq(Byte) /\ wire \in Seq(Byte) /\ unsent \in Seq(Byte)
  BY DEF StreamInv, Bytewise
<1>4. ASSUME Regular', late' = FALSE PROVE ReportsInLine'
  <2>1. Regular
    BY <1>1, <1>4 DEF Regular, Length, Bits
  <2>2. late = FALSE /\ unsent = <<>>
    BY <1>1, <1>4 DEF StreamInv
  <2>3. ReportsInLine
    BY <1>2, <2>1, <2>2 DEF StreamInv
  <2>4. PICK L \in Nat : L = input.size /\ L >= 1
    BY <1>2, <2>1, RegularSize
  <2>5. PICK n \in Nat : n = swipes
    BY DEF StreamInv
  <2>6. PICK d \in Nat : d = Len(data)
    BY <1>3
  <2>7. d < L
    BY <1>1, <2>3, <2>4, <2>6 DEF ReportsInLine
  <2>8. wire = <<>> /\ gone = FALSE /\ (timeout \/ data # <<>>)
    BY <1>1, <2>4, <2>6, <2>7 DEF Missing
  <2>9. Stream = data
    <3>1. data \o <<>> = data
      BY <1>3, ConcatEmptySeq
    <3>2. wire \o unsent = <<>>
      BY <1>3, <2>2, <2>8, ConcatEmptySeq
    <3> QED BY <3>1, <3>2 DEF Stream
  <2>10. InStep(data, L, n) /\ EndsWith(data, <<n, L>>)
    BY <2>3, <2>4, <2>5, <2>8, <2>9 DEF ReportsInLine
  <2>11. data = <<>>
    <3> SUFFICES ASSUME data # <<>> PROVE FALSE
      OBVIOUS
    <3>1. d \in 1 .. d
      BY <1>3, <2>6, EmptySeq
    <3>2. data[d] = <<data[1][1], d>>
      BY <2>6, <2>7, <2>10, <3>1, FirstReport
    <3>3. data[d] = <<n, L>>
      BY <2>6, <2>10 DEF EndsWith
    <3> QED BY <2>7, <3>2, <3>3
  <2>12. status' = "TIMED_OUT" /\ Len(data') = 0
    BY <1>1, <2>8, <2>11
  <2>13. Stream' = Stream
    BY <1>1 DEF Stream
  <2>14. /\ InStep(Stream, input.size, swipes)'
         /\ gone' = FALSE => EndsWith(Stream, <<swipes, input.size>>)'
    BY <1>1, <2>3, <2>13, SameLine
  <2> QED BY <2>12, <2>14 DEF ReportsInLine
<1>5. /\ data' \in Bytewise /\ wire' \in Bytewise /\ unsent' \in Bytewise
      /\ late' \in BOOLEAN /\ gone' \in BOOLEAN
      /\ swipes' \in Nat /\ (gone' = TRUE => unsent' = <<>>)
  BY <1>1 DEF StreamInv
<1> QED BY <1>2, <1>4, <1>5, StreamGoesOn

\* The reader is gone.
LEMMA StreamReadFails ==
  ASSUME StreamInv, DInv, read_fails
  PROVE  StreamInv'
<1>1. /\ status = "reading" /\ gone = TRUE /\ wire = <<>> /\ status' = "REPORT_FAILED"
      /\ data' = data /\ wire' = wire /\ unsent' = unsent /\ gone' = gone /\ swipes' = swipes
      /\ late' = late
      /\ ctx' = ctx /\ input' = input /\ feature' = feature /\ phase' = phase /\ hid' = hid
  BY DEF read_fails, descriptor, reader, StreamInv
<1>2. Open /\ Open'
  BY <1>1 DEF StreamInv, Open
<1>3. ASSUME Regular', late' = FALSE PROVE ReportsInLine'
  <2>1. Regular
    BY <1>1, <1>3 DEF Regular, Length, Bits
  <2>2. ReportsInLine
    BY <1>1, <1>2, <1>3, <2>1 DEF StreamInv
  <2>3. Stream' = Stream
    BY <1>1 DEF Stream
  <2>4. /\ InStep(Stream, input.size, swipes)'
        /\ gone' = FALSE => EndsWith(Stream, <<swipes, input.size>>)'
    BY <1>1, <2>2, <2>3, SameLine
  <2> QED BY <1>1, <2>4 DEF ReportsInLine
<1>4. /\ data' \in Bytewise /\ wire' \in Bytewise /\ unsent' \in Bytewise
      /\ late' \in BOOLEAN /\ gone' \in BOOLEAN
      /\ swipes' \in Nat /\ (gone' = TRUE => unsent' = <<>>)
  BY <1>1 DEF StreamInv
<1> QED BY <1>2, <1>3, <1>4, StreamGoesOn

-----------------------------------------------------------------------------
Inv == DInv /\ StreamInv

\* The invariant holds at first.
LEMMA InvInit == ASSUME SInit PROVE Inv
<1>1. Init
  BY DEF SInit
<1> QED BY <1>1, DInit, StreamInit DEF Inv

\* Every step keeps it.
LEMMA InvNext == ASSUME Inv, [Next]_vars PROVE Inv'
<1>1. DInv /\ StreamInv
  BY DEF Inv
<1>2. CASE Parse /\ UNCHANGED <<reader, data, status, timeout>>
  BY <1>1, <1>2, ParseStep, StreamParsed DEF Inv
<1>3. CASE Swipe
  BY <1>1, <1>3, DescriptorKept, StreamSwipe DEF Inv, Swipe
<1>4. CASE Send
  BY <1>1, <1>4, DescriptorKept, StreamSend DEF Inv, Send
<1>5. CASE Unplug
  BY <1>1, <1>5, DescriptorKept, StreamUnplug DEF Inv, Unplug
<1>6. CASE mccr_device_wait_swipe_report
  BY <1>1, <1>6, DescriptorKept, StreamWait DEF Inv, mccr_device_wait_swipe_report
<1>7. CASE read_some
  BY <1>1, <1>7, DescriptorKept, StreamReadSome DEF Inv, read_some
<1>8. CASE read_nothing
  BY <1>1, <1>8, DescriptorKept, StreamReadNothing DEF Inv, read_nothing
<1>9. CASE read_fails
  BY <1>1, <1>9, DescriptorKept, StreamReadFails DEF Inv, read_fails
<1>10. CASE UNCHANGED vars
  <2>1. /\ UNCHANGED descriptor
        /\ data' = data /\ wire' = wire /\ unsent' = unsent /\ gone' = gone
        /\ swipes' = swipes /\ late' = late /\ status' = status
        /\ ctx' = ctx /\ input' = input /\ feature' = feature /\ phase' = phase /\ hid' = hid
    BY <1>10 DEF vars, reader, descriptor
  <2>2. StreamInv'
    BY <1>1, <2>1, ZenonT(60)
    DEF StreamInv, ReportsInLine, Stream, InStep, EndsWith, Follows, Open, Regular, Length, Bits
  <2> QED BY <1>1, <2>1, <2>2, DescriptorKept DEF Inv
<1> QED BY <1>2, <1>3, <1>4, <1>5, <1>6, <1>7, <1>8, <1>9, <1>10
        DEF Next, mccr_input_report_receive

\* The parser and the items agree while a descriptor is parsed, and the bytes
\* between the reader and the report are whole reports in line.
THEOREM StreamInvariance == Spec => []Inv
<1>1. SInit => Inv
  BY InvInit
<1>2. Inv /\ [Next]_vars => Inv'
  BY InvNext
<1> QED BY <1>1, <1>2, PTL DEF Spec

\* The layout mccr_parse_report_descriptor() arrives at is the one the items
\* mean, for every number of usages and every size.
THEOREM LayoutAgrees == Spec => []AgreesWithHid
<1>1. Inv => AgreesWithHid
  <2> SUFFICES ASSUME DInv, phase = "parsed", hid.canonical
               PROVE  SameLayout(input, hid.INPUT) /\ SameLayout(feature, hid.FEATURE)
    BY DEF Inv, AgreesWithHid
  <2>1. hid.canonical = TRUE
    BY DEF DInv, Meanings
  <2> QED BY <2>1 DEF DInv
<1> QED BY <1>1, StreamInvariance, PTL

-----------------------------------------------------------------------------
(* The fields of a report that was received. *)

\* The n-th report, of L bytes.
Whole(d, L, n) == \A k \in 1 .. L : d[k] = <<n, k>>

\* What the reader put into a field of it.
SwipedField(n, q, s) == [k \in 1 .. s |-> <<n, q + k>>]

\* The bytes of a field of a whole report.
LEMMA FieldBytes ==
  ASSUME NEW L \in Nat, NEW n \in Nat, NEW d, Whole(d, L, n),
         NEW q \in Nat, NEW s \in Nat, q + s <= L
  PROVE  SubSeq(d, q + 1, q + s) = SwipedField(n, q, s)
<1> DEFINE a == SubSeq(d, q + 1, q + s)
           b == [k \in 1 .. s |-> <<n, q + k>>]
<1>1. ASSUME NEW k \in (q + 1) .. (q + s) PROVE d[k] \in Byte
  <2>1. k \in 1 .. L /\ k \in Nat
    OBVIOUS
  <2>2. d[k] = <<n, k>>
    BY <2>1 DEF Whole
  <2> QED BY <2>1, <2>2 DEF Byte
<1>2. q + 1 \in Int /\ q + s \in Int
  OBVIOUS
<1>3. /\ a \in Seq(Byte)
      /\ Len(a) = IF q + 1 <= q + s THEN (q + s) - (q + 1) + 1 ELSE 0
      /\ \A k \in 1 .. ((q + s) - (q + 1) + 1) : a[k] = d[(q + 1) + k - 1]
  BY <1>1, <1>2, SubSeqProperties
<1> HIDE DEF a
<1>4. Len(a) = s
  BY <1>3
<1>5. ASSUME NEW k \in 1 .. s PROVE a[k] = <<n, q + k>>
  <2>1. /\ k \in 1 .. ((q + s) - (q + 1) + 1) /\ (q + 1) + k - 1 = q + k
        /\ q + k \in 1 .. L
    OBVIOUS
  <2>2. a[k] = d[q + k]
    BY <1>3, <2>1
  <2> QED BY <2>1, <2>2 DEF Whole
<1>6. b \in Seq(Byte) /\ Len(b) = s /\ \A k \in 1 .. s : b[k] = <<n, q + k>>
  <2>1. \A k \in 1 .. s : <<n, q + k>> \in Byte
    BY DEF Byte
  <2>2. \A k \in 1 .. s : b[k] = <<n, q + k>>
    OBVIOUS
  <2>3. b \in [1 .. s -> Byte]
    BY <2>1
  <2> HIDE DEF b
  <2>4. b \in Seq(Byte)
    BY <2>3
  <2>5. Len(b) = s
    BY <2>3, <2>4
  <2> QED BY <2>2, <2>4, <2>5
<1> HIDE DEF b
<1>7. a = b
  <2>1. \A k \in 1 .. Len(a) : a[k] = b[k]
    BY <1>4, <1>5, <1>6
  <2> QED BY <1>3, <1>4, <1>6, <2>1, SeqEqual
<1> QED BY <1>7 DEF a, b, SwipedField

\* The getter of a usage finds the field the items mean.
LEMMA FieldPlaced ==
  ASSUME NEW L \in Nat, L = input.size, hid \in Meanings, Length(hid.INPUT) < Word,
         SameLayout(input, hid.INPUT), DOMAIN input.usages = 1 .. Len(hid.INPUT),
         NEW id, NEW i \in Meant(id), NEW q \in Nat, NEW s \in Nat,
         Before(hid.INPUT, i) = 8 * q, hid.INPUT[i].size = 8 * s
  PROVE  /\ q + s <= L
         /\ swipe_report_get_usage(id, 0) = {[offset |-> q, size |-> s]}
<1> DEFINE F == hid.INPUT
           U == input.usages
<1>1. F \in Seq(Plain)
  BY DEF Meanings
<1>2. PICK m \in Nat : m = Len(F) /\ DOMAIN F = 1 .. m
  BY <1>1
<1>3. /\ DOMAIN U = 1 .. m /\ L * 8 = Length(F)
      /\ \A j \in 1 .. m : U[j] = [id |-> F[j].id, size |-> F[j].size, offset |-> Before(F, j)]
  BY <1>2 DEF SameLayout
<1> HIDE DEF F, U
<1>4. i \in 1 .. m /\ F[i].id = id /\ \A j \in 1 .. (i - 1) : F[j].id # id
  BY <1>2 DEF Meant, F
<1>5. lookup_usage_array(U, id) = {i}
  <2>1. \A j \in 1 .. m : U[j].id = F[j].id
    BY <1>3
  <2>2. i \in lookup_usage_array(U, id)
    <3>1. \A j \in 1 .. (i - 1) : j \in 1 .. m
      BY <1>4
    <3> QED BY <1>3, <1>4, <2>1, <3>1 DEF lookup_usage_array
  <2>3. ASSUME NEW k \in lookup_usage_array(U, id) PROVE k = i
    <3>1. k \in 1 .. m /\ U[k].id = id /\ \A j \in 1 .. (k - 1) : U[j].id # id
      BY <1>3 DEF lookup_usage_array
    <3>2. ~(k < i)
      <4> SUFFICES ASSUME k < i PROVE FALSE
        OBVIOUS
      <4>1. k \in 1 .. (i - 1)
        BY <1>4, <3>1
      <4> QED BY <1>4, <2>1, <3>1, <4>1
    <3>3. ~(i < k)
      <4> SUFFICES ASSUME i < k PROVE FALSE
        OBVIOUS
      <4>1. i \in 1 .. (k - 1)
        BY <1>4, <3>1
      <4> QED BY <1>4, <2>1, <3>1, <4>1
    <3> QED BY <1>4, <3>1, <3>2, <3>3
  <2> QED BY <2>2, <2>3
<1>6. U[i].offset = 8 * q /\ U[i].size = 8 * s
  BY <1>3, <1>4 DEF F
<1>7. q + s <= L
  <2>1. Bits(F)[i] = Bits(F)[i - 1] + F[i].size
    BY <1>1, <1>2, <1>4, BitsDef
  <2>2. Bits(F)[i] <= Bits(F)[m]
    <3>1. m \in 0 .. Len(F) /\ i \in 0 .. m
      BY <1>2, <1>4
    <3> QED BY <1>1, <3>1, BitsMonotone
  <2>3. 8 * q + 8 * s <= L * 8
    BY <1>2, <1>3, <2>1, <2>2 DEF Length, Before, F
  <2> QED BY <2>3
<1>8. Place(U[i]) = [offset |-> q, size |-> s]
  <2>1. (8 * q) \div 8 = q /\ (8 * s) \div 8 = s
    OBVIOUS
  <2> QED BY <1>6, <2>1 DEF Place
<1>9. {j \in lookup_usage_array(U, id) :
         /\ U[j].offset % 8 = 0 /\ U[j].size % 8 = 0
         /\ 0 \in {0, Place(U[j]).size}
         /\ Place(U[j]).offset + Place(U[j]).size <= L} = {i}
  <2>1. (8 * q) % 8 = 0 /\ (8 * s) % 8 = 0
    OBVIOUS
  <2>2. Place(U[i]).offset + Place(U[i]).size <= L
    BY <1>7, <1>8
  <2> QED BY <1>5, <1>6, <2>1, <2>2
<1>10. {Place(U[j]) : j \in {i}} = {[offset |-> q, size |-> s]}
  BY <1>8
<1>11. swipe_report_get_usage(id, 0) =
         {Place(U[j]) : j \in
           {j \in lookup_usage_array(U, id) :
              /\ U[j].offset % 8 = 0 /\ U[j].size % 8 = 0
              /\ 0 \in {0, Place(U[j]).size}
              /\ Place(U[j]).offset + Place(U[j]).size <= L}}
  BY DEF swipe_report_get_usage, U
<1> QED BY <1>7, <1>9, <1>10, <1>11

\* The getters of a received report return the bytes of one swipe, each field
\* the bytes that the items give it, for every descriptor, size of a field and
\* way the transport cuts the report.
THEOREM FieldsArrive == Spec => []FieldsDelivered
<1>1. Inv => FieldsDelivered
  <2> SUFFICES ASSUME DInv, StreamInv, status = "OK", Regular, ~late
               PROVE  \E n \in 1 .. swipes :
                        \A id \in UsageIds \cup {MCCR_USAGE} : \A i \in Meant(id) :
                          LET first == Before(hid.INPUT, i) \div 8
                              size  == hid.INPUT[i].size \div 8
                          IN  Before(hid.INPUT, i) % 8 = 0 /\ hid.INPUT[i].size % 8 = 0
                                => TRACK_API(id, TRUE) = {[k \in 1 .. size |-> <<n, first + k>>]}
    BY DEF Inv, FieldsDelivered
  <2>1. Open
    BY DEF StreamInv
  <2>2. ReportsInLine
    BY <2>1 DEF StreamInv
  <2>3. PICK L \in Nat : L = input.size /\ L >= 1
    BY <2>1, RegularSize
  <2>4. PICK w \in Nat : w = swipes
    BY DEF StreamInv
  <2>5. data \in Seq(Byte) /\ Len(data) = L
    BY <2>2, <2>3 DEF StreamInv, ReportsInLine, Bytewise
  <2>6. InStep(data, L, w)
    <3> DEFINE b == wire \o unsent
    <3>1. b \in Seq(Byte)
      BY StreamTyped DEF Bytewise
    <3>2. InStep(data \o b, L, w)
      BY <2>2, <2>3, <2>4 DEF ReportsInLine, Stream
    <3> HIDE DEF b
    <3> QED BY <2>5, <3>1, <3>2, LineTaken
  <2>7. data # <<>>
    BY <2>3, <2>5
  <2>8. PICK n \in 1 .. w : n = data[1][1]
    BY <2>6, <2>7, FirstReport
  <2>9. Whole(data, L, n)
    <3>1. \A k \in 1 .. Len(data) : k <= L => data[k] = <<data[1][1], k>>
      BY <2>6, <2>7, FirstReport
    <3> QED BY <2>5, <2>8, <3>1 DEF Whole
  <2>10. hid \in Meanings /\ hid.INPUT \in Seq(Plain) /\ hid.canonical = TRUE
    BY DEF DInv, Meanings, Regular
  <2>11. /\ SameLayout(input, hid.INPUT) /\ DOMAIN input.usages = 1 .. Len(hid.INPUT)
         /\ Length(hid.INPUT) < Word
    BY <2>1, <2>10 DEF DInv, Open, Regular
  <2>12. ASSUME NEW id, NEW i \in Meant(id),
                Before(hid.INPUT, i) % 8 = 0, hid.INPUT[i].size % 8 = 0
         PROVE  TRACK_API(id, TRUE) = {[k \in 1 .. (hid.INPUT[i].size \div 8) |->
                                          <<n, (Before(hid.INPUT, i) \div 8) + k>>]}
    <3> DEFINE q == Before(hid.INPUT, i) \div 8
               s == hid.INPUT[i].size \div 8
    <3>1. i \in 1 .. Len(hid.INPUT)
      BY <2>10 DEF Meant
    <3>2. Before(hid.INPUT, i) \in Nat
      <4>1. Bits(hid.INPUT) \in [0 .. Len(hid.INPUT) -> Nat]
        BY <2>10, BitsDef
      <4>2. i - 1 \in 0 .. Len(hid.INPUT)
        BY <2>10, <3>1
      <4> QED BY <4>1, <4>2 DEF Before
    <3>3. hid.INPUT[i].size \in Nat
      BY <2>10, <3>1, FieldSizes
    <3>4. q \in Nat /\ Before(hid.INPUT, i) = 8 * q
      BY <2>12, <3>2
    <3>5. s \in Nat /\ hid.INPUT[i].size = 8 * s
      BY <2>12, <3>3
    <3> HIDE DEF q, s
    <3>6. q + s <= L
      BY <2>3, <2>10, <2>11, <3>4, <3>5, FieldPlaced
    <3>7. swipe_report_get_usage(id, 0) = {[offset |-> q, size |-> s]}
      BY <2>3, <2>10, <2>11, <3>4, <3>5, FieldPlaced
    <3>8. TRACK_API(id, TRUE) = {SubSeq(data, q + 1, q + s)}
      <4>1. TRACK_API(id, TRUE) = {Bytes(place) : place \in swipe_report_get_usage(id, 0)}
        BY DEF TRACK_API
      <4>2. Bytes([offset |-> q, size |-> s]) = SubSeq(data, q + 1, q + s)
        BY DEF Bytes
      <4>3. {Bytes(place) : place \in {[offset |-> q, size |-> s]}} =
              {Bytes([offset |-> q, size |-> s])}
        OBVIOUS
      <4> QED BY <3>7, <4>1, <4>2, <4>3
    <3>9. SubSeq(data, q + 1, q + s) = [k \in 1 .. s |-> <<n, q + k>>]
      <4>1. n \in Nat
        BY <2>4
      <4>2. SubSeq(data, q + 1, q + s) = SwipedField(n, q, s)
        BY <2>9, <3>4, <3>5, <3>6, <4>1, FieldBytes
      <4> QED BY <4>2 DEF SwipedField
    <3> QED BY <3>8, <3>9 DEF q, s
  <2> n \in 1 .. swipes
    BY <2>4
  <2> WITNESS n \in 1 .. swipes
  <2> TAKE id \in UsageIds \cup {MCCR_USAGE}
  <2> TAKE i \in Meant(id)
  <2> QED BY <2>12
<1> QED BY <1>1, StreamInvariance, PTL
=============================================================================
