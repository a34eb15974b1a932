---------------------------- MODULE ReadsProofs ----------------------------
(***************************************************************************)
(* Theorems about Reads, for any table, catalog, int and size of a page:   *)
(* what the statements of one request, and the pages of one walk, promise  *)
(* each other although each reads a snapshot of its own.                   *)
(***************************************************************************)
EXTENDS Reads, SumTheorems

LEMMA MinOfTwo == \A a, b \in Int : Min({a, b}) = IF a <= b THEN a ELSE b
<1> SUFFICES ASSUME NEW a \in Int, NEW b \in Int
             PROVE  Min({a, b}) = IF a <= b THEN a ELSE b
  OBVIOUS
<1> DEFINE m == IF a <= b THEN a ELSE b
           least(x) == x \in {a, b} /\ \A y \in {a, b} : x <= y
<1>1. least(m)
  OBVIOUS
<1>2. \A x : least(x) => x = m
  OBVIOUS
<1>3. least(CHOOSE x : least(x))
  BY <1>1
<1>4. Min({a, b}) = CHOOSE x : least(x)
  BY Zenon DEF Min
<1> QED
  BY <1>2, <1>3, <1>4

LEMMA MaxOfTwo == \A a, b \in Int : Max({a, b}) = IF a >= b THEN a ELSE b
<1> SUFFICES ASSUME NEW a \in Int, NEW b \in Int
             PROVE  Max({a, b}) = IF a >= b THEN a ELSE b
  OBVIOUS
<1> DEFINE m == IF a >= b THEN a ELSE b
           greatest(x) == x \in {a, b} /\ \A y \in {a, b} : x >= y
<1>1. greatest(m)
  OBVIOUS
<1>2. \A x : greatest(x) => x = m
  OBVIOUS
<1>3. greatest(CHOOSE x : greatest(x))
  BY <1>1
<1>4. Max({a, b}) = CHOOSE x : greatest(x)
  BY Zenon DEF Max
<1> QED
  BY <1>2, <1>3, <1>4

(* An int is itself, and what wraps around never becomes larger.           *)
LEMMA Wrapping ==
    \A n \in Nat : Wrap(n) \in Int /\ Wrap(n) <= n /\ (n <= MaxInt => Wrap(n) = n)
<1> SUFFICES ASSUME NEW n \in Nat
             PROVE  Wrap(n) \in Int /\ Wrap(n) <= n /\ (n <= MaxInt => Wrap(n) = n)
  OBVIOUS
<1> DEFINE b == 2 * (MaxInt + 1)
           a == n + MaxInt + 1
<1>1. b \in Nat /\ b > 0 /\ a \in Nat /\ (n <= MaxInt => a < b)
  BY ReadsAssumption DEF ReadsAssumption
<1>2. \A x \in Nat, y \in Nat : y > 0 => x % y \in Nat /\ x % y <= x /\ (x < y => x % y = x)
  OBVIOUS
<1> DEFINE r == a % b
<1>3. r \in Nat /\ r <= a /\ (n <= MaxInt => r = a)
  BY <1>1, <1>2
<1>4. Wrap(n) = r - (MaxInt + 1)
  BY DEF Wrap
<1>5. MaxInt \in Nat /\ a = n + MaxInt + 1
  BY ReadsAssumption DEF ReadsAssumption
<1> HIDE DEF a, b, r
<1> QED
  BY <1>3, <1>4, <1>5

-----------------------------------------------------------------------------
(* The statements of a request come in the order of its kind.              *)
Stages == CASE req.kind = "metrics" -> {"idle", "count", "page", "next", "done", "failed"}
            [] req.kind = "list" -> {"idle", "list", "slice", "next", "done", "failed", "panicked"}
            [] req.kind = "gaps" -> {"idle", "gaps", "coverage", "slice", "done", "failed", "panicked"}
            [] req.kind = "report" -> {"idle", "count", "page", "insights", "done", "failed"}

Base == /\ table \in Seq(Tx) /\ req \in Requests
        /\ pc \in Stages
        /\ at \in Nat \ {0} /\ total \in Nat
        /\ whole \in Seq(Cells)
        /\ cut \in BOOLEAN

LEMMA Kinds == ASSUME Base PROVE req.kind \in {"metrics", "list", "gaps", "report"}
  BY ReadsAssumption DEF Base, ReadsAssumption, Request

LEMMA Steps ==
    ASSUME Base, NEW s \in Reading \cup {"slice"}, Run(s)
    PROVE  /\ pc = s
           /\ s = "count" => pc' = "page"
           /\ s = "page" => pc' = IF req.kind = "report" THEN "insights" ELSE "next"
           /\ s = "list" => pc' = "slice"
           /\ s = "slice" => pc' = IF req.kind = "gaps" THEN "done" ELSE "next"
           /\ s = "gaps" => pc' = "coverage"
           /\ s = "coverage" => pc' = "slice"
           /\ s = "insights" => pc' = "done"
           /\ req' = req => pc' \in Stages'
<1>1. PICK i \in DOMAIN Statements : pc = s /\ Statements[i] = s /\ pc' = Statements[i + 1]
  BY DEF Run
<1>2. CASE req.kind = "metrics"
  <2>1. Statements = <<"count", "page", "next">>
    BY <1>2 DEF Statements
  <2>2. i \in 1..2
    BY <1>1, <2>1 DEF Reading
  <2> QED
    BY <1>1, <1>2, <2>1, <2>2 DEF Stages
<1>3. CASE req.kind = "list"
  <2>1. Statements = <<"list", "slice", "next">>
    BY <1>3 DEF Statements
  <2>2. i \in 1..2
    BY <1>1, <2>1 DEF Reading
  <2> QED
    BY <1>1, <1>3, <2>1, <2>2 DEF Stages
<1>4. CASE req.kind = "gaps"
  <2>1. Statements = <<"gaps", "coverage", "slice", "done">>
    BY <1>4 DEF Statements
  <2>2. i \in 1..3
    BY <1>1, <2>1 DEF Reading
  <2> QED
    BY <1>1, <1>4, <2>1, <2>2 DEF Stages
<1>5. CASE req.kind = "report"
  <2>1. Statements = <<"count", "page", "insights", "done">>
    BY <1>5 DEF Statements
  <2>2. i \in 1..3
    BY <1>1, <2>1 DEF Reading
  <2> QED
    BY <1>1, <1>5, <2>1, <2>2 DEF Stages
<1> QED
  BY <1>2, <1>3, <1>4, <1>5, Kinds

LEMMA Paging ==
    ASSUME Base
    PROVE  /\ Size \in 1..MaxSize /\ Skipped \in Nat
           /\ Offset = Wrap(Skipped)
<1>1. /\ MaxInt \in Nat /\ MaxSize \in 1..MaxInt /\ DefaultSize \in 1..MaxSize
      /\ req.size \in Int
  BY ReadsAssumption DEF ReadsAssumption, Base, Request
<1>2. Size \in 1..MaxSize
  BY <1>1, MinOfTwo DEF Size
<1>3. Skipped \in Nat
  BY <1>1, <1>2 DEF Base, Skipped
<1> QED
  BY <1>2, <1>3 DEF Offset, Skipped

LEMMA Finite ==
    ASSUME table \in Seq(Tx)
    PROVE  /\ Groups \subseteq Cells
           /\ IsFiniteSet(Groups) /\ Cardinality(Groups) \in Nat
           /\ Cardinality(Groups) <= Cardinality(Cells)
           /\ \A c : IsFiniteSet(Of(c)) /\ Cardinality(Of(c)) \in Nat
<1>1. Groups \subseteq Cells
  <2> SUFFICES ASSUME NEW c \in Groups PROVE c \in Cells
    OBVIOUS
  <2>1. PICK i \in DOMAIN table : table[i].cell = c
    BY DEF Groups, Of
  <2>2. table[i] \in Tx
    BY <2>1
  <2> QED
    BY <2>1, <2>2 DEF Tx
<1>2. IsFiniteSet(Groups) /\ Cardinality(Groups) <= Cardinality(Cells)
  BY <1>1, FS_Subset, ReadsAssumption DEF ReadsAssumption
<1>3. ASSUME NEW c PROVE IsFiniteSet(Of(c)) /\ Cardinality(Of(c)) \in Nat
  <2>1. IsFiniteSet(DOMAIN table)
    BY FS_Interval
  <2>2. Of(c) \in SUBSET DOMAIN table
    BY DEF Of
  <2>3. IsFiniteSet(Of(c))
    BY <2>1, <2>2, FS_Subset
  <2> QED
    BY <2>3, FS_CardinalityType
<1> QED
  BY <1>1, <1>2, <1>3, FS_CardinalityType

LEMMA Shuffled ==
    ASSUME NEW S, IsFiniteSet(S), NEW s \in Shuffles(S)
    PROVE  s \in Seq(S) /\ Len(s) = Cardinality(S)
<1>1. Cardinality(S) \in Nat
  BY FS_CardinalityType
<1>2. s \in [1..Cardinality(S) -> S]
  BY DEF Shuffles, Bijection, Injection
<1> QED
  BY <1>1, <1>2

(* What LIMIT and OFFSET leave of a list.                                  *)
LEMMA Windowed ==
    ASSUME Base, NEW s \in Shuffles(Groups)
    PROVE  /\ Window(s) \in Seq(Groups) /\ Len(Window(s)) <= Size
           /\ Skipped <= Cardinality(Groups) =>
                 /\ Len(Window(s)) = IF Skipped + Size <= Cardinality(Groups) THEN Size
                                     ELSE Cardinality(Groups) - Skipped
                 /\ \A i \in DOMAIN Window(s) : Window(s)[i] = s[Skipped + i]
<1>1. /\ s \in Seq(Groups) /\ Len(s) = Cardinality(Groups) /\ Len(s) \in Nat
      /\ Cardinality(Groups) <= Cardinality(Cells)
  BY Shuffled, Finite DEF Base
<1>2. Cardinality(Cells) \in Nat /\ Cardinality(Cells) <= MaxInt /\ MaxInt \in Nat /\ MaxSize \in Nat
  BY ReadsAssumption, FS_CardinalityType DEF ReadsAssumption
<1>3. /\ Size \in 1..MaxSize /\ Skipped \in Nat
      /\ Offset \in Int /\ (Skipped <= MaxInt => Offset = Skipped)
  BY Paging, Wrapping DEF Base
<1>4. CASE Offset < 0
  <2>1. Window(s) = <<>> /\ Window(s) \in Seq(Groups) /\ Len(Window(s)) = 0
    BY <1>4 DEF Window
  <2> QED
    BY <1>1, <1>2, <1>3, <1>4, <2>1
<1>5. CASE Offset >= 0
  <2> DEFINE end == IF Offset + Size <= Len(s) THEN Offset + Size ELSE Len(s)
  <2>1. Window(s) = SubSeq(s, Offset + 1, end)
    BY <1>1, <1>2, <1>3, <1>5, MinOfTwo DEF Window
  <2>2. end \in Nat /\ end <= Len(s) /\ end - Offset <= Size
    BY <1>1, <1>2, <1>3, <1>5
  <2>3. Window(s) \in Seq(Groups)
    BY <1>1, <1>3, <1>5, <2>1, <2>2
  <2>4. /\ Len(Window(s)) = IF Offset + 1 <= end THEN end - Offset ELSE 0
        /\ \A i \in 1..Len(Window(s)) : Window(s)[i] = s[Offset + i]
    BY <1>1, <1>3, <1>5, <2>1, <2>2
  <2>5. DOMAIN Window(s) = 1..Len(Window(s)) /\ Len(Window(s)) \in Nat
    BY <2>3
  <2>6. Len(Window(s)) <= Size
    BY <1>3, <2>2, <2>4
  <2>7. ASSUME Skipped <= Cardinality(Groups)
        PROVE  /\ Len(Window(s)) = IF Skipped + Size <= Cardinality(Groups) THEN Size
                                   ELSE Cardinality(Groups) - Skipped
               /\ \A i \in DOMAIN Window(s) : Window(s)[i] = s[Skipped + i]
    <3>1. Offset = Skipped
      BY <1>1, <1>2, <1>3, <2>7
    <3>2. end = IF Skipped + Size <= Cardinality(Groups) THEN Skipped + Size ELSE Cardinality(Groups)
      BY <1>1, <3>1
    <3> HIDE DEF end
    <3>3. Len(Window(s)) = IF Skipped + Size <= Cardinality(Groups) THEN Size ELSE Cardinality(Groups) - Skipped
      BY <1>1, <1>3, <2>4, <2>7, <3>1, <3>2
    <3> QED
      BY <2>4, <2>5, <3>1, <3>3
  <2> QED
    BY <2>3, <2>6, <2>7
<1> QED
  BY <1>3, <1>4, <1>5

(* A page of a list with as many rows as were counted.                     *)
LEMMA WindowFull ==
    ASSUME Base, total <= Cardinality(Groups), NEW s \in Shuffles(Groups)
    PROVE  /\ Window(s) \in Seq(Groups)
           /\ Len(Window(s)) >= Min({total - Skipped, Size})
<1>1. /\ Size \in Nat /\ Skipped \in Nat /\ total \in Nat /\ Cardinality(Groups) \in Nat
  BY Paging, Finite, ReadsAssumption DEF Base, ReadsAssumption
<1>2. Min({total - Skipped, Size}) = IF total - Skipped <= Size THEN total - Skipped ELSE Size
  BY <1>1, MinOfTwo
<1>3. Window(s) \in Seq(Groups) /\ Len(Window(s)) \in Nat
  BY Windowed
<1> QED
  BY <1>1, <1>2, <1>3, Windowed

(* What results[start:end] is, if page and size fit an int.                *)
LEMMA Sliced ==
    ASSUME Base, Countable, NEW n \in Nat
    PROVE  /\ Min({Offset, n}) = IF Skipped <= n THEN Skipped ELSE n
           /\ Min({Wrap(Offset + Size), n}) = IF Skipped + Size <= n THEN Skipped + Size ELSE n
<1>1. Size \in 1..MaxSize /\ Skipped \in Nat /\ Skipped + Size <= MaxInt
  BY Paging DEF Countable
<1>2. Skipped + Size \in Nat /\ Skipped <= MaxInt
  BY <1>1, ReadsAssumption DEF ReadsAssumption
<1>3. Offset = Skipped /\ Wrap(Offset + Size) = Skipped + Size
  BY <1>1, <1>2, Wrapping, Paging
<1> QED
  BY <1>1, <1>2, <1>3, MinOfTwo

-----------------------------------------------------------------------------
(* What was counted, and what the page shows, stays true of the table, as  *)
(* no transaction is ever deleted.                                         *)
CountSound == req.kind \in {"metrics", "report"} /\ pc = "page" => total <= Cardinality(Groups)

RowsKnown ==
    req.kind = "report" /\ ~cut /\ pc = "insights" =>
        \A i \in DOMAIN page :
            /\ page[i].cell \in Groups
            /\ page[i].transaction_count \in Nat
            /\ page[i].transaction_count <= Cardinality(Of(page[i].cell))

RInv == Base /\ CountSound /\ NoShortPage /\ SliceExact /\ RowsKnown /\ ReportForward

LEMMA Grown ==
    ASSUME table \in Seq(Tx), table' \in Seq(Tx), req' = req,
           \A i \in DOMAIN table : i \in DOMAIN table' /\ table'[i].cell = table[i].cell
    PROVE  /\ Groups \subseteq Groups'
           /\ Cardinality(Groups) <= Cardinality(Groups')
           /\ \A c : Cardinality(Of(c)) <= Cardinality(Of(c)')
           /\ Cardinality(Groups') \in Nat /\ \A c : Cardinality(Of(c)') \in Nat
<1>1. \A c : Of(c) \subseteq Of(c)'
  BY DEF Of
<1>2. Groups \subseteq Groups'
  BY <1>1 DEF Groups
<1>3. IsFiniteSet(Groups') /\ \A c : IsFiniteSet(Of(c)')
  <2>1. IsFiniteSet(Groups')
    <3>1. Groups' \subseteq Cells
      <4> SUFFICES ASSUME NEW c \in Groups' PROVE c \in Cells
        OBVIOUS
      <4>1. PICK i \in DOMAIN table' : table'[i].cell = c
        BY DEF Groups, Of
      <4>2. table'[i] \in Tx
        BY <4>1
      <4> QED
        BY <4>1, <4>2 DEF Tx
    <3> QED
      BY <3>1, FS_Subset, ReadsAssumption DEF ReadsAssumption
  <2>2. ASSUME NEW c PROVE IsFiniteSet(Of(c)')
    <3>1. IsFiniteSet(DOMAIN table')
      BY FS_Interval
    <3>2. Of(c)' \in SUBSET DOMAIN table'
      BY DEF Of
    <3> QED
      BY <3>1, <3>2, FS_Subset
  <2> QED
    BY <2>1, <2>2
<1>4. Cardinality(Groups') \in Nat /\ \A c : Cardinality(Of(c)') \in Nat
  BY <1>3, FS_CardinalityType
<1> QED
  BY <1>1, <1>2, <1>3, <1>4, FS_Subset

LEMMA SamePlace ==
    ASSUME req' = req, at' = at
    PROVE  Size' = Size /\ Skipped' = Skipped /\ (Countable <=> Countable')
<1>1. Size' = Size
  BY DEF Size
<1> QED
  BY <1>1 DEF Skipped, Countable

LEMMA SameTable ==
    ASSUME table' = table, req' = req
    PROVE  Groups' = Groups /\ \A c : Of(c)' = Of(c)
<1>1. \A c : Of(c)' = Of(c)
  BY DEF Of
<1> QED
  BY <1>1 DEF Groups

(* Writers change the table alone, and only add to the groups.             *)
LEMMA Written ==
    ASSUME RInv, table' \in Seq(Tx), UNCHANGED <<req, pc, results, cut>>,
           \A i \in DOMAIN table : i \in DOMAIN table' /\ table'[i].cell = table[i].cell
    PROVE  RInv'
<1>1. /\ Groups \subseteq Groups'
      /\ Cardinality(Groups) <= Cardinality(Groups')
      /\ \A c : Cardinality(Of(c)) <= Cardinality(Of(c)')
  BY Grown DEF RInv, Base
<1>2. Cardinality(Groups) \in Nat /\ \A c : Cardinality(Of(c)) \in Nat
  BY Finite DEF RInv, Base
<1>3. Cardinality(Groups') \in Nat /\ \A c : Cardinality(Of(c)') \in Nat
  BY Grown DEF RInv, Base
<1>4. Base'
  BY DEF RInv, Base, Stages, results
<1>5. CountSound'
  BY <1>1, <1>2, <1>3 DEF RInv, Base, CountSound, results
<1>6. NoShortPage' /\ SliceExact'
  BY SamePlace DEF RInv, NoShortPage, SliceExact, results
<1>7. RowsKnown'
  BY <1>1, <1>2, <1>3 DEF RInv, RowsKnown, results
<1>8. ReportForward'
  BY DEF RInv, ReportForward, results
<1> QED
  BY <1>4, <1>5, <1>6, <1>7, <1>8 DEF RInv

LEMMA Posting == ASSUME RInv, NEW rows \in Posts, Post(rows) PROVE RInv'
<1>1. table \in Seq(Tx) /\ rows \in Seq(Tx)
  BY ReadsAssumption DEF RInv, Base, ReadsAssumption
<1>2. table' = table \o rows /\ UNCHANGED <<req, pc, results, cut>>
  BY DEF Post
<1>3. table' \in Seq(Tx)
  BY <1>1, <1>2
<1>4. \A i \in DOMAIN table : i \in DOMAIN table' /\ table'[i].cell = table[i].cell
  BY <1>1, <1>2
<1> QED
  BY <1>2, <1>3, <1>4, Written

LEMMA Aging == ASSUME RInv, NEW i \in DOMAIN table, Age(i) PROVE RInv'
<1>1. table \in Seq(Tx) /\ table[i] \in Tx
  BY DEF RInv, Base
<1> DEFINE old == [table[i] EXCEPT !.recent = FALSE]
<1>2. old \in Tx /\ old.cell = table[i].cell
  BY <1>1 DEF Tx
<1>3. table' = [table EXCEPT ![i] = old] /\ UNCHANGED <<req, pc, results, cut>>
  BY DEF Age
<1> HIDE DEF old
<1>4. table' \in Seq(Tx)
  BY <1>1, <1>2, <1>3
<1>5. \A j \in DOMAIN table : j \in DOMAIN table' /\ table'[j].cell = table[j].cell
  BY <1>1, <1>2, <1>3
<1> QED
  BY <1>3, <1>4, <1>5, Written

-----------------------------------------------------------------------------
LEMMA Counting == ASSUME RInv, CountMetrics PROVE RInv'
<1>1. /\ pc = "count" /\ pc' = "page" /\ pc' \in Stages' /\ total' = Cardinality(Groups)
      /\ UNCHANGED <<table, req, at, whole, page, insights, cut>>
  BY Steps DEF CountMetrics, RInv, Reading
<1>2. Groups' = Groups /\ Cardinality(Groups) \in Nat
  BY <1>1, SameTable, Finite DEF RInv, Base
<1>3. Base'
  BY <1>1, <1>2 DEF RInv, Base
<1>4. CountSound'
  BY <1>1, <1>2 DEF CountSound
<1> QED
  BY <1>1, <1>3, <1>4 DEF RInv, NoShortPage, SliceExact, RowsKnown, ReportForward

LEMMA Showing == ASSUME RInv, ReadPage PROVE RInv'
<1>1. /\ pc = "page" /\ pc' = (IF req.kind = "report" THEN "insights" ELSE "next") /\ pc' \in Stages'
      /\ UNCHANGED <<table, req, at, total, whole, insights>>
  BY Steps DEF ReadPage, RInv, Reading
<1>2. req.kind \in {"metrics", "report"}
  BY <1>1, Kinds DEF RInv, Base, Stages
<1>3. PICK s \in Orderings : \E n \in 0..Len(Window(s)) :
          /\ Arrives(n, Len(Window(s)))
          /\ page' = [i \in 1..n |-> Metric(SubSeq(Window(s), 1, n)[i])]
  BY DEF ReadPage
<1>4. PICK n \in 0..Len(Window(s)) :
          /\ Arrives(n, Len(Window(s)))
          /\ page' = [i \in 1..n |-> Metric(SubSeq(Window(s), 1, n)[i])]
  BY <1>3
<1>5. Window(s) \in Seq(Groups) /\ Len(Window(s)) >= Min({total - Skipped, Size})
  BY <1>1, <1>2, WindowFull DEF RInv, CountSound, Orderings
<1>6. cut' \in BOOLEAN /\ (~cut' => n = Len(Window(s)))
  BY <1>4 DEF Arrives, RInv, Base
<1>7. Base'
  BY <1>1, <1>6 DEF RInv, Base
<1>8. Len(page') = n
  BY <1>4, <1>5
<1>9. Groups' = Groups /\ \A c : Of(c)' = Of(c)
  BY <1>1, SameTable
<1>10. Size' = Size /\ Skipped' = Skipped
  BY <1>1, SamePlace
<1>11. NoShortPage'
  BY <1>1, <1>5, <1>6, <1>8, <1>10 DEF NoShortPage
<1>12. ASSUME NEW i \in DOMAIN page'
       PROVE  /\ page'[i].cell \in Groups
              /\ page'[i].transaction_count = Cardinality(Of(page'[i].cell))
  <2>1. i \in 1..n /\ SubSeq(Window(s), 1, n)[i] = Window(s)[i] /\ Window(s)[i] \in Groups
    BY <1>4, <1>5, <1>12
  <2>2. page'[i] = Metric(Window(s)[i])
    BY <1>4, <2>1
  <2> QED
    BY <2>1, <2>2 DEF Metric
<1>13. RowsKnown'
  BY <1>1, <1>9, <1>12, Finite DEF RInv, Base, RowsKnown
<1> QED
  BY <1>1, <1>2, <1>7, <1>11, <1>13 DEF RInv, CountSound, SliceExact, ReportForward

LEMMA Listing == ASSUME RInv, ReadList PROVE RInv'
<1>1. /\ pc = "list" /\ pc' = "slice" /\ pc' \in Stages'
      /\ UNCHANGED <<table, req, at, total, page, insights>>
  BY Steps DEF ReadList, RInv, Reading
<1>2. PICK s \in Shuffles(Groups) : \E n \in 0..Len(s) : Arrives(n, Len(s)) /\ whole' = SubSeq(s, 1, n)
  BY DEF ReadList
<1>3. s \in Seq(Groups) /\ Groups \subseteq Cells
  <2>1. s \in Seq(Groups)
    BY Shuffled, Finite DEF RInv, Base
  <2>2. Groups \subseteq Cells
    BY Finite DEF RInv, Base
  <2> QED
    BY <2>1, <2>2
<1>4. whole' \in Seq(Cells) /\ cut' \in BOOLEAN
  <2>1. PICK n \in 0..Len(s) : Arrives(n, Len(s)) /\ whole' = SubSeq(s, 1, n)
    BY <1>2
  <2>2. s \in Seq(Cells)
    BY <1>3
  <2>3. whole' \in Seq(Cells)
    BY <2>1, <2>2
  <2> QED
    BY <2>1, <2>3 DEF Arrives, RInv, Base
<1> QED
  BY <1>1, <1>4 DEF RInv, Base, CountSound, NoShortPage, SliceExact, RowsKnown, ReportForward

LEMMA PageLength ==
    ASSUME NEW sk \in Nat, NEW n \in Nat, NEW k \in Nat \ {0}
    PROVE  (IF sk + k <= n THEN sk + k ELSE n) - (IF sk <= n THEN sk ELSE n) =
               Max({0, Min({k, n - sk})})
<1> DEFINE rest == n - sk
           least == IF k <= rest THEN k ELSE rest
<1>1. rest \in Int /\ least \in Int
  OBVIOUS
<1>2. Min({k, rest}) = least
  BY <1>1, MinOfTwo
<1>3. Max({0, least}) = IF 0 >= least THEN 0 ELSE least
  BY <1>1, MaxOfTwo
<1>4. (IF sk + k <= n THEN sk + k ELSE n) - (IF sk <= n THEN sk ELSE n) =
          IF 0 >= least THEN 0 ELSE least
  OBVIOUS
<1>5. Max({0, Min({k, rest})}) = Max({0, least})
  BY <1>2
<1> HIDE DEF least
<1>6. Max({0, Min({k, rest})}) = IF 0 >= least THEN 0 ELSE least
  BY <1>3, <1>5
<1> QED
  BY <1>4, <1>6

LEMMA Slicing == ASSUME RInv, SliceList PROVE RInv'
<1>1. /\ pc = "slice" /\ total' = Len(whole)
      /\ UNCHANGED <<table, req, at, whole, insights, cut>>
  BY DEF SliceList
<1>2. req.kind \in {"list", "gaps"}
  BY <1>1, Kinds DEF RInv, Base, Stages
<1>3. total' \in Nat /\ Size \in 1..MaxSize /\ MaxSize \in Nat /\ Skipped \in Nat
  BY <1>1, Paging, ReadsAssumption DEF RInv, Base, ReadsAssumption
<1>4. Size' = Size /\ Skipped' = Skipped /\ (Countable <=> Countable')
  BY <1>1, SamePlace
<1> DEFINE start == Min({Offset, total'})
           end == Min({Wrap(Offset + Size), total'})
<1>5. \/ /\ 0 <= start /\ start <= end
         /\ Run("slice")
         /\ page' = SubSeq(whole, start + 1, end)
      \/ ~(0 <= start /\ start <= end) /\ pc' = "panicked"
  BY DEF SliceList
<1>6. /\ pc' \in Stages'
      /\ pc' = "panicked" \/ pc' = (IF req.kind = "gaps" THEN "done" ELSE "next")
  BY <1>1, <1>2, <1>5, Steps DEF RInv, Stages
<1>7. Base'
  BY <1>1, <1>3, <1>6 DEF RInv, Base
<1>8. SliceExact'
  <2>1. CASE ~Countable
    BY <1>4, <2>1 DEF SliceExact
  <2>2. CASE Countable
    <3>1. /\ start = IF Skipped <= total' THEN Skipped ELSE total'
          /\ end = IF Skipped + Size <= total' THEN Skipped + Size ELSE total'
      BY <1>3, <2>2, Sliced DEF RInv
    <3> HIDE DEF start, end
    <3>2. 0 <= start /\ start <= end /\ end <= Len(whole) /\ start \in Nat /\ end \in Nat
      BY <1>1, <1>3, <3>1
    <3>3. page' = SubSeq(whole, start + 1, end) /\ pc' # "panicked"
      BY <1>2, <1>5, <3>2, Steps DEF RInv
    <3>4. /\ Len(page') = end - start
          /\ \A i \in DOMAIN page' : page'[i] = whole[start + i]
      BY <3>2, <3>3 DEF RInv, Base
    <3>5. Len(page') = Max({0, Min({Size, total' - Skipped})})
      <4>1. Size \in Nat \ {0}
        BY <1>3
      <4>2. end - start = Max({0, Min({Size, total' - Skipped})})
        BY <1>3, <3>1, <4>1, PageLength
      <4> QED
        BY <3>4, <4>2
    <3>6. \A i \in DOMAIN page' : page'[i] = whole[Skipped + i]
      <4>1. CASE Skipped <= total'
        BY <3>1, <3>4, <4>1
      <4>2. CASE ~(Skipped <= total')
        <5>1. Len(page') = 0 /\ DOMAIN page' = 1..Len(page')
          BY <1>1, <1>3, <3>1, <3>2, <3>3, <3>4, <4>2 DEF RInv, Base
        <5> QED
          BY <5>1
      <4> QED
        BY <4>1, <4>2
    <3> QED
      BY <1>1, <1>4, <3>3, <3>5, <3>6 DEF SliceExact
  <2> QED
    BY <2>1, <2>2
<1> QED
  BY <1>1, <1>2, <1>7, <1>8 DEF RInv, CountSound, NoShortPage, RowsKnown, ReportForward

LEMMA Walking == ASSUME RInv, NextPage PROVE RInv'
<1>1. /\ pc = "next" /\ UNCHANGED <<table, req, total, whole, page, insights, cut>>
      /\ \/ pc' = Head(Statements) /\ at' = at + 1
         \/ pc' = "done" /\ at' = at
  BY DEF NextPage
<1>2. req.kind \in {"metrics", "list"}
  BY <1>1, Kinds DEF RInv, Base, Stages
<1>3. Head(Statements) = IF req.kind = "metrics" THEN "count" ELSE "list"
  <2>1. req.kind = "metrics" => Statements = <<"count", "page", "next">>
    BY DEF Statements
  <2>2. req.kind = "list" => Statements = <<"list", "slice", "next">>
    BY DEF Statements
  <2> QED
    BY <1>2, <2>1, <2>2
<1>4. Base'
  BY <1>1, <1>2, <1>3 DEF RInv, Base, Stages
<1>5. CASE pc' = "done" /\ at' = at
  BY <1>1, <1>2, <1>4, <1>5, SamePlace
     DEF RInv, CountSound, NoShortPage, SliceExact, RowsKnown, ReportForward
<1>6. CASE pc' = Head(Statements)
  BY <1>1, <1>2, <1>3, <1>4, <1>6
     DEF RInv, CountSound, NoShortPage, SliceExact, RowsKnown, ReportForward
<1> QED
  BY <1>1, <1>5, <1>6

LEMMA KnowingMore == ASSUME RInv, ReadInsights PROVE RInv'
<1>1. /\ pc = "insights" /\ pc' = "done" /\ pc' \in Stages'
      /\ UNCHANGED <<table, req, at, total, whole, page>>
  BY Steps DEF ReadInsights, RInv, Reading
<1>2. req.kind = "report"
  BY <1>1, Kinds DEF RInv, Base, Stages
<1>3. PICK S \in SUBSET Groups : /\ Arrives(Cardinality(S), Cardinality(Groups))
                                 /\ insights' = Restrict(Candidates, S)
  BY DEF ReadInsights
<1>4. cut' \in BOOLEAN /\ (~cut' => ~cut /\ Cardinality(S) = Cardinality(Groups))
  BY <1>3 DEF Arrives, RInv, Base
<1>5. ~cut' => S = Groups
  BY <1>4, Finite, FS_Subset DEF RInv, Base
<1>6. Base'
  BY <1>1, <1>4 DEF RInv, Base
<1>7. NoShortPage'
  BY <1>1, <1>4, SamePlace DEF RInv, NoShortPage
<1>8. ReportForward'
  <2> SUFFICES ASSUME ~cut', NEW i \in DOMAIN page'
               PROVE  /\ page'[i].cell \in DOMAIN insights'
                      /\ insights'[page'[i].cell] >= page'[i].transaction_count
    BY DEF ReportForward
  <2> DEFINE c == page[i].cell
  <2>1. c \in Groups /\ page[i].transaction_count \in Nat /\ page[i].transaction_count <= Cardinality(Of(c))
    BY <1>1, <1>2, <1>4 DEF RInv, RowsKnown
  <2>2. insights' = [d \in Groups |-> Candidates[d]]
    BY <1>3, <1>5 DEF Restrict
  <2>3. Candidates[c] = Cardinality(Of(c)) /\ Cardinality(Of(c)) \in Nat
    BY <2>1, Finite DEF Candidates, RInv, Base
  <2>4. c \in DOMAIN insights' /\ insights'[c] = Cardinality(Of(c))
    BY <2>1, <2>2, <2>3
  <2> QED
    BY <1>1, <2>1, <2>3, <2>4
<1> QED
  BY <1>1, <1>2, <1>6, <1>7, <1>8 DEF RInv, CountSound, SliceExact, RowsKnown

LEMMA ListingGaps == ASSUME RInv, ReadGaps PROVE RInv'
<1>1. /\ pc = "gaps" /\ pc' = "coverage" /\ pc' \in Stages'
      /\ UNCHANGED <<table, req, at, total, page, insights>>
  BY Steps DEF ReadGaps, RInv, Reading
<1>2. PICK s \in GapLists : \E n \in 0..Len(s) : Arrives(n, Len(s)) /\ whole' = SubSeq(s, 1, n)
  BY DEF ReadGaps
<1>3. PICK n \in 0..Len(s) : Arrives(n, Len(s)) /\ whole' = SubSeq(s, 1, n)
  BY <1>2
<1>4. Gaps \subseteq Cells /\ IsFiniteSet(Gaps)
  <2>1. Gaps \subseteq Cells
    BY ReadsAssumption DEF ReadsAssumption, Gaps
  <2> QED
    BY <2>1, FS_Subset, ReadsAssumption DEF ReadsAssumption
<1>5. s \in Seq(Gaps)
  BY <1>4, Shuffled DEF GapLists
<1>6. s \in Seq(Cells)
  BY <1>4, <1>5
<1>7. whole' \in Seq(Cells)
  BY <1>3, <1>6
<1>8. cut' \in BOOLEAN
  BY <1>3 DEF Arrives, RInv, Base
<1> QED
  BY <1>1, <1>7, <1>8 DEF RInv, Base, CountSound, NoShortPage, SliceExact, RowsKnown, ReportForward

LEMMA Covering == ASSUME RInv, ReadCoverage PROVE RInv'
<1>1. /\ pc = "coverage" /\ pc' = "slice" /\ pc' \in Stages'
      /\ UNCHANGED <<table, req, at, total, whole, page, insights>>
  BY Steps DEF ReadCoverage, RInv, Reading
<1>2. cut' \in BOOLEAN
  BY DEF ReadCoverage, Arrives, RInv, Base
<1> QED
  BY <1>1, <1>2 DEF RInv, Base, CountSound, NoShortPage, SliceExact, RowsKnown, ReportForward

LEMMA Failing == ASSUME RInv, QueryFails PROVE RInv'
<1>1. pc' = "failed" /\ UNCHANGED <<table, req, results, cut>>
  BY DEF QueryFails
<1>2. "failed" \in Stages
  BY Kinds DEF RInv, Stages
<1>3. Base'
  BY <1>1, <1>2 DEF RInv, Base, Stages, results
<1> QED
  BY <1>1, <1>3 DEF RInv, CountSound, NoShortPage, SliceExact, RowsKnown, ReportForward

LEMMA Opening == ASSUME RInv, Open PROVE RInv'
<1>1. pc' = Head(Statements) /\ UNCHANGED <<table, req, results, cut>>
  BY DEF Open
<1>2. Head(Statements) \in {"count", "list", "gaps"} \cap Stages
  <2>1. req.kind = "metrics" => Statements = <<"count", "page", "next">>
    BY DEF Statements
  <2>2. req.kind = "list" => Statements = <<"list", "slice", "next">>
    BY DEF Statements
  <2>3. req.kind = "gaps" => Statements = <<"gaps", "coverage", "slice", "done">>
    BY DEF Statements
  <2>4. req.kind = "report" => Statements = <<"count", "page", "insights", "done">>
    BY DEF Statements
  <2> QED
    BY <2>1, <2>2, <2>3, <2>4, Kinds DEF RInv, Stages
<1>3. Base'
  BY <1>1, <1>2 DEF RInv, Base, Stages, results
<1> QED
  BY <1>1, <1>2, <1>3 DEF RInv, CountSound, NoShortPage, SliceExact, RowsKnown, ReportForward

LEMMA InitReads == Init => RInv
<1> SUFFICES ASSUME Init PROVE RInv
  OBVIOUS
<1>1. /\ table \in Seq(Tx) /\ req \in Requests /\ total \in Nat /\ whole \in Seq(Cells)
      /\ cut \in BOOLEAN /\ pc = "idle"
  <2>1. table = Initial /\ Initial \in Seq(Tx)
    BY ReadsAssumption DEF ReadsAssumption, Init
  <2>2. req \in Requests /\ total = 0 /\ whole = <<>> /\ cut = FALSE /\ pc = "idle"
    BY DEF Init
  <2>3. <<>> \in Seq(Cells)
    OBVIOUS
  <2> QED
    BY <2>1, <2>2, <2>3
<1>2. req \in Request
  BY <1>1, ReadsAssumption DEF ReadsAssumption
<1>3. FirstPage \in Nat \ {0}
  BY <1>2, ReadsAssumption DEF ReadsAssumption, Request, FirstPage
<1>4. pc \in Stages
  BY <1>1, <1>2 DEF Stages, Request
<1>5. Base
  BY <1>1, <1>3, <1>4 DEF Init, Base
<1> QED
  BY <1>1, <1>5 DEF RInv, CountSound, NoShortPage, SliceExact, RowsKnown, ReportForward

LEMMA Inductive == RInv /\ [Next]_vars => RInv'
<1> SUFFICES ASSUME RInv, [Next]_vars PROVE RInv'
  OBVIOUS
<1>1. CASE UNCHANGED vars
  <2>1. UNCHANGED <<table, req, pc, results, cut>>
    BY <1>1 DEF vars
  <2> QED
    BY <2>1, Written DEF RInv, Base
<1>2. CASE Next
  BY <1>1, <1>2, Posting, Aging, Opening, Counting, Showing, Listing, Slicing, Walking,
     KnowingMore, ListingGaps, Covering, Failing DEF Next, Finished
<1> QED
  BY <1>1, <1>2

LEMMA ReadsInvariant == Spec => []RInv
  BY InitReads, Inductive, PTL DEF Spec

(***************************************************************************)
(* GetMetrics counts on one snapshot and reads the page on a later one,    *)
(* and transactions are only added: no page is shorter than total_items    *)
(* says.                                                                   *)
(***************************************************************************)
THEOREM NothingShort == Spec => []NoShortPage
<1>1. RInv => NoShortPage
  BY DEF RInv
<1> QED
  BY <1>1, ReadsInvariant, PTL

(***************************************************************************)
(* results[start:end] of the handlers is the page asked for, and in range, *)
(* unless the arithmetic of the offset overflows.                          *)
(***************************************************************************)
THEOREM ExactSlice == Spec => []SliceExact
<1>1. RInv => SliceExact
  BY DEF RInv
<1> QED
  BY <1>1, ReadsInvariant, PTL

(***************************************************************************)
(* GenerateReport reads the insights after the metrics: they know every    *)
(* transaction that those count.                                           *)
(***************************************************************************)
THEOREM NothingForgotten == Spec => []ReportForward
<1>1. RInv => ReportForward
  BY DEF RInv
<1> QED
  BY <1>1, ReadsInvariant, PTL

-----------------------------------------------------------------------------
(* Between the two statements of the market gaps, every gap of the table   *)
(* is in the list that was read; after them, every gap that was counted.   *)
GapsKnown ==
    /\ aged \in Nat
    /\ req.kind = "gaps" /\ ~req.essential /\ ~cut /\ aged = 0 =>
          /\ pc = "coverage" => Gaps \subseteq {whole[i] : i \in DOMAIN whole}
          /\ pc \in {"slice", "done"} => \A k \in DOMAIN coverage : GapCount(k) <= Listed(k)

LEMMA InitGaps == Init => GapsKnown
  BY DEF Init, GapsKnown

(* Arrivals only close gaps.                                               *)
LEMMA Closing ==
    ASSUME UNCHANGED <<req, pc, results, cut>>, GapsKnown, aged' = aged,
           RecentCells \subseteq RecentCells'
    PROVE  GapsKnown'
<1>1. Gaps' \subseteq Gaps
  BY DEF Gaps
<1> QED
  BY <1>1 DEF GapsKnown, results, GapCount, Listed

(* What the coverage counts as gaps of a country.                          *)
Missing(k) == InCountry(DOMAIN Catalog, k) \ RecentCells

LEMMA CountedGaps ==
    ASSUME Base, req.kind = "gaps", ReadCoverage, NEW k \in DOMAIN coverage'
    PROVE  /\ GapCount(k)' = Cardinality(Missing(k)) /\ IsFiniteSet(Missing(k))
           /\ Listed(k)' = Listed(k)
           /\ InCountry(Gaps, k) \subseteq Missing(k)
           /\ ~req.essential => InCountry(Gaps, k) = Missing(k)
<1> DEFINE offered == InCountry(DOMAIN Catalog, k)
           lost == offered \ RecentCells
<1>1. PICK K \in SUBSET DOMAIN Coverage : coverage' = Restrict(Coverage, K)
  BY DEF ReadCoverage
<1>2. k \in DOMAIN Coverage /\ coverage'[k] = Coverage[k] /\ whole' = whole
  BY <1>1 DEF Restrict, ReadCoverage
<1>3. /\ \E c \in DOMAIN Catalog \cap req.select : Country(c) = k
      /\ Coverage[k].catalog = Cardinality(offered)
      /\ Coverage[k].active = Cardinality(InCountry(DOMAIN Catalog \cap RecentCells, k))
  BY <1>2 DEF Coverage
<1>4. IsFiniteSet(offered)
  BY FS_Subset, ReadsAssumption DEF ReadsAssumption, InCountry
<1>5. InCountry(DOMAIN Catalog \cap RecentCells, k) = offered \cap RecentCells
  BY DEF InCountry
<1>6. GapCount(k)' = Cardinality(lost) /\ IsFiniteSet(lost)
  <2>1. /\ IsFiniteSet(lost)
        /\ Cardinality(lost) = Cardinality(offered) - Cardinality(offered \cap RecentCells)
    BY <1>4, FS_Difference
  <2> QED
    BY <1>2, <1>3, <1>5, <2>1, FS_CardinalityType DEF GapCount
<1>7. InCountry(Gaps, k) \subseteq lost
  BY DEF InCountry, Gaps
<1>8. ASSUME ~req.essential, NEW d \in lost PROVE d \in InCountry(Gaps, k)
  <2>1. d \in DOMAIN Catalog /\ d \notin RecentCells /\ Country(d) = k
    BY DEF InCountry
  <2>2. d \in req.select
    BY <1>3, <2>1, ReadsAssumption DEF ReadsAssumption, Base
  <2> QED
    BY <1>8, <2>1, <2>2 DEF Gaps, InCountry
<1>9. Listed(k)' = Listed(k)
  BY <1>2 DEF Listed
<1> QED
  BY <1>6, <1>7, <1>8, <1>9 DEF Missing

(* The places of a list where the cells of a country stand.                *)
Places(k) == {i \in DOMAIN whole : Country(whole[i]) = k}

LEMMA PlacesFinite == ASSUME Base, NEW k PROVE IsFiniteSet(Places(k)) /\ Places(k) \subseteq DOMAIN whole
<1>1. DOMAIN whole = 1..Len(whole) /\ Len(whole) \in Nat
  BY DEF Base
<1>2. IsFiniteSet(DOMAIN whole)
  BY <1>1, FS_Interval
<1>3. Places(k) \in SUBSET DOMAIN whole
  BY DEF Places
<1> QED
  BY <1>2, <1>3, FS_Subset

LEMMA CountedIsListed ==
    ASSUME Base, req.kind = "gaps", ~req.essential, ReadCoverage,
           Gaps \subseteq {whole[i] : i \in DOMAIN whole}, NEW k \in DOMAIN coverage'
    PROVE  GapCount(k)' <= Listed(k)'
<1> DEFINE image == {whole[i] : i \in Places(k)}
<1>1. IsFiniteSet(image) /\ Cardinality(image) <= Cardinality(Places(k))
  <2> DEFINE f == [i \in Places(k) |-> whole[i]]
  <2>1. f \in [Places(k) -> image] /\ \A c \in image : \E i \in Places(k) : f[i] = c
    OBVIOUS
  <2>2. f \in Surjection(Places(k), image)
    BY <2>1 DEF Surjection
  <2> QED
    BY <2>2, PlacesFinite, FS_Surjection
<1>2. Missing(k) \subseteq image
  <2> SUFFICES ASSUME NEW d \in InCountry(Gaps, k) PROVE d \in image
    BY CountedGaps
  <2>1. PICK i \in DOMAIN whole : whole[i] = d
    BY DEF InCountry
  <2>2. i \in Places(k)
    BY <2>1 DEF InCountry, Places
  <2> QED
    BY <2>1, <2>2
<1>3. Cardinality(Missing(k)) <= Cardinality(image)
  BY <1>1, <1>2, FS_Subset
<1>4. Cardinality(Missing(k)) \in Nat /\ Cardinality(Places(k)) \in Nat /\ Cardinality(image) \in Nat
  BY <1>1, CountedGaps, PlacesFinite, FS_CardinalityType
<1>5. GapCount(k)' = Cardinality(Missing(k)) /\ Listed(k)' = Cardinality(Places(k))
  BY CountedGaps DEF Listed, Places
<1> HIDE DEF image
<1> QED
  BY <1>1, <1>3, <1>4, <1>5

(* If the list is that of all gaps, each of them once.                     *)
LEMMA CountedAsListed ==
    ASSUME Base, req.kind = "gaps", ReadCoverage, whole \in Shuffles(Gaps), NEW k \in DOMAIN coverage'
    PROVE  IF req.essential THEN Listed(k)' <= GapCount(k)' ELSE Listed(k)' = GapCount(k)'
<1> DEFINE I == InCountry(Gaps, k)
           f == [i \in Places(k) |-> whole[i]]
<1>1. /\ DOMAIN whole = 1..Cardinality(Gaps)
      /\ \A i \in DOMAIN whole : whole[i] \in Gaps
      /\ \A i, j \in DOMAIN whole : whole[i] = whole[j] => i = j
      /\ \A c \in Gaps : \E i \in DOMAIN whole : whole[i] = c
  BY DEF Shuffles, Bijection, Injection, Surjection, IsInjective
<1>2. f \in Bijection(Places(k), I)
  <2>1. f \in [Places(k) -> I] /\ \A i, j \in Places(k) : f[i] = f[j] => i = j
    BY <1>1 DEF Places, InCountry
  <2>2. \A c \in I : \E i \in Places(k) : f[i] = c
    BY <1>1 DEF Places, InCountry
  <2> HIDE DEF f, I
  <2> QED
    BY <2>1, <2>2 DEF Bijection, Injection, Surjection, IsInjective
<1>3. Cardinality(Places(k)) = Cardinality(I)
  <2>1. IsFiniteSet(Places(k)) /\ ExistsBijection(Places(k), I)
    BY <1>2, PlacesFinite DEF ExistsBijection
  <2> HIDE DEF I
  <2> QED
    BY <2>1, FS_Bijection
<1>4. /\ IsFiniteSet(Missing(k)) /\ I \subseteq Missing(k)
      /\ ~req.essential => I = Missing(k)
      /\ GapCount(k)' = Cardinality(Missing(k)) /\ Listed(k)' = Cardinality(Places(k))
  BY CountedGaps DEF Listed, Places
<1>5. Cardinality(I) <= Cardinality(Missing(k))
  BY <1>4, FS_Subset
<1> HIDE DEF I
<1> QED
  BY <1>3, <1>4, <1>5

LEMMA GapsInductive == RInv /\ GapsKnown /\ [Next]_vars => GapsKnown'
<1> SUFFICES ASSUME RInv, GapsKnown, [Next]_vars PROVE GapsKnown'
  OBVIOUS
<1> USE DEF RInv
<1>1. ASSUME NEW rows \in Posts, Post(rows) PROVE GapsKnown'
  <2>1. table \in Seq(Tx) /\ rows \in Seq(Tx) /\ table' = table \o rows
    BY <1>1, ReadsAssumption DEF Post, Base, ReadsAssumption
  <2>2. \A i \in DOMAIN table : i \in DOMAIN table' /\ table'[i] = table[i]
    BY <2>1
  <2>3. RecentCells \subseteq RecentCells'
    BY <2>2 DEF RecentCells
  <2> QED
    BY <1>1, <2>3, Closing DEF Post
<1>2. ASSUME NEW i \in DOMAIN table, Age(i) PROVE GapsKnown'
  BY <1>2 DEF Age, GapsKnown
<1>3. CASE ReadGaps
  <2>1. /\ pc' = "coverage" /\ UNCHANGED <<table, req, aged>>
        /\ ~cut' => ~cut
    BY <1>3, Steps DEF ReadGaps, Reading, Arrives
  <2>2. PICK s \in GapLists : \E n \in 0..Len(s) : Arrives(n, Len(s)) /\ whole' = SubSeq(s, 1, n)
    BY <1>3 DEF ReadGaps
  <2>3. PICK n \in 0..Len(s) : Arrives(n, Len(s)) /\ whole' = SubSeq(s, 1, n)
    BY <2>2
  <2>4. Gaps' = Gaps
    BY <2>1 DEF Gaps, RecentCells
  <2>5. ASSUME ~cut' PROVE Gaps \subseteq {whole'[i] : i \in DOMAIN whole'}
    <3>1. n = Len(s)
      BY <2>3, <2>5 DEF Arrives
    <3>2. IsFiniteSet(Gaps)
      <4>1. Gaps \subseteq Cells
        BY ReadsAssumption DEF ReadsAssumption, Gaps
      <4> QED
        BY <4>1, FS_Subset, ReadsAssumption DEF ReadsAssumption
    <3>3. s \in Seq(Gaps)
      BY <3>2, Shuffled DEF GapLists
    <3>4. whole' = s
      BY <2>3, <3>1, <3>3
    <3>5. \A c \in Gaps : \E i \in 1..Cardinality(Gaps) : s[i] = c
      BY DEF GapLists, Shuffles, Bijection, Surjection
    <3>6. DOMAIN s = 1..Cardinality(Gaps)
      BY DEF GapLists, Shuffles, Bijection, Surjection
    <3> QED
      BY <3>4, <3>5, <3>6
  <2> QED
    BY <2>1, <2>4, <2>5 DEF GapsKnown
<1>4. CASE ReadCoverage
  <2>1. /\ pc = "coverage" /\ pc' = "slice" /\ UNCHANGED <<req, aged>> /\ (~cut' => ~cut)
    BY <1>4, Steps DEF ReadCoverage, Reading, Arrives
  <2> QED
    BY <1>4, <2>1, CountedIsListed DEF GapsKnown
<1>5. CASE SliceList
  <2>1. /\ pc = "slice" /\ pc' \in {"panicked", "next", "done"}
        /\ UNCHANGED <<req, aged, whole, coverage, cut>>
    BY <1>5, Steps DEF SliceList
  <2> QED
    BY <2>1 DEF GapsKnown, GapCount, Listed
<1>6. CASE Open
  <2>1. pc' \notin {"coverage", "slice", "done"}
    BY <1>6, Kinds DEF Open, Statements
  <2> QED
    BY <1>6, <2>1 DEF Open, GapsKnown
<1>7. CASE NextPage
  <2>1. req.kind # "gaps"
    BY <1>7, Kinds DEF NextPage, Base, Stages
  <2> QED
    BY <1>7, <2>1 DEF NextPage, GapsKnown
<1>8. CASE QueryFails
  BY <1>8 DEF QueryFails, GapsKnown
<1>9. CASE CountMetrics \/ ReadPage \/ ReadList \/ ReadInsights
  <2>1. pc \in {"count", "page", "list", "insights"} /\ UNCHANGED <<req, aged>>
    BY <1>9 DEF CountMetrics, ReadPage, ReadList, ReadInsights, Run
  <2>2. CASE req.kind = "gaps"
    BY <2>1, <2>2 DEF Base, Stages
  <2>3. CASE req.kind # "gaps"
    BY <2>1, <2>3 DEF GapsKnown
  <2> QED
    BY <2>2, <2>3
<1>10. CASE UNCHANGED vars
  <2>1. UNCHANGED <<table, aged, req, pc, results, cut>>
    BY <1>10 DEF vars
  <2>2. RecentCells' = RecentCells
    BY <2>1 DEF RecentCells
  <2> QED
    BY <2>1, <2>2, Closing
<1> QED
  BY <1>1, <1>2, <1>3, <1>4, <1>5, <1>6, <1>7, <1>8, <1>9, <1>10 DEF Next, Finished

(***************************************************************************)
(* GetMarketGaps reads the gaps before the coverage: while no transaction  *)
(* leaves the 90 days, every gap it counts is one it lists.                *)
(***************************************************************************)
THEOREM GapsOnlyEverClose == Spec => []GapsOnlyClose
<1>1. GapsKnown => GapsOnlyClose
  BY DEF GapsKnown, GapsOnlyClose
<1> QED
  BY <1>1, InitGaps, GapsInductive, ReadsInvariant, PTL DEF Spec
-----------------------------------------------------------------------------
LEMMA Measured ==
    ASSUME table \in Seq(Tx), NEW c \in Cells
    PROVE  Metric(c) \in Metrics /\ Metric(c).cell = c /\ Metric(c).transaction_count = Cardinality(Of(c))
<1> DEFINE usd == [i \in DOMAIN table |-> table[i].usd]
<1>1. Cardinality(Of(c)) \in Nat /\ IsFiniteSet(Of(c))
  BY Finite
<1>2. IsFiniteSet(Approved(c)) /\ \A i \in Approved(c) : i \in DOMAIN table
  <2>1. Approved(c) \in SUBSET Of(c)
    BY DEF Approved
  <2> QED
    BY <1>1, <2>1, FS_Subset DEF Of
<1>3. \A i \in Approved(c) : usd[i] \in Nat
  <2>1. \A i \in DOMAIN table : table[i] \in Tx
    OBVIOUS
  <2>2. \A t \in Tx : t.usd \in Nat
    BY DEF Tx
  <2> QED
    BY <1>2, <2>1, <2>2
<1> HIDE DEF usd
<1>4. SumFunctionOnSet(usd, Approved(c)) \in Nat
  BY <1>2, <1>3, SumNat
<1> QED
  BY <1>1, <1>4 DEF Metric, Metrics, usd

LEMMA Summed ==
    ASSUME NEW rows \in Seq(Metrics)
    PROVE  Summary(rows) \in Nat
<1> DEFINE f == [i \in DOMAIN rows |-> rows[i].transaction_count]
<1>1. IsFiniteSet(DOMAIN f) /\ DOMAIN f = DOMAIN rows
  BY FS_Interval
<1>2. \A i \in DOMAIN f : f[i] \in Nat
  <2>1. \A i \in DOMAIN rows : rows[i] \in Metrics
    OBVIOUS
  <2>2. \A m \in Metrics : m.transaction_count \in Nat
    BY DEF Metrics
  <2> QED
    BY <2>1, <2>2
<1> HIDE DEF f
<1>3. SumFunctionOnSet(f, DOMAIN f) \in Nat
  BY <1>1, <1>2, SumNat
<1> QED
  BY <1>3 DEF Summary, SumFunction, f

(* A page read by the database: the rows shown are those of the window.    *)
LEMMA PageRead ==
    ASSUME Base, ReadPage
    PROVE  \E s \in Orderings : \E cells \in Seq(Groups) :
              /\ Len(cells) <= Size
              /\ page' \in Seq(Metrics) /\ Len(page') = Len(cells)
              /\ \A i \in 1..Len(cells) : page'[i] = Metric(cells[i])
              /\ seen' = seen \o cells
              /\ counted' = counted + Summary(page')
              /\ ~cut' => ~cut /\ cells = Window(s)
<1>1. PICK s \in Orderings : \E n \in 0..Len(Window(s)) :
          /\ Arrives(n, Len(Window(s)))
          /\ page' = [i \in 1..n |-> Metric(SubSeq(Window(s), 1, n)[i])]
          /\ seen' = seen \o SubSeq(Window(s), 1, n)
  BY DEF ReadPage, Show
<1>2. PICK n \in 0..Len(Window(s)) :
          /\ Arrives(n, Len(Window(s)))
          /\ page' = [i \in 1..n |-> Metric(SubSeq(Window(s), 1, n)[i])]
          /\ seen' = seen \o SubSeq(Window(s), 1, n)
  BY <1>1
<1> DEFINE w == Window(s)
           cells == SubSeq(w, 1, n)
<1>3. w \in Seq(Groups) /\ Len(w) <= Size /\ Groups \subseteq Cells /\ Size \in Nat
  BY Windowed, Finite, Paging, ReadsAssumption DEF Base, Orderings, ReadsAssumption
<1> HIDE DEF w
<1>4. n \in Nat /\ n <= Len(w)
  BY <1>2, <1>3 DEF w
<1>5. cells \in Seq(Groups) /\ Len(cells) = n /\ (n = Len(w) => cells = w)
  BY <1>3, <1>4
<1>6. ~cut' => ~cut /\ n = Len(w)
  BY <1>2 DEF Arrives, Base, w
<1>7. page' = [i \in 1..n |-> Metric(cells[i])] /\ seen' = seen \o cells
  BY <1>2 DEF w
<1> HIDE DEF cells
<1>8. \A i \in 1..n : Metric(cells[i]) \in Metrics
  <2> SUFFICES ASSUME NEW i \in 1..n PROVE Metric(cells[i]) \in Metrics
    OBVIOUS
  <2>1. cells[i] \in Cells
    BY <1>3, <1>5
  <2> QED
    BY <2>1, Measured DEF Base
<1>9. page' \in Seq(Metrics) /\ Len(page') = n /\ \A i \in 1..n : page'[i] = Metric(cells[i])
  BY <1>4, <1>7, <1>8
<1>10. counted' = counted + Summary(page')
  BY DEF ReadPage
<1>11. Len(cells) <= Size
  BY <1>3, <1>4, <1>5
<1> QED
  BY <1>5, <1>6, <1>7, <1>9, <1>10, <1>11 DEF w

(* A page sliced in memory.                                                *)
LEMMA PageSliced ==
    ASSUME Base, SliceList, pc' # "panicked"
    PROVE  /\ page' \in Seq(Cells) /\ Len(page') <= Size
           /\ seen' = seen \o page'
<1>1. /\ Size \in 1..MaxSize /\ Skipped \in Nat /\ MaxSize \in Nat
      /\ Offset = Wrap(Skipped) /\ Offset \in Int
  BY Paging, Wrapping, ReadsAssumption DEF ReadsAssumption
<1> DEFINE start == Min({Offset, total'})
           end == Min({Wrap(Offset + Size), total'})
<1>2. /\ 0 <= start /\ start <= end
      /\ page' = SubSeq(whole, start + 1, end)
      /\ seen' = seen \o page'
      /\ total' = Len(whole)
  BY DEF SliceList, Show
<1>3. Len(whole) \in Nat
  BY DEF Base
<1>4. start = IF Offset <= total' THEN Offset ELSE total'
  BY <1>1, <1>2, <1>3, MinOfTwo
<1>5. Offset >= 0
  BY <1>1, <1>2, <1>3, <1>4
<1>6. Wrap(Offset + Size) \in Int /\ Wrap(Offset + Size) <= Offset + Size
  BY <1>1, <1>5, Wrapping
<1>7. end = IF Wrap(Offset + Size) <= total' THEN Wrap(Offset + Size) ELSE total'
  BY <1>2, <1>3, <1>6, MinOfTwo
<1> HIDE DEF start, end
<1>8. start \in Nat /\ end \in Nat /\ end <= Len(whole) /\ end - start <= Size
  BY <1>1, <1>2, <1>3, <1>4, <1>5, <1>6, <1>7
<1>9. page' \in Seq(Cells) /\ Len(page') = end - start
  BY <1>2, <1>3, <1>8 DEF Base
<1> QED
  BY <1>2, <1>8, <1>9

(***************************************************************************)
(* What RInv leaves out of the types.                                      *)
(***************************************************************************)
Rows == IF req.kind \in {"metrics", "report"} THEN Metrics ELSE Cells

Answers == /\ counted \in Nat
           /\ page \in Seq(Rows) /\ Len(page) <= MaxSize
           /\ seen \in Seq(Cells)
           /\ \A k \in DOMAIN coverage : coverage[k].active <= coverage[k].catalog
           /\ DOMAIN insights \subseteq Cells

Bounds == /\ posted \in 0..MaxPosts /\ aged \in 0..MaxAged /\ faults \in 0..MaxFaults
          /\ quiet \in BOOLEAN

LEMMA TypesTogether == Base /\ Answers /\ Bounds => TypeOK
<1>1. Base => pc \in PC
  BY Kinds DEF Base, Stages, PC, Reading
<1> QED
  BY <1>1 DEF Base, Answers, Bounds, TypeOK, Rows

LEMMA InitTypes == Init => Answers /\ Bounds
<1> SUFFICES ASSUME Init PROVE Answers /\ Bounds
  OBVIOUS
<1>1. MaxSize \in Nat /\ MaxPosts \in Nat /\ MaxAged \in Nat /\ MaxFaults \in Nat
  BY ReadsAssumption DEF ReadsAssumption
<1>2. <<>> \in Seq(Rows) /\ <<>> \in Seq(Cells) /\ Len(<<>>) = 0 /\ DOMAIN <<>> = {}
  OBVIOUS
<1>3. Answers
  BY <1>1, <1>2 DEF Init, Answers
<1>4. posted = 0 /\ aged = 0 /\ faults = 0 /\ quiet = FALSE
  BY DEF Init
<1>5. 0 \in 0..MaxPosts /\ 0 \in 0..MaxAged /\ 0 \in 0..MaxFaults
  BY <1>1
<1> QED
  BY <1>3, <1>4, <1>5, Zenon DEF Bounds

LEMMA BoundsKept == Base /\ Bounds /\ [Next]_vars => Bounds'
<1> SUFFICES ASSUME Base, Bounds, [Next]_vars PROVE Bounds'
  OBVIOUS
<1>1. MaxPosts \in Nat /\ MaxAged \in Nat /\ MaxFaults \in Nat
  BY ReadsAssumption DEF ReadsAssumption
<1> USE DEF Bounds
<1>2. ASSUME NEW rows \in Posts, Post(rows) PROVE Bounds'
  <2>1. posted < MaxPosts /\ posted' = posted + 1 /\ UNCHANGED <<aged, faults>> /\ quiet' = FALSE
    BY <1>2 DEF Post
  <2>2. posted' \in 0..MaxPosts
    BY <1>1, <2>1
  <2> QED
    BY <2>1, <2>2, Zenon
<1>3. ASSUME NEW i \in DOMAIN table, Age(i) PROVE Bounds'
  <2>1. aged < MaxAged /\ aged' = aged + 1 /\ UNCHANGED <<posted, faults>> /\ quiet' = FALSE
    BY <1>3 DEF Age
  <2>2. aged' \in 0..MaxAged
    BY <1>1, <2>1
  <2> QED
    BY <2>1, <2>2, Zenon
<1>4. CASE ReadPage \/ ReadList \/ ReadInsights \/ ReadGaps \/ ReadCoverage
  <2>1. UNCHANGED <<posted, aged, quiet>> /\ \E k, n : Arrives(k, n)
    BY <1>4 DEF ReadPage, ReadList, ReadInsights, ReadGaps, ReadCoverage
  <2>2. faults' \in 0..MaxFaults
    BY <1>1, <2>1 DEF Arrives
  <2> QED
    BY <2>1, <2>2
<1>5. CASE QueryFails
  BY <1>1, <1>5 DEF QueryFails
<1>6. CASE Open \/ CountMetrics \/ SliceList \/ NextPage \/ UNCHANGED vars
  BY <1>6 DEF Open, CountMetrics, SliceList, NextPage, vars
<1> QED
  BY <1>2, <1>3, <1>4, <1>5, <1>6 DEF Next, Finished

LEMMA AnswersKept == Base /\ Answers /\ [Next]_vars => Answers'
<1> SUFFICES ASSUME Base, Answers, [Next]_vars PROVE Answers'
  OBVIOUS
<1>1. Size <= MaxSize /\ Size \in Nat /\ MaxSize \in Nat /\ Groups \subseteq Cells
  BY Paging, Finite, ReadsAssumption DEF Base, ReadsAssumption
<1>2. CASE ReadPage
  <2>1. PICK cells \in Seq(Groups) :
           /\ Len(cells) <= Size
           /\ page' \in Seq(Metrics) /\ Len(page') = Len(cells)
           /\ seen' = seen \o cells
           /\ counted' = counted + Summary(page')
    BY <1>2, PageRead
  <2>2. req' = req /\ req.kind \in {"metrics", "report"} /\ UNCHANGED <<coverage, insights>>
        /\ DOMAIN insights' \subseteq Cells
    <3>1. pc = "page" /\ req' = req /\ UNCHANGED <<coverage, insights>>
      BY <1>2 DEF ReadPage, Run, Answers
    <3> QED
      BY <3>1, Kinds DEF Base, Stages, ReadPage, Answers
  <2>3. cells \in Seq(Cells)
    BY <1>1
  <2>4. seen' \in Seq(Cells)
    BY <2>1, <2>3 DEF Answers
  <2>5. counted' \in Nat
    BY <2>1, Summed DEF Answers
  <2>6. Len(page') <= MaxSize
    BY <1>1, <2>1
  <2>7. page' \in Seq(Rows') /\ \A k \in DOMAIN coverage' : coverage'[k].active <= coverage'[k].catalog
    BY <2>1, <2>2 DEF Answers, Rows
  <2> QED
    BY <2>2, <2>4, <2>5, <2>6, <2>7 DEF Answers
<1>3. CASE SliceList
  <2>1. pc = "slice" /\ UNCHANGED <<req, counted, coverage, insights>>
    BY <1>3 DEF SliceList
  <2>2. Rows = Cells /\ Rows' = Cells
    BY <2>1, Kinds DEF Base, Stages, Rows
  <2>3. CASE pc' = "panicked"
    <3>1. UNCHANGED <<page, seen>>
      BY <1>3, <2>3, Steps DEF SliceList
    <3> QED
      BY <2>1, <2>2, <3>1 DEF Answers
  <2>4. CASE pc' # "panicked"
    <3>1. page' \in Seq(Cells) /\ Len(page') <= Size /\ seen' = seen \o page'
      BY <1>3, <2>4, PageSliced
    <3>2. seen' \in Seq(Cells) /\ Len(page') <= MaxSize
      BY <1>1, <3>1 DEF Answers
    <3> QED
      BY <2>1, <2>2, <3>1, <3>2 DEF Answers
  <2> QED
    BY <2>3, <2>4
<1>4. CASE ReadInsights
  <2>1. PICK S \in SUBSET Groups : insights' = Restrict(Candidates, S)
    BY <1>4 DEF ReadInsights
  <2>2. DOMAIN insights' \subseteq Cells
    BY <1>1, <2>1 DEF Restrict, Candidates
  <2> QED
    BY <1>4, <2>2 DEF ReadInsights, Answers, Rows
<1>5. CASE ReadCoverage
  <2>1. PICK K \in SUBSET DOMAIN Coverage : coverage' = Restrict(Coverage, K)
    BY <1>5 DEF ReadCoverage
  <2>2. ASSUME NEW k \in DOMAIN coverage' PROVE coverage'[k].active <= coverage'[k].catalog
    <3>1. k \in DOMAIN Coverage /\ coverage'[k] = Coverage[k]
      BY <2>1 DEF Restrict
    <3>2. /\ Coverage[k].catalog = Cardinality(InCountry(DOMAIN Catalog, k))
          /\ Coverage[k].active = Cardinality(InCountry(DOMAIN Catalog \cap RecentCells, k))
      BY <3>1 DEF Coverage
    <3>3. /\ IsFiniteSet(InCountry(DOMAIN Catalog, k))
          /\ InCountry(DOMAIN Catalog \cap RecentCells, k) \subseteq InCountry(DOMAIN Catalog, k)
      BY FS_Subset, ReadsAssumption DEF ReadsAssumption, InCountry
    <3> QED
      BY <3>1, <3>2, <3>3, FS_Subset
  <2> QED
    BY <1>5, <2>2 DEF ReadCoverage, Answers, Rows
<1>6. ASSUME UNCHANGED <<req, page, seen, counted, coverage, insights>> PROVE Answers'
  BY <1>6 DEF Answers, Rows
<1>7. CASE \/ \E rows \in Posts : Post(rows)
           \/ \E i \in DOMAIN table : Age(i)
           \/ Open \/ CountMetrics \/ ReadList \/ NextPage \/ ReadGaps \/ QueryFails
           \/ UNCHANGED vars
  BY <1>6, <1>7 DEF Post, Age, Open, CountMetrics, ReadList, NextPage, ReadGaps, QueryFails, vars, results
<1> QED
  BY <1>2, <1>3, <1>4, <1>5, <1>7 DEF Next, Finished

TypedReads == RInv /\ Answers /\ Bounds

LEMMA ReadsTyped == Spec => []TypedReads
<1>1. Init => TypedReads
  BY InitReads, InitTypes DEF TypedReads
<1>2. TypedReads /\ [Next]_vars => TypedReads'
  BY Inductive, AnswersKept, BoundsKept DEF TypedReads, RInv
<1> QED
  BY <1>1, <1>2, PTL DEF Spec

(***************************************************************************)
(* Whatever is asked for, a page has at most page_size rows, never more    *)
(* than the maximum; no country has more active methods than its catalog.  *)
(***************************************************************************)
THEOREM TypeInvariant == Spec => []TypeOK
<1>1. TypedReads => TypeOK
  BY TypesTogether DEF TypedReads, RInv
<1> QED
  BY <1>1, ReadsTyped, PTL

-----------------------------------------------------------------------------
(***************************************************************************)
(* While nothing is written, the list of the gaps is still what the table  *)
(* says when the coverage is read.                                         *)
(***************************************************************************)
GapsSame ==
    req.kind = "gaps" /\ ~cut /\ quiet =>
        /\ pc = "coverage" => whole \in Shuffles(Gaps)
        /\ pc \in {"slice", "done"} =>
              \A k \in DOMAIN coverage :
                  IF req.essential THEN Listed(k) <= GapCount(k) ELSE Listed(k) = GapCount(k)

LEMMA GapsSameInductive == Base /\ GapsSame /\ [Next]_vars => GapsSame'
<1> SUFFICES ASSUME Base, GapsSame, [Next]_vars PROVE GapsSame'
  OBVIOUS
<1>1. CASE (\E rows \in Posts : Post(rows)) \/ (\E i \in DOMAIN table : Age(i))
  BY <1>1 DEF Post, Age, GapsSame
<1>2. CASE ReadGaps
  <2>1. /\ pc' = "coverage" /\ UNCHANGED <<table, req>>
    BY <1>2, Steps DEF ReadGaps, Reading
  <2>2. PICK s \in GapLists : \E n \in 0..Len(s) : Arrives(n, Len(s)) /\ whole' = SubSeq(s, 1, n)
    BY <1>2 DEF ReadGaps
  <2>3. PICK n \in 0..Len(s) : Arrives(n, Len(s)) /\ whole' = SubSeq(s, 1, n)
    BY <2>2
  <2>4. Gaps' = Gaps
    BY <2>1 DEF Gaps, RecentCells
  <2>5. ASSUME ~cut' PROVE whole' \in Shuffles(Gaps)
    <3>1. n = Len(s)
      BY <2>3, <2>5 DEF Arrives
    <3>2. IsFiniteSet(Gaps)
      <4>1. Gaps \subseteq Cells
        BY ReadsAssumption DEF ReadsAssumption, Gaps
      <4> QED
        BY <4>1, FS_Subset, ReadsAssumption DEF ReadsAssumption
    <3>3. s \in Seq(Gaps) /\ s \in Shuffles(Gaps)
      BY <3>2, Shuffled DEF GapLists
    <3>4. whole' = s
      BY <2>3, <3>1, <3>3
    <3> QED
      BY <3>3, <3>4
  <2>6. Shuffles(Gaps)' = Shuffles(Gaps)
    BY <2>4 DEF Shuffles
  <2> QED
    BY <2>1, <2>4, <2>5, <2>6 DEF GapsSame
<1>3. CASE ReadCoverage
  <2>1. /\ pc = "coverage" /\ pc' = "slice" /\ UNCHANGED <<req, quiet>> /\ (~cut' => ~cut)
    BY <1>3, Steps DEF ReadCoverage, Reading, Arrives
  <2> QED
    BY <1>3, <2>1, CountedAsListed DEF GapsSame
<1>4. CASE SliceList
  <2>1. /\ pc = "slice" /\ pc' \in {"panicked", "next", "done"}
        /\ UNCHANGED <<req, quiet, whole, coverage, cut>>
    BY <1>4, Steps DEF SliceList
  <2> QED
    BY <2>1 DEF GapsSame, GapCount, Listed
<1>5. CASE Open
  <2>1. pc' \notin {"coverage", "slice", "done"}
    BY <1>5, Kinds DEF Open, Statements
  <2> QED
    BY <2>1 DEF GapsSame
<1>6. CASE NextPage
  <2>1. req.kind # "gaps"
    BY <1>6, Kinds DEF NextPage, Base, Stages
  <2> QED
    BY <1>6, <2>1 DEF NextPage, GapsSame
<1>7. CASE QueryFails
  BY <1>7 DEF QueryFails, GapsSame
<1>8. CASE CountMetrics \/ ReadPage \/ ReadList \/ ReadInsights
  <2>1. pc \in {"count", "page", "list", "insights"} /\ UNCHANGED req
    BY <1>8 DEF CountMetrics, ReadPage, ReadList, ReadInsights, Run
  <2>2. req.kind # "gaps"
    BY <2>1 DEF Base, Stages
  <2> QED
    BY <2>1, <2>2 DEF GapsSame
<1>9. CASE UNCHANGED vars
  <2>1. UNCHANGED <<table, req, pc, whole, coverage, cut, quiet>>
    BY <1>9 DEF vars, results
  <2>2. Gaps' = Gaps
    BY <2>1 DEF Gaps, RecentCells
  <2>3. Shuffles(Gaps)' = Shuffles(Gaps)
    BY <2>2 DEF Shuffles
  <2> QED
    BY <2>1, <2>3 DEF GapsSame, GapCount, Listed
<1> QED
  BY <1>1, <1>2, <1>3, <1>4, <1>5, <1>6, <1>7, <1>8, <1>9 DEF Next, Finished

(***************************************************************************)
(* GetMarketGaps' two queries, one for methods no transaction of the last  *)
(* 90 days uses, one counting those used, agree on what a gap is.          *)
(***************************************************************************)
THEOREM GapsAgreeInvariant == Spec => []GapsAgree
<1>1. Init => GapsSame
  BY DEF Init, GapsSame
<1>2. RInv /\ GapsSame /\ [Next]_vars => GapsSame'
  BY GapsSameInductive DEF RInv
<1>3. GapsSame => GapsAgree
  BY DEF GapsSame, GapsAgree
<1> QED
  BY <1>1, <1>2, <1>3, ReadsInvariant, PTL DEF Spec

-----------------------------------------------------------------------------
(***************************************************************************)
(* A client that follows the pages, while nothing is written: where it is  *)
(* in the list, whatever the order of the rows.                            *)
(***************************************************************************)
Walks == req.kind \in {"metrics", "list"} /\ ~cut /\ quiet /\ FirstPage = 1

Placed ==
    /\ pc = "idle" => at = FirstPage /\ seen = <<>> /\ counted = 0
    /\ Walks =>
          /\ at > 1 => Skipped < Cardinality(Groups)
          /\ pc \in {"count", "page", "list", "slice"} => Len(seen) = Skipped
          /\ pc \in {"page", "next"} => total = Cardinality(Groups)
          /\ pc = "slice" => whole \in Shuffles(Groups)
          /\ pc = "next" =>
                Len(seen) = IF Skipped + Size <= Cardinality(Groups) THEN Skipped + Size ELSE Cardinality(Groups)
          /\ pc = "done" => Len(seen) = Cardinality(Groups)

(* The only page of a list shows all of it.                                *)
OnlyPage ==
    Walks /\ req.kind = "list" /\ at = 1 /\ pc \in {"next", "done"} /\ Cardinality(Groups) <= Size =>
        {seen[i] : i \in DOMAIN seen} = Groups

(* The summaries so far are those of the cells shown.                      *)
Sizes == [i \in DOMAIN seen |-> Cardinality(Of(seen[i]))]
Adding == Walks /\ req.kind = "metrics" => counted = SumFunctionOnSet(Sizes, DOMAIN seen)

(* All orders of the metrics have the same keys, and so has what the       *)
(* client has seen, whichever of the tied cells it was shown.              *)
Follows(o) == \A i \in DOMAIN seen : seen[i] \in Groups /\ Key(seen[i]) = Key(o[i])
InOrder ==
    Walks /\ req.kind = "metrics" =>
        /\ \A o \in Orderings : Follows(o)
        /\ pc \in {"next", "done"} => Orderings # {}

WalkInv == Placed /\ OnlyPage /\ Adding /\ InOrder

LEMMA SameQueries ==
    ASSUME table' = table, req' = req
    PROVE  /\ Groups' = Groups /\ \A c : Of(c)' = Of(c)
           /\ Orderings' = Orderings /\ Shuffles(Groups)' = Shuffles(Groups)
           /\ FirstPage' = FirstPage /\ Size' = Size
           /\ \A c : Key(c)' = Key(c)
<1>1. Groups' = Groups /\ \A c : Of(c)' = Of(c)
  BY SameTable
<1>2. Shuffles(Groups)' = Shuffles(Groups)
  BY <1>1 DEF Shuffles
<1>3. \A c : Metric(c)' = Metric(c)
  <2>1. \A c : Approved(c)' = Approved(c)
    BY <1>1 DEF Approved
  <2> QED
    BY <1>1, <2>1 DEF Metric
<1>4. \A r, q : Before(r, q)' <=> Before(r, q)
  BY DEF Before
<1>5. Orderings' = Orderings
  BY <1>2, <1>3, <1>4 DEF Orderings
<1>6. FirstPage' = FirstPage /\ Size' = Size
  BY DEF FirstPage, Size
<1>7. \A c : Key(c)' = Key(c)
  BY <1>3 DEF Key
<1> QED
  BY <1>1, <1>2, <1>5, <1>6, <1>7

LEMMA Within ==
    ASSUME Base, Placed, Walks
    PROVE  /\ Skipped \in Nat /\ Size \in Nat \ {0}
           /\ Cardinality(Groups) \in Nat /\ Cardinality(Groups) <= MaxInt
           /\ Skipped <= Cardinality(Groups)
           /\ at = 1 => Skipped = 0
<1>1. /\ Cardinality(Groups) \in Nat /\ Cardinality(Groups) <= Cardinality(Cells)
      /\ Cardinality(Cells) \in Nat /\ Cardinality(Cells) <= MaxInt /\ MaxInt \in Nat
  BY Finite, FS_CardinalityType, ReadsAssumption DEF Base, ReadsAssumption
<1>2. Size \in 1..MaxSize /\ Skipped \in Nat /\ MaxSize \in Nat /\ at \in Nat \ {0}
  BY Paging, ReadsAssumption DEF Base, ReadsAssumption
<1>3. at = 1 => Skipped = 0
  BY <1>2 DEF Skipped
<1>4. at > 1 => Skipped < Cardinality(Groups)
  BY DEF Placed
<1> QED
  BY <1>1, <1>2, <1>3, <1>4

(***************************************************************************)
(* The cells of an order, and their keys.                                  *)
(***************************************************************************)
LEMMA Ordered ==
    ASSUME Base, NEW o \in Orderings
    PROVE  LET n == Cardinality(Groups)
           IN  /\ n \in Nat
               /\ o \in [1..n -> Groups]
               /\ \A i, j \in 1..n : o[i] = o[j] => i = j
               /\ \A c \in Groups : \E i \in 1..n : o[i] = c
               /\ \A i, j \in 1..n : i < j => Before(Metric(o[i]), Metric(o[j]))
<1>1. o \in Shuffles(Groups) /\ \A i, j \in DOMAIN o : i < j => Before(Metric(o[i]), Metric(o[j]))
  BY DEF Orderings
<1>2. Cardinality(Groups) \in Nat
  BY Finite DEF Base
<1> QED
  BY <1>1, <1>2 DEF Shuffles, Bijection, Injection, Surjection, IsInjective

LEMMA Keys ==
    ASSUME Base, NEW c \in Groups
    PROVE  Key(c) \in Nat
<1>1. Metric(c) \in Metrics
  BY Finite, Measured DEF Base
<1>2. req.sort \in {"tpv_usd", "transaction_count"}
  BY ReadsAssumption DEF Base, ReadsAssumption, Request
<1> QED
  BY <1>1, <1>2 DEF Metrics, Key

LEMMA Compared ==
    ASSUME Base, NEW c \in Groups, NEW d \in Groups
    PROVE  Before(Metric(c), Metric(d)) <=> IF req.order = "asc" THEN Key(c) <= Key(d) ELSE Key(c) >= Key(d)
  BY DEF Before, Key

(***************************************************************************)
(* What one order has at place i is not later than what another has there: *)
(* else the i first cells of the latter would have to come before place i  *)
(* of the former.                                                          *)
(***************************************************************************)
LEMMA NotLater ==
    ASSUME Base, NEW o \in Orderings, NEW s \in Orderings, NEW i \in 1..Cardinality(Groups)
    PROVE  Before(Metric(s[i]), Metric(o[i]))
<1> DEFINE n == Cardinality(Groups)
<1>1. /\ n \in Nat
      /\ o \in [1..n -> Groups] /\ \A j, k \in 1..n : o[j] = o[k] => j = k
      /\ \A j, k \in 1..n : j < k => Before(Metric(o[j]), Metric(o[k]))
  BY Ordered
<1>2. /\ s \in [1..n -> Groups]
      /\ \A c \in Groups : \E j \in 1..n : s[j] = c
      /\ \A j, k \in 1..n : j < k => Before(Metric(s[j]), Metric(s[k]))
  BY Ordered
<1> SUFFICES ASSUME ~Before(Metric(s[i]), Metric(o[i])) PROVE FALSE
  OBVIOUS
<1> DEFINE S == 1..i
           T == 1..(i - 1)
           place == [j \in S |-> CHOOSE k \in 1..n : s[k] = o[j]]
<1>3. i \in 1..n /\ n \in Nat
  BY <1>1
<1> HIDE DEF n
<1>4. ASSUME NEW j \in S PROVE j \in 1..n /\ place[j] \in 1..n /\ s[place[j]] = o[j]
  <2>1. j \in 1..n
    BY <1>3
  <2>2. \E k \in 1..n : s[k] = o[j]
    BY <1>1, <1>2, <2>1
  <2> QED
    BY <2>1, <2>2
<1>5. ASSUME NEW j \in S PROVE place[j] < i
  <2> SUFFICES ASSUME ~(place[j] < i) PROVE FALSE
    OBVIOUS
  <2>1. j \in 1..n /\ place[j] \in 1..n /\ s[place[j]] = o[j]
    BY <1>4
  <2>2. o[i] \in Groups /\ o[j] \in Groups /\ s[i] \in Groups
    BY <1>1, <1>2, <1>3, <2>1
  <2>3. Key(o[i]) \in Nat /\ Key(o[j]) \in Nat /\ Key(s[i]) \in Nat
    BY <2>2, Keys
  <2>4. j = i \/ Before(Metric(o[j]), Metric(o[i]))
    BY <1>1, <1>3, <2>1
  <2>5. place[j] = i \/ Before(Metric(s[i]), Metric(o[j]))
    <3> DEFINE k == place[j]
    <3>1. k \in 1..n /\ ~(k < i) /\ s[k] = o[j]
      BY <2>1
    <3> HIDE DEF k, place
    <3>2. k = i \/ Before(Metric(s[i]), Metric(o[j]))
      BY <1>2, <1>3, <3>1
    <3> QED
      BY <3>2 DEF k
  <2>6. s[i] = o[j] \/ Before(Metric(s[i]), Metric(o[j]))
    BY <2>1, <2>5
  <2> HIDE DEF place
  <2>7. IF req.order = "asc" THEN Key(s[i]) <= Key(o[j]) ELSE Key(s[i]) >= Key(o[j])
    BY <2>2, <2>3, <2>6, Compared
  <2>8. IF req.order = "asc" THEN Key(o[j]) <= Key(o[i]) ELSE Key(o[j]) >= Key(o[i])
    BY <2>2, <2>3, <2>4, Compared
  <2>9. IF req.order = "asc" THEN Key(s[i]) <= Key(o[i]) ELSE Key(s[i]) >= Key(o[i])
    BY <2>3, <2>7, <2>8
  <2> QED
    BY <2>2, <2>9, Compared
<1>6. place \in [S -> T]
  <2>1. \A j \in S : place[j] \in T
    <3> SUFFICES ASSUME NEW j \in S PROVE place[j] \in T
      OBVIOUS
    <3>1. place[j] \in 1..n /\ place[j] < i
      BY <1>4, <1>5
    <3> HIDE DEF place
    <3> QED
      BY <1>3, <3>1
  <2> QED
    BY <2>1
<1>7. /\ IsFiniteSet(S) /\ IsFiniteSet(T)
      /\ Cardinality(S) = i /\ Cardinality(T) = i - 1
  BY <1>3, FS_Interval
<1>8. Cardinality(T) < Cardinality(S)
  BY <1>3, <1>7
<1>9. PICK j, k \in S : j # k /\ place[j] = place[k]
  <2> HIDE DEF S, T, place
  <2> QED
    BY ONLY <1>6, <1>7, <1>8, FS_PigeonHole
<1>10. j \in 1..n /\ k \in 1..n /\ o[j] = o[k]
  BY <1>4, <1>9
<1> QED
  BY <1>1, <1>9, <1>10 DEF n

(***************************************************************************)
(* Every order has the same keys in the same places.                       *)
(***************************************************************************)
LEMMA SameKeys ==
    ASSUME Base, NEW o \in Orderings, NEW s \in Orderings, NEW i \in 1..Cardinality(Groups)
    PROVE  Key(o[i]) = Key(s[i])
<1>1. Before(Metric(s[i]), Metric(o[i])) /\ Before(Metric(o[i]), Metric(s[i]))
  BY NotLater
<1>2. o[i] \in Groups /\ s[i] \in Groups
  <2>1. o \in [1..Cardinality(Groups) -> Groups] /\ s \in [1..Cardinality(Groups) -> Groups]
    BY Ordered
  <2> QED
    BY <2>1
<1>3. Key(o[i]) \in Nat /\ Key(s[i]) \in Nat
  BY <1>2, Keys
<1> QED
  BY <1>1, <1>2, <1>3, Compared

(* Writers disturb the client, and failures end its walk.                  *)
LEMMA Disturbed ==
    ASSUME WalkInv, ~quiet', UNCHANGED <<req, pc, results, cut>>
    PROVE  WalkInv'
<1>1. ~Walks' /\ FirstPage' = FirstPage
  BY DEF Walks, FirstPage
<1>2. Placed'
  BY <1>1 DEF WalkInv, Placed, results
<1> QED
  BY <1>1, <1>2 DEF WalkInv, OnlyPage, Adding, InOrder

LEMMA WalkFails == ASSUME WalkInv, QueryFails PROVE WalkInv'
<1>1. pc' = "failed" /\ UNCHANGED <<table, req, results, cut, quiet>>
  BY DEF QueryFails
<1>2. UNCHANGED <<table, req, at, total, whole, seen, counted, cut, quiet>>
  BY <1>1 DEF results
<1>3. /\ Groups' = Groups /\ (\A c : Of(c)' = Of(c) /\ Key(c)' = Key(c)) /\ Orderings' = Orderings
      /\ FirstPage' = FirstPage /\ Skipped' = Skipped
  BY <1>2, SameQueries, SamePlace
<1>4. Walks' = Walks /\ Sizes' = Sizes
  BY <1>2, <1>3 DEF Walks, Sizes
<1>7. InOrder'
  BY <1>1, <1>2, <1>3, <1>4 DEF WalkInv, InOrder, Follows
<1>5. Placed'
  BY <1>1, <1>2, <1>3, <1>4 DEF WalkInv, Placed
<1>6. Adding'
  BY <1>2, <1>4 DEF WalkInv, Adding
<1> QED
  BY <1>1, <1>5, <1>6, <1>7 DEF WalkInv, OnlyPage

LEMMA WalkOpens == ASSUME Base, WalkInv, Open PROVE WalkInv'
<1>1. pc = "idle" /\ pc' = Head(Statements) /\ UNCHANGED <<table, req, at, total, whole, seen, counted, cut>>
  BY DEF Open, results
<1>2. at = FirstPage /\ seen = <<>> /\ counted = 0
  BY <1>1 DEF WalkInv, Placed
<1>3. FirstPage' = FirstPage /\ Skipped' = Skipped
  BY <1>1, SameQueries, SamePlace
<1>4. pc' \in {"count", "list", "gaps"}
  BY <1>1, Kinds DEF Statements
<1>5. req.kind \in {"metrics", "list"} => pc' \in {"count", "list"}
  BY <1>1 DEF Statements
<1>6. Len(seen') = 0 /\ DOMAIN seen' = {}
  BY <1>1, <1>2
<1>7. FirstPage = 1 => Skipped' = 0 /\ at' = 1
  BY <1>1, <1>2, <1>3, Paging, ReadsAssumption DEF Skipped, ReadsAssumption
<1>8. Placed'
  BY <1>1, <1>3, <1>4, <1>6, <1>7 DEF Placed, Walks
<1>9. Adding'
  BY <1>1, <1>2, <1>6, SumEmpty DEF Adding
<1>10. InOrder'
  BY <1>4, <1>6 DEF InOrder, Follows
<1> QED
  BY <1>4, <1>8, <1>9, <1>10 DEF WalkInv, OnlyPage

LEMMA WalkCounted == ASSUME Base, WalkInv, CountMetrics PROVE WalkInv'
<1>1. /\ pc = "count" /\ pc' = "page" /\ total' = Cardinality(Groups)
      /\ UNCHANGED <<table, req, at, whole, seen, counted, cut, quiet>>
  BY Steps DEF CountMetrics, Reading
<1>2. /\ Groups' = Groups /\ (\A c : Of(c)' = Of(c)) /\ FirstPage' = FirstPage /\ Skipped' = Skipped
      /\ Orderings' = Orderings /\ \A c : Key(c)' = Key(c)
  BY <1>1, SameQueries, SamePlace
<1>3. (Walks' <=> Walks) /\ Sizes' = Sizes
  BY <1>1, <1>2 DEF Walks, Sizes
<1>4. Placed'
  BY <1>1, <1>2, <1>3 DEF WalkInv, Placed
<1>5. Adding'
  BY <1>1, <1>3 DEF WalkInv, Adding
<1>6. InOrder'
  BY <1>1, <1>2, <1>3 DEF WalkInv, InOrder, Follows
<1> QED
  BY <1>1, <1>4, <1>5, <1>6 DEF WalkInv, OnlyPage

LEMMA WalkListed == ASSUME Base, WalkInv, ReadList PROVE WalkInv'
<1>1. /\ pc = "list" /\ pc' = "slice"
      /\ UNCHANGED <<table, req, at, total, seen, counted, quiet>>
  BY Steps DEF ReadList, Reading
<1>2. PICK s \in Shuffles(Groups) : \E n \in 0..Len(s) : Arrives(n, Len(s)) /\ whole' = SubSeq(s, 1, n)
  BY DEF ReadList
<1>3. PICK n \in 0..Len(s) : Arrives(n, Len(s)) /\ whole' = SubSeq(s, 1, n)
  BY <1>2
<1>4. s \in Seq(Groups)
  BY Shuffled, Finite DEF Base
<1>5. ~cut' => ~cut /\ whole' = s
  BY <1>3, <1>4 DEF Arrives
<1>6. /\ Groups' = Groups /\ (\A c : Of(c)' = Of(c)) /\ FirstPage' = FirstPage /\ Skipped' = Skipped
      /\ Shuffles(Groups)' = Shuffles(Groups)
  BY <1>1, SameQueries, SamePlace
<1>7. req.kind = "list"
  BY <1>1, Kinds DEF Base, Stages
<1>8. Placed'
  BY <1>1, <1>2, <1>5, <1>6 DEF WalkInv, Placed, Walks
<1> QED
  BY <1>1, <1>7, <1>8 DEF WalkInv, OnlyPage, Adding, InOrder

(* ReadPage continues the order that the client sees.                      *)
LEMMA WalkShown == ASSUME Base, Answers, WalkInv, ReadPage PROVE WalkInv'
<1>1. /\ pc = "page" /\ pc' \in {"next", "insights"}
      /\ UNCHANGED <<table, req, at, total, whole, quiet>>
  BY Steps DEF ReadPage, Reading
<1>2. /\ Groups' = Groups /\ (\A c : Of(c)' = Of(c)) /\ FirstPage' = FirstPage
      /\ Skipped' = Skipped /\ Size' = Size /\ Orderings' = Orderings /\ \A c : Key(c)' = Key(c)
  BY <1>1, SameQueries, SamePlace
<1>3. req.kind # "list"
  BY <1>1 DEF Base, Stages
<1> SUFFICES ASSUME Walks' PROVE WalkInv'
  BY <1>1, <1>3 DEF WalkInv, Placed, OnlyPage, Adding, InOrder
<1>4. PICK s \in Orderings : \E cells \in Seq(Groups) :
           /\ page' \in Seq(Metrics) /\ Len(page') = Len(cells)
           /\ \A i \in 1..Len(cells) : page'[i] = Metric(cells[i])
           /\ seen' = seen \o cells
           /\ counted' = counted + Summary(page')
           /\ ~cut' => ~cut /\ cells = Window(s)
  BY PageRead
<1>5. PICK cells \in Seq(Groups) :
           /\ page' \in Seq(Metrics) /\ Len(page') = Len(cells)
           /\ \A i \in 1..Len(cells) : page'[i] = Metric(cells[i])
           /\ seen' = seen \o cells
           /\ counted' = counted + Summary(page')
           /\ ~cut' => ~cut /\ cells = Window(s)
  BY <1>4
<1>6. Walks /\ cells = Window(s)
  BY <1>1, <1>2, <1>5 DEF Walks
<1>7. /\ Skipped \in Nat /\ Size \in Nat \ {0} /\ Cardinality(Groups) \in Nat
      /\ Skipped <= Cardinality(Groups)
  BY <1>6, Within DEF WalkInv
<1>8. /\ Len(cells) = IF Skipped + Size <= Cardinality(Groups) THEN Size ELSE Cardinality(Groups) - Skipped
      /\ \A i \in DOMAIN cells : cells[i] = s[Skipped + i]
  BY <1>6, <1>7, Windowed DEF Orderings
<1>9. Len(seen) = Skipped /\ total = Cardinality(Groups) /\ (at > 1 => Skipped < Cardinality(Groups))
  BY <1>1, <1>6 DEF WalkInv, Placed
<1>10. /\ seen \in Seq(Cells) /\ cells \in Seq(Cells) /\ counted \in Nat
       /\ Groups \subseteq Cells
  BY Finite DEF Answers, Base
<1>11. /\ Len(seen') = Len(seen) + Len(cells)
       /\ DOMAIN seen' = 1..(Len(seen) + Len(cells)) /\ DOMAIN seen = 1..Len(seen)
       /\ \A i \in 1..Len(seen) : seen'[i] = seen[i]
       /\ \A i \in 1..Len(cells) : seen'[Len(seen) + i] = cells[i]
  BY <1>5, <1>10
<1>12. Placed'
  <2>1. Len(seen') = IF Skipped + Size <= Cardinality(Groups) THEN Skipped + Size ELSE Cardinality(Groups)
    BY <1>7, <1>8, <1>9, <1>11
  <2> QED
    BY <1>1, <1>2, <1>9, <2>1 DEF Placed
<1>13. Adding'
  <2> DEFINE m == Len(seen)
             k == Len(cells)
             f == Sizes
             g == [i \in DOMAIN page' |-> page'[i].transaction_count]
             h == Sizes'
  <2>1. m \in Nat /\ k \in Nat /\ DOMAIN page' = 1..k
    BY <1>5, <1>10
  <2>2. \A c : Cardinality(Of(c)) \in Nat
    BY Finite DEF Base
  <2>3. h = [i \in 1..(m + k) |-> Cardinality(Of(seen'[i]))]
    BY <1>2, <1>11 DEF Sizes
  <2>4. \A i \in 1..m : f[i] = Cardinality(Of(seen[i]))
    BY <1>11 DEF Sizes
  <2>5. \A i \in 1..k : g[i] = Cardinality(Of(cells[i]))
    <3> SUFFICES ASSUME NEW i \in 1..k PROVE g[i] = Cardinality(Of(cells[i]))
      OBVIOUS
    <3>1. cells[i] \in Cells
      BY <1>10
    <3>2. page'[i].transaction_count = Cardinality(Of(cells[i]))
      BY <1>5, <3>1, Measured DEF Base
    <3> QED
      BY <2>1, <3>2
  <2>6. SumFunctionOnSet(f, 1..m) = counted
    BY <1>3, <1>6, <1>11, Kinds DEF WalkInv, Adding, Walks
  <2>7. Summary(page') = SumFunctionOnSet(g, 1..k)
    <3>1. DOMAIN g = 1..k
      BY <2>1
    <3> HIDE DEF g, k
    <3> QED
      BY <3>1 DEF Summary, SumFunction, g
  <2> HIDE DEF m, k, f, g, h
  <2>8. \A i \in 1..m : f[i] \in Int /\ h[i] = f[i]
    <3> SUFFICES ASSUME NEW i \in 1..m PROVE f[i] \in Int /\ h[i] = f[i]
      OBVIOUS
    <3>1. i \in 1..(m + k)
      BY <2>1
    <3>2. seen'[i] = seen[i]
      BY <1>11 DEF m
    <3> QED
      BY <2>2, <2>3, <2>4, <3>1, <3>2
  <2>9. \A i \in 1..k : g[i] \in Int /\ h[m + i] = g[i]
    <3> SUFFICES ASSUME NEW i \in 1..k PROVE g[i] \in Int /\ h[m + i] = g[i]
      OBVIOUS
    <3>1. m + i \in 1..(m + k)
      BY <2>1
    <3>2. seen'[m + i] = cells[i]
      BY <1>11 DEF m, k
    <3> QED
      BY <2>2, <2>3, <2>5, <3>1, <3>2
  <2>10. SumFunctionOnSet(h, 1..(m + k)) = SumFunctionOnSet(f, 1..m) + SumFunctionOnSet(g, 1..k)
    <3>1. /\ m \in Nat /\ k \in Nat
          /\ \A i \in 1..m : f[i] \in Int /\ h[i] = f[i]
          /\ \A i \in 1..k : g[i] \in Int /\ h[m + i] = g[i]
      BY <2>1, <2>8, <2>9
    <3> QED
      BY ONLY <3>1, SumContinued, SMTT(30)
  <2>11. counted' = SumFunctionOnSet(h, DOMAIN seen')
    BY <1>5, <1>11, <2>6, <2>7, <2>10 DEF m, k
  <2> QED
    BY <2>11 DEF Adding, h
<1>14. InOrder'
  <2> SUFFICES ASSUME NEW o \in Orderings PROVE Follows(o)'
    BY <1>1, <1>2 DEF InOrder
  <2>1. \A i \in 1..Len(seen) : seen[i] \in Groups /\ Key(seen[i]) = Key(o[i])
    BY <1>1, <1>2, <1>3, <1>6, <1>11, Kinds DEF WalkInv, InOrder, Follows, Walks
  <2>2. ASSUME NEW i \in 1..(Len(seen) + Len(cells)) PROVE seen'[i] \in Groups /\ Key(seen'[i]) = Key(o[i])
    <3>1. CASE i \in 1..Len(seen)
      BY <1>11, <2>1, <3>1
    <3>2. CASE i \notin 1..Len(seen)
      <4> DEFINE j == i - Len(seen)
      <4>1. j \in 1..Len(cells) /\ i = Len(seen) + j /\ DOMAIN cells = 1..Len(cells)
        BY <1>5, <1>10, <3>2
      <4>2. i \in 1..Cardinality(Groups)
        BY <1>7, <1>8, <1>9, <4>1
      <4> HIDE DEF j
      <4>3. seen'[i] = s[i] /\ seen'[i] \in Groups
        BY <1>8, <1>9, <1>11, <4>1
      <4> QED
        BY <4>2, <4>3, SameKeys
    <3> QED
      BY <3>1, <3>2
  <2> QED
    BY <1>2, <1>11, <2>2 DEF Follows
<1> QED
  BY <1>3, <1>12, <1>13, <1>14, <1>1 DEF WalkInv, OnlyPage

(* The sum of two ints that does not fit one is negative.                  *)
LEMMA Overflowing == ASSUME NEW n \in Nat, MaxInt < n, n <= 2 * MaxInt + 1 PROVE Wrap(n) < 0
<1> DEFINE b == 2 * (MaxInt + 1)
           a == n + MaxInt + 1
<1>1. MaxInt \in Nat
  BY ReadsAssumption DEF ReadsAssumption
<1>2. b \in Nat /\ b > 0 /\ a \in Nat /\ a - b \in Nat /\ a - b < b
  BY <1>1
<1>3. \A x \in Nat, y \in Nat : y > 0 /\ x < y => (x + y) % y = x
  OBVIOUS
<1> DEFINE r == a % b
           d == a - b
<1>4. d \in Nat /\ d < b /\ d + b = a
  BY <1>2
<1>5. r = d
  <2> HIDE DEF a, b, d
  <2> QED
    BY <1>2, <1>3, <1>4
<1>6. Wrap(n) = r - (MaxInt + 1)
  BY DEF Wrap
<1>7. d = n - (MaxInt + 1)
  BY <1>1
<1> HIDE DEF r, d
<1> QED
  BY <1>1, <1>5, <1>6, <1>7

(* SliceList continues the list, or panics: the page begins in the list,   *)
(* and if its end overflows it comes before the beginning.                 *)
LEMMA WalkSliced == ASSUME Base, Answers, WalkInv, SliceList PROVE WalkInv'
<1>1. /\ pc = "slice" /\ total' = Len(whole)
      /\ UNCHANGED <<table, req, at, whole, counted, cut, quiet>>
  BY DEF SliceList
<1>2. /\ Groups' = Groups /\ (\A c : Of(c)' = Of(c)) /\ FirstPage' = FirstPage
      /\ Skipped' = Skipped /\ Size' = Size
  BY <1>1, SameQueries, SamePlace
<1>3. req.kind \in {"list", "gaps"} /\ (Walks' <=> Walks)
  BY <1>1, <1>2, Kinds DEF Base, Stages, Walks
<1>4. pc' \in {"panicked", "next", "done"} /\ (req.kind = "list" => pc' \in {"panicked", "next"})
  BY <1>1, Steps DEF SliceList
<1>5. Adding' /\ InOrder'
  BY <1>1, <1>3 DEF Adding, InOrder
<1>6. CASE ~Walks'
  BY <1>4, <1>5, <1>6 DEF WalkInv, Placed, OnlyPage
<1>7. CASE Walks /\ pc' = "panicked"
  <2>1. Placed'
    BY <1>1, <1>2, <1>3, <1>7 DEF WalkInv, Placed
  <2> QED
    BY <1>5, <1>7, <2>1 DEF WalkInv, OnlyPage
<1>8. CASE Walks /\ pc' # "panicked"
  <2> DEFINE n == Cardinality(Groups)
             start == Min({Offset, total'})
             end == Min({Wrap(Offset + Size), total'})
  <2>1. /\ Skipped \in Nat /\ Size \in Nat \ {0} /\ n \in Nat /\ n <= MaxInt /\ Skipped <= n
        /\ at = 1 => Skipped = 0
    BY <1>8, Within DEF WalkInv
  <2>2. Len(seen) = Skipped /\ whole \in Shuffles(Groups) /\ (at > 1 => Skipped < n)
    BY <1>1, <1>8 DEF WalkInv, Placed
  <2>3. whole \in Seq(Groups) /\ Len(whole) = n /\ Groups \subseteq Cells
    BY <2>2, Shuffled, Finite DEF Base
  <2>4. /\ 0 <= start /\ start <= end
        /\ page' = SubSeq(whole, start + 1, end)
        /\ seen' = seen \o page'
        /\ pc' = "next"
    BY <1>3, <1>4, <1>8 DEF SliceList, Show, Walks
  <2>5. Offset = Skipped
    BY <2>1, Paging, Wrapping, ReadsAssumption DEF ReadsAssumption
  <2>6. Wrap(Skipped + Size) = Skipped + Size
    <3>1. Size <= MaxInt /\ MaxInt \in Nat
      BY Paging, ReadsAssumption DEF ReadsAssumption
    <3>2. CASE Skipped + Size <= MaxInt
      BY <2>1, <3>2, Wrapping
    <3>3. CASE Skipped + Size > MaxInt
      <4>1. Wrap(Skipped + Size) < 0 /\ Wrap(Skipped + Size) \in Int
        BY <2>1, <3>1, <3>3, Overflowing, Wrapping
      <4>2. end < 0 /\ end \in Int
        BY <1>1, <2>1, <2>3, <2>5, <4>1, MinOfTwo
      <4>3. start = Skipped
        BY <1>1, <2>1, <2>3, <2>5, MinOfTwo
      <4> HIDE DEF start, end
      <4> QED
        BY <2>1, <2>4, <4>2, <4>3
    <3> QED
      BY <2>1, <3>1, <3>2, <3>3
  <2>7. start = Skipped /\ end = IF Skipped + Size <= n THEN Skipped + Size ELSE n
    BY <1>1, <2>1, <2>3, <2>5, <2>6, MinOfTwo
  <2> HIDE DEF start, end
  <2>8. /\ end \in Nat /\ end <= n /\ page' = SubSeq(whole, Skipped + 1, end)
        /\ page' \in Seq(Groups) /\ Len(page') = end - Skipped
    BY <2>1, <2>3, <2>4, <2>7
  <2>9. seen \in Seq(Cells) /\ page' \in Seq(Cells)
    BY <2>3, <2>8 DEF Answers
  <2>10. Len(seen') = end
    BY <2>1, <2>2, <2>4, <2>8, <2>9
  <2>11. Placed'
    BY <1>1, <1>2, <2>2, <2>3, <2>4, <2>7, <2>10 DEF Placed
  <2>12. ASSUME at = 1, n <= Size PROVE {seen'[j] : j \in DOMAIN seen'} = Groups
    <3>1. Skipped = 0 /\ end = n
      BY <2>1, <2>7, <2>12
    <3>2. page' = whole /\ seen = <<>>
      BY <2>2, <2>3, <2>8, <2>9, <3>1
    <3>3. seen' = whole
      <4>1. seen' = <<>> \o whole
        BY <2>4, <3>2
      <4>2. \A q \in Seq(Groups) : <<>> \o q = q
        OBVIOUS
      <4> QED
        BY <2>3, <4>1, <4>2
    <3>4. DOMAIN whole = 1..n /\ (\A c \in Groups : \E j \in 1..n : whole[j] = c)
          /\ \A j \in 1..n : whole[j] \in Groups
      BY <2>2 DEF Shuffles, Bijection, Injection, Surjection
    <3> QED
      BY <3>3, <3>4
  <2>13. OnlyPage'
    BY <1>1, <1>2, <2>12 DEF OnlyPage
  <2> QED
    BY <1>5, <2>11, <2>13 DEF WalkInv
<1> QED
  BY <1>3, <1>6, <1>7, <1>8

(* There is a next page while rows are left.                               *)
LEMMA PagesLeft ==
    ASSUME Base, Placed, Walks, pc = "next"
    PROVE  at < TotalPages <=> Skipped + Size < Cardinality(Groups)
<1>1. /\ Size \in Nat \ {0} /\ Cardinality(Groups) \in Nat /\ total = Cardinality(Groups)
      /\ at \in Nat \ {0} /\ Skipped = (at - 1) * Size
  BY Within DEF Placed, Base, Skipped
<1> DEFINE a == at * Size
           t == total + Size - 1
           q == t \div Size
           qk == q * Size
           above == (at + 1) * Size
<1>2. Skipped + Size = a
  BY <1>1
<1>3. t \in Nat /\ q \in Nat /\ TotalPages = q
  BY <1>1 DEF TotalPages
<1>4. qk \in Nat /\ qk <= t /\ t < qk + Size
  <2>1. \A x \in Nat, y \in Nat \ {0} : (x \div y) * y <= x /\ x < (x \div y) * y + y
    OBVIOUS
  <2> HIDE DEF t
  <2> QED
    BY <1>1, <1>3, <2>1
<1>5. \A x, y \in Nat, z \in Nat \ {0} : x <= y => x * z <= y * z
  OBVIOUS
<1>6. above = a + Size /\ a \in Nat
  BY <1>1
<1> HIDE DEF q
<1>7. ASSUME at < q PROVE a < total
  <2>1. at + 1 <= q
    BY <1>1, <1>3, <1>7
  <2>2. above <= qk
    BY <1>1, <1>3, <1>5, <2>1
  <2> HIDE DEF above, qk, a
  <2> QED
    BY <1>1, <1>3, <1>4, <1>6, <2>2
<1>8. ASSUME ~(at < q) PROVE total <= a
  <2>1. q <= at
    BY <1>1, <1>3, <1>8
  <2>2. qk <= a
    BY <1>1, <1>3, <1>5, <2>1
  <2> HIDE DEF qk, a
  <2> QED
    BY <1>1, <1>3, <1>4, <1>6, <2>2
<1> HIDE DEF a
<1> QED
  BY <1>1, <1>2, <1>3, <1>6, <1>7, <1>8

LEMMA WalkOn == ASSUME Base, Answers, WalkInv, NextPage PROVE WalkInv'
<1>1. /\ pc = "next" /\ UNCHANGED <<table, req, total, whole, seen, counted, cut, quiet>>
      /\ IF at < TotalPages THEN pc' = Head(Statements) /\ at' = at + 1 ELSE pc' = "done" /\ at' = at
  BY DEF NextPage
<1>2. req.kind \in {"metrics", "list"}
  BY <1>1, Kinds DEF Base, Stages
<1>3. Head(Statements) = IF req.kind = "metrics" THEN "count" ELSE "list"
  BY <1>2 DEF Statements
<1>4. /\ Groups' = Groups /\ (\A c : Of(c)' = Of(c)) /\ FirstPage' = FirstPage
      /\ Size' = Size /\ Orderings' = Orderings /\ \A c : Key(c)' = Key(c)
  BY <1>1, SameQueries
<1>5. (Walks' <=> Walks) /\ Sizes' = Sizes
  BY <1>1, <1>4 DEF Walks, Sizes
<1>6. pc' \in {"count", "list", "done"}
  BY <1>1, <1>3
<1>7. CASE ~Walks
  BY <1>5, <1>6, <1>7 DEF WalkInv, Placed, OnlyPage, Adding, InOrder
<1>8. CASE Walks
  <2>1. /\ Skipped \in Nat /\ Size \in Nat \ {0} /\ Cardinality(Groups) \in Nat
        /\ Skipped <= Cardinality(Groups) /\ (at = 1 => Skipped = 0)
        /\ (at < TotalPages <=> Skipped + Size < Cardinality(Groups))
    BY <1>1, <1>8, Within, PagesLeft DEF WalkInv
  <2>2. /\ Len(seen) = IF Skipped + Size <= Cardinality(Groups) THEN Skipped + Size ELSE Cardinality(Groups)
        /\ total = Cardinality(Groups)
        /\ at > 1 => Skipped < Cardinality(Groups)
    BY <1>1, <1>8 DEF WalkInv, Placed
  <2>3. ASSUME at < TotalPages PROVE Placed'
    <3>1. Skipped' = Skipped + Size
      <4>1. at \in Nat \ {0} /\ Skipped = (at - 1) * Size /\ Skipped' = ((at + 1) - 1) * Size
        BY <1>1, <1>4, <2>3 DEF Base, Skipped
      <4> QED
        BY <2>1, <4>1
    <3>2. pc' \in {"count", "list"} /\ Skipped' < Cardinality(Groups) /\ Len(seen) = Skipped'
      BY <1>1, <1>3, <2>1, <2>2, <2>3, <3>1
    <3> QED
      BY <1>1, <1>4, <3>2 DEF Placed
  <2>4. ASSUME ~(at < TotalPages) PROVE Placed'
    <3>1. pc' = "done" /\ at' = at /\ Len(seen) = Cardinality(Groups) /\ Skipped' = Skipped
      BY <1>1, <1>4, <2>1, <2>2, <2>4 DEF Skipped
    <3> QED
      BY <1>1, <1>4, <2>2, <3>1 DEF Placed
  <2>5. Placed'
    BY <2>3, <2>4
  <2>6. OnlyPage'
    <3>1. pc' = "done" => at' = at
      BY <1>1, <1>3
    <3> QED
      BY <1>1, <1>4, <1>5, <1>6, <3>1 DEF WalkInv, OnlyPage
  <2>7. Adding'
    BY <1>1, <1>5 DEF WalkInv, Adding
  <2>8. InOrder'
    BY <1>1, <1>4, <1>5, <1>6 DEF WalkInv, InOrder, Follows
  <2> QED
    BY <2>5, <2>6, <2>7, <2>8 DEF WalkInv
<1> QED
  BY <1>7, <1>8

LEMMA WalkInductive == TypedReads /\ WalkInv /\ [Next]_vars => WalkInv'
<1> SUFFICES ASSUME TypedReads, WalkInv, [Next]_vars PROVE WalkInv'
  OBVIOUS
<1> USE DEF TypedReads, RInv
<1>1. CASE (\E rows \in Posts : Post(rows)) \/ (\E i \in DOMAIN table : Age(i))
  <2>1. ~quiet' /\ UNCHANGED <<req, pc, results, cut>>
    BY <1>1 DEF Post, Age
  <2> QED
    BY <2>1, Disturbed
<1>2. CASE ReadGaps \/ ReadCoverage \/ ReadInsights
  <2>1. pc \in {"gaps", "coverage", "insights"} /\ pc' # "idle" /\ req' = req
    BY <1>2, Steps DEF ReadGaps, ReadCoverage, ReadInsights, Reading
  <2>2. req.kind \notin {"metrics", "list"}
    BY <2>1 DEF Base, Stages
  <2> QED
    BY <2>1, <2>2 DEF WalkInv, Placed, OnlyPage, Adding, InOrder, Walks
<1>3. CASE UNCHANGED vars
  <2>1. UNCHANGED <<table, req, pc, at, total, whole, seen, counted, cut, quiet>>
    BY <1>3 DEF vars, results
  <2>2. /\ Groups' = Groups /\ (\A c : Of(c)' = Of(c)) /\ FirstPage' = FirstPage /\ Size' = Size
        /\ Skipped' = Skipped /\ Orderings' = Orderings /\ (\A c : Key(c)' = Key(c))
        /\ Shuffles(Groups)' = Shuffles(Groups)
    BY <2>1, SameQueries, SamePlace
  <2>3. (Walks' <=> Walks) /\ Sizes' = Sizes
    BY <2>1, <2>2 DEF Walks, Sizes
  <2>4. Placed'
    BY <2>1, <2>2, <2>3 DEF WalkInv, Placed
  <2>5. OnlyPage' /\ Adding' /\ InOrder'
    BY <2>1, <2>2, <2>3 DEF WalkInv, OnlyPage, Adding, InOrder, Follows
  <2> QED
    BY <2>4, <2>5 DEF WalkInv
<1> QED
  BY <1>1, <1>2, <1>3, WalkOpens, WalkCounted, WalkListed, WalkShown, WalkSliced, WalkOn, WalkFails
     DEF Next, Finished

LEMMA WalkInvariant == Spec => []WalkInv
<1>1. Init => WalkInv
  BY DEF Init, WalkInv, Placed, OnlyPage, Adding, InOrder, Walks
<1> QED
  BY <1>1, WalkInductive, ReadsTyped, PTL DEF Spec

(***************************************************************************)
(* Following the pages of GetROI or GetTrends, which are sliced from a     *)
(* list in another order each time, shows as many rows as there are cells, *)
(* and all of them if one page does - for any page_size.                   *)
(***************************************************************************)
THEOREM WalkCountsInvariant == Spec => []WalkCounts
<1>1. ASSUME TypedReads, WalkInv PROVE WalkCounts
  <2> SUFFICES ASSUME req.kind = "list", Walked
               PROVE  /\ Len(seen) = Cardinality(Groups)
                      /\ Len(seen) <= Size => {seen[i] : i \in DOMAIN seen} = Groups
    BY DEF WalkCounts
  <2>1. Walks /\ pc = "done" /\ Base /\ Placed
    BY <1>1 DEF Walks, Walked, TypedReads, RInv, WalkInv
  <2>2. Len(seen) = Cardinality(Groups) /\ (at > 1 => Skipped < Cardinality(Groups))
    BY <2>1 DEF Placed
  <2>3. ASSUME Len(seen) <= Size PROVE at = 1
    <3> SUFFICES ASSUME at # 1 PROVE FALSE
      OBVIOUS
    <3>1. at \in Nat /\ at > 1 /\ Skipped = (at - 1) * Size
      BY <2>1 DEF Base, Skipped
    <3>2. Size \in Nat \ {0} /\ Cardinality(Groups) \in Nat
      BY <2>1, Within
    <3>3. \A k \in Nat \ {0}, z \in Nat : k * z >= z
      OBVIOUS
    <3> DEFINE k == at - 1
               kz == k * Size
    <3>4. k \in Nat \ {0} /\ Skipped = kz
      BY <3>1
    <3>5. kz >= Size /\ kz \in Nat
      <4> HIDE DEF k
      <4> QED
        BY <3>2, <3>3, <3>4
    <3> HIDE DEF kz
    <3> QED
      BY <2>2, <2>3, <3>1, <3>2, <3>4, <3>5
  <2> QED
    BY <1>1, <2>1, <2>2, <2>3 DEF WalkInv, OnlyPage
<1>2. TypedReads /\ WalkInv => WalkCounts
  BY <1>1
<1> QED
  BY <1>2, ReadsTyped, WalkInvariant, PTL

(***************************************************************************)
(* Following the pages of GetMetrics shows as many rows of each sort key   *)
(* as there are cells with it, so every cell once if no two have the same, *)
(* and the summaries of the pages, each of its own rows, add up to all the *)
(* transactions of the cells - for any table.                              *)
(***************************************************************************)
THEOREM WalkCompleteInvariant == Spec => []WalkComplete
<1>1. ASSUME TypedReads, WalkInv PROVE WalkComplete
  <2> SUFFICES ASSUME req.kind = "metrics", Walked
               PROVE  /\ Len(seen) = Cardinality(Groups)
                      /\ \A c \in Groups :
                            Cardinality({i \in DOMAIN seen : seen[i] \in Tied(c)}) = Cardinality(Tied(c))
                      /\ Untied \/ req.sort = "transaction_count" =>
                            counted = Cardinality(UNION {Of(c) : c \in Groups})
    BY DEF WalkComplete
  <2> DEFINE n == Cardinality(Groups)
             sizes == [c \in Groups |-> Cardinality(Of(c))]
             D == [c \in Groups |-> Of(c)]
  <2>1. Walks /\ pc = "done" /\ Base /\ Answers
    BY <1>1 DEF Walks, Walked, TypedReads, RInv
  <2>2. Len(seen) = n /\ counted = SumFunctionOnSet(Sizes, DOMAIN seen)
    BY <1>1, <2>1 DEF WalkInv, Placed, Adding
  <2>3. PICK o \in Orderings : Follows(o)
    BY <1>1, <2>1 DEF WalkInv, InOrder
  <2>4. n \in Nat /\ IsFiniteSet(Groups) /\ \A c : IsFiniteSet(Of(c)) /\ Cardinality(Of(c)) \in Nat
    BY <2>1, Finite DEF Base
  <2>5. DOMAIN seen = 1..n /\ \A i \in 1..n : seen[i] \in Groups /\ Key(seen[i]) = Key(o[i])
    BY <2>1, <2>2, <2>3 DEF Answers, Follows
  <2>6. /\ o \in [1..n -> Groups]
        /\ \A i, j \in 1..n : o[i] = o[j] => i = j
        /\ \A c \in Groups : \E i \in 1..n : o[i] = c
    BY <2>1, Ordered
  <2>7. o \in Bijection(1..n, Groups)
    BY DEF Orderings, Shuffles
  <2> HIDE DEF n
  <2>8. ASSUME NEW c \in Groups
        PROVE  Cardinality({i \in DOMAIN seen : seen[i] \in Tied(c)}) = Cardinality(Tied(c))
    <3> DEFINE I == {i \in DOMAIN seen : seen[i] \in Tied(c)}
               T == Tied(c)
               f == [i \in I |-> o[i]]
    <3>1. \A i : i \in I <=> i \in 1..n /\ o[i] \in T
      BY <2>5, <2>6 DEF Tied
    <3>2. IsFiniteSet(I)
      <4>1. IsFiniteSet(1..n) /\ I \subseteq 1..n
        BY <2>4, <3>1, FS_Interval
      <4> HIDE DEF I
      <4> QED
        BY <4>1, FS_Subset
    <3>3. T \subseteq Groups
      BY DEF Tied
    <3> HIDE DEF I, T
    <3>4. f \in Bijection(I, T)
      <4>1. f \in [I -> T] /\ \A i, j \in I : f[i] = f[j] => i = j
        BY <2>6, <3>1
      <4>2. \A d \in T : \E i \in I : f[i] = d
        <5> SUFFICES ASSUME NEW d \in T PROVE \E i \in I : f[i] = d
          OBVIOUS
        <5>1. PICK i \in 1..n : o[i] = d
          BY <2>6, <3>3
        <5> QED
          BY <3>1, <5>1
      <4> QED
        BY <4>1, <4>2 DEF Bijection, Injection, Surjection, IsInjective
    <3>5. ExistsBijection(I, T)
      BY <3>4 DEF ExistsBijection
    <3>6. Cardinality(T) = Cardinality(I)
      BY ONLY <3>2, <3>5, FS_Bijection
    <3> QED
      BY <3>6 DEF I, T
  <2>9. ASSUME Untied \/ req.sort = "transaction_count"
        PROVE  \A i \in 1..n : Cardinality(Of(seen[i])) = Cardinality(Of(o[i]))
    <3>1. CASE Untied
      BY <2>5, <2>6, <3>1 DEF Untied, Tied
    <3>2. CASE req.sort = "transaction_count"
      <4> SUFFICES ASSUME NEW i \in 1..n PROVE Cardinality(Of(seen[i])) = Cardinality(Of(o[i]))
        OBVIOUS
      <4>1. seen[i] \in Cells /\ o[i] \in Cells
        BY <2>1, <2>5, <2>6, Finite DEF Base
      <4>2. Key(seen[i]) = Cardinality(Of(seen[i])) /\ Key(o[i]) = Cardinality(Of(o[i]))
        BY <2>1, <3>2, <4>1, Measured DEF Base, Key
      <4> QED
        BY <2>5, <4>2
    <3> QED
      BY <2>9, <3>1, <3>2
  <2>10. ASSUME Untied \/ req.sort = "transaction_count"
         PROVE  SumFunctionOnSet(Sizes, 1..n) = SumFunctionOnSet(sizes, Groups)
    <3> DEFINE I == 1..n
               shown == Sizes
               G == Groups
    <3>1. IsFiniteSet(I) /\ o \in Bijection(I, G)
      BY <2>4, <2>7, FS_Interval
    <3>2. \A i \in I : shown[i] \in Int /\ sizes[o[i]] = shown[i]
      BY <2>4, <2>5, <2>6, <2>9, <2>10 DEF Sizes
    <3> HIDE DEF sizes, shown, I, G
    <3>3. SumFunctionOnSet(shown, I) = SumFunctionOnSet(sizes, G)
      BY ONLY <3>1, <3>2, SumRenamed
    <3> QED
      BY <3>3 DEF shown, I, G
  <2>11. SumFunctionOnSet(sizes, Groups) = Cardinality(UNION {Of(c) : c \in Groups})
    <3> DEFINE G == Groups
               W == UNION {Of(c) : c \in Groups}
    <3>1. /\ IsFiniteSet(G)
          /\ \A c \in G : IsFiniteSet(D[c]) /\ sizes[c] = Cardinality(D[c])
          /\ \A c, d \in G : c # d => D[c] \cap D[d] = {}
          /\ \A e : e \in W <=> \E c \in G : e \in D[c]
      BY <2>4 DEF Of
    <3> HIDE DEF sizes, D, G, W
    <3>2. SumFunctionOnSet(sizes, G) = Cardinality(W)
      BY ONLY <3>1, SumOfSizes
    <3> QED
      BY <3>2 DEF G, W
  <2> HIDE DEF sizes, D
  <2> QED
    BY <2>2, <2>5, <2>8, <2>10, <2>11 DEF n
<1>2. TypedReads /\ WalkInv => WalkComplete
  BY <1>1
<1> QED
  BY <1>2, ReadsTyped, WalkInvariant, PTL

=============================================================================
