------------------------- MODULE SchemaEditorProofs -------------------------
(***************************************************************************)
(* Proofs about SchemaEditor, from the inside out:                         *)
(*  - lists: slices and insertions position by position, and what a move   *)
(*    within a list keeps;                                                 *)
(*  - paths, and trees: a component at a path, another list at a path,     *)
(*    and what two changes at nested or separate paths add up to;          *)
(*  - the components and the lists of a changed tree;                      *)
(*  - drops: the three cases of handleDropHelper agree;                    *)
(*  - the inductive invariant, and the properties of the editor.           *)
(***************************************************************************)
EXTENDS SchemaEditor, Integers, SequenceTheorems, FiniteSetTheorems, TLAPS

-----------------------------------------------------------------------------
(* Lists. *)

\* A slice within the list has the elements of its range, in order.
LEMMA SliceElements ==
  ASSUME NEW S, NEW list \in Seq(S), NEW from \in Nat, NEW to \in Nat,
         from <= to, to <= Len(list)
  PROVE  /\ Slice(list, from, to) \in Seq(S)
         /\ Len(Slice(list, from, to)) = to - from
         /\ \A j \in 1 .. to - from : Slice(list, from, to)[j] = list[from + j]
<1>1. Slice(list, from, to) = SubSeq(list, from + 1, to)
  <2>1. Len(list) \in Nat
    BY LenProperties
  <2>2. (IF to < Len(list) THEN to ELSE Len(list)) = to
    BY <2>1
  <2>3. QED
    BY <2>2 DEF Slice
<1>2. \A j \in from + 1 .. to : list[j] \in S
  BY ElementOfSeq, LenProperties
<1>3. /\ SubSeq(list, from + 1, to) \in Seq(S)
      /\ Len(SubSeq(list, from + 1, to))
           = IF from + 1 <= to THEN to - (from + 1) + 1 ELSE 0
      /\ \A j \in 1 .. to - (from + 1) + 1 :
           SubSeq(list, from + 1, to)[j] = list[from + 1 + j - 1]
  BY <1>2, SubSeqProperties
<1>4. /\ (IF from + 1 <= to THEN to - (from + 1) + 1 ELSE 0) = to - from
      /\ to - (from + 1) + 1 = to - from
      /\ \A j \in 1 .. to - from : from + 1 + j - 1 = from + j
  OBVIOUS
<1>5. QED
  BY <1>1, <1>3, <1>4

\* The slice from a position to the end of the list.
LEMMA TailElements ==
  ASSUME NEW S, NEW list \in Seq(S), NEW from \in Nat, from <= Len(list)
  PROVE  /\ Slice(list, from, Len(list)) \in Seq(S)
         /\ Len(Slice(list, from, Len(list))) = Len(list) - from
         /\ \A j \in 1 .. Len(list) - from :
              Slice(list, from, Len(list))[j] = list[from + j]
<1> DEFINE n == Len(list)
<1>1. n \in Nat /\ n <= n /\ from <= n
  BY LenProperties
<1>2. QED
  BY <1>1, SliceElements, Zenon DEF n

\* A slice that ends beyond the list ends with it.
LEMMA SliceCut ==
  ASSUME NEW S, NEW list \in Seq(S), NEW from \in Nat, NEW to \in Nat,
         Len(list) <= to
  PROVE  Slice(list, from, to) = Slice(list, from, Len(list))
<1>1. Len(list) \in Nat
  BY LenProperties
<1>2. (IF to < Len(list) THEN to ELSE Len(list))
        = (IF Len(list) < Len(list) THEN Len(list) ELSE Len(list))
  BY <1>1
<1>3. QED
  BY <1>2 DEF Slice

\* Three parts, one after the other.
LEMMA ThreeParts ==
  ASSUME NEW S, NEW a \in Seq(S), NEW b \in Seq(S), NEW c \in Seq(S)
  PROVE  /\ a \o b \o c \in Seq(S)
         /\ Len(a \o b \o c) = Len(a) + Len(b) + Len(c)
         /\ \A j \in 1 .. Len(a) + Len(b) + Len(c) :
              (a \o b \o c)[j] =
                IF j <= Len(a) THEN a[j]
                ELSE IF j <= Len(a) + Len(b) THEN b[j - Len(a)]
                ELSE c[j - Len(a) - Len(b)]
<1>1. Len(a) \in Nat /\ Len(b) \in Nat /\ Len(c) \in Nat
  BY LenProperties
<1>2. /\ a \o b \in Seq(S)
      /\ Len(a \o b) = Len(a) + Len(b)
      /\ \A j \in 1 .. Len(a) + Len(b) :
           (a \o b)[j] = IF j <= Len(a) THEN a[j] ELSE b[j - Len(a)]
  BY ConcatProperties
<1>3. /\ (a \o b) \o c \in Seq(S)
      /\ Len((a \o b) \o c) = Len(a \o b) + Len(c)
      /\ \A j \in 1 .. Len(a \o b) + Len(c) :
           ((a \o b) \o c)[j] =
             IF j <= Len(a \o b) THEN (a \o b)[j] ELSE c[j - Len(a \o b)]
  BY <1>2, ConcatProperties
<1>4. ASSUME NEW j \in 1 .. Len(a) + Len(b) + Len(c)
      PROVE  (a \o b \o c)[j] =
               IF j <= Len(a) THEN a[j]
               ELSE IF j <= Len(a) + Len(b) THEN b[j - Len(a)]
               ELSE c[j - Len(a) - Len(b)]
  <2>1. CASE j <= Len(a) + Len(b)
    BY <1>1, <1>2, <1>3, <2>1
  <2>2. CASE ~(j <= Len(a) + Len(b))
    <3>1. ~(j <= Len(a))
      BY <1>1, <2>2
    <3>2. j - (Len(a) + Len(b)) = j - Len(a) - Len(b)
      BY <1>1
    <3>3. (a \o b \o c)[j] = c[j - (Len(a) + Len(b))]
      BY <1>1, <1>2, <1>3, <2>2
    <3>4. QED
      BY <2>2, <3>1, <3>2, <3>3
  <2>3. QED
    BY <2>1, <2>2
<1>5. QED
  BY <1>2, <1>3, <1>4

\* A component taken out of a list leaves the others in their order.
LEMMA WithoutElements ==
  ASSUME NEW S, NEW list \in Seq(S), NEW i \in 0 .. Len(list) - 1
  PROVE  /\ Without(list, i) \in Seq(S)
         /\ Len(Without(list, i)) = Len(list) - 1
         /\ \A j \in 1 .. Len(list) - 1 :
              Without(list, i)[j] = IF j <= i THEN list[j] ELSE list[j + 1]
<1> DEFINE n == Len(list)  a == Slice(list, 0, i)  b == Slice(list, i + 1, n)
<1>1. /\ n \in Nat /\ i \in Nat /\ i + 1 \in Nat /\ 0 \in Nat
      /\ 0 <= i /\ i <= n /\ i + 1 <= n /\ n <= n
  BY LenProperties
<1>2. /\ a \in Seq(S) /\ Len(a) = i - 0
      /\ \A j \in 1 .. i - 0 : a[j] = list[0 + j]
  BY <1>1, SliceElements, ZenonT(60) DEF n
<1>3. /\ b \in Seq(S) /\ Len(b) = n - (i + 1)
      /\ \A j \in 1 .. n - (i + 1) : b[j] = list[i + 1 + j]
  BY <1>1, SliceElements, ZenonT(60) DEF n
<1>4. Without(list, i) = a \o b
  BY DEF Without
<1> HIDE DEF a, b, n
<1>5. /\ a \o b \in Seq(S) /\ Len(a \o b) = Len(a) + Len(b)
      /\ \A j \in 1 .. Len(a) + Len(b) :
           (a \o b)[j] = IF j <= Len(a) THEN a[j] ELSE b[j - Len(a)]
  BY <1>2, <1>3, ConcatProperties
<1>6. Len(a) = i /\ Len(a) + Len(b) = n - 1
  BY <1>1, <1>2, <1>3
<1>7. ASSUME NEW j \in 1 .. n - 1
      PROVE  (a \o b)[j] = IF j <= i THEN list[j] ELSE list[j + 1]
  <2>1. CASE j <= i
    <3>1. (a \o b)[j] = a[j]
      BY <1>5, <1>6, <2>1
    <3>2. a[j] = list[0 + j] /\ 0 + j = j
      BY <1>1, <1>2, <2>1
    <3>3. QED
      BY <2>1, <3>1, <3>2
  <2>2. CASE ~(j <= i)
    <3>1. (a \o b)[j] = b[j - i]
      BY <1>5, <1>6, <2>2
    <3>2. j - i \in 1 .. n - (i + 1) /\ i + 1 + (j - i) = j + 1
      BY <1>1, <2>2
    <3>3. QED
      BY <1>3, <2>2, <3>1, <3>2
  <2>3. QED
    BY <2>1, <2>2
<1>8. QED
  BY <1>4, <1>5, <1>6, <1>7 DEF n

\* A move towards the end: the elements between the two places come one forward.
LEMMA MoveDown ==
  ASSUME NEW S, NEW list \in Seq(S), NEW o \in 0 .. Len(list) - 1,
         NEW d \in Nat, o < d, NEW e \in Nat,
         d < Len(list) => e = d + 1, ~(d < Len(list)) => e = Len(list)
  PROVE  /\ moveInList(list, o, d) \in Seq(S)
         /\ Len(moveInList(list, o, d)) = Len(list)
         /\ \A j \in 1 .. Len(list) :
              moveInList(list, o, d)[j] =
                IF j <= o THEN list[j]
                ELSE IF j < e THEN list[j + 1]
                ELSE IF j = e THEN list[o + 1]
                ELSE list[j]
<1> DEFINE a == Slice(list, 0, o)  b == Slice(list, o + 1, e)
           x == list[o + 1]  c == Slice(list, e, Len(list))
<1>1. /\ Len(list) \in Nat /\ o \in Nat /\ o + 1 \in Nat /\ 0 \in Nat
      /\ 0 <= o /\ o <= Len(list) /\ o + 1 <= e /\ e <= Len(list)
      /\ Len(list) <= Len(list) /\ o + 1 \in 1 .. Len(list)
  BY LenProperties
<1>2. moveInList(list, o, d) = a \o b \o <<x>> \o c
  <2>1. Slice(list, o + 1, d + 1) = b
    <3>1. CASE d < Len(list)
      BY <1>1, <3>1
    <3>2. CASE ~(d < Len(list))
      <4>1. e = Len(list) /\ Len(list) <= d + 1 /\ d + 1 \in Nat
        BY <1>1, <3>2
      <4>2. QED
        BY <1>1, <4>1, SliceCut
    <3>3. QED
      BY <3>1, <3>2
  <2>2. Slice(list, d + 1, Len(list)) = c
    <3>1. CASE d < Len(list)
      BY <1>1, <3>1
    <3>2. CASE ~(d < Len(list))
      <4>1. /\ e = Len(list) /\ Len(list) < d + 1 + 1 /\ Len(list) < e + 1
            /\ d + 1 + 1 \in Int /\ e + 1 \in Int /\ Len(list) \in Int
        BY <1>1, <3>2
      <4>2. (IF Len(list) < Len(list) THEN Len(list) ELSE Len(list)) = Len(list)
        OBVIOUS
      <4>3. Slice(list, d + 1, Len(list)) = << >>
        BY <4>1, <4>2, SubSeqEmpty DEF Slice
      <4>4. c = << >>
        BY <4>1, <4>2, SubSeqEmpty DEF Slice
      <4>5. QED
        BY <4>3, <4>4
    <3>3. QED
      BY <3>1, <3>2
  <2>3. QED
    BY <2>1, <2>2 DEF moveInList
<1>3. /\ a \in Seq(S) /\ Len(a) = o - 0
      /\ \A j \in 1 .. o - 0 : a[j] = list[0 + j]
  <2>1. 0 \in Nat /\ o \in Nat /\ 0 <= o /\ o <= Len(list)
    BY <1>1
  <2>2. QED
    BY <2>1, SliceElements, ZenonT(30) DEF a
<1>4. /\ b \in Seq(S) /\ Len(b) = e - (o + 1)
      /\ \A j \in 1 .. e - (o + 1) : b[j] = list[o + 1 + j]
  <2>1. o + 1 \in Nat /\ e \in Nat /\ o + 1 <= e /\ e <= Len(list)
    BY <1>1
  <2>2. QED
    BY <2>1, SliceElements, ZenonT(30) DEF b
<1>5. /\ c \in Seq(S) /\ Len(c) = Len(list) - e
      /\ \A j \in 1 .. Len(list) - e : c[j] = list[e + j]
  BY <1>1, TailElements DEF c
<1>6. x \in S
  BY <1>1, ElementOfSeq
<1> HIDE DEF a, b, c, x
<1>7. <<x>> \in Seq(S) /\ Len(<<x>>) = 1 /\ <<x>>[1] = x
  BY <1>6
<1>8. /\ a \o b \in Seq(S)
      /\ Len(a \o b) = Len(a) + Len(b)
      /\ \A j \in 1 .. Len(a) + Len(b) :
           (a \o b)[j] = IF j <= Len(a) THEN a[j] ELSE b[j - Len(a)]
  BY <1>3, <1>4, ConcatProperties
<1> DEFINE ab == a \o b  y == <<x>>
<1>9. /\ ab \o y \o c \in Seq(S)
      /\ Len(ab \o y \o c) = Len(ab) + Len(y) + Len(c)
      /\ \A j \in 1 .. Len(ab) + Len(y) + Len(c) :
           (ab \o y \o c)[j] =
             IF j <= Len(ab) THEN ab[j]
             ELSE IF j <= Len(ab) + Len(y) THEN y[j - Len(ab)]
             ELSE c[j - Len(ab) - Len(y)]
  <2>1. ab \in Seq(S) /\ y \in Seq(S) /\ c \in Seq(S)
    BY <1>5, <1>7, <1>8
  <2> HIDE DEF ab, y
  <2>2. QED
    BY <2>1, ThreeParts
<1>10. /\ Len(a) = o /\ Len(b) = e - (o + 1) /\ Len(ab) = e - 1
       /\ Len(y) = 1 /\ Len(c) = Len(list) - e
       /\ Len(ab) + Len(y) + Len(c) = Len(list)
  BY <1>1, <1>3, <1>4, <1>5, <1>7, <1>8
<1>11. \A j \in 1 .. o : a[j] = list[j]
  BY <1>1, <1>3
<1>12. /\ \A j \in 1 .. e - 1 :
            ab[j] = IF j <= o THEN a[j] ELSE b[j - o]
  BY <1>1, <1>8, <1>10
<1> HIDE DEF ab, y
<1>13. ASSUME NEW j \in 1 .. Len(list)
       PROVE  (ab \o y \o c)[j] =
                IF j <= o THEN list[j]
                ELSE IF j < e THEN list[j + 1]
                ELSE IF j = e THEN list[o + 1]
                ELSE list[j]
  <2>1. CASE j <= o
    <3>1. j <= e - 1 /\ j \in 1 .. e - 1 /\ j \in 1 .. o
      BY <1>1, <2>1
    <3>2. QED
      BY <1>9, <1>10, <1>11, <1>12, <2>1, <3>1
  <2>2. CASE ~(j <= o) /\ j < e
    <3>1. /\ j <= e - 1 /\ j \in 1 .. e - 1
          /\ j - o \in 1 .. e - (o + 1) /\ o + 1 + (j - o) = j + 1
      BY <1>1, <2>2
    <3>2. (ab \o y \o c)[j] = b[j - o]
      BY <1>9, <1>10, <1>12, <2>2, <3>1
    <3>3. b[j - o] = list[j + 1]
      BY <1>4, <3>1
    <3>4. QED
      BY <2>2, <3>2, <3>3
  <2>3. CASE ~(j <= o) /\ ~(j < e) /\ j = e
    <3>1. ~(j <= e - 1) /\ j <= e - 1 + 1 /\ j - (e - 1) = 1
      BY <1>1, <2>3
    <3>2. (ab \o y \o c)[j] = y[1]
      BY <1>9, <1>10, <3>1
    <3>3. y[1] = list[o + 1]
      BY <1>7 DEF y, x
    <3>4. QED
      BY <2>3, <3>2, <3>3
  <2>4. CASE ~(j <= o) /\ ~(j < e) /\ ~(j = e)
    <3>1. /\ ~(j <= e - 1) /\ ~(j <= e - 1 + 1)
          /\ j - (e - 1) - 1 = j - e
          /\ j - e \in 1 .. Len(list) - e /\ e + (j - e) = j
      BY <1>1, <2>4
    <3>2. (ab \o y \o c)[j] = c[j - e]
      BY <1>9, <1>10, <3>1
    <3>3. c[j - e] = list[j]
      BY <1>5, <3>1
    <3>4. QED
      BY <2>4, <3>2, <3>3
  <2>5. QED
    BY <2>1, <2>2, <2>3, <2>4
<1>14. moveInList(list, o, d) = ab \o y \o c
  BY <1>2 DEF ab, y
<1>15. QED
  BY <1>9, <1>10, <1>13, <1>14

\* A move towards the start: the elements between the two places go one back.
LEMMA MoveUp ==
  ASSUME NEW S, NEW list \in Seq(S), NEW o \in 0 .. Len(list) - 1,
         NEW d \in Nat, d <= o
  PROVE  /\ moveInList(list, o, d) \in Seq(S)
         /\ Len(moveInList(list, o, d)) = Len(list)
         /\ \A j \in 1 .. Len(list) :
              moveInList(list, o, d)[j] =
                IF j <= d THEN list[j]
                ELSE IF j = d + 1 THEN list[o + 1]
                ELSE IF j <= o + 1 THEN list[j - 1]
                ELSE list[j]
<1> DEFINE a == Slice(list, 0, d)  x == list[o + 1]
           b == Slice(list, d, o)  c == Slice(list, o + 1, Len(list))
<1>1. /\ Len(list) \in Nat /\ o \in Nat /\ o + 1 \in Nat /\ 0 \in Nat
      /\ 0 <= d /\ d <= Len(list) /\ o <= Len(list) /\ o + 1 <= Len(list)
      /\ o + 1 \in 1 .. Len(list) /\ ~(o < d)
  BY LenProperties
<1>2. moveInList(list, o, d) = a \o <<x>> \o b \o c
  BY <1>1 DEF moveInList
<1>3. /\ a \in Seq(S) /\ Len(a) = d - 0
      /\ \A j \in 1 .. d - 0 : a[j] = list[0 + j]
  <2>1. 0 \in Nat /\ d \in Nat /\ 0 <= d /\ d <= Len(list)
    BY <1>1
  <2>2. QED
    BY <2>1, SliceElements DEF a
<1>4. /\ b \in Seq(S) /\ Len(b) = o - d
      /\ \A j \in 1 .. o - d : b[j] = list[d + j]
  <2>1. d \in Nat /\ o \in Nat /\ d <= o /\ o <= Len(list)
    BY <1>1
  <2>2. QED
    BY <2>1, SliceElements DEF b
<1>5. /\ c \in Seq(S) /\ Len(c) = Len(list) - (o + 1)
      /\ \A j \in 1 .. Len(list) - (o + 1) : c[j] = list[o + 1 + j]
  BY <1>1, TailElements DEF c
<1>6. x \in S
  BY <1>1, ElementOfSeq
<1> HIDE DEF a, b, c, x
<1>7. <<x>> \in Seq(S) /\ Len(<<x>>) = 1 /\ <<x>>[1] = x
  BY <1>6
<1>8. /\ a \o <<x>> \in Seq(S)
      /\ Len(a \o <<x>>) = Len(a) + Len(<<x>>)
      /\ \A j \in 1 .. Len(a) + Len(<<x>>) :
           (a \o <<x>>)[j] = IF j <= Len(a) THEN a[j] ELSE <<x>>[j - Len(a)]
  BY <1>3, <1>7, ConcatProperties
<1> DEFINE ax == a \o <<x>>
<1>9. /\ ax \o b \o c \in Seq(S)
      /\ Len(ax \o b \o c) = Len(ax) + Len(b) + Len(c)
      /\ \A j \in 1 .. Len(ax) + Len(b) + Len(c) :
           (ax \o b \o c)[j] =
             IF j <= Len(ax) THEN ax[j]
             ELSE IF j <= Len(ax) + Len(b) THEN b[j - Len(ax)]
             ELSE c[j - Len(ax) - Len(b)]
  <2>1. ax \in Seq(S) /\ b \in Seq(S) /\ c \in Seq(S)
    BY <1>4, <1>5, <1>8
  <2> HIDE DEF ax
  <2>2. QED
    BY <2>1, ThreeParts
<1>10. /\ Len(a) = d /\ Len(ax) = d + 1 /\ Len(b) = o - d
       /\ Len(c) = Len(list) - (o + 1)
       /\ Len(ax) + Len(b) + Len(c) = Len(list)
  <2>1. Len(a) = d /\ d \in Int /\ o \in Int /\ Len(list) \in Int
    BY <1>1, <1>3
  <2>2. Len(ax) = Len(a) + 1
    BY <1>7, <1>8
  <2>3. Len(b) = o - d
    BY <1>4
  <2>4. Len(c) = Len(list) - (o + 1)
    BY <1>5
  <2> HIDE DEF ax
  <2>5. QED
    BY <2>1, <2>2, <2>3, <2>4
<1>11. \A j \in 1 .. d : ax[j] = list[j]
  <2>1. ASSUME NEW j \in 1 .. d
        PROVE  ax[j] = list[j]
    <3>1. j \in 1 .. Len(a) + Len(<<x>>) /\ j <= Len(a) /\ 0 + j = j /\ j \in 1 .. d - 0
      BY <1>1, <1>7, <1>10
    <3>2. ax[j] = a[j]
      BY <1>8, <3>1
    <3>3. QED
      BY <1>3, <3>1, <3>2
  <2>2. QED
    BY <2>1
<1>12. ax[d + 1] = list[o + 1]
  <2>1. /\ d + 1 \in 1 .. Len(a) + Len(<<x>>) /\ ~(d + 1 <= Len(a))
        /\ d + 1 - Len(a) = 1
    BY <1>1, <1>7, <1>10
  <2>2. ax[d + 1] = <<x>>[1]
    BY <1>8, <2>1
  <2>3. QED
    BY <1>7, <2>2 DEF x
<1> HIDE DEF ax
<1>13. ASSUME NEW j \in 1 .. Len(list)
       PROVE  (ax \o b \o c)[j] =
                IF j <= d THEN list[j]
                ELSE IF j = d + 1 THEN list[o + 1]
                ELSE IF j <= o + 1 THEN list[j - 1]
                ELSE list[j]
  <2>1. CASE j <= d
    <3>1. j <= d + 1 /\ j \in 1 .. d
      BY <1>1, <2>1
    <3>2. QED
      BY <1>9, <1>10, <1>11, <2>1, <3>1
  <2>2. CASE ~(j <= d) /\ j = d + 1
    <3>1. j <= d + 1
      BY <1>1, <2>2
    <3>2. QED
      BY <1>9, <1>10, <1>12, <2>2, <3>1
  <2>3. CASE ~(j <= d) /\ ~(j = d + 1) /\ j <= o + 1
    <3>1. /\ ~(j <= d + 1) /\ j <= d + 1 + (o - d)
          /\ j - (d + 1) \in 1 .. o - d /\ d + (j - (d + 1)) = j - 1
      BY <1>1, <2>3
    <3>2. (ax \o b \o c)[j] = b[j - (d + 1)]
      BY <1>9, <1>10, <3>1
    <3>3. b[j - (d + 1)] = list[j - 1]
      BY <1>4, <3>1
    <3>4. QED
      BY <2>3, <3>2, <3>3
  <2>4. CASE ~(j <= d) /\ ~(j = d + 1) /\ ~(j <= o + 1)
    <3>1. /\ ~(j <= d + 1) /\ ~(j <= d + 1 + (o - d))
          /\ j - (d + 1) - (o - d) = j - (o + 1)
          /\ j - (o + 1) \in 1 .. Len(list) - (o + 1)
          /\ o + 1 + (j - (o + 1)) = j
      BY <1>1, <2>4
    <3>2. (ax \o b \o c)[j] = c[j - (o + 1)]
      BY <1>9, <1>10, <3>1
    <3>3. c[j - (o + 1)] = list[j]
      BY <1>5, <3>1
    <3>4. QED
      BY <2>4, <3>2, <3>3
  <2>5. QED
    BY <2>1, <2>2, <2>3, <2>4
<1>14. moveInList(list, o, d) = ax \o b \o c
  BY <1>2 DEF ax
<1>15. QED
  BY <1>9, <1>10, <1>13, <1>14

\* Where the moved element ends: at the destination, or last when that is beyond
\* the end, as for a drop without a placeholder (dropHandlers.ts:197-202).
Landing(list, d) == IF d < Len(list) THEN d ELSE Len(list) - 1

\* moveInList (moveInList.ts:1-16) keeps the length of the list, puts the moved
\* element at its landing, and leaves the others in their order: without the
\* moved element, the list before and after is the same.
THEOREM MoveKeepsOthers ==
  ASSUME NEW S, NEW list \in Seq(S), NEW o \in 0 .. Len(list) - 1, NEW d \in Nat
  PROVE  LET new == moveInList(list, o, d)
         IN  /\ new \in Seq(S) /\ Len(new) = Len(list)
             /\ new[Landing(list, d) + 1] = list[o + 1]
             /\ Without(new, Landing(list, d)) = Without(list, o)
<1> DEFINE new == moveInList(list, o, d)  k == Landing(list, d)
           u == Without(new, k)  v == Without(list, o)
<1>1. Len(list) \in Nat /\ o \in Nat /\ o < Len(list)
  BY LenProperties
<1>2. k \in Nat /\ k \in 0 .. Len(list) - 1
  BY <1>1 DEF Landing
<1>3. /\ v \in Seq(S) /\ Len(v) = Len(list) - 1
      /\ \A j \in 1 .. Len(list) - 1 : v[j] = IF j <= o THEN list[j] ELSE list[j + 1]
  BY WithoutElements
<1>4. /\ new \in Seq(S) /\ Len(new) = Len(list)
      /\ new[k + 1] = list[o + 1]
      /\ \A j \in 1 .. Len(list) - 1 :
           (IF j <= k THEN new[j] ELSE new[j + 1]) = (IF j <= o THEN list[j] ELSE list[j + 1])
  <2>1. CASE o < d
    <3> DEFINE e == k + 1
    <3>1. /\ e \in Nat /\ (d < Len(list) => e = d + 1)
          /\ (~(d < Len(list)) => e = Len(list)) /\ o < e /\ e <= Len(list)
      BY <1>1, <2>1 DEF Landing
    <3> HIDE DEF e
    <3>2. /\ new \in Seq(S) /\ Len(new) = Len(list)
          /\ \A j \in 1 .. Len(list) :
               new[j] = IF j <= o THEN list[j]
                        ELSE IF j < e THEN list[j + 1]
                        ELSE IF j = e THEN list[o + 1]
                        ELSE list[j]
      BY <2>1, <3>1, MoveDown
    <3> HIDE DEF new, k
    <3>3. e = k + 1
      BY DEF e
    <3>4. new[k + 1] = list[o + 1]
      BY <1>1, <1>2, <3>1, <3>2, <3>3
    <3>5. ASSUME NEW j \in 1 .. Len(list) - 1
          PROVE  (IF j <= k THEN new[j] ELSE new[j + 1])
                   = (IF j <= o THEN list[j] ELSE list[j + 1])
      <4>1. j \in 1 .. Len(list) /\ j + 1 \in 1 .. Len(list)
        BY <1>1
      <4>2. CASE j <= k
        <5>1. j < e /\ (IF j <= k THEN new[j] ELSE new[j + 1]) = new[j]
          BY <1>2, <3>3, <4>2
        <5>2. QED
          BY <3>2, <4>1, <5>1
      <4>3. CASE ~(j <= k)
        <5>1. /\ ~(j + 1 <= o) /\ ~(j + 1 < e) /\ ~(j + 1 = e) /\ ~(j <= o)
              /\ (IF j <= k THEN new[j] ELSE new[j + 1]) = new[j + 1]
          BY <1>1, <1>2, <3>1, <3>3, <4>3
        <5>2. QED
          BY <3>2, <4>1, <5>1
      <4>4. QED
        BY <4>2, <4>3
    <3>6. QED
      BY <3>2, <3>4, <3>5
  <2>2. CASE ~(o < d)
    <3>1. d <= o /\ k = d
      BY <1>1, <2>2 DEF Landing
    <3>2. /\ new \in Seq(S) /\ Len(new) = Len(list)
          /\ \A j \in 1 .. Len(list) :
               new[j] = IF j <= d THEN list[j]
                        ELSE IF j = d + 1 THEN list[o + 1]
                        ELSE IF j <= o + 1 THEN list[j - 1]
                        ELSE list[j]
      BY <3>1, MoveUp
    <3> HIDE DEF new, k
    <3>3. new[k + 1] = list[o + 1]
      <4>1. k + 1 \in 1 .. Len(list) /\ ~(k + 1 <= d) /\ k + 1 = d + 1
        BY <1>1, <1>2, <3>1
      <4>2. QED
        BY <3>2, <4>1
    <3>4. ASSUME NEW j \in 1 .. Len(list) - 1
          PROVE  (IF j <= k THEN new[j] ELSE new[j + 1])
                   = (IF j <= o THEN list[j] ELSE list[j + 1])
      <4>1. j \in 1 .. Len(list) /\ j + 1 \in 1 .. Len(list)
        BY <1>1
      <4>2. CASE j <= k
        <5>1. j <= d /\ j <= o /\ (IF j <= k THEN new[j] ELSE new[j + 1]) = new[j]
          BY <1>1, <3>1, <4>2
        <5>2. QED
          BY <3>2, <4>1, <5>1
      <4>3. CASE ~(j <= k) /\ j <= o
        <5>1. /\ ~(j + 1 <= d) /\ ~(j + 1 = d + 1) /\ j + 1 <= o + 1
              /\ j + 1 - 1 = j
              /\ (IF j <= k THEN new[j] ELSE new[j + 1]) = new[j + 1]
          BY <1>1, <3>1, <4>3
        <5>2. new[j + 1] = list[j]
          BY <3>2, <4>1, <5>1
        <5>3. QED
          BY <4>3, <5>1, <5>2
      <4>4. CASE ~(j <= k) /\ ~(j <= o)
        <5>1. /\ ~(j + 1 <= d) /\ ~(j + 1 = d + 1) /\ ~(j + 1 <= o + 1)
              /\ (IF j <= k THEN new[j] ELSE new[j + 1]) = new[j + 1]
          BY <1>1, <3>1, <4>4
        <5>2. QED
          BY <3>2, <4>1, <4>4, <5>1
      <4>5. QED
        BY <4>2, <4>3, <4>4
    <3>5. QED
      BY <3>2, <3>3, <3>4
  <2>3. QED
    BY <2>1, <2>2
<1> HIDE DEF new, k
<1>5. /\ u \in Seq(S) /\ Len(u) = Len(list) - 1
      /\ \A j \in 1 .. Len(list) - 1 : u[j] = IF j <= k THEN new[j] ELSE new[j + 1]
  <2>1. k \in 0 .. Len(new) - 1
    BY <1>2, <1>4
  <2>2. /\ u \in Seq(S) /\ Len(u) = Len(new) - 1
        /\ \A j \in 1 .. Len(new) - 1 : u[j] = IF j <= k THEN new[j] ELSE new[j + 1]
    BY <1>4, <2>1, WithoutElements
  <2>3. QED
    BY <1>4, <2>2
<1> HIDE DEF u, v
<1>6. \A j \in 1 .. Len(u) : u[j] = v[j]
  BY <1>3, <1>4, <1>5
<1>7. u = v
  BY <1>3, <1>5, <1>6, SeqEqual
<1>8. QED
  BY <1>4, <1>7 DEF u, v, new, k

\* Where an added element ends: at the index, or last when that is beyond the end.
Place(list, index) == IF index < Len(list) THEN index ELSE Len(list)

\* new is the list with x in position k and the others around it.
HasAdded(S, list, k, x, new) ==
  /\ new \in Seq(S) /\ Len(new) = Len(list) + 1
  /\ \A j \in 1 .. Len(list) + 1 :
       new[j] = IF j <= k THEN list[j] ELSE IF j = k + 1 THEN x ELSE list[j - 1]

\* An insertion, position by position.
LEMMA IncludingElements ==
  ASSUME NEW S, NEW list \in Seq(S), NEW index \in Nat, NEW x \in S
  PROVE  HasAdded(S, list, Place(list, index), x, Including(list, index, x))
<1> DEFINE n == Len(list)  k == Place(list, index)
           a == Slice(list, 0, k)  b == <<x>>  c == Slice(list, k, n)
<1>1. n \in Nat /\ n <= n /\ k \in Nat /\ 0 \in Nat /\ 0 <= k /\ k <= n
  BY LenProperties DEF Place
<1>2. Slice(list, 0, index) = a
  <2>1. CASE index < n
    BY <2>1 DEF Place
  <2>2. CASE ~(index < n)
    <3>1. n <= index /\ k = n
      BY <1>1, <2>2 DEF Place
    <3>2. QED
      BY <3>1, SliceCut, Zenon DEF n
  <2>3. QED
    BY <2>1, <2>2
<1>3. Slice(list, index, n) = c
  <2>1. CASE index < n
    BY <2>1 DEF Place
  <2>2. CASE ~(index < n)
    <3>1. n <= index /\ k = n
      BY <1>1, <2>2 DEF Place
    <3>2. SubSeq(list, index + 1, n) = <<>>
      BY <1>1, <3>1, SubSeqEmpty
    <3>3. SubSeq(list, n + 1, n) = <<>>
      BY <1>1, SubSeqEmpty
    <3>4. QED
      BY <1>1, <3>1, <3>2, <3>3 DEF Slice
  <2>3. QED
    BY <2>1, <2>2
<1>4. Including(list, index, x) = a \o b \o c
  BY <1>2, <1>3, Zenon DEF Including, n, b
<1>5. /\ a \in Seq(S) /\ Len(a) = k - 0
      /\ \A j \in 1 .. k - 0 : a[j] = list[0 + j]
  BY <1>1, SliceElements, ZenonT(30) DEF n, a
<1>6. /\ c \in Seq(S) /\ Len(c) = n - k
      /\ \A j \in 1 .. n - k : c[j] = list[k + j]
  BY <1>1, TailElements, Zenon DEF n, c
<1>7. b \in Seq(S) /\ Len(b) = 1 /\ b[1] = x
  OBVIOUS
<1> HIDE DEF a, b, c, k, n
<1>8. /\ a \o b \o c \in Seq(S)
      /\ Len(a \o b \o c) = Len(a) + Len(b) + Len(c)
      /\ \A j \in 1 .. Len(a) + Len(b) + Len(c) :
           (a \o b \o c)[j] =
             IF j <= Len(a) THEN a[j]
             ELSE IF j <= Len(a) + Len(b) THEN b[j - Len(a)]
             ELSE c[j - Len(a) - Len(b)]
  <2>1. a \in Seq(S) /\ b \in Seq(S) /\ c \in Seq(S)
    BY <1>5, <1>6, <1>7
  <2>2. QED
    BY <2>1, ThreeParts
<1>9. Len(a) = k /\ Len(b) = 1 /\ Len(a) + Len(b) + Len(c) = n + 1
  BY <1>1, <1>5, <1>6, <1>7
<1>10. ASSUME NEW j \in 1 .. n + 1
       PROVE  (a \o b \o c)[j] = IF j <= k THEN list[j]
                                 ELSE IF j = k + 1 THEN x ELSE list[j - 1]
  <2>1. CASE j <= k
    <3>1. j \in 1 .. k - 0 /\ 0 + j = j
      BY <1>1, <2>1
    <3>2. QED
      BY <1>5, <1>8, <1>9, <2>1, <3>1
  <2>2. CASE j = k + 1
    <3>1. ~(j <= k) /\ j <= k + 1 /\ j - k = 1
      BY <1>1, <2>2
    <3>2. QED
      BY <1>7, <1>8, <1>9, <2>2, <3>1
  <2>3. CASE ~(j <= k) /\ j # k + 1
    <3>1. /\ ~(j <= k + 1) /\ j - k - 1 \in 1 .. n - k
          /\ k + (j - k - 1) = j - 1
      BY <1>1, <2>3
    <3>2. (a \o b \o c)[j] = c[j - k - 1]
      BY <1>8, <1>9, <2>3, <3>1
    <3>3. QED
      BY <1>6, <2>3, <3>1, <3>2
  <2>4. QED
    BY <2>1, <2>2, <2>3
<1>11. HasAdded(S, list, k, x, a \o b \o c)
  BY <1>8, <1>9, <1>10 DEF n, HasAdded
<1>12. QED
  BY <1>4, <1>11 DEF k

\* A list is known by one element, its position and the rest.
LEMMA SameWithout ==
  ASSUME NEW S, NEW l \in Seq(S), NEW m \in Seq(S), Len(l) = Len(m),
         NEW k \in 0 .. Len(l) - 1, l[k + 1] = m[k + 1],
         Without(l, k) = Without(m, k)
  PROVE  l = m
<1>1. Len(l) \in Nat
  BY LenProperties
<1>2. \A j \in 1 .. Len(l) - 1 : Without(l, k)[j] = IF j <= k THEN l[j] ELSE l[j + 1]
  BY WithoutElements
<1>3. \A j \in 1 .. Len(l) - 1 : Without(m, k)[j] = IF j <= k THEN m[j] ELSE m[j + 1]
  BY WithoutElements, ZenonT(30)
<1>4. ASSUME NEW j \in 1 .. Len(l)
      PROVE  l[j] = m[j]
  <2>1. CASE j <= k
    <3>1. j \in 1 .. Len(l) - 1
      BY <1>1, <2>1
    <3>2. QED
      BY <1>2, <1>3, <2>1, <3>1
  <2>2. CASE j = k + 1
    BY <2>2
  <2>3. CASE ~(j <= k) /\ j # k + 1
    <3>1. j - 1 \in 1 .. Len(l) - 1 /\ ~(j - 1 <= k) /\ j - 1 + 1 = j
      BY <1>1, <2>3
    <3>2. Without(l, k)[j - 1] = l[j] /\ Without(m, k)[j - 1] = m[j]
      BY <1>2, <1>3, <3>1
    <3>3. QED
      BY <3>2
  <2>4. QED
    BY <2>1, <2>2, <2>3
<1>5. QED
  BY <1>4, SeqEqual

\* Adding an element to the list it is dropped in (handleDropHelper.ts:60-65,
\* 119-123, 139-143) puts it at the index of the drop, or last when that is beyond
\* the end, and removing it there (:71-74) gives the list back.
THEOREM AddKeepsOthers ==
  ASSUME NEW S, NEW list \in Seq(S), NEW index \in Nat, NEW x \in S
  PROVE  LET new == Including(list, index, x)
         IN  /\ new \in Seq(S) /\ Len(new) = Len(list) + 1
             /\ new[Place(list, index) + 1] = x
             /\ Without(new, Place(list, index)) = list
<1> DEFINE new == Including(list, index, x)  k == Place(list, index)
           u == Without(new, k)
<1>1. Len(list) \in Nat /\ k \in Nat /\ k <= Len(list)
  BY LenProperties DEF Place
<1>2. /\ new \in Seq(S) /\ Len(new) = Len(list) + 1
      /\ \A j \in 1 .. Len(list) + 1 :
           new[j] = IF j <= k THEN list[j]
                    ELSE IF j = k + 1 THEN x ELSE list[j - 1]
  <2>1. HasAdded(S, list, k, x, new)
    BY IncludingElements
  <2>2. QED
    BY <2>1 DEF HasAdded
<1> HIDE DEF new, k
<1>3. new[k + 1] = x
  <2>1. k + 1 \in 1 .. Len(list) + 1 /\ ~(k + 1 <= k)
    BY <1>1
  <2>2. QED
    BY <1>2, <2>1
<1>4. k \in 0 .. Len(new) - 1 /\ Len(new) - 1 = Len(list)
  BY <1>1, <1>2
<1>5. /\ u \in Seq(S) /\ Len(u) = Len(list)
      /\ \A j \in 1 .. Len(list) : u[j] = IF j <= k THEN new[j] ELSE new[j + 1]
  BY <1>2, <1>4, WithoutElements
<1> HIDE DEF u
<1>6. ASSUME NEW j \in 1 .. Len(u)
      PROVE  u[j] = list[j]
  <2>1. CASE j <= k
    <3>1. j \in 1 .. Len(list) + 1
      BY <1>1, <1>5
    <3>2. QED
      BY <1>2, <1>5, <2>1, <3>1
  <2>2. CASE ~(j <= k)
    <3>1. /\ j + 1 \in 1 .. Len(list) + 1 /\ ~(j + 1 <= k) /\ j + 1 # k + 1
          /\ j + 1 - 1 = j
      BY <1>1, <1>5, <2>2
    <3>2. QED
      BY <1>2, <1>5, <2>2, <3>1
  <2>3. QED
    BY <2>1, <2>2
<1>7. u = list
  BY <1>5, <1>6, SeqEqual
<1>8. QED
  BY <1>2, <1>3, <1>7 DEF new, k, u

\* The two ways a drop changes lists agree: a move within one list
\* (handleDropHelper.ts:27-38) leaves what removing the element and adding it at its
\* landing (:160-177, for two lists) would.
THEOREM MoveIsTakeThenPut ==
  ASSUME NEW S, NEW list \in Seq(S), NEW o \in 0 .. Len(list) - 1, NEW d \in Nat
  PROVE  moveInList(list, o, d)
           = Including(Without(list, o), Landing(list, d), list[o + 1])
<1> DEFINE l == moveInList(list, o, d)  k == Landing(list, d)
           rest == Without(list, o)  x == list[o + 1]
           m == Including(rest, k, x)
<1>1. Len(list) \in Nat /\ o \in Nat /\ o < Len(list) /\ o + 1 \in 1 .. Len(list)
  BY LenProperties
<1>2. k \in Nat /\ k \in 0 .. Len(list) - 1
  BY <1>1 DEF Landing
<1>3. x \in S
  BY <1>1, ElementOfSeq
<1>4. rest \in Seq(S) /\ Len(rest) = Len(list) - 1
  BY WithoutElements
<1>5. Place(rest, k) = k
  BY <1>1, <1>2, <1>4 DEF Place
<1>6. /\ l \in Seq(S) /\ Len(l) = Len(list)
      /\ l[k + 1] = x /\ Without(l, k) = rest
  BY MoveKeepsOthers
<1> HIDE DEF l, k, rest, x
<1>7. /\ m \in Seq(S) /\ Len(m) = Len(rest) + 1
      /\ m[k + 1] = x /\ Without(m, k) = rest
  <2>1. /\ m \in Seq(S) /\ Len(m) = Len(rest) + 1
        /\ m[Place(rest, k) + 1] = x /\ Without(m, Place(rest, k)) = rest
    BY <1>2, <1>3, <1>4, AddKeepsOthers, ZenonT(30)
  <2>2. QED
    BY <1>5, <2>1, Zenon
<1>8. Len(m) = Len(l) /\ k \in 0 .. Len(l) - 1
  BY <1>1, <1>2, <1>4, <1>6, <1>7
<1>9. l = m
  BY <1>6, <1>7, <1>8, SameWithout
<1>10. QED
  BY <1>9 DEF l, m, k, rest, x

-----------------------------------------------------------------------------
(* Paths. *)

\* The path of what lies at q in component j of the list at p.
Down(p, j, q) == Append(p, j) \o q

\* A prefix is a path with the same first indexes.
LEMMA PrefixElements ==
  ASSUME NEW p \in Seq(Nat), NEW q \in Seq(Nat)
  PROVE  /\ IsPrefix(p, q) <=> /\ Len(p) <= Len(q)
                               /\ \A n \in 1 .. Len(p) : q[n] = p[n]
         /\ IsStrictPrefix(p, q) <=> IsPrefix(p, q) /\ Len(p) < Len(q)
<1>1. Len(p) \in Nat /\ Len(q) \in Nat
  BY LenProperties
<1>2. SubSeq(p, 1, Len(p)) = p
  BY SubSeqFull
<1>3. ASSUME Len(p) <= Len(q)
      PROVE  /\ SubSeq(q, 1, Len(p)) \in Seq(Nat)
             /\ Len(SubSeq(q, 1, Len(p))) = Len(p)
             /\ \A n \in 1 .. Len(p) : SubSeq(q, 1, Len(p))[n] = q[n]
  <2>1. \A n \in 1 .. Len(p) : q[n] \in Nat
    BY <1>1, <1>3, ElementOfSeq
  <2>2. 1 \in Int /\ Len(p) \in Int
    BY <1>1
  <2>3. /\ SubSeq(q, 1, Len(p)) \in Seq(Nat)
        /\ Len(SubSeq(q, 1, Len(p))) = IF 1 <= Len(p) THEN Len(p) - 1 + 1 ELSE 0
        /\ \A n \in 1 .. Len(p) - 1 + 1 : SubSeq(q, 1, Len(p))[n] = q[1 + n - 1]
    BY <2>1, <2>2, SubSeqProperties
  <2>4. /\ (IF 1 <= Len(p) THEN Len(p) - 1 + 1 ELSE 0) = Len(p)
        /\ Len(p) - 1 + 1 = Len(p) /\ \A n \in 1 .. Len(p) : 1 + n - 1 = n
    BY <1>1
  <2>5. QED
    BY <2>3, <2>4
<1>4. IsPrefix(p, q) <=> Len(p) <= Len(q) /\ p = SubSeq(q, 1, Len(p))
  BY <1>2 DEF IsPrefix
<1>5. ASSUME Len(p) <= Len(q), \A n \in 1 .. Len(p) : q[n] = p[n]
      PROVE  p = SubSeq(q, 1, Len(p))
  <2>1. \A n \in 1 .. Len(p) : p[n] = SubSeq(q, 1, Len(p))[n]
    BY <1>3, <1>5
  <2>2. QED
    BY <1>3, <1>5, <2>1, SeqEqual
<1>6. IsPrefix(p, q) <=> /\ Len(p) <= Len(q)
                         /\ \A n \in 1 .. Len(p) : q[n] = p[n]
  BY <1>3, <1>4, <1>5
<1>7. IsPrefix(p, q) /\ p # q => Len(p) < Len(q)
  <2>1. SUFFICES ASSUME IsPrefix(p, q), Len(p) = Len(q)
                 PROVE  p = q
    BY <1>1, <1>6
  <2>2. \A n \in 1 .. Len(p) : p[n] = q[n]
    BY <1>6, <2>1
  <2>3. QED
    BY <2>1, <2>2, SeqEqual
<1>8. QED
  BY <1>1, <1>6, <1>7 DEF IsStrictPrefix

\* d is the path p, then the index j, then q.
IsDown(d, p, j, q) ==
  /\ d \in Seq(Nat) /\ Len(d) = Len(p) + 1 + Len(q)
  /\ \A n \in 1 .. Len(p) : d[n] = p[n]
  /\ d[Len(p) + 1] = j
  /\ \A n \in Len(p) + 2 .. Len(d) : d[n] = q[n - (Len(p) + 1)]

\* The indexes of the path of a component.
LEMMA AppendElements ==
  ASSUME NEW p \in Seq(Nat), NEW j \in Nat
  PROVE  IsDown(Append(p, j), p, j, Root)
<1>1. Len(p) \in Nat /\ Len(Root) = 0
  BY LenProperties DEF Root
<1>2. /\ Append(p, j) \in Seq(Nat) /\ Len(Append(p, j)) = Len(p) + 1
      /\ \A n \in 1 .. Len(p) : Append(p, j)[n] = p[n]
      /\ Append(p, j)[Len(p) + 1] = j
  BY AppendProperties
<1>3. QED
  BY <1>1, <1>2 DEF IsDown

\* The indexes of a path within a component.
LEMMA DownElements ==
  ASSUME NEW p \in Seq(Nat), NEW j \in Nat, NEW q \in Seq(Nat)
  PROVE  IsDown(Down(p, j, q), p, j, q)
<1> DEFINE a == Append(p, j)  d == a \o q
<1>1. Len(p) \in Nat /\ Len(q) \in Nat
  BY LenProperties
<1>2. /\ a \in Seq(Nat) /\ Len(a) = Len(p) + 1
      /\ \A n \in 1 .. Len(p) : a[n] = p[n]
      /\ a[Len(p) + 1] = j
  BY AppendProperties
<1> HIDE DEF a
<1>3. /\ d \in Seq(Nat) /\ Len(d) = Len(a) + Len(q)
      /\ \A n \in 1 .. Len(a) + Len(q) :
           d[n] = IF n <= Len(a) THEN a[n] ELSE q[n - Len(a)]
  BY <1>2, ConcatProperties
<1> HIDE DEF d
<1>4. \A n \in 1 .. Len(p) : d[n] = p[n]
  BY <1>1, <1>2, <1>3
<1>5. d[Len(p) + 1] = j
  <2>1. Len(p) + 1 \in 1 .. Len(a) + Len(q) /\ Len(p) + 1 <= Len(a)
    BY <1>1, <1>2
  <2>2. QED
    BY <1>2, <1>3, <2>1
<1>6. ASSUME NEW n \in Len(p) + 2 .. Len(d)
      PROVE  d[n] = q[n - (Len(p) + 1)]
  <2>1. /\ n \in 1 .. Len(a) + Len(q) /\ ~(n <= Len(a))
        /\ n - Len(a) = n - (Len(p) + 1)
    BY <1>1, <1>2, <1>3
  <2>2. QED
    BY <1>3, <2>1
<1>7. IsDown(d, p, j, q)
  BY <1>2, <1>3, <1>4, <1>5, <1>6 DEF IsDown
<1>8. QED
  BY <1>7 DEF a, d, Down

\* A path is known by its indexes.
LEMMA DownUnique ==
  ASSUME NEW p \in Seq(Nat), NEW j \in Nat, NEW q \in Seq(Nat),
         NEW d, NEW e, IsDown(d, p, j, q), IsDown(e, p, j, q)
  PROVE  d = e
<1>1. Len(p) \in Nat /\ Len(q) \in Nat
  BY LenProperties
<1>2. d \in Seq(Nat) /\ e \in Seq(Nat) /\ Len(d) = Len(e) /\ Len(d) = Len(p) + 1 + Len(q)
  BY DEF IsDown
<1>3. ASSUME NEW n \in 1 .. Len(d)
      PROVE  d[n] = e[n]
  <2>1. n \in 1 .. Len(p) \/ n = Len(p) + 1 \/ n \in Len(p) + 2 .. Len(d)
    BY <1>1, <1>2
  <2>2. QED
    BY <1>2, <2>1 DEF IsDown
<1>4. QED
  BY <1>2, <1>3, SeqEqual

\* The rest of a path after its first n indexes.
IsRest(r, q, n) ==
  /\ r \in Seq(Nat) /\ Len(r) = Len(q) - n
  /\ \A m \in 1 .. Len(r) : r[m] = q[n + m]

\* The path that is left after the first indexes.
LEMMA RestElements ==
  ASSUME NEW q \in Seq(Nat), NEW n \in 0 .. Len(q)
  PROVE  IsRest(SubSeq(q, n + 1, Len(q)), q, n)
<1> DEFINE r == SubSeq(q, n + 1, Len(q))
<1>1. Len(q) \in Nat /\ n \in Nat /\ n <= Len(q)
  BY LenProperties
<1>2. \A m \in n + 1 .. Len(q) : q[m] \in Nat
  BY <1>1, ElementOfSeq
<1>3. /\ r \in Seq(Nat)
      /\ Len(r) = IF n + 1 <= Len(q) THEN Len(q) - (n + 1) + 1 ELSE 0
      /\ \A m \in 1 .. Len(q) - (n + 1) + 1 : r[m] = q[n + 1 + m - 1]
  BY <1>1, <1>2, SubSeqProperties
<1>4. /\ (IF n + 1 <= Len(q) THEN Len(q) - (n + 1) + 1 ELSE 0) = Len(q) - n
      /\ Len(q) - (n + 1) + 1 = Len(q) - n
      /\ \A m \in 1 .. Len(q) - n : n + 1 + m - 1 = n + m
  BY <1>1
<1> HIDE DEF r
<1>5. IsRest(r, q, n)
  BY <1>3, <1>4 DEF IsRest
<1>6. QED
  BY <1>5 DEF r

\* The first n indexes of a path.
IsFirst(f, q, n) ==
  /\ f \in Seq(Nat) /\ Len(f) = n
  /\ \A m \in 1 .. n : f[m] = q[m]

\* The first indexes of a path.
LEMMA FirstElements ==
  ASSUME NEW q \in Seq(Nat), NEW n \in 0 .. Len(q)
  PROVE  IsFirst(SubSeq(q, 1, n), q, n)
<1> DEFINE f == SubSeq(q, 1, n)
<1>1. Len(q) \in Nat /\ n \in Nat /\ n <= Len(q)
  BY LenProperties
<1>2. \A m \in 1 .. n : q[m] \in Nat
  BY <1>1, ElementOfSeq
<1>3. /\ f \in Seq(Nat)
      /\ Len(f) = IF 1 <= n THEN n - 1 + 1 ELSE 0
      /\ \A m \in 1 .. n - 1 + 1 : f[m] = q[1 + m - 1]
  BY <1>1, <1>2, SubSeqProperties
<1>4. /\ (IF 1 <= n THEN n - 1 + 1 ELSE 0) = n /\ n - 1 + 1 = n
      /\ \A m \in 1 .. n : 1 + m - 1 = m
  BY <1>1
<1> HIDE DEF f
<1>5. IsFirst(f, q, n)
  BY <1>3, <1>4 DEF IsFirst
<1>6. QED
  BY <1>5 DEF f

\* Going down a list and coming back.
LEMMA DownInverse ==
  ASSUME NEW p \in Seq(Nat), NEW j \in Nat, NEW q \in Seq(Nat)
  PROVE  /\ SubSeq(Down(p, j, q), Len(p) + 2, Len(Down(p, j, q))) = q
         /\ IsStrictPrefix(p, Down(p, j, q))
<1> DEFINE d == Down(p, j, q)  r == SubSeq(d, Len(p) + 1 + 1, Len(d))
<1>1. IsDown(d, p, j, q)
  BY DownElements
<1> HIDE DEF d
<1>2. /\ Len(p) \in Nat /\ Len(q) \in Nat /\ d \in Seq(Nat)
      /\ Len(d) = Len(p) + 1 + Len(q)
      /\ \A n \in 1 .. Len(p) : d[n] = p[n]
      /\ \A n \in Len(p) + 2 .. Len(d) : d[n] = q[n - (Len(p) + 1)]
  BY <1>1, LenProperties DEF IsDown
<1>3. IsRest(r, d, Len(p) + 1)
  <2>1. Len(p) + 1 \in 0 .. Len(d)
    BY <1>2
  <2>2. QED
    BY <1>2, <2>1, RestElements
<1> HIDE DEF r
<1>4. /\ r \in Seq(Nat) /\ Len(r) = Len(q)
      /\ \A m \in 1 .. Len(r) : r[m] = d[Len(p) + 1 + m]
  BY <1>2, <1>3 DEF IsRest
<1>5. ASSUME NEW m \in 1 .. Len(r)
      PROVE  r[m] = q[m]
  <2> DEFINE n == Len(p) + 1 + m
  <2>1. n \in Len(p) + 2 .. Len(d) /\ n - (Len(p) + 1) = m
    BY <1>2, <1>4
  <2>2. r[m] = d[n]
    BY <1>4
  <2> HIDE DEF n
  <2>3. d[n] = q[m]
    BY <1>2, <2>1
  <2>4. QED
    BY <2>2, <2>3
<1>6. r = q
  BY <1>4, <1>5, SeqEqual
<1>7. IsStrictPrefix(p, d)
  <2>1. Len(p) <= Len(d) /\ Len(p) < Len(d)
    BY <1>2
  <2>2. IsPrefix(p, d)
    BY <1>2, <2>1, PrefixElements
  <2>3. QED
    BY <1>2, <2>1, <2>2, PrefixElements
<1>8. Len(p) + 1 + 1 = Len(p) + 2
  BY <1>2
<1>9. QED
  BY <1>6, <1>7, <1>8 DEF d, r

\* One way down for every path.
LEMMA DownInjective ==
  ASSUME NEW p \in Seq(Nat), NEW j \in Nat, NEW q \in Seq(Nat),
         NEW i \in Nat, NEW r \in Seq(Nat), Down(p, j, q) = Down(p, i, r)
  PROVE  j = i /\ q = r
<1>1. IsDown(Down(p, j, q), p, j, q) /\ IsDown(Down(p, i, r), p, i, r)
  BY DownElements
<1>2. SubSeq(Down(p, j, q), Len(p) + 2, Len(Down(p, j, q))) = q
  BY DownInverse
<1>3. SubSeq(Down(p, i, r), Len(p) + 2, Len(Down(p, i, r))) = r
  BY DownInverse
<1>4. QED
  BY <1>1, <1>2, <1>3 DEF IsDown

\* A path beyond p goes down the list at p.
LEMMA Splits ==
  ASSUME NEW p \in Seq(Nat), NEW q \in Seq(Nat), IsStrictPrefix(p, q)
  PROVE  /\ q[Len(p) + 1] \in Nat
         /\ SubSeq(q, Len(p) + 2, Len(q)) \in Seq(Nat)
         /\ q = Down(p, q[Len(p) + 1], SubSeq(q, Len(p) + 2, Len(q)))
<1> DEFINE j == q[Len(p) + 1]  r == SubSeq(q, Len(p) + 1 + 1, Len(q))
<1>1. Len(p) \in Nat /\ Len(q) \in Nat
  BY LenProperties
<1>2. IsPrefix(p, q) /\ Len(p) < Len(q)
  BY PrefixElements
<1>3. \A n \in 1 .. Len(p) : q[n] = p[n]
  BY <1>2, PrefixElements
<1>4. j \in Nat
  <2>1. Len(p) + 1 \in 1 .. Len(q)
    BY <1>1, <1>2
  <2>2. QED
    BY <2>1, ElementOfSeq
<1>5. IsRest(r, q, Len(p) + 1)
  <2>1. Len(p) + 1 \in 0 .. Len(q)
    BY <1>1, <1>2
  <2>2. QED
    BY <2>1, RestElements
<1> HIDE DEF r
<1>6. /\ r \in Seq(Nat) /\ Len(r) = Len(q) - (Len(p) + 1)
      /\ \A m \in 1 .. Len(r) : r[m] = q[Len(p) + 1 + m]
  BY <1>5 DEF IsRest
<1>7. IsDown(q, p, j, r)
  <2>1. Len(q) = Len(p) + 1 + Len(r)
    BY <1>1, <1>6
  <2>2. ASSUME NEW n \in Len(p) + 2 .. Len(q)
        PROVE  q[n] = r[n - (Len(p) + 1)]
    <3>1. n - (Len(p) + 1) \in 1 .. Len(r) /\ Len(p) + 1 + (n - (Len(p) + 1)) = n
      BY <1>1, <1>6
    <3>2. QED
      BY <1>6, <3>1
  <2>3. QED
    BY <1>3, <2>1, <2>2 DEF IsDown
<1>8. q = Down(p, j, r)
  BY <1>4, <1>6, <1>7, DownElements, DownUnique
<1>9. Len(p) + 1 + 1 = Len(p) + 2
  BY <1>1
<1>10. QED
  BY <1>4, <1>6, <1>8, <1>9 DEF r

\* What comes before a path that goes down the list at p.
LEMMA DownPrefixes ==
  ASSUME NEW p \in Seq(Nat), NEW j \in Nat, NEW q \in Seq(Nat)
  PROVE  /\ \A n \in 0 .. Len(p) : SubSeq(Down(p, j, q), 1, n) = SubSeq(p, 1, n)
         /\ \A n \in 0 .. Len(q) :
              SubSeq(Down(p, j, q), 1, Len(p) + 1 + n) = Down(p, j, SubSeq(q, 1, n))
<1> DEFINE d == Down(p, j, q)
<1>1. IsDown(d, p, j, q)
  BY DownElements
<1> HIDE DEF d
<1>2. /\ Len(p) \in Nat /\ Len(q) \in Nat /\ d \in Seq(Nat)
      /\ Len(d) = Len(p) + 1 + Len(q)
      /\ \A n \in 1 .. Len(p) : d[n] = p[n]
      /\ d[Len(p) + 1] = j
      /\ \A n \in Len(p) + 2 .. Len(d) : d[n] = q[n - (Len(p) + 1)]
  BY <1>1, LenProperties DEF IsDown
<1>3. ASSUME NEW n \in 0 .. Len(p)
      PROVE  SubSeq(d, 1, n) = SubSeq(p, 1, n)
  <2>1. n \in 0 .. Len(d) /\ \A m \in 1 .. n : m \in 1 .. Len(p)
    BY <1>2
  <2>2. IsFirst(SubSeq(d, 1, n), d, n) /\ IsFirst(SubSeq(p, 1, n), p, n)
    BY <1>2, <2>1, FirstElements
  <2>3. QED
    BY <1>2, <2>1, <2>2, SeqEqual DEF IsFirst
<1>4. ASSUME NEW n \in 0 .. Len(q)
      PROVE  SubSeq(d, 1, Len(p) + 1 + n) = Down(p, j, SubSeq(q, 1, n))
  <2> DEFINE k == Len(p) + 1 + n  s == SubSeq(d, 1, k)  f == SubSeq(q, 1, n)
  <2>1. k \in 0 .. Len(d) /\ k \in Nat /\ n \in Nat
    BY <1>2
  <2>2. IsFirst(s, d, k)
    BY <1>2, <2>1, FirstElements
  <2>3. IsFirst(f, q, n)
    BY FirstElements
  <2> HIDE DEF s, f
  <2>4. f \in Seq(Nat) /\ Len(f) = n /\ \A m \in 1 .. n : f[m] = q[m]
    BY <2>3 DEF IsFirst
  <2>5. s \in Seq(Nat) /\ Len(s) = k /\ \A m \in 1 .. k : s[m] = d[m]
    BY <2>2 DEF IsFirst
  <2>6. IsDown(s, p, j, f)
    <3>1. \A m \in 1 .. Len(p) : s[m] = p[m]
      BY <1>2, <2>1, <2>5
    <3>2. s[Len(p) + 1] = j
      BY <1>2, <2>1, <2>5, SMTT(30)
    <3>3. ASSUME NEW m \in Len(p) + 2 .. Len(s)
          PROVE  s[m] = f[m - (Len(p) + 1)]
      <4>1. /\ m \in 1 .. k /\ m \in Len(p) + 2 .. Len(d)
            /\ m - (Len(p) + 1) \in 1 .. n
        BY <1>2, <2>1, <2>5
      <4>2. QED
        BY <1>2, <2>4, <2>5, <4>1
    <3>4. QED
      BY <2>4, <2>5, <3>1, <3>2, <3>3 DEF IsDown
  <2>7. s = Down(p, j, f)
    BY <2>4, <2>6, DownElements, DownUnique
  <2>8. QED
    BY <2>7 DEF s, f
<1>5. QED
  BY <1>3, <1>4 DEF d

\* Going down no further, or one index further.
LEMMA DownAppend ==
  ASSUME NEW p \in Seq(Nat), NEW j \in Nat
  PROVE  /\ Down(p, j, Root) = Append(p, j)
         /\ \A q \in Seq(Nat), i \in Nat : Append(Down(p, j, q), i) = Down(p, j, Append(q, i))
<1>1. Append(p, j) \in Seq(Nat)
  BY AppendProperties
<1>2. Down(p, j, Root) = Append(p, j)
  BY <1>1, ConcatEmptySeq DEF Down, Root
<1>3. ASSUME NEW q \in Seq(Nat), NEW i \in Nat
      PROVE  Append(Down(p, j, q), i) = Down(p, j, Append(q, i))
  <2>1. Append(Down(p, j, q), i) = (Append(p, j) \o q) \o <<i>>
    <3>1. Down(p, j, q) \in Seq(Nat)
      BY DownElements DEF IsDown
    <3>2. QED
      BY <3>1, AppendIsConcat DEF Down
  <2>2. Append(q, i) = q \o <<i>>
    BY AppendIsConcat
  <2>3. (Append(p, j) \o q) \o <<i>> = Append(p, j) \o (q \o <<i>>)
    <3>1. <<i>> \in Seq(Nat)
      OBVIOUS
    <3>2. QED
      BY <1>1, <3>1, ConcatAssociative, SMTT(30)
  <2>4. QED
    BY <2>1, <2>2, <2>3 DEF Down
<1>4. QED
  BY <1>2, <1>3

\* A path beyond component j of the list at p.
LEMMA AppendPrefix ==
  ASSUME NEW p \in Seq(Nat), NEW j \in Nat, NEW d \in Seq(Nat)
  PROVE  IsPrefix(Append(p, j), d) <=> IsStrictPrefix(p, d) /\ d[Len(p) + 1] = j
<1> DEFINE a == Append(p, j)
<1>1. Len(p) \in Nat /\ Len(d) \in Nat
  BY LenProperties
<1>2. /\ a \in Seq(Nat) /\ Len(a) = Len(p) + 1
      /\ \A n \in 1 .. Len(p) : a[n] = p[n]
      /\ a[Len(p) + 1] = j
  BY AppendProperties
<1> HIDE DEF a
<1>3. IsPrefix(a, d) <=> Len(a) <= Len(d) /\ \A n \in 1 .. Len(a) : d[n] = a[n]
  BY <1>2, PrefixElements
<1>4. IsStrictPrefix(p, d) <=> Len(p) < Len(d) /\ \A n \in 1 .. Len(p) : d[n] = p[n]
  <2>1. IsStrictPrefix(p, d) <=> IsPrefix(p, d) /\ Len(p) < Len(d)
    BY PrefixElements
  <2>2. IsPrefix(p, d) <=> Len(p) <= Len(d) /\ \A n \in 1 .. Len(p) : d[n] = p[n]
    BY PrefixElements
  <2>3. QED
    BY <1>1, <2>1, <2>2
<1>5. (\A n \in 1 .. Len(a) : d[n] = a[n])
        <=> (\A n \in 1 .. Len(p) : d[n] = p[n]) /\ d[Len(p) + 1] = j
  <2>1. ASSUME \A n \in 1 .. Len(a) : d[n] = a[n]
        PROVE  (\A n \in 1 .. Len(p) : d[n] = p[n]) /\ d[Len(p) + 1] = j
    <3>1. Len(p) + 1 \in 1 .. Len(a) /\ \A n \in 1 .. Len(p) : n \in 1 .. Len(a)
      BY <1>1, <1>2
    <3>2. QED
      BY <1>2, <2>1, <3>1
  <2>2. ASSUME \A n \in 1 .. Len(p) : d[n] = p[n], d[Len(p) + 1] = j
        PROVE  \A n \in 1 .. Len(a) : d[n] = a[n]
    <3>1. \A n \in 1 .. Len(a) : n \in 1 .. Len(p) \/ n = Len(p) + 1
      BY <1>1, <1>2
    <3>2. QED
      BY <1>2, <2>2, <3>1
  <2>3. QED
    BY <2>1, <2>2
<1>6. Len(a) <= Len(d) <=> Len(p) < Len(d)
  BY <1>1, <1>2
<1>7. QED
  BY <1>3, <1>4, <1>5, <1>6 DEF a

-----------------------------------------------------------------------------
(* Trees. *)

Known == Components \cup {Nameless, Hole, None}
Entries == [id : Known, size : Nat]

\* The trees, and those a list can hold.
Trees == {t \in UNION {[D -> Entries] : D \in SUBSET Seq(Nat)} : IsTree(t)}
Branches == {t \in Trees : t[Root].id # None}

\* Trees is the set of all trees: IsTree fixes the domain, so the union is enough.
LEMMA TreesDef == \A t : t \in Trees <=> IsTree(t)
<1>1. ASSUME NEW t, IsTree(t)
      PROVE  t \in UNION {[D -> Entries] : D \in SUBSET Seq(Nat)}
  <2>1. t \in [DOMAIN t -> Entries] /\ DOMAIN t \in SUBSET Seq(Nat)
    BY <1>1 DEF IsTree, Entries, Known
  <2>2. QED
    BY <2>1
<1>2. QED
  BY <1>1 DEF Trees

\* t is component j of the list at p.
IsSub(t, tree, p, j) ==
  /\ t = [q \in DOMAIN t |-> t[q]]
  /\ DOMAIN t \subseteq Seq(Nat)
  /\ \A q \in Seq(Nat) : q \in DOMAIN t <=> Down(p, j, q) \in DOMAIN tree
  /\ \A q \in DOMAIN t : t[q] = tree[Down(p, j, q)]

\* What Sub takes out of a tree.
LEMMA SubElements ==
  ASSUME NEW tree, IsTree(tree), NEW p \in Seq(Nat), NEW j \in Nat
  PROVE  IsSub(Sub(tree, Append(p, j)), tree, p, j)
<1> DEFINE a == Append(p, j)
           Rest(d) == SubSeq(d, Len(a) + 1, Len(d))
           t == Sub(tree, a)
<1>1. Len(a) + 1 = Len(p) + 2 /\ a \in Seq(Nat)
  <2>1. Len(p) \in Nat /\ Len(a) = Len(p) + 1 /\ a \in Seq(Nat)
    BY LenProperties, AppendProperties
  <2>2. QED
    BY <2>1
<1>2. ASSUME NEW d \in DOMAIN tree, IsPrefix(a, d)
      PROVE  Rest(d) \in Seq(Nat) /\ d = Down(p, j, Rest(d))
  <2>1. d \in Seq(Nat)
    BY DEF IsTree
  <2>2. IsStrictPrefix(p, d) /\ d[Len(p) + 1] = j
    BY <1>2, <2>1, AppendPrefix
  <2>3. QED
    BY <1>1, <2>1, <2>2, Splits
<1>3. ASSUME NEW q \in Seq(Nat)
      PROVE  IsPrefix(a, Down(p, j, q)) /\ Rest(Down(p, j, q)) = q
  <2>1. /\ Down(p, j, q) \in Seq(Nat) /\ Down(p, j, q)[Len(p) + 1] = j
    BY DownElements DEF IsDown
  <2>2. /\ IsStrictPrefix(p, Down(p, j, q))
        /\ SubSeq(Down(p, j, q), Len(p) + 2, Len(Down(p, j, q))) = q
    BY DownInverse
  <2>3. IsPrefix(a, Down(p, j, q))
    BY <2>1, <2>2, AppendPrefix
  <2>4. QED
    BY <1>1, <2>2, <2>3
<1>4. t = [q \in {Rest(d) : d \in {d \in DOMAIN tree : IsPrefix(a, d)}} |-> tree[a \o q]]
  BY DEF Sub
<1>5. DOMAIN t = {Rest(d) : d \in {d \in DOMAIN tree : IsPrefix(a, d)}}
  BY <1>4
<1>6. \A q \in DOMAIN t : t[q] = tree[a \o q]
  BY <1>4
<1> HIDE DEF a, Rest, t
<1>7. DOMAIN t \subseteq Seq(Nat)
  BY <1>2, <1>5
<1>8. \A q \in Seq(Nat) : q \in DOMAIN t <=> Down(p, j, q) \in DOMAIN tree
  BY <1>2, <1>3, <1>5
<1>9. \A q \in DOMAIN t : t[q] = tree[Down(p, j, q)]
  BY <1>6 DEF a, Down
<1>10. t = [q \in DOMAIN t |-> t[q]]
  BY <1>4
<1>11. IsSub(t, tree, p, j)
  BY <1>7, <1>8, <1>9, <1>10 DEF IsSub
<1>12. QED
  BY <1>11 DEF t, a

\* A path beyond p stays beyond p when it goes on, and comes from p when it is cut.
LEMMA FirstPrefix ==
  ASSUME NEW p \in Seq(Nat), NEW q \in Seq(Nat), NEW n \in 0 .. Len(q) - 1,
         IsPrefix(p, SubSeq(q, 1, n))
  PROVE  IsStrictPrefix(p, q)
<1> DEFINE f == SubSeq(q, 1, n)
<1>1. Len(p) \in Nat /\ Len(q) \in Nat /\ n \in 0 .. Len(q) /\ n \in Nat /\ n < Len(q)
  BY LenProperties
<1>2. IsFirst(f, q, n)
  BY <1>1, FirstElements
<1>3. IsPrefix(p, f)
  OBVIOUS
<1> HIDE DEF f
<1>4. f \in Seq(Nat) /\ Len(f) = n /\ \A m \in 1 .. n : f[m] = q[m]
  BY <1>2 DEF IsFirst
<1>5. Len(p) <= n /\ \A m \in 1 .. Len(p) : f[m] = p[m]
  BY <1>3, <1>4, PrefixElements
<1>6. ASSUME NEW m \in 1 .. Len(p)
      PROVE  q[m] = p[m]
  <2>1. m \in 1 .. n
    BY <1>1, <1>5
  <2>2. QED
    BY <1>4, <1>5, <2>1
<1>7. Len(p) <= Len(q) /\ Len(p) < Len(q)
  BY <1>1, <1>5
<1>8. IsPrefix(p, q)
  BY <1>6, <1>7, PrefixElements
<1>9. QED
  BY <1>7, <1>8, PrefixElements

\* A path beyond p that is one index longer than q: q is p or beyond it.
LEMMA AppendBeyond ==
  ASSUME NEW p \in Seq(Nat), NEW q \in Seq(Nat), NEW i \in Nat,
         IsStrictPrefix(p, Append(q, i))
  PROVE  p = q \/ IsStrictPrefix(p, q)
<1> DEFINE a == Append(q, i)
<1>1. Len(p) \in Nat /\ Len(q) \in Nat
  BY LenProperties
<1>2. a \in Seq(Nat) /\ Len(a) = Len(q) + 1 /\ \A n \in 1 .. Len(q) : a[n] = q[n]
  BY AppendProperties
<1>3. IsStrictPrefix(p, a)
  OBVIOUS
<1> HIDE DEF a
<1>4. IsPrefix(p, a) /\ Len(p) < Len(a)
  BY <1>2, <1>3, PrefixElements
<1>5. \A n \in 1 .. Len(p) : a[n] = p[n]
  BY <1>2, <1>4, PrefixElements
<1>6. Len(p) <= Len(q) /\ \A n \in 1 .. Len(p) : q[n] = p[n]
  BY <1>1, <1>2, <1>4, <1>5
<1>7. IsPrefix(p, q)
  BY <1>6, PrefixElements
<1>8. QED
  BY <1>7 DEF IsStrictPrefix

\* No path is beyond itself, nor are its prefixes.
LEMMA NotBeyondItself ==
  ASSUME NEW p \in Seq(Nat)
  PROVE  /\ ~IsStrictPrefix(p, p)
         /\ SubSeq(p, 1, Len(p)) = p
         /\ \A n \in 0 .. Len(p) - 1 :
              SubSeq(p, 1, n) # p /\ ~IsStrictPrefix(p, SubSeq(p, 1, n))
<1>1. ~IsStrictPrefix(p, p)
  BY DEF IsStrictPrefix
<1>2. SubSeq(p, 1, Len(p)) = p
  BY SubSeqFull
<1>3. IsPrefix(p, p)
  BY LenProperties DEF IsPrefix
<1>4. ASSUME NEW n \in 0 .. Len(p) - 1
      PROVE  ~IsPrefix(p, SubSeq(p, 1, n))
  BY <1>1, FirstPrefix
<1>5. QED
  BY <1>1, <1>2, <1>3, <1>4 DEF IsStrictPrefix

\* g is the tree with another list at p.
IsGraft(g, tree, p, list) ==
  /\ g = [q \in DOMAIN g |-> g[q]]
  /\ DOMAIN g \subseteq Seq(Nat)
  /\ \A q \in Seq(Nat) : ~IsStrictPrefix(p, q) =>
       /\ q \in DOMAIN g <=> q \in DOMAIN tree
       /\ q \in DOMAIN tree =>
            g[q] = [id |-> tree[q].id, size |-> IF q = p THEN Len(list) ELSE tree[q].size]
  /\ \A j \in Nat, q \in Seq(Nat) :
       /\ Down(p, j, q) \in DOMAIN g <=> j < Len(list) /\ q \in DOMAIN list[j + 1]
       /\ Down(p, j, q) \in DOMAIN g => g[Down(p, j, q)] = list[j + 1][q]

\* The branches of a list.
LEMMA BranchOfList ==
  ASSUME NEW list \in Seq(Branches), NEW j \in Nat, j < Len(list)
  PROVE  /\ list[j + 1] \in Branches /\ IsTree(list[j + 1])
         /\ j + 1 \in DOMAIN list
         /\ DOMAIN list[j + 1] \subseteq Seq(Nat) /\ Root \in DOMAIN list[j + 1]
<1>1. Len(list) \in Nat /\ DOMAIN list = 1 .. Len(list)
  BY LenProperties
<1>2. j + 1 \in 1 .. Len(list)
  BY <1>1
<1>3. list[j + 1] \in Branches
  BY <1>2, ElementOfSeq
<1>4. IsTree(list[j + 1])
  BY <1>3, TreesDef DEF Branches
<1>5. QED
  BY <1>1, <1>2, <1>3, <1>4 DEF IsTree

\* The paths of what a list holds.
Inner(p, list) ==
  UNION {{Append(p, j - 1) \o q : q \in DOMAIN list[j]} : j \in DOMAIN list}

\* x is the path of something in the list at p.
InList(x, p, list) ==
  \E j \in Nat, r \in Seq(Nat) : x = Down(p, j, r) /\ j < Len(list) /\ r \in DOMAIN list[j + 1]

\* The paths within the components of a list.
LEMMA InnerPaths ==
  ASSUME NEW p \in Seq(Nat), NEW list \in Seq(Branches)
  PROVE  \A x : x \in Inner(p, list) <=> InList(x, p, list)
<1> DEFINE Part(k) == {Append(p, k - 1) \o q : q \in DOMAIN list[k]}
<1>1. Len(list) \in Nat /\ DOMAIN list = 1 .. Len(list)
  BY LenProperties
<1>2. ASSUME NEW x \in Inner(p, list)
      PROVE  InList(x, p, list)
  <2>1. PICK k \in DOMAIN list : x \in Part(k)
    BY DEF Inner
  <2>2. PICK r \in DOMAIN list[k] : x = Append(p, k - 1) \o r
    BY <2>1
  <2>3. k - 1 \in Nat /\ k - 1 < Len(list) /\ k - 1 + 1 = k
    BY <1>1
  <2>4. r \in Seq(Nat)
    BY <2>3, BranchOfList
  <2>5. x = Down(p, k - 1, r)
    BY <2>2 DEF Down
  <2>6. QED
    BY <2>3, <2>4, <2>5 DEF InList
<1>3. ASSUME NEW x, InList(x, p, list)
      PROVE  x \in Inner(p, list)
  <2>1. PICK j \in Nat, r \in Seq(Nat) :
          x = Down(p, j, r) /\ j < Len(list) /\ r \in DOMAIN list[j + 1]
    BY <1>3 DEF InList
  <2> DEFINE k == j + 1
  <2>2. k \in DOMAIN list /\ k - 1 = j
    BY <1>1, <2>1
  <2>3. r \in DOMAIN list[k]
    BY <2>1
  <2> HIDE DEF k
  <2>4. x = Append(p, k - 1) \o r
    BY <2>1, <2>2 DEF Down
  <2>5. x \in Part(k)
    BY <2>3, <2>4
  <2>6. Part(k) \in {Part(m) : m \in DOMAIN list}
    BY <2>2
  <2>7. Inner(p, list) = UNION {Part(m) : m \in DOMAIN list}
    BY DEF Inner
  <2> HIDE DEF Part
  <2>8. QED
    BY <2>5, <2>6, <2>7
<1>4. QED
  BY <1>2, <1>3

\* What set puts at a path that is in the tree.
LEMMA GraftElements ==
  ASSUME NEW tree, IsTree(tree), NEW p \in DOMAIN tree, NEW list \in Seq(Branches)
  PROVE  IsGraft(Graft(tree, p, list), tree, p, list)
<1> DEFINE outer == {q \in DOMAIN tree : ~IsStrictPrefix(p, q)}
           Inside(q) == list[q[Len(p) + 1] + 1][SubSeq(q, Len(p) + 2, Len(q))]
           Outside(q) == [id |-> tree[q].id, size |-> IF q = p THEN Len(list) ELSE tree[q].size]
           g == Graft(tree, p, list)
<1>1. p \in Seq(Nat) /\ outer \subseteq Seq(Nat) /\ Len(list) \in Nat /\ DOMAIN list = 1 .. Len(list)
  BY LenProperties DEF IsTree
<1>2. g = [q \in outer \cup Inner(p, list) |-> IF q \in Inner(p, list) THEN Inside(q) ELSE Outside(q)]
  BY DEF Graft, Inner
<1>3. ASSUME NEW q \in Inner(p, list)
      PROVE  q \in Seq(Nat) /\ IsStrictPrefix(p, q) /\ InList(q, p, list)
  <2>1. InList(q, p, list)
    BY <1>1, InnerPaths
  <2>2. PICK j \in Nat, r \in Seq(Nat) : q = Down(p, j, r)
    BY <2>1 DEF InList
  <2>3. q \in Seq(Nat) /\ IsStrictPrefix(p, q)
    BY <1>1, <2>2, DownElements, DownInverse DEF IsDown
  <2>4. QED
    BY <2>1, <2>3
<1>4. ASSUME NEW j \in Nat, NEW q \in Seq(Nat)
      PROVE  /\ Down(p, j, q) \in Inner(p, list) <=> j < Len(list) /\ q \in DOMAIN list[j + 1]
             /\ Inside(Down(p, j, q)) = list[j + 1][q]
             /\ Down(p, j, q) \notin outer
  <2>1. ASSUME Down(p, j, q) \in Inner(p, list)
        PROVE  j < Len(list) /\ q \in DOMAIN list[j + 1]
    <3>1. PICK i \in Nat, r \in Seq(Nat) :
            Down(p, j, q) = Down(p, i, r) /\ i < Len(list) /\ r \in DOMAIN list[i + 1]
      BY <1>3, <2>1 DEF InList
    <3>2. i = j /\ r = q
      BY <1>1, <3>1, DownInjective
    <3>3. QED
      BY <3>1, <3>2
  <2>2. ASSUME j < Len(list), q \in DOMAIN list[j + 1]
        PROVE  Down(p, j, q) \in Inner(p, list)
    <3>1. InList(Down(p, j, q), p, list)
      BY <2>2 DEF InList
    <3>2. QED
      BY <1>1, <3>1, InnerPaths
  <2>3. Down(p, j, q)[Len(p) + 1] = j
    BY <1>1, DownElements DEF IsDown
  <2>4. SubSeq(Down(p, j, q), Len(p) + 2, Len(Down(p, j, q))) = q
    BY <1>1, DownInverse
  <2>5. IsStrictPrefix(p, Down(p, j, q))
    BY <1>1, DownInverse
  <2>6. QED
    BY <2>1, <2>2, <2>3, <2>4, <2>5
<1> HIDE DEF Inside, Outside, g
<1>5. DOMAIN g = outer \cup Inner(p, list)
  BY <1>2
<1>6. \A q \in DOMAIN g : g[q] = IF q \in Inner(p, list) THEN Inside(q) ELSE Outside(q)
  BY <1>2
<1>7. g = [q \in DOMAIN g |-> g[q]]
  BY <1>2
<1>8. DOMAIN g \subseteq Seq(Nat)
  BY <1>1, <1>3, <1>5
<1>9. ASSUME NEW q \in Seq(Nat), ~IsStrictPrefix(p, q)
      PROVE  /\ q \in DOMAIN g <=> q \in DOMAIN tree
             /\ q \in DOMAIN tree => g[q] = Outside(q)
  BY <1>3, <1>5, <1>6, <1>9
<1>10. ASSUME NEW j \in Nat, NEW q \in Seq(Nat)
       PROVE  /\ Down(p, j, q) \in DOMAIN g <=> j < Len(list) /\ q \in DOMAIN list[j + 1]
              /\ Down(p, j, q) \in DOMAIN g => g[Down(p, j, q)] = list[j + 1][q]
  BY <1>4, <1>5, <1>6
<1>11. IsGraft(g, tree, p, list)
  BY <1>7, <1>8, <1>9, <1>10 DEF IsGraft, Outside
<1>12. QED
  BY <1>11 DEF g

\* The two parts of a tree with another list at p.
LEMMA GraftPaths ==
  ASSUME NEW g, NEW tree, NEW p \in Seq(Nat), NEW list, IsGraft(g, tree, p, list),
         NEW q \in DOMAIN g
  PROVE  \/ ~IsStrictPrefix(p, q) /\ q \in DOMAIN tree
         \/ \E j \in Nat, r \in Seq(Nat) :
              q = Down(p, j, r) /\ j < Len(list) /\ r \in DOMAIN list[j + 1]
<1>1. q \in Seq(Nat)
  BY DEF IsGraft
<1>2. CASE IsStrictPrefix(p, q)
  <2>1. PICK j \in Nat, r \in Seq(Nat) : q = Down(p, j, r)
    BY <1>1, <1>2, Splits, ZenonT(60)
  <2>2. j < Len(list) /\ r \in DOMAIN list[j + 1]
    BY <2>1 DEF IsGraft
  <2>3. QED
    BY <2>1, <2>2
<1>3. CASE ~IsStrictPrefix(p, q)
  BY <1>1, <1>3 DEF IsGraft
<1>4. QED
  BY <1>2, <1>3

\* A graft is known by the tree, the path and the list.
LEMMA GraftUnique ==
  ASSUME NEW g, NEW h, NEW tree, NEW p \in Seq(Nat), NEW list,
         IsGraft(g, tree, p, list), IsGraft(h, tree, p, list)
  PROVE  g = h
<1>1. ASSUME NEW q \in DOMAIN g
      PROVE  q \in DOMAIN h /\ g[q] = h[q]
  <2>1. q \in Seq(Nat)
    BY DEF IsGraft
  <2>2. CASE ~IsStrictPrefix(p, q) /\ q \in DOMAIN tree
    BY <2>1, <2>2 DEF IsGraft
  <2>3. CASE \E j \in Nat, r \in Seq(Nat) :
               q = Down(p, j, r) /\ j < Len(list) /\ r \in DOMAIN list[j + 1]
    BY <2>3 DEF IsGraft
  <2>4. \/ ~IsStrictPrefix(p, q) /\ q \in DOMAIN tree
        \/ \E j \in Nat, r \in Seq(Nat) :
             q = Down(p, j, r) /\ j < Len(list) /\ r \in DOMAIN list[j + 1]
    BY GraftPaths, SMTT(30)
  <2>5. QED
    BY <2>2, <2>3, <2>4
<1>2. ASSUME NEW q \in DOMAIN h
      PROVE  q \in DOMAIN g
  <2>1. q \in Seq(Nat)
    BY DEF IsGraft
  <2>2. CASE ~IsStrictPrefix(p, q) /\ q \in DOMAIN tree
    BY <2>1, <2>2 DEF IsGraft
  <2>3. CASE \E j \in Nat, r \in Seq(Nat) :
               q = Down(p, j, r) /\ j < Len(list) /\ r \in DOMAIN list[j + 1]
    BY <2>3 DEF IsGraft
  <2>4. \/ ~IsStrictPrefix(p, q) /\ q \in DOMAIN tree
        \/ \E j \in Nat, r \in Seq(Nat) :
             q = Down(p, j, r) /\ j < Len(list) /\ r \in DOMAIN list[j + 1]
    BY GraftPaths, SMTT(30)
  <2>5. QED
    BY <2>2, <2>3, <2>4
<1>3. DOMAIN g = DOMAIN h
  BY <1>1, <1>2
<1>4. [q \in DOMAIN g |-> g[q]] = [q \in DOMAIN h |-> h[q]]
  BY <1>1, <1>3
<1>5. g = [q \in DOMAIN g |-> g[q]] /\ h = [q \in DOMAIN h |-> h[q]]
  BY DEF IsGraft
<1>6. QED
  BY <1>4, <1>5

\* The first indexes of a path are not beyond it, and the root is beyond nothing.
LEMMA NotBeyond ==
  ASSUME NEW p \in Seq(Nat)
  PROVE  /\ Root \in Seq(Nat) /\ ~IsStrictPrefix(p, Root)
         /\ \A q \in Seq(Nat) : \A n \in 0 .. Len(q) - 1 :
              ~IsStrictPrefix(p, q) =>
                SubSeq(q, 1, n) # p /\ ~IsStrictPrefix(p, SubSeq(q, 1, n))
<1>1. Root \in Seq(Nat) /\ Len(Root) = 0 /\ Len(p) \in Nat
  BY LenProperties DEF Root
<1>2. ~IsStrictPrefix(p, Root)
  <2>1. IsStrictPrefix(p, Root) => Len(p) < Len(Root)
    BY <1>1, PrefixElements, Zenon
  <2>2. QED
    BY <1>1, <2>1
<1>3. IsPrefix(p, p)
  BY SubSeqFull, LenProperties DEF IsPrefix
<1>4. ASSUME NEW q \in Seq(Nat), NEW n \in 0 .. Len(q) - 1, ~IsStrictPrefix(p, q)
      PROVE  SubSeq(q, 1, n) # p /\ ~IsStrictPrefix(p, SubSeq(q, 1, n))
  <2>1. ~IsPrefix(p, SubSeq(q, 1, n))
    BY <1>4, FirstPrefix
  <2>2. QED
    BY <1>3, <2>1 DEF IsStrictPrefix
<1>5. QED
  BY <1>1, <1>2, <1>4

\* An index on a path of a tree is in its list.
LEMMA TreeChild ==
  ASSUME NEW tree, IsTree(tree), NEW p \in Seq(Nat), NEW j \in Nat
  PROVE  /\ Append(p, j) \in DOMAIN tree <=> p \in DOMAIN tree /\ j < tree[p].size
         /\ \A q \in Seq(Nat) :
              Down(p, j, q) \in DOMAIN tree => p \in DOMAIN tree /\ j < tree[p].size
<1>1. Len(p) \in Nat
  BY LenProperties
<1>2. ASSUME NEW q \in Seq(Nat), Down(p, j, q) \in DOMAIN tree
      PROVE  p \in DOMAIN tree /\ j < tree[p].size
  <2> DEFINE d == Down(p, j, q)
  <2>1. Len(d) = Len(p) + 1 + Len(q) /\ d[Len(p) + 1] = j /\ Len(q) \in Nat
    BY DownElements, LenProperties DEF IsDown
  <2>2. SubSeq(d, 1, Len(p)) = SubSeq(p, 1, Len(p))
    <3>1. Len(p) \in 0 .. Len(p)
      BY <1>1
    <3>2. QED
      BY <3>1, DownPrefixes
  <2>3. SubSeq(d, 1, Len(p)) = p
    BY <2>2, SubSeqFull
  <2>4. d \in DOMAIN tree
    BY <1>2
  <2> HIDE DEF d
  <2>5. Len(p) \in 0 .. Len(d) - 1
    BY <1>1, <2>1
  <2>6. SubSeq(d, 1, Len(p)) \in DOMAIN tree /\ d[Len(p) + 1] < tree[SubSeq(d, 1, Len(p))].size
    BY <2>4, <2>5 DEF IsTree
  <2>7. QED
    BY <2>1, <2>3, <2>6
<1>3. ASSUME p \in DOMAIN tree, j < tree[p].size
      PROVE  Append(p, j) \in DOMAIN tree
  <2>1. tree[p].size \in Nat
    BY <1>3 DEF IsTree
  <2>2. j \in 0 .. tree[p].size - 1
    BY <1>3, <2>1
  <2>3. QED
    BY <1>3, <2>2 DEF IsTree
<1>4. Append(p, j) = Down(p, j, Root) /\ Root \in Seq(Nat)
  BY DownAppend, NotBeyond
<1>5. QED
  BY <1>2, <1>3, <1>4

\* A component of a list is a tree with a name.
LEMMA SubBranch ==
  ASSUME NEW tree, IsTree(tree), NEW p \in DOMAIN tree, NEW j \in Nat, j < tree[p].size,
         NEW t, IsSub(t, tree, p, j)
  PROVE  t \in Branches
<1>1. p \in Seq(Nat) /\ Len(p) \in Nat /\ Root \in Seq(Nat)
  BY LenProperties, NotBeyond DEF IsTree
<1>2. /\ t = [q \in DOMAIN t |-> t[q]] /\ DOMAIN t \subseteq Seq(Nat)
      /\ \A q \in Seq(Nat) : q \in DOMAIN t <=> Down(p, j, q) \in DOMAIN tree
      /\ \A q \in DOMAIN t : t[q] = tree[Down(p, j, q)]
  BY DEF IsSub
<1>3. \A d \in DOMAIN tree : tree[d] \in Entries /\ tree[d].size \in Nat
  BY DEF IsTree, Entries, Known
<1>4. t \in [DOMAIN t -> Entries]
  BY <1>2, <1>3
<1>5. Root \in DOMAIN t
  <2>1. Append(p, j) \in DOMAIN tree
    BY <1>1, TreeChild
  <2>2. Down(p, j, Root) = Append(p, j)
    BY <1>1, DownAppend
  <2>3. QED
    BY <1>1, <1>2, <2>1, <2>2
<1>6. ASSUME NEW q \in DOMAIN t
      PROVE  /\ \A n \in 0 .. Len(q) - 1 :
                  SubSeq(q, 1, n) \in DOMAIN t /\ q[n + 1] < t[SubSeq(q, 1, n)].size
             /\ t[q].id # None
             /\ \A i \in 0 .. t[q].size - 1 : Append(q, i) \in DOMAIN t
  <2> DEFINE d == Down(p, j, q)
  <2>1. /\ q \in Seq(Nat) /\ Len(q) \in Nat /\ d \in DOMAIN tree /\ t[q] = tree[d]
        /\ d \in Seq(Nat) /\ Len(d) = Len(p) + 1 + Len(q)
        /\ \A n \in Len(p) + 2 .. Len(d) : d[n] = q[n - (Len(p) + 1)]
        /\ d # Root
    <3>1. q \in Seq(Nat) /\ Len(q) \in Nat /\ d \in DOMAIN tree /\ t[q] = tree[d]
      BY <1>2, LenProperties
    <3>2. IsDown(d, p, j, q)
      BY <1>1, <3>1, DownElements
    <3>3. IsStrictPrefix(p, d) /\ ~IsStrictPrefix(p, Root)
      BY <1>1, <3>1, DownInverse, NotBeyond
    <3>4. QED
      BY <3>1, <3>2, <3>3 DEF IsDown
  <2>2. ASSUME NEW n \in 0 .. Len(q) - 1
        PROVE  SubSeq(q, 1, n) \in DOMAIN t /\ q[n + 1] < t[SubSeq(q, 1, n)].size
    <3>1. n \in 0 .. Len(q) /\ n \in Nat
      BY <2>1
    <3>2. SubSeq(d, 1, Len(p) + 1 + n) = Down(p, j, SubSeq(q, 1, n))
      BY <1>1, <2>1, <3>1, DownPrefixes, ZenonT(60)
    <3>3. SubSeq(q, 1, n) \in Seq(Nat)
      BY <2>1, <3>1, FirstElements DEF IsFirst
    <3> DEFINE k == Len(p) + 1 + n
    <3>4. /\ k \in 0 .. Len(d) - 1 /\ k + 1 \in Len(p) + 2 .. Len(d)
          /\ k + 1 - (Len(p) + 1) = n + 1
      BY <1>1, <2>1, <3>1, SMTT(30)
    <3>5. d[k + 1] = q[n + 1]
      BY <2>1, <3>4
    <3>6. SubSeq(d, 1, k) = Down(p, j, SubSeq(q, 1, n))
      BY <3>2
    <3> HIDE DEF k, d
    <3>7. SubSeq(d, 1, k) \in DOMAIN tree /\ d[k + 1] < tree[SubSeq(d, 1, k)].size
      BY <2>1, <3>4 DEF IsTree
    <3>8. SubSeq(q, 1, n) \in DOMAIN t
      BY <1>2, <3>3, <3>6, <3>7
    <3>9. QED
      BY <1>2, <3>5, <3>6, <3>7, <3>8
  <2>3. t[q].id # None
    BY <2>1 DEF IsTree
  <2>4. ASSUME NEW i \in 0 .. t[q].size - 1
        PROVE  Append(q, i) \in DOMAIN t
    <3>1. i \in Nat /\ i \in 0 .. tree[d].size - 1
      BY <1>3, <2>1
    <3>2. Append(d, i) \in DOMAIN tree
      BY <2>1, <3>1 DEF IsTree
    <3>3. Append(d, i) = Down(p, j, Append(q, i)) /\ Append(q, i) \in Seq(Nat)
      <4>1. Append(q, i) \in Seq(Nat)
        BY <2>1, <3>1, AppendProperties
      <4>2. Append(d, i) = Down(p, j, Append(q, i))
        <5>1. \A r \in Seq(Nat), m \in Nat : Append(Down(p, j, r), m) = Down(p, j, Append(r, m))
          BY <1>1, DownAppend
        <5>2. QED
          BY <2>1, <3>1, <5>1
      <4>3. QED
        BY <4>1, <4>2
    <3>4. QED
      BY <1>2, <3>2, <3>3
  <2>5. QED
    BY <2>2, <2>3, <2>4
<1>7. IsTree(t)
  BY <1>2, <1>4, <1>5, <1>6 DEF IsTree, Entries, Known
<1>8. QED
  BY <1>5, <1>6, <1>7, TreesDef DEF Branches

\* A component is known by the tree and its place.
LEMMA SubUnique ==
  ASSUME NEW t, NEW u, NEW tree, NEW p, NEW j,
         IsSub(t, tree, p, j), IsSub(u, tree, p, j)
  PROVE  t = u
<1>1. DOMAIN t = DOMAIN u
  BY DEF IsSub
<1>2. [q \in DOMAIN t |-> t[q]] = [q \in DOMAIN u |-> u[q]]
  BY <1>1 DEF IsSub
<1>3. t = [q \in DOMAIN t |-> t[q]] /\ u = [q \in DOMAIN u |-> u[q]]
  BY DEF IsSub
<1>4. QED
  BY <1>2, <1>3

\* The list at a path.
LEMMA ListAtElements ==
  ASSUME NEW tree, IsTree(tree), NEW p \in Seq(Nat)
  PROVE  /\ Size(tree, p) \in Nat
         /\ ListAt(tree, p) \in Seq(Branches) /\ Len(ListAt(tree, p)) = Size(tree, p)
         /\ \A j \in Nat : j < Size(tree, p) =>
              /\ ListAt(tree, p)[j + 1] = Sub(tree, Append(p, j))
              /\ IsSub(ListAt(tree, p)[j + 1], tree, p, j)
<1> DEFINE n == Size(tree, p)  list == ListAt(tree, p)
<1>1. n \in Nat /\ (0 < n => p \in DOMAIN tree /\ n = tree[p].size)
  BY DEF Size, IsTree
<1>2. list = [j \in 1 .. n |-> Sub(tree, Append(p, j - 1))]
  BY DEF ListAt
<1> HIDE DEF n, list
<1>3. ASSUME NEW j \in Nat, j < n
      PROVE  /\ list[j + 1] = Sub(tree, Append(p, j))
             /\ IsSub(list[j + 1], tree, p, j)
             /\ list[j + 1] \in Branches
  <2>1. j + 1 \in 1 .. n /\ j + 1 - 1 = j /\ 0 < n
    BY <1>1, <1>3
  <2>2. list[j + 1] = Sub(tree, Append(p, j))
    BY <1>2, <2>1
  <2>3. IsSub(list[j + 1], tree, p, j)
    BY <2>2, SubElements
  <2>4. list[j + 1] \in Branches
    BY <1>1, <1>3, <2>1, <2>3, SubBranch
  <2>5. QED
    BY <2>2, <2>3, <2>4
<1>4. ASSUME NEW m \in 1 .. n
      PROVE  list[m] \in Branches
  <2>1. m - 1 \in Nat /\ m - 1 < n /\ m - 1 + 1 = m
    BY <1>1
  <2>2. QED
    BY <1>3, <2>1
<1>5. list \in Seq(Branches) /\ Len(list) = n
  <2>1. list \in [1 .. n -> Branches]
    BY <1>2, <1>4
  <2>2. QED
    BY <1>1, <2>1, SeqDef, LenProperties
<1>6. QED
  BY <1>1, <1>3, <1>5 DEF n, list

\* Two trees with another list at p are trees, and p is in them.
LEMMA GraftTree ==
  ASSUME NEW tree, IsTree(tree), NEW p \in DOMAIN tree, NEW list \in Seq(Branches),
         NEW g, IsGraft(g, tree, p, list)
  PROVE  /\ IsTree(g) /\ p \in DOMAIN g
         /\ g[p].id = tree[p].id /\ g[p].size = Len(list) /\ g[Root].id = tree[Root].id
<1>1. /\ p \in Seq(Nat) /\ Len(p) \in Nat /\ Len(list) \in Nat
      /\ Root \in Seq(Nat) /\ Root \in DOMAIN tree
      /\ ~IsStrictPrefix(p, Root) /\ ~IsStrictPrefix(p, p)
  BY LenProperties, NotBeyond, NotBeyondItself DEF IsTree
<1>2. /\ g = [q \in DOMAIN g |-> g[q]] /\ DOMAIN g \subseteq Seq(Nat)
  BY DEF IsGraft
<1>3. ASSUME NEW q \in Seq(Nat), ~IsStrictPrefix(p, q)
      PROVE  /\ q \in DOMAIN g <=> q \in DOMAIN tree
             /\ q \in DOMAIN tree =>
                  /\ g[q].id = tree[q].id
                  /\ g[q].size = IF q = p THEN Len(list) ELSE tree[q].size
                  /\ g[q] \in Entries
  <2>1. /\ q \in DOMAIN g <=> q \in DOMAIN tree
        /\ q \in DOMAIN tree =>
            g[q] = [id |-> tree[q].id, size |-> IF q = p THEN Len(list) ELSE tree[q].size]
    BY <1>3 DEF IsGraft
  <2>2. q \in DOMAIN tree => tree[q].id \in Known /\ tree[q].size \in Nat
    BY DEF IsTree, Known
  <2>3. QED
    BY <1>1, <2>1, <2>2 DEF Entries
<1>4. ASSUME NEW j \in Nat, NEW r \in Seq(Nat), Down(p, j, r) \in DOMAIN g
      PROVE  /\ j < Len(list) /\ r \in DOMAIN list[j + 1]
             /\ g[Down(p, j, r)] = list[j + 1][r]
             /\ g[Down(p, j, r)] \in Entries
             /\ IsTree(list[j + 1]) /\ list[j + 1][Root].id # None
  <2>1. /\ j < Len(list) /\ r \in DOMAIN list[j + 1]
        /\ g[Down(p, j, r)] = list[j + 1][r]
    BY <1>4 DEF IsGraft
  <2>2. IsTree(list[j + 1]) /\ list[j + 1][Root].id # None
    BY <2>1, BranchOfList DEF Branches
  <2>3. list[j + 1][r] \in Entries
    BY <2>1, <2>2 DEF IsTree, Entries, Known
  <2>4. QED
    BY <2>1, <2>2, <2>3
<1>5. \A j \in Nat, r \in Seq(Nat) :
        j < Len(list) /\ r \in DOMAIN list[j + 1] => Down(p, j, r) \in DOMAIN g
  BY DEF IsGraft
<1>6. Root \in DOMAIN g /\ p \in DOMAIN g /\ g[Root].id = tree[Root].id
      /\ g[p].id = tree[p].id /\ g[p].size = Len(list)
  BY <1>1, <1>3
<1>7. ASSUME NEW q \in DOMAIN g
      PROVE  /\ g[q] \in Entries
             /\ \A n \in 0 .. Len(q) - 1 :
                  SubSeq(q, 1, n) \in DOMAIN g /\ q[n + 1] < g[SubSeq(q, 1, n)].size
             /\ q # Root => g[q].id # None
             /\ \A i \in 0 .. g[q].size - 1 : Append(q, i) \in DOMAIN g
  <2>1. CASE ~IsStrictPrefix(p, q) /\ q \in DOMAIN tree
    <3>1. q \in Seq(Nat) /\ Len(q) \in Nat
      BY <1>2, LenProperties
    <3>2. ASSUME NEW n \in 0 .. Len(q) - 1
          PROVE  SubSeq(q, 1, n) \in DOMAIN g /\ q[n + 1] < g[SubSeq(q, 1, n)].size
      <4>1. SubSeq(q, 1, n) \in DOMAIN tree /\ q[n + 1] < tree[SubSeq(q, 1, n)].size
        BY <2>1 DEF IsTree
      <4>2. SubSeq(q, 1, n) # p /\ ~IsStrictPrefix(p, SubSeq(q, 1, n))
        BY <1>1, <2>1, <3>1, NotBeyond
      <4>3. SubSeq(q, 1, n) \in Seq(Nat)
        BY <4>1 DEF IsTree
      <4>4. QED
        BY <1>3, <4>1, <4>2, <4>3
    <3>3. g[q] \in Entries /\ (q # Root => g[q].id # None)
      BY <1>3, <2>1, <3>1 DEF IsTree
    <3>4. ASSUME NEW i \in 0 .. g[q].size - 1
          PROVE  Append(q, i) \in DOMAIN g
      <4>1. CASE q = p
        <5>1. i \in Nat /\ i < Len(list)
          BY <1>1, <1>6, <4>1
        <5>2. Root \in DOMAIN list[i + 1]
          BY <5>1, BranchOfList
        <5>3. Down(p, i, Root) \in DOMAIN g
          BY <1>1, <1>5, <5>1, <5>2
        <5>4. QED
          BY <1>1, <4>1, <5>1, <5>3, DownAppend
      <4>2. CASE q # p
        <5>1. g[q].size = tree[q].size /\ tree[q].size \in Nat
          BY <1>3, <2>1, <3>1, <4>2 DEF IsTree
        <5>2. i \in Nat /\ Append(q, i) \in DOMAIN tree
          BY <2>1, <5>1 DEF IsTree
        <5>3. ~IsStrictPrefix(p, Append(q, i))
          BY <1>1, <2>1, <3>1, <4>2, <5>2, AppendBeyond
        <5>4. Append(q, i) \in Seq(Nat)
          BY <5>2 DEF IsTree
        <5>5. QED
          BY <1>3, <5>2, <5>3, <5>4
      <4>3. QED
        BY <4>1, <4>2
    <3>5. QED
      BY <3>2, <3>3, <3>4
  <2>2. CASE \E j \in Nat, r \in Seq(Nat) :
               q = Down(p, j, r) /\ j < Len(list) /\ r \in DOMAIN list[j + 1]
    <3>1. PICK j \in Nat, r \in Seq(Nat) :
                 q = Down(p, j, r) /\ j < Len(list) /\ r \in DOMAIN list[j + 1]
      BY <2>2
    <3> DEFINE t == list[j + 1]
    <3>2. /\ g[q] = t[r] /\ g[q] \in Entries /\ IsTree(t) /\ t[Root].id # None
          /\ r \in DOMAIN t
      BY <1>4, <3>1
    <3>3. /\ Len(r) \in Nat /\ q \in Seq(Nat) /\ Len(q) = Len(p) + 1 + Len(r)
          /\ \A n \in 1 .. Len(p) : q[n] = p[n]
          /\ q[Len(p) + 1] = j
          /\ \A n \in Len(p) + 2 .. Len(q) : q[n] = r[n - (Len(p) + 1)]
      <4>1. Len(r) \in Nat
        BY LenProperties
      <4>2. IsDown(q, p, j, r)
        BY <1>1, <3>1, DownElements
      <4>3. QED
        BY <4>1, <4>2 DEF IsDown
    <3>4. /\ \A n \in 0 .. Len(p) : SubSeq(q, 1, n) = SubSeq(p, 1, n)
          /\ \A n \in 0 .. Len(r) :
               SubSeq(q, 1, Len(p) + 1 + n) = Down(p, j, SubSeq(r, 1, n))
      BY <1>1, <3>1, DownPrefixes, ZenonT(60)
    <3>5. ASSUME NEW n \in 0 .. Len(q) - 1
          PROVE  SubSeq(q, 1, n) \in DOMAIN g /\ q[n + 1] < g[SubSeq(q, 1, n)].size
      <4>1. CASE n < Len(p)
        <5>1. n \in 0 .. Len(p) - 1 /\ n \in 0 .. Len(p) /\ n + 1 \in 1 .. Len(p)
          BY <1>1, <4>1
        <5>2. SubSeq(q, 1, n) = SubSeq(p, 1, n) /\ q[n + 1] = p[n + 1]
          BY <3>3, <3>4, <5>1
        <5>3. SubSeq(p, 1, n) \in DOMAIN tree /\ p[n + 1] < tree[SubSeq(p, 1, n)].size
          BY <5>1 DEF IsTree
        <5>4. SubSeq(p, 1, n) # p /\ ~IsStrictPrefix(p, SubSeq(p, 1, n))
          BY <1>1, <5>1, NotBeyond
        <5>5. SubSeq(p, 1, n) \in Seq(Nat)
          BY <5>3 DEF IsTree
        <5>6. QED
          BY <1>3, <5>2, <5>3, <5>4, <5>5
      <4>2. CASE n = Len(p)
        <5>1. SubSeq(q, 1, n) = p
          <6>1. Len(p) \in 0 .. Len(p)
            BY <1>1
          <6>2. QED
            BY <1>1, <3>4, <4>2, <6>1, NotBeyondItself
        <5>2. QED
          BY <1>6, <3>1, <3>3, <4>2, <5>1
      <4>3. CASE n > Len(p)
        <5> DEFINE m == n - (Len(p) + 1)
        <5>1. /\ m \in 0 .. Len(r) - 1 /\ m \in 0 .. Len(r) /\ n = Len(p) + 1 + m
              /\ n + 1 \in Len(p) + 2 .. Len(q) /\ n + 1 - (Len(p) + 1) = m + 1
          <6>1. Len(q) = Len(p) + 1 + Len(r) /\ Len(r) \in Nat
            BY <3>3
          <6>2. QED
            BY <1>1, <4>3, <6>1
        <5> HIDE DEF m
        <5>2. q[n + 1] = r[m + 1]
          BY <3>3, <5>1
        <5>3. SubSeq(q, 1, Len(p) + 1 + m) = Down(p, j, SubSeq(r, 1, m))
          BY <3>4, <5>1
        <5>4. SubSeq(q, 1, n) = Down(p, j, SubSeq(r, 1, m))
          BY <5>1, <5>3
        <5>5. SubSeq(r, 1, m) \in DOMAIN t /\ r[m + 1] < t[SubSeq(r, 1, m)].size
          BY <3>2, <5>1 DEF IsTree
        <5>6. SubSeq(r, 1, m) \in Seq(Nat)
          BY <3>2, <5>5 DEF IsTree
        <5>7. Down(p, j, SubSeq(r, 1, m)) \in DOMAIN g
          BY <1>5, <3>1, <5>5, <5>6
        <5>8. g[Down(p, j, SubSeq(r, 1, m))] = t[SubSeq(r, 1, m)]
          BY <1>4, <5>6, <5>7
        <5>9. QED
          BY <5>2, <5>4, <5>5, <5>7, <5>8
      <4>4. QED
        BY <1>1, <3>3, <4>1, <4>2, <4>3
    <3>6. g[q].id # None
      BY <3>2 DEF IsTree
    <3>7. ASSUME NEW i \in 0 .. g[q].size - 1
          PROVE  Append(q, i) \in DOMAIN g
      <4>1. i \in Nat /\ Append(r, i) \in DOMAIN t
        BY <3>2 DEF IsTree
      <4>2. Append(r, i) \in Seq(Nat)
        BY <3>2, <4>1 DEF IsTree
      <4>3. Append(q, i) = Down(p, j, Append(r, i))
        <5>1. \A s \in Seq(Nat), m \in Nat : Append(Down(p, j, s), m) = Down(p, j, Append(s, m))
          BY <1>1, DownAppend
        <5>2. QED
          BY <3>1, <4>1, <5>1
      <4>4. QED
        BY <1>5, <3>1, <4>1, <4>2, <4>3
    <3>8. QED
      BY <3>2, <3>5, <3>6, <3>7
  <2>3. QED
    BY <1>1, <2>1, <2>2, GraftPaths
<1>8. g \in [DOMAIN g -> Entries]
  BY <1>2, <1>7
<1>9. IsTree(g)
  BY <1>2, <1>6, <1>7, <1>8 DEF IsTree, Entries, Known
<1>10. QED
  BY <1>6, <1>9

\* The list that is there put back, ...
LEMMA GraftBack ==
  ASSUME NEW tree, IsTree(tree), NEW p \in DOMAIN tree
  PROVE  IsGraft(tree, tree, p, ListAt(tree, p))
<1> DEFINE list == ListAt(tree, p)
<1>1. p \in Seq(Nat) /\ ~IsStrictPrefix(p, p)
  BY NotBeyondItself DEF IsTree
<1>2. /\ Len(list) = tree[p].size /\ tree[p].size \in Nat
      /\ \A j \in Nat : j < tree[p].size => IsSub(list[j + 1], tree, p, j)
  BY <1>1, ListAtElements DEF Size
<1> HIDE DEF list
<1>3. tree = [q \in DOMAIN tree |-> tree[q]] /\ DOMAIN tree \subseteq Seq(Nat)
  BY DEF IsTree
<1>4. ASSUME NEW q \in DOMAIN tree
      PROVE  tree[q] = [id |-> tree[q].id, size |-> IF q = p THEN Len(list) ELSE tree[q].size]
  BY <1>2 DEF IsTree
<1>5. ASSUME NEW j \in Nat, NEW q \in Seq(Nat)
      PROVE  /\ Down(p, j, q) \in DOMAIN tree <=> j < Len(list) /\ q \in DOMAIN list[j + 1]
             /\ Down(p, j, q) \in DOMAIN tree => tree[Down(p, j, q)] = list[j + 1][q]
  <2>1. Down(p, j, q) \in DOMAIN tree => j < Len(list)
    BY <1>1, <1>2, TreeChild
  <2>2. j < Len(list) =>
          /\ q \in DOMAIN list[j + 1] <=> Down(p, j, q) \in DOMAIN tree
          /\ q \in DOMAIN list[j + 1] => tree[Down(p, j, q)] = list[j + 1][q]
    BY <1>2 DEF IsSub
  <2>3. QED
    BY <2>1, <2>2
<1>6. IsGraft(tree, tree, p, list)
  BY <1>3, <1>4, <1>5 DEF IsGraft
<1>7. QED
  BY <1>6 DEF list

\* ... the list that was put there, ...
LEMMA ListAtGraft ==
  ASSUME NEW tree, IsTree(tree), NEW p \in DOMAIN tree, NEW list \in Seq(Branches),
         NEW g, IsGraft(g, tree, p, list)
  PROVE  ListAt(g, p) = list
<1>1. IsTree(g) /\ p \in DOMAIN g /\ g[p].size = Len(list) /\ p \in Seq(Nat)
  <2>1. IsTree(g) /\ p \in DOMAIN g /\ g[p].size = Len(list)
    BY GraftTree
  <2>2. QED
    BY <2>1 DEF IsTree
<1>2. /\ ListAt(g, p) \in Seq(Branches) /\ Len(ListAt(g, p)) = Len(list)
      /\ \A j \in Nat : j < Len(list) => IsSub(ListAt(g, p)[j + 1], g, p, j)
  BY <1>1, ListAtElements DEF Size
<1>3. ASSUME NEW m \in 1 .. Len(list)
      PROVE  ListAt(g, p)[m] = list[m]
  <2> DEFINE j == m - 1
  <2>1. j \in Nat /\ j < Len(list) /\ j + 1 = m
    BY LenProperties
  <2> HIDE DEF j
  <2>2. IsSub(ListAt(g, p)[m], g, p, j)
    BY <1>2, <2>1
  <2>3. IsTree(list[m]) /\ list[m] = [q \in DOMAIN list[m] |-> list[m][q]]
        /\ DOMAIN list[m] \subseteq Seq(Nat)
    <3>1. IsTree(list[m])
      BY <2>1, BranchOfList
    <3>2. QED
      BY <3>1 DEF IsTree
  <2>4. IsSub(list[m], g, p, j)
    BY <2>1, <2>3 DEF IsSub, IsGraft
  <2>5. QED
    BY <2>2, <2>4, SubUnique
<1>4. QED
  BY <1>2, <1>3, SeqEqual

\* ... and of two lists the second.
LEMMA GraftGraft ==
  ASSUME NEW tree, NEW p \in Seq(Nat), NEW a, NEW b,
         NEW g, IsGraft(g, tree, p, a), NEW h, IsGraft(h, g, p, b)
  PROVE  IsGraft(h, tree, p, b)
<1>1. ASSUME NEW q \in Seq(Nat), ~IsStrictPrefix(p, q)
      PROVE  /\ q \in DOMAIN h <=> q \in DOMAIN tree
             /\ q \in DOMAIN tree =>
                  h[q] = [id |-> tree[q].id, size |-> IF q = p THEN Len(b) ELSE tree[q].size]
  <2>1. /\ q \in DOMAIN g <=> q \in DOMAIN tree
        /\ q \in DOMAIN tree =>
            g[q] = [id |-> tree[q].id, size |-> IF q = p THEN Len(a) ELSE tree[q].size]
    BY <1>1 DEF IsGraft
  <2>2. /\ q \in DOMAIN h <=> q \in DOMAIN g
        /\ q \in DOMAIN g =>
            h[q] = [id |-> g[q].id, size |-> IF q = p THEN Len(b) ELSE g[q].size]
    BY <1>1 DEF IsGraft
  <2>3. QED
    BY <2>1, <2>2
<1>2. QED
  BY <1>1 DEF IsGraft

\* A path beyond p leads into a component of the list at p.
LEMMA DownTo ==
  ASSUME NEW p \in Seq(Nat), NEW q \in Seq(Nat), IsStrictPrefix(p, q)
  PROVE  \E j \in Nat, r \in Seq(Nat) : q = Down(p, j, r)
<1>1. /\ q[Len(p) + 1] \in Nat
      /\ SubSeq(q, Len(p) + 2, Len(q)) \in Seq(Nat)
      /\ q = Down(p, q[Len(p) + 1], SubSeq(q, Len(p) + 2, Len(q)))
  BY Splits, Zenon
<1>2. QED
  BY <1>1

\* One path after another.
LEMMA PathsConcat ==
  ASSUME NEW p \in Seq(Nat), NEW q \in Seq(Nat), NEW r \in Seq(Nat)
  PROVE  (p \o q) \o r = p \o (q \o r)
  OBVIOUS

\* Going down twice.
LEMMA DownDown ==
  ASSUME NEW p \in Seq(Nat), NEW j \in Nat, NEW r \in Seq(Nat), NEW i \in Nat,
         NEW s \in Seq(Nat)
  PROVE  Down(Down(p, j, r), i, s) = Down(p, j, Down(r, i, s))
<1>1. Append(p, j) \in Seq(Nat) /\ Append(r, i) \in Seq(Nat)
  BY AppendProperties
<1>2. Append(Down(p, j, r), i) = Append(p, j) \o Append(r, i)
  <2>1. \A t \in Seq(Nat), m \in Nat : Append(Down(p, j, t), m) = Down(p, j, Append(t, m))
    BY DownAppend
  <2>2. Append(Down(p, j, r), i) = Down(p, j, Append(r, i))
    BY <2>1
  <2>3. QED
    BY <2>2 DEF Down
<1>3. (Append(p, j) \o Append(r, i)) \o s = Append(p, j) \o (Append(r, i) \o s)
  BY <1>1, PathsConcat, ZenonT(60)
<1>4. QED
  BY <1>2, <1>3 DEF Down

\* A path beyond one within a component is within that component.
LEMMA DownBeyond ==
  ASSUME NEW p \in Seq(Nat), NEW j \in Nat, NEW r \in Seq(Nat), NEW q \in Seq(Nat)
  PROVE  /\ IsStrictPrefix(Down(p, j, r), q) =>
              \E s \in Seq(Nat) : q = Down(p, j, s) /\ IsStrictPrefix(r, s)
         /\ IsStrictPrefix(Down(p, j, r), Down(p, j, q)) <=> IsStrictPrefix(r, q)
<1> DEFINE d == Down(p, j, r)
<1>1. d \in Seq(Nat)
  BY DownElements DEF IsDown
<1>2. ASSUME NEW e \in Seq(Nat), IsStrictPrefix(d, e)
      PROVE  \E s \in Seq(Nat) : e = Down(p, j, s) /\ IsStrictPrefix(r, s)
  <2>1. PICK i \in Nat, s \in Seq(Nat) : e = Down(d, i, s)
    BY <1>1, <1>2, DownTo
  <2>2. e = Down(p, j, Down(r, i, s))
    BY <2>1, DownDown
  <2>3. Down(r, i, s) \in Seq(Nat) /\ IsStrictPrefix(r, Down(r, i, s))
    BY DownElements, DownInverse DEF IsDown
  <2>4. QED
    BY <2>2, <2>3
<1>3. ASSUME IsStrictPrefix(d, Down(p, j, q))
      PROVE  IsStrictPrefix(r, q)
  <2>1. Down(p, j, q) \in Seq(Nat)
    BY DownElements DEF IsDown
  <2>2. PICK s \in Seq(Nat) : Down(p, j, q) = Down(p, j, s) /\ IsStrictPrefix(r, s)
    BY <1>2, <1>3, <2>1
  <2>3. q = s
    BY <2>2, DownInjective
  <2>4. QED
    BY <2>2, <2>3
<1>4. ASSUME IsStrictPrefix(r, q)
      PROVE  IsStrictPrefix(d, Down(p, j, q))
  <2>1. PICK i \in Nat, s \in Seq(Nat) : q = Down(r, i, s)
    BY <1>4, Splits, ZenonT(60)
  <2>2. Down(p, j, q) = Down(d, i, s)
    BY <2>1, DownDown
  <2>3. QED
    BY <1>1, <2>2, DownInverse
<1>5. QED
  BY <1>2, <1>3, <1>4

\* The list below component j of the list at p is one of that component's lists.
LEMMA ListAtDown ==
  ASSUME NEW tree, IsTree(tree), NEW p \in DOMAIN tree, NEW j \in Nat, j < tree[p].size,
         NEW r \in Seq(Nat)
  PROVE  LET t == ListAt(tree, p)[j + 1]
         IN  /\ ListAt(tree, Down(p, j, r)) = ListAt(t, r)
             /\ Down(p, j, r) \in DOMAIN tree <=> r \in DOMAIN t
             /\ r \in DOMAIN t => tree[Down(p, j, r)] = t[r]
<1> DEFINE t == ListAt(tree, p)[j + 1]  d == Down(p, j, r)
<1>1. p \in Seq(Nat) /\ d \in Seq(Nat)
  <2>1. p \in Seq(Nat)
    BY DEF IsTree
  <2>2. QED
    BY <2>1, DownElements DEF IsDown
<1>2. IsSub(t, tree, p, j) /\ IsTree(t)
  <2>1. IsSub(t, tree, p, j)
    BY <1>1, ListAtElements DEF Size
  <2>2. t \in Branches
    BY <2>1, SubBranch
  <2>3. QED
    BY <2>1, <2>2, TreesDef DEF Branches
<1> HIDE DEF t
<1>3. /\ d \in DOMAIN tree <=> r \in DOMAIN t
      /\ r \in DOMAIN t => tree[d] = t[r]
  BY <1>2 DEF IsSub
<1>4. Size(tree, d) = Size(t, r)
  BY <1>3 DEF Size
<1>5. /\ ListAt(tree, d) \in Seq(Branches) /\ Len(ListAt(tree, d)) = Size(tree, d)
      /\ Size(tree, d) \in Nat
      /\ \A i \in Nat : i < Size(tree, d) => IsSub(ListAt(tree, d)[i + 1], tree, d, i)
  BY <1>1, ListAtElements
<1>6. /\ ListAt(t, r) \in Seq(Branches) /\ Len(ListAt(t, r)) = Size(t, r)
      /\ \A i \in Nat : i < Size(t, r) => IsSub(ListAt(t, r)[i + 1], t, r, i)
  BY <1>2, ListAtElements
<1>7. ASSUME NEW m \in 1 .. Len(ListAt(tree, d))
      PROVE  ListAt(tree, d)[m] = ListAt(t, r)[m]
  <2> DEFINE i == m - 1  u == ListAt(t, r)[m]
  <2>1. i \in Nat /\ i < Size(tree, d) /\ i + 1 = m
    BY <1>5
  <2> HIDE DEF i
  <2>2. IsSub(ListAt(tree, d)[m], tree, d, i)
    BY <1>5, <2>1
  <2>3. IsSub(u, t, r, i)
    BY <1>4, <1>6, <2>1
  <2> HIDE DEF u
  <2>4. ASSUME NEW s \in Seq(Nat)
        PROVE  /\ s \in DOMAIN u <=> Down(d, i, s) \in DOMAIN tree
               /\ s \in DOMAIN u => u[s] = tree[Down(d, i, s)]
    <3>1. Down(d, i, s) = Down(p, j, Down(r, i, s))
      BY <1>1, <2>1, DownDown
    <3>2. Down(r, i, s) \in Seq(Nat)
      BY <2>1, DownElements DEF IsDown
    <3>3. /\ s \in DOMAIN u <=> Down(r, i, s) \in DOMAIN t
          /\ s \in DOMAIN u => u[s] = t[Down(r, i, s)]
      BY <2>3 DEF IsSub
    <3>4. /\ Down(r, i, s) \in DOMAIN t <=> Down(p, j, Down(r, i, s)) \in DOMAIN tree
          /\ Down(r, i, s) \in DOMAIN t => t[Down(r, i, s)] = tree[Down(p, j, Down(r, i, s))]
      BY <1>2, <3>2 DEF IsSub
    <3>5. QED
      BY <3>1, <3>3, <3>4
  <2>5. IsSub(u, tree, d, i)
    BY <2>3, <2>4 DEF IsSub
  <2>6. QED
    BY <2>2, <2>5, SubUnique DEF u
<1>8. ListAt(tree, d) = ListAt(t, r)
  BY <1>4, <1>5, <1>6, <1>7, SeqEqual
<1>9. QED
  BY <1>3, <1>8 DEF t

\* To change a list below component j of the list at p is to change that component.
LEMMA GraftDown ==
  ASSUME NEW tree, IsTree(tree), NEW p \in DOMAIN tree, NEW j \in Nat, j < tree[p].size,
         NEW r \in Seq(Nat), NEW list,
         NEW h, IsGraft(h, ListAt(tree, p)[j + 1], r, list),
         NEW new, DOMAIN new = 1 .. tree[p].size, Len(new) = tree[p].size,
         \A m \in 1 .. tree[p].size : new[m] = IF m = j + 1 THEN h ELSE ListAt(tree, p)[m],
         NEW g, IsGraft(g, tree, p, new)
  PROVE  IsGraft(g, tree, Down(p, j, r), list)
<1> DEFINE n == tree[p].size  L == ListAt(tree, p)  t == L[j + 1]  d == Down(p, j, r)
<1>1. /\ p \in Seq(Nat) /\ d \in Seq(Nat) /\ n \in Nat /\ j < n
      /\ IsStrictPrefix(p, d) /\ ~IsStrictPrefix(p, p)
  <2>1. p \in Seq(Nat) /\ n \in Nat
    BY DEF IsTree
  <2>2. QED
    BY <2>1, DownElements, DownInverse, NotBeyondItself DEF IsDown
<1>2. IsGraft(tree, tree, p, L) /\ Len(L) = n
  BY <1>1, GraftBack, ListAtElements DEF Size
<1>3. IsGraft(h, t, r, list) /\ IsGraft(g, tree, p, new) /\ Len(new) = n
  OBVIOUS
<1>4. \A m \in Nat : m < n => new[m + 1] = IF m = j THEN h ELSE L[m + 1]
  <2>1. ASSUME NEW m \in Nat, m < n
        PROVE  new[m + 1] = IF m = j THEN h ELSE L[m + 1]
    <3>1. m + 1 \in 1 .. n /\ (m + 1 = j + 1 <=> m = j)
      BY <1>1, <2>1
    <3>2. QED
      BY <3>1
  <2>2. QED
    BY <2>1
<1> HIDE DEF n, L, t, d
<1>5. \A m \in Nat, s \in Seq(Nat) :
        /\ Down(p, m, s) \in DOMAIN g <=> m < n /\ s \in DOMAIN new[m + 1]
        /\ Down(p, m, s) \in DOMAIN g => g[Down(p, m, s)] = new[m + 1][s]
        /\ Down(p, m, s) \in DOMAIN tree <=> m < n /\ s \in DOMAIN L[m + 1]
        /\ Down(p, m, s) \in DOMAIN tree => tree[Down(p, m, s)] = L[m + 1][s]
  BY <1>2, <1>3 DEF IsGraft
<1>6. ASSUME NEW q \in Seq(Nat), ~IsStrictPrefix(d, q)
      PROVE  /\ q \in DOMAIN g <=> q \in DOMAIN tree
             /\ q \in DOMAIN tree =>
                  g[q] = [id |-> tree[q].id, size |-> IF q = d THEN Len(list) ELSE tree[q].size]
  <2>1. CASE ~IsStrictPrefix(p, q)
    <3>1. q # d
      BY <1>1, <2>1
    <3>2. /\ q \in DOMAIN g <=> q \in DOMAIN tree
          /\ q \in DOMAIN tree =>
               g[q] = [id |-> tree[q].id, size |-> IF q = p THEN n ELSE tree[q].size]
      BY <1>3, <2>1 DEF IsGraft
    <3>3. QED
      BY <3>1, <3>2 DEF n
  <2>2. CASE IsStrictPrefix(p, q)
    <3>1. PICK m \in Nat, s \in Seq(Nat) : q = Down(p, m, s)
      BY <1>1, <2>2, DownTo
    <3>2. CASE m = j
      <4>1. (q = d <=> s = r) /\ ~IsStrictPrefix(r, s)
        <5>1. ASSUME q = d
              PROVE  s = r
          <6>1. Down(p, m, s) = Down(p, j, r)
            BY <3>1, <5>1 DEF d
          <6>2. QED
            BY <1>1, <6>1, DownInjective
        <5>2. s = r => q = d
          BY <3>1, <3>2 DEF d
        <5>3. IsStrictPrefix(d, Down(p, j, s)) <=> IsStrictPrefix(r, s)
          BY <1>1, DownBeyond DEF d
        <5>4. QED
          BY <1>6, <3>1, <3>2, <5>1, <5>2, <5>3
      <4>2. /\ s \in DOMAIN h <=> s \in DOMAIN t
            /\ s \in DOMAIN t =>
                 h[s] = [id |-> t[s].id, size |-> IF s = r THEN Len(list) ELSE t[s].size]
        BY <1>3, <4>1 DEF IsGraft
      <4>3. new[m + 1] = h /\ L[m + 1] = t
        BY <1>1, <1>4, <3>2 DEF t
      <4>4. QED
        BY <1>5, <3>1, <4>1, <4>2, <4>3
    <3>3. CASE m # j
      <4>1. q # d
        BY <1>1, <3>1, <3>3, DownInjective DEF d
      <4>2. m < n => new[m + 1] = L[m + 1]
        BY <1>4, <3>3
      <4>3. /\ q \in DOMAIN g <=> q \in DOMAIN tree
            /\ q \in DOMAIN tree => g[q] = tree[q]
        BY <1>5, <3>1, <4>2
      <4>4. q \in DOMAIN tree => tree[q] = [id |-> tree[q].id, size |-> tree[q].size]
        BY DEF IsTree
      <4>5. QED
        BY <4>1, <4>3, <4>4
    <3>4. QED
      BY <3>2, <3>3
  <2>3. QED
    BY <2>1, <2>2
<1>7. ASSUME NEW i \in Nat, NEW s \in Seq(Nat)
      PROVE  /\ Down(d, i, s) \in DOMAIN g <=> i < Len(list) /\ s \in DOMAIN list[i + 1]
             /\ Down(d, i, s) \in DOMAIN g => g[Down(d, i, s)] = list[i + 1][s]
  <2>1. Down(d, i, s) = Down(p, j, Down(r, i, s)) /\ Down(r, i, s) \in Seq(Nat)
    <3>1. Down(Down(p, j, r), i, s) = Down(p, j, Down(r, i, s))
      BY <1>1, DownDown
    <3>2. Down(r, i, s) \in Seq(Nat)
      BY DownElements DEF IsDown
    <3>3. QED
      BY <3>1, <3>2 DEF d
  <2>2. new[j + 1] = h
    BY <1>1, <1>4
  <2>3. /\ Down(r, i, s) \in DOMAIN h <=> i < Len(list) /\ s \in DOMAIN list[i + 1]
        /\ Down(r, i, s) \in DOMAIN h => h[Down(r, i, s)] = list[i + 1][s]
    BY <1>3 DEF IsGraft
  <2>4. QED
    BY <1>1, <1>5, <2>1, <2>2, <2>3
<1>8. g = [q \in DOMAIN g |-> g[q]] /\ DOMAIN g \subseteq Seq(Nat)
  BY <1>3 DEF IsGraft
<1>9. IsGraft(g, tree, d, list)
  BY <1>6, <1>7, <1>8 DEF IsGraft
<1>10. QED
  BY <1>9 DEF d

-----------------------------------------------------------------------------
(* Where the components are. *)

\* A component put in the list at p.
Put(tree, p, k, t) == Graft(tree, p, Including(ListAt(tree, p), k, t))

\* What another list at p leaves in place.
Away(tree, p) == {q \in DOMAIN tree : ~IsStrictPrefix(p, q)}
AwayIds(tree, p) == {tree[q].id : q \in Away(tree, p)}
AwayOnce(tree, p) ==
  \A q, s \in Away(tree, p) : tree[q].id = tree[s].id /\ tree[q].id \in Components => q = s

ListIds(list) == UNION {Ids(list[m]) : m \in 1 .. Len(list)}
ListOnce(list) ==
  \A m, n \in 1 .. Len(list) : \A r \in DOMAIN list[m], s \in DOMAIN list[n] :
    list[m][r].id = list[n][s].id /\ list[m][r].id \in Components => m = n /\ r = s

\* Every place of a graft is away from the list or within a component of it.
LEMMA GraftPlaces ==
  ASSUME NEW tree, IsTree(tree), NEW p \in DOMAIN tree, NEW list \in Seq(Branches),
         NEW g, IsGraft(g, tree, p, list)
  PROVE  /\ \A q \in Away(tree, p) :
              q \in Seq(Nat) /\ q \in DOMAIN g /\ g[q].id = tree[q].id
         /\ \A m \in 1 .. Len(list) : \A r \in DOMAIN list[m] :
              /\ m - 1 \in Nat /\ r \in Seq(Nat) /\ Down(p, m - 1, r) \in DOMAIN g
              /\ g[Down(p, m - 1, r)] = list[m][r]
              /\ Down(p, m - 1, r) \notin Away(tree, p)
         /\ \A s \in DOMAIN g :
              \/ s \in Away(tree, p)
              \/ \E m \in 1 .. Len(list) : \E r \in DOMAIN list[m] : s = Down(p, m - 1, r)
<1>1. p \in Seq(Nat) /\ Len(list) \in Nat
  BY LenProperties DEF IsTree
<1>2. ASSUME NEW q \in Away(tree, p)
      PROVE  q \in Seq(Nat) /\ q \in DOMAIN g /\ g[q].id = tree[q].id
  <2>1. q \in DOMAIN tree /\ q \in Seq(Nat) /\ ~IsStrictPrefix(p, q)
    BY DEF Away, IsTree
  <2>2. q \in DOMAIN g
    BY <2>1 DEF IsGraft
  <2>3. g[q] = [id |-> tree[q].id, size |-> IF q = p THEN Len(list) ELSE tree[q].size]
    BY <2>1 DEF IsGraft
  <2>4. QED
    BY <2>1, <2>2, <2>3
<1>3. ASSUME NEW m \in 1 .. Len(list), NEW r \in DOMAIN list[m]
      PROVE  /\ m - 1 \in Nat /\ r \in Seq(Nat) /\ Down(p, m - 1, r) \in DOMAIN g
             /\ g[Down(p, m - 1, r)] = list[m][r]
             /\ Down(p, m - 1, r) \notin Away(tree, p)
  <2> DEFINE j == m - 1
  <2>1. j \in Nat /\ j < Len(list) /\ j + 1 = m
    BY <1>1
  <2> HIDE DEF j
  <2>2. r \in Seq(Nat)
    BY <2>1, BranchOfList
  <2>3. Down(p, j, r) \in DOMAIN g /\ g[Down(p, j, r)] = list[m][r]
    BY <2>1, <2>2 DEF IsGraft
  <2>4. IsStrictPrefix(p, Down(p, j, r))
    BY <1>1, <2>1, <2>2, DownInverse
  <2>5. QED
    BY <2>1, <2>2, <2>3, <2>4 DEF j, Away
<1>4. ASSUME NEW s \in DOMAIN g
      PROVE  \/ s \in Away(tree, p)
             \/ \E m \in 1 .. Len(list) : \E r \in DOMAIN list[m] : s = Down(p, m - 1, r)
  <2>1. CASE ~IsStrictPrefix(p, s) /\ s \in DOMAIN tree
    BY <2>1 DEF Away
  <2>2. CASE \E j \in Nat, r \in Seq(Nat) :
               s = Down(p, j, r) /\ j < Len(list) /\ r \in DOMAIN list[j + 1]
    <3>1. PICK j \in Nat, r \in Seq(Nat) :
            s = Down(p, j, r) /\ j < Len(list) /\ r \in DOMAIN list[j + 1]
      BY <2>2
    <3>2. j + 1 \in 1 .. Len(list) /\ j + 1 - 1 = j
      BY <1>1, <3>1
    <3>3. QED
      BY <3>1, <3>2
  <2>3. QED
    BY <1>1, <2>1, <2>2, GraftPaths
<1>5. QED
  BY <1>2, <1>3, <1>4

\* The components within a list.
LEMMA ListIdsDef ==
  ASSUME NEW list
  PROVE  \A c : c \in ListIds(list) <=>
                \E m \in 1 .. Len(list) : \E r \in DOMAIN list[m] : list[m][r].id = c
BY DEF ListIds, Ids

\* The components of a graft.
LEMMA GraftIds ==
  ASSUME NEW tree, IsTree(tree), NEW p \in DOMAIN tree, NEW list \in Seq(Branches),
         NEW g, IsGraft(g, tree, p, list)
  PROVE  Ids(g) = AwayIds(tree, p) \cup ListIds(list)
<1>1. /\ \A q \in Away(tree, p) : q \in DOMAIN g /\ g[q].id = tree[q].id
      /\ \A m \in 1 .. Len(list) : \A r \in DOMAIN list[m] :
           Down(p, m - 1, r) \in DOMAIN g /\ g[Down(p, m - 1, r)] = list[m][r]
      /\ \A s \in DOMAIN g :
           \/ s \in Away(tree, p)
           \/ \E m \in 1 .. Len(list) : \E r \in DOMAIN list[m] : s = Down(p, m - 1, r)
  BY GraftPlaces
<1>2. \A c : c \in Ids(g) <=> \E s \in DOMAIN g : g[s].id = c
  BY DEF Ids
<1>3. \A c : c \in AwayIds(tree, p) <=> \E q \in Away(tree, p) : tree[q].id = c
  BY DEF AwayIds
<1>4. ASSUME NEW c \in Ids(g)
      PROVE  c \in AwayIds(tree, p) \cup ListIds(list)
  <2>1. PICK s \in DOMAIN g : g[s].id = c
    BY <1>2
  <2>2. QED
    BY <1>1, <1>3, <2>1, ListIdsDef
<1>5. ASSUME NEW c \in AwayIds(tree, p)
      PROVE  c \in Ids(g)
  BY <1>1, <1>2, <1>3
<1>6. ASSUME NEW c \in ListIds(list)
      PROVE  c \in Ids(g)
  <2>1. PICK m \in 1 .. Len(list) : \E r \in DOMAIN list[m] : list[m][r].id = c
    BY ListIdsDef
  <2>2. QED
    BY <1>1, <1>2, <2>1
<1>7. QED
  BY <1>4, <1>5, <1>6

\* Every component is once in the tree if it is once away from p or once in the list.
LEMMA GraftOnce ==
  ASSUME NEW tree, IsTree(tree), NEW p \in DOMAIN tree, NEW list \in Seq(Branches),
         NEW g, IsGraft(g, tree, p, list)
  PROVE  EachOnce(g) <=> /\ AwayOnce(tree, p) /\ ListOnce(list)
                         /\ AwayIds(tree, p) \cap ListIds(list) \cap Components = {}
<1>1. p \in Seq(Nat)
  BY DEF IsTree
<1>2. \A q \in Away(tree, p) : q \in DOMAIN g /\ g[q].id = tree[q].id
  BY GraftPlaces
<1>3. \A m \in 1 .. Len(list) : \A r \in DOMAIN list[m] :
        /\ m - 1 \in Nat /\ r \in Seq(Nat) /\ Down(p, m - 1, r) \in DOMAIN g
        /\ g[Down(p, m - 1, r)] = list[m][r]
        /\ Down(p, m - 1, r) \notin Away(tree, p)
  BY GraftPlaces
<1>4. \A s \in DOMAIN g :
        \/ s \in Away(tree, p)
        \/ \E m \in 1 .. Len(list) : \E r \in DOMAIN list[m] : s = Down(p, m - 1, r)
  BY GraftPlaces
<1>5. \A c : c \in AwayIds(tree, p) <=> \E q \in Away(tree, p) : tree[q].id = c
  BY DEF AwayIds
<1>6. ASSUME EachOnce(g)
      PROVE  /\ AwayOnce(tree, p) /\ ListOnce(list)
             /\ AwayIds(tree, p) \cap ListIds(list) \cap Components = {}
  <2>1. AwayOnce(tree, p)
    BY <1>2, <1>6 DEF AwayOnce, EachOnce
  <2>2. ASSUME NEW m \in 1 .. Len(list), NEW n \in 1 .. Len(list),
               NEW r \in DOMAIN list[m], NEW s \in DOMAIN list[n],
               list[m][r].id = list[n][s].id, list[m][r].id \in Components
        PROVE  m = n /\ r = s
    <3>1. Down(p, m - 1, r) = Down(p, n - 1, s)
      BY <1>3, <1>6, <2>2 DEF EachOnce
    <3>2. m - 1 = n - 1 /\ r = s
      BY <1>1, <1>3, <3>1, DownInjective
    <3>3. QED
      BY <3>2
  <2>3. ListOnce(list)
    BY <2>2 DEF ListOnce
  <2>4. ASSUME NEW c \in Components, c \in AwayIds(tree, p), c \in ListIds(list)
        PROVE  FALSE
    <3>1. PICK q \in Away(tree, p) : tree[q].id = c
      BY <1>5, <2>4
    <3>2. PICK m \in 1 .. Len(list) : \E r \in DOMAIN list[m] : list[m][r].id = c
      BY <2>4, ListIdsDef
    <3>3. PICK r \in DOMAIN list[m] : list[m][r].id = c
      BY <3>2
    <3>4. q = Down(p, m - 1, r)
      BY <1>2, <1>3, <1>6, <3>1, <3>3 DEF EachOnce
    <3>5. QED
      BY <1>3, <3>4
  <2>5. QED
    BY <2>1, <2>3, <2>4
<1>7. ASSUME AwayOnce(tree, p), ListOnce(list),
             AwayIds(tree, p) \cap ListIds(list) \cap Components = {}
      PROVE  EachOnce(g)
  <2>1. SUFFICES ASSUME NEW s \in DOMAIN g, NEW u \in DOMAIN g,
                        g[s].id = g[u].id, g[s].id \in Components
                 PROVE  s = u
    BY DEF EachOnce
  <2>2. \A q \in Away(tree, p), m \in 1 .. Len(list) : \A r \in DOMAIN list[m] :
          ~(g[q].id = g[Down(p, m - 1, r)].id /\ g[q].id \in Components)
    BY <1>2, <1>3, <1>5, <1>7, ListIdsDef
  <2>3. CASE s \in Away(tree, p) /\ u \in Away(tree, p)
    BY <1>2, <1>7, <2>1, <2>3 DEF AwayOnce
  <2>4. CASE s \in Away(tree, p) /\ u \notin Away(tree, p)
    BY <1>4, <2>1, <2>2, <2>4
  <2>5. CASE s \notin Away(tree, p) /\ u \in Away(tree, p)
    BY <1>4, <2>1, <2>2, <2>5
  <2>6. CASE s \notin Away(tree, p) /\ u \notin Away(tree, p)
    <3>1. PICK m \in 1 .. Len(list) : \E r \in DOMAIN list[m] : s = Down(p, m - 1, r)
      BY <1>4, <2>6
    <3>2. PICK r \in DOMAIN list[m] : s = Down(p, m - 1, r)
      BY <3>1
    <3>3. PICK n \in 1 .. Len(list) : \E t \in DOMAIN list[n] : u = Down(p, n - 1, t)
      BY <1>4, <2>6
    <3>4. PICK t \in DOMAIN list[n] : u = Down(p, n - 1, t)
      BY <3>3
    <3>5. list[m][r].id = list[n][t].id /\ list[m][r].id \in Components
      BY <1>3, <2>1, <3>2, <3>4
    <3>6. m = n /\ r = t
      BY <1>7, <3>5 DEF ListOnce
    <3>7. QED
      BY <3>2, <3>4, <3>6
  <2>7. QED
    BY <2>3, <2>4, <2>5, <2>6
<1>8. QED
  BY <1>6, <1>7

\* Adding a tree to a list adds its components.
LEMMA IncludingOnce ==
  ASSUME NEW list \in Seq(Branches), NEW k \in Nat, NEW t \in Branches
  PROVE  LET new == Including(list, k, t)
         IN  /\ new \in Seq(Branches)
             /\ ListIds(new) = ListIds(list) \cup Ids(t)
             /\ ListOnce(new) <=> /\ ListOnce(list) /\ EachOnce(t)
                                  /\ ListIds(list) \cap Ids(t) \cap Components = {}
<1> DEFINE new == Including(list, k, t)  l == Place(list, k)
           Old(m) == IF m <= l THEN m ELSE m + 1
<1>1. Len(list) \in Nat /\ l \in Nat /\ l <= Len(list)
  BY LenProperties DEF Place
<1>2. HasAdded(Branches, list, l, t, new)
  BY IncludingElements
<1> HIDE DEF new, l
<1>3. /\ new \in Seq(Branches) /\ Len(new) = Len(list) + 1
      /\ \A j \in 1 .. Len(list) + 1 :
           new[j] = IF j <= l THEN list[j] ELSE IF j = l + 1 THEN t ELSE list[j - 1]
  BY <1>2 DEF HasAdded
<1>4. \A m \in 1 .. Len(list) :
        Old(m) \in 1 .. Len(new) /\ Old(m) # l + 1 /\ new[Old(m)] = list[m]
  <2>1. ASSUME NEW m \in 1 .. Len(list)
        PROVE  Old(m) \in 1 .. Len(new) /\ Old(m) # l + 1 /\ new[Old(m)] = list[m]
    <3>1. CASE m <= l
      <4>1. m \in 1 .. Len(list) + 1 /\ m # l + 1
        BY <1>1, <3>1
      <4>2. QED
        BY <1>3, <3>1, <4>1
    <3>2. CASE ~(m <= l)
      <4>1. /\ m + 1 \in 1 .. Len(list) + 1 /\ ~(m + 1 <= l) /\ m + 1 # l + 1
            /\ m + 1 - 1 = m
        BY <1>1, <3>2
      <4>2. QED
        BY <1>3, <3>2, <4>1
    <3>3. QED
      BY <3>1, <3>2
  <2>2. QED
    BY <2>1
<1>5. l + 1 \in 1 .. Len(new) /\ new[l + 1] = t
  <2>1. l + 1 \in 1 .. Len(list) + 1 /\ ~(l + 1 <= l)
    BY <1>1
  <2>2. QED
    BY <1>3, <2>1
<1>6. \A j \in 1 .. Len(new) : j = l + 1 \/ \E m \in 1 .. Len(list) : j = Old(m)
  <2>1. ASSUME NEW j \in 1 .. Len(new), j # l + 1
        PROVE  \E m \in 1 .. Len(list) : j = Old(m)
    <3>1. CASE j <= l
      <4>1. j \in 1 .. Len(list)
        BY <1>1, <3>1
      <4>2. QED
        BY <3>1, <4>1
    <3>2. CASE ~(j <= l)
      <4>1. j - 1 \in 1 .. Len(list) /\ ~(j - 1 <= l) /\ j - 1 + 1 = j
        BY <1>1, <1>3, <2>1, <3>2
      <4>2. QED
        BY <4>1
    <3>3. QED
      BY <3>1, <3>2
  <2>2. QED
    BY <2>1
<1>7. \A m, n \in 1 .. Len(list) : Old(m) = Old(n) => m = n
  BY <1>1
<1> HIDE DEF Old
<1>8. ListIds(new) = ListIds(list) \cup Ids(t)
  <2>1. \A c : c \in Ids(t) <=> \E r \in DOMAIN t : t[r].id = c
    BY DEF Ids
  <2>2. ASSUME NEW c \in ListIds(new)
        PROVE  c \in ListIds(list) \cup Ids(t)
    <3>1. PICK j \in 1 .. Len(new) : \E r \in DOMAIN new[j] : new[j][r].id = c
      BY ListIdsDef
    <3>2. CASE j = l + 1
      BY <1>5, <2>1, <3>1, <3>2
    <3>3. CASE \E m \in 1 .. Len(list) : j = Old(m)
      BY <1>4, <3>1, <3>3, ListIdsDef
    <3>4. QED
      BY <1>6, <3>2, <3>3
  <2>3. ASSUME NEW c \in ListIds(list)
        PROVE  c \in ListIds(new)
    <3>1. PICK m \in 1 .. Len(list) : \E r \in DOMAIN list[m] : list[m][r].id = c
      BY ListIdsDef
    <3>2. QED
      BY <1>4, <3>1, ListIdsDef
  <2>4. ASSUME NEW c \in Ids(t)
        PROVE  c \in ListIds(new)
    BY <1>5, <2>1, ListIdsDef
  <2>5. QED
    BY <2>2, <2>3, <2>4
<1>9. ASSUME ListOnce(new)
      PROVE  /\ ListOnce(list) /\ EachOnce(t)
             /\ ListIds(list) \cap Ids(t) \cap Components = {}
  <2>1. ListOnce(list)
    BY <1>4, <1>7, <1>9 DEF ListOnce
  <2>2. EachOnce(t)
    BY <1>5, <1>9 DEF ListOnce, EachOnce
  <2>3. ASSUME NEW c \in Components, c \in ListIds(list), c \in Ids(t)
        PROVE  FALSE
    <3>1. PICK m \in 1 .. Len(list) : \E r \in DOMAIN list[m] : list[m][r].id = c
      BY <2>3, ListIdsDef
    <3>2. PICK s \in DOMAIN t : t[s].id = c
      BY <2>3 DEF Ids
    <3>3. Old(m) = l + 1
      BY <1>4, <1>5, <1>9, <3>1, <3>2 DEF ListOnce
    <3>4. QED
      BY <1>4, <3>3
  <2>4. QED
    BY <2>1, <2>2, <2>3
<1>10. ASSUME ListOnce(list), EachOnce(t), ListIds(list) \cap Ids(t) \cap Components = {}
       PROVE  ListOnce(new)
  <2>1. SUFFICES ASSUME NEW i \in 1 .. Len(new), NEW j \in 1 .. Len(new),
                        NEW r \in DOMAIN new[i], NEW s \in DOMAIN new[j],
                        new[i][r].id = new[j][s].id, new[i][r].id \in Components
                 PROVE  i = j /\ r = s
    BY DEF ListOnce
  <2>2. \A m \in 1 .. Len(list) : \A q \in DOMAIN list[m], u \in DOMAIN t :
          ~(list[m][q].id = t[u].id /\ t[u].id \in Components)
    BY <1>10, ListIdsDef DEF Ids
  <2>3. CASE i = l + 1 /\ j = l + 1
    BY <1>5, <1>10, <2>1, <2>3 DEF EachOnce
  <2>4. CASE i = l + 1 /\ j # l + 1
    BY <1>4, <1>5, <1>6, <2>1, <2>2, <2>4
  <2>5. CASE i # l + 1 /\ j = l + 1
    BY <1>4, <1>5, <1>6, <2>1, <2>2, <2>5
  <2>6. CASE i # l + 1 /\ j # l + 1
    <3>1. PICK m \in 1 .. Len(list) : i = Old(m)
      BY <1>6, <2>6
    <3>2. PICK n \in 1 .. Len(list) : j = Old(n)
      BY <1>6, <2>6
    <3>3. m = n /\ r = s
      BY <1>4, <1>10, <2>1, <3>1, <3>2 DEF ListOnce
    <3>4. QED
      BY <3>1, <3>2, <3>3
  <2>7. QED
    BY <2>3, <2>4, <2>5, <2>6
<1>11. ListOnce(new) <=> /\ ListOnce(list) /\ EachOnce(t)
                         /\ ListIds(list) \cap Ids(t) \cap Components = {}
  BY <1>9, <1>10
<1>12. QED
  BY <1>3, <1>8, <1>11 DEF new

\* The component put in a list is there, and its components are once in the tree if
\* they were once in the component or once in the tree.
LEMMA PutOnce ==
  ASSUME NEW tree, IsTree(tree), NEW p \in DOMAIN tree, NEW k \in Nat, NEW t \in Branches
  PROVE  LET g == Put(tree, p, k, t)
         IN  /\ IsTree(g) /\ g[Root].id = tree[Root].id
             /\ IsGraft(g, tree, p, Including(ListAt(tree, p), k, t))
             /\ Including(ListAt(tree, p), k, t) \in Seq(Branches)
             /\ Ids(g) = Ids(tree) \cup Ids(t)
             /\ EachOnce(g) <=> /\ EachOnce(tree) /\ EachOnce(t)
                                /\ Ids(tree) \cap Ids(t) \cap Components = {}
<1> DEFINE list == ListAt(tree, p)  new == Including(list, k, t)  g == Put(tree, p, k, t)
<1>1. list \in Seq(Branches) /\ IsGraft(tree, tree, p, list)
  <2>1. p \in Seq(Nat)
    BY DEF IsTree
  <2>2. QED
    BY <2>1, ListAtElements, GraftBack
<1> HIDE DEF list
<1>2. /\ new \in Seq(Branches)
      /\ ListIds(new) = ListIds(list) \cup Ids(t)
      /\ ListOnce(new) <=> /\ ListOnce(list) /\ EachOnce(t)
                           /\ ListIds(list) \cap Ids(t) \cap Components = {}
  BY <1>1, IncludingOnce
<1>3. g = Graft(tree, p, new)
  BY DEF Put, list
<1> HIDE DEF new, g
<1>4. IsGraft(g, tree, p, new)
  BY <1>2, <1>3, GraftElements
<1>5. IsTree(g) /\ g[Root].id = tree[Root].id
  BY <1>2, <1>4, GraftTree
<1>6. /\ Ids(g) = AwayIds(tree, p) \cup ListIds(new)
      /\ EachOnce(g) <=> /\ AwayOnce(tree, p) /\ ListOnce(new)
                         /\ AwayIds(tree, p) \cap ListIds(new) \cap Components = {}
  BY <1>2, <1>4, GraftIds, GraftOnce
<1>7. /\ Ids(tree) = AwayIds(tree, p) \cup ListIds(list)
      /\ EachOnce(tree) <=> /\ AwayOnce(tree, p) /\ ListOnce(list)
                            /\ AwayIds(tree, p) \cap ListIds(list) \cap Components = {}
  BY <1>1, GraftIds, GraftOnce
<1>8. /\ Ids(g) = Ids(tree) \cup Ids(t)
      /\ EachOnce(g) <=> /\ EachOnce(tree) /\ EachOnce(t)
                         /\ Ids(tree) \cap Ids(t) \cap Components = {}
  BY <1>2, <1>6, <1>7
<1>9. QED
  BY <1>2, <1>4, <1>5, <1>8 DEF g, new, list

-----------------------------------------------------------------------------
(* The lists of a tree, each with its owner. *)

Row(tree, q) == [owner |-> tree[q].id, ids |-> Names(tree, q)]
Heads(list) == [m \in 1 .. Len(list) |-> list[m][Root].id]
AwayRows(tree, p) == {Row(tree, q) : q \in Away(tree, p) \ {p}}
ListRows(list) == UNION {Shape(list[m]) : m \in 1 .. Len(list)}

\* A shape has a row for every place of the tree.
LEMMA ShapeDef ==
  ASSUME NEW tree
  PROVE  \A s : s \in Shape(tree) <=> \E q \in DOMAIN tree : s = Row(tree, q)
BY DEF Shape, Row

\* The names in a list are ids of the tree, and none is the root's.
LEMMA NamesElements ==
  ASSUME NEW tree, IsTree(tree), NEW q \in DOMAIN tree
  PROVE  /\ Names(tree, q) \in Seq(Known) /\ Len(Names(tree, q)) = tree[q].size
         /\ \A i \in 1 .. tree[q].size :
              /\ i - 1 \in Nat /\ Append(q, i - 1) \in DOMAIN tree
              /\ Append(q, i - 1) # Root
              /\ Names(tree, q)[i] = tree[Append(q, i - 1)].id
<1>1. /\ tree[q].size \in Nat /\ q \in Seq(Nat)
      /\ \A i \in 0 .. tree[q].size - 1 : Append(q, i) \in DOMAIN tree
      /\ \A s \in DOMAIN tree : tree[s].id \in Known
  BY DEF IsTree, Known
<1>2. \A i \in 1 .. tree[q].size :
        /\ i - 1 \in Nat /\ Append(q, i - 1) \in DOMAIN tree
        /\ Append(q, i - 1) # Root
  <2>1. ASSUME NEW i \in 1 .. tree[q].size
        PROVE  /\ i - 1 \in Nat /\ Append(q, i - 1) \in DOMAIN tree
               /\ Append(q, i - 1) # Root
    <3> DEFINE j == i - 1
    <3>1. j \in Nat /\ j \in 0 .. tree[q].size - 1
      BY <1>1
    <3> HIDE DEF j
    <3>2. Append(q, j) \in DOMAIN tree
      BY <1>1, <3>1
    <3>3. Len(Append(q, j)) = Len(q) + 1 /\ Len(q) \in Nat /\ Len(Root) = 0
      BY <1>1, <3>1, AppendProperties, LenProperties DEF Root
    <3>4. Append(q, j) # Root
      BY <3>3
    <3>5. QED
      BY <3>1, <3>2, <3>4 DEF j
  <2>2. QED
    BY <2>1
<1>3. Names(tree, q) = [i \in 1 .. tree[q].size |-> tree[Append(q, i - 1)].id]
  BY DEF Names
<1>4. Names(tree, q) \in [1 .. tree[q].size -> Known]
  BY <1>1, <1>2, <1>3
<1>5. Names(tree, q) \in Seq(Known) /\ Len(Names(tree, q)) = tree[q].size
  BY <1>1, <1>4, SeqDef, LenProperties, SMTT(30)
<1>6. QED
  BY <1>2, <1>3, <1>5

\* The shape of a graft: the rows away from the list, the row of the list, and the rows
\* of its components.
LEMMA GraftShape ==
  ASSUME NEW tree, IsTree(tree), NEW p \in DOMAIN tree, NEW list \in Seq(Branches),
         NEW g, IsGraft(g, tree, p, list)
  PROVE  Shape(g) = AwayRows(tree, p) \cup {[owner |-> tree[p].id, ids |-> Heads(list)]}
                      \cup ListRows(list)
<1>1. p \in Seq(Nat) /\ Len(list) \in Nat /\ Root \in Seq(Nat) /\ ~IsStrictPrefix(p, p)
  BY LenProperties, NotBeyond, NotBeyondItself DEF IsTree
<1>2. /\ IsTree(g) /\ p \in DOMAIN g /\ g[p].id = tree[p].id /\ g[p].size = Len(list)
  BY GraftTree
<1>3. /\ \A q \in Away(tree, p) : q \in Seq(Nat) /\ q \in DOMAIN g /\ g[q].id = tree[q].id
      /\ \A m \in 1 .. Len(list) : \A r \in DOMAIN list[m] :
           /\ m - 1 \in Nat /\ r \in Seq(Nat) /\ Down(p, m - 1, r) \in DOMAIN g
           /\ g[Down(p, m - 1, r)] = list[m][r]
  BY GraftPlaces
<1>4. \A s \in DOMAIN g :
        \/ s \in Away(tree, p)
        \/ \E m \in 1 .. Len(list) : \E r \in DOMAIN list[m] : s = Down(p, m - 1, r)
  BY GraftPlaces
<1>5. ASSUME NEW q \in Away(tree, p), q # p
      PROVE  Row(g, q) = Row(tree, q)
  <2>1. q \in DOMAIN tree /\ ~IsStrictPrefix(p, q) /\ q \in Seq(Nat) /\ q \in DOMAIN g
    BY <1>3 DEF Away
  <2>2. g[q].id = tree[q].id /\ g[q].size = tree[q].size
    <3>1. g[q] = [id |-> tree[q].id, size |-> IF q = p THEN Len(list) ELSE tree[q].size]
      BY <2>1 DEF IsGraft
    <3>2. QED
      BY <1>5, <3>1
  <2>3. ASSUME NEW i \in 1 .. tree[q].size
        PROVE  g[Append(q, i - 1)].id = tree[Append(q, i - 1)].id
    <3>1. i - 1 \in Nat /\ Append(q, i - 1) \in DOMAIN tree
      BY <2>1, NamesElements
    <3>2. ~IsStrictPrefix(p, Append(q, i - 1))
      BY <1>1, <1>5, <2>1, <3>1, AppendBeyond
    <3>3. QED
      BY <1>3, <3>1, <3>2 DEF Away
  <2>4. Names(g, q) = Names(tree, q)
    BY <2>2, <2>3 DEF Names
  <2>5. QED
    BY <2>2, <2>4 DEF Row
<1>6. Row(g, p) = [owner |-> tree[p].id, ids |-> Heads(list)]
  <2>1. ASSUME NEW i \in 1 .. Len(list)
        PROVE  g[Append(p, i - 1)].id = list[i][Root].id
    <3> DEFINE j == i - 1
    <3>1. j \in Nat /\ j < Len(list) /\ j + 1 = i
      BY <1>1
    <3> HIDE DEF j
    <3>2. Root \in DOMAIN list[i]
      BY <3>1, BranchOfList
    <3>3. g[Down(p, j, Root)] = list[i][Root]
      BY <1>3, <3>2 DEF j
    <3>4. Down(p, j, Root) = Append(p, j)
      BY <1>1, <3>1, DownAppend
    <3>5. QED
      BY <3>3, <3>4 DEF j
  <2>2. Names(g, p) = Heads(list)
    BY <1>2, <2>1 DEF Names, Heads
  <2>3. QED
    BY <1>2, <2>2 DEF Row
<1>7. ASSUME NEW m \in 1 .. Len(list), NEW r \in DOMAIN list[m]
      PROVE  Row(g, Down(p, m - 1, r)) = Row(list[m], r)
  <2> DEFINE j == m - 1  d == Down(p, j, r)
  <2>1. /\ j \in Nat /\ j < Len(list) /\ j + 1 = m
    BY <1>1
  <2>2. r \in Seq(Nat) /\ d \in DOMAIN g /\ g[d] = list[m][r]
    BY <1>3
  <2>3. IsTree(list[m])
    BY <2>1, BranchOfList
  <2> HIDE DEF j, d
  <2>4. ASSUME NEW i \in 1 .. list[m][r].size
        PROVE  g[Append(d, i - 1)].id = list[m][Append(r, i - 1)].id
    <3>1. i - 1 \in Nat /\ Append(r, i - 1) \in DOMAIN list[m]
      BY <2>3, NamesElements
    <3>2. Append(d, i - 1) = Down(p, j, Append(r, i - 1))
      <4>1. \A s \in Seq(Nat), n \in Nat : Append(Down(p, j, s), n) = Down(p, j, Append(s, n))
        BY <1>1, <2>1, DownAppend
      <4>2. QED
        BY <2>2, <3>1, <4>1 DEF d
    <3>3. g[Down(p, j, Append(r, i - 1))] = list[m][Append(r, i - 1)]
      BY <1>3, <3>1 DEF j
    <3>4. QED
      BY <3>2, <3>3
  <2>5. Names(g, d) = Names(list[m], r)
    BY <2>2, <2>4 DEF Names
  <2>6. Row(g, d) = Row(list[m], r)
    BY <2>2, <2>5 DEF Row
  <2>7. QED
    BY <2>6 DEF d, j
<1> DEFINE a == AwayRows(tree, p)
           b == {[owner |-> tree[p].id, ids |-> Heads(list)]}
           c == ListRows(list)
<1>8. ASSUME NEW s \in Shape(g)
      PROVE  s \in a \cup b \cup c
  <2>1. PICK q \in DOMAIN g : s = Row(g, q)
    BY ShapeDef
  <2>2. CASE q \in Away(tree, p) /\ q # p
    BY <1>5, <2>1, <2>2 DEF AwayRows
  <2>3. CASE q = p
    BY <1>6, <2>1, <2>3
  <2>4. CASE \E m \in 1 .. Len(list) : \E r \in DOMAIN list[m] : q = Down(p, m - 1, r)
    <3>1. PICK m \in 1 .. Len(list) : \E r \in DOMAIN list[m] : q = Down(p, m - 1, r)
      BY <2>4
    <3>2. PICK r \in DOMAIN list[m] : q = Down(p, m - 1, r)
      BY <3>1
    <3>3. s = Row(list[m], r)
      BY <1>7, <2>1, <3>2
    <3>4. s \in Shape(list[m])
      BY <3>3, ShapeDef
    <3>5. QED
      BY <3>4 DEF ListRows
  <2>5. QED
    BY <1>4, <2>2, <2>3, <2>4
<1>9. ASSUME NEW s \in a
      PROVE  s \in Shape(g)
  <2>1. PICK q \in Away(tree, p) \ {p} : s = Row(tree, q)
    BY DEF AwayRows
  <2>2. q \in DOMAIN g /\ s = Row(g, q)
    BY <1>3, <1>5, <2>1
  <2>3. QED
    BY <2>2, ShapeDef
<1>10. \A s \in b : s \in Shape(g)
  BY <1>2, <1>6, ShapeDef
<1>11. ASSUME NEW s \in c
       PROVE  s \in Shape(g)
  <2>1. PICK m \in 1 .. Len(list) : s \in Shape(list[m])
    BY DEF ListRows
  <2>2. PICK r \in DOMAIN list[m] : s = Row(list[m], r)
    BY <2>1, ShapeDef
  <2>3. Down(p, m - 1, r) \in DOMAIN g /\ s = Row(g, Down(p, m - 1, r))
    BY <1>3, <1>7, <2>2
  <2>4. QED
    BY <2>3, ShapeDef
<1> HIDE DEF a, b, c
<1>12. Shape(g) = a \cup b \cup c
  BY <1>8, <1>9, <1>10, <1>11
<1>13. QED
  BY <1>12 DEF a, b, c

\* A row without c.
Strip(s, c) == [owner |-> s.owner, ids |-> Apart(s.ids, c)]

\* A tree in which c is in no list has nothing to strip.
LEMMA StripOthers ==
  ASSUME NEW tree, IsTree(tree), NEW c, \A r \in DOMAIN tree : tree[r].id = c => r = Root
  PROVE  \A s \in Shape(tree) : Strip(s, c) = s
<1>1. ASSUME NEW s \in Shape(tree)
      PROVE  Strip(s, c) = s
  <2>1. PICK q \in DOMAIN tree : s = Row(tree, q)
    BY ShapeDef
  <2>2. /\ s = [owner |-> s.owner, ids |-> s.ids] /\ s.ids = Names(tree, q)
    BY <2>1 DEF Row
  <2>3. /\ Len(Names(tree, q)) = tree[q].size /\ Names(tree, q) \in Seq(Known)
        /\ \A i \in 1 .. tree[q].size : Names(tree, q)[i] # c
    <3>1. Len(Names(tree, q)) = tree[q].size /\ Names(tree, q) \in Seq(Known)
      BY NamesElements
    <3>2. ASSUME NEW i \in 1 .. tree[q].size
          PROVE  Names(tree, q)[i] # c
      <4>1. /\ Append(q, i - 1) \in DOMAIN tree /\ Append(q, i - 1) # Root
            /\ Names(tree, q)[i] = tree[Append(q, i - 1)].id
        BY NamesElements
      <4>2. QED
        BY <4>1
    <3>3. QED
      BY <3>1, <3>2
  <2>4. DOMAIN Names(tree, q) = 1 .. tree[q].size
    BY <2>3, LenProperties
  <2>5. c \notin Range(Names(tree, q))
    BY <2>3, <2>4 DEF Range
  <2>6. Apart(s.ids, c) = s.ids
    BY <2>2, <2>5 DEF Apart
  <2>7. QED
    BY <2>2, <2>6 DEF Strip
<1>2. QED
  BY <1>1

\* An element of a list, taken out.
LEMMA ApartIncluding ==
  ASSUME NEW S, NEW ids \in Seq(S), NEW c \in S, NEW k \in Nat,
         \A i \in 1 .. Len(ids) : ids[i] # c
  PROVE  Apart(Including(ids, k, c), c) = ids
<1> DEFINE new == Including(ids, k, c)  l == Place(ids, k)
<1>1. Len(ids) \in Nat /\ l \in Nat /\ l <= Len(ids)
  BY LenProperties DEF Place
<1>2. HasAdded(S, ids, l, c, new)
  BY IncludingElements
<1>3. new \in Seq(S) /\ Len(new) = Len(ids) + 1 /\ Without(new, l) = ids
  <2>1. /\ new \in Seq(S) /\ Len(new) = Len(ids) + 1
        /\ new[l + 1] = c /\ Without(new, l) = ids
    BY AddKeepsOthers, ZenonT(60)
  <2>2. QED
    BY <2>1
<1> HIDE DEF new, l
<1>4. \A j \in 1 .. Len(ids) + 1 :
        new[j] = IF j <= l THEN ids[j] ELSE IF j = l + 1 THEN c ELSE ids[j - 1]
  BY <1>2 DEF HasAdded
<1>5. DOMAIN new = 1 .. Len(ids) + 1
  BY <1>3, LenProperties
<1>6. ASSUME NEW i \in DOMAIN new, new[i] = c
      PROVE  i = l + 1
  <2>1. CASE i <= l
    <3>1. i \in 1 .. Len(ids) /\ new[i] = ids[i]
      BY <1>1, <1>4, <1>5, <2>1
    <3>2. QED
      BY <1>6, <3>1
  <2>2. CASE ~(i <= l) /\ i # l + 1
    <3>1. i - 1 \in 1 .. Len(ids) /\ new[i] = ids[i - 1]
      BY <1>1, <1>4, <1>5, <2>2
    <3>2. QED
      BY <1>6, <3>1
  <2>3. QED
    BY <2>1, <2>2
<1>7. l + 1 \in DOMAIN new /\ new[l + 1] = c
  <2>1. l + 1 \in 1 .. Len(ids) + 1 /\ ~(l + 1 <= l)
    BY <1>1
  <2>2. QED
    BY <1>4, <1>5, <2>1
<1>8. c \in Range(new)
  BY <1>7 DEF Range
<1>9. (CHOOSE i \in DOMAIN new : new[i] = c) = l + 1
  BY <1>6, <1>7
<1>10. l + 1 - 1 = l
  BY <1>1
<1>11. Apart(new, c) = ids
  <2> DEFINE x == CHOOSE i \in DOMAIN new : new[i] = c
  <2>1. Apart(new, c) = Without(new, x - 1)
    BY <1>8, Zenon DEF Apart
  <2>2. x = l + 1
    BY <1>9
  <2> HIDE DEF x
  <2>3. x - 1 = l
    BY <1>1, <2>2
  <2>4. QED
    BY <1>3, <2>1, <2>3
<1>12. QED
  BY <1>11 DEF new

\* The heads and the rows of a list with a tree added.
LEMMA HeadsIncluding ==
  ASSUME NEW list \in Seq(Branches), NEW k \in Nat, NEW t \in Branches
  PROVE  LET new == Including(list, k, t)
         IN  /\ Heads(list) \in Seq(Known) /\ Len(Heads(list)) = Len(list)
             /\ t[Root].id \in Known
             /\ Heads(new) = Including(Heads(list), k, t[Root].id)
             /\ ListRows(new) = ListRows(list) \cup Shape(t)
<1> DEFINE new == Including(list, k, t)  l == Place(list, k)  c == t[Root].id
           ids == Including(Heads(list), k, c)
<1>1. Len(list) \in Nat /\ l \in Nat /\ l <= Len(list)
  BY LenProperties DEF Place
<1>2. \A u \in Branches : u[Root].id \in Known
  <2>1. ASSUME NEW u \in Branches
        PROVE  u[Root].id \in Known
    <3>1. IsTree(u)
      BY TreesDef DEF Branches
    <3>2. QED
      BY <3>1 DEF IsTree, Known
  <2>2. QED
    BY <2>1
<1>3. Heads(list) \in Seq(Known) /\ Len(Heads(list)) = Len(list)
      /\ \A m \in 1 .. Len(list) : Heads(list)[m] = list[m][Root].id
  <2>1. \A m \in 1 .. Len(list) : list[m] \in Branches
    BY ElementOfSeq
  <2>2. Heads(list) \in [1 .. Len(list) -> Known]
    BY <1>2, <2>1 DEF Heads
  <2>3. Heads(list) \in Seq(Known) /\ Len(Heads(list)) = Len(list)
    BY <1>1, <2>2, SeqDef, LenProperties
  <2>4. QED
    BY <2>3 DEF Heads
<1>4. l = Place(Heads(list), k)
  BY <1>3 DEF Place
<1>5. HasAdded(Branches, list, l, t, new)
  BY IncludingElements
<1>6. c \in Known
  BY <1>2
<1>7. HasAdded(Known, Heads(list), l, c, ids)
  BY <1>3, <1>4, <1>6, IncludingElements
<1> HIDE DEF new, l, c, ids
<1>8. /\ new \in Seq(Branches) /\ Len(new) = Len(list) + 1
      /\ \A j \in 1 .. Len(list) + 1 :
           new[j] = IF j <= l THEN list[j] ELSE IF j = l + 1 THEN t ELSE list[j - 1]
  BY <1>5 DEF HasAdded
<1>9. /\ ids \in Seq(Known) /\ Len(ids) = Len(list) + 1
      /\ \A j \in 1 .. Len(list) + 1 :
           ids[j] = IF j <= l THEN Heads(list)[j]
                    ELSE IF j = l + 1 THEN c ELSE Heads(list)[j - 1]
  BY <1>3, <1>7 DEF HasAdded
<1>10. ASSUME NEW j \in 1 .. Len(list) + 1
       PROVE  new[j][Root].id = ids[j]
  <2>1. CASE j <= l
    <3>1. j \in 1 .. Len(list)
      BY <1>1, <2>1
    <3>2. QED
      BY <1>3, <1>8, <1>9, <2>1, <3>1
  <2>2. CASE j = l + 1
    <3>1. ~(j <= l)
      BY <1>1, <2>2
    <3>2. new[j] = t /\ ids[j] = c
      BY <1>8, <1>9, <2>2, <3>1
    <3>3. QED
      BY <3>2 DEF c
  <2>3. CASE ~(j <= l) /\ j # l + 1
    <3>1. j - 1 \in 1 .. Len(list)
      BY <1>1, <2>3
    <3>2. new[j] = list[j - 1] /\ ids[j] = Heads(list)[j - 1]
      BY <1>8, <1>9, <2>3
    <3>3. QED
      BY <1>3, <3>1, <3>2
  <2>4. QED
    BY <2>1, <2>2, <2>3
<1>11. Heads(new) = ids
  <2>1. Heads(new) = [j \in 1 .. Len(list) + 1 |-> ids[j]]
    BY <1>8, <1>10 DEF Heads
  <2>2. ids = [j \in 1 .. Len(list) + 1 |-> ids[j]]
    BY <1>9, LenProperties, SeqDef
  <2>3. QED
    BY <2>1, <2>2
<1>12. \A m \in 1 .. Len(list) : \E j \in 1 .. Len(new) : new[j] = list[m]
  <2>1. ASSUME NEW m \in 1 .. Len(list)
        PROVE  \E j \in 1 .. Len(new) : new[j] = list[m]
    <3>1. CASE m <= l
      <4>1. m \in 1 .. Len(list) + 1
        BY <1>1
      <4>2. QED
        BY <1>8, <3>1, <4>1
    <3>2. CASE ~(m <= l)
      <4>1. /\ m + 1 \in 1 .. Len(list) + 1 /\ ~(m + 1 <= l) /\ m + 1 # l + 1
            /\ m + 1 - 1 = m
        BY <1>1, <3>2
      <4>2. QED
        BY <1>8, <4>1
    <3>3. QED
      BY <3>1, <3>2
  <2>2. QED
    BY <2>1
<1>13. \E j \in 1 .. Len(new) : new[j] = t
  <2>1. l + 1 \in 1 .. Len(list) + 1 /\ ~(l + 1 <= l)
    BY <1>1
  <2>2. QED
    BY <1>8, <2>1
<1>14. \A j \in 1 .. Len(new) : new[j] = t \/ \E m \in 1 .. Len(list) : new[j] = list[m]
  <2>1. ASSUME NEW j \in 1 .. Len(new)
        PROVE  new[j] = t \/ \E m \in 1 .. Len(list) : new[j] = list[m]
    <3>1. \/ j <= l /\ j \in 1 .. Len(list)
          \/ ~(j <= l) /\ j = l + 1
          \/ ~(j <= l) /\ j # l + 1 /\ j - 1 \in 1 .. Len(list)
      BY <1>1, <1>8
    <3>2. j \in 1 .. Len(list) + 1
      BY <1>8
    <3>3. QED
      BY <1>8, <3>1, <3>2
  <2>2. QED
    BY <2>1
<1>15. ListRows(new) = ListRows(list) \cup Shape(t)
  <2>1. \A s : s \in ListRows(new) <=> \E j \in 1 .. Len(new) : s \in Shape(new[j])
    BY DEF ListRows
  <2>2. \A s : s \in ListRows(list) <=> \E m \in 1 .. Len(list) : s \in Shape(list[m])
    BY DEF ListRows
  <2>3. \A s \in ListRows(new) : s \in ListRows(list) \cup Shape(t)
    BY <1>14, <2>1, <2>2
  <2>4. \A s \in ListRows(list) : s \in ListRows(new)
    BY <1>12, <2>1, <2>2
  <2>5. \A s \in Shape(t) : s \in ListRows(new)
    BY <1>13, <2>1
  <2>6. QED
    BY <2>3, <2>4, <2>5
<1>16. QED
  BY <1>3, <1>6, <1>11, <1>15 DEF new, ids, c

\* A component that is not in the tree, put there: without it the lists are those of
\* the tree and those it brings, and it is in its place.
LEMMA PutOthers ==
  ASSUME NEW tree, IsTree(tree), NEW p \in DOMAIN tree, NEW k \in Nat, NEW t \in Branches,
         NEW c, c = t[Root].id, c \notin Ids(tree),
         \A r \in DOMAIN t : t[r].id = c => r = Root
  PROVE  /\ Others(Put(tree, p, k, t), c) = Shape(tree) \cup Shape(t)
         /\ At(Put(tree, p, k, t), tree[p].id, k, c)
<1> DEFINE list == ListAt(tree, p)  new == Including(list, k, t)  g == Put(tree, p, k, t)
           o == tree[p].id  ids == Heads(list)  row == [owner |-> o, ids |-> Heads(new)]
<1>1. list \in Seq(Branches) /\ IsGraft(tree, tree, p, list)
  <2>1. p \in Seq(Nat)
    BY DEF IsTree
  <2>2. QED
    BY <2>1, ListAtElements, GraftBack
<1>2. IsGraft(g, tree, p, new) /\ new \in Seq(Branches) /\ IsTree(g)
  BY PutOnce
<1> HIDE DEF list, g
<1>3. /\ ids \in Seq(Known) /\ Len(ids) = Len(list) /\ c \in Known
      /\ Heads(new) = Including(ids, k, c)
      /\ ListRows(new) = ListRows(list) \cup Shape(t)
  BY <1>1, HeadsIncluding
<1> HIDE DEF new
<1>4. Shape(g) = AwayRows(tree, p) \cup {row} \cup ListRows(list) \cup Shape(t)
  BY <1>2, <1>3, GraftShape
<1>5. Shape(tree) = AwayRows(tree, p) \cup {[owner |-> o, ids |-> ids]} \cup ListRows(list)
  BY <1>1, GraftShape
<1> HIDE DEF o, ids
<1>6. IsTree(t) /\ \A r \in DOMAIN tree : tree[r].id # c
  BY TreesDef DEF Branches, Ids
<1>7. /\ \A s \in Shape(tree) : Strip(s, c) = s
      /\ \A s \in Shape(t) : Strip(s, c) = s
  BY <1>6, StripOthers
<1>8. \A i \in 1 .. Len(ids) : ids[i] # c
  <2>1. ASSUME NEW i \in 1 .. Len(ids)
        PROVE  ids[i] \in Ids(tree)
    <3>1. i \in 1 .. Len(list) /\ ids[i] = list[i][Root].id
      BY <1>3 DEF ids, Heads
    <3>2. Root \in DOMAIN list[i]
      <4>1. list[i] \in Branches
        BY <1>1, <3>1, ElementOfSeq
      <4>2. QED
        BY <4>1, TreesDef DEF Branches, IsTree
    <3>3. ids[i] \in ListIds(list)
      BY <3>1, <3>2, ListIdsDef
    <3>4. QED
      BY <1>1, <3>3, GraftIds
  <2>2. QED
    BY <2>1
<1>9. Strip(row, c) = [owner |-> o, ids |-> ids]
  <2>1. Apart(Heads(new), c) = ids
    BY <1>3, <1>8, ApartIncluding
  <2>2. QED
    BY <2>1 DEF Strip
<1>10. Others(g, c) = {Strip(s, c) : s \in Shape(g)}
  BY DEF Others, Strip
<1>11. Others(g, c) = Shape(tree) \cup Shape(t)
  <2>1. ASSUME NEW s \in Shape(g)
        PROVE  Strip(s, c) \in Shape(tree) \cup Shape(t)
    BY <1>4, <1>5, <1>7, <1>9
  <2>2. ASSUME NEW s \in Shape(tree) \cup Shape(t)
        PROVE  \E u \in Shape(g) : s = Strip(u, c)
    <3>1. CASE s = [owner |-> o, ids |-> ids]
      BY <1>4, <1>9, <3>1
    <3>2. CASE s # [owner |-> o, ids |-> ids]
      <4>1. s \in Shape(g) /\ s = Strip(s, c)
        BY <1>4, <1>5, <1>7, <3>2
      <4>2. QED
        BY <4>1
    <3>3. QED
      BY <3>1, <3>2
  <2>3. QED
    BY <1>10, <2>1, <2>2
<1>12. At(g, o, k, c)
  <2> DEFINE w == Heads(new)  l == Place(ids, k)
  <2>1. w \in Seq(Known) /\ Len(w) = Len(ids) + 1 /\ w[l + 1] = c
    <3> DEFINE v == Including(ids, k, c)
    <3>1. Len(ids) \in Nat /\ l \in Nat /\ l <= Len(ids)
      BY <1>3, LenProperties DEF Place
    <3>2. HasAdded(Known, ids, l, c, v)
      BY <1>3, IncludingElements
    <3>3. v = w
      BY <1>3
    <3> HIDE DEF v, w, l
    <3>4. /\ v \in Seq(Known) /\ Len(v) = Len(ids) + 1
          /\ \A j \in 1 .. Len(ids) + 1 :
               v[j] = IF j <= l THEN ids[j] ELSE IF j = l + 1 THEN c ELSE ids[j - 1]
      BY <3>2 DEF HasAdded
    <3>5. l + 1 \in 1 .. Len(ids) + 1 /\ ~(l + 1 <= l)
      BY <3>1
    <3>6. QED
      BY <3>3, <3>4, <3>5
  <2>2. Len(ids) \in Nat
    BY <1>3, LenProperties
  <2>3. (IF k < Len(w) THEN k + 1 ELSE Len(w)) = l + 1
    BY <2>1, <2>2 DEF Place
  <2>4. w # <<>>
    BY <2>1, <2>2, EmptySeq
  <2>5. row \in Shape(g) /\ row.owner = o /\ row.ids = w
    BY <1>4
  <2> HIDE DEF w, l, row
  <2>6. QED
    BY <2>1, <2>3, <2>4, <2>5 DEF At
<1>13. QED
  BY <1>11, <1>12 DEF g, o

-----------------------------------------------------------------------------
(* What the editor does to lists and trees. *)

\* An element taken out of a list and put back, or put elsewhere.
LEMMA IncludingSame ==
  ASSUME NEW S, NEW list \in Seq(S), NEW k \in Nat, NEW m \in Nat, NEW x \in S,
         Place(list, k) = Place(list, m)
  PROVE  Including(list, k, x) = Including(list, m, x)
<1> DEFINE l == Place(list, k)  a == Including(list, k, x)  b == Including(list, m, x)
<1>1. HasAdded(S, list, l, x, a) /\ HasAdded(S, list, l, x, b)
  <2>1. HasAdded(S, list, Place(list, k), x, a)
    BY IncludingElements
  <2>2. HasAdded(S, list, Place(list, m), x, b)
    BY IncludingElements
  <2>3. QED
    BY <2>1, <2>2
<1> HIDE DEF l, a, b
<1>2. a \in Seq(S) /\ b \in Seq(S) /\ Len(a) = Len(list) + 1 /\ Len(b) = Len(a)
  BY <1>1 DEF HasAdded
<1>3. ASSUME NEW j \in 1 .. Len(a)
      PROVE  a[j] = b[j]
  BY <1>1, <1>2 DEF HasAdded
<1>4. a = b
  BY <1>2, <1>3, SeqEqual
<1>5. QED
  BY <1>4 DEF a, b

\* An element taken out and put back; a move is a take and a put.
LEMMA TakeFromList ==
  ASSUME NEW S, NEW list \in Seq(S), NEW i \in Nat, i < Len(list)
  PROVE  /\ Without(list, i) \in Seq(S) /\ list[i + 1] \in S
         /\ Including(Without(list, i), i, list[i + 1]) = list
         /\ \A k \in Nat : moveInList(list, i, k) = Including(Without(list, i), k, list[i + 1])
<1> DEFINE rest == Without(list, i)  x == list[i + 1]
<1>1. /\ Len(list) \in Nat /\ i \in 0 .. Len(list) - 1 /\ i + 1 \in 1 .. Len(list)
  BY LenProperties
<1>2. x \in S
  BY <1>1, ElementOfSeq
<1>3. /\ rest \in Seq(S) /\ Len(rest) = Len(list) - 1
      /\ \A j \in 1 .. Len(list) - 1 : rest[j] = IF j <= i THEN list[j] ELSE list[j + 1]
  BY <1>1, WithoutElements
<1> HIDE DEF rest
<1>4. Including(rest, i, x) = list
  <2> DEFINE a == Including(rest, i, x)
  <2>1. Place(rest, i) = i
    BY <1>1, <1>3 DEF Place
  <2>2. HasAdded(S, rest, Place(rest, i), x, a)
    BY <1>2, <1>3, IncludingElements
  <2> HIDE DEF a, x
  <2>3. /\ a \in Seq(S) /\ Len(a) = Len(list)
        /\ \A j \in 1 .. Len(list) :
             a[j] = IF j <= i THEN rest[j] ELSE IF j = i + 1 THEN x ELSE rest[j - 1]
    <3>1. /\ a \in Seq(S) /\ Len(a) = Len(rest) + 1
          /\ \A j \in 1 .. Len(rest) + 1 :
               a[j] = IF j <= i THEN rest[j] ELSE IF j = i + 1 THEN x ELSE rest[j - 1]
      BY <2>1, <2>2 DEF HasAdded
    <3>2. Len(rest) + 1 = Len(list)
      BY <1>1, <1>3
    <3>3. QED
      BY <3>1, <3>2
  <2>4. ASSUME NEW j \in 1 .. Len(a)
        PROVE  a[j] = list[j]
    <3>1. \/ j <= i /\ j \in 1 .. Len(list) - 1
          \/ ~(j <= i) /\ j = i + 1
          \/ /\ ~(j <= i) /\ j # i + 1 /\ j - 1 \in 1 .. Len(list) - 1
             /\ ~(j - 1 <= i) /\ j - 1 + 1 = j
      BY <1>1, <2>3
    <3>2. QED
      BY <1>3, <2>3, <3>1 DEF x
  <2>5. a = list
    BY <2>3, <2>4, SeqEqual
  <2>6. QED
    BY <2>5 DEF a, x
<1>5. ASSUME NEW k \in Nat
      PROVE  moveInList(list, i, k) = Including(rest, k, x)
  <2>1. moveInList(list, i, k) = Including(rest, Landing(list, k), x)
    BY <1>1, MoveIsTakeThenPut DEF rest
  <2>2. Landing(list, k) \in Nat /\ Place(rest, Landing(list, k)) = Place(rest, k)
    BY <1>1, <1>3 DEF Landing, Place
  <2>3. Including(rest, Landing(list, k), x) = Including(rest, k, x)
    BY <1>2, <1>3, <2>2, IncludingSame
  <2>4. QED
    BY <2>1, <2>3
<1>6. QED
  BY <1>2, <1>3, <1>4, <1>5 DEF rest

\* A component taken out of the tree: put back, it is the tree again.
Take(tree, p, i) == Graft(tree, p, Without(ListAt(tree, p), i))

\* What Take leaves, and that putting the component back undoes it.
LEMMA TakePut ==
  ASSUME NEW tree, IsTree(tree), NEW p \in DOMAIN tree, NEW i \in Nat, i < tree[p].size
  PROVE  LET g == Take(tree, p, i)  t == Sub(tree, Append(p, i))
         IN  /\ IsTree(g) /\ p \in DOMAIN g /\ g[Root].id = tree[Root].id
             /\ IsGraft(g, tree, p, Without(ListAt(tree, p), i))
             /\ Without(ListAt(tree, p), i) \in Seq(Branches)
             /\ ListAt(g, p) = Without(ListAt(tree, p), i)
             /\ g[p].id = tree[p].id
             /\ t = ListAt(tree, p)[i + 1] /\ t \in Branches
             /\ Append(p, i) \in DOMAIN tree /\ t[Root].id = tree[Append(p, i)].id
             /\ Put(g, p, i, t) = tree
<1> DEFINE list == ListAt(tree, p)  rest == Without(list, i)
           g == Take(tree, p, i)  t == list[i + 1]
<1>1. p \in Seq(Nat) /\ tree[p].size \in Nat
  BY DEF IsTree
<1>2. /\ list \in Seq(Branches) /\ Len(list) = tree[p].size
      /\ t = Sub(tree, Append(p, i)) /\ IsSub(t, tree, p, i)
  BY <1>1, ListAtElements DEF Size
<1>3. IsGraft(tree, tree, p, list)
  BY GraftBack
<1> HIDE DEF list
<1>4. rest \in Seq(Branches) /\ t \in Branches /\ Including(rest, i, t) = list
  BY <1>2, TakeFromList
<1>5. g = Graft(tree, p, rest)
  BY DEF Take, list
<1> HIDE DEF rest, g
<1>6. IsGraft(g, tree, p, rest)
  BY <1>4, <1>5, GraftElements
<1>7. /\ IsTree(g) /\ p \in DOMAIN g /\ g[p].id = tree[p].id
      /\ g[Root].id = tree[Root].id
  BY <1>4, <1>6, GraftTree
<1>8. ListAt(g, p) = rest
  BY <1>4, <1>6, ListAtGraft
<1>9. Put(g, p, i, t) = tree
  <2>1. Put(g, p, i, t) = Graft(g, p, list)
    BY <1>4, <1>8 DEF Put
  <2>2. IsGraft(Graft(g, p, list), g, p, list)
    BY <1>2, <1>7, GraftElements
  <2>3. IsGraft(Graft(g, p, list), tree, p, list)
    BY <1>1, <1>6, <2>2, GraftGraft
  <2>4. QED
    BY <1>1, <1>3, <2>1, <2>3, GraftUnique
<1>10. Append(p, i) \in DOMAIN tree /\ t[Root].id = tree[Append(p, i)].id
  <2>1. Append(p, i) \in DOMAIN tree
    BY <1>1, TreeChild
  <2>2. Down(p, i, Root) = Append(p, i) /\ Root \in Seq(Nat)
    BY <1>1, DownAppend, NotBeyond
  <2>3. QED
    BY <1>2, <2>1, <2>2 DEF IsSub
<1>11. QED
  BY <1>2, <1>4, <1>6, <1>7, <1>8, <1>9, <1>10 DEF list, rest, g

\* The lists on the way to a path, as set leaves them.
Way(path) == {SubSeq(path, 1, n) : n \in 0 .. Len(path) - 1}
Grown(tree, path, p) ==
  IF path[Len(p) + 1] < Size(tree, p) THEN Size(tree, p) ELSE path[Len(p) + 1] + 1
Made(tree, path) == UNION {{Append(p, i) : i \in 0 .. Grown(tree, path, p) - 1} : p \in Way(path)}

\* What set creates, in the operators below.
LEMMA ReachDef ==
  ASSUME NEW tree, NEW path, path \notin DOMAIN tree
  PROVE  Reach(tree, path) =
           [p \in DOMAIN tree \cup Made(tree, path) |->
              [id   |-> IF p \in DOMAIN tree THEN tree[p].id
                        ELSE IF IsPrefix(p, path) THEN Nameless ELSE Hole,
               size |-> IF p \in Way(path) THEN Grown(tree, path, p) ELSE Size(tree, p)]]
BY DEF Reach, Made, Way, Grown

\* The paths that set creates.
LEMMA MadeDef ==
  ASSUME NEW tree, NEW path
  PROVE  \A d : d \in Made(tree, path) <=>
                \E w \in Way(path) : \E i \in 0 .. Grown(tree, path, w) - 1 : d = Append(w, i)
BY DEF Made

\* The lists on the way to a path.
LEMMA WayElements ==
  ASSUME NEW path \in Seq(Nat)
  PROVE  /\ \A w \in Way(path) :
              /\ w \in Seq(Nat) /\ Len(w) \in 0 .. Len(path) - 1 /\ Len(w) \in Nat
              /\ w = SubSeq(path, 1, Len(w)) /\ path[Len(w) + 1] \in Nat
         /\ \A n \in 0 .. Len(path) - 1 : SubSeq(path, 1, n) \in Way(path)
<1>1. ASSUME NEW w \in Way(path)
      PROVE  /\ w \in Seq(Nat) /\ Len(w) \in 0 .. Len(path) - 1 /\ Len(w) \in Nat
             /\ w = SubSeq(path, 1, Len(w)) /\ path[Len(w) + 1] \in Nat
  <2>1. PICK n \in 0 .. Len(path) - 1 : w = SubSeq(path, 1, n)
    BY DEF Way
  <2>2. n \in 0 .. Len(path) /\ n + 1 \in 1 .. Len(path) /\ n \in Nat
    BY LenProperties
  <2>3. w \in Seq(Nat) /\ Len(w) = n
    BY <2>1, <2>2, FirstElements DEF IsFirst
  <2>4. path[n + 1] \in Nat
    BY <2>2, ElementOfSeq
  <2>5. QED
    BY <2>1, <2>2, <2>3, <2>4
<1>2. QED
  BY <1>1 DEF Way

\* A path that is in the tree is reached as it is.
LEMMA ReachSame ==
  ASSUME NEW tree, IsTree(tree), NEW path \in DOMAIN tree
  PROVE  Reach(tree, path) = tree
BY DEF Reach

\* set on a path that is in the tree is a graft.
LEMMA SetAtSame ==
  ASSUME NEW tree, IsTree(tree), NEW p \in DOMAIN tree, NEW list
  PROVE  SetAt(tree, p, list) = Graft(tree, p, list)
BY ReachSame DEF SetAt

\* Of two paths to the same place, one is a prefix of the other.
LEMMA PrefixesCompare ==
  ASSUME NEW p \in Seq(Nat), NEW q \in Seq(Nat), NEW s \in Seq(Nat),
         IsStrictPrefix(p, s), IsStrictPrefix(q, s)
  PROVE  IsPrefix(q, p) \/ IsStrictPrefix(p, q)
<1>1. Len(p) \in Nat /\ Len(q) \in Nat
  BY LenProperties
<1>2. /\ \A n \in 1 .. Len(p) : s[n] = p[n]
      /\ \A n \in 1 .. Len(q) : s[n] = q[n]
  BY PrefixElements
<1>3. CASE Len(q) <= Len(p)
  <2>1. \A n \in 1 .. Len(q) : p[n] = q[n]
    BY <1>1, <1>2, <1>3
  <2>2. IsPrefix(q, p)
    BY <1>3, <2>1, PrefixElements
  <2>3. QED
    BY <2>2
<1>4. CASE ~(Len(q) <= Len(p))
  <2>1. Len(p) <= Len(q) /\ Len(p) < Len(q) /\ \A n \in 1 .. Len(p) : q[n] = p[n]
    BY <1>1, <1>2, <1>4
  <2>2. IsPrefix(p, q)
    BY <2>1, PrefixElements
  <2>3. QED
    BY <2>1, <2>2, PrefixElements
<1>5. QED
  BY <1>3, <1>4

\* A prefix of p is on the way into the components of the list at p.
LEMMA PrefixOfDown ==
  ASSUME NEW q \in Seq(Nat), NEW p \in Seq(Nat), IsPrefix(q, p), NEW j \in Nat,
         NEW r \in Seq(Nat)
  PROVE  IsStrictPrefix(q, Down(p, j, r))
<1> DEFINE d == Down(p, j, r)
<1>1. IsDown(d, p, j, r) /\ Len(p) \in Nat /\ Len(q) \in Nat /\ Len(r) \in Nat
  BY DownElements, LenProperties
<1> HIDE DEF d
<1>2. /\ d \in Seq(Nat) /\ Len(d) = Len(p) + 1 + Len(r)
      /\ \A n \in 1 .. Len(p) : d[n] = p[n]
  BY <1>1 DEF IsDown
<1>3. Len(q) <= Len(p) /\ \A n \in 1 .. Len(q) : p[n] = q[n]
  BY PrefixElements
<1>4. Len(q) <= Len(d) /\ Len(q) < Len(d) /\ \A n \in 1 .. Len(q) : d[n] = q[n]
  <2>1. Len(q) <= Len(d) /\ Len(q) < Len(d)
    BY <1>1, <1>2, <1>3
  <2>2. ASSUME NEW n \in 1 .. Len(q)
        PROVE  d[n] = q[n]
    <3>1. n \in 1 .. Len(p)
      BY <1>1, <1>3
    <3>2. QED
      BY <1>2, <1>3, <3>1
  <2>3. QED
    BY <2>1, <2>2
<1>5. IsPrefix(q, d)
  BY <1>2, <1>4, PrefixElements
<1>6. IsStrictPrefix(q, d)
  BY <1>2, <1>4, <1>5, PrefixElements
<1>7. QED
  BY <1>6 DEF d

\* The first indexes of the first indexes, and one index more.
LEMMA FirstFirst ==
  ASSUME NEW q \in Seq(Nat), NEW m \in 0 .. Len(q), NEW n \in 0 .. m
  PROVE  SubSeq(SubSeq(q, 1, m), 1, n) = SubSeq(q, 1, n)
<1> DEFINE f == SubSeq(q, 1, m)  a == SubSeq(f, 1, n)  b == SubSeq(q, 1, n)
<1>1. n \in 0 .. Len(q) /\ n \in Nat /\ m \in Nat
  BY LenProperties
<1>2. f \in Seq(Nat) /\ Len(f) = m /\ \A i \in 1 .. m : f[i] = q[i]
  BY FirstElements DEF IsFirst
<1>3. b \in Seq(Nat) /\ Len(b) = n /\ \A i \in 1 .. n : b[i] = q[i]
  BY <1>1, FirstElements DEF IsFirst
<1> HIDE DEF f, b
<1>4. a \in Seq(Nat) /\ Len(a) = n /\ \A i \in 1 .. n : a[i] = f[i]
  BY <1>2, FirstElements DEF IsFirst
<1> HIDE DEF a
<1>5. ASSUME NEW i \in 1 .. Len(a)
      PROVE  a[i] = b[i]
  <2>1. i \in 1 .. n /\ i \in 1 .. m
    BY <1>1, <1>4
  <2>2. QED
    BY <1>2, <1>3, <1>4, <2>1
<1>6. a = b
  BY <1>3, <1>4, <1>5, SeqEqual
<1>7. QED
  BY <1>6 DEF a, b, f

\* One index more of a path.
LEMMA FirstAppend ==
  ASSUME NEW q \in Seq(Nat), NEW n \in 0 .. Len(q) - 1
  PROVE  SubSeq(q, 1, n + 1) = Append(SubSeq(q, 1, n), q[n + 1])
<1> DEFINE f == SubSeq(q, 1, n)  x == q[n + 1]  a == SubSeq(q, 1, n + 1)  b == Append(f, x)
<1>1. /\ n \in 0 .. Len(q) /\ n + 1 \in 0 .. Len(q) /\ n + 1 \in 1 .. Len(q) /\ n \in Nat
  BY LenProperties
<1>2. x \in Nat
  BY <1>1, ElementOfSeq
<1>3. f \in Seq(Nat) /\ Len(f) = n /\ \A i \in 1 .. n : f[i] = q[i]
  BY <1>1, FirstElements DEF IsFirst
<1>4. a \in Seq(Nat) /\ Len(a) = n + 1 /\ \A i \in 1 .. n + 1 : a[i] = q[i]
  BY <1>1, FirstElements DEF IsFirst
<1> HIDE DEF f, a, x
<1>5. /\ b \in Seq(Nat) /\ Len(b) = n + 1
      /\ \A i \in 1 .. n : b[i] = f[i]
      /\ b[n + 1] = x
  BY <1>2, <1>3, AppendProperties
<1> HIDE DEF b
<1>6. ASSUME NEW i \in 1 .. Len(a)
      PROVE  a[i] = b[i]
  <2>1. i \in 1 .. n + 1 /\ (i \in 1 .. n \/ i = n + 1)
    BY <1>1, <1>4
  <2>2. QED
    BY <1>3, <1>4, <1>5, <2>1 DEF x
<1>7. a = b
  BY <1>4, <1>5, <1>6, SeqEqual
<1>8. QED
  BY <1>7 DEF a, b, f, x

\* A nameless component has a component of the program in it.
Carries(tree) ==
  \A q \in DOMAIN tree : tree[q].id = Nameless =>
    \E s \in DOMAIN tree : IsStrictPrefix(q, s) /\ tree[s].id \in Components

\* The same, except on the way to p.
CarriesApart(tree, p) ==
  \A q \in DOMAIN tree : tree[q].id = Nameless /\ ~IsPrefix(q, p) =>
    \E s \in DOMAIN tree : IsStrictPrefix(q, s) /\ tree[s].id \in Components

\* What set creates on a path keeps the tree, and leads somewhere.
LEMMA ReachNew ==
  ASSUME NEW tree, IsTree(tree), NEW path \in Seq(Nat), path \notin DOMAIN tree
  PROVE  LET r == Reach(tree, path)
         IN  /\ IsTree(r) /\ path \in DOMAIN r
             /\ r[Root].id = tree[Root].id
             /\ Ids(r) \subseteq Ids(tree) \cup {Nameless, Hole}
             /\ EachOnce(tree) => EachOnce(r)
             /\ Carries(tree) => CarriesApart(r, path)
<1> DEFINE r == Reach(tree, path)
<1>1. /\ DOMAIN r = DOMAIN tree \cup Made(tree, path)
      /\ r = [p \in DOMAIN r |-> r[p]]
      /\ \A p \in DOMAIN r :
           /\ r[p].id = IF p \in DOMAIN tree THEN tree[p].id
                        ELSE IF IsPrefix(p, path) THEN Nameless ELSE Hole
           /\ r[p].size = IF p \in Way(path) THEN Grown(tree, path, p) ELSE Size(tree, p)
           /\ r[p] = [id |-> r[p].id, size |-> r[p].size]
  <2> HIDE DEF r
  <2>1. r = [p \in DOMAIN tree \cup Made(tree, path) |->
              [id   |-> IF p \in DOMAIN tree THEN tree[p].id
                        ELSE IF IsPrefix(p, path) THEN Nameless ELSE Hole,
               size |-> IF p \in Way(path) THEN Grown(tree, path, p) ELSE Size(tree, p)]]
    BY ReachDef DEF r
  <2>2. QED
    BY <2>1
<1> HIDE DEF r
<1>2. /\ Root \in DOMAIN tree /\ DOMAIN tree \subseteq Seq(Nat) /\ Len(path) \in Nat
      /\ \A p \in DOMAIN tree :
           /\ tree[p].id \in Known /\ tree[p].size \in Nat
           /\ p # Root => tree[p].id # None
           /\ \A n \in 0 .. Len(p) - 1 :
                SubSeq(p, 1, n) \in DOMAIN tree /\ p[n + 1] < tree[SubSeq(p, 1, n)].size
           /\ \A i \in 0 .. tree[p].size - 1 : Append(p, i) \in DOMAIN tree
  BY LenProperties DEF IsTree, Known
<1>3. /\ {Nameless, Hole} \cap Components = {}
      /\ Nameless # None /\ Hole # None /\ Nameless # Hole
  BY EditorAssumption
<1>4. \A w \in Way(path) :
        /\ w \in Seq(Nat) /\ Len(w) \in 0 .. Len(path) - 1 /\ Len(w) \in Nat
        /\ w = SubSeq(path, 1, Len(w)) /\ path[Len(w) + 1] \in Nat
  BY WayElements
<1>5. \A p : Size(tree, p) \in Nat /\ (p \in DOMAIN tree => Size(tree, p) = tree[p].size)
  BY <1>2 DEF Size
<1>6. \A w \in Way(path) :
        /\ Grown(tree, path, w) \in Nat /\ path[Len(w) + 1] < Grown(tree, path, w)
        /\ Size(tree, w) <= Grown(tree, path, w)
  <2>1. ASSUME NEW w \in Way(path)
        PROVE  /\ Grown(tree, path, w) \in Nat /\ path[Len(w) + 1] < Grown(tree, path, w)
               /\ Size(tree, w) <= Grown(tree, path, w)
    <3>1. path[Len(w) + 1] \in Nat /\ Size(tree, w) \in Nat
      BY <1>4, <1>5
    <3>2. QED
      BY <3>1 DEF Grown
  <2>2. QED
    BY <2>1
<1>7. \A w \in Way(path), i \in Nat : i < Grown(tree, path, w) => Append(w, i) \in DOMAIN r
  <2>1. ASSUME NEW w \in Way(path), NEW i \in Nat, i < Grown(tree, path, w)
        PROVE  Append(w, i) \in DOMAIN r
    <3>1. i \in 0 .. Grown(tree, path, w) - 1
      BY <1>6, <2>1
    <3>2. QED
      BY <1>1, <3>1, MadeDef
  <2>2. QED
    BY <2>1
<1>8. \A n \in 0 .. Len(path) : SubSeq(path, 1, n) \in DOMAIN r
  <2>1. SubSeq(path, 1, 0) \in DOMAIN r
    <3>1. SubSeq(path, 1, 0) = Root
      BY SubSeqEmpty DEF Root
    <3>2. QED
      BY <1>1, <1>2, <3>1
  <2>2. ASSUME NEW n \in 0 .. Len(path) - 1
        PROVE  SubSeq(path, 1, n + 1) \in DOMAIN r
    <3> DEFINE w == SubSeq(path, 1, n)
    <3>1. w \in Way(path) /\ n \in 0 .. Len(path)
      BY <1>2, WayElements
    <3>2. Len(w) = n
      BY <3>1, FirstElements DEF IsFirst
    <3>3. SubSeq(path, 1, n + 1) = Append(w, path[n + 1])
      BY FirstAppend
    <3> HIDE DEF w
    <3>4. path[n + 1] \in Nat /\ path[n + 1] < Grown(tree, path, w)
      BY <1>4, <1>6, <3>1, <3>2
    <3>5. QED
      BY <1>7, <3>1, <3>3, <3>4
  <2>3. ASSUME NEW n \in 0 .. Len(path)
        PROVE  SubSeq(path, 1, n) \in DOMAIN r
    <3>1. n = 0 \/ (n - 1 \in 0 .. Len(path) - 1 /\ n - 1 + 1 = n)
      BY <1>2
    <3> DEFINE m == n - 1
    <3>2. n = 0 \/ (m \in 0 .. Len(path) - 1 /\ m + 1 = n)
      BY <3>1
    <3> HIDE DEF m
    <3>3. QED
      BY <2>1, <2>2, <3>2
  <2>4. QED
    BY <2>3
<1>9. path \in DOMAIN r
  <2>1. Len(path) \in 0 .. Len(path) /\ SubSeq(path, 1, Len(path)) = path
    BY <1>2, SubSeqFull
  <2>2. QED
    BY <1>8, <2>1
<1>10. ASSUME NEW p \in DOMAIN r
       PROVE  /\ p \in Seq(Nat) /\ r[p] \in Entries /\ (p # Root => r[p].id # None)
              /\ r[p].size \in Nat /\ Size(tree, p) <= r[p].size
              /\ \A i \in 0 .. r[p].size - 1 : Append(p, i) \in DOMAIN r
  <2>1. p \in Seq(Nat)
    <3>1. CASE p \in DOMAIN tree
      BY <1>2, <3>1
    <3>2. CASE p \in Made(tree, path)
      <4>1. PICK w \in Way(path) : \E i \in 0 .. Grown(tree, path, w) - 1 : p = Append(w, i)
        BY <3>2, MadeDef
      <4>2. PICK i \in 0 .. Grown(tree, path, w) - 1 : p = Append(w, i)
        BY <4>1
      <4>3. i \in Nat /\ w \in Seq(Nat)
        BY <1>4, <1>6
      <4>4. QED
        BY <4>2, <4>3, AppendProperties
    <3>3. QED
      BY <1>1, <3>1, <3>2
  <2>2. r[p].size \in Nat /\ Size(tree, p) <= r[p].size
    <3>1. Size(tree, p) \in Nat /\ Size(tree, p) <= Size(tree, p)
      BY <1>5
    <3>2. QED
      BY <1>1, <1>6, <3>1
  <2>3. r[p].id \in Known /\ (p # Root => r[p].id # None)
    BY <1>1, <1>2, <1>3 DEF Known
  <2>4. r[p] \in Entries
    <3> DEFINE a == r[p].id  b == r[p].size
    <3>1. r[p] = [id |-> a, size |-> b] /\ a \in Known /\ b \in Nat
      BY <1>1, <2>2, <2>3
    <3> HIDE DEF a, b
    <3>2. QED
      BY <3>1 DEF Entries
  <2>5. ASSUME NEW i \in 0 .. r[p].size - 1
        PROVE  Append(p, i) \in DOMAIN r
    <3>1. i \in Nat /\ i < r[p].size
      BY <2>2
    <3>2. CASE p \in Way(path)
      BY <1>1, <1>7, <3>1, <3>2
    <3>3. CASE p \notin Way(path)
      <4>1. i < Size(tree, p)
        BY <1>1, <3>1, <3>3
      <4>2. p \in DOMAIN tree /\ i < tree[p].size /\ tree[p].size \in Nat
        BY <1>2, <3>1, <4>1 DEF Size
      <4>3. i \in 0 .. tree[p].size - 1
        BY <3>1, <4>2
      <4>4. QED
        BY <1>1, <1>2, <4>2, <4>3
    <3>4. QED
      BY <3>2, <3>3
  <2>6. QED
    BY <2>1, <2>2, <2>3, <2>4, <2>5
<1>11. ASSUME NEW p \in DOMAIN r, NEW n \in 0 .. Len(p) - 1
       PROVE  SubSeq(p, 1, n) \in DOMAIN r /\ p[n + 1] < r[SubSeq(p, 1, n)].size
  <2>1. CASE p \in DOMAIN tree
    <3> DEFINE f == SubSeq(p, 1, n)
    <3>1. f \in DOMAIN tree /\ p[n + 1] < tree[f].size
      BY <1>2, <2>1
    <3> HIDE DEF f
    <3>2. f \in DOMAIN r /\ tree[f].size <= r[f].size /\ r[f].size \in Nat
          /\ tree[f].size \in Nat
      BY <1>1, <1>2, <1>5, <1>10, <3>1
    <3>3. p[n + 1] \in Nat
      <4>1. p \in Seq(Nat) /\ n + 1 \in 1 .. Len(p)
        BY <1>10, LenProperties
      <4>2. QED
        BY <4>1, ElementOfSeq
    <3>4. p[n + 1] < r[f].size
      BY <3>1, <3>2, <3>3
    <3>5. QED
      BY <3>2, <3>4 DEF f
  <2>2. CASE p \in Made(tree, path)
    <3>1. PICK w \in Way(path) : \E i \in 0 .. Grown(tree, path, w) - 1 : p = Append(w, i)
      BY <2>2, MadeDef
    <3>2. PICK i \in 0 .. Grown(tree, path, w) - 1 : p = Append(w, i)
      BY <3>1
    <3>3. /\ i \in Nat /\ i < Grown(tree, path, w) /\ w \in Seq(Nat) /\ Len(w) \in Nat
          /\ Len(w) \in 0 .. Len(path) - 1 /\ Len(w) \in 0 .. Len(path)
          /\ w = SubSeq(path, 1, Len(w))
      BY <1>2, <1>4, <1>6
    <3>4. /\ Len(p) = Len(w) + 1 /\ p[Len(w) + 1] = i
          /\ \A k \in 1 .. Len(w) : p[k] = w[k]
      BY <3>2, <3>3, AppendProperties
    <3>5. \A k \in 1 .. Len(w) : w[k] = path[k]
      <4>1. IsFirst(SubSeq(path, 1, Len(w)), path, Len(w))
        BY <3>3, FirstElements
      <4>2. IsFirst(w, path, Len(w))
        BY <3>3, <4>1
      <4>3. QED
        BY <4>2 DEF IsFirst
    <3>6. n \in 0 .. Len(w)
      BY <3>3, <3>4
    <3>7. SubSeq(p, 1, n) = SubSeq(w, 1, n)
      <4>1. p = Down(w, i, Root)
        BY <3>2, <3>3, DownAppend
      <4>2. SubSeq(Down(w, i, Root), 1, n) = SubSeq(w, 1, n)
        <5>1. Root \in Seq(Nat)
          BY <3>3, NotBeyond
        <5>2. \A k \in 0 .. Len(w) : SubSeq(Down(w, i, Root), 1, k) = SubSeq(w, 1, k)
          BY <3>3, <5>1, DownPrefixes
        <5>3. QED
          BY <3>6, <5>2
      <4>3. QED
        BY <4>1, <4>2
    <3>8. SubSeq(w, 1, n) = SubSeq(path, 1, n)
      <4>1. SubSeq(SubSeq(path, 1, Len(w)), 1, n) = SubSeq(path, 1, n)
        BY <3>3, <3>6, FirstFirst
      <4>2. QED
        BY <3>3, <4>1
    <3> DEFINE v == SubSeq(path, 1, n)
    <3>9. n \in 0 .. Len(path) - 1 /\ n \in 0 .. Len(path) /\ n \in Nat
      BY <3>3, <3>6
    <3>10. v \in DOMAIN r /\ v \in Way(path) /\ Len(v) = n
      <4>1. v \in DOMAIN r
        BY <1>8, <3>9
      <4>2. v \in Way(path)
        BY <3>9, WayElements
      <4>3. Len(v) = n
        BY <3>9, FirstElements DEF IsFirst
      <4>4. QED
        BY <4>1, <4>2, <4>3
    <3> HIDE DEF v
    <3>11. r[v].size = Grown(tree, path, v)
      BY <1>1, <3>10
    <3>12. p[n + 1] < Grown(tree, path, v)
      <4>1. CASE n < Len(w)
        <5>1. n + 1 \in 1 .. Len(w)
          BY <3>6, <3>9, <4>1
        <5>2. p[n + 1] = path[n + 1]
          BY <3>4, <3>5, <5>1
        <5>3. QED
          BY <1>6, <3>10, <5>2
      <4>2. CASE n = Len(w)
        <5>1. p[n + 1] = i /\ v = w
          BY <3>3, <3>4, <4>2 DEF v
        <5>2. QED
          BY <3>3, <5>1
      <4>3. n < Len(w) \/ n = Len(w)
        <5>1. Len(w) \in Nat
          BY <3>3
        <5>2. QED
          BY <3>6, <5>1
      <4>4. QED
        BY <4>1, <4>2, <4>3
    <3>13. QED
      BY <3>7, <3>8, <3>10, <3>11, <3>12 DEF v
  <2>3. QED
    BY <1>1, <2>1, <2>2
<1>12. IsTree(r)
  <2>1. r \in [DOMAIN r -> Entries]
    BY <1>1, <1>10
  <2>2. DOMAIN r \subseteq Seq(Nat) /\ Root \in DOMAIN r
    BY <1>1, <1>2, <1>10
  <2>3. QED
    BY <1>10, <1>11, <2>1, <2>2 DEF IsTree, Entries, Known
<1>13. r[Root].id = tree[Root].id
  BY <1>1, <1>2
<1>14. Ids(r) \subseteq Ids(tree) \cup {Nameless, Hole}
  BY <1>1, ZenonT(60) DEF Ids
<1>15. ASSUME EachOnce(tree)
       PROVE  EachOnce(r)
  BY <1>1, <1>3, <1>15, ZenonT(60) DEF EachOnce
<1>16. ASSUME Carries(tree)
       PROVE  CarriesApart(r, path)
  BY <1>1, <1>3, <1>16 DEF Carries, CarriesApart
<1>17. QED
  BY <1>9, <1>12, <1>13, <1>14, <1>15, <1>16 DEF r

\* The same for every path.
LEMMA ReachTree ==
  ASSUME NEW tree, IsTree(tree), NEW path \in Seq(Nat)
  PROVE  LET r == Reach(tree, path)
         IN  /\ IsTree(r) /\ path \in DOMAIN r
             /\ r[Root].id = tree[Root].id
             /\ Ids(r) \subseteq Ids(tree) \cup {Nameless, Hole}
             /\ EachOnce(tree) => EachOnce(r)
             /\ Carries(tree) => CarriesApart(r, path)
<1>1. CASE path \in DOMAIN tree
  <2>1. Reach(tree, path) = tree
    BY <1>1, ReachSame
  <2>2. Carries(tree) => CarriesApart(tree, path)
    BY DEF Carries, CarriesApart
  <2>3. QED
    BY <1>1, <2>1, <2>2
<1>2. CASE path \notin DOMAIN tree
  BY <1>2, ReachNew
<1>3. QED
  BY <1>1, <1>2

\* Another list at p: what is not on the way to p keeps its components, and what is has
\* one of the list's.
LEMMA GraftCarries ==
  ASSUME NEW tree, IsTree(tree), NEW p \in DOMAIN tree, NEW list \in Seq(Branches),
         NEW g, IsGraft(g, tree, p, list),
         CarriesApart(tree, p), \A m \in 1 .. Len(list) : Carries(list[m]),
         \/ \A q \in DOMAIN tree : IsPrefix(q, p) => tree[q].id # Nameless
         \/ \E m \in 1 .. Len(list) : list[m][Root].id \in Components
  PROVE  Carries(g)
<1>1. p \in Seq(Nat) /\ Root \in Seq(Nat) /\ DOMAIN tree \subseteq Seq(Nat)
  <2>1. p \in Seq(Nat) /\ DOMAIN tree \subseteq Seq(Nat)
    BY DEF IsTree
  <2>2. QED
    BY <2>1, NotBeyond
<1>2. /\ \A q \in Away(tree, p) : q \in Seq(Nat) /\ q \in DOMAIN g /\ g[q].id = tree[q].id
      /\ \A m \in 1 .. Len(list) : \A r \in DOMAIN list[m] :
           /\ m - 1 \in Nat /\ r \in Seq(Nat) /\ Down(p, m - 1, r) \in DOMAIN g
           /\ g[Down(p, m - 1, r)] = list[m][r]
  BY GraftPlaces
<1>3. \A s \in DOMAIN g :
        \/ s \in Away(tree, p)
        \/ \E m \in 1 .. Len(list) : \E r \in DOMAIN list[m] : s = Down(p, m - 1, r)
  BY GraftPlaces
<1>4. SUFFICES ASSUME NEW q \in DOMAIN g, g[q].id = Nameless
               PROVE  \E s \in DOMAIN g : IsStrictPrefix(q, s) /\ g[s].id \in Components
  BY DEF Carries
<1>5. CASE q \in Away(tree, p) /\ ~IsPrefix(q, p)
  <2>1. q \in DOMAIN tree /\ tree[q].id = Nameless /\ q \in Seq(Nat) /\ ~IsStrictPrefix(p, q)
    BY <1>2, <1>4, <1>5 DEF Away
  <2>2. PICK s \in DOMAIN tree : IsStrictPrefix(q, s) /\ tree[s].id \in Components
    BY <1>5, <2>1 DEF CarriesApart
  <2>3. ~IsStrictPrefix(p, s)
    BY <1>1, <1>5, <2>1, <2>2, PrefixesCompare
  <2>4. s \in Away(tree, p)
    BY <2>3 DEF Away
  <2>5. QED
    BY <1>2, <2>2, <2>4
<1>6. CASE q \in Away(tree, p) /\ IsPrefix(q, p)
  <2>1. q \in DOMAIN tree /\ tree[q].id = Nameless /\ q \in Seq(Nat)
    BY <1>2, <1>4, <1>6 DEF Away
  <2>2. PICK m \in 1 .. Len(list) : list[m][Root].id \in Components
    BY <1>6, <2>1
  <2>3. Root \in DOMAIN list[m]
    <3>1. list[m] \in Branches
      BY ElementOfSeq
    <3>2. QED
      BY <3>1, TreesDef DEF Branches, IsTree
  <2>4. /\ m - 1 \in Nat /\ Down(p, m - 1, Root) \in DOMAIN g
        /\ g[Down(p, m - 1, Root)].id \in Components
    BY <1>2, <2>2, <2>3
  <2>5. IsStrictPrefix(q, Down(p, m - 1, Root))
    BY <1>1, <1>6, <2>1, <2>4, PrefixOfDown
  <2>6. QED
    BY <2>4, <2>5
<1>7. CASE q \notin Away(tree, p)
  <2>1. PICK m \in 1 .. Len(list) : \E r \in DOMAIN list[m] : q = Down(p, m - 1, r)
    BY <1>3, <1>7
  <2>2. PICK r \in DOMAIN list[m] : q = Down(p, m - 1, r)
    BY <2>1
  <2>3. list[m][r].id = Nameless /\ Carries(list[m])
    BY <1>2, <1>4, <2>2
  <2>4. PICK s \in DOMAIN list[m] : IsStrictPrefix(r, s) /\ list[m][s].id \in Components
    BY <2>3 DEF Carries
  <2>5. /\ m - 1 \in Nat /\ r \in Seq(Nat) /\ s \in Seq(Nat)
        /\ Down(p, m - 1, s) \in DOMAIN g /\ g[Down(p, m - 1, s)].id \in Components
    BY <1>2, <2>4
  <2>6. IsStrictPrefix(Down(p, m - 1, r), Down(p, m - 1, s))
    BY <1>1, <2>4, <2>5, DownBeyond
  <2>7. QED
    BY <2>2, <2>5, <2>6
<1>8. QED
  BY <1>5, <1>6, <1>7

\* The components of a list carry what the tree carries.
LEMMA SubCarries ==
  ASSUME NEW tree, IsTree(tree), NEW p \in DOMAIN tree, CarriesApart(tree, p)
  PROVE  \A m \in 1 .. Len(ListAt(tree, p)) : Carries(ListAt(tree, p)[m])
<1> DEFINE list == ListAt(tree, p)
<1>1. p \in Seq(Nat) /\ DOMAIN tree \subseteq Seq(Nat)
  BY DEF IsTree
<1>2. list \in Seq(Branches) /\ IsGraft(tree, tree, p, list)
  BY <1>1, ListAtElements, GraftBack
<1> HIDE DEF list
<1>3. SUFFICES ASSUME NEW m \in 1 .. Len(list), NEW r \in DOMAIN list[m],
                      list[m][r].id = Nameless
               PROVE  \E s \in DOMAIN list[m] :
                        IsStrictPrefix(r, s) /\ list[m][s].id \in Components
  BY DEF Carries, list
<1> DEFINE j == m - 1
<1>4. /\ j \in Nat /\ j < Len(list) /\ j + 1 = m
  BY <1>2, LenProperties
<1>5. \A s \in DOMAIN list[m] :
        s \in Seq(Nat) /\ Down(p, j, s) \in DOMAIN tree /\ tree[Down(p, j, s)] = list[m][s]
  BY <1>2, GraftPlaces
<1> HIDE DEF j
<1>6. PICK d \in DOMAIN tree : IsStrictPrefix(Down(p, j, r), d) /\ tree[d].id \in Components
  <2>1. r \in Seq(Nat) /\ Down(p, j, r) \in DOMAIN tree /\ tree[Down(p, j, r)].id = Nameless
    BY <1>3, <1>5
  <2>2. ~IsPrefix(Down(p, j, r), p)
    <3>1. IsStrictPrefix(p, Down(p, j, r)) /\ Down(p, j, r) \in Seq(Nat)
      BY <1>1, <1>4, <2>1, DownInverse
    <3>2. Len(p) \in Nat /\ Len(Down(p, j, r)) \in Nat
      BY <1>1, <3>1, LenProperties
    <3>3. Len(p) < Len(Down(p, j, r))
      BY <1>1, <3>1, PrefixElements
    <3> HIDE DEF list
    <3>4. IsPrefix(Down(p, j, r), p) => Len(Down(p, j, r)) <= Len(p)
      BY <1>1, <3>1, PrefixElements
    <3>5. QED
      BY <3>2, <3>3, <3>4
  <2>3. QED
    BY <2>1, <2>2 DEF CarriesApart
<1>7. PICK s \in Seq(Nat) : d = Down(p, j, s) /\ IsStrictPrefix(r, s)
  <2>1. r \in Seq(Nat) /\ d \in Seq(Nat)
    BY <1>1, <1>5
  <2>2. QED
    BY <1>1, <1>4, <1>6, <2>1, DownBeyond
<1>8. s \in DOMAIN list[m]
  <2>1. \A i \in Nat, q \in Seq(Nat) :
          Down(p, i, q) \in DOMAIN tree <=> i < Len(list) /\ q \in DOMAIN list[i + 1]
    BY <1>2 DEF IsGraft
  <2>2. Down(p, j, s) \in DOMAIN tree
    BY <1>6, <1>7
  <2>3. QED
    BY <1>4, <2>1, <2>2
<1>9. list[m][s].id \in Components
  BY <1>5, <1>6, <1>7, <1>8
<1>10. QED
  BY <1>7, <1>8, <1>9

\* A drop of component i of the list at `from' takes the component out of the tree and
\* puts it in the list it was dropped in, wherever that list is by then: in the three
\* cases of handleDropHelper (one list, the inner list first, the outer list first) the
\* tree is the same (handleDropHelper.ts:24-180).
Placed(tree, from, i, to, k, new) ==
  LET taken == Take(tree, from, i)
      c == Sub(tree, Append(from, i))
  IN  \E at \in DOMAIN taken :
        taken[at].id = tree[to].id /\ new = Put(taken, at, k, c)

\* The first case of handleDropHelper: a move within one list (moveInList).
LEMMA MoveIsPlaced ==
  ASSUME NEW tree, IsTree(tree), NEW from \in DOMAIN tree, NEW i \in Nat,
         i < tree[from].size, NEW k \in Nat
  PROVE  Placed(tree, from, i, from, k,
                SetAt(tree, from, moveInList(ListAt(tree, from), i, k)))
<1> DEFINE list == ListAt(tree, from)  c == Sub(tree, Append(from, i))
           taken == Take(tree, from, i)  rest == Without(list, i)
           new == moveInList(list, i, k)
<1>1. /\ IsTree(taken) /\ from \in DOMAIN taken /\ taken[from].id = tree[from].id
      /\ IsGraft(taken, tree, from, rest) /\ ListAt(taken, from) = rest
      /\ c = list[i + 1] /\ c \in Branches
  BY TakePut
<1>2. from \in Seq(Nat) /\ list \in Seq(Branches) /\ Len(list) = tree[from].size
  <2>1. from \in Seq(Nat)
    BY DEF IsTree
  <2>2. QED
    BY <2>1, ListAtElements DEF Size
<1> HIDE DEF list, taken, c
<1>3. new = Including(rest, k, c) /\ rest \in Seq(Branches)
  <2>1. \A m \in Nat : moveInList(list, i, m) = Including(rest, m, list[i + 1])
    BY <1>2, TakeFromList
  <2>2. rest \in Seq(Branches)
    BY <1>2, TakeFromList
  <2>3. QED
    BY <1>1, <2>1, <2>2
<1> HIDE DEF rest, new
<1>4. new \in Seq(Branches)
  BY <1>1, <1>3, IncludingOnce
<1>5. SetAt(tree, from, new) = Graft(tree, from, new)
  BY SetAtSame
<1>6. Put(taken, from, k, c) = Graft(taken, from, new)
  BY <1>1, <1>3 DEF Put
<1>7. IsGraft(Graft(taken, from, new), taken, from, new)
  BY <1>1, <1>4, GraftElements
<1>8. IsGraft(Graft(taken, from, new), tree, from, new)
  BY <1>1, <1>2, <1>7, GraftGraft
<1>9. IsGraft(Graft(tree, from, new), tree, from, new)
  BY <1>4, GraftElements
<1>10. SetAt(tree, from, new) = Put(taken, from, k, c)
  BY <1>2, <1>5, <1>6, <1>8, <1>9, GraftUnique
<1>11. QED
  BY <1>1, <1>10 DEF Placed, taken, c, list, new

\* The second case: the lists are apart, or the target contains the origin.
LEMMA TakeThenPutIsPlaced ==
  ASSUME NEW tree, IsTree(tree), NEW from \in DOMAIN tree, NEW i \in Nat,
         i < tree[from].size, NEW k \in Nat,
         NEW to \in DOMAIN tree, to # from, ~IsStrictPrefix(from, to)
  PROVE  LET taken == SetAt(tree, from, Without(ListAt(tree, from), i))
         IN  Placed(tree, from, i, to, k,
                    SetAt(taken, to, Including(ListAt(taken, to), k, Sub(tree, Append(from, i)))))
<1> DEFINE c == Sub(tree, Append(from, i))  taken == Take(tree, from, i)
           rest == Without(ListAt(tree, from), i)
<1>1. IsTree(taken) /\ IsGraft(taken, tree, from, rest)
  BY TakePut
<1>2. SetAt(tree, from, rest) = taken
  BY SetAtSame DEF Take
<1> HIDE DEF taken
<1>3. to \in Seq(Nat)
  BY DEF IsTree
<1>4. to \in DOMAIN taken /\ taken[to].id = tree[to].id
  <2>1. /\ to \in DOMAIN taken
        /\ taken[to] = [id |-> tree[to].id,
                        size |-> IF to = from THEN Len(rest) ELSE tree[to].size]
    BY <1>1, <1>3 DEF IsGraft
  <2>2. QED
    BY <2>1
<1>5. SetAt(taken, to, Including(ListAt(taken, to), k, c)) = Put(taken, to, k, c)
  BY <1>1, <1>4, SetAtSame DEF Put
<1>6. QED
  BY <1>2, <1>4, <1>5 DEF Placed, taken

\* An element replaced and another one taken out, in either order.
LEMMA ReplaceWithout ==
  ASSUME NEW S, NEW list \in Seq(S), NEW i \in Nat, i < Len(list),
         NEW j \in Nat, j < Len(list), i # j, NEW y \in S
  PROVE  LET at == IF j < i THEN j ELSE j - 1
         IN  /\ at \in Nat /\ at < Len(Without(list, i))
             /\ Without(list, i)[at + 1] = list[j + 1]
             /\ Without([list EXCEPT ![j + 1] = y], i) = [Without(list, i) EXCEPT ![at + 1] = y]
<1> DEFINE at == IF j < i THEN j ELSE j - 1
           rest == Without(list, i)  new == [list EXCEPT ![j + 1] = y]
           a == Without(new, i)  b == [rest EXCEPT ![at + 1] = y]
<1>1. /\ Len(list) \in Nat /\ i \in 0 .. Len(list) - 1 /\ j + 1 \in 1 .. Len(list)
  BY LenProperties
<1>2. at \in Nat /\ at < Len(list) - 1 /\ at + 1 \in 1 .. Len(list) - 1
  BY <1>1
<1>3. /\ rest \in Seq(S) /\ Len(rest) = Len(list) - 1
      /\ \A m \in 1 .. Len(list) - 1 : rest[m] = IF m <= i THEN list[m] ELSE list[m + 1]
  BY <1>1, WithoutElements
<1>4. /\ new \in Seq(S) /\ Len(new) = Len(list)
      /\ \A m \in 1 .. Len(list) : new[m] = IF m = j + 1 THEN y ELSE list[m]
  BY <1>1, ExceptSeq
<1> HIDE DEF rest, new
<1>5. /\ a \in Seq(S) /\ Len(a) = Len(list) - 1
      /\ \A m \in 1 .. Len(list) - 1 : a[m] = IF m <= i THEN new[m] ELSE new[m + 1]
  <2>1. i \in 0 .. Len(new) - 1
    BY <1>1, <1>4
  <2>2. /\ a \in Seq(S) /\ Len(a) = Len(new) - 1
        /\ \A m \in 1 .. Len(new) - 1 : a[m] = IF m <= i THEN new[m] ELSE new[m + 1]
    BY <1>4, <2>1, WithoutElements
  <2>3. QED
    BY <1>4, <2>2
<1> HIDE DEF at
<1>6. /\ b \in Seq(S) /\ Len(b) = Len(list) - 1
      /\ \A m \in 1 .. Len(list) - 1 : b[m] = IF m = at + 1 THEN y ELSE rest[m]
  <2>1. at + 1 \in 1 .. Len(rest)
    BY <1>2, <1>3
  <2>2. /\ b \in Seq(S) /\ Len(b) = Len(rest)
        /\ \A m \in 1 .. Len(rest) : b[m] = IF m = at + 1 THEN y ELSE rest[m]
    BY <1>3, <2>1, ExceptSeq
  <2>3. QED
    BY <1>3, <2>2
<1> HIDE DEF a, b
<1>7. rest[at + 1] = list[j + 1]
  <2>1. \/ at + 1 <= i /\ at = j
        \/ ~(at + 1 <= i) /\ at + 1 = j
    BY <1>1, <1>2 DEF at
  <2>2. QED
    BY <1>2, <1>3, <2>1
<1>8. ASSUME NEW m \in 1 .. Len(a)
      PROVE  a[m] = b[m]
  <2>1. m \in 1 .. Len(list) - 1 /\ m \in 1 .. Len(list) /\ m + 1 \in 1 .. Len(list)
    BY <1>1, <1>5
  <2>2. \/ m <= i /\ (m = at + 1 <=> m = j + 1)
        \/ ~(m <= i) /\ (m = at + 1 <=> m + 1 = j + 1)
    BY <1>1, <2>1 DEF at
  <2>3. QED
    BY <1>3, <1>4, <1>5, <1>6, <2>1, <2>2
<1>9. a = b
  BY <1>5, <1>6, <1>8, SeqEqual
<1>10. at < Len(rest)
  BY <1>2, <1>3
<1>11. QED
  BY <1>2, <1>7, <1>9, <1>10 DEF at, rest, new, a, b

\* Putting something into a branch is replacing the branch.
LEMMA PutWithin ==
  ASSUME NEW tree, IsTree(tree), NEW p \in DOMAIN tree, NEW j \in Nat, j < tree[p].size,
         NEW r \in Seq(Nat), Down(p, j, r) \in DOMAIN tree, NEW k \in Nat, NEW c \in Branches
  PROVE  LET list == ListAt(tree, p)  y == Put(list[j + 1], r, k, c)
         IN  /\ y \in Branches
             /\ [list EXCEPT ![j + 1] = y] \in Seq(Branches)
             /\ IsGraft(Put(tree, Down(p, j, r), k, c), tree, p, [list EXCEPT ![j + 1] = y])
<1> DEFINE list == ListAt(tree, p)  t == list[j + 1]  y == Put(t, r, k, c)
           new == [list EXCEPT ![j + 1] = y]  d == Down(p, j, r)
           items == Including(ListAt(t, r), k, c)
<1>1. p \in Seq(Nat) /\ tree[p].size \in Nat
  BY DEF IsTree
<1>2. list \in Seq(Branches) /\ Len(list) = tree[p].size
  BY <1>1, ListAtElements DEF Size
<1>3. ListAt(tree, d) = ListAt(t, r) /\ r \in DOMAIN t
  BY ListAtDown
<1> HIDE DEF list
<1>4. t \in Branches /\ IsTree(t)
  BY <1>2, BranchOfList
<1>5. t[Root].id # None
  BY <1>4 DEF Branches
<1> HIDE DEF t
<1>6. IsTree(y) /\ y[Root].id = t[Root].id /\ IsGraft(y, t, r, items)
      /\ items \in Seq(Branches)
  <2>1. LET g == Put(t, r, k, c)
        IN  /\ IsTree(g) /\ g[Root].id = t[Root].id
            /\ IsGraft(g, t, r, Including(ListAt(t, r), k, c))
            /\ Including(ListAt(t, r), k, c) \in Seq(Branches)
            /\ Ids(g) = Ids(t) \cup Ids(c)
            /\ EachOnce(g) <=> /\ EachOnce(t) /\ EachOnce(c)
                               /\ Ids(t) \cap Ids(c) \cap Components = {}
    BY <1>3, <1>4, PutOnce
  <2>2. QED
    BY <2>1
<1>7. y \in Branches
  BY <1>5, <1>6, TreesDef DEF Branches
<1> HIDE DEF y
<1>8. j + 1 \in 1 .. Len(list)
  BY <1>1, <1>2
<1>9. /\ new \in Seq(Branches) /\ Len(new) = Len(list)
      /\ \A m \in 1 .. Len(list) : new[m] = IF m = j + 1 THEN y ELSE list[m]
  BY <1>2, <1>7, <1>8, ExceptSeq
<1> HIDE DEF new
<1>10. IsGraft(Graft(tree, p, new), tree, p, new)
  BY <1>9, GraftElements
<1>11. IsGraft(Graft(tree, p, new), tree, d, items)
  <2>1. DOMAIN new = 1 .. tree[p].size /\ Len(new) = tree[p].size
    BY <1>2, <1>9, LenProperties
  <2>2. \A m \in 1 .. tree[p].size : new[m] = IF m = j + 1 THEN y ELSE ListAt(tree, p)[m]
    BY <1>2, <1>9 DEF list
  <2>3. IsGraft(y, ListAt(tree, p)[j + 1], r, items)
    BY <1>6 DEF t, list
  <2> HIDE DEF items, d
  <2>4. IsGraft(Graft(tree, p, new), tree, Down(p, j, r), items)
    BY <1>10, <2>1, <2>2, <2>3, GraftDown
  <2>5. QED
    BY <2>4 DEF d
<1>12. IsGraft(Put(tree, d, k, c), tree, d, items)
  <2>1. Put(tree, d, k, c) = Graft(tree, d, items)
    BY <1>3 DEF Put
  <2>2. QED
    BY <1>6, <2>1, GraftElements
<1>13. d \in Seq(Nat)
  BY DEF IsTree
<1> HIDE DEF items, d
<1>14. Put(tree, d, k, c) = Graft(tree, p, new)
  BY <1>11, <1>12, <1>13, GraftUnique
<1>15. QED
  BY <1>7, <1>9, <1>10, <1>14 DEF d, new, y, t, list

\* The third case: the origin contains the target, whose path is shifted by the removal.
LEMMA PutThenTakeIsPlaced ==
  ASSUME NEW tree, IsTree(tree), NEW from \in DOMAIN tree, NEW i \in Nat,
         i < tree[from].size, NEW k \in Nat,
         NEW to \in DOMAIN tree, IsStrictPrefix(from, to), ~IsPrefix(Append(from, i), to)
  PROVE  LET c == Sub(tree, Append(from, i))
             put == SetAt(tree, to, Including(ListAt(tree, to), k, c))
         IN  Placed(tree, from, i, to, k, SetAt(put, from, Without(ListAt(put, from), i)))
<1> DEFINE list == ListAt(tree, from)  c == Sub(tree, Append(from, i))
           put == Put(tree, to, k, c)  taken == Take(tree, from, i)  rest == Without(list, i)
<1>1. /\ from \in Seq(Nat) /\ to \in Seq(Nat) /\ tree[from].size \in Nat
  BY DEF IsTree
<1>2. list \in Seq(Branches) /\ Len(list) = tree[from].size
  BY <1>1, ListAtElements DEF Size
<1>3. PICK j \in Nat, r \in Seq(Nat) : to = Down(from, j, r)
  BY <1>1, DownTo
<1>4. j < tree[from].size /\ j # i
  <2>1. j < tree[from].size
    BY <1>1, <1>3, TreeChild
  <2>2. IsDown(to, from, j, r)
    BY <1>1, <1>3, DownElements
  <2>3. to[Len(from) + 1] = j
    BY <2>2 DEF IsDown
  <2>4. j # i
    BY <1>1, <2>3, AppendPrefix
  <2>5. QED
    BY <2>1, <2>4
<1>5. /\ IsTree(taken) /\ from \in DOMAIN taken
      /\ IsGraft(taken, tree, from, rest) /\ ListAt(taken, from) = rest
      /\ c \in Branches /\ rest \in Seq(Branches)
  BY TakePut
<1>6. taken[from].size = Len(rest)
  BY <1>5, GraftTree
<1>7. SetAt(tree, to, Including(ListAt(tree, to), k, c)) = put
  BY SetAtSame DEF Put
<1> DEFINE y == Put(list[j + 1], r, k, c)  new == [list EXCEPT ![j + 1] = y]
           at == IF j < i THEN j ELSE j - 1  last == Down(from, at, r)
           end == [rest EXCEPT ![at + 1] = y]
<1>8. y \in Branches /\ new \in Seq(Branches) /\ IsGraft(put, tree, from, new)
  <2>1. Down(from, j, r) \in DOMAIN tree
    BY <1>3
  <2> HIDE DEF c
  <2>2. /\ y \in Branches /\ new \in Seq(Branches)
        /\ IsGraft(Put(tree, Down(from, j, r), k, c), tree, from, new)
    BY <1>3, <1>4, <1>5, <2>1, PutWithin
  <2>3. QED
    BY <1>3, <2>2
<1>9. /\ at \in Nat /\ at < Len(rest) /\ rest[at + 1] = list[j + 1]
      /\ Without(new, i) = end
  <2>0. i < Len(list) /\ j < Len(list) /\ i # j /\ y \in Branches
    BY <1>2, <1>4, <1>8
  <2> HIDE DEF list, y
  <2>1. LET at_1 == IF j < i THEN j ELSE j - 1
        IN  /\ at_1 \in Nat /\ at_1 < Len(Without(list, i))
            /\ Without(list, i)[at_1 + 1] = list[j + 1]
            /\ Without([list EXCEPT ![j + 1] = y], i) = [Without(list, i) EXCEPT ![at_1 + 1] = y]
    BY <1>2, <2>0, ReplaceWithout
  <2>2. QED
    BY <2>1
<1> HIDE DEF list, c, put, taken, rest, y, new, at, end
<1>10. IsTree(put) /\ from \in DOMAIN put /\ ListAt(put, from) = new
  BY <1>8, GraftTree, ListAtGraft
<1> DEFINE res == SetAt(put, from, Without(ListAt(put, from), i))
<1>11. IsGraft(res, tree, from, end)
  <2>1. res = Graft(put, from, end)
    BY <1>9, <1>10, SetAtSame
  <2>2. end \in Seq(Branches)
    <3>1. at + 1 \in 1 .. Len(rest)
      BY <1>5, <1>9, LenProperties
    <3>2. QED
      BY <1>5, <1>8, <3>1, ExceptSeq DEF end
  <2>3. IsGraft(Graft(put, from, end), put, from, end)
    BY <1>10, <2>2, GraftElements
  <2>4. IsGraft(Graft(put, from, end), tree, from, end)
    BY <1>1, <1>8, <2>3, GraftGraft
  <2>5. QED
    BY <2>1, <2>4
<1>12. /\ last \in DOMAIN taken /\ taken[last].id = tree[to].id
  <2>1. /\ last \in DOMAIN taken <=> r \in DOMAIN rest[at + 1]
        /\ r \in DOMAIN rest[at + 1] => taken[last] = rest[at + 1][r]
    <3>1. LET t == ListAt(taken, from)[at + 1]
          IN  /\ ListAt(taken, Down(from, at, r)) = ListAt(t, r)
              /\ Down(from, at, r) \in DOMAIN taken <=> r \in DOMAIN t
              /\ r \in DOMAIN t => taken[Down(from, at, r)] = t[r]
      BY <1>3, <1>5, <1>6, <1>9, ListAtDown
    <3>2. QED
      BY <1>5, <3>1
  <2>2. /\ Down(from, j, r) \in DOMAIN tree <=> r \in DOMAIN list[j + 1]
        /\ r \in DOMAIN list[j + 1] => tree[Down(from, j, r)] = list[j + 1][r]
    BY <1>3, <1>4, ListAtDown DEF list
  <2>3. QED
    BY <1>3, <1>9, <2>1, <2>2
<1>13. IsGraft(Put(taken, last, k, c), tree, from, end)
  <2>1. IsGraft(Put(taken, last, k, c), taken, from, end)
    <3>1. LET l == ListAt(taken, from)  z == Put(l[at + 1], r, k, c)
          IN  /\ z \in Branches
              /\ [l EXCEPT ![at + 1] = z] \in Seq(Branches)
              /\ IsGraft(Put(taken, Down(from, at, r), k, c), taken, from, [l EXCEPT ![at + 1] = z])
      BY <1>3, <1>5, <1>6, <1>9, <1>12, PutWithin
    <3>2. QED
      BY <1>5, <1>9, <3>1 DEF y, end
  <2>2. QED
    BY <1>1, <1>5, <2>1, GraftGraft
<1>14. res = Put(taken, last, k, c)
  BY <1>1, <1>11, <1>13, GraftUnique
<1>15. QED
  BY <1>7, <1>12, <1>14 DEF Placed, taken, c

\* The three cases of handleDropHelper agree: the tree after a drop is the tree without the
\* component, and the component in the list it was dropped in (handleDropHelper.ts:24-180).
THEOREM RearrangedIsPlaced ==
  ASSUME IsTree(schema), NEW from \in DOMAIN schema, NEW i \in Nat, i < schema[from].size,
         NEW to \in DOMAIN schema, ~IsPrefix(Append(from, i), to), NEW k \in Nat
  PROVE  Placed(schema, from, i, to, k, Rearranged(from, i, to, k))
<1>1. CASE to = from
  BY <1>1, MoveIsPlaced DEF Rearranged
<1>2. CASE to # from /\ IsStrictPrefix(from, to)
  <2> DEFINE c == Sub(schema, Append(from, i))
  <2>1. Rearranged(from, i, to, k) = PutThenTake(from, i, to, k, c)
    BY <1>2 DEF Rearranged
  <2>2. QED
    BY <1>2, <2>1, PutThenTakeIsPlaced DEF PutThenTake
<1>3. CASE to # from /\ ~IsStrictPrefix(from, to)
  <2> DEFINE c == Sub(schema, Append(from, i))
  <2>1. Rearranged(from, i, to, k) = TakeThenPut(from, i, to, k, c)
    BY <1>3 DEF Rearranged
  <2>2. QED
    BY <1>3, <2>1, TakeThenPutIsPlaced DEF TakeThenPut
<1>4. QED
  BY <1>1, <1>2, <1>3

\* A component that is placed elsewhere: the same components, each once, and the lists
\* of all others as they were.
LEMMA PlacedTree ==
  ASSUME NEW tree, IsTree(tree), EachOnce(tree), NEW from \in DOMAIN tree, NEW i \in Nat,
         i < tree[from].size, NEW to, NEW k \in Nat, NEW new, Placed(tree, from, i, to, k, new),
         NEW c, c = tree[Append(from, i)].id, c \in Components
  PROVE  /\ IsTree(new) /\ new[Root].id = tree[Root].id /\ EachOnce(new)
         /\ Ids(new) = Ids(tree)
         /\ Others(new, c) = Others(tree, c) /\ At(new, tree[to].id, k, c)
<1> DEFINE taken == Take(tree, from, i)  t == Sub(tree, Append(from, i))
<1>1. /\ IsTree(taken) /\ from \in DOMAIN taken /\ taken[Root].id = tree[Root].id
      /\ t \in Branches /\ t[Root].id = c
      /\ Put(taken, from, i, t) = tree
  BY TakePut
<1>2. PICK at \in DOMAIN taken : taken[at].id = tree[to].id /\ new = Put(taken, at, k, t)
  BY DEF Placed
<1> HIDE DEF taken, t
<1>3. IsTree(t) /\ Root \in DOMAIN t
  <2>1. IsTree(t)
    BY <1>1, TreesDef DEF Branches
  <2>2. QED
    BY <2>1 DEF IsTree
<1>4. /\ Ids(tree) = Ids(taken) \cup Ids(t)
      /\ EachOnce(taken) /\ EachOnce(t) /\ Ids(taken) \cap Ids(t) \cap Components = {}
  <2>1. LET g == Put(taken, from, i, t)
        IN  /\ IsTree(g) /\ g[Root].id = taken[Root].id
            /\ IsGraft(g, taken, from, Including(ListAt(taken, from), i, t))
            /\ Including(ListAt(taken, from), i, t) \in Seq(Branches)
            /\ Ids(g) = Ids(taken) \cup Ids(t)
            /\ EachOnce(g) <=> /\ EachOnce(taken) /\ EachOnce(t)
                               /\ Ids(taken) \cap Ids(t) \cap Components = {}
    BY <1>1, PutOnce
  <2>2. QED
    BY <1>1, <2>1
<1>5. /\ IsTree(new) /\ new[Root].id = taken[Root].id
      /\ Ids(new) = Ids(taken) \cup Ids(t) /\ EachOnce(new)
  <2>1. LET g == Put(taken, at, k, t)
        IN  /\ IsTree(g) /\ g[Root].id = taken[Root].id
            /\ IsGraft(g, taken, at, Including(ListAt(taken, at), k, t))
            /\ Including(ListAt(taken, at), k, t) \in Seq(Branches)
            /\ Ids(g) = Ids(taken) \cup Ids(t)
            /\ EachOnce(g) <=> /\ EachOnce(taken) /\ EachOnce(t)
                               /\ Ids(taken) \cap Ids(t) \cap Components = {}
    BY <1>1, <1>2, PutOnce
  <2>2. QED
    BY <1>2, <1>4, <2>1
<1>6. c \notin Ids(taken) /\ \A r \in DOMAIN t : t[r].id = c => r = Root
  <2>1. c \in Ids(t)
    BY <1>1, <1>3 DEF Ids
  <2>2. c \notin Ids(taken)
    BY <1>4, <2>1
  <2>3. \A r \in DOMAIN t : t[r].id = c => r = Root
    BY <1>1, <1>3, <1>4 DEF EachOnce
  <2>4. QED
    BY <2>2, <2>3
<1>7. Others(tree, c) = Shape(taken) \cup Shape(t)
  BY <1>1, <1>6, PutOthers
<1>8. Others(new, c) = Shape(taken) \cup Shape(t) /\ At(new, tree[to].id, k, c)
  BY <1>1, <1>2, <1>6, PutOthers
<1>9. QED
  BY <1>1, <1>4, <1>5, <1>7, <1>8

\* Taking a component out of a list that is rendered, and putting one anywhere, leaves no
\* nameless component empty.
LEMMA TakeCarries ==
  ASSUME NEW tree, IsTree(tree), Carries(tree), NEW p \in DOMAIN tree, NEW i \in Nat,
         i < tree[p].size, \A q \in DOMAIN tree : IsPrefix(q, p) => tree[q].id # Nameless
  PROVE  Carries(Take(tree, p, i)) /\ Carries(Sub(tree, Append(p, i)))
<1> DEFINE list == ListAt(tree, p)  rest == Without(list, i)  g == Take(tree, p, i)
<1>1. IsGraft(g, tree, p, rest) /\ rest \in Seq(Branches) /\ Sub(tree, Append(p, i)) = list[i + 1]
  BY TakePut
<1>2. p \in Seq(Nat) /\ list \in Seq(Branches) /\ Len(list) = tree[p].size
  <2>1. p \in Seq(Nat)
    BY DEF IsTree
  <2>2. QED
    BY <2>1, ListAtElements DEF Size
<1>3. CarriesApart(tree, p)
  BY DEF Carries, CarriesApart
<1>4. \A m \in 1 .. Len(list) : Carries(list[m])
  BY <1>3, SubCarries
<1> HIDE DEF list, g
<1>5. Len(list) \in Nat /\ i \in 0 .. Len(list) - 1 /\ i + 1 \in 1 .. Len(list)
  BY <1>2, LenProperties
<1>6. /\ Len(rest) = Len(list) - 1
      /\ \A m \in 1 .. Len(list) - 1 : rest[m] = IF m <= i THEN list[m] ELSE list[m + 1]
  BY <1>2, <1>5, WithoutElements
<1> HIDE DEF rest
<1>7. ASSUME NEW m \in 1 .. Len(rest)
      PROVE  Carries(rest[m])
  <2>1. m \in 1 .. Len(list) - 1 /\ m \in 1 .. Len(list) /\ m + 1 \in 1 .. Len(list)
    BY <1>5, <1>6
  <2>2. QED
    BY <1>4, <1>6, <2>1
<1>8. Carries(g)
  BY <1>1, <1>3, <1>7, GraftCarries
<1>9. QED
  BY <1>1, <1>4, <1>5, <1>8 DEF g

\* A component of the program put into a list: everything on the way to it has one.
LEMMA PutCarries ==
  ASSUME NEW tree, IsTree(tree), NEW p \in DOMAIN tree, CarriesApart(tree, p), NEW k \in Nat,
         NEW t \in Branches, Carries(t), t[Root].id \in Components
  PROVE  Carries(Put(tree, p, k, t))
<1> DEFINE list == ListAt(tree, p)  new == Including(list, k, t)  g == Put(tree, p, k, t)
           l == Place(list, k)
<1>1. IsGraft(g, tree, p, new) /\ new \in Seq(Branches)
  BY PutOnce
<1>2. p \in Seq(Nat) /\ list \in Seq(Branches)
  <2>1. p \in Seq(Nat)
    BY DEF IsTree
  <2>2. QED
    BY <2>1, ListAtElements
<1>3. \A m \in 1 .. Len(list) : Carries(list[m])
  BY SubCarries
<1> HIDE DEF list, g
<1>4. HasAdded(Branches, list, l, t, new) /\ l \in 0 .. Len(list) /\ Len(list) \in Nat
  <2>1. Len(list) \in Nat
    BY <1>2, LenProperties
  <2>2. l \in 0 .. Len(list)
    BY <2>1 DEF Place
  <2>3. QED
    BY <1>2, <2>1, <2>2, IncludingElements
<1> HIDE DEF new, l
<1>5. /\ Len(new) = Len(list) + 1
      /\ \A j \in 1 .. Len(list) + 1 :
           new[j] = IF j <= l THEN list[j] ELSE IF j = l + 1 THEN t ELSE list[j - 1]
  BY <1>4 DEF HasAdded
<1>6. ASSUME NEW m \in 1 .. Len(new)
      PROVE  Carries(new[m])
  <2>1. \/ m <= l /\ m \in 1 .. Len(list) /\ m \in 1 .. Len(list) + 1
        \/ ~(m <= l) /\ m = l + 1 /\ m \in 1 .. Len(list) + 1
        \/ /\ ~(m <= l) /\ m # l + 1 /\ m - 1 \in 1 .. Len(list)
           /\ m \in 1 .. Len(list) + 1
    BY <1>4, <1>5
  <2>2. QED
    BY <1>3, <1>5, <2>1
<1>7. \E m \in 1 .. Len(new) : new[m][Root].id \in Components
  <2>1. l + 1 \in 1 .. Len(new) /\ l + 1 \in 1 .. Len(list) + 1 /\ ~(l + 1 <= l)
    BY <1>4, <1>5
  <2>2. new[l + 1] = t
    BY <1>5, <2>1
  <2>3. QED
    BY <2>1, <2>2
<1>8. Carries(g)
  BY <1>1, <1>6, <1>7, GraftCarries
<1>9. QED
  BY <1>8 DEF g

\* Both, one after the other.
LEMMA PlacedCarries ==
  ASSUME NEW tree, IsTree(tree), Carries(tree), NEW from \in DOMAIN tree, NEW i \in Nat,
         i < tree[from].size, \A q \in DOMAIN tree : IsPrefix(q, from) => tree[q].id # Nameless,
         tree[Append(from, i)].id \in Components,
         NEW to, NEW k \in Nat, NEW new, Placed(tree, from, i, to, k, new)
  PROVE  Carries(new)
<1> DEFINE taken == Take(tree, from, i)  t == Sub(tree, Append(from, i))
<1>1. IsTree(taken) /\ t \in Branches /\ t[Root].id = tree[Append(from, i)].id
  BY TakePut
<1>2. Carries(taken) /\ Carries(t)
  BY TakeCarries
<1>3. PICK at \in DOMAIN taken : new = Put(taken, at, k, t)
  BY DEF Placed
<1> HIDE DEF taken, t
<1>4. CarriesApart(taken, at)
  BY <1>2 DEF Carries, CarriesApart
<1>5. QED
  BY <1>1, <1>2, <1>3, <1>4, PutCarries

\* A component taken out: the tree without it.
LEMMA TakeTree ==
  ASSUME NEW tree, IsTree(tree), EachOnce(tree), NEW p \in DOMAIN tree, NEW i \in Nat,
         i < tree[p].size
  PROVE  LET g == Take(tree, p, i)
         IN  /\ IsTree(g) /\ g[Root].id = tree[Root].id /\ EachOnce(g)
             /\ Ids(g) \subseteq Ids(tree)
<1> DEFINE taken == Take(tree, p, i)  t == Sub(tree, Append(p, i))
<1>1. /\ IsTree(taken) /\ p \in DOMAIN taken /\ taken[Root].id = tree[Root].id
      /\ t \in Branches /\ Put(taken, p, i, t) = tree
  BY TakePut
<1> HIDE DEF taken, t
<1>2. LET g == Put(taken, p, i, t)
      IN  /\ IsTree(g) /\ g[Root].id = taken[Root].id
          /\ IsGraft(g, taken, p, Including(ListAt(taken, p), i, t))
          /\ Including(ListAt(taken, p), i, t) \in Seq(Branches)
          /\ Ids(g) = Ids(taken) \cup Ids(t)
          /\ EachOnce(g) <=> /\ EachOnce(taken) /\ EachOnce(t)
                             /\ Ids(taken) \cap Ids(t) \cap Components = {}
  BY <1>1, PutOnce
<1>3. EachOnce(taken) /\ Ids(tree) = Ids(taken) \cup Ids(t)
  BY <1>1, <1>2
<1>4. QED
  BY <1>1, <1>3 DEF taken

\* A component by itself.
LEMMA NodeTree ==
  ASSUME NEW c \in Components
  PROVE  /\ Node(c) \in Branches /\ Node(c)[Root].id = c /\ Ids(Node(c)) = {c}
         /\ EachOnce(Node(c)) /\ Carries(Node(c)) /\ DOMAIN Node(c) = {Root}
         /\ Shape(Node(c)) = {[owner |-> c, ids |-> <<>>]}
<1> DEFINE t == Node(c)
<1>1. /\ DOMAIN t = {Root} /\ t = [p \in {Root} |-> t[p]] /\ t[Root] = [id |-> c, size |-> 0]
      /\ t[Root].id = c /\ t[Root].size = 0
  BY DEF Node
<1> HIDE DEF t
<1>2. c # None /\ c # Nameless /\ c \in Known
  BY EditorAssumption DEF Known, Components
<1>3. Root \in Seq(Nat) /\ Len(Root) = 0
  BY DEF Root
<1>4. IsTree(t)
  <2>1. t[Root] \in Entries
    BY <1>1, <1>2 DEF Entries
  <2>2. t \in [DOMAIN t -> Entries]
    BY <1>1, <2>1
  <2>3. DOMAIN t \subseteq Seq(Nat) /\ Root \in DOMAIN t
    BY <1>1, <1>3
  <2>4. ASSUME NEW p \in DOMAIN t
        PROVE  /\ \A n \in 0 .. Len(p) - 1 :
                    SubSeq(p, 1, n) \in DOMAIN t /\ p[n + 1] < t[SubSeq(p, 1, n)].size
               /\ p # Root => t[p].id # None
               /\ \A i \in 0 .. t[p].size - 1 : Append(p, i) \in DOMAIN t
    <3>1. p = Root /\ 0 .. Len(p) - 1 = {} /\ 0 .. t[p].size - 1 = {}
      BY <1>1, <1>3
    <3>2. QED
      BY <3>1
  <2>5. QED
    BY <2>2, <2>3, <2>4 DEF IsTree, Entries, Known
<1>5. t \in Branches
  BY <1>1, <1>2, <1>4, TreesDef DEF Branches
<1>6. Ids(t) = {c} /\ EachOnce(t) /\ Carries(t)
  BY <1>1, <1>2 DEF Ids, EachOnce, Carries
<1>7. Row(t, Root) = [owner |-> c, ids |-> <<>>]
  <2>1. Names(t, Root) \in Seq(Known) /\ Len(Names(t, Root)) = 0
    BY <1>1, <1>4, NamesElements
  <2>2. Names(t, Root) = <<>>
    BY <2>1, EmptySeq
  <2>3. QED
    BY <1>1, <2>2 DEF Row
<1>8. Shape(t) = {[owner |-> c, ids |-> <<>>]}
  <2>1. \A s : s \in Shape(t) <=> s = Row(t, Root)
    BY <1>1, ShapeDef
  <2>2. QED
    BY <1>7, <2>1
<1>9. QED
  BY <1>1, <1>5, <1>6, <1>8 DEF t

\* A path that leads nowhere leads to an empty list, before and after set.
LEMMA ReachList ==
  ASSUME NEW tree, IsTree(tree), NEW path \in Seq(Nat)
  PROVE  ListAt(Reach(tree, path), path) = ListAt(tree, path)
<1>1. CASE path \in DOMAIN tree
  BY <1>1, ReachSame
<1>2. CASE path \notin DOMAIN tree
  <2> DEFINE r == Reach(tree, path)
  <2>1. Size(tree, path) = 0
    BY <1>2 DEF Size
  <2>2. path \notin Way(path)
    <3>1. Len(path) \in Nat
      BY LenProperties
    <3>2. \A w \in Way(path) : Len(w) \in 0 .. Len(path) - 1
      BY WayElements
    <3>3. Len(path) \notin 0 .. Len(path) - 1
      BY <3>1
    <3>4. QED
      BY <3>2, <3>3
  <2>3. path \in DOMAIN r
    BY ReachTree
  <2>4. r[path].size = 0
    <3> HIDE DEF r
    <3>1. r = [p \in DOMAIN tree \cup Made(tree, path) |->
                [id   |-> IF p \in DOMAIN tree THEN tree[p].id
                          ELSE IF IsPrefix(p, path) THEN Nameless ELSE Hole,
                 size |-> IF p \in Way(path) THEN Grown(tree, path, p) ELSE Size(tree, p)]]
      BY <1>2, ReachDef DEF r
    <3>2. QED
      BY <2>1, <2>2, <2>3, <3>1
  <2>5. Size(r, path) = 0
    BY <2>3, <2>4 DEF Size
  <2> HIDE DEF r
  <2>6. ListAt(r, path) = [j \in {} |-> Sub(r, Append(path, j - 1))]
    <3>1. 1 .. Size(r, path) = {}
      BY <2>5
    <3>2. QED
      BY <3>1 DEF ListAt
  <2>7. ListAt(tree, path) = [j \in {} |-> Sub(tree, Append(path, j - 1))]
    <3>1. 1 .. Size(tree, path) = {}
      BY <2>1
    <3>2. QED
      BY <3>1 DEF ListAt
  <2>8. ListAt(r, path) = ListAt(tree, path)
    BY <2>6, <2>7
  <2>9. QED
    BY <2>8 DEF r
<1>3. QED
  BY <1>1, <1>2

\* No list has more elements than there are components: every element is a component or
\* has one in it.
LEMMA ListBound ==
  ASSUME NEW tree, IsTree(tree), EachOnce(tree), Carries(tree), Hole \notin Ids(tree),
         NEW p \in DOMAIN tree
  PROVE  tree[p].size \in 0 .. Cardinality(Components)
<1> DEFINE n == tree[p].size
           Inside(m, c) == \E r \in Seq(Nat) : /\ Down(p, m - 1, r) \in DOMAIN tree
                                               /\ tree[Down(p, m - 1, r)].id = c
           f == [m \in 1 .. n |-> CHOOSE c \in Components : Inside(m, c)]
<1>1. p \in Seq(Nat) /\ n \in Nat /\ Root \in Seq(Nat) /\ DOMAIN tree \subseteq Seq(Nat)
  <2>1. p \in Seq(Nat) /\ n \in Nat /\ DOMAIN tree \subseteq Seq(Nat)
    BY DEF IsTree
  <2>2. QED
    BY <2>1, NotBeyond
<1>2. IsFiniteSet(Components) /\ Cardinality(Components) \in Nat
  BY EditorAssumption, FS_CardinalityType
<1>3. ASSUME NEW m \in 1 .. n
      PROVE  \E c \in Components : Inside(m, c)
  <2> DEFINE i == m - 1  d == Append(p, i)
  <2>1. i \in Nat /\ i < n
    BY <1>1
  <2>2. d \in DOMAIN tree /\ d = Down(p, i, Root) /\ d \in Seq(Nat)
    <3>1. d \in DOMAIN tree
      BY <1>1, <2>1, TreeChild
    <3>2. QED
      BY <1>1, <2>1, <3>1, DownAppend
  <2>3. d # Root /\ tree[d].id \in Known
    <3>1. d # Root
      <4>1. IsDown(d, p, i, Root) /\ Len(p) \in Nat /\ Len(Root) = 0
        BY <1>1, <2>1, AppendElements, LenProperties DEF Root
      <4> HIDE DEF d, i
      <4>2. Len(d) # 0
        BY <4>1 DEF IsDown
      <4>3. QED
        BY <4>1, <4>2
    <3>2. tree[d].id \in Known
      BY <2>2 DEF IsTree, Known
    <3>3. QED
      BY <3>1, <3>2
  <2>4. tree[d].id \in Components \/ tree[d].id = Nameless
    <3>1. tree[d].id # None
      BY <2>2, <2>3 DEF IsTree
    <3>2. tree[d].id # Hole
      BY <2>2 DEF Ids
    <3>3. QED
      BY <2>3, <3>1, <3>2 DEF Known
  <2> HIDE DEF i, d
  <2>5. CASE tree[d].id \in Components
    <3>1. Inside(m, tree[d].id)
      BY <1>1, <2>2 DEF i
    <3>2. QED
      BY <2>5, <3>1
  <2>6. CASE tree[d].id = Nameless
    <3>1. PICK s \in DOMAIN tree : IsStrictPrefix(d, s) /\ tree[s].id \in Components
      BY <2>2, <2>6 DEF Carries
    <3>2. s \in Seq(Nat) /\ IsStrictPrefix(Down(p, i, Root), s)
      BY <1>1, <2>2, <3>1
    <3>3. PICK r \in Seq(Nat) : s = Down(p, i, r)
      <4>1. \E r \in Seq(Nat) : s = Down(p, i, r) /\ IsStrictPrefix(Root, r)
        BY <1>1, <2>1, <3>2, DownBeyond
      <4>2. QED
        BY <4>1
    <3>4. Inside(m, tree[s].id)
      BY <3>3 DEF i
    <3>5. QED
      BY <3>1, <3>4
  <2>7. QED
    BY <2>4, <2>5, <2>6
<1>4. ASSUME NEW m \in 1 .. n, NEW k \in 1 .. n, NEW c \in Components,
             Inside(m, c), Inside(k, c)
      PROVE  m = k
  <2>1. m - 1 \in Nat /\ k - 1 \in Nat /\ (m - 1 = k - 1 => m = k)
    BY <1>1
  <2>2. PICK r \in Seq(Nat) : /\ Down(p, m - 1, r) \in DOMAIN tree
                              /\ tree[Down(p, m - 1, r)].id = c
    BY <1>4
  <2>3. PICK s \in Seq(Nat) : /\ Down(p, k - 1, s) \in DOMAIN tree
                              /\ tree[Down(p, k - 1, s)].id = c
    BY <1>4
  <2>4. Down(p, m - 1, r) = Down(p, k - 1, s)
    BY <2>2, <2>3 DEF EachOnce
  <2>5. m - 1 = k - 1
    BY <1>1, <2>1, <2>4, DownInjective
  <2>6. QED
    BY <2>1, <2>5
<1>5. \A m \in 1 .. n : f[m] \in Components /\ Inside(m, f[m])
  <2>1. ASSUME NEW m \in 1 .. n
        PROVE  f[m] \in Components /\ Inside(m, f[m])
    <3>1. f[m] = CHOOSE c \in Components : Inside(m, c)
      OBVIOUS
    <3> HIDE DEF f, Inside
    <3>2. QED
      BY <1>3, <3>1
  <2>2. QED
    BY <2>1
<1>6. f \in [1 .. n -> Components]
  BY <1>5
<1> HIDE DEF f, Inside
<1>7. IsFiniteSet(1 .. n) /\ Cardinality(1 .. n) = n
  <2>1. 1 \in Int /\ n \in Int /\ (IF 1 > n THEN 0 ELSE n - 1 + 1) = n
    BY <1>1
  <2> HIDE DEF n
  <2>2. QED
    BY <2>1, FS_Interval
<1>8. ASSUME Cardinality(Components) < n
      PROVE  FALSE
  <2> HIDE DEF n
  <2>1. \E m, k \in 1 .. n : m # k /\ f[m] = f[k]
    BY <1>2, <1>6, <1>7, <1>8, FS_PigeonHole
  <2>2. QED
    BY <1>4, <1>5, <2>1
<1> HIDE DEF n
<1>9. n \in 0 .. Cardinality(Components)
  BY <1>1, <1>2, <1>8
<1>10. QED
  BY <1>9 DEF n

\* An element replaced by itself.
LEMMA ReplaceSame ==
  ASSUME NEW S, NEW list \in Seq(S), NEW i \in Nat, i < Len(list)
  PROVE  Slice(list, 0, i) \o <<list[i + 1]>> \o Slice(list, i + 1, Len(list)) = list
<1> DEFINE n == Len(list)  x == list[i + 1]
           a == Slice(list, 0, i)  b == <<x>>  c == Slice(list, i + 1, n)
           l == a \o b \o c
<1>1. /\ n \in Nat /\ i + 1 \in Nat /\ i + 1 <= n /\ i <= n /\ i + 1 \in 1 .. n
      /\ 0 \in Nat /\ 0 <= i
  BY LenProperties
<1>2. a \in Seq(S) /\ Len(a) = i /\ \A j \in 1 .. i : a[j] = list[j]
  <2>1. /\ a \in Seq(S) /\ Len(a) = i - 0
        /\ \A j \in 1 .. i - 0 : a[j] = list[0 + j]
    BY <1>1, SliceElements, ZenonT(60) DEF n, a
  <2> HIDE DEF a
  <2>2. QED
    BY <2>1
<1>3. c \in Seq(S) /\ Len(c) = n - (i + 1) /\ \A j \in 1 .. n - (i + 1) : c[j] = list[i + 1 + j]
  BY <1>1, TailElements
<1>4. x \in S
  BY <1>1, ElementOfSeq
<1>5. b \in Seq(S) /\ Len(b) = 1 /\ b[1] = x
  BY <1>4
<1> HIDE DEF a, b, c, x, n
<1>6. /\ l \in Seq(S) /\ Len(l) = Len(a) + Len(b) + Len(c)
      /\ \A j \in 1 .. Len(a) + Len(b) + Len(c) :
           l[j] = IF j <= Len(a) THEN a[j]
                  ELSE IF j <= Len(a) + Len(b) THEN b[j - Len(a)]
                  ELSE c[j - Len(a) - Len(b)]
  <2>1. a \in Seq(S) /\ b \in Seq(S) /\ c \in Seq(S)
    BY <1>2, <1>3, <1>5
  <2>2. QED
    BY <2>1, ThreeParts
<1> HIDE DEF l
<1>7. Len(l) = n /\ Len(a) + Len(b) + Len(c) = n
  BY <1>1, <1>2, <1>3, <1>5, <1>6
<1>8. ASSUME NEW j \in 1 .. Len(l)
      PROVE  l[j] = list[j]
  <2>1. j \in 1 .. Len(a) + Len(b) + Len(c) /\ j \in 1 .. n
    BY <1>7
  <2>2. CASE j <= i
    <3>1. j \in 1 .. i
      BY <2>1, <2>2, <1>1
    <3>2. QED
      BY <1>2, <1>6, <2>1, <3>1, <2>2
  <2>3. CASE j = i + 1
    <3>1. ~(j <= Len(a)) /\ j <= Len(a) + Len(b) /\ j - Len(a) = 1
      BY <1>1, <1>2, <1>5, <2>3
    <3>2. QED
      BY <1>5, <1>6, <2>1, <2>3, <3>1 DEF x
  <2>4. CASE j > i + 1
    <3> DEFINE m == j - (i + 1)
    <3>1. /\ ~(j <= Len(a)) /\ ~(j <= Len(a) + Len(b)) /\ j - Len(a) - Len(b) = m
          /\ m \in 1 .. n - (i + 1) /\ i + 1 + m = j
      BY <1>1, <1>2, <1>5, <2>1, <2>4
    <3> HIDE DEF m
    <3>2. QED
      BY <1>3, <1>6, <2>1, <3>1
  <2>5. QED
    BY <1>1, <2>1, <2>2, <2>3, <2>4
<1>9. Len(l) = Len(list)
  BY <1>7 DEF n
<1>10. l = list
  BY <1>6, <1>8, <1>9, SeqEqual
<1>11. QED
  BY <1>10 DEF l, a, b, c, x, n

-----------------------------------------------------------------------------
(* The inductive invariant. *)

\* The schema is a tree of components, each in one place; what lodash's set has created on
\* a path has a component in it.
TreeInv ==
  IsTree(schema) /\ schema[Root].id = None /\ EachOnce(schema) /\ Carries(schema)

Placeholders == (0 .. Cardinality(Components)) \cup {None}
PlaceInv == placeholder \in [Rendered -> Placeholders]

\* There is a component at index i of the rendered list p.
Child(p, i) ==
  /\ p \in Rendered /\ i \in Nat /\ i < schema[p].size
  /\ schema[Append(p, i)].id \in Components

\* What is dragged is a component where it was when the drag began, or a new one.
DragsChild == drag.new = None /\ Child(drag.list, drag.index)
DragsNew == drag.new \in Menu \ Ids(schema) /\ drag.list = None /\ drag.index \in Nat
DragInv == drag # None => DragsChild \/ DragsNew

\* The item to add is new, and its place is one of the schema unless a drop has moved
\* components; the item to edit is where the item says.
Adds ==
  /\ item.op = "add" /\ item.path \in Seq(Nat) /\ item.index \in Nat
  /\ \E c \in Menu \ Ids(schema) : item.node = Node(c)
  /\ ~moved => item.path \in DOMAIN schema /\ schema[item.path].id = item.list
Edits ==
  /\ item.op = "edit" /\ dialog = "open" /\ drag = None
  /\ Child(item.path, item.index)
  /\ item.node = Sub(schema, Append(item.path, item.index))
  /\ item.list = schema[item.path].id
DialogInv ==
  /\ dialog \in {"closed", "loading", "open"} /\ moved \in BOOLEAN
  /\ dialog = "closed" => item = None
  /\ dialog # "closed" => Adds \/ Edits

IInv == TreeInv /\ PlaceInv /\ DragInv /\ DialogInv

\* The parts of the invariant that are about paths and sizes.
LEMMA SchemaTyped ==
  ASSUME TreeInv
  PROVE  /\ IsTree(schema) /\ DOMAIN schema \subseteq Seq(Nat)
         /\ \A p \in DOMAIN schema : schema[p].size \in Nat /\ Size(schema, p) = schema[p].size
  BY DEF TreeInv, IsTree, Size

\* The lists that are rendered, and their elements.
LEMMA RenderedLists ==
  ASSUME TreeInv, Rendering, NEW p \in Rendered
  PROVE  /\ p \in DOMAIN schema /\ p \in Seq(Nat)
         /\ Size(schema, p) = schema[p].size /\ schema[p].size \in Nat
         /\ schema[p].size \in 0 .. Cardinality(Components)
         /\ Cardinality(Components) \in Nat
         /\ \A q \in DOMAIN schema : IsPrefix(q, p) => schema[q].id # Nameless
         /\ \A i \in Nat : i < schema[p].size /\ schema[Append(p, i)].id # Nameless => Child(p, i)
<1>1. p \in DOMAIN schema
  BY DEF Rendered
<1>2. /\ p \in Seq(Nat) /\ Size(schema, p) = schema[p].size /\ schema[p].size \in Nat
      /\ IsTree(schema) /\ DOMAIN schema \subseteq Seq(Nat)
  BY <1>1, SchemaTyped
<1>3. schema[p].size \in 0 .. Cardinality(Components) /\ Cardinality(Components) \in Nat
  <2>1. IsTree(schema) /\ EachOnce(schema) /\ Carries(schema) /\ Hole \notin Ids(schema)
    BY DEF TreeInv, Rendering
  <2>2. QED
    BY <1>1, <2>1, ListBound, EditorAssumption, FS_CardinalityType
<1>4. ASSUME NEW q \in DOMAIN schema, IsPrefix(q, p)
      PROVE  schema[q].id # Nameless
  <2>1. q \in Seq(Nat) /\ Len(q) \in Nat /\ Len(p) \in Nat
    BY <1>2, LenProperties
  <2>2. Len(q) <= Len(p) /\ \A n \in 1 .. Len(q) : p[n] = q[n]
    BY <1>2, <1>4, <2>1, PrefixElements
  <2>3. Len(q) \in 0 .. Len(p)
    BY <2>1, <2>2
  <2>4. SubSeq(p, 1, Len(q)) = q
    <3> DEFINE f == SubSeq(p, 1, Len(q))
    <3>1. f \in Seq(Nat) /\ Len(f) = Len(q) /\ \A m \in 1 .. Len(q) : f[m] = p[m]
      BY <1>2, <2>3, FirstElements DEF IsFirst
    <3> HIDE DEF f
    <3>2. \A m \in 1 .. Len(f) : f[m] = q[m]
      BY <2>2, <3>1
    <3>3. f = q
      BY <2>1, <3>1, <3>2, SeqEqual
    <3>4. QED
      BY <3>3 DEF f
  <2>5. CASE Len(q) = 0
    <3>1. q = Root
      BY <2>1, <2>5, EmptySeq DEF Root
    <3>2. QED
      BY <3>1, EditorAssumption DEF TreeInv
  <2>6. CASE Len(q) # 0
    <3>1. Len(q) \in 1 .. Len(p)
      BY <2>1, <2>3, <2>6
    <3>2. schema[SubSeq(p, 1, Len(q))].id \in Containers
      BY <3>1 DEF Rendered
    <3>3. QED
      BY <2>4, <3>2, EditorAssumption
  <2>7. QED
    BY <2>5, <2>6
<1>5. ASSUME NEW i \in Nat, i < schema[p].size, schema[Append(p, i)].id # Nameless
      PROVE  Child(p, i)
  <2> DEFINE d == Append(p, i)
  <2>1. d \in DOMAIN schema
    BY <1>1, <1>2, <1>5, TreeChild
  <2>2. d # Root
    <3>1. IsDown(d, p, i, Root) /\ Len(p) \in Nat /\ Len(Root) = 0
      BY <1>2, AppendElements, LenProperties DEF Root
    <3> HIDE DEF d
    <3>2. Len(d) # 0
      BY <3>1 DEF IsDown
    <3>3. QED
      BY <3>1, <3>2
  <2>3. schema[d].id \in Known /\ schema[d].id # None
    BY <1>2, <2>1, <2>2 DEF IsTree, Known
  <2>4. schema[d].id # Hole
    BY <2>1 DEF Rendering, Ids
  <2>5. schema[d].id \in Components
    BY <1>5, <2>3, <2>4 DEF Known
  <2>6. QED
    BY <1>5, <2>5 DEF Child
<1>6. QED
  BY <1>1, <1>2, <1>3, <1>4, <1>5

\* The invariant holds when the page opens.
LEMMA InvInit ==
  ASSUME Init
  PROVE  IInv
<1>1. schema = Initial /\ Nameless \notin Ids(Initial)
  BY EditorAssumption DEF Init, Components
<1>2. Carries(schema)
  BY <1>1 DEF Carries, Ids
<1>3. TreeInv
  BY <1>1, <1>2, EditorAssumption DEF TreeInv
<1>4. PlaceInv /\ DragInv /\ DialogInv
  BY DEF Init, PlaceInv, Placeholders, DragInv, DialogInv
<1>5. QED
  BY <1>3, <1>4 DEF IInv

\* Steps that leave the schema as it is.
LEMMA SchemaSame ==
  ASSUME schema' = schema
  PROVE  /\ TreeInv => TreeInv'
         /\ Rendered' = Rendered
         /\ PlaceInv /\ placeholder' = placeholder => PlaceInv'
         /\ DragsChild /\ drag' = drag => DragsChild'
         /\ DragsNew /\ drag' = drag => DragsNew'
         /\ Adds /\ item' = item /\ moved' = moved => Adds'
         /\ Edits /\ item' = item /\ dialog' = dialog /\ drag' = drag => Edits'
         /\ \A p, i : Child(p, i) => Child(p, i)'
<1>1. TreeInv => TreeInv'
  BY DEF TreeInv
<1>2. Rendered' = Rendered
  BY DEF Rendered
<1>3. PlaceInv /\ placeholder' = placeholder => PlaceInv'
  BY <1>2 DEF PlaceInv
<1>4. \A p, i : Child(p, i) => Child(p, i)'
  BY <1>2 DEF Child
<1>5. DragsChild /\ drag' = drag => DragsChild'
  BY <1>2 DEF DragsChild, Child
<1>6. DragsNew /\ drag' = drag => DragsNew'
  BY DEF DragsNew
<1>7. Adds /\ item' = item /\ moved' = moved => Adds'
  BY DEF Adds
<1>8. Edits /\ item' = item /\ dialog' = dialog /\ drag' = drag => Edits'
  BY <1>2 DEF Edits, Child
<1>9. QED
  BY <1>1, <1>2, <1>3, <1>4, <1>5, <1>6, <1>7, <1>8

\* The values of a placeholder.
LEMMA PlaceValues ==
  ASSUME TreeInv, PlaceInv, Rendering, NEW p \in Rendered
  PROVE  /\ placeholder[p] # None => placeholder[p] \in Nat
         /\ DropIndex(p) \in Nat
         /\ \A n \in Nat : n <= Size(schema, p) => n \in Placeholders
         /\ None \in Placeholders
         /\ \A over \in BOOLEAN : Size(schema, p) # 0 => LastSlot(p, over) \in Placeholders
         /\ Size(schema, p) \in Nat
<1>1. /\ Size(schema, p) \in Nat /\ Cardinality(Components) \in Nat
      /\ Size(schema, p) <= Cardinality(Components)
  BY RenderedLists
<1>2. placeholder[p] \in Placeholders
  BY DEF PlaceInv
<1>3. placeholder[p] # None => placeholder[p] \in Nat
  BY <1>1, <1>2 DEF Placeholders
<1>4. \A over \in BOOLEAN :
        ChildCount(p, over) = IF (placeholder[p] # None /\ over) \/ Size(schema, p) = 0
                              THEN Size(schema, p) + 1 ELSE Size(schema, p)
  BY DEF ChildCount
<1>5. DropIndex(p) \in Nat
  <2>1. ChildCount(p, TRUE) \in Nat
    BY <1>1 DEF ChildCount
  <2>2. QED
    BY <1>3, <2>1 DEF DropIndex
<1>6. \A n \in Nat : n <= Size(schema, p) => n \in Placeholders
  BY <1>1 DEF Placeholders
<1>7. ASSUME NEW over \in BOOLEAN, Size(schema, p) # 0
      PROVE  LastSlot(p, over) \in Placeholders
  <2>1. LastSlot(p, over) \in {Size(schema, p), Size(schema, p) - 1}
    BY <1>1, <1>4, <1>7 DEF LastSlot
  <2>2. QED
    BY <1>1, <1>6, <1>7, <2>1
<1>8. QED
  BY <1>1, <1>3, <1>5, <1>6, <1>7 DEF Placeholders

\* A placeholder shown in a list that is rendered.
LEMMA ShowInv ==
  ASSUME IInv, NEW p \in Rendered, NEW v \in Placeholders, Show(p, v)
  PROVE  IInv'
<1>1. schema' = schema /\ drag' = drag /\ item' = item /\ dialog' = dialog /\ moved' = moved
      /\ placeholder' = [placeholder EXCEPT ![p] = v]
  BY DEF Show
<1>2. PlaceInv'
  BY <1>1, SchemaSame DEF IInv, PlaceInv, Placeholders
<1>3. TreeInv'
  BY <1>1, SchemaSame DEF IInv
<1>4. DragInv'
  BY <1>1, SchemaSame DEF IInv, DragInv
<1>5. DialogInv'
  BY <1>1, SchemaSame DEF IInv, DialogInv
<1>6. QED
  BY <1>2, <1>3, <1>4, <1>5 DEF IInv

\* Hovering (Droppable.tsx).
LEMMA HoverInv ==
  ASSUME IInv, Rendering, NEW p \in Rendered, Hover(p)
  PROVE  IInv'
<1>1. /\ Size(schema, p) \in Nat /\ None \in Placeholders
      /\ \A n \in Nat : n <= Size(schema, p) => n \in Placeholders
      /\ \A over \in BOOLEAN : Size(schema, p) # 0 => LastSlot(p, over) \in Placeholders
  BY PlaceValues DEF IInv
<1>2. ASSUME NEW child \in 0 .. Size(schema, p) - 1, NEW half \in {"upper", "middle", "lower"},
             HoverChild(p, child, half)
      PROVE  IInv'
  <2> DEFINE hovered == IF half = "lower" THEN child + 1 ELSE child
  <2>1. hovered \in Nat /\ hovered <= Size(schema, p)
    BY <1>1
  <2>2. hovered \in Placeholders
    BY <1>1, <2>1
  <2>3. Show(p, None) \/ Show(p, hovered)
    BY <1>2 DEF HoverChild
  <2> HIDE DEF hovered
  <2>4. QED
    BY <1>1, <2>2, <2>3, ShowInv
<1>3. ASSUME HoverTop(p)
      PROVE  IInv'
  <2>1. Show(p, None) \/ Show(p, 0)
    BY <1>3 DEF HoverTop
  <2>2. 0 \in Placeholders
    BY <1>1
  <2>3. QED
    BY <1>1, <2>1, <2>2, ShowInv
<1>4. ASSUME HoverBottom(p)
      PROVE  IInv'
  <2>1. PICK over \in BOOLEAN :
          Show(p, None) \/ (Size(schema, p) # 0 /\ Show(p, LastSlot(p, over)))
    BY <1>4 DEF HoverBottom
  <2>2. QED
    BY <1>1, <2>1, ShowInv
<1>5. ASSUME HoverNothing(p)
      PROVE  IInv'
  BY <1>1, <1>5, ShowInv DEF HoverNothing
<1>6. QED
  BY <1>2, <1>3, <1>4, <1>5 DEF Hover

\* A drop into what is dragged.
LEMMA DropInsideInv ==
  ASSUME IInv, Rendering, NEW p \in Rendered, DropInside(p)
  PROVE  IInv'
<1>1. None \in Placeholders /\ Show(p, None)
  BY PlaceValues DEF IInv, DropInside
<1>2. QED
  BY <1>1, ShowInv

\* A drop of a menu entry: its item is new, and its place is one of the schema.
LEMMA DropNewInv ==
  ASSUME IInv, Rendering, NEW p \in Rendered, DropNew(p)
  PROVE  IInv'
<1>1. /\ schema' = schema /\ drag # None /\ drag.new # None /\ drag' = None /\ moved' = FALSE
      /\ item' = [op |-> "add", path |-> p, index |-> DropIndex(p),
                  node |-> Node(drag.new), list |-> schema[p].id]
      /\ dialog' \in {"loading", "open"}
      /\ placeholder' = [placeholder EXCEPT ![p] = None]
  BY DEF DropNew, Hovering
<1>2. drag.new \in Menu \ Ids(schema)
  BY <1>1 DEF IInv, DragInv, DragsChild, DragsNew
<1>3. PlaceInv'
  BY <1>1, SchemaSame DEF IInv, PlaceInv, Placeholders
<1>4. p \in DOMAIN schema /\ p \in Seq(Nat) /\ DropIndex(p) \in Nat
  BY RenderedLists, PlaceValues DEF IInv
<1>5. Adds'
  <2>1. /\ item'.op = "add" /\ item'.path = p /\ item'.index = DropIndex(p)
        /\ item'.node = Node(drag.new) /\ item'.list = schema[p].id
    BY <1>1
  <2>2. \E c \in Menu \ Ids(schema') : item'.node = Node(c)
    BY <1>1, <1>2, <2>1
  <2>3. QED
    BY <1>1, <1>4, <2>1, <2>2 DEF Adds
<1>6. DialogInv'
  BY <1>1, <1>5 DEF DialogInv
<1>7. TreeInv' /\ DragInv'
  BY <1>1, SchemaSame DEF IInv, DragInv
<1>8. QED
  BY <1>3, <1>6, <1>7 DEF IInv

\* Editing a component: the item is what is in the schema.
LEMMA EditInv ==
  ASSUME IInv, Rendering, NEW p \in Rendered, NEW i \in 0 .. Size(schema, p) - 1, onEdit(p, i)
  PROVE  IInv'
<1>1. /\ schema' = schema /\ drag' = drag /\ placeholder' = placeholder /\ moved' = FALSE
      /\ drag = None /\ dialog' = "open" /\ schema[Append(p, i)].id # Nameless
      /\ item' = [op |-> "edit", path |-> p, index |-> i,
                  node |-> Sub(schema, Append(p, i)), list |-> schema[p].id]
  BY DEF onEdit, Free
<1>2. Child(p, i)
  <2>1. i \in Nat /\ i < schema[p].size
    BY RenderedLists DEF IInv
  <2>2. QED
    BY <1>1, <2>1, RenderedLists DEF IInv
<1>3. Edits'
  <2>1. Child(p, i)'
    BY <1>1, <1>2, SchemaSame
  <2>2. /\ item'.op = "edit" /\ item'.path = p /\ item'.index = i
        /\ item'.node = Sub(schema, Append(p, i)) /\ item'.list = schema[p].id
    BY <1>1
  <2>3. Child(item.path, item.index)'
    BY <2>1, <2>2 DEF Child
  <2>4. QED
    BY <1>1, <2>2, <2>3 DEF Edits
<1>4. DialogInv'
  BY <1>1, <1>3 DEF DialogInv
<1>5. TreeInv' /\ PlaceInv' /\ DragInv'
  BY <1>1, SchemaSame DEF IInv, DragInv
<1>6. QED
  BY <1>4, <1>5 DEF IInv

\* A drag of a component of the schema.
LEMMA BeginDragInv ==
  ASSUME IInv, Rendering, NEW p \in Rendered, NEW i \in 0 .. Size(schema, p) - 1,
         BeginDrag(p, i)
  PROVE  IInv'
<1>1. /\ schema' = schema /\ item' = item /\ placeholder' = placeholder /\ moved' = moved
      /\ dialog' = dialog /\ dialog # "open" /\ schema[Append(p, i)].id # Nameless
      /\ drag' = [list |-> p, index |-> i, new |-> None]
  BY DEF BeginDrag, Free
<1>2. Child(p, i)
  <2>1. i \in Nat /\ i < schema[p].size
    BY RenderedLists DEF IInv
  <2>2. QED
    BY <1>1, <2>1, RenderedLists DEF IInv
<1>3. DragsChild'
  <2>1. Child(p, i)'
    BY <1>1, <1>2, SchemaSame
  <2>2. drag'.list = p /\ drag'.index = i /\ drag'.new = None
    BY <1>1
  <2>3. QED
    BY <2>1, <2>2 DEF DragsChild, Child
<1>4. DialogInv'
  <2>1. dialog # "closed" => Adds
    BY <1>1 DEF IInv, DialogInv, Edits
  <2>2. dialog' # "closed" => Adds'
    BY <1>1, <2>1, SchemaSame
  <2>3. QED
    BY <1>1, <2>2 DEF IInv, DialogInv
<1>5. TreeInv' /\ PlaceInv' /\ DragInv'
  BY <1>1, <1>3, SchemaSame DEF IInv, DragInv
<1>6. QED
  BY <1>4, <1>5 DEF IInv

\* A drag of a menu entry.
LEMMA BeginMenuDragInv ==
  ASSUME IInv, NEW c \in Menu, NEW i \in MenuIndex, BeginMenuDrag(c, i)
  PROVE  IInv'
<1>1. /\ schema' = schema /\ item' = item /\ placeholder' = placeholder /\ moved' = moved
      /\ dialog' = dialog /\ dialog # "open" /\ c \in Menu \ Ids(schema)
      /\ drag' = [list |-> None, index |-> i, new |-> c]
  BY DEF BeginMenuDrag, Free
<1>2. DragsNew'
  <2>1. drag'.list = None /\ drag'.index = i /\ drag'.new = c /\ i \in Nat
    BY <1>1, EditorAssumption
  <2>2. QED
    BY <1>1, <2>1 DEF DragsNew
<1>3. DialogInv'
  <2>1. dialog # "closed" => Adds
    BY <1>1 DEF IInv, DialogInv, Edits
  <2>2. dialog' # "closed" => Adds'
    BY <1>1, <2>1, SchemaSame
  <2>3. QED
    BY <1>1, <2>2 DEF IInv, DialogInv
<1>4. TreeInv' /\ PlaceInv' /\ DragInv'
  BY <1>1, <1>2, SchemaSame DEF IInv, DragInv
<1>5. QED
  BY <1>3, <1>4 DEF IInv

\* The end of a drag without a drop.
LEMMA EndDragInv ==
  ASSUME IInv, EndDrag
  PROVE  IInv'
<1>1. /\ schema' = schema /\ item' = item /\ placeholder' = placeholder /\ moved' = moved
      /\ dialog' = dialog /\ drag # None /\ drag' = None
  BY DEF EndDrag
<1>2. DialogInv'
  <2>1. dialog # "closed" => Adds
    BY <1>1 DEF IInv, DialogInv, Edits
  <2>2. dialog' # "closed" => Adds'
    BY <1>1, <2>1, SchemaSame
  <2>3. QED
    BY <1>1, <2>2 DEF IInv, DialogInv
<1>3. TreeInv' /\ PlaceInv' /\ DragInv'
  BY <1>1, SchemaSame DEF IInv, DragInv
<1>4. QED
  BY <1>2, <1>3 DEF IInv

\* The module of a new component is loaded: only then can the dialog open on an add.
LEMMA LoadedInv ==
  ASSUME IInv, Loaded
  PROVE  IInv'
<1>1. /\ schema' = schema /\ item' = item /\ placeholder' = placeholder /\ moved' = moved
      /\ drag' = drag /\ dialog = "loading" /\ dialog' = "open"
  BY DEF Loaded
<1>2. Adds'
  BY <1>1, SchemaSame DEF IInv, DialogInv, Edits
<1>3. DialogInv'
  BY <1>1, <1>2 DEF IInv, DialogInv
<1>4. TreeInv' /\ PlaceInv' /\ DragInv'
  BY <1>1, SchemaSame DEF IInv, DragInv
<1>5. QED
  BY <1>3, <1>4 DEF IInv

\* The settings closed without saving.
LEMMA CancelInv ==
  ASSUME IInv, Cancel
  PROVE  IInv'
<1>1. /\ schema' = schema /\ placeholder' = placeholder /\ drag' = drag /\ moved' = FALSE
      /\ item' = None /\ dialog' = "closed"
  BY DEF Cancel
<1>2. TreeInv' /\ PlaceInv' /\ DragInv'
  BY <1>1, SchemaSame DEF IInv, DragInv
<1>3. DialogInv'
  BY <1>1 DEF DialogInv
<1>4. QED
  BY <1>2, <1>3 DEF IInv

\* The lists that are rendered after a change have a placeholder each.
LEMMA RerenderPlaces ==
  ASSUME PlaceInv, NEW new, NEW target, Rerender(new, target)
  PROVE  schema' = new /\ PlaceInv'
<1>1. /\ schema' = new
      /\ placeholder' = [p \in Rendered' |->
                           IF p \in DOMAIN placeholder \ {target} THEN placeholder[p] ELSE None]
  BY DEF Rerender
<1>2. DOMAIN placeholder = Rendered /\ \A p \in Rendered : placeholder[p] \in Placeholders
  BY DEF PlaceInv
<1>3. None \in Placeholders /\ Placeholders' = Placeholders
  BY DEF Placeholders
<1>4. placeholder' \in [Rendered' -> Placeholders]
  BY <1>1, <1>2, <1>3
<1>5. QED
  BY <1>1, <1>3, <1>4 DEF PlaceInv

\* A drop that moves a component.
LEMMA DropMoveTree ==
  ASSUME IInv, Rendering, NEW p \in Rendered, DropMove(p),
         NEW c, c = schema[Append(drag.list, drag.index)].id
  PROVE  /\ TreeInv' /\ Ids(schema') = Ids(schema) /\ c \in Components
         /\ Others(schema', c) = Others(schema, c)
         /\ At(schema', schema[p].id, DropIndex(p), c)
<1> DEFINE from == drag.list  i == drag.index  k == DropIndex(p)
           new == Rearranged(from, i, p, k)
<1>1. /\ drag # None /\ drag.new = None /\ ~IntoItself(p) /\ Rerender(new, p)
  BY DEF DropMove, Hovering
<1>2. Child(from, i)
  BY <1>1, EditorAssumption DEF IInv, DragInv, DragsChild, DragsNew
<1>3. /\ from \in Rendered /\ i \in Nat /\ i < schema[from].size /\ c \in Components
  BY <1>2 DEF Child
<1>4. k \in Nat
  BY PlaceValues DEF IInv
<1>5. schema' = new
  BY <1>1, RerenderPlaces DEF IInv
<1>6. ~IsPrefix(Append(from, i), p)
  BY <1>1 DEF IntoItself
<1>7. /\ from \in DOMAIN schema /\ p \in DOMAIN schema
      /\ \A q \in DOMAIN schema : IsPrefix(q, from) => schema[q].id # Nameless
  BY <1>3, RenderedLists DEF IInv
<1>8. IsTree(schema) /\ EachOnce(schema) /\ Carries(schema) /\ schema[Root].id = None
  BY DEF IInv, TreeInv
<1>9. c = schema[Append(from, i)].id
  OBVIOUS
<1> HIDE DEF from, i, k, new
<1>10. Placed(schema, from, i, p, k, new)
  BY <1>3, <1>4, <1>6, <1>7, <1>8, RearrangedIsPlaced DEF new
<1>11. /\ IsTree(new) /\ new[Root].id = schema[Root].id /\ EachOnce(new)
       /\ Ids(new) = Ids(schema)
       /\ Others(new, c) = Others(schema, c) /\ At(new, schema[p].id, k, c)
  BY <1>3, <1>4, <1>7, <1>8, <1>9, <1>10, PlacedTree
<1>12. Carries(new)
  BY <1>3, <1>4, <1>7, <1>8, <1>9, <1>10, PlacedCarries
<1>13. TreeInv'
  BY <1>5, <1>8, <1>11, <1>12 DEF TreeInv
<1>14. QED
  BY <1>3, <1>5, <1>11, <1>13 DEF k

\* A drop of a component: the item to add, if there is one, is still new.
LEMMA DropMoveInv ==
  ASSUME IInv, Rendering, NEW p \in Rendered, DropMove(p)
  PROVE  IInv'
<1> DEFINE c == schema[Append(drag.list, drag.index)].id
<1>1. /\ drag' = None /\ item' = item /\ dialog' = dialog /\ dialog # "open"
      /\ moved' = (moved \/ dialog = "loading")
  BY DEF DropMove, Hovering
<1>2. TreeInv' /\ Ids(schema') = Ids(schema)
  BY DropMoveTree
<1>3. PlaceInv'
  BY RerenderPlaces DEF DropMove, IInv
<1>4. DialogInv'
  <2>1. CASE dialog = "closed"
    BY <1>1, <2>1 DEF IInv, DialogInv
  <2>2. CASE dialog = "loading"
    <3>1. Adds
      BY <2>2 DEF IInv, DialogInv, Edits
    <3>2. moved' = TRUE
      BY <1>1, <2>2
    <3>3. Adds'
      BY <1>1, <1>2, <3>1, <3>2 DEF Adds
    <3>4. QED
      BY <1>1, <2>2, <3>2, <3>3 DEF DialogInv
  <2>3. QED
    BY <1>1, <2>1, <2>2 DEF IInv, DialogInv
<1>5. DragInv'
  BY <1>1 DEF DragInv
<1>6. QED
  BY <1>2, <1>3, <1>4, <1>5 DEF IInv

\* Deleting a component closes the settings.
LEMMA DeleteInv ==
  ASSUME IInv, Rendering, NEW p \in Rendered, NEW i \in 0 .. Size(schema, p) - 1, onDelete(p, i)
  PROVE  IInv'
<1> DEFINE new == Take(schema, p, i)
<1>1. /\ drag = None /\ drag' = drag /\ item' = None /\ dialog' = "closed" /\ moved' = FALSE
      /\ Rerender(SetAt(schema, p, Without(ListAt(schema, p), i)), None)
  BY DEF onDelete, Free
<1>2. /\ p \in DOMAIN schema /\ i \in Nat /\ i < schema[p].size
      /\ \A q \in DOMAIN schema : IsPrefix(q, p) => schema[q].id # Nameless
  BY RenderedLists DEF IInv
<1>3. IsTree(schema) /\ EachOnce(schema) /\ Carries(schema) /\ schema[Root].id = None
  BY DEF IInv, TreeInv
<1>4. schema' = new /\ PlaceInv'
  <2>1. SetAt(schema, p, Without(ListAt(schema, p), i)) = new
    BY <1>2, <1>3, SetAtSame DEF Take
  <2>2. QED
    BY <1>1, <2>1, RerenderPlaces DEF IInv
<1>5. IsTree(new) /\ new[Root].id = schema[Root].id /\ EachOnce(new)
  BY <1>2, <1>3, TakeTree
<1>6. Carries(new)
  BY <1>2, <1>3, TakeCarries
<1> HIDE DEF new
<1>7. TreeInv'
  BY <1>3, <1>4, <1>5, <1>6 DEF TreeInv
<1>8. DragInv' /\ DialogInv'
  BY <1>1 DEF DragInv, DialogInv
<1>9. QED
  BY <1>4, <1>7, <1>8 DEF IInv

\* What the settings of a new component, and of one that is edited, make of the schema.
LEMMA ConfirmAdds ==
  ASSUME TreeInv, Adds
  PROVE  \E c \in Menu \ Ids(schema) :
           /\ item.node = Node(c)
           /\ Updated(item) = Put(Reach(schema, item.path), item.path, item.index, Node(c))
<1>1. PICK c \in Menu \ Ids(schema) : item.node = Node(c)
  BY DEF Adds
<1>2. item.op = "add" /\ item.path \in Seq(Nat)
  BY DEF Adds
<1> DEFINE path == item.path  index == item.index  list == ListAt(schema, path)
<1>3. Updated(item) = SetAt(schema, path, Including(list, index, Node(c)))
  BY <1>1, <1>2 DEF Updated, Including
<1>4. ListAt(Reach(schema, path), path) = list
  BY <1>2, ReachList DEF TreeInv
<1>5. Updated(item) = Put(Reach(schema, path), path, index, Node(c))
  BY <1>3, <1>4 DEF SetAt, Put
<1>6. QED
  BY <1>1, <1>5

\* Saving an edited component puts it back where it is.
LEMMA ConfirmEdits ==
  ASSUME TreeInv, Edits
  PROVE  Updated(item) = schema
<1> DEFINE p == item.path  i == item.index  list == ListAt(schema, p)
<1>1. item.op = "edit" /\ Child(p, i) /\ item.node = Sub(schema, Append(p, i))
  BY DEF Edits
<1>2. p \in DOMAIN schema /\ i \in Nat /\ i < schema[p].size
  BY <1>1 DEF Child, Rendered
<1>3. p \in Seq(Nat) /\ IsTree(schema) /\ Size(schema, p) = schema[p].size
  BY <1>2, SchemaTyped
<1>4. list \in Seq(Branches) /\ Len(list) = schema[p].size /\ list[i + 1] = Sub(schema, Append(p, i))
  BY <1>2, <1>3, ListAtElements
<1>5. Updated(item) = SetAt(schema, p, Slice(list, 0, i) \o <<list[i + 1]>>
                                         \o Slice(list, i + 1, Len(list)))
  BY <1>1, <1>4 DEF Updated
<1> HIDE DEF list, i, p
<1>6. Slice(list, 0, i) \o <<list[i + 1]>> \o Slice(list, i + 1, Len(list)) = list
  BY <1>2, <1>4, ReplaceSame, ZenonT(60)
<1>7. Updated(item) = Graft(schema, p, list)
  BY <1>2, <1>3, <1>5, <1>6, SetAtSame
<1>8. IsGraft(schema, schema, p, list)
  BY <1>2, <1>3, GraftBack DEF list
<1>9. IsGraft(Graft(schema, p, list), schema, p, list)
  BY <1>2, <1>3, <1>4, GraftElements
<1>10. QED
  BY <1>3, <1>7, <1>8, <1>9, GraftUnique

\* Saving the settings, also on a path that leads nowhere by then.
LEMMA ConfirmInv ==
  ASSUME IInv, Confirm
  PROVE  IInv'
<1>1. /\ drag' = drag /\ item' = None /\ dialog' = "closed" /\ dialog = "open" /\ moved' = FALSE
      /\ drag = None /\ Rerender(Updated(item), None)
  BY DEF Confirm
<1>2. schema' = Updated(item) /\ PlaceInv'
  BY <1>1, RerenderPlaces DEF IInv
<1>3. TreeInv
  BY DEF IInv
<1>4. TreeInv'
  <2>1. CASE Edits
    <3>1. schema' = schema
      BY <1>2, <1>3, <2>1, ConfirmEdits
    <3>2. QED
      BY <1>3, <3>1, SchemaSame
  <2>2. CASE Adds
    <3>1. PICK c \in Menu \ Ids(schema) :
            Updated(item) = Put(Reach(schema, item.path), item.path, item.index, Node(c))
      BY <1>3, <2>2, ConfirmAdds
    <3> DEFINE p == item.path  k == item.index  r == Reach(schema, p)  t == Node(c)
               new == Put(r, p, k, t)
    <3>2. schema' = new
      BY <1>2, <3>1
    <3>3. p \in Seq(Nat) /\ k \in Nat /\ IsTree(schema) /\ EachOnce(schema) /\ Carries(schema)
          /\ schema[Root].id = None
      BY <1>3, <2>2 DEF Adds, TreeInv
    <3>4. c \in Components /\ c \notin Ids(schema) /\ c # Nameless /\ c # Hole
      <4>1. c \in Components
        BY EditorAssumption DEF Components
      <4>2. QED
        BY <4>1, EditorAssumption
    <3>5. /\ t \in Branches /\ t[Root].id = c /\ Ids(t) = {c} /\ EachOnce(t) /\ Carries(t)
      BY <3>4, NodeTree
    <3> HIDE DEF p, k, t
    <3>6. /\ IsTree(r) /\ p \in DOMAIN r /\ r[Root].id = schema[Root].id
          /\ Ids(r) \subseteq Ids(schema) \cup {Nameless, Hole}
          /\ EachOnce(r) /\ CarriesApart(r, p)
      BY <3>3, ReachTree
    <3> HIDE DEF r
    <3>7. LET g == Put(r, p, k, t)
          IN  /\ IsTree(g) /\ g[Root].id = r[Root].id
              /\ IsGraft(g, r, p, Including(ListAt(r, p), k, t))
              /\ Including(ListAt(r, p), k, t) \in Seq(Branches)
              /\ Ids(g) = Ids(r) \cup Ids(t)
              /\ EachOnce(g) <=> /\ EachOnce(r) /\ EachOnce(t)
                                 /\ Ids(r) \cap Ids(t) \cap Components = {}
      BY <3>3, <3>5, <3>6, PutOnce
    <3>8. Ids(r) \cap Ids(t) \cap Components = {}
      BY <3>4, <3>5, <3>6
    <3>9. IsTree(new) /\ new[Root].id = None /\ EachOnce(new)
      BY <3>3, <3>5, <3>6, <3>7, <3>8
    <3>10. t[Root].id \in Components
      BY <3>4, <3>5
    <3>11. Carries(new)
      BY <3>3, <3>5, <3>6, <3>10, PutCarries
    <3> HIDE DEF new
    <3>12. QED
      BY <3>2, <3>9, <3>11 DEF TreeInv
  <2>3. QED
    BY <1>1, <2>1, <2>2 DEF IInv, DialogInv
<1>5. DragInv' /\ DialogInv'
  BY <1>1 DEF DragInv, DialogInv
<1>6. QED
  BY <1>2, <1>4, <1>5 DEF IInv

\* Every step keeps the invariant.
LEMMA StepInv ==
  ASSUME IInv, Next
  PROVE  IInv'
<1>1. Rendering
  BY DEF Next
<1>2. ASSUME NEW p \in Rendered, NEW i \in 0 .. Size(schema, p) - 1,
             BeginDrag(p, i) \/ onDelete(p, i) \/ onEdit(p, i)
      PROVE  IInv'
  BY <1>1, <1>2, BeginDragInv, DeleteInv, EditInv
<1>3. ASSUME NEW p \in Rendered, Hover(p) \/ DropInside(p) \/ DropMove(p) \/ DropNew(p)
      PROVE  IInv'
  BY <1>1, <1>3, HoverInv, DropInsideInv, DropMoveInv, DropNewInv
<1>4. ASSUME NEW c \in Menu, NEW i \in MenuIndex, BeginMenuDrag(c, i)
      PROVE  IInv'
  BY <1>4, BeginMenuDragInv
<1>5. ASSUME EndDrag \/ Loaded \/ Cancel \/ Confirm
      PROVE  IInv'
  BY <1>5, EndDragInv, LoadedInv, CancelInv, ConfirmInv
<1>6. QED
  BY <1>2, <1>3, <1>4, <1>5 DEF Next, EditorStep

\* So does stuttering.
LEMMA InvNext ==
  ASSUME IInv, [Next]_vars
  PROVE  IInv'
<1>1. CASE Next
  BY <1>1, StepInv
<1>2. CASE UNCHANGED vars
  <2>1. /\ schema' = schema /\ placeholder' = placeholder /\ drag' = drag /\ item' = item
        /\ dialog' = dialog /\ moved' = moved
    BY <1>2 DEF vars
  <2>2. TreeInv' /\ PlaceInv' /\ DragInv'
    BY <2>1, SchemaSame DEF IInv, DragInv
  <2>3. DialogInv'
    BY <2>1, SchemaSame DEF IInv, DialogInv
  <2>4. QED
    BY <2>2, <2>3 DEF IInv
<1>3. QED
  BY <1>1, <1>2

\* The inductive invariant holds in every state the editor reaches.
THEOREM Invariant == Spec => []IInv
<1>1. Init => IInv
  BY InvInit
<1>2. IInv /\ [Next]_vars => IInv'
  BY InvNext
<1>3. QED
  BY <1>1, <1>2, PTL DEF Spec

\* The item in the settings is a component of the program.
LEMMA ItemIsComponent ==
  ASSUME IInv, dialog # "closed"
  PROVE  item.op \in {"add", "edit"} /\ item.node[Root].id \in Components
<1>1. CASE Adds
  <2>1. PICK c \in Menu \ Ids(schema) : item.node = Node(c)
    BY <1>1 DEF Adds
  <2>2. c \in Components
    BY EditorAssumption DEF Components
  <2>3. QED
    BY <1>1, <2>1, <2>2, NodeTree DEF Adds
<1>2. CASE Edits
  <2> DEFINE p == item.path  i == item.index
  <2>1. item.op = "edit" /\ Child(p, i) /\ item.node = Sub(schema, Append(p, i))
    BY <1>2 DEF Edits
  <2>2. /\ p \in DOMAIN schema /\ i \in Nat /\ i < schema[p].size
        /\ schema[Append(p, i)].id \in Components /\ IsTree(schema)
    BY <2>1 DEF Child, Rendered, IInv, TreeInv
  <2> HIDE DEF p, i
  <2>3. Sub(schema, Append(p, i))[Root].id = schema[Append(p, i)].id
    BY <2>2, TakePut
  <2>4. QED
    BY <2>1, <2>2, <2>3
<1>3. QED
  BY <1>1, <1>2 DEF IInv, DialogInv

\* The schema stays a tree in which every component has one place, whatever is dragged,
\* deleted, added or edited, and although paths are resolved in a later schema
\* (UserInterface.tsx:22-30, Droppable.tsx:36).
THEOREM TypeCorrect == Spec => []TypeOK
<1>1. IInv => TypeOK
  <2> SUFFICES ASSUME IInv
               PROVE  TypeOK
    OBVIOUS
  <2>1. IsTree(schema) /\ schema[Root].id = None /\ EachOnce(schema)
    BY DEF IInv, TreeInv
  <2>2. placeholder \in [Rendered -> (0 .. Cardinality(Components)) \cup {None}]
    BY DEF IInv, PlaceInv, Placeholders
  <2>3. drag # None => /\ drag.list \in Rendered \cup {None} /\ drag.index \in Nat
                       /\ drag.new \in Menu \cup {None}
    BY DEF IInv, DragInv, DragsChild, DragsNew, Child
  <2>4. /\ dialog \in {"closed", "loading", "open"} /\ moved \in BOOLEAN
        /\ dialog = "closed" => item = None
    BY DEF IInv, DialogInv
  <2>5. dialog # "closed" => item.op \in {"add", "edit"} /\ item.node[Root].id \in Components
    BY ItemIsComponent
  <2>6. QED
    BY <2>1, <2>2, <2>3, <2>4, <2>5 DEF TypeOK
<1>2. QED
  BY Invariant, <1>1, PTL

\* A drop moves one component, with all it contains, to where it was dropped, and every
\* other one keeps its list and its order (UserInterface.tsx:32-46,
\* handleDropHelper.ts:24-180).
THEOREM DropsMoveOne == Spec => DropMovesOne
<1> DEFINE Moves == drag # None /\ drag' = None =>
              \A p \in Rendered : DropMove(p) =>
                LET c == schema[Append(drag.list, drag.index)].id
                IN  /\ Others(schema', c) = Others(schema, c)
                    /\ At(schema', schema[p].id, DropIndex(p), c)
<1>1. IInv /\ [Next]_vars => [Moves]_vars
  <2> SUFFICES ASSUME IInv, Next
               PROVE  Moves
    OBVIOUS
  <2>1. Rendering
    BY DEF Next
  <2>2. ASSUME NEW p \in Rendered, DropMove(p)
        PROVE  LET c == schema[Append(drag.list, drag.index)].id
               IN  /\ Others(schema', c) = Others(schema, c)
                   /\ At(schema', schema[p].id, DropIndex(p), c)
    BY <2>1, <2>2, DropMoveTree
  <2>3. QED
    BY <2>2
<1>2. QED
  BY Invariant, <1>1, PTL DEF Spec, DropMovesOne

\* Saving the settings: one component more, or the same schema.
LEMMA SavedInPlace ==
  ASSUME IInv, Confirm, ~moved, NEW c, c = item.node[Root].id
  PROVE  /\ Others(schema', c) = Others(schema, c) \cup
              (IF item.op = "add" THEN {[owner |-> c, ids |-> <<>>]} ELSE {})
         /\ At(schema', item.list, item.index, c)
<1>1. dialog = "open" /\ Rerender(Updated(item), None)
  BY DEF Confirm
<1>2. schema' = Updated(item) /\ TreeInv
  BY <1>1, RerenderPlaces DEF IInv
<1>3. IsTree(schema) /\ EachOnce(schema)
  BY <1>2 DEF TreeInv
<1>4. CASE Adds
  <2>1. PICK m \in Menu \ Ids(schema) :
          /\ item.node = Node(m)
          /\ Updated(item) = Put(Reach(schema, item.path), item.path, item.index, Node(m))
    BY <1>2, <1>4, ConfirmAdds
  <2> DEFINE p == item.path  k == item.index  t == Node(m)
  <2>2. item.op = "add" /\ p \in DOMAIN schema /\ k \in Nat /\ schema[p].id = item.list
    BY <1>4 DEF Adds
  <2>3. m \in Components
    BY EditorAssumption DEF Components
  <2>4. /\ t \in Branches /\ t[Root].id = m /\ Ids(t) = {m} /\ DOMAIN t = {Root}
        /\ Shape(t) = {[owner |-> m, ids |-> <<>>]}
    BY <2>3, NodeTree
  <2>5. c = m
    BY <2>1, <2>4
  <2> HIDE DEF t, p, k
  <2>6. schema' = Put(schema, p, k, t)
    <3>1. Reach(schema, p) = schema
      BY <1>3, <2>2, ReachSame
    <3>2. QED
      BY <1>2, <2>1, <3>1 DEF p, k, t
  <2>7. /\ Others(Put(schema, p, k, t), c) = Shape(schema) \cup Shape(t)
        /\ At(Put(schema, p, k, t), schema[p].id, k, c)
    <3>1. c = t[Root].id /\ c \notin Ids(schema) /\ \A r \in DOMAIN t : t[r].id = c => r = Root
      BY <2>4, <2>5
    <3>2. QED
      BY <1>3, <2>2, <2>4, <3>1, PutOthers
  <2>8. Others(schema, c) = Shape(schema)
    <3>1. \A r \in DOMAIN schema : schema[r].id = c => r = Root
      BY <2>5 DEF Ids
    <3>2. \A s \in Shape(schema) : Strip(s, c) = s
      BY <1>3, <3>1, StripOthers
    <3>3. Others(schema, c) = {Strip(s, c) : s \in Shape(schema)}
      BY DEF Others, Strip
    <3>4. QED
      BY <3>2, <3>3
  <2>9. QED
    BY <2>2, <2>4, <2>5, <2>6, <2>7, <2>8 DEF k
<1>5. CASE Edits
  <2> DEFINE p == item.path  i == item.index
  <2>1. schema' = schema
    BY <1>2, <1>5, ConfirmEdits
  <2>2. /\ item.op = "edit" /\ Child(p, i) /\ item.node = Sub(schema, Append(p, i))
        /\ item.list = schema[p].id
    BY <1>5 DEF Edits
  <2>3. p \in DOMAIN schema /\ i \in Nat /\ i < schema[p].size
    BY <2>2 DEF Child, Rendered
  <2>4. c = schema[Append(p, i)].id
    <3>1. Sub(schema, Append(p, i))[Root].id = schema[Append(p, i)].id
      BY <1>3, <2>3, TakePut
    <3>2. QED
      BY <2>2, <3>1
  <2> HIDE DEF p, i
  <2>5. At(schema, schema[p].id, i, c)
    <3> DEFINE s == Row(schema, p)  ids == Names(schema, p)
    <3>1. ids \in Seq(Known) /\ Len(ids) = schema[p].size /\ schema[p].size \in Nat
      BY <1>3, <2>3, NamesElements DEF IsTree
    <3>2. i + 1 \in 1 .. schema[p].size /\ i + 1 - 1 = i
      BY <2>3, <3>1
    <3>3. ids[i + 1] = c
      <4>1. ids[i + 1] = schema[Append(p, i + 1 - 1)].id
        BY <1>3, <2>3, <3>2, NamesElements
      <4>2. QED
        BY <2>4, <3>2, <4>1
    <3>4. s \in Shape(schema)
      BY <2>3, ShapeDef
    <3>5. s.owner = schema[p].id /\ s.ids = ids
      BY DEF Row
    <3> HIDE DEF s, ids
    <3>6. ids # <<>> /\ i < Len(ids)
      <4>1. Len(ids) # 0 /\ i < Len(ids)
        BY <2>3, <3>1
      <4>2. QED
        BY <4>1
    <3>7. QED
      BY <3>3, <3>4, <3>5, <3>6 DEF At
  <2>6. QED
    BY <2>1, <2>2, <2>5 DEF p, i
<1>6. QED
  BY <1>1, <1>4, <1>5 DEF IInv, DialogInv

\* Saving the settings adds the component where it was dropped, or leaves the edited one where
\* it is, and changes nothing else, unless a drop has moved components while the new one's
\* module was loading (PersistedSettingsModal.tsx:31-45, 66-85).
THEOREM SavesStay == Spec => SavesInPlace
<1> DEFINE Saves == ~moved /\ item # None /\ item' = None /\ Confirm =>
              LET c == item.node[Root].id
              IN  /\ Others(schema', c) = Others(schema, c) \cup
                       (IF item.op = "add" THEN {[owner |-> c, ids |-> <<>>]} ELSE {})
                  /\ At(schema', item.list, item.index, c)
<1>1. IInv /\ [Next]_vars => [Saves]_vars
  <2> SUFFICES ASSUME IInv, Next, ~moved, Confirm
               PROVE  LET c == item.node[Root].id
                      IN  /\ Others(schema', c) = Others(schema, c) \cup
                               (IF item.op = "add" THEN {[owner |-> c, ids |-> <<>>]} ELSE {})
                          /\ At(schema', item.list, item.index, c)
    OBVIOUS
  <2>1. QED
    BY SavedInPlace
<1>2. QED
  BY Invariant, <1>1, PTL DEF Spec, SavesInPlace
=============================================================================
