----------------------------- MODULE ListProofs -----------------------------
(***************************************************************************)
(* For any nodes and any lists: the pointers of LIST, SLIST and QLIST      *)
(* always spell out what the callers put in and took out.                  *)
(***************************************************************************)
EXTENDS List, SequenceTheorems, TLAPS

\* No node stands in two places.
Apart ==
  \A l, m \in Handle :
    \A i \in 1 .. Len(content[l]), j \in 1 .. Len(content[m]) :
      content[l][i] = content[m][j] => l = m /\ i = j

IInv == TypeOK /\ Apart /\ ForwardLinks /\ BackwardLinks /\ TailIsLast

-----------------------------------------------------------------------------
(* Sequences with one element more or less.                                *)

\* The length and the elements of SubSeq.
LEMMA SubSeqParts ==
  ASSUME NEW S, NEW s \in Seq(S), NEW m \in 1 .. Len(s) + 1, NEW i \in m - 1 .. Len(s)
  PROVE  /\ SubSeq(s, m, i) \in Seq(S)
         /\ Len(SubSeq(s, m, i)) = i - m + 1
         /\ \A j \in 1 .. i - m + 1 : SubSeq(s, m, i)[j] = s[m + j - 1]
<1>1. Len(s) \in Nat /\ m \in Int /\ i \in Int /\ m >= 1 /\ i <= Len(s) /\ i >= m - 1
  OBVIOUS
<1>2. \A j \in m .. i : j \in 1 .. Len(s)
  BY <1>1
<1>3. \A j \in m .. i : s[j] \in S
  BY <1>2
<1>4. /\ SubSeq(s, m, i) \in Seq(S)
      /\ Len(SubSeq(s, m, i)) = (IF m <= i THEN i - m + 1 ELSE 0)
      /\ \A j \in 1 .. i - m + 1 : SubSeq(s, m, i)[j] = s[m + j - 1]
  BY <1>1, <1>3, SubSeqProperties
<1> QED
  BY <1>1, <1>4

\* The length and the elements of a concatenation.
LEMMA ConcatParts ==
  ASSUME NEW S, NEW u \in Seq(S), NEW v \in Seq(S), NEW w, w = u \o v
  PROVE  /\ w \in Seq(S)
         /\ Len(w) = Len(u) + Len(v)
         /\ \A j \in 1 .. Len(u) : w[j] = u[j]
         /\ \A j \in 1 .. Len(v) : w[Len(u) + j] = v[j]
<1>1. Len(u) \in Nat /\ Len(v) \in Nat
  OBVIOUS
<1>2. /\ u \o v \in Seq(S) /\ Len(u \o v) = Len(u) + Len(v)
      /\ \A i \in 1 .. Len(u) + Len(v) :
           (u \o v)[i] = IF i <= Len(u) THEN u[i] ELSE v[i - Len(u)]
  BY ConcatProperties
<1>3. /\ w \in Seq(S) /\ Len(w) = Len(u) + Len(v)
      /\ \A i \in 1 .. Len(u) + Len(v) : w[i] = IF i <= Len(u) THEN u[i] ELSE v[i - Len(u)]
  BY <1>2
<1>4. \A j \in 1 .. Len(u) : w[j] = u[j]
  BY <1>1, <1>3
<1>5. \A j \in 1 .. Len(v) : w[Len(u) + j] = v[j]
  <2> SUFFICES ASSUME NEW j \in 1 .. Len(v) PROVE w[Len(u) + j] = v[j]
    OBVIOUS
  <2>1. Len(u) + j \in 1 .. Len(u) + Len(v) /\ ~(Len(u) + j <= Len(u))
        /\ Len(u) + j - Len(u) = j
    BY <1>1
  <2> QED
    BY <2>1, <1>3
<1> QED
  BY <1>3, <1>4, <1>5

\* What InsertAt does to a sequence.
LEMMA SeqInsert ==
  ASSUME NEW S, NEW s \in Seq(S), NEW x \in S, NEW k \in 1 .. Len(s) + 1,
         NEW t, t = InsertAt(s, k, x)
  PROVE  /\ t \in Seq(S)
         /\ Len(t) = Len(s) + 1
         /\ \A j \in 1 .. k - 1 : t[j] = s[j]
         /\ t[k] = x
         /\ \A j \in k .. Len(s) : t[j + 1] = s[j]
<1> DEFINE a == SubSeq(s, 1, k - 1)
           b == a \o <<x>>
           c == SubSeq(s, k, Len(s))
           d == b \o c
<1>1. Len(s) \in Nat /\ k \in Int /\ 1 <= k /\ k <= Len(s) + 1
  OBVIOUS
<1>2. 1 \in 1 .. Len(s) + 1 /\ k - 1 \in 1 - 1 .. Len(s) /\ Len(s) \in k - 1 .. Len(s)
  BY <1>1
<1>3. /\ a \in Seq(S) /\ Len(a) = k - 1 - 1 + 1
      /\ \A j \in 1 .. k - 1 - 1 + 1 : a[j] = s[1 + j - 1]
  BY <1>2, SubSeqParts
<1>4. /\ c \in Seq(S) /\ Len(c) = Len(s) - k + 1
      /\ \A j \in 1 .. Len(s) - k + 1 : c[j] = s[k + j - 1]
  BY <1>2, SubSeqParts
<1>5. <<x>> \in Seq(S) /\ Len(<<x>>) = 1 /\ <<x>>[1] = x
  OBVIOUS
<1> HIDE DEF a, c
<1>6. /\ b \in Seq(S) /\ Len(b) = Len(a) + Len(<<x>>)
      /\ \A j \in 1 .. Len(a) : b[j] = a[j]
      /\ \A j \in 1 .. Len(<<x>>) : b[Len(a) + j] = <<x>>[j]
  BY <1>3, <1>5, ConcatParts
<1> HIDE DEF b
<1>7. /\ d \in Seq(S) /\ Len(d) = Len(b) + Len(c)
      /\ \A j \in 1 .. Len(b) : d[j] = b[j]
      /\ \A j \in 1 .. Len(c) : d[Len(b) + j] = c[j]
  <2>1. b \in Seq(S) /\ c \in Seq(S)
    BY <1>4, <1>6
  <2> QED
    BY <2>1, ConcatParts
<1> HIDE DEF d
<1>8. Len(a) = k - 1 /\ Len(b) = k /\ Len(c) = Len(s) - k + 1
  BY <1>1, <1>3, <1>4, <1>5, <1>6
<1>9. \A j \in 1 .. k - 1 : d[j] = s[j]
  <2> SUFFICES ASSUME NEW j \in 1 .. k - 1 PROVE d[j] = s[j]
    OBVIOUS
  <2>1. j \in 1 .. Len(a) /\ j \in 1 .. Len(b) /\ j \in 1 .. k - 1 - 1 + 1 /\ 1 + j - 1 = j
    BY <1>1, <1>8
  <2> QED
    BY <2>1, <1>3, <1>6, <1>7
<1>10. d[k] = x
  <2>1. k \in 1 .. Len(b) /\ 1 \in 1 .. Len(<<x>>) /\ Len(a) + 1 = k
    BY <1>1, <1>5, <1>8
  <2>2. b[Len(a) + 1] = x
    BY <2>1, <1>5, <1>6
  <2> QED
    BY <2>1, <2>2, <1>7
<1>11. \A j \in k .. Len(s) : d[j + 1] = s[j]
  <2> SUFFICES ASSUME NEW j \in k .. Len(s) PROVE d[j + 1] = s[j]
    OBVIOUS
  <2>1. /\ j - k + 1 \in 1 .. Len(c) /\ j - k + 1 \in 1 .. Len(s) - k + 1
        /\ Len(b) + (j - k + 1) = j + 1 /\ k + (j - k + 1) - 1 = j
    BY <1>1, <1>8
  <2>2. c[j - k + 1] = s[j]
    BY <2>1, <1>4
  <2>3. d[Len(b) + (j - k + 1)] = c[j - k + 1]
    <3>1. \A i \in 1 .. Len(c) : d[Len(b) + i] = c[i]
      BY <1>7
    <3> QED
      BY <3>1, <2>1
  <2>4. d[j + 1] = c[j - k + 1]
    BY <2>1, <2>3
  <2> QED
    BY <2>2, <2>4
<1>12. Len(d) = Len(s) + 1
  BY <1>1, <1>7, <1>8
<1>13. t = d
  BY DEF InsertAt, a, b, c, d
<1> QED
  BY <1>13, <1>7, <1>9, <1>10, <1>11, <1>12

\* What RemoveAt does to a sequence.
LEMMA SeqRemove ==
  ASSUME NEW S, NEW s \in Seq(S), NEW k \in 1 .. Len(s),
         NEW t, t = RemoveAt(s, k)
  PROVE  /\ t \in Seq(S)
         /\ Len(t) = Len(s) - 1
         /\ \A j \in 1 .. k - 1 : t[j] = s[j]
         /\ \A j \in k .. Len(s) - 1 : t[j] = s[j + 1]
<1> DEFINE a == SubSeq(s, 1, k - 1)
           c == SubSeq(s, k + 1, Len(s))
           d == a \o c
<1>1. Len(s) \in Nat /\ k \in Int /\ 1 <= k /\ k <= Len(s)
  OBVIOUS
<1>2. /\ 1 \in 1 .. Len(s) + 1 /\ k - 1 \in 1 - 1 .. Len(s)
      /\ k + 1 \in 1 .. Len(s) + 1 /\ Len(s) \in k + 1 - 1 .. Len(s)
  BY <1>1
<1>3. /\ a \in Seq(S) /\ Len(a) = k - 1 - 1 + 1
      /\ \A j \in 1 .. k - 1 - 1 + 1 : a[j] = s[1 + j - 1]
  BY <1>2, SubSeqParts
<1>4. /\ c \in Seq(S) /\ Len(c) = Len(s) - (k + 1) + 1
      /\ \A j \in 1 .. Len(s) - (k + 1) + 1 : c[j] = s[k + 1 + j - 1]
  BY <1>2, SubSeqParts
<1> HIDE DEF a, c
<1>5. /\ d \in Seq(S) /\ Len(d) = Len(a) + Len(c)
      /\ \A j \in 1 .. Len(a) : d[j] = a[j]
      /\ \A j \in 1 .. Len(c) : d[Len(a) + j] = c[j]
  <2>1. a \in Seq(S) /\ c \in Seq(S)
    BY <1>3, <1>4
  <2> QED
    BY <2>1, ConcatParts
<1> HIDE DEF d
<1>6. Len(a) = k - 1 /\ Len(c) = Len(s) - k
  BY <1>1, <1>3, <1>4
<1>7. \A j \in 1 .. k - 1 : d[j] = s[j]
  <2> SUFFICES ASSUME NEW j \in 1 .. k - 1 PROVE d[j] = s[j]
    OBVIOUS
  <2>1. j \in 1 .. Len(a) /\ j \in 1 .. k - 1 - 1 + 1 /\ 1 + j - 1 = j
    BY <1>1, <1>6
  <2> QED
    BY <2>1, <1>3, <1>5
<1>8. \A j \in k .. Len(s) - 1 : d[j] = s[j + 1]
  <2> SUFFICES ASSUME NEW j \in k .. Len(s) - 1 PROVE d[j] = s[j + 1]
    OBVIOUS
  <2>1. /\ j - k + 1 \in 1 .. Len(c) /\ j - k + 1 \in 1 .. Len(s) - (k + 1) + 1
        /\ Len(a) + (j - k + 1) = j /\ k + 1 + (j - k + 1) - 1 = j + 1
    BY <1>1, <1>6
  <2>2. c[j - k + 1] = s[j + 1]
    BY <2>1, <1>4
  <2>3. d[Len(a) + (j - k + 1)] = c[j - k + 1]
    <3>1. \A i \in 1 .. Len(c) : d[Len(a) + i] = c[i]
      BY <1>5
    <3> QED
      BY <3>1, <2>1
  <2>4. d[j] = c[j - k + 1]
    BY <2>1, <2>3
  <2> QED
    BY <2>2, <2>4
<1>9. Len(d) = Len(s) - 1
  BY <1>1, <1>5, <1>6
<1>13. t = d
  BY DEF RemoveAt, a, c, d
<1> QED
  BY <1>13, <1>5, <1>7, <1>8, <1>9

-----------------------------------------------------------------------------
(* The places of the lists, before and after a change of the content.      *)

\* The places of a list are cells; the first and the last are the sentinel.
LEMMA CellAtType ==
  ASSUME TypeOK, NEW l \in Handle
  PROVE  /\ content[l] \in Seq(Node) /\ Len(content[l]) \in Nat
         /\ \A i \in 1 .. Len(content[l]) : content[l][i] \in Node
         /\ \A i \in Nat : CellAt(l, i) \in Cell
         /\ CellAt(l, 0) = l /\ CellAt(l, Len(content[l]) + 1) = l
<1>1. content[l] \in Seq(Node)
  BY DEF TypeOK
<1>2. Len(content[l]) \in Nat /\ \A i \in 1 .. Len(content[l]) : content[l][i] \in Node
  BY <1>1
<1>3. \A i \in Nat : CellAt(l, i) \in Cell
  BY <1>2 DEF CellAt, Cell
<1>4. CellAt(l, 0) = l /\ CellAt(l, Len(content[l]) + 1) = l
  BY <1>2 DEF CellAt
<1> QED
  BY <1>1, <1>2, <1>3, <1>4

\* A cell stands in one place, whether the sentinel counts as the place before
\* the first node or as the one behind the last.
LEMMA CellsApart ==
  ASSUME TypeOK, Apart, NEW l \in Handle, NEW m \in Handle
  PROVE  /\ \A i \in 0 .. Len(content[l]), j \in 0 .. Len(content[m]) :
              CellAt(l, i) = CellAt(m, j) => l = m /\ i = j
         /\ \A i \in 1 .. Len(content[l]) + 1, j \in 1 .. Len(content[m]) + 1 :
              CellAt(l, i) = CellAt(m, j) => l = m /\ i = j
<1>1. /\ Len(content[l]) \in Nat /\ Len(content[m]) \in Nat
      /\ \A i \in 1 .. Len(content[l]) : content[l][i] \in Node
      /\ \A i \in 1 .. Len(content[m]) : content[m][i] \in Node
  BY CellAtType
<1>2. \A x \in Node : x # l /\ x # m
  BY ListAssumption
<1>3. \A i \in 1 .. Len(content[l]), j \in 1 .. Len(content[m]) :
        content[l][i] = content[m][j] => l = m /\ i = j
  BY DEF Apart
<1>4. ASSUME NEW i \in Nat, NEW j \in Nat, CellAt(l, i) = CellAt(m, j)
      PROVE  \/ i \in 1 .. Len(content[l]) /\ j \in 1 .. Len(content[m]) /\ l = m /\ i = j
             \/ i \notin 1 .. Len(content[l]) /\ j \notin 1 .. Len(content[m]) /\ l = m
  <2>1. CASE i \in 1 .. Len(content[l]) /\ j \in 1 .. Len(content[m])
    BY <2>1, <1>3, <1>4 DEF CellAt
  <2>2. CASE i \in 1 .. Len(content[l]) /\ j \notin 1 .. Len(content[m])
    BY <2>2, <1>1, <1>2, <1>4 DEF CellAt
  <2>3. CASE i \notin 1 .. Len(content[l]) /\ j \in 1 .. Len(content[m])
    BY <2>3, <1>1, <1>2, <1>4 DEF CellAt
  <2>4. CASE i \notin 1 .. Len(content[l]) /\ j \notin 1 .. Len(content[m])
    BY <2>4, <1>4 DEF CellAt
  <2> QED
    BY <2>1, <2>2, <2>3, <2>4
<1>5. ASSUME NEW i \in 0 .. Len(content[l]), NEW j \in 0 .. Len(content[m]),
             CellAt(l, i) = CellAt(m, j)
      PROVE  l = m /\ i = j
  BY <1>1, <1>4, <1>5
<1>6. ASSUME NEW i \in 1 .. Len(content[l]) + 1, NEW j \in 1 .. Len(content[m]) + 1,
             CellAt(l, i) = CellAt(m, j)
      PROVE  l = m /\ i = j
  BY <1>1, <1>4, <1>6
<1> QED
  BY <1>5, <1>6

\* A free node is no cell of any list.
LEMMA FreeNode ==
  ASSUME TypeOK, NEW x \in Node \ Used, NEW l \in Handle, NEW i \in Nat
  PROVE  CellAt(l, i) # x
BY ListAssumption DEF CellAt, Used

\* An insertion shifts the places behind it and keeps nodes apart.
LEMMA InsertContent ==
  ASSUME TypeOK, Apart, NEW l \in Handle, NEW k \in 1 .. Len(content[l]) + 1,
         NEW x \in Node \ Used, Inserted(l, k, x)
  PROVE  /\ content' \in [Handle -> Seq(Node)]
         /\ Len(content'[l]) = Len(content[l]) + 1
         /\ \A j \in 0 .. k - 1 : CellAt(l, j)' = CellAt(l, j)
         /\ CellAt(l, k)' = x
         /\ \A j \in k .. Len(content[l]) + 1 : CellAt(l, j + 1)' = CellAt(l, j)
         /\ \A m \in Handle : m # l => content'[m] = content[m]
         /\ Apart'
<1>1. /\ content[l] \in Seq(Node) /\ Len(content[l]) \in Nat /\ k \in Nat
      /\ 1 <= k /\ k <= Len(content[l]) + 1
  BY CellAtType
<1> DEFINE s == content[l]
           t == content'[l]
<1>2. /\ t \in Seq(Node) /\ Len(t) = Len(s) + 1
      /\ \A j \in 1 .. k - 1 : t[j] = s[j]
      /\ t[k] = x
      /\ \A j \in k .. Len(s) : t[j + 1] = s[j]
  <2>1. t = InsertAt(s, k, x)
    BY DEF Inserted, TypeOK
  <2> HIDE DEF s, t
  <2>2. s \in Seq(Node) /\ k \in 1 .. Len(s) + 1 /\ x \in Node
    BY <1>1 DEF s
  <2> QED
    BY <2>1, <2>2, SeqInsert
<1>3. \A m \in Handle : m # l => content'[m] = content[m]
  BY DEF Inserted, TypeOK
<1>4. content' \in [Handle -> Seq(Node)]
  <2>1. content' = [content EXCEPT ![l] = t]
    BY DEF Inserted, TypeOK
  <2> QED
    BY <1>2, <2>1 DEF TypeOK
<1> HIDE DEF s, t
<1>5. \A j \in 0 .. k - 1 : CellAt(l, j)' = CellAt(l, j)
  BY <1>1, <1>2 DEF CellAt, s, t
<1>6. CellAt(l, k)' = x
  BY <1>1, <1>2 DEF CellAt, s, t
<1>7. \A j \in k .. Len(content[l]) + 1 : CellAt(l, j + 1)' = CellAt(l, j)
  <2> SUFFICES ASSUME NEW j \in k .. Len(content[l]) + 1
               PROVE  CellAt(l, j + 1)' = CellAt(l, j)
    OBVIOUS
  <2>1. CASE j = Len(content[l]) + 1
    BY <2>1, <1>1, <1>2 DEF CellAt, s, t
  <2>2. CASE j \in k .. Len(content[l])
    <3>1. /\ j \in 1 .. Len(s) /\ j + 1 \in 1 .. Len(t) /\ t[j + 1] = s[j]
      BY <2>2, <1>1, <1>2 DEF s
    <3> QED
      BY <3>1 DEF CellAt, s, t
  <2> QED
    BY <2>1, <2>2, <1>1
<1>8. \A j \in 1 .. Len(t) : \/ j \in 1 .. k - 1 /\ j \in 1 .. Len(s) /\ t[j] = s[j]
                             \/ j = k /\ t[j] = x
                             \/ j > k /\ j - 1 \in 1 .. Len(s) /\ t[j] = s[j - 1]
  <2> SUFFICES ASSUME NEW j \in 1 .. Len(t)
               PROVE  \/ j \in 1 .. k - 1 /\ j \in 1 .. Len(s) /\ t[j] = s[j]
                      \/ j = k /\ t[j] = x
                      \/ j > k /\ j - 1 \in 1 .. Len(s) /\ t[j] = s[j - 1]
    OBVIOUS
  <2>1. CASE j < k
    BY <2>1, <1>1, <1>2 DEF s
  <2>2. CASE j = k
    BY <2>2, <1>2
  <2>3. CASE j > k
    <3>1. j - 1 \in k .. Len(s) /\ (j - 1) + 1 = j
      BY <2>3, <1>1, <1>2 DEF s
    <3>2. t[(j - 1) + 1] = s[j - 1]
      BY <3>1, <1>2
    <3> QED
      BY <2>3, <3>1, <3>2, <1>1
  <2> QED
    BY <2>1, <2>2, <2>3, <1>1, <1>2 DEF s
<1>9. Apart'
  <2>1. \A m \in Handle : \A i \in 1 .. Len(content[m]) : content[m][i] # x
    BY DEF Used
  <2>2. \A i, j \in 1 .. Len(s) : s[i] = s[j] => i = j
    BY DEF Apart, s
  <2>3. ASSUME NEW i \in 1 .. Len(t), NEW j \in 1 .. Len(t), t[i] = t[j]
        PROVE  i = j
    <3>1. \A h \in 1 .. Len(s) : s[h] # x
      BY <2>1 DEF s
    <3>2. i \in Int /\ j \in Int /\ k \in Int
      BY <1>1, <1>2
    <3>3. CASE i < k
      <4>1. i \in 1 .. Len(s) /\ t[i] = s[i]
        BY <3>2, <3>3, <1>8
      <4>2. \/ j \in 1 .. Len(s) /\ t[j] = s[j]
            \/ j > k /\ j - 1 \in 1 .. Len(s) /\ t[j] = s[j - 1]
        BY <4>1, <2>3, <3>1, <1>8
      <4>3. \/ i = j
            \/ j > k /\ i = j - 1
        BY <4>1, <4>2, <2>2, <2>3
      <4> QED
        BY <4>3, <3>2, <3>3
    <3>4. CASE i = k
      <4>1. t[j] = x
        BY <3>4, <1>2, <2>3
      <4> QED
        BY <4>1, <3>1, <3>4, <1>8
    <3>5. CASE i > k
      <4>1. i - 1 \in 1 .. Len(s) /\ t[i] = s[i - 1]
        BY <3>2, <3>5, <1>8
      <4>2. \/ j < k /\ j \in 1 .. Len(s) /\ t[j] = s[j]
            \/ j - 1 \in 1 .. Len(s) /\ t[j] = s[j - 1]
        <5>1. t[j] # x
          BY <4>1, <2>3, <3>1
        <5> QED
          BY <5>1, <1>8
      <4>3. \/ j < k /\ i - 1 = j
            \/ i - 1 = j - 1
        BY <4>1, <4>2, <2>2, <2>3
      <4> QED
        BY <4>3, <3>2, <3>5
    <3> QED
      BY <3>2, <3>3, <3>4, <3>5
  <2>4. ASSUME NEW m \in Handle, m # l, NEW i \in 1 .. Len(t), NEW j \in 1 .. Len(content[m]),
               t[i] = content[m][j]
        PROVE  FALSE
    <3>1. \A h \in 1 .. Len(s) : s[h] # content[m][j]
      BY <2>4 DEF Apart, s
    <3> QED
      BY <1>8, <2>1, <2>4, <3>1
  <2> SUFFICES ASSUME NEW l1 \in Handle, NEW l2 \in Handle,
                      NEW i \in 1 .. Len(content'[l1]), NEW j \in 1 .. Len(content'[l2]),
                      content'[l1][i] = content'[l2][j]
               PROVE  l1 = l2 /\ i = j
    BY DEF Apart
  <2>5. CASE l1 = l /\ l2 = l
    BY <2>5, <2>3 DEF t
  <2>6. CASE l1 = l /\ l2 # l
    BY <2>6, <2>4, <1>3 DEF t
  <2>7. CASE l1 # l /\ l2 = l
    BY <2>7, <2>4, <1>3 DEF t
  <2>8. CASE l1 # l /\ l2 # l
    BY <2>8, <1>3 DEF Apart
  <2> QED
    BY <2>5, <2>6, <2>7, <2>8
<1> QED
  BY <1>2, <1>3, <1>4, <1>5, <1>6, <1>7, <1>9 DEF s, t

\* A removal shifts the places behind it and keeps nodes apart.
LEMMA RemoveContent ==
  ASSUME TypeOK, Apart, NEW l \in Handle, NEW k \in 1 .. Len(content[l]), Removed(l, k)
  PROVE  /\ content' \in [Handle -> Seq(Node)]
         /\ Len(content'[l]) = Len(content[l]) - 1
         /\ \A j \in 0 .. k - 1 : CellAt(l, j)' = CellAt(l, j)
         /\ \A j \in k .. Len(content[l]) : CellAt(l, j)' = CellAt(l, j + 1)
         /\ \A m \in Handle : m # l => content'[m] = content[m]
         /\ Apart'
<1>1. /\ content[l] \in Seq(Node) /\ Len(content[l]) \in Nat /\ k \in Nat
      /\ 1 <= k /\ k <= Len(content[l])
  BY CellAtType
<1> DEFINE s == content[l]
           t == content'[l]
<1>2. /\ t \in Seq(Node) /\ Len(t) = Len(s) - 1
      /\ \A j \in 1 .. k - 1 : t[j] = s[j]
      /\ \A j \in k .. Len(s) - 1 : t[j] = s[j + 1]
  <2>1. t = RemoveAt(s, k)
    BY DEF Removed, TypeOK
  <2> HIDE DEF s, t
  <2>2. s \in Seq(Node) /\ k \in 1 .. Len(s)
    BY <1>1 DEF s
  <2> QED
    BY <2>1, <2>2, SeqRemove
<1>3. \A m \in Handle : m # l => content'[m] = content[m]
  BY DEF Removed, TypeOK
<1>4. content' \in [Handle -> Seq(Node)]
  <2>1. content' = [content EXCEPT ![l] = t]
    BY DEF Removed, TypeOK
  <2> QED
    BY <1>2, <2>1 DEF TypeOK
<1> HIDE DEF s, t
<1>5. \A j \in 0 .. k - 1 : CellAt(l, j)' = CellAt(l, j)
  BY <1>1, <1>2 DEF CellAt, s, t
<1>6. \A j \in k .. Len(content[l]) : CellAt(l, j)' = CellAt(l, j + 1)
  <2> SUFFICES ASSUME NEW j \in k .. Len(content[l])
               PROVE  CellAt(l, j)' = CellAt(l, j + 1)
    OBVIOUS
  <2>1. CASE j = Len(content[l])
    BY <2>1, <1>1, <1>2 DEF CellAt, s, t
  <2>2. CASE j \in k .. Len(content[l]) - 1
    <3>1. j + 1 \in 1 .. Len(s) /\ j \in 1 .. Len(t) /\ t[j] = s[j + 1]
      BY <2>2, <1>1, <1>2 DEF s
    <3> QED
      BY <3>1 DEF CellAt, s, t
  <2> QED
    BY <2>1, <2>2, <1>1
<1>7. \A j \in 1 .. Len(t) : \/ j < k /\ j \in 1 .. Len(s) /\ t[j] = s[j]
                             \/ j >= k /\ j + 1 \in 1 .. Len(s) /\ t[j] = s[j + 1]
  <2> SUFFICES ASSUME NEW j \in 1 .. Len(t)
               PROVE  \/ j < k /\ j \in 1 .. Len(s) /\ t[j] = s[j]
                      \/ j >= k /\ j + 1 \in 1 .. Len(s) /\ t[j] = s[j + 1]
    OBVIOUS
  <2>1. CASE j < k
    BY <2>1, <1>1, <1>2 DEF s
  <2>2. CASE j >= k
    BY <2>2, <1>1, <1>2 DEF s
  <2> QED
    BY <2>1, <2>2, <1>1, <1>2 DEF s
<1>8. Apart'
  <2>1. \A i, j \in 1 .. Len(s) : s[i] = s[j] => i = j
    BY DEF Apart, s
  <2>2. ASSUME NEW i \in 1 .. Len(t), NEW j \in 1 .. Len(t), t[i] = t[j]
        PROVE  i = j
    <3>1. i \in Int /\ j \in Int /\ k \in Int
      BY <1>1, <1>2
    <3>2. \/ i < k /\ i \in 1 .. Len(s) /\ t[i] = s[i]
          \/ i >= k /\ i + 1 \in 1 .. Len(s) /\ t[i] = s[i + 1]
      BY <1>7
    <3>3. \/ j < k /\ j \in 1 .. Len(s) /\ t[j] = s[j]
          \/ j >= k /\ j + 1 \in 1 .. Len(s) /\ t[j] = s[j + 1]
      BY <1>7
    <3>4. \/ i < k /\ j < k /\ i = j
          \/ i < k /\ j >= k /\ i = j + 1
          \/ i >= k /\ j < k /\ i + 1 = j
          \/ i >= k /\ j >= k /\ i + 1 = j + 1
      BY <2>1, <2>2, <3>2, <3>3
    <3> QED
      BY <3>1, <3>4
  <2>3. ASSUME NEW m \in Handle, m # l, NEW i \in 1 .. Len(t), NEW j \in 1 .. Len(content[m]),
               t[i] = content[m][j]
        PROVE  FALSE
    <3>1. \A h \in 1 .. Len(s) : s[h] # content[m][j]
      BY <2>3 DEF Apart, s
    <3> QED
      BY <1>7, <2>3, <3>1
  <2> SUFFICES ASSUME NEW l1 \in Handle, NEW l2 \in Handle,
                      NEW i \in 1 .. Len(content'[l1]), NEW j \in 1 .. Len(content'[l2]),
                      content'[l1][i] = content'[l2][j]
               PROVE  l1 = l2 /\ i = j
    BY DEF Apart
  <2>4. CASE l1 = l /\ l2 = l
    BY <2>4, <2>2 DEF t
  <2>5. CASE l1 = l /\ l2 # l
    BY <2>5, <2>3, <1>3 DEF t
  <2>6. CASE l1 # l /\ l2 = l
    BY <2>6, <2>3, <1>3 DEF t
  <2>7. CASE l1 # l /\ l2 # l
    BY <2>7, <1>3 DEF Apart
  <2> QED
    BY <2>4, <2>5, <2>6, <2>7
<1> QED
  BY <1>2, <1>3, <1>4, <1>5, <1>6, <1>8 DEF s, t

-----------------------------------------------------------------------------
(* What the pointers must become when a node enters or leaves a list.      *)

\* Only the pointers of the two cells may have changed.
Kept(f, g, c, d) == \A e \in Cell \ {c, d} : g[e] = f[e]

Typed ==
  /\ kind \in {"LIST", "SLIST", "QLIST"}
  /\ n \in [Cell -> Cell \cup {NULL}]
  /\ p \in [Cell -> Cell \cup {NULL}]
  /\ tail \in [Handle -> Cell]

LinkedIn(l, k, x) ==
  /\ kind' = kind /\ Typed'
  /\ n'[CellAt(l, k - 1)] = x /\ n'[x] = CellAt(l, k) /\ Kept(n, n', x, CellAt(l, k - 1))
  /\ kind = "LIST" =>
       p'[CellAt(l, k)] = x /\ p'[x] = CellAt(l, k - 1) /\ Kept(p, p', x, CellAt(l, k))
  /\ kind = "QLIST" =>
       tail' = IF k = Len(content[l]) + 1 THEN [tail EXCEPT ![l] = x] ELSE tail

LinkedOut(l, k) ==
  /\ kind' = kind /\ Typed'
  /\ n'[CellAt(l, k - 1)] = CellAt(l, k + 1)
  /\ Kept(n, n', CellAt(l, k), CellAt(l, k - 1))
  /\ kind = "LIST" => /\ p'[CellAt(l, k + 1)] = CellAt(l, k - 1)
                      /\ Kept(p, p', CellAt(l, k), CellAt(l, k + 1))
  /\ kind = "QLIST" =>
       tail' = IF k = Len(content[l]) THEN [tail EXCEPT ![l] = CellAt(l, k - 1)] ELSE tail

\* Pointers changed as LinkedIn says follow the new content.
LEMMA AfterInsert ==
  ASSUME IInv, NEW l \in Handle, NEW k \in 1 .. Len(content[l]) + 1,
         NEW x \in Node \ Used, Inserted(l, k, x), LinkedIn(l, k, x)
  PROVE  IInv'
<1> USE DEF IInv
<1>1. /\ content' \in [Handle -> Seq(Node)] /\ Len(content'[l]) = Len(content[l]) + 1
      /\ \A j \in 0 .. k - 1 : CellAt(l, j)' = CellAt(l, j)
      /\ CellAt(l, k)' = x
      /\ \A j \in k .. Len(content[l]) + 1 : CellAt(l, j + 1)' = CellAt(l, j)
      /\ \A m \in Handle : m # l => content'[m] = content[m]
      /\ Apart'
  BY InsertContent
<1>2. /\ \A m \in Handle : Len(content[m]) \in Nat
      /\ \A m \in Handle : \A i \in Nat : CellAt(m, i) \in Cell /\ CellAt(m, i) # x
  BY CellAtType, FreeNode
<1>3. k \in Nat /\ k - 1 \in 0 .. Len(content[l]) /\ k \in 1 .. Len(content[l]) + 1
      /\ k - 1 + 1 = k
  BY <1>2
<1>4. \A m \in Handle, i \in Nat : m # l => CellAt(m, i)' = CellAt(m, i)
  BY <1>1 DEF CellAt
<1>5. \A i \in 0 .. Len(content'[l]) :
        \/ i < k - 1 /\ i \in 0 .. Len(content[l])
           /\ CellAt(l, i)' = CellAt(l, i) /\ CellAt(l, i + 1)' = CellAt(l, i + 1)
        \/ i = k - 1 /\ CellAt(l, i)' = CellAt(l, k - 1) /\ CellAt(l, i + 1)' = x
        \/ i = k /\ CellAt(l, i)' = x /\ CellAt(l, i + 1)' = CellAt(l, k)
        \/ i > k /\ i - 1 \in 0 .. Len(content[l])
           /\ CellAt(l, i)' = CellAt(l, i - 1) /\ CellAt(l, i + 1)' = CellAt(l, i - 1 + 1)
  <2> SUFFICES ASSUME NEW i \in 0 .. Len(content[l]) + 1
               PROVE
        \/ i < k - 1 /\ i \in 0 .. Len(content[l])
           /\ CellAt(l, i)' = CellAt(l, i) /\ CellAt(l, i + 1)' = CellAt(l, i + 1)
        \/ i = k - 1 /\ CellAt(l, i)' = CellAt(l, k - 1) /\ CellAt(l, i + 1)' = x
        \/ i = k /\ CellAt(l, i)' = x /\ CellAt(l, i + 1)' = CellAt(l, k)
        \/ i > k /\ i - 1 \in 0 .. Len(content[l])
           /\ CellAt(l, i)' = CellAt(l, i - 1) /\ CellAt(l, i + 1)' = CellAt(l, i - 1 + 1)
    BY <1>1
  <2>1. CASE i < k - 1
    BY <2>1, <1>1, <1>2, <1>3
  <2>2. CASE i = k - 1
    BY <2>2, <1>1, <1>2, <1>3
  <2>3. CASE i = k
    BY <2>3, <1>1, <1>2, <1>3
  <2>4. CASE i > k
    <3>1. /\ i - 1 \in k .. Len(content[l]) + 1 /\ i \in k .. Len(content[l]) + 1
          /\ i - 1 + 1 = i /\ i - 1 \in 0 .. Len(content[l])
      BY <2>4, <1>2, <1>3
    <3>2. CellAt(l, i - 1 + 1)' = CellAt(l, i - 1) /\ CellAt(l, i + 1)' = CellAt(l, i)
      BY <3>1, <1>1
    <3> QED
      BY <2>4, <3>1, <3>2
  <2> QED
    BY <1>2, <1>3, <2>1, <2>2, <2>3, <2>4
<1>6. ForwardLinks'
  <2> SUFFICES ASSUME NEW m \in Handle, NEW i \in 0 .. Len(content'[m])
               PROVE  n'[CellAt(m, i)'] = CellAt(m, i + 1)'
    BY DEF ForwardLinks
  <2>1. ASSUME NEW h \in Handle, NEW j \in 0 .. Len(content[h]), h # l \/ j # k - 1
        PROVE  n'[CellAt(h, j)] = CellAt(h, j + 1)
    <3>1. CellAt(h, j) \in Cell /\ CellAt(h, j) # x
      BY <1>2
    <3>2. CellAt(h, j) # CellAt(l, k - 1)
      BY <1>3, <2>1, CellsApart
    <3> QED
      BY <3>1, <3>2 DEF ForwardLinks, LinkedIn, Kept
  <2>2. CASE m # l
    <3>1. i \in 0 .. Len(content[m]) /\ i \in Nat /\ i + 1 \in Nat
      BY <2>2, <1>1, <1>2
    <3> QED
      BY <2>1, <2>2, <3>1, <1>4
  <2>3. CASE m = l
    <3>1. n'[CellAt(l, k - 1)] = x /\ n'[x] = CellAt(l, k)
      BY DEF LinkedIn
    <3>2. CASE i < k - 1 /\ i \in 0 .. Len(content[l])
               /\ CellAt(l, i)' = CellAt(l, i) /\ CellAt(l, i + 1)' = CellAt(l, i + 1)
      <4>1. i # k - 1
        BY <1>3, <3>2
      <4> QED
        BY <2>1, <2>3, <3>2, <4>1
    <3>3. CASE i > k /\ i - 1 \in 0 .. Len(content[l])
           /\ CellAt(l, i)' = CellAt(l, i - 1) /\ CellAt(l, i + 1)' = CellAt(l, i - 1 + 1)
      <4>1. i - 1 # k - 1
        BY <1>3, <3>3
      <4>2. n'[CellAt(l, i - 1)] = CellAt(l, i - 1 + 1)
        BY <2>1, <3>3, <4>1
      <4> QED
        BY <2>3, <3>3, <4>2
    <3> QED
      BY <1>5, <2>3, <3>1, <3>2, <3>3
  <2> QED
    BY <2>2, <2>3
<1>7. BackwardLinks'
  <2> SUFFICES ASSUME kind = "LIST", NEW m \in Handle, NEW i \in 0 .. Len(content'[m])
               PROVE  p'[CellAt(m, i + 1)'] = CellAt(m, i)'
    BY DEF BackwardLinks, LinkedIn
  <2>1. ASSUME NEW h \in Handle, NEW j \in 0 .. Len(content[h]), h # l \/ j # k - 1
        PROVE  p'[CellAt(h, j + 1)] = CellAt(h, j)
    <3>1. j + 1 \in Nat /\ j + 1 \in 1 .. Len(content[h]) + 1 /\ (h # l \/ j + 1 # k)
      BY <1>2, <1>3, <2>1
    <3>2. CellAt(h, j + 1) \in Cell /\ CellAt(h, j + 1) # x
      BY <1>2, <3>1
    <3>3. CellAt(h, j + 1) # CellAt(l, k)
      BY <1>3, <3>1, CellsApart
    <3> QED
      BY <3>2, <3>3 DEF BackwardLinks, LinkedIn, Kept
  <2>2. CASE m # l
    <3>1. i \in 0 .. Len(content[m]) /\ i \in Nat /\ i + 1 \in Nat
      BY <2>2, <1>1, <1>2
    <3> QED
      BY <2>1, <2>2, <3>1, <1>4
  <2>3. CASE m = l
    <3>1. p'[CellAt(l, k)] = x /\ p'[x] = CellAt(l, k - 1)
      BY DEF LinkedIn
    <3>2. CASE i < k - 1 /\ i \in 0 .. Len(content[l])
               /\ CellAt(l, i)' = CellAt(l, i) /\ CellAt(l, i + 1)' = CellAt(l, i + 1)
      <4>1. i # k - 1
        BY <1>3, <3>2
      <4> QED
        BY <2>1, <2>3, <3>2, <4>1
    <3>3. CASE i > k /\ i - 1 \in 0 .. Len(content[l])
           /\ CellAt(l, i)' = CellAt(l, i - 1) /\ CellAt(l, i + 1)' = CellAt(l, i - 1 + 1)
      <4>1. i - 1 # k - 1
        BY <1>3, <3>3
      <4>2. p'[CellAt(l, i - 1 + 1)] = CellAt(l, i - 1)
        BY <2>1, <3>3, <4>1
      <4> QED
        BY <2>3, <3>3, <4>2
    <3> QED
      BY <1>5, <2>3, <3>1, <3>2, <3>3
  <2> QED
    BY <2>2, <2>3
<1>8. TailIsLast'
  <2> SUFFICES ASSUME kind = "QLIST", NEW m \in Handle
               PROVE  tail'[m] = CellAt(m, Len(content[m]))'
    BY DEF TailIsLast, LinkedIn
  <2>1. /\ tail \in [Handle -> Cell]
        /\ tail' = IF k = Len(content[l]) + 1 THEN [tail EXCEPT ![l] = x] ELSE tail
        /\ \A h \in Handle : tail[h] = CellAt(h, Len(content[h]))
    BY DEF TypeOK, LinkedIn, TailIsLast
  <2>2. CASE m # l
    BY <2>1, <2>2, <1>1, <1>2, <1>4
  <2>3. CASE m = l /\ k = Len(content[l]) + 1
    BY <2>1, <2>3, <1>1
  <2>4. CASE m = l /\ k # Len(content[l]) + 1
    <3>1. Len(content[l]) \in k .. Len(content[l]) + 1
      BY <2>4, <1>2, <1>3
    <3>2. PICK j \in k .. Len(content[l]) + 1 : j = Len(content[l])
      BY <3>1
    <3>3. Len(content'[l]) = j + 1 /\ CellAt(l, j + 1)' = CellAt(l, j)
      BY <3>2, <1>1
    <3>4. CellAt(l, Len(content[l]))' = CellAt(l, j)
      BY <3>3 DEF CellAt
    <3> QED
      BY <2>1, <2>4, <3>2, <3>4
  <2> QED
    BY <2>2, <2>3, <2>4
<1>9. TypeOK'
  BY <1>1 DEF TypeOK, LinkedIn, Typed
<1> QED
  BY <1>1, <1>6, <1>7, <1>8, <1>9

\* Pointers changed as LinkedOut says follow the new content.
LEMMA AfterRemove ==
  ASSUME IInv, NEW l \in Handle, NEW k \in 1 .. Len(content[l]),
         Removed(l, k), LinkedOut(l, k)
  PROVE  IInv'
<1> USE DEF IInv
<1>1. /\ content' \in [Handle -> Seq(Node)] /\ Len(content'[l]) = Len(content[l]) - 1
      /\ \A j \in 0 .. k - 1 : CellAt(l, j)' = CellAt(l, j)
      /\ \A j \in k .. Len(content[l]) : CellAt(l, j)' = CellAt(l, j + 1)
      /\ \A m \in Handle : m # l => content'[m] = content[m]
      /\ Apart'
  BY RemoveContent
<1>2. /\ \A m \in Handle : Len(content[m]) \in Nat
      /\ \A m \in Handle : \A i \in Nat : CellAt(m, i) \in Cell
  BY CellAtType
<1>3. k \in Nat /\ k >= 1 /\ k <= Len(content[l]) /\ k - 1 \in 0 .. Len(content[l])
  BY <1>2
<1>4. \A m \in Handle, i \in Nat : m # l => CellAt(m, i)' = CellAt(m, i)
  BY <1>1 DEF CellAt
<1>5. \A i \in 0 .. Len(content'[l]) :
        \/ i < k - 1 /\ i \in 0 .. Len(content[l])
           /\ CellAt(l, i)' = CellAt(l, i) /\ CellAt(l, i + 1)' = CellAt(l, i + 1)
        \/ i = k - 1 /\ CellAt(l, i)' = CellAt(l, k - 1) /\ CellAt(l, i + 1)' = CellAt(l, k + 1)
        \/ i >= k /\ i + 1 \in 0 .. Len(content[l])
           /\ CellAt(l, i)' = CellAt(l, i + 1) /\ CellAt(l, i + 1)' = CellAt(l, i + 1 + 1)
  <2> SUFFICES ASSUME NEW i \in 0 .. Len(content[l]) - 1
               PROVE
        \/ i < k - 1 /\ i \in 0 .. Len(content[l])
           /\ CellAt(l, i)' = CellAt(l, i) /\ CellAt(l, i + 1)' = CellAt(l, i + 1)
        \/ i = k - 1 /\ CellAt(l, i)' = CellAt(l, k - 1) /\ CellAt(l, i + 1)' = CellAt(l, k + 1)
        \/ i >= k /\ i + 1 \in 0 .. Len(content[l])
           /\ CellAt(l, i)' = CellAt(l, i + 1) /\ CellAt(l, i + 1)' = CellAt(l, i + 1 + 1)
    BY <1>1
  <2>1. CASE i < k - 1
    BY <2>1, <1>1, <1>2, <1>3
  <2>2. CASE i = k - 1
    BY <2>2, <1>1, <1>2, <1>3
  <2>3. CASE i >= k
    <3>1. /\ i \in k .. Len(content[l]) /\ i + 1 \in k .. Len(content[l])
          /\ i + 1 \in 0 .. Len(content[l])
      BY <2>3, <1>2, <1>3
    <3> QED
      BY <2>3, <3>1, <1>1
  <2> QED
    BY <1>2, <1>3, <2>1, <2>2, <2>3
\* The pointers of every cell but the one before, and the one that left.
<1>6. ForwardLinks'
  <2> SUFFICES ASSUME NEW m \in Handle, NEW i \in 0 .. Len(content'[m])
               PROVE  n'[CellAt(m, i)'] = CellAt(m, i + 1)'
    BY DEF ForwardLinks
  <2>1. ASSUME NEW h \in Handle, NEW j \in 0 .. Len(content[h]),
               h # l \/ (j # k - 1 /\ j # k)
        PROVE  n'[CellAt(h, j)] = CellAt(h, j + 1)
    <3>1. CellAt(h, j) \in Cell
      BY <1>2
    <3>2. CellAt(h, j) # CellAt(l, k - 1) /\ CellAt(h, j) # CellAt(l, k)
      BY <1>3, <2>1, CellsApart
    <3> QED
      BY <3>1, <3>2 DEF ForwardLinks, LinkedOut, Kept
  <2>2. CASE m # l
    <3>1. i \in 0 .. Len(content[m]) /\ i \in Nat /\ i + 1 \in Nat
      BY <2>2, <1>1, <1>2
    <3> QED
      BY <2>1, <2>2, <3>1, <1>4
  <2>3. CASE m = l
    <3>1. n'[CellAt(l, k - 1)] = CellAt(l, k + 1)
      BY DEF LinkedOut
    <3>2. CASE i < k - 1 /\ i \in 0 .. Len(content[l])
               /\ CellAt(l, i)' = CellAt(l, i) /\ CellAt(l, i + 1)' = CellAt(l, i + 1)
      <4>1. i # k - 1 /\ i # k
        BY <1>3, <3>2
      <4> QED
        BY <2>1, <2>3, <3>2, <4>1
    <3>3. CASE i >= k /\ i + 1 \in 0 .. Len(content[l])
           /\ CellAt(l, i)' = CellAt(l, i + 1) /\ CellAt(l, i + 1)' = CellAt(l, i + 1 + 1)
      <4>1. i + 1 # k - 1 /\ i + 1 # k
        BY <1>3, <3>3
      <4>2. n'[CellAt(l, i + 1)] = CellAt(l, i + 1 + 1)
        BY <2>1, <3>3, <4>1
      <4> QED
        BY <2>3, <3>3, <4>2
    <3> QED
      BY <1>5, <2>3, <3>1, <3>2, <3>3
  <2> QED
    BY <2>2, <2>3
<1>7. BackwardLinks'
  <2> SUFFICES ASSUME kind = "LIST", NEW m \in Handle, NEW i \in 0 .. Len(content'[m])
               PROVE  p'[CellAt(m, i + 1)'] = CellAt(m, i)'
    BY DEF BackwardLinks, LinkedOut
  <2>1. ASSUME NEW h \in Handle, NEW j \in 0 .. Len(content[h]),
               h # l \/ (j # k - 1 /\ j # k)
        PROVE  p'[CellAt(h, j + 1)] = CellAt(h, j)
    <3>1. /\ j + 1 \in Nat /\ j + 1 \in 1 .. Len(content[h]) + 1
          /\ h # l \/ (j + 1 # k /\ j + 1 # k + 1)
          /\ k \in 1 .. Len(content[l]) + 1 /\ k + 1 \in 1 .. Len(content[l]) + 1
      BY <1>2, <1>3, <2>1
    <3>2. CellAt(h, j + 1) \in Cell
      BY <1>2, <3>1
    <3>3. CellAt(h, j + 1) # CellAt(l, k) /\ CellAt(h, j + 1) # CellAt(l, k + 1)
      BY <3>1, CellsApart
    <3> QED
      BY <3>2, <3>3 DEF BackwardLinks, LinkedOut, Kept
  <2>2. CASE m # l
    <3>1. i \in 0 .. Len(content[m]) /\ i \in Nat /\ i + 1 \in Nat
      BY <2>2, <1>1, <1>2
    <3> QED
      BY <2>1, <2>2, <3>1, <1>4
  <2>3. CASE m = l
    <3>1. p'[CellAt(l, k + 1)] = CellAt(l, k - 1)
      BY DEF LinkedOut
    <3>2. CASE i < k - 1 /\ i \in 0 .. Len(content[l])
               /\ CellAt(l, i)' = CellAt(l, i) /\ CellAt(l, i + 1)' = CellAt(l, i + 1)
      <4>1. i # k - 1 /\ i # k
        BY <1>3, <3>2
      <4> QED
        BY <2>1, <2>3, <3>2, <4>1
    <3>3. CASE i >= k /\ i + 1 \in 0 .. Len(content[l])
           /\ CellAt(l, i)' = CellAt(l, i + 1) /\ CellAt(l, i + 1)' = CellAt(l, i + 1 + 1)
      <4>1. i + 1 # k - 1 /\ i + 1 # k
        BY <1>3, <3>3
      <4>2. p'[CellAt(l, i + 1 + 1)] = CellAt(l, i + 1)
        BY <2>1, <3>3, <4>1
      <4> QED
        BY <2>3, <3>3, <4>2
    <3> QED
      BY <1>5, <2>3, <3>1, <3>2, <3>3
  <2> QED
    BY <2>2, <2>3
<1>8. TailIsLast'
  <2> SUFFICES ASSUME kind = "QLIST", NEW m \in Handle
               PROVE  tail'[m] = CellAt(m, Len(content[m]))'
    BY DEF TailIsLast, LinkedOut
  <2>1. /\ tail \in [Handle -> Cell]
        /\ tail' = IF k = Len(content[l]) THEN [tail EXCEPT ![l] = CellAt(l, k - 1)] ELSE tail
        /\ \A h \in Handle : tail[h] = CellAt(h, Len(content[h]))
    BY DEF TypeOK, LinkedOut, TailIsLast
  <2>2. CASE m # l
    BY <2>1, <2>2, <1>1, <1>2, <1>4
  <2>3. CASE m = l /\ k = Len(content[l])
    <3>1. Len(content'[l]) = k - 1 /\ CellAt(l, k - 1)' = CellAt(l, k - 1)
      BY <2>3, <1>1, <1>3
    <3>2. CellAt(l, Len(content[l]))' = CellAt(l, k - 1)
      BY <3>1 DEF CellAt
    <3> QED
      BY <2>1, <2>3, <3>2
  <2>4. CASE m = l /\ k # Len(content[l])
    <3>1. Len(content[l]) - 1 \in k .. Len(content[l]) /\ Len(content[l]) - 1 + 1 = Len(content[l])
      BY <2>4, <1>2, <1>3
    <3>2. PICK j \in k .. Len(content[l]) : j = Len(content[l]) - 1 /\ j + 1 = Len(content[l])
      BY <3>1
    <3>3. Len(content'[l]) = j /\ CellAt(l, j)' = CellAt(l, j + 1)
      BY <3>2, <1>1
    <3>4. CellAt(l, Len(content[l]))' = CellAt(l, j + 1)
      BY <3>3 DEF CellAt
    <3> QED
      BY <2>1, <2>4, <3>2, <3>4
  <2> QED
    BY <2>2, <2>3, <2>4
<1>9. TypeOK'
  BY <1>1 DEF TypeOK, LinkedOut, Typed
<1> QED
  BY <1>1, <1>6, <1>7, <1>8, <1>9

-----------------------------------------------------------------------------
(* What the linking and the unlinking code does to the pointers.           *)

\* The cells next to the place k between two nodes of l.
LEMMA Neighbours ==
  ASSUME IInv, NEW l \in Handle, NEW k \in 1 .. Len(content[l]) + 1
  PROVE  /\ k - 1 \in 0 .. Len(content[l]) /\ k \in Nat /\ k - 1 + 1 = k
         /\ CellAt(l, k - 1) \in Cell /\ CellAt(l, k) \in Cell
         /\ n[CellAt(l, k - 1)] = CellAt(l, k)
         /\ kind = "LIST" => p[CellAt(l, k)] = CellAt(l, k - 1)
         /\ \A x \in Node \ Used : x \in Cell /\ CellAt(l, k - 1) # x /\ CellAt(l, k) # x
<1> USE DEF IInv
<1>1. Len(content[l]) \in Nat /\ \A i \in Nat : CellAt(l, i) \in Cell
  BY CellAtType
<1>2. k - 1 \in 0 .. Len(content[l]) /\ k \in Nat /\ k - 1 \in Nat /\ k - 1 + 1 = k
  BY <1>1
<1>3. n[CellAt(l, k - 1)] = CellAt(l, k)
  BY <1>2 DEF ForwardLinks
<1>4. kind = "LIST" => p[CellAt(l, k)] = CellAt(l, k - 1)
  BY <1>2 DEF BackwardLinks
<1>5. \A x \in Node \ Used : x \in Cell /\ CellAt(l, k - 1) # x /\ CellAt(l, k) # x
  BY <1>2, FreeNode DEF Cell
<1> QED
  BY <1>1, <1>2, <1>3, <1>4, <1>5

\* The four assignments of list_insert_after change just those pointers.
LEMMA LinkAfterStep ==
  ASSUME IInv, kind = "LIST", NEW l \in Handle, NEW k \in 1 .. Len(content[l]) + 1,
         NEW x \in Node \ Used, LinkAfter(CellAt(l, k - 1), x), UNCHANGED <<kind, tail>>
  PROVE  LinkedIn(l, k, x)
<1> DEFINE a == CellAt(l, k - 1)
           b == CellAt(l, k)
<1>1. a \in Cell /\ b \in Cell /\ x \in Cell /\ a # x /\ b # x /\ n[a] = b
  BY Neighbours
<1>2. /\ n \in [Cell -> Cell \cup {NULL}] /\ p \in [Cell -> Cell \cup {NULL}]
      /\ tail \in [Handle -> Cell]
  BY DEF IInv, TypeOK
<1>3. LinkAfter(a, x)
  OBVIOUS
<1> HIDE DEF a, b
<1>4. n' = [n EXCEPT ![x] = b, ![a] = x]
  BY <1>1, <1>3 DEF LinkAfter
<1>5. p' = [p EXCEPT ![x] = a, ![b] = x]
  <2>1. [n EXCEPT ![x] = n[a], ![a] = x][x] = b
    BY <1>1, <1>2
  <2> QED
    BY <2>1, <1>3 DEF LinkAfter
<1>6. Typed'
  BY <1>1, <1>2, <1>4, <1>5 DEF Typed
<1> QED
  BY <1>1, <1>2, <1>4, <1>5, <1>6 DEF LinkedIn, Kept, a, b

\* So do those of list_insert_before.
LEMMA LinkBeforeStep ==
  ASSUME IInv, kind = "LIST", NEW l \in Handle, NEW k \in 1 .. Len(content[l]) + 1,
         NEW x \in Node \ Used, LinkBefore(CellAt(l, k), x), UNCHANGED <<kind, tail>>
  PROVE  LinkedIn(l, k, x)
<1> DEFINE a == CellAt(l, k - 1)
           b == CellAt(l, k)
<1>1. a \in Cell /\ b \in Cell /\ x \in Cell /\ a # x /\ b # x /\ p[b] = a
  BY Neighbours
<1>2. /\ n \in [Cell -> Cell \cup {NULL}] /\ p \in [Cell -> Cell \cup {NULL}]
      /\ tail \in [Handle -> Cell]
  BY DEF IInv, TypeOK
<1>3. LinkBefore(b, x)
  OBVIOUS
<1> HIDE DEF a, b
<1>4. p' = [p EXCEPT ![x] = a, ![b] = x]
  BY <1>1, <1>3 DEF LinkBefore
<1>5. n' = [n EXCEPT ![x] = b, ![a] = x]
  <2>1. [p EXCEPT ![x] = p[b], ![b] = x][x] = a
    BY <1>1, <1>2
  <2> QED
    BY <2>1, <1>3 DEF LinkBefore
<1>6. Typed'
  BY <1>1, <1>2, <1>4, <1>5 DEF Typed
<1> QED
  BY <1>1, <1>2, <1>4, <1>5, <1>6 DEF LinkedIn, Kept, a, b

\* The same for slist_insert_after, ...
LEMMA SLinkAfterStep ==
  ASSUME IInv, kind = "SLIST", NEW l \in Handle, NEW k \in 1 .. Len(content[l]) + 1,
         NEW x \in Node \ Used, SLinkAfter(CellAt(l, k - 1), x), UNCHANGED <<kind, p, tail>>
  PROVE  LinkedIn(l, k, x)
<1> DEFINE a == CellAt(l, k - 1)
           b == CellAt(l, k)
<1>1. a \in Cell /\ b \in Cell /\ x \in Cell /\ a # x /\ b # x /\ n[a] = b
  BY Neighbours
<1>2. /\ n \in [Cell -> Cell \cup {NULL}] /\ p \in [Cell -> Cell \cup {NULL}]
      /\ tail \in [Handle -> Cell]
  BY DEF IInv, TypeOK
<1>3. n' = [n EXCEPT ![x] = b, ![a] = x]
  BY <1>1 DEF SLinkAfter
<1> HIDE DEF a, b
<1>4. Typed'
  BY <1>1, <1>2, <1>3 DEF Typed
<1> QED
  BY <1>1, <1>2, <1>3, <1>4 DEF LinkedIn, Kept, a, b

\* The tail is the cell before exactly when the new node comes last.
LEMMA TailPlace ==
  ASSUME IInv, kind = "QLIST", NEW l \in Handle, NEW j \in 0 .. Len(content[l])
  PROVE  tail[l] = CellAt(l, j) <=> j = Len(content[l])
<1>1. tail[l] = CellAt(l, Len(content[l]))
  BY DEF IInv, TailIsLast
<1>2. Len(content[l]) \in 0 .. Len(content[l])
  BY CellAtType DEF IInv
<1> QED
  BY <1>1, <1>2, CellsApart DEF IInv

\* ... for qlist_insert_after, which may move the tail, ...
LEMMA QLinkAfterStep ==
  ASSUME IInv, kind = "QLIST", NEW l \in Handle, NEW k \in 1 .. Len(content[l]) + 1,
         NEW x \in Node \ Used, QLinkAfter(l, CellAt(l, k - 1), x), UNCHANGED <<kind, p>>
  PROVE  LinkedIn(l, k, x)
<1> DEFINE a == CellAt(l, k - 1)
           b == CellAt(l, k)
<1>1. a \in Cell /\ b \in Cell /\ x \in Cell /\ a # x /\ b # x /\ n[a] = b
  BY Neighbours
<1>2. /\ n \in [Cell -> Cell \cup {NULL}] /\ p \in [Cell -> Cell \cup {NULL}]
      /\ tail \in [Handle -> Cell]
  BY DEF IInv, TypeOK
<1>3. n' = [n EXCEPT ![x] = b, ![a] = x]
  BY <1>1 DEF QLinkAfter, SLinkAfter
<1>4. tail' = IF k = Len(content[l]) + 1 THEN [tail EXCEPT ![l] = x] ELSE tail
  <2>1. Len(content[l]) \in Nat /\ k \in Nat /\ k - 1 \in 0 .. Len(content[l])
    BY Neighbours, CellAtType DEF IInv
  <2>2. tail[l] = CellAt(l, k - 1) <=> k - 1 = Len(content[l])
    BY <2>1, TailPlace
  <2>3. tail[l] = CellAt(l, k - 1) <=> k = Len(content[l]) + 1
    BY <2>1, <2>2
  <2> QED
    BY <2>3 DEF QLinkAfter
<1>5. tail' \in [Handle -> Cell]
  BY <1>1, <1>2, <1>4
<1> HIDE DEF a, b
<1>6. Typed'
  BY <1>1, <1>2, <1>3, <1>5 DEF Typed
<1> QED
  BY <1>1, <1>2, <1>3, <1>4, <1>6 DEF LinkedIn, Kept, a, b

\* ... and for qlist_append, behind the tail.
LEMMA QAppendStep ==
  ASSUME IInv, NEW l \in Handle, NEW x \in Node \ Used, qlist_append(l, x)
  PROVE  LinkedIn(l, Len(content[l]) + 1, x)
<1>1. Len(content[l]) \in Nat
  BY CellAtType DEF IInv
<1> DEFINE k == Len(content[l]) + 1
           a == CellAt(l, k - 1)
<1>2. k \in 1 .. Len(content[l]) + 1 /\ k - 1 = Len(content[l])
  BY <1>1
<1>3. a \in Cell /\ x \in Cell /\ a # x /\ l # x
  BY <1>2, Neighbours, ListAssumption
<1>4. tail[l] = a /\ CellAt(l, k) = l
  BY <1>2, CellAtType DEF IInv, TailIsLast, qlist_append
<1>5. /\ n \in [Cell -> Cell \cup {NULL}] /\ p \in [Cell -> Cell \cup {NULL}]
      /\ tail \in [Handle -> Cell] /\ l \in Cell
  BY DEF IInv, TypeOK, Cell
<1>6. /\ kind = "QLIST" /\ kind' = kind /\ p' = p
      /\ n' = [n EXCEPT ![x] = l, ![a] = x] /\ tail' = [tail EXCEPT ![l] = x]
  BY <1>4 DEF qlist_append
<1> HIDE DEF a, k
<1>7. Typed'
  BY <1>3, <1>5, <1>6 DEF Typed
<1>8. LinkedIn(l, k, x)
  BY <1>3, <1>4, <1>5, <1>6, <1>7 DEF LinkedIn, Kept, a, k
<1> QED
  BY <1>8 DEF k

\* The two assignments of list_remove change just the pointers of LinkedOut.
LEMMA UnlinkStep ==
  ASSUME IInv, kind = "LIST", NEW l \in Handle, NEW k \in 1 .. Len(content[l]),
         Unlink(CellAt(l, k)), UNCHANGED <<kind, tail>>
  PROVE  LinkedOut(l, k)
<1> DEFINE a == CellAt(l, k - 1)
           c == CellAt(l, k)
           b == CellAt(l, k + 1)
<1>1. Len(content[l]) \in Nat
  BY CellAtType DEF IInv
<1>2. /\ k \in 1 .. Len(content[l]) + 1 /\ k + 1 \in 1 .. Len(content[l]) + 1
      /\ k - 1 \in 0 .. Len(content[l]) /\ k \in 0 .. Len(content[l]) /\ k + 1 - 1 = k
  BY <1>1
<1>3. a \in Cell /\ b \in Cell /\ c \in Cell /\ p[c] = a /\ n[c] = b
  BY <1>2, Neighbours
<1>4. a # c /\ b # c
  BY <1>2, CellsApart DEF IInv
<1>5. c \in Node
  BY CellAtType DEF IInv, CellAt
<1>6. /\ n \in [Cell -> Cell \cup {NULL}] /\ p \in [Cell -> Cell \cup {NULL}]
      /\ tail \in [Handle -> Cell]
  BY DEF IInv, TypeOK
<1>7. Unlink(c)
  OBVIOUS
<1> HIDE DEF a, b, c
<1>8. n' = [[n EXCEPT ![a] = b] EXCEPT ![c] = NULL]
  BY <1>3, <1>5, <1>7 DEF Unlink, Forgotten
<1>9. p' = [[p EXCEPT ![b] = a] EXCEPT ![c] = NULL]
  <2>1. [n EXCEPT ![p[c]] = n[c]][c] = b
    BY <1>3, <1>4, <1>6
  <2> QED
    BY <2>1, <1>3, <1>5, <1>7 DEF Unlink, Forgotten
<1>10. Typed'
  BY <1>3, <1>6, <1>8, <1>9 DEF Typed
<1> QED
  BY <1>3, <1>4, <1>6, <1>8, <1>9, <1>10 DEF LinkedOut, Kept, a, b, c

\* The same for the node behind a given one, in the one-way lists.
LEMMA SUnlinkStep ==
  ASSUME IInv, NEW l \in Handle, NEW k \in 1 .. Len(content[l]),
         SUnlink(CellAt(l, k - 1), CellAt(l, k))
  PROVE  /\ n' \in [Cell -> Cell \cup {NULL}]
         /\ n'[CellAt(l, k - 1)] = CellAt(l, k + 1)
         /\ Kept(n, n', CellAt(l, k), CellAt(l, k - 1))
         /\ CellAt(l, k - 1) \in Cell
<1> DEFINE a == CellAt(l, k - 1)
           c == CellAt(l, k)
           b == CellAt(l, k + 1)
<1>1. Len(content[l]) \in Nat
  BY CellAtType DEF IInv
<1>2. /\ k \in 1 .. Len(content[l]) + 1 /\ k + 1 \in 1 .. Len(content[l]) + 1
      /\ k - 1 \in 0 .. Len(content[l]) /\ k \in 0 .. Len(content[l]) /\ k + 1 - 1 = k
  BY <1>1
<1>3. a \in Cell /\ b \in Cell /\ c \in Cell /\ n[c] = b
  BY <1>2, Neighbours
<1>4. a # c
  BY <1>2, CellsApart DEF IInv
<1>5. c \in Node
  BY CellAtType DEF IInv, CellAt
<1>6. n \in [Cell -> Cell \cup {NULL}]
  BY DEF IInv, TypeOK
<1>7. SUnlink(a, c)
  OBVIOUS
<1> HIDE DEF a, b, c
<1>8. n' = [[n EXCEPT ![a] = b] EXCEPT ![c] = NULL]
  BY <1>3, <1>5, <1>7 DEF SUnlink, Forgotten
<1> QED
  BY <1>3, <1>4, <1>6, <1>8 DEF Kept, a, b, c

\* The removals of SLIST have no other pointer to change, ...
LEMMA SListUnlinked ==
  ASSUME IInv, kind = "SLIST", NEW l \in Handle, NEW k \in 1 .. Len(content[l]),
         SUnlink(CellAt(l, k - 1), CellAt(l, k)), UNCHANGED <<kind, p, tail>>
  PROVE  LinkedOut(l, k)
<1>1. /\ kind \in {"LIST", "SLIST", "QLIST"} /\ p \in [Cell -> Cell \cup {NULL}]
      /\ tail \in [Handle -> Cell]
  BY DEF IInv, TypeOK
<1> QED
  BY <1>1, SUnlinkStep DEF LinkedOut, Typed

\* ... those of QLIST also move the tail.
LEMMA QListUnlinked ==
  ASSUME IInv, kind = "QLIST", NEW l \in Handle, NEW k \in 1 .. Len(content[l]),
         QUnlink(l, CellAt(l, k - 1), CellAt(l, k)), UNCHANGED <<kind, p>>
  PROVE  LinkedOut(l, k)
<1>1. /\ p \in [Cell -> Cell \cup {NULL}] /\ tail \in [Handle -> Cell]
  BY DEF IInv, TypeOK
<1>2. /\ n' \in [Cell -> Cell \cup {NULL}]
      /\ n'[CellAt(l, k - 1)] = CellAt(l, k + 1)
      /\ Kept(n, n', CellAt(l, k), CellAt(l, k - 1))
      /\ CellAt(l, k - 1) \in Cell
  BY SUnlinkStep DEF QUnlink
<1>3. k \in 0 .. Len(content[l])
  BY CellAtType DEF IInv
<1>4. tail' = IF k = Len(content[l]) THEN [tail EXCEPT ![l] = CellAt(l, k - 1)] ELSE tail
  BY <1>3, TailPlace DEF QUnlink
<1>5. tail' \in [Handle -> Cell]
  BY <1>1, <1>2, <1>4
<1> QED
  BY <1>1, <1>2, <1>4, <1>5 DEF LinkedOut, Typed

-----------------------------------------------------------------------------
(* Taking the head or the tail of an empty list changes nothing.           *)

\* Removing from an empty list changes no content.
LEMMA EmptyRemoved ==
  ASSUME IInv, NEW l \in Handle, Len(content[l]) = 0, NEW i \in {0, 1}, Removed(l, i)
  PROVE  content' = content
<1>1. content[l] = <<>> /\ content \in [Handle -> Seq(Node)]
  BY CellAtType DEF IInv, TypeOK
<1>2. RemoveAt(<<>>, i) = <<>>
  <2>1. SubSeq(<<>>, 1, i - 1) = <<>> /\ SubSeq(<<>>, i + 1, Len(<<>>)) = <<>>
    OBVIOUS
  <2> QED
    BY <2>1 DEF RemoveAt
<1>3. content' = [content EXCEPT ![l] = <<>>]
  BY <1>1, <1>2 DEF Removed
<1> QED
  BY <1>1, <1>3

\* The sentinel of an empty list points to itself.
LEMMA EmptyRing ==
  ASSUME IInv, NEW l \in Handle, Len(content[l]) = 0
  PROVE  /\ n[l] = l /\ (kind = "LIST" => p[l] = l) /\ (kind = "QLIST" => tail[l] = l)
         /\ l \notin Node /\ l \in Cell
         /\ n \in [Cell -> Cell \cup {NULL}] /\ p \in [Cell -> Cell \cup {NULL}]
         /\ tail \in [Handle -> Cell]
<1>1. 1 \in 1 .. Len(content[l]) + 1 /\ CellAt(l, 1 - 1) = l /\ CellAt(l, 1) = l
  BY CellAtType DEF IInv
<1>2. n[l] = l /\ (kind = "LIST" => p[l] = l)
  BY <1>1, Neighbours
<1>3. kind = "QLIST" => tail[l] = l
  BY <1>1 DEF IInv, TailIsLast
<1> QED
  BY <1>2, <1>3, ListAssumption DEF IInv, TypeOK, Cell

\* The invariant speaks of the variables only.
LEMMA Stutter == IInv /\ UNCHANGED vars => IInv'
<1> SUFFICES ASSUME IInv, UNCHANGED vars PROVE IInv'
  OBVIOUS
<1>1. content' = content /\ n' = n /\ p' = p /\ tail' = tail /\ kind' = kind
  BY DEF vars
<1> QED
  BY <1>1 DEF IInv, TypeOK, Apart, ForwardLinks, BackwardLinks, TailIsLast, CellAt

-----------------------------------------------------------------------------
(* One step of each list.                                                  *)

\* Every insertion keeps the invariant.
LEMMA InsertKeeps ==
  ASSUME IInv, NEW l \in Handle, NEW x \in Node \ Used, InsertStep(l, x)
  PROVE  IInv'
<1>1. Len(content[l]) \in Nat /\ CellAt(l, 0) = l /\ CellAt(l, Len(content[l]) + 1) = l
  BY CellAtType DEF IInv
<1>2. ASSUME NEW i \in 0 .. Len(content[l]),
             \/ list_insert_after(l, i, x) \/ list_insert_before(l, i, x)
             \/ slist_insert_after(l, i, x) \/ qlist_insert_after(l, i, x)
      PROVE  IInv'
  <2> DEFINE k == i + 1
  <2>1. k \in 1 .. Len(content[l]) + 1 /\ k - 1 = i
    BY <1>1
  <2>2. CASE list_insert_after(l, i, x)
    BY <2>1, <2>2, LinkAfterStep, AfterInsert DEF list_insert_after
  <2>3. CASE list_insert_before(l, i, x)
    BY <2>1, <2>3, LinkBeforeStep, AfterInsert DEF list_insert_before
  <2>4. CASE slist_insert_after(l, i, x)
    BY <2>1, <2>4, SLinkAfterStep, AfterInsert DEF slist_insert_after
  <2>5. CASE qlist_insert_after(l, i, x)
    BY <2>1, <2>5, QLinkAfterStep, AfterInsert DEF qlist_insert_after
  <2> QED
    BY <1>2, <2>2, <2>3, <2>4, <2>5
<1>3. 1 \in 1 .. Len(content[l]) + 1 /\ Len(content[l]) + 1 \in 1 .. Len(content[l]) + 1
      /\ 1 - 1 = 0
  BY <1>1
<1>4. CASE list_append(l, x)
  BY <1>1, <1>3, <1>4, LinkBeforeStep, AfterInsert DEF list_append
<1>5. CASE list_prepend(l, x)
  BY <1>1, <1>3, <1>5, LinkAfterStep, AfterInsert DEF list_prepend
<1>6. CASE slist_prepend(l, x)
  BY <1>1, <1>3, <1>6, SLinkAfterStep, AfterInsert DEF slist_prepend
<1>7. CASE qlist_append(l, x)
  <2>1. LinkedIn(l, Len(content[l]) + 1, x)
    BY <1>7, QAppendStep
  <2> QED
    BY <1>3, <1>7, <2>1, AfterInsert DEF qlist_append
<1>8. CASE qlist_prepend(l, x)
  BY <1>1, <1>3, <1>8, QLinkAfterStep, AfterInsert DEF qlist_prepend
<1> QED
  BY <1>2, <1>4, <1>5, <1>6, <1>7, <1>8 DEF InsertStep

\* Every removal keeps the invariant.
LEMMA RemoveKeeps ==
  ASSUME IInv, NEW l \in Handle, RemoveStep(l)
  PROVE  IInv'
<1>1. Len(content[l]) \in Nat
  BY CellAtType DEF IInv
<1>2. ASSUME NEW k \in 1 .. Len(content[l]),
             list_remove(l, k) \/ slist_remove(l, k) \/ qlist_remove(l, k)
      PROVE  IInv'
  <2>1. CellAt(l, k) = content[l][k]
    BY DEF CellAt
  <2>2. CASE list_remove(l, k)
    BY <2>1, <2>2, UnlinkStep, AfterRemove DEF list_remove
  <2>3. CASE slist_remove(l, k)
    BY <2>1, <2>3, SListUnlinked, AfterRemove DEF slist_remove
  <2>4. CASE qlist_remove(l, k)
    BY <2>1, <2>4, QListUnlinked, AfterRemove DEF qlist_remove
  <2> QED
    BY <1>2, <2>2, <2>3, <2>4
<1>3. CASE Len(content[l]) = 0
  <2>1. /\ n[l] = l /\ (kind = "LIST" => p[l] = l) /\ (kind = "QLIST" => tail[l] = l)
        /\ l \notin Node /\ l \in Cell
        /\ n \in [Cell -> Cell \cup {NULL}] /\ p \in [Cell -> Cell \cup {NULL}]
        /\ tail \in [Handle -> Cell]
    BY <1>3, EmptyRing
  <2>2. [n EXCEPT ![l] = l] = n
    BY <2>1
  <2>3. /\ kind = "LIST" => [p EXCEPT ![l] = l] = p
        /\ kind = "QLIST" => [tail EXCEPT ![l] = l] = tail
    BY <2>1
  <2>4. Removed(l, 0) \/ Removed(l, 1) => content' = content
    BY <1>3, EmptyRemoved
  <2>5. CASE list_remove_head(l) \/ list_remove_tail(l)
    <3>1. kind = "LIST" /\ Unlink(l) /\ (Removed(l, 0) \/ Removed(l, 1)) /\ UNCHANGED <<kind, tail>>
      BY <1>3, <2>1, <2>5 DEF list_remove_head, list_remove_tail
    <3>2. n' = n /\ p' = p
      BY <2>1, <2>2, <2>3, <3>1 DEF Unlink, Forgotten
    <3> QED
      BY <2>4, <3>1, <3>2, Stutter DEF vars
  <2>6. CASE slist_remove_head(l)
    <3>1. n' = n
      BY <2>1, <2>2, <2>6 DEF slist_remove_head, SUnlink, Forgotten
    <3> QED
      BY <2>4, <2>6, <3>1, Stutter DEF vars, slist_remove_head
  <2>7. CASE qlist_remove_head(l)
    <3>1. n' = n /\ tail' = tail
      BY <2>1, <2>2, <2>3, <2>7 DEF qlist_remove_head, QUnlink, SUnlink, Forgotten
    <3> QED
      BY <2>4, <2>7, <3>1, Stutter DEF vars, qlist_remove_head
  <2> QED
    BY <1>2, <2>5, <2>6, <2>7 DEF RemoveStep
<1>4. CASE Len(content[l]) # 0
  <2>1. /\ 1 \in 1 .. Len(content[l]) /\ Len(content[l]) \in 1 .. Len(content[l])
        /\ 1 \in 1 .. Len(content[l]) + 1 /\ Len(content[l]) + 1 \in 1 .. Len(content[l]) + 1
        /\ Len(content[l]) + 1 - 1 = Len(content[l]) /\ 1 - 1 = 0
    BY <1>1, <1>4
  <2>2. CellAt(l, 0) = l /\ CellAt(l, Len(content[l]) + 1) = l
    BY CellAtType DEF IInv
  <2>3. n[l] = CellAt(l, 1) /\ (kind = "LIST" => p[l] = CellAt(l, Len(content[l])))
    BY <2>1, <2>2, Neighbours
  <2>4. CASE list_remove_head(l)
    BY <2>1, <2>3, <2>4, UnlinkStep, AfterRemove DEF list_remove_head
  <2>5. CASE list_remove_tail(l)
    BY <2>1, <2>3, <2>5, UnlinkStep, AfterRemove DEF list_remove_tail
  <2>6. CASE slist_remove_head(l)
    BY <2>1, <2>2, <2>3, <2>6, SListUnlinked, AfterRemove DEF slist_remove_head
  <2>7. CASE qlist_remove_head(l)
    BY <2>1, <2>2, <2>3, <2>7, QListUnlinked, AfterRemove DEF qlist_remove_head
  <2> QED
    BY <1>2, <2>4, <2>5, <2>6, <2>7 DEF RemoveStep
<1> QED
  BY <1>3, <1>4

\* Empty lists satisfy the invariant.
LEMMA InitHolds == Init => IInv
<1> SUFFICES ASSUME Init PROVE IInv
  OBVIOUS
<1>1. /\ kind \in {"LIST", "SLIST", "QLIST"}
      /\ n = [c \in Cell |-> IF c \in Handle THEN c ELSE NULL]
      /\ p = [c \in Cell |-> IF c \in Handle /\ kind = "LIST" THEN c ELSE NULL]
      /\ tail = [l \in Handle |-> l]
  BY DEF Init
<1>2. content \in [Handle -> Seq(Node)] /\ \A l \in Handle : content[l] = <<>> /\ Len(content[l]) = 0
  BY DEF Init
<1>3. TypeOK
  BY <1>1, <1>2 DEF TypeOK, Cell
<1>4. Apart
  BY <1>2 DEF Apart
<1>5. \A l \in Handle : \A i \in 0 .. 1 : CellAt(l, i) = l
  BY <1>2 DEF CellAt
<1>6. \A l \in Handle : l \in Cell
  BY DEF Cell
<1>7. ForwardLinks
  BY <1>1, <1>2, <1>5, <1>6 DEF ForwardLinks
<1>8. BackwardLinks
  BY <1>1, <1>2, <1>5, <1>6 DEF BackwardLinks
<1>9. TailIsLast
  BY <1>1, <1>2, <1>5 DEF TailIsLast
<1> QED
  BY <1>3, <1>4, <1>7, <1>8, <1>9 DEF IInv

-----------------------------------------------------------------------------
(* The theorems.                                                           *)

\* No sequence of inserts and removals leads list.h out of its invariant.
THEOREM Invariance == Spec => []IInv
<1>1. IInv /\ [Next]_vars => IInv'
  <2> SUFFICES ASSUME IInv, [Next]_vars PROVE IInv'
    OBVIOUS
  <2>1. CASE Next
    <3>1. PICK l \in Handle : (\E x \in Node \ Used : InsertStep(l, x)) \/ RemoveStep(l)
      BY <2>1 DEF Next
    <3> QED
      BY <3>1, InsertKeeps, RemoveKeeps
  <2>2. CASE UNCHANGED vars
    BY <2>2, Stutter
  <2> QED
    BY <2>1, <2>2
<1> QED
  BY <1>1, InitHolds, PTL DEF Spec

\* Every pointer of list.h is a cell or the NULL of a free node.
THEOREM TypeCorrect == Spec => []TypeOK
BY Invariance, PTL DEF IInv

\* Walking forward in list.h meets what the callers put in, in their order.
THEOREM ForwardWalk == Spec => []ForwardLinks
BY Invariance, PTL DEF IInv

\* list_prev walks the ring that list_next walks, the other way.
THEOREM BackwardWalk == Spec => []BackwardLinks
BY Invariance, PTL DEF IInv

\* qlist_append always links behind the last node.
THEOREM TailFollows == Spec => []TailIsLast
BY Invariance, PTL DEF IInv

=============================================================================
