-------------------------- MODULE ImportFileProofs --------------------------
(***************************************************************************)
(* Proofs about ImportFile: what is imported is what was written, for all  *)
(* tables, separators and ends of line that meet the assumptions.          *)
(***************************************************************************)
EXTENDS ImportFile, Induction

LineOf(a, j) == Joined(a.data[j], a.sep)

Lines(a) == [j \in DOMAIN a.data |-> LineOf(a, j) \o a.eol]

\* The characters up to the end of each line, its end of line included.
LineEnds(a) ==
    LET ends[l \in 0 .. Len(a.data)] ==
            IF l = 0 THEN 0 ELSE ends[l - 1] + Len(Lines(a)[l])
    IN  ends

Cut(a) == IF a.ended \/ a.data = <<>> THEN 0 ELSE Len(a.eol)

\* The characters up to the end of line l: the last one may have no end of line.
Position(a, l) == IF l = Len(a.data) THEN LineEnds(a)[l] - Cut(a) ELSE LineEnds(a)[l]

ArgOK(a) ==
    /\ a \in [data : Tables, sep : Seps, eol : Eols, skip : Skips,
              nCol : Columns, ended : BOOLEAN]
    /\ Written(a)

Imported(a, l) == IF l <= a.skip THEN 0 ELSE l - a.skip

ReadingInv(a, p, l, r) ==
    /\ a.sep # <<>>
    /\ p = Position(a, l)
    /\ \A j \in 1 .. l : a.data[j] # <<<<>>>>
    /\ Len(r) = Imported(a, l)

ReadsExactly(a, j) ==
    /\ j < Len(a.data) \/ a.ended
    /\ \A k \in 1 .. Len(a.data[j]) - 1 :
           /\ ~Occurs(<<"\n">>, a.data[j][k]) /\ ~Occurs(<<"\r">>, a.data[j][k])
           /\ a.sep[1] \notin {"\n", "\r"}

RowsInv(a, r) ==
    \A j \in DOMAIN r :
        /\ Len(r[j]) = a.nCol
        /\ ReadsExactly(a, a.skip + j) =>
               r[j] = [k \in DOMAIN a.data[a.skip + j] |-> Value(a.data[a.skip + j][k])]

IsSeq(r) == \E V : r \in Seq(V)

HeldInv(h, w) ==
    /\ h \subseteq {"statement", "file"}
    /\ w = "reading" => h = {"statement", "file"}
    /\ w = "done" => h = {}

ResultInv(a, l, r, w) ==
    /\ w = "columns" =>
           /\ l \in 1 .. Len(a.data)
           /\ Len(r) = l - a.skip - 1
           /\ Len(a.data[l]) # a.nCol \/ ~ReadsExactly(a, l)
    /\ w = "done" =>
           /\ Len(r) = Imported(a, l)
           /\ \A j \in 1 .. l : a.data[j] # <<<<>>>>
           /\ l < Len(a.data) => a.data[l + 1] = <<<<>>>>

\* The inductive invariant: the position is the end of a line.
ImportInv(a, p, l, r, h, w) ==
    /\ ArgOK(a)
    /\ w \in {"start", "refused", "cannot open", "reading", "insert", "columns", "done"}
    /\ HeldInv(h, w)
    /\ l \in 0 .. Len(a.data)
    /\ p \in 0 .. Position(a, Len(a.data))
    /\ IsSeq(r)
    /\ RowsInv(a, r)
    /\ w = "start" => p = 0 /\ l = 0 /\ r = <<>>
    /\ w = "reading" => ReadingInv(a, p, l, r)
    /\ ResultInv(a, l, r, w)

IInv == ImportInv(arg, pos, lineno, rows, held, how)
-----------------------------------------------------------------------------
(***************************************************************************)
(* Texts that occur in texts.                                              *)
(***************************************************************************)

\* The characters of a part of a text.
LEMMA PartOf ==
    ASSUME NEW S, NEW text \in Seq(S), NEW m \in 1 .. Len(text) + 1,
           NEW n \in m - 1 .. Len(text)
    PROVE  /\ SubSeq(text, m, n) \in Seq(S)
           /\ Len(SubSeq(text, m, n)) = n - m + 1
           /\ \A i \in 1 .. n - m + 1 : SubSeq(text, m, n)[i] = text[m + i - 1]
  <1>1. Len(text) \in Nat /\ m \in Int /\ n \in Int
    OBVIOUS
  <1>2. \A i \in m .. n : text[i] \in S
    BY <1>1, ElementOfSeq
  <1> QED
    BY <1>1, <1>2, SubSeqProperties

\* A text occurs where its characters are.
LEMMA HasAtElements ==
    ASSUME NEW S, NEW s \in Seq(S), NEW text \in Seq(S), NEW z \in Nat \ {0}
    PROVE  HasAt(s, text, z) <=>
               /\ z + Len(s) - 1 <= Len(text)
               /\ \A i \in 1 .. Len(s) : s[i] = text[z + i - 1]
  <1>1. Len(s) \in Nat /\ Len(text) \in Nat
    OBVIOUS
  <1>2. CASE z + Len(s) - 1 <= Len(text)
    <2> DEFINE n == z + Len(s) - 1
               part == SubSeq(text, z, n)
    <2>1. /\ part \in Seq(S) /\ Len(part) = Len(s)
          /\ \A i \in 1 .. Len(s) : part[i] = text[z + i - 1]
      <3>1. z \in 1 .. Len(text) + 1 /\ n \in z - 1 .. Len(text) /\ n - z + 1 = Len(s)
        BY <1>1, <1>2
      <3> HIDE DEF n
      <3> QED
        BY <3>1, PartOf
    <2> HIDE DEF part
    <2>2. part = s <=> \A i \in 1 .. Len(s) : s[i] = text[z + i - 1]
      <3>1. ASSUME \A i \in 1 .. Len(s) : s[i] = text[z + i - 1]
            PROVE  part = s
        BY <2>1, <3>1, SeqEqual
      <3> QED
        BY <2>1, <3>1
    <2> QED
      BY <1>2, <2>2 DEF HasAt, part
  <1>3. CASE ~(z + Len(s) - 1 <= Len(text))
    BY <1>3 DEF HasAt
  <1> QED
    BY <1>2, <1>3
-----------------------------------------------------------------------------
(***************************************************************************)
(* A row and its line.                                                     *)
(***************************************************************************)

\* Rows of cells, which are texts over S.
RowsOf(S) == Seq(Seq(S)) \ {<<>>}

\* The cells of row begin at b in the line t, with sep before all but the first.
Spread(b, t, row, sep) ==
    /\ b \in [1 .. Len(row) -> Nat \ {0}]
    /\ b[1] = 1
    /\ Len(t) = b[Len(row)] + Len(row[Len(row)]) - 1
    /\ \A k \in 1 .. Len(row) - 1 :
           /\ b[k + 1] = b[k] + Len(row[k]) + Len(sep)
           /\ \A i \in 1 .. Len(sep) : t[b[k] + Len(row[k]) + i - 1] = sep[i]
    /\ \A k \in 1 .. Len(row) : \A i \in 1 .. Len(row[k]) : t[b[k] + i - 1] = row[k][i]

LEMMA JoinedLayout ==
    ASSUME NEW S, NEW row \in RowsOf(S), NEW sep \in Seq(S)
    PROVE  /\ Joined(row, sep) \in Seq(S)
           /\ \E b : Spread(b, Joined(row, sep), row, sep)
  <1> DEFINE n == Len(row)
             parts == [j \in 1 .. n - 1 |-> sep \o row[j + 1]]
             rest == FlattenSeq(parts)
             t == Joined(row, sep)
  <1>1. n \in Nat \ {0} /\ Len(sep) \in Nat
        /\ \A k \in 1 .. n : row[k] \in Seq(S) /\ Len(row[k]) \in Nat
    BY DEF RowsOf
  <1> HIDE DEF n
  <1>2. \A j \in 1 .. n - 1 :
            /\ parts[j] \in Seq(S) /\ Len(parts[j]) = Len(sep) + Len(row[j + 1])
            /\ \A i \in 1 .. Len(sep) : parts[j][i] = sep[i]
            /\ \A i \in 1 .. Len(row[j + 1]) : parts[j][Len(sep) + i] = row[j + 1][i]
    <2> SUFFICES ASSUME NEW j \in 1 .. n - 1
                 PROVE  /\ sep \o row[j + 1] \in Seq(S)
                        /\ Len(sep \o row[j + 1]) = Len(sep) + Len(row[j + 1])
                        /\ \A i \in 1 .. Len(sep) : (sep \o row[j + 1])[i] = sep[i]
                        /\ \A i \in 1 .. Len(row[j + 1]) :
                               (sep \o row[j + 1])[Len(sep) + i] = row[j + 1][i]
      OBVIOUS
    <2>1. row[j + 1] \in Seq(S)
      BY <1>1
    <2> QED
      BY <2>1, ConcatElements
  <1>3. parts \in Seq(Seq(S)) /\ Len(parts) = n - 1
    BY <1>1, <1>2
  <1>4. t = row[1] \o rest
    BY DEF Joined, n
  <1> HIDE DEF parts
  <1>5. PICK off : Offsets(off, parts) /\ Layout(rest, off, parts)
    BY <1>3, FlattenSeqLayout
  <1>6. rest \in Seq(S) /\ row[1] \in Seq(S)
    BY <1>1, <1>3, FlattenSeqLayout
  <1> HIDE DEF rest, t
  <1>7. /\ t \in Seq(S) /\ Len(t) = Len(row[1]) + Len(rest)
        /\ \A i \in 1 .. Len(row[1]) : t[i] = row[1][i]
        /\ \A i \in 1 .. Len(rest) : t[Len(row[1]) + i] = rest[i]
    BY <1>4, <1>6, ConcatElements
  <1> DEFINE b == [k \in 1 .. n |-> IF k = 1 THEN 1
                                    ELSE Len(row[1]) + off[k - 2] + Len(sep) + 1]
  <1>8. /\ off \in [0 .. n - 1 -> Nat] /\ off[0] = 0
        /\ \A j \in 1 .. n - 1 : off[j] = off[j - 1] + Len(parts[j])
        /\ Len(rest) = off[n - 1]
    BY <1>3, <1>5 DEF Offsets, Layout
  <1>9. \A j \in 1 .. n - 1 : Len(parts[j]) = Len(sep) + Len(row[j + 1]) /\ Len(parts[j]) \in Nat
    BY <1>1, <1>2
  <1>10. \A j \in 0 .. n - 1 : off[j] \in Nat
    BY <1>8
  <1>11. b \in [1 .. n -> Nat \ {0}] /\ b[1] = 1
    <2>1. ASSUME NEW k \in 1 .. n, k # 1
          PROVE  Len(row[1]) + off[k - 2] + Len(sep) + 1 \in Nat \ {0}
      <3>1. k - 2 \in 0 .. n - 1 /\ 1 \in 1 .. n
        BY <1>1, <2>1
      <3>2. off[k - 2] \in Nat /\ Len(row[1]) \in Nat /\ Len(sep) \in Nat
        BY <1>1, <1>10, <3>1
      <3> QED
        BY ONLY <3>2, SMTT(30)
    <2>2. 1 \in 1 .. n
      BY <1>1
    <2> QED
      BY <2>1, <2>2
  <1>12. ASSUME NEW k \in 1 .. n - 1
         PROVE  /\ b[k + 1] = Len(row[1]) + off[k - 1] + Len(sep) + 1
                /\ b[k + 1] + Len(row[k + 1]) = Len(row[1]) + off[k] + 1
    <2>1. k + 1 \in 1 .. n /\ k + 1 # 1 /\ (k + 1) - 2 = k - 1 /\ k - 1 \in 0 .. n - 1
          /\ k \in 0 .. n - 1 /\ 1 \in 1 .. n
      BY <1>1
    <2>2. b[k + 1] = Len(row[1]) + off[k - 1] + Len(sep) + 1
      BY <2>1
    <2>3. off[k] = off[k - 1] + (Len(sep) + Len(row[k + 1]))
      BY <1>8, <1>9
    <2>4. off[k] \in Nat /\ off[k - 1] \in Nat /\ Len(sep) \in Nat
          /\ Len(row[1]) \in Nat /\ Len(row[k + 1]) \in Nat
      BY <1>1, <1>10, <2>1
    <2>5. (Len(row[1]) + off[k - 1] + Len(sep) + 1) + Len(row[k + 1]) = Len(row[1]) + off[k] + 1
      BY <2>3, <2>4, SMTT(60)
    <2> HIDE DEF b
    <2> QED
      BY <2>2, <2>5
  <1> HIDE DEF b
  <1>13. ASSUME NEW k \in 1 .. n
         PROVE  b[k] + Len(row[k]) = Len(row[1]) + off[k - 1] + 1
    <2>1. CASE k = 1
      <3>1. Len(row[1]) \in Nat /\ off[k - 1] = 0
        BY <1>1, <1>8, <2>1
      <3> QED
        BY <1>11, <2>1, <3>1
    <2>2. CASE k # 1
      <3> DEFINE j == k - 1
      <3>1. j \in 1 .. n - 1 /\ j + 1 = k
        BY <1>1, <2>2
      <3> QED
        BY <1>12, <3>1
    <2> QED
      BY <2>1, <2>2
  <1>18. /\ 1 \in 1 .. n /\ n \in 1 .. n /\ n - 1 \in 0 .. n - 1
         /\ \A k \in 1 .. n : k - 1 \in 0 .. n - 1 /\ b[k] \in Nat \ {0} /\ Len(row[k]) \in Nat
    BY <1>1, <1>11
  <1>19. Len(t) = b[n] + Len(row[n]) - 1
    <2>1. b[n] + Len(row[n]) = Len(row[1]) + off[n - 1] + 1
      BY <1>13, <1>18
    <2>2. off[n - 1] \in Nat /\ Len(row[1]) \in Nat /\ b[n] \in Nat /\ Len(row[n]) \in Nat
      BY <1>10, <1>18
    <2>3. Len(t) = Len(row[1]) + Len(rest) /\ Len(rest) = off[n - 1]
      BY <1>7, <1>8
    <2> QED
      BY <2>1, <2>2, <2>3
  <1>20. ASSUME NEW k \in 1 .. n - 1
         PROVE  b[k + 1] = b[k] + Len(row[k]) + Len(sep)
    <2>1. k \in 1 .. n /\ k + 1 \in 1 .. n
      BY <1>1
    <2>2. b[k] + Len(row[k]) = Len(row[1]) + off[k - 1] + 1
      BY <1>13, <2>1
    <2>3. b[k + 1] = Len(row[1]) + off[k - 1] + Len(sep) + 1
      BY <1>12
    <2>4. off[k - 1] \in Nat /\ Len(row[1]) \in Nat /\ b[k] \in Nat /\ Len(row[k]) \in Nat
          /\ Len(sep) \in Nat
      BY <1>1, <1>10, <1>18, <2>1
    <2> QED
      BY <2>2, <2>3, <2>4
  \* What part j is in rest is at the same distance from row[1] in t.
  <1>14. ASSUME NEW j \in 1 .. n - 1, NEW i \in 1 .. Len(parts[j])
         PROVE  t[Len(row[1]) + off[j - 1] + i] = parts[j][i]
    <2>1. rest[off[j - 1] + i] = parts[j][i]
      BY <1>3, <1>5 DEF Layout
    <2>2. /\ off[j - 1] \in Nat /\ off[j] \in Nat /\ off[n - 1] \in Nat
          /\ Len(parts[j]) \in Nat /\ off[j] = off[j - 1] + Len(parts[j])
          /\ Len(row[1]) \in Nat
      <3>1. j - 1 \in 0 .. n - 1 /\ j \in 0 .. n - 1
        BY <1>1
      <3> QED
        BY <1>8, <1>9, <1>10, <1>18, <3>1
    <2>3. off[j] <= off[n - 1]
      <3>1. j \in 0 .. Len(parts) /\ n - 1 \in j .. Len(parts)
        BY <1>1, <1>3
      <3> QED
        BY <1>3, <1>5, <3>1, OffsetsGrow
    <2>4. off[j - 1] + i \in 1 .. Len(rest)
      <3>1. Len(rest) = off[n - 1] /\ i \in 1 .. Len(parts[j])
        BY <1>8
      <3> QED
        BY ONLY <2>2, <2>3, <3>1
    <2>5. Len(row[1]) + (off[j - 1] + i) = Len(row[1]) + off[j - 1] + i
      BY <2>2
    <2> QED
      BY <1>7, <2>1, <2>4, <2>5
  <1>15. ASSUME NEW k \in 1 .. n - 1, NEW i \in 1 .. Len(sep)
         PROVE  t[b[k] + Len(row[k]) + i - 1] = sep[i]
    <2>1. b[k] + Len(row[k]) + i - 1 = Len(row[1]) + off[k - 1] + i
      <3>1. k \in 1 .. n /\ k - 1 \in 0 .. n - 1
        BY <1>1
      <3>2. off[k - 1] \in Nat /\ Len(row[1]) \in Nat /\ b[k] \in Nat /\ Len(row[k]) \in Nat
            /\ Len(sep) \in Nat
        BY <1>1, <1>10, <1>18, <3>1
      <3>3. b[k] + Len(row[k]) = Len(row[1]) + off[k - 1] + 1 /\ i \in 1 .. Len(sep)
        BY <1>13, <3>1
      <3> QED
        BY <3>2, <3>3
    <2>2. i \in 1 .. Len(parts[k]) /\ parts[k][i] = sep[i]
      <3>1. k + 1 \in 1 .. n
        BY <1>1
      <3>2. Len(row[k + 1]) \in Nat /\ Len(sep) \in Nat
        BY <1>1, <3>1
      <3> QED
        BY <1>2, <1>9, <3>2
    <2> QED
      BY <1>14, <2>1, <2>2
  <1>16. ASSUME NEW k \in 1 .. n, NEW i \in 1 .. Len(row[k])
         PROVE  t[b[k] + i - 1] = row[k][i]
    <2>1. CASE k = 1
      <3>1. b[k] + i - 1 = i
        BY <1>11, <1>18, <2>1
      <3> QED
        BY <1>7, <2>1, <3>1
    <2>2. CASE k # 1
      <3> DEFINE j == k - 1
      <3>1. j \in 1 .. n - 1 /\ j + 1 = k /\ j - 1 \in 0 .. n - 1
        BY <1>1, <2>2
      <3> HIDE DEF j
      <3>2. b[k] = Len(row[1]) + off[j - 1] + Len(sep) + 1
        BY <1>12, <3>1
      <3>3. off[j - 1] \in Nat /\ Len(row[1]) \in Nat /\ Len(sep) \in Nat /\ Len(row[k]) \in Nat
        BY <1>1, <1>10, <1>18, <3>1
      <3>4. b[k] + i - 1 = Len(row[1]) + off[j - 1] + (Len(sep) + i)
        BY <3>2, <3>3
      <3>5. Len(parts[j]) = Len(sep) + Len(row[k]) /\ parts[j][Len(sep) + i] = row[k][i]
        BY <1>2, <1>9, <3>1
      <3>6. Len(sep) + i \in 1 .. Len(parts[j])
        BY <3>3, <3>5
      <3> QED
        BY <1>14, <3>1, <3>4, <3>5, <3>6
    <2> QED
      BY <2>1, <2>2
  <1>17. Spread(b, t, row, sep)
    BY <1>11, <1>15, <1>16, <1>19, <1>20 DEF Spread, n
  <1> QED
    BY <1>7, <1>17 DEF t
\* The cells and the separators of a row lie inside its line.
LEMMA SpreadInside ==
    ASSUME NEW S, NEW row \in RowsOf(S), NEW sep \in Seq(S), NEW t, NEW b,
           Spread(b, t, row, sep), NEW k \in 1 .. Len(row)
    PROVE  /\ b[k] \in Nat \ {0} /\ Len(row[k]) \in Nat
           /\ b[k] + Len(row[k]) <= Len(t) + 1
           /\ k < Len(row) => b[k] + Len(row[k]) + Len(sep) <= Len(t) + 1
  <1> DEFINE n == Len(row)
             T == {i \in 0 .. n - 1 : b[n - i] + Len(row[n - i]) <= Len(t) + 1}
  <1>1. n \in Nat \ {0} /\ Len(sep) \in Nat
        /\ \A j \in 1 .. n : b[j] \in Nat \ {0} /\ Len(row[j]) \in Nat
    <2>1. n \in Nat \ {0} /\ \A j \in 1 .. n : Len(row[j]) \in Nat
      BY DEF RowsOf
    <2>2. b \in [1 .. n -> Nat \ {0}]
      BY DEF Spread
    <2> HIDE DEF n
    <2> QED
      BY <2>1, <2>2
  <1>2. \A j \in 1 .. n - 1 : b[j + 1] = b[j] + Len(row[j]) + Len(sep)
    BY DEF Spread
  <1>3. Len(t) = b[n] + Len(row[n]) - 1
    BY DEF Spread
  <1>4. k \in 1 .. n
    OBVIOUS
  <1> HIDE DEF n
  <1>5. 0 \in T
    BY <1>1, <1>3
  <1>6. ASSUME NEW i \in 0 .. (n - 1) - 1, i \in T PROVE i + 1 \in T
    <2> DEFINE j == n - (i + 1)
    <2>1. j \in 1 .. n - 1 /\ j \in 1 .. n /\ j + 1 \in 1 .. n /\ n - i = j + 1
          /\ i + 1 \in 0 .. n - 1
      BY <1>1
    <2> HIDE DEF j
    <2>2. b[j + 1] = b[j] + Len(row[j]) + Len(sep)
      BY <1>2, <2>1
    <2>3. b[j + 1] + Len(row[j + 1]) <= Len(t) + 1
      BY <1>6, <2>1
    <2>4. b[j] \in Nat /\ Len(row[j]) \in Nat /\ Len(row[j + 1]) \in Nat /\ Len(t) \in Int
      BY <1>1, <1>3, <2>1
    <2>5. b[j] + Len(row[j]) <= Len(t) + 1
      BY <1>1, <2>2, <2>3, <2>4, SMTT(30)
    <2> QED
      BY <2>1, <2>5 DEF j
  <1>7. 0 .. n - 1 \subseteq T
    <2>1. n - 1 \in Nat
      BY <1>1
    <2> HIDE DEF T
    <2> QED
      BY <1>5, <1>6, <2>1, IntervalInduction
  <1>8. ASSUME NEW j \in 1 .. n PROVE b[j] + Len(row[j]) <= Len(t) + 1
    <2>1. n - j \in 0 .. n - 1 /\ n - (n - j) = j
      BY <1>1
    <2> QED
      BY <1>7, <2>1
  <1>9. ASSUME k < n PROVE b[k] + Len(row[k]) + Len(sep) <= Len(t) + 1
    <2>1. k \in 1 .. n - 1 /\ k + 1 \in 1 .. n
      BY <1>1, <1>4, <1>9
    <2>2. b[k + 1] = b[k] + Len(row[k]) + Len(sep)
      BY <1>2, <2>1
    <2>3. b[k + 1] + Len(row[k + 1]) <= Len(t) + 1
      BY <1>8, <2>1
    <2>4. b[k + 1] \in Nat /\ Len(row[k + 1]) \in Nat /\ Len(t) \in Int
      <3>1. n \in 1 .. n
        BY <1>1
      <3> QED
        BY <1>1, <1>3, <2>1, <3>1
    <2>5. b[k + 1] <= Len(t) + 1
      BY <2>3, <2>4, SMTT(30)
    <2> QED
      BY <2>2, <2>5
  <1> QED
    BY <1>1, <1>4, <1>8, <1>9 DEF n

\* The separators are at the ends of the cells.
LEMMA SepAtEnd ==
    ASSUME NEW S, NEW row \in RowsOf(S), NEW sep \in Seq(S), NEW t \in Seq(S), NEW b,
           Spread(b, t, row, sep), NEW k \in 1 .. Len(row), k < Len(row)
    PROVE  HasAt(sep, t, b[k] + Len(row[k]))
  <1> DEFINE z == b[k] + Len(row[k])
  <1>1. k \in 1 .. Len(row) - 1 /\ Len(sep) \in Nat /\ Len(t) \in Nat
    BY DEF RowsOf
  <1>2. b[k] \in Nat \ {0} /\ Len(row[k]) \in Nat /\ z + Len(sep) <= Len(t) + 1
    BY SpreadInside
  <1>3. \A i \in 1 .. Len(sep) : t[z + i - 1] = sep[i]
    BY <1>1 DEF Spread
  <1>4. z \in Nat \ {0}
    BY <1>2
  <1> HIDE DEF z
  <1>5. z + Len(sep) - 1 <= Len(t)
    BY <1>1, <1>2, <1>4
  <1>6. HasAt(sep, t, z)
    BY <1>3, <1>4, <1>5, HasAtElements
  <1> QED
    BY <1>6 DEF z

\* There is no separator that begins inside a cell.
LEMMA NoSepInside ==
    ASSUME NEW S, NEW row \in RowsOf(S), NEW sep \in Seq(S),
           NEW t \in Seq(S), NEW b, Spread(b, t, row, sep),
           NEW k \in 1 .. Len(row), EndsIn(sep, row[k]), NEW i \in 1 .. Len(row[k])
    PROVE  ~HasAt(sep, t, b[k] + i - 1)
  <1> DEFINE z == b[k] + i - 1
             m == Len(row[k])
             text == row[k] \o sep
  <1> SUFFICES ASSUME HasAt(sep, t, z) PROVE FALSE
    OBVIOUS
  <1>1. row[k] \in Seq(S) /\ Len(sep) \in Nat /\ Len(t) \in Nat /\ Len(row) \in Nat
    BY DEF RowsOf
  <1>2. b[k] \in Nat \ {0} /\ m \in Nat /\ i \in 1 .. m
    BY SpreadInside
  <1>3. z \in Nat \ {0} /\ i \in Nat \ {0}
    BY <1>2
  <1>4. /\ z + Len(sep) - 1 <= Len(t)
        /\ \A j \in 1 .. Len(sep) : sep[j] = t[z + j - 1]
    <2> HIDE DEF z
    <2> QED
      BY <1>3, HasAtElements
  <1>5. /\ text \in Seq(S) /\ Len(text) = m + Len(sep)
        /\ \A j \in 1 .. m : text[j] = row[k][j]
        /\ \A j \in 1 .. Len(sep) : text[m + j] = sep[j]
    BY <1>1, ConcatElements
  <1> HIDE DEF text
  \* In t, too, the cell is followed by a separator, or by nothing.
  <1>6. ASSUME NEW j \in 1 .. Len(sep) PROVE sep[j] = text[i + j - 1]
    <2> DEFINE y == i + j - 1
    <2>1. y \in Nat \ {0} /\ y <= m + Len(sep) /\ z + j - 1 = b[k] + y - 1
      BY ONLY Len(sep) \in Nat, <1>2, j \in 1 .. Len(sep), SMTT(30)
    <2>2. sep[j] = t[b[k] + y - 1]
      BY <1>4, <2>1
    <2> HIDE DEF y
    <2>3. CASE y <= m
      <3>1. y \in 1 .. m
        BY <1>2, <2>1, <2>3
      <3>2. t[b[k] + y - 1] = row[k][y]
        BY <3>1 DEF Spread
      <3> QED
        BY <1>5, <2>2, <3>1, <3>2 DEF y
    <2>4. CASE y > m
      <3>1. k < Len(row)
        <4> SUFFICES ASSUME k = Len(row) PROVE FALSE
          BY <1>1
        <4>1. Len(t) = b[k] + m - 1
          BY DEF Spread
        <4>2. z + j - 1 <= Len(t)
          <5> HIDE DEF z
          <5> QED
            BY <1>1, <1>3, <1>4
        <4> QED
          BY <1>2, <2>1, <2>4, <4>1, <4>2
      <3>2. k \in 1 .. Len(row) - 1 /\ y - m \in 1 .. Len(sep)
            /\ b[k] + m + (y - m) - 1 = b[k] + y - 1 /\ m + (y - m) = y
        <4>1. b[k] \in Nat /\ m \in Nat /\ Len(sep) \in Nat /\ Len(row) \in Nat
          BY <1>1, <1>2
        <4> HIDE DEF m
        <4> QED
          BY ONLY <2>1, <2>4, <3>1, <4>1, k \in 1 .. Len(row), SMTT(30)
      <3>3. t[b[k] + m + (y - m) - 1] = sep[y - m]
        BY <3>2 DEF Spread
      <3>4. text[m + (y - m)] = sep[y - m]
        BY <1>5, <3>2
      <3> QED
        BY <2>2, <3>2, <3>3, <3>4 DEF y
    <2> QED
      BY <1>2, <2>1, <2>3, <2>4
  <1>7. i + Len(sep) - 1 <= Len(text)
    BY <1>1, <1>2, <1>5
  <1>8. HasAt(sep, text, i)
    BY <1>3, <1>5, <1>6, <1>7, HasAtElements
  <1> QED
    BY <1>1, <1>8 DEF EndsIn, text
-----------------------------------------------------------------------------
(***************************************************************************)
(* The search for separators.                                              *)
(***************************************************************************)

Breaks == {"\n", "\r"}

\* What Begins has at z, by what it has further on.
BeginsAt(f, line, sep, z) ==
    IF z > Len(line) \/ line[z] \in Breaks THEN <<>>
    ELSE IF HasAt(sep, line, z) THEN <<z + Len(sep)>> \o f[z + Len(sep)]
    ELSE f[z + 1]

Scans(f, line, sep) == \A z \in 1 .. Len(line) + 1 : f[z] = BeginsAt(f, line, sep, z)

\* The function of Begins exists: its values depend on later ones only.
LEMMA BeginsScans ==
    ASSUME NEW S, NEW line \in Seq(S), Len(arg.sep) \in Nat \ {0}
    PROVE  \E f : Scans(f, line, arg.sep) /\ Begins(line) = <<1>> \o f[1]
  <1> DEFINE N == Len(line) + 1
             sep == arg.sep
             Graph(f) == [z \in 1 .. N |-> BeginsAt(f, line, sep, z)]
             begin == CHOOSE f : f = Graph(f)
             From(f, m) == /\ f = [z \in 1 .. N |-> f[z]]
                           /\ \A z \in N - m .. N : f[z] = BeginsAt(f, line, sep, z)
             T == {m \in 0 .. N - 1 : \E f : From(f, m)}
  <1>1. N \in Nat \ {0} /\ Len(line) = N - 1 /\ Len(sep) \in Nat \ {0}
    OBVIOUS
  <1>2. Begins(line) = <<1>> \o begin[1]
    BY Zenon DEF Begins, BeginsAt, Breaks
  <1> HIDE DEF N, begin
  <1>3. 0 \in T
    <2> DEFINE f == [z \in 1 .. N |-> <<>>]
    <2>1. f = [z \in 1 .. N |-> f[z]]
      OBVIOUS
    <2>2. N - 0 .. N = {N} /\ N > Len(line) /\ N \in 1 .. N
      BY <1>1
    <2>3. f[N] = <<>>
      BY <2>2
    <2> HIDE DEF f
    <2>4. BeginsAt(f, line, sep, N) = <<>>
      BY <2>2 DEF BeginsAt
    <2>5. From(f, 0)
      BY <2>1, <2>2, <2>3, <2>4
    <2> HIDE DEF From
    <2> QED
      BY <1>1, <2>5
  <1>4. ASSUME NEW m \in 0 .. (N - 1) - 1, m \in T PROVE m + 1 \in T
    <2>1. PICK f : From(f, m)
      BY <1>4
    <2> DEFINE y == N - (m + 1)
               g == [z \in 1 .. N |-> IF z = y THEN BeginsAt(f, line, sep, y) ELSE f[z]]
    <2>2. y \in 1 .. N - 1 /\ m + 1 \in 0 .. N - 1 /\ N - m = y + 1
      BY <1>1
    <2> HIDE DEF y
    <2>3. g = [z \in 1 .. N |-> g[z]]
      OBVIOUS
    <2>4. \A z \in 1 .. N : g[z] = IF z = y THEN BeginsAt(f, line, sep, y) ELSE f[z]
      OBVIOUS
    <2> HIDE DEF g
    <2>5. ASSUME NEW z \in y .. N
          PROVE  BeginsAt(g, line, sep, z) = BeginsAt(f, line, sep, z)
      <3>1. ASSUME z <= Len(line) PROVE g[z + 1] = f[z + 1]
        <4>1. z + 1 \in 1 .. N /\ z + 1 # y
          BY <1>1, <2>2, <3>1
        <4> QED
          BY <2>4, <4>1
      <3>2. ASSUME HasAt(sep, line, z) PROVE g[z + Len(sep)] = f[z + Len(sep)]
        <4>1. z + Len(sep) - 1 <= Len(line)
          BY <3>2 DEF HasAt
        <4>2. z + Len(sep) \in 1 .. N /\ z + Len(sep) # y
          BY <1>1, <2>2, <4>1
        <4> QED
          BY <2>4, <4>2
      <3>3. z \in Int /\ Len(line) \in Int
        BY <1>1, <2>2
      <3> QED
        BY <3>1, <3>2, <3>3 DEF BeginsAt
    <2>6. ASSUME NEW z \in N - (m + 1) .. N PROVE g[z] = BeginsAt(g, line, sep, z)
      <3>1. z \in y .. N /\ z \in 1 .. N
        BY <1>1, <2>2 DEF y
      <3>2. CASE z = y
        BY <2>4, <2>5, <3>1, <3>2
      <3>3. CASE z # y
        <4>1. z \in N - m .. N
          BY <1>1, <2>2, <3>1, <3>3
        <4>2. f[z] = BeginsAt(f, line, sep, z)
          BY <2>1, <4>1
        <4> QED
          BY <2>4, <2>5, <3>1, <3>3, <4>2
      <3> QED
        BY <3>2, <3>3
    <2>7. From(g, m + 1)
      BY <2>3, <2>6
    <2> HIDE DEF From
    <2> QED
      BY <2>2, <2>7
  <1>5. 0 .. N - 1 \subseteq T
    <2>1. N - 1 \in Nat
      BY <1>1
    <2> HIDE DEF T
    <2> QED
      BY <1>3, <1>4, <2>1, IntervalInduction
  <1>6. PICK f : From(f, N - 1)
    <2>1. N - 1 \in T
      BY <1>1, <1>5
    <2> HIDE DEF From
    <2> QED
      BY <2>1
  <1>7. begin = Graph(begin)
    <2>1. ASSUME NEW z \in 1 .. N PROVE f[z] = BeginsAt(f, line, sep, z)
      <3>1. z \in N - (N - 1) .. N
        BY <1>1
      <3> QED
        BY <1>6, <3>1
    <2>2. f = Graph(f)
      BY <1>6, <2>1
    <2> QED
      BY <2>2, Zenon DEF begin
  <1>8. \A z \in 1 .. N : begin[z] = BeginsAt(begin, line, sep, z)
    BY <1>7
  <1>9. Scans(begin, line, sep)
    BY <1>8 DEF Scans, N
  <1> QED
    BY <1>2, <1>9

\* A text without a character.
LEMMA OccursChar ==
    ASSUME NEW S, NEW text \in Seq(S), NEW c, ~Occurs(<<c>>, text),
           NEW i \in 1 .. Len(text)
    PROVE  text[i] # c
  <1> SUFFICES ASSUME text[i] = c PROVE FALSE
    OBVIOUS
  <1>1. <<c>> \in Seq(S) /\ Len(<<c>>) = 1 /\ i \in Nat \ {0} /\ Len(text) \in Nat
    <2>1. c \in S
      BY ElementOfSeq
    <2> QED
      BY <2>1
  <1>2. \A j \in 1 .. Len(<<c>>) : <<c>>[j] = text[i + j - 1]
    BY <1>1
  <1>3. i + Len(<<c>>) - 1 <= Len(text)
    BY <1>1
  <1>4. HasAt(<<c>>, text, i)
    BY <1>1, <1>2, <1>3, HasAtElements
  <1> QED
    BY <1>4 DEF Occurs
\* A separator, and a row that is written with it without line breaks before the
\* last cell.
Separates(S, sep, row) ==
    /\ sep \in Seq(S) /\ sep # <<>>
    /\ \A k \in 1 .. Len(row) : EndsIn(sep, row[k])
    /\ \A k \in 1 .. Len(row) - 1 :
           sep[1] \notin Breaks /\ \A c \in Breaks : ~Occurs(<<c>>, row[k])

\* A cell is passed over; what follows is a separator and the next cell.
LEMMA CellScanned ==
    ASSUME NEW S, NEW row \in RowsOf(S), NEW sep, Separates(S, sep, row),
           NEW t \in Seq(S), NEW b, Spread(b, t, row, sep), NEW f, Scans(f, t, sep),
           NEW k \in 1 .. Len(row) - 1
    PROVE  f[b[k]] = <<b[k + 1]>> \o f[b[k + 1]]
  <1> DEFINE m == Len(row[k])
             T == {i \in 0 .. m : f[b[k]] = f[b[k] + i]}
  <1>1. k \in 1 .. Len(row) /\ k < Len(row) /\ sep \in Seq(S) /\ Len(sep) \in Nat \ {0}
        /\ row[k] \in Seq(S) /\ Len(t) \in Nat
    <2>1. Len(row) \in Nat
      BY DEF RowsOf
    <2> QED
      BY <2>1 DEF RowsOf, Separates
  <1>2. /\ b[k] \in Nat \ {0} /\ m \in Nat
        /\ b[k] + m + Len(sep) <= Len(t) + 1
    BY <1>1, SpreadInside
  <1>3. 0 \in T
    BY <1>2
  <1>4. ASSUME NEW i \in 0 .. m - 1, i \in T PROVE i + 1 \in T
    <2> DEFINE z == b[k] + i
    <2>1. z \in 1 .. Len(t) + 1 /\ z <= Len(t) /\ z = b[k] + (i + 1) - 1
          /\ z + 1 = b[k] + (i + 1) /\ i + 1 \in 1 .. m /\ i + 1 \in 0 .. m
      <3> HIDE DEF m
      <3>1. b[k] + i <= Len(t)
        BY <1>1, <1>2, SMTT(30)
      <3>2. i \in Nat /\ i < m
        BY <1>2
      <3>3. /\ z = b[k] + (i + 1) - 1 /\ z + 1 = b[k] + (i + 1)
            /\ i + 1 \in 1 .. m /\ i + 1 \in 0 .. m
        BY ONLY <1>2, <3>2, SMTT(30)
      <3>4. b[k] + i \in 1 .. Len(t) + 1
        BY ONLY Len(t) \in Nat, <1>2, <3>1, <3>2
      <3> QED
        BY <3>1, <3>3, <3>4
    <2>2. t[z] = row[k][i + 1]
      BY <1>1, <2>1 DEF Spread
    <2>3. t[z] \notin Breaks
      <3>1. \A c \in Breaks : ~Occurs(<<c>>, row[k])
        BY DEF Separates
      <3> QED
        BY <1>1, <2>1, <2>2, <3>1, OccursChar
    <2>4. ~HasAt(sep, t, z)
      <3>1. EndsIn(sep, row[k])
        BY <1>1 DEF Separates
      <3> QED
        BY <1>1, <2>1, <3>1, NoSepInside
    <2> HIDE DEF z
    <2>5. f[z] = f[z + 1]
      <3>1. f[z] = BeginsAt(f, t, sep, z)
        BY <2>1 DEF Scans
      <3>2. ~(z > Len(t))
        BY <1>1, <2>1
      <3> QED
        BY <2>3, <2>4, <3>1, <3>2 DEF BeginsAt
    <2> QED
      BY <1>4, <2>1, <2>5 DEF z
  <1>5. m \in T
    <2> HIDE DEF T, m
    <2>1. 0 .. m \subseteq T
      BY <1>2, <1>3, <1>4, IntervalInduction
    <2> QED
      BY <1>2, <2>1
  <1> DEFINE y == b[k] + m
  <1>6. y \in 1 .. Len(t) + 1 /\ ~(y > Len(t)) /\ y + Len(sep) = b[k + 1]
    <2>1. b[k + 1] = b[k] + Len(row[k]) + Len(sep)
      BY DEF Spread
    <2> QED
      BY <1>1, <1>2, <2>1
  <1>7. t[y] \notin Breaks
    <2>1. 1 \in 1 .. Len(sep) /\ b[k] + Len(row[k]) + 1 - 1 = y
      BY <1>1, <1>2
    <2>2. t[y] = sep[1]
      BY <2>1 DEF Spread
    <2> QED
      BY <2>2 DEF Separates
  <1>8. HasAt(sep, t, y)
    BY <1>1, SepAtEnd
  <1>9. f[b[k]] = f[y]
    BY <1>5
  <1> HIDE DEF y
  <1>10. f[y] = BeginsAt(f, t, sep, y)
    BY <1>6 DEF Scans
  <1> QED
    BY <1>6, <1>7, <1>8, <1>9, <1>10 DEF BeginsAt

\* There is nothing to find in the last cell.
LEMMA LastCellScanned ==
    ASSUME NEW S, NEW row \in RowsOf(S), NEW sep, Separates(S, sep, row),
           NEW t \in Seq(S), NEW b, Spread(b, t, row, sep), NEW f, Scans(f, t, sep)
    PROVE  f[b[Len(row)]] = <<>>
  <1> DEFINE n == Len(row)
             m == Len(row[n])
             T == {i \in 0 .. m : f[b[n] + (m - i)] = <<>>}
  <1>1. n \in 1 .. Len(row) /\ sep \in Seq(S) /\ Len(t) \in Nat
    BY DEF RowsOf, Separates
  <1>2. b[n] \in Nat \ {0} /\ m \in Nat
    BY <1>1, SpreadInside
  <1>3. Len(t) = b[n] + m - 1
    BY DEF Spread
  <1>4. 0 \in T
    <2> DEFINE z == b[n] + (m - 0)
    <2>1. z \in 1 .. Len(t) + 1 /\ z > Len(t)
      <3> HIDE DEF m
      <3> QED
        BY <1>1, <1>2, <1>3
    <2> HIDE DEF z
    <2>2. f[z] = <<>>
      BY <2>1 DEF Scans, BeginsAt
    <2>3. f[b[n] + (m - 0)] = <<>>
      BY <2>2 DEF z
    <2> HIDE DEF m
    <2> QED
      BY <1>2, <2>3
  <1>5. ASSUME NEW i \in 0 .. m - 1, i \in T PROVE i + 1 \in T
    <2> DEFINE z == b[n] + (m - (i + 1))
    <2>1. /\ z \in 1 .. Len(t) + 1 /\ ~(z > Len(t)) /\ z = b[n] + (m - i) - 1
          /\ z + 1 = b[n] + (m - i) /\ m - i \in 1 .. m /\ i + 1 \in 0 .. m
      <3>1. i \in Nat /\ i < m /\ m \in Nat /\ b[n] \in Nat \ {0} /\ Len(t) = b[n] + m - 1
        BY <1>2, <1>3
      <3> HIDE DEF m, n
      <3> QED
        BY ONLY <3>1
    <2>2. ~HasAt(sep, t, z)
      <3>1. EndsIn(sep, row[n])
        BY <1>1 DEF Separates
      <3> QED
        BY <1>1, <2>1, <3>1, NoSepInside
    <2> HIDE DEF z
    <2>3. f[z] = BeginsAt(f, t, sep, z)
      BY <2>1 DEF Scans
    <2>4. f[z + 1] = <<>>
      BY <1>5, <2>1
    <2>5. f[z] = <<>>
      BY <2>1, <2>2, <2>3, <2>4 DEF BeginsAt
    <2> QED
      BY <2>1, <2>5 DEF z
  <1>6. 0 .. m \subseteq T
    <2> HIDE DEF T, m
    <2> QED
      BY <1>2, <1>4, <1>5, IntervalInduction
  <1>7. m \in T /\ b[n] + (m - m) = b[n]
    <2> HIDE DEF T, m
    <2> QED
      BY <1>2, <1>6
  <1> QED
    BY <1>7

\* The fields begin where the cells begin.
LEMMA RowScanned ==
    ASSUME NEW S, NEW row \in RowsOf(S), NEW sep, Separates(S, sep, row),
           NEW t \in Seq(S), NEW b, Spread(b, t, row, sep), NEW f, Scans(f, t, sep)
    PROVE  <<1>> \o f[1] = b
  <1> DEFINE n == Len(row)
             Rest(i) == [q \in 1 .. i |-> b[n - i + q]]
             T == {i \in 0 .. n - 1 : f[b[n - i]] = Rest(i)}
  <1>1. n \in Nat \ {0}
    BY DEF RowsOf
  <1>2. b \in [1 .. n -> Nat \ {0}] /\ b[1] = 1
    BY DEF Spread
  <1>3. \A k \in 1 .. n - 1 : f[b[k]] = <<b[k + 1]>> \o f[b[k + 1]]
    BY CellScanned
  <1>4. f[b[n]] = <<>>
    BY LastCellScanned
  <1> HIDE DEF n
  <1>5. ASSUME NEW i \in 0 .. n - 1
        PROVE  /\ Rest(i) \in Seq(Nat) /\ Len(Rest(i)) = i
               /\ \A q \in 1 .. i : Rest(i)[q] = b[n - i + q]
    <2>1. i \in Nat /\ \A q \in 1 .. i : b[n - i + q] \in Nat
      BY <1>1, <1>2
    <2> QED
      BY <2>1
  <1> HIDE DEF Rest
  <1>6. 0 \in T
    <2>1. Rest(0) = <<>>
      BY <1>1, <1>5
    <2> QED
      BY <1>1, <1>4, <2>1
  <1>7. ASSUME NEW i \in 0 .. (n - 1) - 1, i \in T PROVE i + 1 \in T
    <2> DEFINE k == n - (i + 1)
    <2>1. k \in 1 .. n - 1 /\ k + 1 = n - i /\ i \in 0 .. n - 1 /\ i + 1 \in 0 .. n - 1
          /\ k + 1 \in 1 .. n
      BY <1>1
    <2> HIDE DEF k
    <2>2. f[b[k]] = <<b[k + 1]>> \o Rest(i)
      BY <1>3, <1>7, <2>1
    <2>3. <<b[k + 1]>> \in Seq(Nat) /\ Len(<<b[k + 1]>>) = 1
      BY <1>2, <2>1
    <2>4. /\ <<b[k + 1]>> \o Rest(i) \in Seq(Nat)
          /\ Len(<<b[k + 1]>> \o Rest(i)) = 1 + i
          /\ \A q \in 1 .. 1 : (<<b[k + 1]>> \o Rest(i))[q] = <<b[k + 1]>>[q]
          /\ \A q \in 1 .. i : (<<b[k + 1]>> \o Rest(i))[1 + q] = Rest(i)[q]
      <3> DEFINE c == <<b[k + 1]>>
                 r == Rest(i)
      <3>1. c \in Seq(Nat) /\ Len(c) = 1 /\ Rest(i) \in Seq(Nat) /\ Len(Rest(i)) = i
        BY <1>5, <2>1, <2>3
      <3> HIDE DEF c, r
      <3>2. /\ c \o r \in Seq(Nat) /\ Len(c \o r) = Len(c) + Len(r)
            /\ \A q \in 1 .. Len(c) : (c \o r)[q] = c[q]
            /\ \A q \in 1 .. Len(r) : (c \o r)[Len(c) + q] = r[q]
        <4>1. c \in Seq(Nat) /\ r \in Seq(Nat)
          BY <3>1 DEF r
        <4> QED
          BY ONLY <4>1, ConcatElements
      <3>3. Len(c) = 1 /\ Len(r) = i
        BY <3>1 DEF r
      <3>4. /\ c \o r \in Seq(Nat) /\ Len(c \o r) = 1 + i
            /\ \A q \in 1 .. 1 : (c \o r)[q] = c[q]
            /\ \A q \in 1 .. i : (c \o r)[1 + q] = r[q]
        BY ONLY <3>2, <3>3, Zenon
      <3> QED
        BY <3>4, Zenon DEF c, r
    <2>5. ASSUME NEW q \in 1 .. i + 1
          PROVE  (<<b[k + 1]>> \o Rest(i))[q] = Rest(i + 1)[q]
      <3>1. Rest(i + 1)[q] = b[n - (i + 1) + q]
        BY <1>5, <2>1
      <3>2. CASE q = 1
        <4>1. n - (i + 1) + q = k + 1
          BY <1>1, <3>2 DEF k
        <4> QED
          BY <2>4, <3>1, <3>2, <4>1
      <3>3. CASE q # 1
        <4> DEFINE p == q - 1
        <4>1. p \in 1 .. i /\ 1 + p = q /\ n - i + p = n - (i + 1) + q
          BY ONLY <1>1, <3>3, i \in 0 .. (n - 1) - 1, q \in 1 .. i + 1
        <4>2. (<<b[k + 1]>> \o Rest(i))[1 + p] = Rest(i)[p]
          BY <2>4, <4>1
        <4>3. Rest(i)[p] = b[n - i + p]
          BY <1>5, <2>1, <4>1
        <4> QED
          BY <3>1, <4>1, <4>2, <4>3
      <3> QED
        BY <3>2, <3>3
    <2>6. /\ Rest(i + 1) \in Seq(Nat) /\ Len(Rest(i + 1)) = i + 1 /\ 1 + i = i + 1
          /\ i + 1 \in Nat
      BY <1>5, <2>1
    <2>7. <<b[k + 1]>> \o Rest(i) = Rest(i + 1)
      BY <2>4, <2>5, <2>6, SeqEqual
    <2>8. f[b[n - (i + 1)]] = Rest(i + 1)
      BY <2>2, <2>7 DEF k
    <2> QED
      BY <2>1, <2>8
  <1>8. n - 1 \in T
    <2>1. n - 1 \in Nat
      BY <1>1
    <2> HIDE DEF T
    <2>2. 0 .. n - 1 \subseteq T
      BY <1>6, <1>7, <2>1, IntervalInduction
    <2> QED
      BY <2>1, <2>2
  <1>9. f[1] = Rest(n - 1)
    <2>1. n - (n - 1) = 1
      BY <1>1
    <2> QED
      BY <1>2, <1>8, <2>1
  <1>10. /\ <<1>> \in Seq(Nat) /\ Len(<<1>>) = 1 /\ n - 1 \in 0 .. n - 1
         /\ b \in Seq(Nat) /\ Len(b) = n
    BY <1>1, <1>2
  <1>11. /\ <<1>> \o Rest(n - 1) \in Seq(Nat)
         /\ Len(<<1>> \o Rest(n - 1)) = 1 + (n - 1)
         /\ \A q \in 1 .. 1 : (<<1>> \o Rest(n - 1))[q] = <<1>>[q]
         /\ \A q \in 1 .. n - 1 : (<<1>> \o Rest(n - 1))[1 + q] = Rest(n - 1)[q]
    BY <1>5, <1>10, ConcatElements
  <1>12. ASSUME NEW q \in 1 .. n PROVE (<<1>> \o Rest(n - 1))[q] = b[q]
    <2>1. CASE q = 1
      BY <1>2, <1>11, <2>1
    <2>2. CASE q # 1
      <3> DEFINE p == q - 1
      <3>1. p \in 1 .. n - 1 /\ 1 + p = q /\ n - (n - 1) + p = q
        BY <1>1, <2>2
      <3> HIDE DEF p
      <3>2. (<<1>> \o Rest(n - 1))[q] = Rest(n - 1)[p]
        BY <1>11, <3>1
      <3>3. Rest(n - 1)[p] = b[n - (n - 1) + p]
        BY <1>5, <1>10, <3>1
      <3> QED
        BY <3>1, <3>2, <3>3
    <2> QED
      BY <2>1, <2>2
  <1>13. <<1>> \o Rest(n - 1) = b
    <2>1. 1 + (n - 1) = n
      BY <1>1
    <2> QED
      BY <1>10, <1>11, <1>12, <2>1, SeqEqual
  <1> QED
    BY <1>9, <1>13
\* A line that is read as it was written is cut into its cells.
LEMMA FieldsOfRow ==
    ASSUME NEW S, NEW row \in RowsOf(S), Separates(S, arg.sep, row)
    PROVE  Fields(Joined(row, arg.sep)) = row
  <1> DEFINE n == Len(row)
             sep == arg.sep
             t == Joined(row, sep)
  <1>1. /\ n \in Nat \ {0} /\ sep \in Seq(S) /\ Len(sep) \in Nat \ {0}
        /\ \A k \in 1 .. n : row[k] \in Seq(S) /\ Len(row[k]) \in Nat
        /\ row \in Seq(Seq(S))
    BY DEF RowsOf, Separates
  <1>2. t \in Seq(S) /\ Len(t) \in Nat
    BY <1>1, JoinedLayout
  <1>3. PICK b : Spread(b, t, row, sep)
    BY <1>1, JoinedLayout
  <1>4. Begins(t) = b
    <2>1. PICK f : Scans(f, t, sep) /\ Begins(t) = <<1>> \o f[1]
      <3> HIDE DEF t
      <3> QED
        BY <1>1, <1>2, BeginsScans
    <2> HIDE DEF t, sep
    <2>2. Separates(S, sep, row)
      BY DEF sep
    <2> QED
      BY <1>2, <1>3, <2>1, <2>2, RowScanned
  <1>5. b \in [1 .. n -> Nat \ {0}] /\ Len(b) = n /\ DOMAIN b = 1 .. n
    <2>1. b \in [1 .. n -> Nat \ {0}]
      BY <1>3 DEF Spread
    <2> HIDE DEF n
    <2> QED
      BY <1>1, <2>1
  <1> DEFINE Stop(k) == IF k = n THEN Len(t) ELSE b[k + 1] - Len(sep) - 1
  <1>6. Fields(t) = [k \in 1 .. n |-> SubSeq(t, b[k], Stop(k))]
    <2> HIDE DEF t, n
    <2> QED
      BY <1>4, <1>5 DEF Fields
  <1>7. ASSUME NEW k \in 1 .. n PROVE SubSeq(t, b[k], Stop(k)) = row[k]
    <2>1. Stop(k) = b[k] + Len(row[k]) - 1
      <3>1. CASE k = n
        BY <1>3, <3>1 DEF Spread
      <3>2. CASE k # n
        <4>1. k \in 1 .. n - 1
          BY <1>1, <3>2
        <4>2. b[k + 1] = b[k] + Len(row[k]) + Len(sep)
          BY <1>3, <4>1 DEF Spread
        <4>3. b[k] \in Nat /\ Len(row[k]) \in Nat /\ Len(sep) \in Nat
          BY <1>1, <1>5
        <4>4. b[k + 1] - Len(sep) - 1 = b[k] + Len(row[k]) - 1
          BY <4>2, <4>3, SMTT(30)
        <4> QED
          BY <3>2, <4>4
      <3> QED
        BY <3>1, <3>2
    <2>2. b[k] \in Nat \ {0} /\ Len(row[k]) \in Nat /\ b[k] + Len(row[k]) <= Len(t) + 1
      <3> HIDE DEF t, sep
      <3> QED
        BY <1>1, <1>3, SpreadInside
    <2> DEFINE e == b[k] + Len(row[k]) - 1
    <2>3. b[k] \in 1 .. Len(t) + 1 /\ e \in b[k] - 1 .. Len(t) /\ e - b[k] + 1 = Len(row[k])
      BY ONLY Len(t) \in Nat, <2>2
    <2> HIDE DEF e
    <2>4. /\ SubSeq(t, b[k], e) \in Seq(S) /\ Len(SubSeq(t, b[k], e)) = Len(row[k])
          /\ \A i \in 1 .. Len(row[k]) : SubSeq(t, b[k], e)[i] = t[b[k] + i - 1]
      <3> HIDE DEF t
      <3> QED
        BY <1>2, <2>3, PartOf, SMTT(30)
    <2>5. \A i \in 1 .. Len(row[k]) : t[b[k] + i - 1] = row[k][i]
      BY <1>3 DEF Spread
    <2>6. row[k] \in Seq(S)
      BY <1>1
    <2>7. SubSeq(t, b[k], e) = row[k]
      <3> HIDE DEF t
      <3> QED
        BY <2>4, <2>5, <2>6, SeqEqual
    <2> QED
      BY <2>1, <2>7 DEF e
  <1> HIDE DEF n, t, Stop
  <1>8. Fields(t) = [k \in 1 .. n |-> row[k]]
    BY <1>6, <1>7
  <1>9. row = [k \in 1 .. n |-> row[k]]
    BY <1>1 DEF n
  <1> QED
    BY <1>8, <1>9 DEF t

\* Only a row with one empty cell makes an empty line.
LEMMA EmptyLine ==
    ASSUME NEW S, NEW row \in RowsOf(S), NEW sep \in Seq(S), sep # <<>>
    PROVE  Joined(row, sep) = <<>> <=> row = <<<<>>>>
  <1> DEFINE t == Joined(row, sep)
  <1>1. t \in Seq(S)
    BY JoinedLayout
  <1>2. PICK b : Spread(b, t, row, sep)
    BY JoinedLayout
  <1> HIDE DEF t
  <1>3. /\ Len(row) \in Nat \ {0} /\ Len(sep) \in Nat \ {0} /\ Len(t) \in Nat
        /\ row \in Seq(Seq(S)) /\ row[1] \in Seq(S) /\ Len(row[1]) \in Nat
    BY <1>1 DEF RowsOf
  <1>4. b[1] = 1 /\ Len(t) = b[Len(row)] + Len(row[Len(row)]) - 1
    BY <1>2 DEF Spread
  <1>5. ASSUME t = <<>> PROVE row = <<<<>>>>
    <2>1. Len(t) = 0
      BY <1>5
    <2>2. Len(row) = 1
      <3> SUFFICES ASSUME Len(row) # 1 PROVE FALSE
        OBVIOUS
      <3>1. 1 \in 1 .. Len(row) /\ 1 < Len(row)
        <4>1. \A n \in Nat \ {0} : n # 1 => 1 \in 1 .. n /\ 1 < n
          OBVIOUS
        <4> QED
          BY <1>3, <4>1
      <3>2. b[1] + Len(row[1]) + Len(sep) <= Len(t) + 1
        BY <1>2, <3>1, SpreadInside
      <3>3. 1 + Len(row[1]) + Len(sep) <= 1
        BY <1>4, <2>1, <3>2
      <3> QED
        BY <1>3, <3>3, SMTT(30)
    <2>3. Len(row[1]) = 0
      BY <1>3, <1>4, <2>1, <2>2
    <2>4. row[1] = <<>>
      BY <1>3, <2>3
    <2> QED
      BY <1>3, <2>2, <2>4
  <1>6. ASSUME row = <<<<>>>> PROVE t = <<>>
    <2>1. Len(row) = 1 /\ Len(row[1]) = 0
      BY <1>6
    <2>2. Len(t) = 0
      BY <1>3, <1>4, <2>1
    <2> QED
      BY <1>1, <2>2
  <1> QED
    BY <1>5, <1>6 DEF t
-----------------------------------------------------------------------------
(***************************************************************************)
(* The file and its lines.                                                 *)
(***************************************************************************)

Chars == STRING

LEMMA ArgTypes ==
    ASSUME NEW a, ArgOK(a)
    PROVE  /\ Len(a.data) \in Nat /\ DOMAIN a.data = 1 .. Len(a.data)
           /\ \A j \in 1 .. Len(a.data) : a.data[j] \in RowsOf(Chars)
           /\ a.data = <<>> <=> Len(a.data) = 0
           /\ a.sep \in Seq(Chars) /\ Len(a.sep) \in Nat
           /\ a.sep # <<>> => Len(a.sep) # 0
           /\ a.eol \in Seq(Chars) /\ Len(a.eol) \in Nat \ {0}
           /\ a.skip \in Nat /\ a.nCol \in Nat \ {0} /\ a.ended \in BOOLEAN
           /\ Leftovers \subseteq Seq(Chars)
  <1>1. /\ a.data \in Tables /\ a.sep \in Seps /\ a.eol \in Eols /\ a.skip \in Skips
        /\ a.nCol \in Columns /\ a.ended \in BOOLEAN
    BY DEF ArgOK
  <1>2. a.data \in Seq(RowsOf(Chars))
    BY <1>1, TextsAssumption DEF RowsOf, Chars
  <1>3. a.sep \in Seq(Chars) /\ a.eol \in Seq(Chars) /\ Leftovers \subseteq Seq(Chars)
    BY <1>1, TextsAssumption DEF Chars
  <1>4. /\ Len(a.data) \in Nat /\ DOMAIN a.data = 1 .. Len(a.data)
        /\ \A j \in 1 .. Len(a.data) : a.data[j] \in RowsOf(Chars)
        /\ a.data = <<>> <=> Len(a.data) = 0
    BY <1>2
  <1>6. a.eol # <<>>
    BY <1>1, EolsAssumption
  <1>7. a.skip \in Nat /\ a.nCol \in Nat \ {0}
    BY <1>1, SkipsAssumption
  <1>8. /\ Len(a.sep) \in Nat /\ (a.sep # <<>> => Len(a.sep) # 0)
        /\ Len(a.eol) \in Nat \ {0}
    BY <1>3, <1>6
  <1> QED
    BY <1>1, <1>3, <1>4, <1>7, <1>8

LEMMA LinesTypes ==
    ASSUME NEW a, ArgOK(a)
    PROVE  /\ Lines(a) \in Seq(Seq(Chars)) /\ Len(Lines(a)) = Len(a.data)
           /\ \A j \in 1 .. Len(a.data) :
                  /\ LineOf(a, j) \in Seq(Chars) /\ Len(LineOf(a, j)) \in Nat
                  /\ Len(Lines(a)[j]) = Len(LineOf(a, j)) + Len(a.eol)
                  /\ \A i \in 1 .. Len(LineOf(a, j)) : Lines(a)[j][i] = LineOf(a, j)[i]
                  /\ \A i \in 1 .. Len(a.eol) :
                         Lines(a)[j][Len(LineOf(a, j)) + i] = a.eol[i]
  <1>1. ASSUME NEW j \in 1 .. Len(a.data)
        PROVE  /\ LineOf(a, j) \in Seq(Chars) /\ Len(LineOf(a, j)) \in Nat
               /\ LineOf(a, j) \o a.eol \in Seq(Chars)
               /\ Len(LineOf(a, j) \o a.eol) = Len(LineOf(a, j)) + Len(a.eol)
               /\ \A i \in 1 .. Len(LineOf(a, j)) : (LineOf(a, j) \o a.eol)[i] = LineOf(a, j)[i]
               /\ \A i \in 1 .. Len(a.eol) :
                      (LineOf(a, j) \o a.eol)[Len(LineOf(a, j)) + i] = a.eol[i]
    <2>1. a.data[j] \in RowsOf(Chars) /\ a.sep \in Seq(Chars) /\ a.eol \in Seq(Chars)
      BY ArgTypes
    <2>2. LineOf(a, j) \in Seq(Chars)
      BY <2>1, JoinedLayout DEF LineOf
    <2> QED
      BY <2>1, <2>2, ConcatElements
  <1>2. Len(a.data) \in Nat /\ DOMAIN a.data = 1 .. Len(a.data)
    BY ArgTypes
  <1>3. Lines(a) = [j \in 1 .. Len(a.data) |-> LineOf(a, j) \o a.eol]
    BY <1>2 DEF Lines
  <1>4. \A j \in 1 .. Len(a.data) : Lines(a)[j] = LineOf(a, j) \o a.eol
    BY <1>3
  <1>5. Lines(a) \in Seq(Seq(Chars)) /\ Len(Lines(a)) = Len(a.data)
    BY <1>1, <1>2, <1>3
  <1> QED
    BY <1>1, <1>4, <1>5

LEMMA LineEndsOffsets ==
    ASSUME NEW a, ArgOK(a)
    PROVE  Offsets(LineEnds(a), Lines(a))
  <1> DEFINE N == Len(a.data)
             Graph(f) == [l \in 0 .. N |-> IF l = 0 THEN 0 ELSE f[l - 1] + Len(Lines(a)[l])]
             ends == CHOOSE f : f = Graph(f)
  <1>1. N \in Nat /\ Len(Lines(a)) = N
    BY ArgTypes, LinesTypes
  <1>2. LineEnds(a) = ends
    BY Zenon DEF LineEnds
  <1>3. PICK off : Offsets(off, Lines(a))
    BY LinesTypes, FlattenSeqLayout
  <1>4. /\ off \in [0 .. N -> Nat] /\ off[0] = 0
        /\ \A l \in 1 .. N : off[l] = off[l - 1] + Len(Lines(a)[l])
    BY <1>1, <1>3 DEF Offsets
  <1> HIDE DEF N, ends
  <1>5. ends = Graph(ends)
    <2>1. off = Graph(off)
      <3>1. \A l \in 0 .. N : l # 0 => l \in 1 .. N
        BY <1>1
      <3>2. off = [l \in 0 .. N |-> off[l]]
        BY <1>4
      <3>3. \A l \in 0 .. N : off[l] = Graph(off)[l]
        BY <1>4, <3>1
      <3> QED
        BY <3>2, <3>3
    <2> QED
      BY <2>1, Zenon DEF ends
  <1>6. \A l \in 0 .. N : ends[l] = IF l = 0 THEN 0 ELSE ends[l - 1] + Len(Lines(a)[l])
    BY <1>5
  <1> DEFINE T == {l \in 0 .. N : ends[l] = off[l]}
  <1>7. 0 \in T
    BY <1>1, <1>4, <1>6
  <1>8. ASSUME NEW l \in 0 .. N - 1, l \in T PROVE l + 1 \in T
    <2>1. l + 1 \in 0 .. N /\ l + 1 \in 1 .. N /\ l + 1 # 0 /\ (l + 1) - 1 = l
      BY <1>1
    <2>2. ends[l + 1] = ends[l] + Len(Lines(a)[l + 1])
      BY <1>6, <2>1
    <2>3. off[l + 1] = off[l] + Len(Lines(a)[l + 1])
      BY <1>4, <2>1
    <2> QED
      BY <1>8, <2>1, <2>2, <2>3
  <1>9. 0 .. N \subseteq T
    <2> HIDE DEF T
    <2> QED
      BY <1>1, <1>7, <1>8, IntervalInduction
  <1>10. ends = off
    <2>1. ends = [l \in 0 .. N |-> ends[l]]
      BY <1>5
    <2>2. off = [l \in 0 .. N |-> off[l]]
      BY <1>4
    <2>3. \A l \in 0 .. N : ends[l] = off[l]
      BY <1>9
    <2> QED
      BY <2>1, <2>2, <2>3
  <1> QED
    BY <1>2, <1>3, <1>10
\* How many characters come up to the end of a line.
LEMMA LineEndsSteps ==
    ASSUME NEW a, ArgOK(a)
    PROVE  /\ LineEnds(a)[0] = 0
           /\ \A j \in 0 .. Len(a.data) : LineEnds(a)[j] \in Nat
           /\ \A j \in 1 .. Len(a.data) :
                  /\ LineEnds(a)[j] = LineEnds(a)[j - 1] + Len(LineOf(a, j)) + Len(a.eol)
                  /\ LineEnds(a)[j] <= LineEnds(a)[Len(a.data)]
                  /\ j < Len(a.data) =>
                         LineEnds(a)[j] <= LineEnds(a)[Len(a.data)] - Len(a.eol)
           /\ Cut(a) \in Nat /\ Cut(a) <= Len(a.eol)
           /\ Cut(a) <= LineEnds(a)[Len(a.data)]
  <1> DEFINE n == Len(a.data)
             m == Len(a.eol)
             E == LineEnds(a)
  <1>1. /\ n \in Nat /\ m \in Nat \ {0} /\ a.ended \in BOOLEAN
        /\ a.data = <<>> <=> n = 0
    BY ArgTypes
  <1>2. Offsets(E, Lines(a)) /\ Len(Lines(a)) = n
    BY LineEndsOffsets, LinesTypes
  <1>3. E[0] = 0 /\ E \in [0 .. n -> Nat] /\ \A j \in 1 .. n : E[j] = E[j - 1] + Len(Lines(a)[j])
    BY <1>2 DEF Offsets
  <1>4. \A j \in 1 .. n : Len(Lines(a)[j]) = Len(LineOf(a, j)) + m /\ Len(LineOf(a, j)) \in Nat
    BY LinesTypes
  <1>5. ASSUME NEW j \in 0 .. n, NEW k \in j .. n PROVE E[j] <= E[k]
    <2>1. Lines(a) \in Seq(Seq(Chars))
      BY LinesTypes
    <2>2. j \in 0 .. Len(Lines(a)) /\ k \in j .. Len(Lines(a))
      BY <1>2
    <2> HIDE DEF E
    <2> QED
      BY <1>2, <2>1, <2>2, OffsetsGrow
  <1>6. Cut(a) \in Nat /\ Cut(a) <= m /\ (n = 0 => Cut(a) = 0)
    BY <1>1 DEF Cut
  <1> HIDE DEF n, m, E
  <1>7. \A j \in 0 .. n : E[j] \in Nat
    BY <1>3
  <1>8. ASSUME NEW j \in 1 .. n PROVE E[j] = E[j - 1] + Len(LineOf(a, j)) + m
    <2>1. j - 1 \in 0 .. n
      BY <1>1
    <2>2. E[j] = E[j - 1] + (Len(LineOf(a, j)) + m)
      BY <1>3, <1>4
    <2>3. E[j - 1] \in Nat /\ Len(LineOf(a, j)) \in Nat
      BY <1>4, <1>7, <2>1
    <2> QED
      BY <1>1, <2>2, <2>3
  <1>9. ASSUME NEW j \in 0 .. n, j < n PROVE E[j] <= E[n] - m
    <2>1. n \in 1 .. n /\ n - 1 \in j .. n /\ n - 1 \in 0 .. n /\ n \in 0 .. n
      BY <1>1, <1>9
    <2>2. E[n] = E[n - 1] + Len(LineOf(a, n)) + m
      BY <1>8, <2>1
    <2>3. E[j] <= E[n - 1]
      BY <1>5, <2>1
    <2>4. E[n - 1] \in Nat /\ E[n] \in Nat /\ E[j] \in Nat /\ Len(LineOf(a, n)) \in Nat
      BY <1>4, <1>7, <2>1
    <2> QED
      BY <1>1, <2>2, <2>3, <2>4, SMTT(30)
  <1>10. Cut(a) <= E[n]
    <2>1. CASE n = 0
      BY <1>3, <1>6, <2>1
    <2>2. CASE n # 0
      <3>1. 0 \in 0 .. n /\ 0 < n /\ n \in 0 .. n
        BY <1>1, <2>2
      <3>2. E[0] <= E[n] - m
        BY <1>9, <3>1
      <3> QED
        BY <1>1, <1>3, <1>6, <1>7, <3>1, <3>2
    <2> QED
      BY <2>1, <2>2
  <1>11. \A j \in 1 .. n : j \in 0 .. n /\ n \in j .. n
    BY <1>1
  <1> QED
    BY <1>3, <1>5, <1>6, <1>7, <1>8, <1>9, <1>10, <1>11 DEF n, m, E

\* Where the lines are in the file.
LEMMA FileLayout ==
    ASSUME ArgOK(arg)
    PROVE  /\ File \in Seq(Chars)
           /\ Len(File) = LineEnds(arg)[Len(arg.data)] - Cut(arg)
           /\ \A j \in 1 .. Len(arg.data) :
                  /\ \A i \in 1 .. Len(LineOf(arg, j)) :
                         File[LineEnds(arg)[j - 1] + i] = LineOf(arg, j)[i]
                  /\ (j < Len(arg.data) \/ Cut(arg) = 0) =>
                         \A i \in 1 .. Len(arg.eol) :
                             File[LineEnds(arg)[j - 1] + Len(LineOf(arg, j)) + i] = arg.eol[i]
  <1> DEFINE n == Len(arg.data)
             m == Len(arg.eol)
             E == LineEnds(arg)
             text == FlattenSeq(Lines(arg))
  <1>1. /\ n \in Nat /\ m \in Nat \ {0} /\ Lines(arg) \in Seq(Seq(Chars)) /\ Len(Lines(arg)) = n
    BY ArgTypes, LinesTypes
  <1>2. Offsets(E, Lines(arg))
    BY LineEndsOffsets
  <1>3. text \in Seq(Chars) /\ Layout(text, E, Lines(arg))
    <2>1. PICK off : Offsets(off, Lines(arg)) /\ Layout(text, off, Lines(arg))
      BY <1>1, FlattenSeqLayout
    <2>2. off = E
      BY <1>1, <1>2, <2>1, OffsetsUnique
    <2>3. text \in Seq(Chars)
      BY <1>1, FlattenSeqLayout
    <2> QED
      BY <2>1, <2>2, <2>3
  <1>4. /\ Cut(arg) \in Nat /\ Cut(arg) <= m /\ Cut(arg) <= E[n]
        /\ \A j \in 0 .. n : E[j] \in Nat
        /\ \A j \in 1 .. n :
               /\ E[j] = E[j - 1] + Len(LineOf(arg, j)) + m /\ E[j] <= E[n]
               /\ j < n => E[j] <= E[n] - m
    BY LineEndsSteps
  <1>5. Len(text) = E[n]
    BY <1>1, <1>3 DEF Layout
  <1>6. File = SubSeq(text, 1, E[n] - Cut(arg))
    <2>1. text = FlattenSeq([j \in DOMAIN arg.data |-> Joined(arg.data[j], arg.sep) \o arg.eol])
      BY DEF Lines, LineOf
    <2>2. File = IF arg.ended \/ arg.data = <<>> THEN text
                 ELSE SubSeq(text, 1, Len(text) - Len(arg.eol))
      BY <2>1, Zenon DEF File
    <2>3. E[n] \in Nat
      <3> HIDE DEF E, n
      <3>1. n \in 0 .. n
        BY <1>1
      <3> QED
        BY <1>4, <3>1
    <2> HIDE DEF text, E
    <2>4. CASE arg.ended \/ arg.data = <<>>
      <3>1. Cut(arg) = 0 /\ File = text
        BY <2>2, <2>4 DEF Cut
      <3>2. E[n] - 0 = Len(text)
        BY <1>5, <2>3
      <3> QED
        BY <1>3, <3>1, <3>2, SubSeqFull
    <2>5. CASE ~(arg.ended \/ arg.data = <<>>)
      BY <1>5, <2>2, <2>5 DEF Cut
    <2> QED
      BY <2>4, <2>5
  <1> HIDE DEF text, E, n, m
  <1>7. E[n] \in Nat
    <2>1. n \in 0 .. n
      BY <1>1
    <2> QED
      BY <1>4, <2>1
  <1>8. /\ File \in Seq(Chars) /\ Len(File) = E[n] - Cut(arg)
        /\ \A i \in 1 .. E[n] - Cut(arg) : File[i] = text[i]
    <2> DEFINE e == E[n] - Cut(arg)
    <2>1. 1 \in 1 .. Len(text) + 1 /\ e \in 1 - 1 .. Len(text) /\ e - 1 + 1 = e
      BY <1>4, <1>5, <1>7
    <2> HIDE DEF e
    <2>2. /\ SubSeq(text, 1, e) \in Seq(Chars) /\ Len(SubSeq(text, 1, e)) = e
          /\ \A i \in 1 .. e : SubSeq(text, 1, e)[i] = text[1 + i - 1]
      BY <1>3, <2>1, PartOf
    <2>3. \A i \in 1 .. e : 1 + i - 1 = i
      BY <2>1
    <2>4. File = SubSeq(text, 1, e)
      BY <1>6 DEF e
    <2>5. /\ File \in Seq(Chars) /\ Len(File) = e
          /\ \A i \in 1 .. e : File[i] = text[i]
      BY <2>2, <2>3, <2>4
    <2> QED
      BY <2>5 DEF e
  <1>9. ASSUME NEW j \in 1 .. n
        PROVE  /\ j - 1 \in 0 .. n /\ E[j - 1] \in Nat /\ Len(LineOf(arg, j)) \in Nat
               /\ E[j] = E[j - 1] + Len(LineOf(arg, j)) + m /\ E[j] <= E[n]
               /\ Len(Lines(arg)[j]) = Len(LineOf(arg, j)) + m
    <2>1. j - 1 \in 0 .. n
      BY <1>1
    <2>2. Len(Lines(arg)[j]) = Len(LineOf(arg, j)) + m /\ Len(LineOf(arg, j)) \in Nat
      BY LinesTypes DEF n, m
    <2> QED
      BY <1>4, <2>1, <2>2
  <1>10. ASSUME NEW j \in 1 .. n, NEW i \in 1 .. Len(LineOf(arg, j))
         PROVE  File[E[j - 1] + i] = LineOf(arg, j)[i]
    <2>1. E[j - 1] + i \in 1 .. E[n] - Cut(arg)
      <3>1. E[j - 1] + Len(LineOf(arg, j)) + m <= E[n]
        BY <1>9
      <3>2. E[j - 1] \in Nat /\ Len(LineOf(arg, j)) \in Nat
        BY <1>9
      <3>3. m \in Nat /\ Cut(arg) \in Nat /\ Cut(arg) <= m /\ E[n] \in Nat
        BY <1>1, <1>4, <1>7
      <3> QED
        BY ONLY <3>1, <3>2, <3>3, i \in 1 .. Len(LineOf(arg, j))
    <2>2. i \in 1 .. Len(Lines(arg)[j])
      BY <1>1, <1>9
    <2>3. text[E[j - 1] + i] = Lines(arg)[j][i]
      BY <1>1, <1>3, <2>2 DEF Layout
    <2>4. Lines(arg)[j][i] = LineOf(arg, j)[i]
      BY LinesTypes DEF n
    <2> QED
      BY <1>8, <2>1, <2>3, <2>4
  <1>11. ASSUME NEW j \in 1 .. n, j < n \/ Cut(arg) = 0, NEW i \in 1 .. m
         PROVE  File[E[j - 1] + Len(LineOf(arg, j)) + i] = arg.eol[i]
    <2> DEFINE q == Len(LineOf(arg, j)) + i
    <2>1. q \in 1 .. Len(Lines(arg)[j]) /\ q \in Nat
      <3>1. Len(LineOf(arg, j)) \in Nat /\ Len(Lines(arg)[j]) = Len(LineOf(arg, j)) + m
            /\ m \in Nat
        BY <1>1, <1>9
      <3> QED
        BY ONLY <3>1, i \in 1 .. m
    <2>2. E[j - 1] + Len(LineOf(arg, j)) + i = E[j - 1] + q
      BY <1>1, <1>9, SMTT(30)
    <2>3. E[j] <= E[n] - Cut(arg)
      <3>1. CASE j < n
        <4>1. E[j] <= E[n] - m
          BY <1>4, <3>1
        <4>2. E[j] \in Nat
          <5>1. j \in 0 .. n
            BY <1>1
          <5> QED
            BY <1>4, <5>1
        <4> QED
          BY <1>1, <1>4, <1>7, <4>1, <4>2
      <3>2. CASE Cut(arg) = 0
        BY <1>7, <1>9, <3>2
      <3> QED
        BY <1>11, <3>1, <3>2
    <2> HIDE DEF q
    <2>4. E[j - 1] + q \in 1 .. E[n] - Cut(arg)
      <3>1. E[j - 1] + Len(LineOf(arg, j)) + m <= E[n] - Cut(arg)
        BY <1>9, <2>3
      <3>2. q <= Len(LineOf(arg, j)) + m /\ 1 <= q
        BY <1>9, <2>1
      <3>3. E[j - 1] \in Nat /\ Len(LineOf(arg, j)) \in Nat /\ q \in Nat
        BY <1>9, <2>1
      <3>4. m \in Nat /\ Cut(arg) \in Nat /\ E[n] \in Nat
        BY <1>1, <1>4, <1>7
      <3> QED
        BY ONLY <3>1, <3>2, <3>3, <3>4, SMTT(30)
    <2>5. text[E[j - 1] + q] = Lines(arg)[j][q]
      BY <1>1, <1>3, <2>1 DEF Layout
    <2>6. Lines(arg)[j][q] = arg.eol[i]
      BY LinesTypes DEF n, m, q
    <2> QED
      BY <1>8, <2>2, <2>4, <2>5, <2>6
  <1> QED
    BY <1>8, <1>10, <1>11 DEF n, m, E
-----------------------------------------------------------------------------
(***************************************************************************)
(* Reading a line.                                                         *)
(***************************************************************************)

\* The last line has its end of line in the file.
Terminated(a, j) == j < Len(a.data) \/ Cut(a) = 0

\* What lies before an end of line is not cut off with the last one.
LEMMA BeforeCut ==
    ASSUME NEW m \in Nat, NEW c \in Nat, c <= m, NEW last \in Nat
    PROVE  /\ \A p, s \in Nat : p + s + m <= last => p + s <= last - c
           /\ \A e \in Nat : e <= last - m => e <= last - c
  OBVIOUS

\* The position at the start of a line, and what is in the file from there on.
LEMMA AtLine ==
    ASSUME ArgOK(arg), NEW j \in 1 .. Len(arg.data), pos = Position(arg, j - 1)
    PROVE  /\ pos \in Nat /\ Len(LineOf(arg, j)) \in Nat /\ LineOf(arg, j) \in Seq(Chars)
           /\ pos + Len(LineOf(arg, j)) <= Len(File)
           /\ \A i \in 1 .. Len(LineOf(arg, j)) : File[pos + i] = LineOf(arg, j)[i]
           /\ Terminated(arg, j) =>
                  /\ HasAt(arg.eol, File, pos + Len(LineOf(arg, j)) + 1)
                  /\ Position(arg, j) = pos + Len(LineOf(arg, j)) + Len(arg.eol)
           /\ ~Terminated(arg, j) =>
                  /\ Len(File) = pos + Len(LineOf(arg, j))
                  /\ Position(arg, j) = Len(File)
  <1> DEFINE n == Len(arg.data)
             m == Len(arg.eol)
             s == Len(LineOf(arg, j))
             E == LineEnds(arg)
             c == Cut(arg)
  <1>1. /\ n \in Nat /\ m \in Nat \ {0} /\ arg.eol \in Seq(Chars)
        /\ LineOf(arg, j) \in Seq(Chars) /\ s \in Nat /\ j \in Nat \ {0} /\ j <= n
    BY ArgTypes, LinesTypes
  <1>2. /\ c \in Nat /\ c <= m /\ c <= E[n] /\ E[j] = E[j - 1] + s + m /\ E[j] <= E[n]
        /\ j < n => E[j] <= E[n] - m
        /\ \A k \in 0 .. n : E[k] \in Nat
    BY LineEndsSteps
  <1>3. c = 0 \/ c = m
    BY DEF Cut
  <1>4. File \in Seq(Chars) /\ Len(File) = E[n] - c
    BY FileLayout
  <1>5. \A i \in 1 .. s : File[E[j - 1] + i] = LineOf(arg, j)[i]
    BY FileLayout
  <1>6. Terminated(arg, j) => \A i \in 1 .. m : File[E[j - 1] + s + i] = arg.eol[i]
    BY FileLayout DEF Terminated
  <1>7. pos = E[j - 1]
    <2>1. j - 1 # n
      BY <1>1
    <2> QED
      BY <2>1 DEF Position
  <1>8. Position(arg, j) = IF j = n THEN E[j] - c ELSE E[j]
    BY DEF Position
  <1>9. Terminated(arg, j) <=> j < n \/ c = 0
    BY DEF Terminated
  <1> HIDE DEF n, m, s, E, c
  <1>10. /\ j - 1 \in 0 .. n /\ j \in 0 .. n /\ n \in 0 .. n
    BY <1>1
  <1>11. pos \in Nat /\ E[j] \in Nat /\ E[n] \in Nat /\ E[j] = pos + s + m
    BY <1>2, <1>7, <1>10
  \* What these say of numbers.
  <1>16. /\ n \in Nat /\ m \in Nat \ {0} /\ s \in Nat /\ j \in Nat \ {0} /\ j <= n
         /\ c \in Nat /\ c <= m /\ c <= E[n] /\ E[j] <= E[n]
         /\ j < n => E[j] <= E[n] - m
         /\ Len(File) = E[n] - c
    BY <1>1, <1>2, <1>4
  <1>12. pos + s <= Len(File)
    <2>1. /\ pos \in Nat /\ s \in Nat /\ m \in Nat /\ c \in Nat /\ c <= m /\ E[n] \in Nat
          /\ pos + s + m <= E[n] /\ Len(File) = E[n] - c
      BY <1>11, <1>16
    <2>2. pos + s <= E[n] - c
      BY ONLY <2>1, BeforeCut
    <2> QED
      BY ONLY <2>1, <2>2
  <1>13. ASSUME Terminated(arg, j)
         PROVE  HasAt(arg.eol, File, pos + s + 1) /\ Position(arg, j) = pos + s + m
    <2> DEFINE z == pos + s + 1
    <2>1. z \in Nat \ {0}
      BY ONLY <1>11, <1>16
    <2>2. E[j] <= E[n] - c
      <3>3. E[j] \in Nat /\ E[n] \in Nat /\ E[j] <= E[n] /\ E[n] - 0 = E[n]
        BY ONLY <1>11, <1>16
      <3>1. CASE j < n
        <4>1. /\ m \in Nat /\ c \in Nat /\ c <= m /\ E[j] <= E[n] - m
          BY <1>16, <3>1
        <4> QED
          BY ONLY <3>3, <4>1, BeforeCut
      <3>2. CASE c = 0
        BY ONLY <3>2, <3>3
      <3> QED
        BY ONLY <1>9, <1>13, <3>1, <3>2
    <2>3. z + m - 1 <= Len(File)
      BY ONLY <1>11, <1>16, <2>2
    <2>4. ASSUME NEW i \in 1 .. m PROVE arg.eol[i] = File[z + i - 1]
      <3>1. z + i - 1 = E[j - 1] + s + i
        BY <1>1, <1>7, <1>11, SMTT(30)
      <3> QED
        BY <1>6, <1>13, <3>1
    <2> HIDE DEF z
    <2>5. HasAt(arg.eol, File, z)
      BY <1>1, <1>4, <2>1, <2>3, <2>4, HasAtElements DEF m
    <2>6. Position(arg, j) = E[j]
      BY <1>8, <1>9, <1>11, <1>13
    <2> QED
      BY <1>11, <2>5, <2>6 DEF z
  <1>14. ASSUME ~Terminated(arg, j)
         PROVE  Len(File) = pos + s /\ Position(arg, j) = Len(File)
    <2>1. j = n /\ c = m
      BY <1>1, <1>3, <1>9, <1>14
    <2> QED
      BY <1>1, <1>4, <1>8, <1>11, <2>1
  <1>15. \A i \in 1 .. s : File[pos + i] = LineOf(arg, j)[i]
    BY <1>5, <1>7
  <1> QED
    BY <1>1, <1>11, <1>12, <1>13, <1>14, <1>15 DEF s, m

\* There is no end of line before the one of the line.
LEMMA NoEarlierEnd ==
    ASSUME ArgOK(arg), NEW j \in 1 .. Len(arg.data), pos = Position(arg, j - 1),
           NEW q \in Ends
    PROVE  Terminated(arg, j) /\ Position(arg, j) <= q
  <1> DEFINE m == Len(arg.eol)
             s == Len(LineOf(arg, j))
             z == q - m + 1
  <1>1. /\ pos \in Nat /\ s \in Nat /\ LineOf(arg, j) \in Seq(Chars) /\ pos + s <= Len(File)
        /\ \A i \in 1 .. s : File[pos + i] = LineOf(arg, j)[i]
    BY AtLine
  <1>2. Terminated(arg, j) => /\ HasAt(arg.eol, File, pos + s + 1)
                              /\ Position(arg, j) = pos + s + m
    BY AtLine
  <1>3. ~Terminated(arg, j) => Len(File) = pos + s
    BY AtLine
  <1>4. /\ arg.eol \in Seq(Chars) /\ m \in Nat \ {0} /\ Len(arg.eol) = m
        /\ File \in Seq(Chars) /\ Len(File) \in Nat
    BY ArgTypes, FileLayout
  <1>5. q \in pos + 1 .. Len(File) /\ q - pos >= m /\ SubSeq(File, z, q) = arg.eol
    BY DEF Ends, EolAt
  <1> HIDE DEF s, m
  <1>6. HasAt(arg.eol, File, z)
    <2>1. z + m - 1 = q
      BY <1>1, <1>4, <1>5
    <2> HIDE DEF z
    <2> QED
      BY <1>4, <1>5, <2>1 DEF HasAt
  <1>7. z \in Nat \ {0} /\ pos < z /\ z + m - 1 = q
    <2>1. q \in Nat /\ q - pos >= m
      BY <1>1, <1>4, <1>5
    <2> QED
      BY <1>1, <1>4, <2>1
  <1> HIDE DEF z
  <1>8. m # 0 /\ (~Terminated(arg, j) => z + m - 1 <= pos + s)
    BY <1>1, <1>3, <1>4, <1>5, <1>7
  <1>12. \A k \in 1 .. m : arg.eol[k] = File[z + k - 1]
    <2>1. z \in Nat \ {0} /\ arg.eol \in Seq(Chars) /\ File \in Seq(Chars)
      BY <1>4, <1>7
    <2>2. \A k \in 1 .. Len(arg.eol) : arg.eol[k] = File[z + k - 1]
      BY <1>6, <2>1, HasAtElements
    <2> QED
      BY <1>4, <2>2
  \* An end of line that begins inside the line would begin there in Lines, too.
  <1>9. ~(z < pos + s + 1)
    <2> SUFFICES ASSUME z < pos + s + 1 PROVE FALSE
      OBVIOUS
    <2> DEFINE i == z - pos
               text == LineOf(arg, j) \o arg.eol
    <2>9. pos \in Nat /\ s \in Nat /\ m \in Nat /\ z \in Nat /\ pos < z
      BY <1>1, <1>4, <1>7
    <2>1. i \in Nat \ {0} /\ i \in 1 .. s
      BY ONLY <2>9, z < pos + s + 1
    <2>2. /\ text \in Seq(Chars) /\ Len(text) = s + m
          /\ \A k \in 1 .. s : text[k] = LineOf(arg, j)[k]
          /\ \A k \in 1 .. m : text[s + k] = arg.eol[k]
      BY <1>1, <1>4, ConcatElements DEF s, m
    <2> HIDE DEF text, i
    <2>8. pos \in Nat /\ s \in Nat /\ m \in Nat /\ z \in Nat /\ i \in 1 .. s /\ i = z - pos
      BY <2>1, <2>9 DEF i
    <2>3. ASSUME NEW k \in 1 .. m PROVE arg.eol[k] = text[i + k - 1]
      <3> DEFINE y == i + k - 1
      <3>1. arg.eol[k] = File[z + k - 1]
        BY <1>12
      <3>2. pos + y = z + k - 1 /\ y \in Nat \ {0} /\ y <= s + m
        BY ONLY <2>8, k \in 1 .. m
      <3>3. ~Terminated(arg, j) => y <= s
        <4>1. ~Terminated(arg, j) => z + m - 1 <= pos + s
          BY <1>8
        <4> QED
          BY ONLY <2>8, <3>2, <4>1, k \in 1 .. m
      <3> HIDE DEF y
      <3>4. CASE y <= s
        <4>1. y \in 1 .. s
          BY <1>1, <3>2, <3>4
        <4>2. File[pos + y] = LineOf(arg, j)[y]
          BY <1>1, <4>1
        <4> QED
          BY <2>2, <3>1, <3>2, <4>1, <4>2 DEF y
      <3>5. CASE y > s
        <4>1. HasAt(arg.eol, File, pos + s + 1)
          BY <1>1, <1>2, <3>2, <3>3, <3>5
        <4>2. pos + s + 1 \in Nat \ {0} /\ y - s \in 1 .. m /\ s + (y - s) = y
              /\ pos + s + 1 + (y - s) - 1 = pos + y
          BY ONLY <2>8, <3>2, <3>5
        <4> DEFINE x == y - s
        <4> HIDE DEF x
        <4>3. arg.eol[x] = File[pos + s + 1 + x - 1]
          BY <1>4, <4>1, <4>2, HasAtElements DEF x
        <4>4. text[s + x] = arg.eol[x]
          BY <2>2, <4>2 DEF x
        <4> QED
          BY <3>1, <3>2, <4>2, <4>3, <4>4 DEF x, y
      <3> QED
        BY <1>1, <3>2, <3>4, <3>5
    <2>4. i + m - 1 <= Len(text)
      BY <1>1, <1>4, <2>1, <2>2
    <2>5. HasAt(arg.eol, text, i)
      BY <1>4, <2>1, <2>2, <2>3, <2>4, HasAtElements
    <2>6. i \in DOMAIN LineOf(arg, j)
      BY <1>1, <2>1 DEF s
    <2>7. EndsIn(arg.eol, LineOf(arg, j))
      <3>1. j \in DOMAIN arg.data
        BY ArgTypes
      <3> QED
        BY <3>1 DEF ArgOK, Written, LineOf
    <2> QED
      BY <2>5, <2>6, <2>7 DEF EndsIn, text
  <1>10. Terminated(arg, j)
    BY <1>1, <1>4, <1>7, <1>8, <1>9
  <1>11. Position(arg, j) <= q
    BY <1>1, <1>2, <1>4, <1>7, <1>9, <1>10
  <1> QED
    BY <1>10, <1>11
\* getline returns the next line, and NULL at the end of the file.
LEMMA NextLineRead ==
    ASSUME ArgOK(arg), NEW j \in 1 .. Len(arg.data), pos = Position(arg, j - 1)
    PROVE  /\ NextPos = Position(arg, j)
           /\ NextLines = IF Terminated(arg, j) THEN {LineOf(arg, j)}
                          ELSE IF LineOf(arg, j) = <<>> THEN {<<>>}
                          ELSE {LineOf(arg, j) \o rest : rest \in Leftovers}
  <1> DEFINE m == Len(arg.eol)
             t == LineOf(arg, j)
             s == Len(t)
             e == pos + s
  <1>1. /\ pos \in Nat /\ s \in Nat /\ t \in Seq(Chars) /\ e <= Len(File)
        /\ \A i \in 1 .. s : File[pos + i] = t[i]
    BY AtLine
  <1>2. Terminated(arg, j) => /\ HasAt(arg.eol, File, e + 1)
                              /\ Position(arg, j) = e + m
    BY AtLine
  <1>3. ~Terminated(arg, j) => Len(File) = e /\ Position(arg, j) = Len(File)
    BY AtLine
  <1>4. m \in Nat \ {0} /\ Len(arg.eol) = m /\ File \in Seq(Chars) /\ Len(File) \in Nat
    BY ArgTypes, FileLayout
  <1>5. e \in Nat
    BY <1>1
  <1> HIDE DEF t, s, e, m
  <1>6. SubSeq(File, pos + 1, e) = t
    <2>1. pos + 1 \in 1 .. Len(File) + 1 /\ e \in (pos + 1) - 1 .. Len(File)
          /\ e - (pos + 1) + 1 = s
      <3>1. pos \in Nat /\ s \in Nat /\ Len(File) \in Nat /\ e <= Len(File) /\ e = pos + s
        BY <1>1, <1>4 DEF e
      <3> QED
        BY ONLY <3>1
    <2>2. /\ SubSeq(File, pos + 1, e) \in Seq(Chars) /\ Len(SubSeq(File, pos + 1, e)) = s
          /\ \A i \in 1 .. s : SubSeq(File, pos + 1, e)[i] = File[(pos + 1) + i - 1]
      BY <1>4, <2>1, PartOf
    <2>4. ASSUME NEW i \in 1 .. s PROVE SubSeq(File, pos + 1, e)[i] = t[i]
      <3>1. pos \in Nat /\ s \in Nat
        BY <1>1
      <3>2. (pos + 1) + i - 1 = pos + i
        BY ONLY <3>1, i \in 1 .. s
      <3>3. SubSeq(File, pos + 1, e)[i] = File[(pos + 1) + i - 1] /\ File[pos + i] = t[i]
        BY <1>1, <2>2
      <3> QED
        BY <3>2, <3>3
    <2> QED
      BY <1>1, <2>2, <2>4, SeqEqual DEF s
  <1>7. CASE Terminated(arg, j)
    <2> DEFINE q == e + m
    <2>1. q \in Ends
      <3>1. q \in pos + 1 .. Len(File) /\ q - pos >= m /\ q - m + 1 = e + 1
            /\ (e + 1) + m - 1 = q
        <4>1. (e + 1) + m - 1 <= Len(File)
          BY <1>2, <1>4, <1>7 DEF HasAt
        <4>2. pos \in Nat /\ s \in Nat /\ m \in Nat \ {0} /\ Len(File) \in Nat /\ e = pos + s
          BY <1>1, <1>4 DEF e
        <4> QED
          BY ONLY <4>1, <4>2
      <3>2. SubSeq(File, e + 1, (e + 1) + m - 1) = arg.eol
        BY <1>2, <1>4, <1>7 DEF HasAt
      <3>3. SubSeq(File, q - m + 1, q) = arg.eol
        BY <3>1, <3>2
      <3> HIDE DEF q
      <3> QED
        BY <1>4, <3>1, <3>3 DEF Ends, EolAt
    <2>2. \A x \in Ends : q <= x
      BY <1>2, <1>7, NoEarlierEnd
    <2>3. Min(Ends) = q
      <3>1. q \in Int /\ Ends \subseteq Int
        BY <1>1, <1>4, <1>5 DEF Ends
      <3> HIDE DEF q
      <3>2. \A x \in Ends : (\A y \in Ends : x <= y) => x = q
        BY <2>1, <2>2, <3>1
      <3> QED
        BY <2>1, <2>2, <3>2 DEF Min
    <2>4. NextPos = q /\ Ends # {}
      BY <2>1, <2>3 DEF NextPos
    <2>5. q - m = e
      BY <1>4, <1>5
    <2>6. NextLines = {t}
      <3> HIDE DEF q
      <3> QED
        BY <1>4, <1>6, <2>4, <2>5 DEF NextLines
    <2> QED
      BY <1>2, <1>7, <2>4, <2>6 DEF t
  <1>8. CASE ~Terminated(arg, j)
    <2>1. Ends = {}
      BY <1>8, NoEarlierEnd
    <2>2. NextPos = e
      BY <1>3, <1>8, <2>1 DEF NextPos
    <2>3. pos = Len(File) <=> t = <<>>
      <3>1. pos = e <=> s = 0
        BY <1>1 DEF e
      <3>2. s = 0 <=> t = <<>>
        BY <1>1 DEF s
      <3> QED
        BY <1>3, <1>8, <3>1, <3>2
    <2>4. NextLines = IF t = <<>> THEN {<<>>} ELSE {t \o rest : rest \in Leftovers}
      BY <1>6, <2>1, <2>2, <2>3 DEF NextLines
    <2> QED
      BY <1>3, <1>8, <2>2, <2>4 DEF t
  <1> QED
    BY <1>7, <1>8

LEMMA NextLineAtEnd ==
    ASSUME ArgOK(arg), pos = Position(arg, Len(arg.data))
    PROVE  NextPos = pos /\ NextLines = {<<>>}
  <1>1. pos = Len(File) /\ Len(File) \in Nat
    BY FileLayout DEF Position
  <1>2. Ends = {}
    BY <1>1 DEF Ends
  <1> QED
    BY <1>1, <1>2 DEF NextPos, NextLines
LEMMA PositionTypes ==
    ASSUME NEW a, ArgOK(a), NEW l \in 0 .. Len(a.data)
    PROVE  Position(a, l) \in 0 .. Position(a, Len(a.data))
  <1> DEFINE n == Len(a.data)
             m == Len(a.eol)
             E == LineEnds(a)
             c == Cut(a)
  <1>1. /\ n \in Nat /\ m \in Nat \ {0}
        /\ c \in Nat /\ c <= m /\ c <= E[n]
        /\ \A k \in 0 .. n : E[k] \in Nat
        /\ \A k \in 1 .. n : k < n => E[k] <= E[n] - m
        /\ E[0] = 0
    BY ArgTypes, LineEndsSteps
  <1>2. Position(a, n) = E[n] - c /\ Position(a, l) = IF l = n THEN E[l] - c ELSE E[l]
    BY DEF Position
  <1> HIDE DEF n, m, E, c
  <1>3. l \in 0 .. n /\ n \in 0 .. n
    BY <1>1 DEF n
  <1>4. E[l] \in Nat /\ E[n] \in Nat
    BY <1>1, <1>3
  <1>5. ASSUME l = n PROVE Position(a, l) \in 0 .. Position(a, n)
    BY <1>1, <1>2, <1>4, <1>5
  <1>6. ASSUME l # n PROVE Position(a, l) \in 0 .. Position(a, n)
    <2>1. E[l] <= E[n] - c
      <3>1. CASE l = 0
        BY <1>1, <1>4, <3>1
      <3>2. CASE l # 0
        <4>1. l \in 1 .. n /\ l < n
          BY <1>1, <1>3, <1>6, <3>2
        <4>2. E[l] <= E[n] - m
          BY <1>1, <4>1
        <4> QED
          BY <1>1, <1>4, <4>2
      <3> QED
        BY <3>1, <3>2
    <2> QED
      BY <1>1, <1>2, <1>4, <1>6, <2>1
  <1> QED
    BY <1>5, <1>6 DEF n

-----------------------------------------------------------------------------
(***************************************************************************)
(* The inductive invariant.                                                *)
(***************************************************************************)

\* A line that ends the import is empty or after the last one.
LEMMA EmptyIsTheEnd ==
    ASSUME IInv, how = "reading", <<>> \in NextLines
    PROVE  /\ NextPos \in 0 .. Position(arg, Len(arg.data))
           /\ lineno < Len(arg.data) => arg.data[lineno + 1] = <<<<>>>>
  <1>1. /\ ArgOK(arg) /\ lineno \in 0 .. Len(arg.data) /\ pos = Position(arg, lineno)
        /\ arg.sep # <<>>
    BY DEF IInv, ImportInv, ReadingInv
  <1>2. Len(arg.data) \in Nat /\ arg.sep \in Seq(Chars)
    BY <1>1, ArgTypes
  <1>3. CASE lineno = Len(arg.data)
    BY <1>1, <1>2, <1>3, NextLineAtEnd, PositionTypes
  <1>4. CASE lineno < Len(arg.data)
    <2> DEFINE j == lineno + 1
    <2>1. j \in 1 .. Len(arg.data) /\ j \in 0 .. Len(arg.data) /\ j - 1 = lineno
      BY <1>1, <1>2, <1>4
    <2> HIDE DEF j
    <2>2. /\ NextPos = Position(arg, j)
          /\ NextLines = IF Terminated(arg, j) THEN {LineOf(arg, j)}
                         ELSE IF LineOf(arg, j) = <<>> THEN {<<>>}
                         ELSE {LineOf(arg, j) \o rest : rest \in Leftovers}
      BY <1>1, <2>1, NextLineRead
    <2>3. arg.data[j] \in RowsOf(Chars)
      BY <1>1, <2>1, ArgTypes
    <2>4. LineOf(arg, j) \in Seq(Chars) /\ Leftovers \subseteq Seq(Chars)
      BY <1>1, <2>1, ArgTypes, LinesTypes
    <2>5. \A rest \in Leftovers : LineOf(arg, j) \o rest = <<>> => LineOf(arg, j) = <<>>
      BY <2>4, ConcatEqualIffEmpty
    <2>6. LineOf(arg, j) = <<>>
      BY <2>2, <2>5
    <2>7. arg.data[j] = <<<<>>>>
      BY <1>1, <1>2, <2>3, <2>6, EmptyLine DEF LineOf
    <2> QED
      BY <1>1, <2>1, <2>2, <2>7, PositionTypes DEF j
  <1> QED
    BY <1>1, <1>2, <1>3, <1>4

\* Any other line is the next one of the table.
LEMMA LineIsNext ==
    ASSUME IInv, how = "reading", NextLines # {<<>>}
    PROVE  /\ lineno + 1 \in 1 .. Len(arg.data)
           /\ NextPos = Position(arg, lineno + 1)
           /\ NextPos \in 0 .. Position(arg, Len(arg.data))
           /\ arg.data[lineno + 1] \in RowsOf(Chars)
           /\ arg.data[lineno + 1] # <<<<>>>>
           /\ Terminated(arg, lineno + 1) => NextLines = {LineOf(arg, lineno + 1)}
  <1>1. /\ ArgOK(arg) /\ lineno \in 0 .. Len(arg.data) /\ pos = Position(arg, lineno)
        /\ arg.sep # <<>>
    BY DEF IInv, ImportInv, ReadingInv
  <1>2. Len(arg.data) \in Nat /\ arg.sep \in Seq(Chars)
    BY <1>1, ArgTypes
  <1>3. lineno # Len(arg.data)
    BY <1>1, NextLineAtEnd
  <1> DEFINE j == lineno + 1
  <1>4. j \in 1 .. Len(arg.data) /\ j \in 0 .. Len(arg.data) /\ j - 1 = lineno
    BY <1>1, <1>2, <1>3
  <1> HIDE DEF j
  <1>5. /\ NextPos = Position(arg, j)
        /\ NextLines = IF Terminated(arg, j) THEN {LineOf(arg, j)}
                       ELSE IF LineOf(arg, j) = <<>> THEN {<<>>}
                       ELSE {LineOf(arg, j) \o rest : rest \in Leftovers}
    BY <1>1, <1>4, NextLineRead
  <1>6. arg.data[j] \in RowsOf(Chars)
    BY <1>1, <1>4, ArgTypes
  <1>7. LineOf(arg, j) # <<>>
    BY <1>5
  <1>8. arg.data[j] # <<<<>>>>
    BY <1>1, <1>2, <1>6, <1>7, EmptyLine DEF LineOf
  <1> QED
    BY <1>1, <1>4, <1>5, <1>6, <1>8, PositionTypes DEF j

\* A line that is read as it was written gives its row.
LEMMA RowIsRead ==
    ASSUME IInv, how = "reading", NEW line \in NextLines, line # <<>>,
           ReadsExactly(arg, lineno + 1)
    PROVE  Fields(line) = arg.data[lineno + 1]
  <1> DEFINE j == lineno + 1
             row == arg.data[j]
  <1>1. /\ ArgOK(arg) /\ arg.sep # <<>>
    BY DEF IInv, ImportInv, ReadingInv
  <1>2. /\ j \in 1 .. Len(arg.data) /\ row \in RowsOf(Chars)
        /\ Terminated(arg, j) => NextLines = {LineOf(arg, j)}
    BY LineIsNext
  <1>3. Terminated(arg, j)
    BY DEF ReadsExactly, Terminated, Cut
  <1>4. line = Joined(row, arg.sep)
    BY <1>2, <1>3 DEF LineOf
  <1>5. Separates(Chars, arg.sep, row)
    <2>1. arg.sep \in Seq(Chars) /\ j \in DOMAIN arg.data
      BY <1>1, <1>2, ArgTypes
    <2>2. DOMAIN row = 1 .. Len(row)
      BY <1>2 DEF RowsOf
    <2> HIDE DEF j
    <2>3. \A k \in 1 .. Len(row) : EndsIn(arg.sep, row[k])
      BY <1>1, <2>1, <2>2 DEF ArgOK, Written
    <2>4. \A k \in 1 .. Len(row) - 1 :
              arg.sep[1] \notin Breaks /\ \A c \in Breaks : ~Occurs(<<c>>, row[k])
      BY DEF ReadsExactly, Breaks, j
    <2> QED
      BY <1>1, <2>1, <2>3, <2>4 DEF Separates
  <1> QED
    BY <1>2, <1>4, <1>5, FieldsOfRow
LEMMA InitInvariant == Init => IInv
  <1> SUFFICES ASSUME Init PROVE IInv
    OBVIOUS
  <1> USE DEF Init
  <1>1. ArgOK(arg)
    BY DEF ArgOK
  <1>2. Len(arg.data) \in Nat
    BY <1>1, ArgTypes
  <1>3. 0 \in 0 .. Len(arg.data)
    BY <1>2
  <1>4. 0 \in 0 .. Position(arg, Len(arg.data))
    BY <1>1, <1>3, PositionTypes
  <1>5. IsSeq(rows)
    <2>1. rows \in Seq({})
      OBVIOUS
    <2> QED
      BY <2>1 DEF IsSeq
  <1>6. RowsInv(arg, rows) /\ HeldInv(held, how) /\ ResultInv(arg, lineno, rows, how)
    BY DEF RowsInv, HeldInv, ResultInv
  <1> QED
    BY <1>1, <1>3, <1>4, <1>5, <1>6 DEF IInv, ImportInv

\* The steps that leave arg, the position and the rows alone.
LEMMA StartSteps ==
    ASSUME IInv, Refused \/ CannotOpen \/ Open
    PROVE  IInv'
  <1> USE DEF Refused, CannotOpen, Open
  <1>1. /\ ArgOK(arg) /\ lineno \in 0 .. Len(arg.data)
        /\ pos \in 0 .. Position(arg, Len(arg.data))
        /\ IsSeq(rows) /\ RowsInv(arg, rows) /\ HeldInv(held, how)
        /\ how = "start" => pos = 0 /\ lineno = 0 /\ rows = <<>>
    BY DEF IInv, ImportInv
  <1>2. arg' = arg /\ pos' = pos /\ lineno' = lineno /\ rows' = rows
        /\ how = "start" /\ how' \in {"refused", "cannot open", "reading"}
    OBVIOUS
  <1>3. HeldInv(held', how')
    BY <1>1 DEF HeldInv
  <1>4. ResultInv(arg, lineno, rows, how')
    BY <1>2 DEF ResultInv
  <1>5. how' = "reading" => ReadingInv(arg, pos, lineno, rows)
    <2> SUFFICES ASSUME how' = "reading" PROVE ReadingInv(arg, pos, lineno, rows)
      OBVIOUS
    <2>1. arg.sep # <<>>
      OBVIOUS
    <2>2. Position(arg, 0) = 0
      <3>1. /\ LineEnds(arg)[0] = 0 /\ Cut(arg) \in Nat /\ Cut(arg) <= LineEnds(arg)[Len(arg.data)]
        BY <1>1, LineEndsSteps
      <3> QED
        BY <3>1 DEF Position
    <2>3. Imported(arg, 0) = 0
      BY <1>1, ArgTypes DEF Imported
    <2> QED
      BY <1>1, <1>2, <2>1, <2>2, <2>3 DEF ReadingInv
  <1>6. ImportInv(arg, pos, lineno, rows, held', how')
    BY <1>1, <1>2, <1>3, <1>4, <1>5 DEF ImportInv
  <1> QED
    BY <1>2, <1>6 DEF IInv

\* What every step that reads a line keeps.
LEMMA ReadKeeps ==
    ASSUME IInv, how = "reading", NextLines # {<<>>}, Read
    PROVE  /\ arg' = arg /\ lineno' = lineno + 1 /\ pos' = Position(arg, lineno + 1)
           /\ ArgOK(arg) /\ lineno' \in 0 .. Len(arg.data) /\ lineno' \in 1 .. Len(arg.data)
           /\ pos' \in 0 .. Position(arg, Len(arg.data))
           /\ \A j \in 1 .. lineno + 1 : arg.data[j] # <<<<>>>>
           /\ arg.sep # <<>> /\ arg.skip \in Nat /\ lineno \in Nat
           /\ Len(rows) = Imported(arg, lineno)
           /\ IsSeq(rows) /\ RowsInv(arg, rows) /\ HeldInv(held, how)
  <1>1. /\ ArgOK(arg) /\ lineno \in 0 .. Len(arg.data) /\ arg.sep # <<>>
        /\ \A j \in 1 .. lineno : arg.data[j] # <<<<>>>>
        /\ Len(rows) = Imported(arg, lineno)
        /\ IsSeq(rows) /\ RowsInv(arg, rows) /\ HeldInv(held, how)
    BY DEF IInv, ImportInv, ReadingInv
  <1>2. arg' = arg /\ lineno' = lineno + 1 /\ pos' = NextPos
    BY DEF Read
  <1>3. /\ lineno + 1 \in 1 .. Len(arg.data) /\ NextPos = Position(arg, lineno + 1)
        /\ NextPos \in 0 .. Position(arg, Len(arg.data))
        /\ arg.data[lineno + 1] # <<<<>>>>
    BY LineIsNext
  <1>4. lineno \in Nat /\ arg.skip \in Nat /\ Len(arg.data) \in Nat
    BY <1>1, ArgTypes
  <1>5. \A j \in 1 .. lineno + 1 : j \in 1 .. lineno \/ j = lineno + 1
    BY <1>4
  <1>6. lineno + 1 \in 0 .. Len(arg.data)
    BY <1>3, <1>4
  <1> QED
    BY <1>1, <1>2, <1>3, <1>4, <1>5, <1>6

LEMMA SkipLineStep ==
    ASSUME IInv, SkipLine
    PROVE  IInv'
  <1> USE DEF SkipLine
  <1>1. how = "reading" /\ lineno < arg.skip /\ NextLines # {<<>>} /\ Read
        /\ rows' = rows /\ held' = held /\ how' = how
    OBVIOUS
  <1>2. /\ arg' = arg /\ lineno' = lineno + 1 /\ pos' = Position(arg, lineno')
        /\ ArgOK(arg) /\ lineno' \in 0 .. Len(arg.data)
        /\ pos' \in 0 .. Position(arg, Len(arg.data))
        /\ \A j \in 1 .. lineno' : arg.data[j] # <<<<>>>>
        /\ arg.sep # <<>> /\ arg.skip \in Nat /\ lineno \in Nat
        /\ Len(rows) = Imported(arg, lineno)
        /\ IsSeq(rows) /\ RowsInv(arg, rows) /\ HeldInv(held, how)
    BY <1>1, ReadKeeps
  <1>3. Imported(arg, lineno') = Imported(arg, lineno)
    BY <1>1, <1>2 DEF Imported
  <1>4. ReadingInv(arg, pos', lineno', rows)
    BY <1>2, <1>3 DEF ReadingInv
  <1>5. ResultInv(arg, lineno', rows, "reading")
    BY DEF ResultInv
  <1>6. ImportInv(arg, pos', lineno', rows, held, "reading")
    BY <1>1, <1>2, <1>4, <1>5 DEF ImportInv
  <1> QED
    BY <1>1, <1>2, <1>6 DEF IInv

\* The row that is inserted is the row of the line.
LEMMA InsertLineStep ==
    ASSUME IInv, InsertLine
    PROVE  IInv'
  <1>1. PICK line \in LinesToImport :
            /\ Len(Fields(line)) = arg.nCol
            /\ Read
            /\ rows' = Append(rows, Bound(line))
            /\ held' = held /\ how' = how
    BY DEF InsertLine
  <1>2. /\ how = "reading" /\ ~(lineno < arg.skip) /\ line \in NextLines /\ line # <<>>
        /\ NextLines # {<<>>}
    <2>1. how = "reading" /\ lineno >= arg.skip /\ line \in NextLines /\ line # <<>>
      BY <1>1 DEF LinesToImport
    <2>2. lineno \in Int /\ arg.skip \in Int
      <3>1. ArgOK(arg) /\ lineno \in 0 .. Len(arg.data)
        BY DEF IInv, ImportInv
      <3> QED
        BY <3>1, ArgTypes
    <2> QED
      BY <2>1, <2>2
  <1>3. /\ arg' = arg /\ lineno' = lineno + 1 /\ pos' = Position(arg, lineno')
        /\ ArgOK(arg) /\ lineno' \in 0 .. Len(arg.data) /\ lineno' \in 1 .. Len(arg.data)
        /\ pos' \in 0 .. Position(arg, Len(arg.data))
        /\ \A j \in 1 .. lineno' : arg.data[j] # <<<<>>>>
        /\ arg.sep # <<>> /\ arg.skip \in Nat /\ lineno \in Nat
        /\ Len(rows) = Imported(arg, lineno)
        /\ IsSeq(rows) /\ RowsInv(arg, rows) /\ HeldInv(held, how)
    BY <1>1, <1>2, ReadKeeps
  <1> DEFINE new == Bound(line)
  <1>4. PICK V : rows \in Seq(V)
    BY <1>3 DEF IsSeq
  <1>5. /\ rows' \in Seq(V \cup {new}) /\ Len(rows') = Len(rows) + 1
        /\ \A j \in 1 .. Len(rows) : rows'[j] = rows[j]
        /\ rows'[Len(rows) + 1] = new
    <2>1. rows \in Seq(V \cup {new})
      BY <1>4
    <2> HIDE DEF new
    <2> QED
      BY <1>1, <2>1, AppendProperties DEF new
  <1>6. Len(rows) = lineno - arg.skip /\ Len(rows) \in Nat
    BY <1>2, <1>3 DEF Imported
  <1>7. Len(rows') = Imported(arg, lineno')
    BY <1>2, <1>3, <1>5, <1>6 DEF Imported
  <1>8. arg.nCol \in Nat /\ Len(new) = arg.nCol
    <2>1. arg.nCol \in Nat
      BY <1>3, ArgTypes
    <2> DEFINE cell == Fields(line)
    <2> HIDE DEF cell
    <2>2. Len([k \in 1 .. arg.nCol |-> Value(cell[k])]) = arg.nCol
      BY <2>1
    <2> QED
      BY <2>1, <2>2 DEF Bound, cell
  <1>9. ASSUME ReadsExactly(arg, lineno')
        PROVE  new = [k \in DOMAIN arg.data[lineno'] |-> Value(arg.data[lineno'][k])]
    <2> DEFINE row == arg.data[lineno']
    <2>1. Fields(line) = row
      BY <1>2, <1>3, <1>9, RowIsRead
    <2>2. row \in RowsOf(Chars)
      BY <1>3, ArgTypes
    <2>3. DOMAIN row = 1 .. arg.nCol
      <3>1. Len(row) = arg.nCol
        BY <1>1, <2>1
      <3> HIDE DEF row
      <3> QED
        BY <2>2, <3>1 DEF RowsOf
    <2> QED
      BY <2>1, <2>3 DEF Bound
  <1> HIDE DEF new
  <1>10. RowsInv(arg, rows')
    <2> SUFFICES ASSUME NEW j \in DOMAIN rows'
                 PROVE  /\ Len(rows'[j]) = arg.nCol
                        /\ ReadsExactly(arg, arg.skip + j) =>
                               rows'[j] = [k \in DOMAIN arg.data[arg.skip + j] |->
                                              Value(arg.data[arg.skip + j][k])]
      BY DEF RowsInv
    <2>1. j \in 1 .. Len(rows) + 1 /\ DOMAIN rows = 1 .. Len(rows)
      BY <1>4, <1>5
    <2>2. CASE j = Len(rows) + 1
      <3>1. arg.skip + j = lineno'
        BY <1>3, <1>6, <2>2
      <3> QED
        BY <1>5, <1>8, <1>9, <2>2, <3>1
    <2>3. CASE j # Len(rows) + 1
      <3>1. j \in 1 .. Len(rows)
        BY <1>6, <2>1, <2>3
      <3> QED
        BY <1>3, <1>5, <2>1, <3>1 DEF RowsInv
    <2> QED
      BY <2>2, <2>3
  <1>11. ReadingInv(arg, pos', lineno', rows')
    BY <1>3, <1>7 DEF ReadingInv
  <1>12. IsSeq(rows') /\ ResultInv(arg, lineno', rows', "reading")
    BY <1>5 DEF IsSeq, ResultInv
  <1>13. ImportInv(arg, pos', lineno', rows', held, "reading")
    BY <1>2, <1>3, <1>10, <1>11, <1>12 DEF ImportInv
  <1> QED
    BY <1>1, <1>2, <1>3, <1>13 DEF IInv
\* A step that ends the import at a line.
LEMMA FailingSteps ==
    ASSUME IInv, InsertFails \/ WrongColumns
    PROVE  IInv'
  <1>1. PICK line \in LinesToImport :
            /\ Read /\ rows' = rows
            /\ \/ how' = "insert" /\ held' = {"file"}
               \/ how' = "columns" /\ held' = held /\ Len(Fields(line)) # arg.nCol
    BY DEF InsertFails, WrongColumns
  <1>2. /\ how = "reading" /\ lineno >= arg.skip /\ line \in NextLines /\ line # <<>>
        /\ NextLines # {<<>>}
    BY DEF LinesToImport
  <1>3. /\ arg' = arg /\ lineno' = lineno + 1
        /\ ArgOK(arg) /\ lineno' \in 0 .. Len(arg.data) /\ lineno' \in 1 .. Len(arg.data)
        /\ pos' \in 0 .. Position(arg, Len(arg.data))
        /\ arg.skip \in Nat /\ lineno \in Nat
        /\ Len(rows) = Imported(arg, lineno)
        /\ IsSeq(rows) /\ RowsInv(arg, rows) /\ HeldInv(held, how)
    BY <1>1, <1>2, ReadKeeps
  <1>4. Len(rows) = lineno' - arg.skip - 1
    BY <1>2, <1>3 DEF Imported
  <1>5. ASSUME how' = "columns"
        PROVE  Len(arg.data[lineno']) # arg.nCol \/ ~ReadsExactly(arg, lineno')
    <2> SUFFICES ASSUME ReadsExactly(arg, lineno') PROVE Len(arg.data[lineno']) # arg.nCol
      OBVIOUS
    <2>1. Fields(line) = arg.data[lineno']
      BY <1>2, <1>3, RowIsRead
    <2> QED
      BY <1>1, <1>5, <2>1
  <1>6. ResultInv(arg, lineno', rows, how')
    BY <1>1, <1>3, <1>4, <1>5 DEF ResultInv
  <1>7. HeldInv(held', how') /\ how' \in {"insert", "columns"}
    BY <1>1, <1>3 DEF HeldInv
  <1>8. ImportInv(arg, pos', lineno', rows, held', how')
    BY <1>3, <1>6, <1>7 DEF ImportInv
  <1> QED
    BY <1>1, <1>3, <1>8 DEF IInv

LEMMA FinishStep ==
    ASSUME IInv, Finish
    PROVE  IInv'
  <1>1. /\ how = "reading" /\ <<>> \in NextLines
        /\ pos' = NextPos /\ held' = {} /\ how' = "done"
        /\ arg' = arg /\ lineno' = lineno /\ rows' = rows
    BY DEF Finish
  <1>2. /\ ArgOK(arg) /\ lineno \in 0 .. Len(arg.data)
        /\ \A j \in 1 .. lineno : arg.data[j] # <<<<>>>>
        /\ Len(rows) = Imported(arg, lineno)
        /\ IsSeq(rows) /\ RowsInv(arg, rows)
    BY <1>1 DEF IInv, ImportInv, ReadingInv
  <1>3. /\ pos' \in 0 .. Position(arg, Len(arg.data))
        /\ lineno < Len(arg.data) => arg.data[lineno + 1] = <<<<>>>>
    BY <1>1, EmptyIsTheEnd
  <1>4. ResultInv(arg, lineno, rows, "done") /\ HeldInv({}, "done")
    BY <1>2, <1>3 DEF ResultInv, HeldInv
  <1>5. ImportInv(arg, pos', lineno, rows, {}, "done")
    BY <1>2, <1>3, <1>4 DEF ImportInv
  <1> QED
    BY <1>1, <1>5 DEF IInv

LEMMA NextInvariant == IInv /\ [Next]_vars => IInv'
  <1> SUFFICES ASSUME IInv, [Next]_vars PROVE IInv'
    OBVIOUS
  <1>1. CASE Refused \/ CannotOpen \/ Open
    BY <1>1, StartSteps
  <1>2. CASE SkipLine
    BY <1>2, SkipLineStep
  <1>3. CASE InsertLine
    BY <1>3, InsertLineStep
  <1>4. CASE InsertFails \/ WrongColumns
    BY <1>4, FailingSteps
  <1>5. CASE Finish
    BY <1>5, FinishStep
  <1>6. CASE UNCHANGED vars
    BY <1>6 DEF vars, IInv
  <1> QED
    BY <1>1, <1>2, <1>3, <1>4, <1>5, <1>6 DEF Next

\* Between lines the position is the end of a line of the file, and the rows are
\* the rows of the lines read (RS_sqlite_import, the loop over RS_sqlite_getline).
THEOREM Invariant == Spec => []IInv
  <1> QED
    BY InitInvariant, NextInvariant, PTL DEF Spec

\* The variables keep their types, whatever the files; an import that reads holds
\* the statement and the file, one that is done holds nothing.
THEOREM ImportTypeCorrect == Spec => []TypeOK
  <1>1. IInv => TypeOK
    <2> SUFFICES ASSUME IInv PROVE TypeOK
      OBVIOUS
    <2>1. /\ ArgOK(arg) /\ HeldInv(held, how) /\ RowsInv(arg, rows)
          /\ pos \in 0 .. Position(arg, Len(arg.data)) /\ lineno \in 0 .. Len(arg.data)
          /\ how \in {"start", "refused", "cannot open", "reading", "insert", "columns", "done"}
      BY DEF IInv, ImportInv
    <2>2. Len(File) = Position(arg, Len(arg.data))
      BY <2>1, FileLayout DEF Position
    <2>3. arg.data \in Tables
      BY <2>1 DEF ArgOK
    <2>4. \A j \in DOMAIN rows : Len(rows[j]) = arg.nCol
      BY <2>1 DEF RowsInv
    <2> QED
      BY <2>1, <2>2, <2>3, <2>4 DEF TypeOK, HeldInv
  <1> QED
    BY <1>1, Invariant, PTL

\* What is imported is what was written: for every table, separator and end of line
\* of any length (RS_sqlite_getline, the loop over the fields).
THEOREM ImportCorrect == Spec => []ImportedAsWritten
  <1>1. IInv => ImportedAsWritten
    <2> SUFFICES ASSUME IInv, NEW j \in DOMAIN rows,
                        Exact(arg.skip + j), Unbroken(arg.skip + j)
                 PROVE  rows[j] = [k \in DOMAIN arg.data[arg.skip + j] |->
                                      Value(arg.data[arg.skip + j][k])]
      BY DEF ImportedAsWritten
    <2>1. ReadsExactly(arg, arg.skip + j)
      BY DEF Exact, Unbroken, ReadsExactly
    <2> QED
      BY <2>1 DEF IInv, ImportInv, RowsInv
  <1> QED
    BY <1>1, Invariant, PTL

\* An import that reports success has inserted every row up to the first empty line.
THEOREM SuccessCorrect == Spec => []SuccessIsComplete
  <1>1. IInv => SuccessIsComplete
    <2> SUFFICES ASSUME IInv, how = "done"
                 PROVE  Len(rows) = IF Readable <= arg.skip THEN 0 ELSE Readable - arg.skip
      BY DEF SuccessIsComplete
    <2>1. /\ ArgOK(arg) /\ lineno \in 0 .. Len(arg.data)
          /\ Len(rows) = Imported(arg, lineno)
          /\ \A j \in 1 .. lineno : arg.data[j] # <<<<>>>>
          /\ lineno < Len(arg.data) => arg.data[lineno + 1] = <<<<>>>>
      BY DEF IInv, ImportInv, ResultInv
    <2>2. Len(arg.data) \in Nat /\ DOMAIN arg.data = 1 .. Len(arg.data)
      BY <2>1, ArgTypes
    <2>3. Readable = lineno
      <3>1. CASE lineno = Len(arg.data)
        <4>1. Empty = {}
          BY <2>1, <2>2, <3>1 DEF Empty
        <4> QED
          BY <3>1, <4>1 DEF Readable
      <3>2. CASE lineno # Len(arg.data)
        <4> DEFINE next == lineno + 1
        <4>1. next \in Empty /\ Empty \subseteq Nat
          BY <2>1, <2>2, <3>2 DEF Empty
        <4>2. \A j \in Empty : next <= j
          BY <2>1, <2>2 DEF Empty
        <4>3. Min(Empty) = next
          <5> HIDE DEF next
          <5>1. \A x \in Empty : (\A y \in Empty : x <= y) => x = next
            BY <4>1, <4>2
          <5> QED
            BY <4>1, <4>2, <5>1 DEF Min
        <4>4. next - 1 = lineno
          BY <2>1, <2>2
        <4> QED
          BY <4>1, <4>3, <4>4 DEF Readable
      <3> QED
        BY <3>1, <3>2
    <2> QED
      BY <2>1, <2>3 DEF Imported
  <1> QED
    BY <1>1, Invariant, PTL

\* An error about the number of columns names a line that has another number of
\* cells, or that is not read as it was written.
THEOREM ErrorCorrect == Spec => []ErrorNamesLine
  <1>1. IInv => ErrorNamesLine
    <2> SUFFICES ASSUME IInv, how = "columns"
                 PROVE  /\ Len(rows) = lineno - arg.skip - 1
                        /\ \/ Len(arg.data[lineno]) # arg.nCol
                           \/ ~Unbroken(lineno) \/ ~Exact(lineno)
      BY DEF ErrorNamesLine
    <2>1. /\ Len(rows) = lineno - arg.skip - 1
          /\ Len(arg.data[lineno]) # arg.nCol \/ ~ReadsExactly(arg, lineno)
      BY DEF IInv, ImportInv, ResultInv
    <2> QED
      BY <2>1 DEF ReadsExactly, Unbroken, Exact
  <1> QED
    BY <1>1, Invariant, PTL
=============================================================================
