----------------------------- MODULE TextProofs -----------------------------
(***************************************************************************)
(* Facts about the text functions of Text and about the route table of     *)
(* Routes, for texts of any length: the lemmas that the proofs about       *)
(* configurations and about routing rest on.                               *)
(***************************************************************************)
EXTENDS Routes, WellFoundedInduction, TLAPS

-----------------------------------------------------------------------------
(* TrimSpace                                                               *)

\* A set of positions has a first and a last.
LEMMA FirstPosition ==
  ASSUME NEW S \in SUBSET Nat, S # {}
  PROVE  \E x \in S : \A y \in S : x <= y
<1>1. PICK x \in S : \A y \in S : <<y, x>> \notin OpToRel(<, Nat)
  BY NatLessThanWellFounded, WFMin
<1>2. ASSUME NEW y \in S PROVE x <= y
  <2>1. OpToRel(<, Nat) = {ss \in Nat \X Nat : ss[1] < ss[2]}
    BY DEF OpToRel
  <2>2. <<y, x>> \in Nat \X Nat /\ <<y, x>>[1] = y /\ <<y, x>>[2] = x
    OBVIOUS
  <2>3. ~ (y < x)
    BY <1>1, <2>1, <2>2
  <2> QED
    BY <2>3
<1> QED
  BY <1>2

LEMMA LastPosition ==
  ASSUME NEW n \in Nat, NEW S \in SUBSET (1 .. n), S # {}
  PROVE  \E x \in S : \A y \in S : x >= y
<1> DEFINE T == {n - x : x \in S}
<1>1. T \subseteq Nat /\ T # {}
  <2>1. ASSUME NEW x \in S PROVE n - x \in Nat
    OBVIOUS
  <2>2. T \subseteq Nat
    BY <2>1
  <2>3. PICK x \in S : TRUE
    OBVIOUS
  <2>4. n - x \in T
    BY <2>3
  <2> QED
    BY <2>2, <2>4
<1>2. PICK t \in T : \A y \in T : t <= y
  BY <1>1, FirstPosition
<1>3. PICK x \in S : t = n - x
  OBVIOUS
<1>4. ASSUME NEW y \in S PROVE x >= y
  <2>1. n - y \in T
    OBVIOUS
  <2> QED
    BY <1>2, <1>3, <2>1
<1> QED
  BY <1>4

LEMMA MinMax ==
  ASSUME NEW n \in Nat, NEW S \in SUBSET (1 .. n), S # {}
  PROVE  /\ Min(S) \in S /\ \A x \in S : Min(S) <= x
         /\ Max(S) \in S /\ \A x \in S : Max(S) >= x
<1>1. \E x \in S : \A y \in S : x <= y
  BY FirstPosition
<1>2. \E x \in S : \A y \in S : x >= y
  BY LastPosition
<1> QED
  BY <1>1, <1>2 DEF Min, Max

\* What TrimSpace returns: nothing of a blank text, or else the part from the
\* first character that is not a blank to the last.
LEMMA TrimSpaceIs ==
  ASSUME NEW a \in Texts
  PROVE  \/ TrimSpace(a) = <<>> /\ \A n \in 1 .. Len(a) : a[n] = Blank
         \/ \E i, j \in 1 .. Len(a) :
              /\ i <= j /\ a[i] # Blank /\ a[j] # Blank
              /\ \A n \in 1 .. Len(a) : a[n] # Blank => i <= n /\ n <= j
              /\ TrimSpace(a) = SubSeq(a, i, j)
<1> DEFINE solid == {n \in DOMAIN a : a[n] # Blank}
<1>1. CASE solid = {}
  BY <1>1 DEF TrimSpace, Texts
<1>2. CASE solid # {}
  <2>1. Len(a) \in Nat /\ solid \in SUBSET (1 .. Len(a))
    BY DEF Texts
  <2>2. /\ Min(solid) \in solid /\ \A x \in solid : Min(solid) <= x
        /\ Max(solid) \in solid /\ \A x \in solid : Max(solid) >= x
    BY <1>2, <2>1, MinMax
  <2>3. TrimSpace(a) = SubSeq(a, Min(solid), Max(solid))
    BY <1>2 DEF TrimSpace
  <2>4. \A n \in 1 .. Len(a) : a[n] # Blank => Min(solid) <= n /\ n <= Max(solid)
    BY <2>1, <2>2
  <2> QED
    BY <2>1, <2>2, <2>3, <2>4
<1> QED
  BY <1>1, <1>2

LEMMA TrimSpaceType ==
  ASSUME NEW a \in Texts
  PROVE  /\ TrimSpace(a) \in Texts
         /\ LET t == TrimSpace(a) IN t # <<>> => t[1] # Blank /\ t[Len(t)] # Blank
<1>1. CASE TrimSpace(a) = <<>>
  BY <1>1 DEF Texts
<1>2. ASSUME NEW i \in 1 .. Len(a), NEW j \in 1 .. Len(a),
             i <= j, a[i] # Blank, a[j] # Blank, TrimSpace(a) = SubSeq(a, i, j)
      PROVE  /\ TrimSpace(a) \in Texts
             /\ LET t == TrimSpace(a) IN t # <<>> => t[1] # Blank /\ t[Len(t)] # Blank
  BY <1>2 DEF Texts
<1> QED
  BY <1>1, <1>2, TrimSpaceIs

\* A text without blanks at its ends is left alone, so to trim twice is to trim
\* once.
LEMMA TrimSpaceTrimmed ==
  ASSUME NEW a \in Texts, a # <<>> => a[1] # Blank /\ a[Len(a)] # Blank
  PROVE  TrimSpace(a) = a
<1>1. CASE a = <<>>
  BY <1>1 DEF TrimSpace
<1>2. CASE a # <<>>
  <2>1. Len(a) \in Nat /\ Len(a) >= 1 /\ a[1] # Blank /\ a[Len(a)] # Blank
    BY <1>2 DEF Texts
  <2>2. PICK i \in 1 .. Len(a), j \in 1 .. Len(a) :
          /\ \A n \in 1 .. Len(a) : a[n] # Blank => i <= n /\ n <= j
          /\ TrimSpace(a) = SubSeq(a, i, j)
    BY <2>1, TrimSpaceIs
  <2>3. i = 1 /\ j = Len(a)
    BY <2>1, <2>2
  <2>4. SubSeq(a, 1, Len(a)) = a
    BY DEF Texts
  <2> QED
    BY <2>2, <2>3, <2>4
<1> QED
  BY <1>1, <1>2

LEMMA TrimSpaceTwice ==
  ASSUME NEW a \in Texts
  PROVE  TrimSpace(TrimSpace(a)) = TrimSpace(a)
  BY TrimSpaceType, TrimSpaceTrimmed

\* A text that does not end with a blank ends as it did.
LEMMA TrimSpaceLast ==
  ASSUME NEW a \in Texts, a # <<>>, Last(a) # Blank
  PROVE  TrimSpace(a) # <<>> /\ Last(TrimSpace(a)) = Last(a)
<1>1. Len(a) \in Nat /\ Len(a) >= 1 /\ a[Len(a)] # Blank
  BY DEF Texts, Last
<1>2. PICK i \in 1 .. Len(a), j \in 1 .. Len(a) :
        /\ i <= j
        /\ \A n \in 1 .. Len(a) : a[n] # Blank => i <= n /\ n <= j
        /\ TrimSpace(a) = SubSeq(a, i, j)
  BY <1>1, TrimSpaceIs
<1>3. j = Len(a)
  BY <1>1, <1>2
<1> DEFINE t == TrimSpace(a)
           k == Len(a) - i + 1
<1>4. t = [n \in 1 .. k |-> a[i + n - 1]]
  BY <1>2, <1>3 DEF Texts
<1>5. k \in Nat /\ k >= 1 /\ i + k - 1 = Len(a)
  BY <1>1
<1> HIDE DEF t, k
<1>6. Len(t) = k /\ t[k] = a[Len(a)]
  BY <1>4, <1>5
<1>7. t # <<>>
  BY <1>5, <1>6
<1> QED
  BY <1>1, <1>6, <1>7 DEF Last, t

-----------------------------------------------------------------------------
(* Parts of texts, hosts and ports                                         *)

\* Texts without their first or last characters.
LEMMA PartsType ==
  ASSUME NEW a \in Texts
  PROVE  /\ \A m \in Int, n \in Int :
              1 <= m /\ n <= Len(a) => SubSeq(a, m, n) \in Texts
         /\ a # <<>> => Front(a) \in Texts /\ Len(Front(a)) = Len(a) - 1
         /\ a # <<>> => Tail(a) \in Texts /\ Len(Tail(a)) = Len(a) - 1
         /\ Len(a) > 1 => Tail(Front(a)) \in Texts
<1>1. ASSUME NEW s \in Texts, NEW m \in Int, NEW n \in Int, 1 <= m, n <= Len(s)
      PROVE  SubSeq(s, m, n) \in Texts
  BY <1>1 DEF Texts
<1>3. ASSUME NEW s \in Texts, s # <<>>
      PROVE  /\ Front(s) \in Texts /\ Len(Front(s)) = Len(s) - 1
             /\ Tail(s) \in Texts /\ Len(Tail(s)) = Len(s) - 1
  <2>1. Len(s) \in Nat /\ Len(s) - 1 >= 0
    BY <1>3 DEF Texts
  <2>2. SubSeq(s, 1, Len(s) - 1) \in Texts /\ Len(SubSeq(s, 1, Len(s) - 1)) = Len(s) - 1
    <3>1. \A n \in 1 .. Len(s) - 1 : n \in 1 .. Len(s) /\ s[n] \in STRING
      BY <2>1 DEF Texts
    <3>2. SubSeq(s, 1, Len(s) - 1) = [n \in 1 .. Len(s) - 1 |-> s[n]]
      BY <2>1, <3>1 DEF Texts
    <3>3. /\ [n \in 1 .. Len(s) - 1 |-> s[n]] \in Texts
          /\ Len([n \in 1 .. Len(s) - 1 |-> s[n]]) = Len(s) - 1
      BY <2>1, <3>1 DEF Texts
    <3> QED
      BY <3>2, <3>3
  <2>3. Tail(s) \in Texts /\ Len(Tail(s)) = Len(s) - 1
    BY <1>3 DEF Texts
  <2> QED
    BY <2>2, <2>3 DEF Front
<1>4. Len(a) > 1 => a # <<>> /\ Front(a) \in Texts /\ Front(a) # <<>>
  BY <1>3 DEF Texts
<1> QED
  BY <1>1, <1>3, <1>4

LEMMA JoinType ==
  ASSUME NEW h \in Texts, NEW p \in Texts
  PROVE  /\ JoinHostPort(h, p) \in Texts
         /\ \E n \in 1 .. Len(JoinHostPort(h, p)) : JoinHostPort(h, p)[n] = ":"
<1> DEFINE host == Bracket(h)
<1>1. <<"[">> \in Texts /\ <<"]">> \in Texts /\ <<":">> \in Texts
  BY LiteralAssumption DEF Texts
<1>2. \A s \in Texts, t \in Texts : s \o t \in Texts
  BY DEF Texts
<1>3. host \in Texts
  BY <1>1, <1>2 DEF Bracket
<1> HIDE DEF host
<1>4. JoinHostPort(h, p) = (host \o <<":">>) \o p
  BY DEF JoinHostPort, host
<1>5. /\ host \o <<":">> \in Texts /\ Len(host \o <<":">>) = Len(host) + 1
      /\ (host \o <<":">>)[Len(host) + 1] = ":"
  BY <1>1, <1>2, <1>3 DEF Texts
<1> QED
  BY <1>2, <1>3, <1>4, <1>5 DEF Texts

\* Where the characters of a concatenation are.
Joins(c, a, b) ==
  /\ c \in Texts /\ Len(c) = Len(a) + Len(b)
  /\ \A n \in 1 .. Len(a) : c[n] = a[n]
  /\ \A n \in 1 .. Len(b) : c[Len(a) + n] = b[n]

LEMMA Concatenated == \A a, b \in Texts : Joins(a \o b, a, b)
  BY DEF Texts, Joins

\* Two texts are the same if they have the same characters.
LEMMA SameText ==
  ASSUME NEW a \in Texts, NEW b \in Texts, Len(a) = Len(b),
         \A n \in 1 .. Len(a) : a[n] = b[n]
  PROVE  a = b
  BY DEF Texts

\* The part of a text from m to n.
IsPart(s, a, m, n) ==
  /\ s \in Texts /\ Len(s) = n - m + 1
  /\ \A x \in 1 .. n - m + 1 : s[x] = a[m - 1 + x]

LEMMA Part ==
  \A a \in Texts, m, n \in Nat :
    1 <= m /\ m <= n + 1 /\ n <= Len(a) => IsPart(SubSeq(a, m, n), a, m, n)
<1> SUFFICES ASSUME NEW a \in Texts, NEW m \in Nat, NEW n \in Nat,
                    1 <= m, m <= n + 1, n <= Len(a)
             PROVE  IsPart(SubSeq(a, m, n), a, m, n)
  OBVIOUS
<1>1. Len(a) \in Nat /\ \A x \in 1 .. Len(a) : a[x] \in STRING
  BY DEF Texts
<1>2. SubSeq(a, m, n) = [x \in 1 .. n - m + 1 |-> a[m + x - 1]]
  BY <1>1 DEF Texts
<1>3. \A x \in 1 .. n - m + 1 : m + x - 1 \in 1 .. Len(a) /\ m + x - 1 = m - 1 + x
  BY <1>1
<1>4. n - m + 1 \in Nat
  OBVIOUS
<1>5. ASSUME NEW k \in Nat, NEW f \in [1 .. k -> STRING]
      PROVE  f \in Seq(STRING) /\ Len(f) = k
  OBVIOUS
<1>6. [x \in 1 .. n - m + 1 |-> a[m + x - 1]] \in [1 .. n - m + 1 -> STRING]
  BY <1>1, <1>3
<1> QED
  BY <1>2, <1>3, <1>4, <1>5, <1>6 DEF Texts, IsPart

LEMMA OneCharacter ==
  \A ch \in STRING : <<ch>> \in Texts /\ Len(<<ch>>) = 1 /\ <<ch>>[1] = ch
<1>1. ASSUME NEW C, NEW x \in C PROVE <<x>> \in Seq(C)
  OBVIOUS
<1> QED
  BY <1>1 DEF Texts

\* What is before and after a character of a text, or between two.
Divides(c, a, ch, b) ==
  /\ c \in Texts /\ Len(c) = Len(a) + 1 + Len(b)
  /\ \A n \in 1 .. Len(a) : c[n] = a[n]
  /\ c[Len(a) + 1] = ch
  /\ \A n \in 1 .. Len(b) : c[Len(a) + 1 + n] = b[n]
  /\ SubSeq(c, 1, Len(a)) = a
  /\ SubSeq(c, Len(a) + 2, Len(c)) = b

LEMMA Divided == \A a, b \in Texts, ch \in STRING : Divides(a \o <<ch>> \o b, a, ch, b)
<1> SUFFICES ASSUME NEW a \in Texts, NEW b \in Texts, NEW ch \in STRING
             PROVE  Divides(a \o <<ch>> \o b, a, ch, b)
  OBVIOUS
<1> DEFINE s == <<ch>>
           d == a \o s
           c == d \o b
<1>1. s \in Texts /\ Len(s) = 1 /\ s[1] = ch
  BY OneCharacter
<1>2. Len(a) \in Nat /\ Len(b) \in Nat
  BY DEF Texts
<1> HIDE DEF s
<1>3. Joins(d, a, s)
  BY <1>1, Concatenated
<1> HIDE DEF d
<1>4. d \in Texts /\ Len(d) = Len(a) + 1 /\ d[Len(a) + 1] = ch
  <2>1. 1 \in 1 .. Len(s)
    BY <1>1
  <2> HIDE DEF c
  <2>2. d[Len(a) + 1] = s[1]
    BY <1>3, <2>1 DEF Joins
  <2> QED
    BY <1>1, <1>2, <1>3, <2>2 DEF Joins
<1>5. Joins(c, d, b)
  BY <1>4, Concatenated
<1> HIDE DEF c
<1>6. /\ c \in Texts /\ Len(c) = Len(a) + 1 + Len(b)
      /\ \A n \in 1 .. Len(a) : c[n] = a[n]
      /\ c[Len(a) + 1] = ch
      /\ \A n \in 1 .. Len(b) : c[Len(a) + 1 + n] = b[n]
  <2>1. c \in Texts /\ Len(c) = Len(d) + Len(b)
    BY <1>5 DEF Joins
  <2>2. ASSUME NEW n \in 1 .. Len(d) PROVE c[n] = d[n]
    BY <1>5 DEF Joins
  <2>3. ASSUME NEW n \in 1 .. Len(a) PROVE c[n] = a[n]
    <3>1. n \in 1 .. Len(d)
      BY <1>2, <1>4
    <3>2. d[n] = a[n]
      BY <1>3 DEF Joins
    <3> QED
      BY <2>2, <3>1, <3>2
  <2>4. ASSUME NEW n \in 1 .. Len(b) PROVE c[Len(a) + 1 + n] = b[n]
    <3>1. c[Len(d) + n] = b[n]
      BY <1>5 DEF Joins
    <3> QED
      BY <1>4, <3>1
  <2>5. Len(a) + 1 \in 1 .. Len(d)
    BY <1>2, <1>4
  <2> QED
    BY <1>4, <2>1, <2>2, <2>3, <2>4, <2>5
<1>7. SubSeq(c, 1, Len(a)) = a
  <2> DEFINE p == SubSeq(c, 1, Len(a))
  <2>1. IsPart(p, c, 1, Len(a))
    <3>1. 1 \in Nat /\ 1 <= 1 /\ 1 <= Len(a) + 1 /\ Len(a) <= Len(c)
      BY <1>2, <1>6
    <3> QED
      BY <1>2, <1>6, <3>1, Part
  <2> HIDE DEF p
  <2>2. p \in Texts /\ Len(p) = Len(a)
    BY <1>2, <2>1 DEF IsPart
  <2>3. ASSUME NEW n \in 1 .. Len(a) PROVE p[n] = a[n]
    <3>1. n \in 1 .. Len(a) - 1 + 1 /\ 1 - 1 + n = n
      BY <1>2
    <3>2. p[n] = c[1 - 1 + n]
      BY <2>1, <3>1 DEF IsPart
    <3> QED
      BY <1>6, <3>1, <3>2
  <2> QED
    BY <2>2, <2>3, SameText DEF p
<1>8. SubSeq(c, Len(a) + 2, Len(c)) = b
  <2> DEFINE p == SubSeq(c, Len(a) + 2, Len(c))
  <2>1. IsPart(p, c, Len(a) + 2, Len(c))
    <3>1. /\ Len(a) + 2 \in Nat /\ Len(c) \in Nat /\ 1 <= Len(a) + 2
          /\ Len(a) + 2 <= Len(c) + 1 /\ Len(c) <= Len(c)
      BY <1>2, <1>6
    <3> QED
      BY <1>6, <3>1, Part
  <2> HIDE DEF p
  <2>2. p \in Texts /\ Len(p) = Len(b)
    BY <1>2, <1>6, <2>1 DEF IsPart
  <2>3. ASSUME NEW n \in 1 .. Len(b) PROVE p[n] = b[n]
    <3>1. /\ n \in 1 .. Len(c) - (Len(a) + 2) + 1
          /\ Len(a) + 2 - 1 + n = Len(a) + 1 + n
      BY <1>2, <1>6
    <3>2. p[n] = c[Len(a) + 2 - 1 + n]
      BY <2>1, <3>1 DEF IsPart
    <3> QED
      BY <1>6, <3>1, <3>2
  <2> QED
    BY <2>2, <2>3, SameText DEF p
<1> QED
  BY <1>6, <1>7, <1>8 DEF Divides, c, d, s

Encloses(c, l, h, r) ==
  /\ c \in Texts /\ Len(c) = Len(h) + 2 /\ c[1] = l /\ c[Len(h) + 2] = r
  /\ \A n \in 1 .. Len(h) : c[n + 1] = h[n]
  /\ Last(c) = r /\ Tail(Front(c)) = h

LEMMA Enclosed == \A h \in Texts, l, r \in STRING : Encloses(<<l>> \o h \o <<r>>, l, h, r)
<1> SUFFICES ASSUME NEW h \in Texts, NEW l \in STRING, NEW r \in STRING
             PROVE  Encloses(<<l>> \o h \o <<r>>, l, h, r)
  OBVIOUS
<1> DEFINE left == <<l>>
           right == <<r>>
           d == left \o h
           c == d \o right
<1>1. Len(h) \in Nat
  BY DEF Texts
<1>2. /\ left \in Texts /\ Len(left) = 1 /\ left[1] = l
      /\ right \in Texts /\ Len(right) = 1 /\ right[1] = r
  BY OneCharacter
<1> HIDE DEF left, right
<1>3. Joins(d, left, h)
  BY <1>2, Concatenated
<1> HIDE DEF d
<1>4. /\ d \in Texts /\ Len(d) = Len(h) + 1 /\ d[1] = l
      /\ \A n \in 1 .. Len(h) : d[n + 1] = h[n]
  <2>1. d \in Texts /\ Len(d) = Len(left) + Len(h)
    BY <1>3 DEF Joins
  <2>2. d[1] = left[1]
    BY <1>2, <1>3, 1 \in 1 .. Len(left) DEF Joins
  <2>3. ASSUME NEW n \in 1 .. Len(h) PROVE d[n + 1] = h[n]
    <3>1. d[Len(left) + n] = h[n]
      BY <1>3 DEF Joins
    <3> QED
      BY <1>2, <3>1
  <2> QED
    BY <1>1, <1>2, <2>1, <2>2, <2>3
<1>5. Joins(c, d, right)
  BY <1>2, <1>4, Concatenated
<1> HIDE DEF c
<1>6. /\ c \in Texts /\ Len(c) = Len(h) + 2 /\ c[Len(h) + 2] = r
      /\ \A n \in 1 .. Len(h) + 1 : c[n] = d[n]
  <2>1. c \in Texts /\ Len(c) = Len(d) + Len(right)
    BY <1>5 DEF Joins
  <2>2. ASSUME NEW n \in 1 .. Len(d) PROVE c[n] = d[n]
    BY <1>5 DEF Joins
  <2>3. c[Len(d) + 1] = right[1]
    BY <1>2, <1>5, 1 \in 1 .. Len(right) DEF Joins
  <2>4. Len(d) = Len(h) + 1 /\ Len(d) + 1 = Len(h) + 2
    BY <1>1, <1>4
  <2>5. c[Len(h) + 2] = r
    BY <1>2, <2>3, <2>4
  <2>6. \A n \in 1 .. Len(h) + 1 : c[n] = d[n]
    BY <2>2, <2>4
  <2> QED
    BY <1>1, <1>2, <2>1, <2>4, <2>5, <2>6
<1>7. c[1] = l /\ \A n \in 1 .. Len(h) : c[n + 1] = h[n]
  <2>1. 1 \in 1 .. Len(h) + 1 /\ \A n \in 1 .. Len(h) : n + 1 \in 1 .. Len(h) + 1
    BY <1>1
  <2> QED
    BY <1>4, <1>6, <2>1
<1>8. Front(c) = d
  <2>1. Front(c) = SubSeq(c, 1, Len(h) + 1)
    BY <1>1, <1>6 DEF Front
  <2> DEFINE p == SubSeq(c, 1, Len(h) + 1)
  <2>2. IsPart(p, c, 1, Len(h) + 1)
    <3>1. /\ 1 \in Nat /\ Len(h) + 1 \in Nat /\ 1 <= 1
          /\ 1 <= Len(h) + 1 + 1 /\ Len(h) + 1 <= Len(c)
      BY <1>1, <1>6
    <3> QED
      BY <1>6, <3>1, Part
  <2> HIDE DEF p
  <2>3. p \in Texts /\ Len(p) = Len(d)
    BY <1>1, <1>4, <2>2 DEF IsPart
  <2>4. ASSUME NEW n \in 1 .. Len(d) PROVE p[n] = d[n]
    <3>1. n \in 1 .. Len(h) + 1 - 1 + 1 /\ 1 - 1 + n = n /\ n \in 1 .. Len(h) + 1
      BY <1>1, <1>4
    <3>2. p[n] = c[1 - 1 + n]
      BY <2>2, <3>1 DEF IsPart
    <3> QED
      BY <1>6, <3>1, <3>2
  <2> QED
    BY <1>4, <2>1, <2>3, <2>4, SameText DEF p
<1>9. Tail(d) = h
  <2>1. /\ Tail(d) \in Texts /\ Len(Tail(d)) = Len(h)
        /\ \A n \in 1 .. Len(h) : Tail(d)[n] = d[n + 1]
    BY <1>1, <1>4 DEF Texts
  <2> QED
    BY <1>4, <2>1, SameText
<1> QED
  BY <1>6, <1>7, <1>8, <1>9 DEF Encloses, Last, c, d, left, right

LEMMA HasIs ==
  ASSUME NEW a \in Texts, NEW ch
  PROVE  Has(a, ch) <=> \E n \in 1 .. Len(a) : a[n] = ch
  BY DEF Has, Range, Texts

LEMMA SplitType ==
  ASSUME NEW a \in Texts, NEW hp \in SplitHostPort(a)
  PROVE  hp[1] \in Texts /\ hp[2] \in Texts
<1> DEFINE Before(n) == SubSeq(a, 1, n - 1)
           After(n) == SubSeq(a, n + 1, Len(a))
<1>1. PICK n \in DOMAIN a :
        \/ hp = <<Before(n), After(n)>>
        \/ hp = <<Tail(Front(Before(n))), After(n)>> /\ Len(Before(n)) > 1
  BY DEF SplitHostPort
<1>2. n \in 1 .. Len(a) /\ Len(a) \in Nat
  BY DEF Texts
<1>3. Before(n) \in Texts /\ After(n) \in Texts
  BY <1>2, PartsType
<1>4. Len(Before(n)) > 1 => Tail(Front(Before(n))) \in Texts
  BY <1>3, PartsType
<1> HIDE DEF Before, After
<1>5. CASE hp = <<Before(n), After(n)>>
  BY <1>3, <1>5
<1>6. CASE hp = <<Tail(Front(Before(n))), After(n)>> /\ Len(Before(n)) > 1
  BY <1>3, <1>4, <1>6
<1> QED
  BY <1>1, <1>5, <1>6

\* A text that is not all blanks.
LEMMA SolidText ==
  ASSUME NEW a \in Texts, NEW n \in 1 .. Len(a), a[n] # Blank
  PROVE  TrimSpace(a) # <<>>
<1>1. CASE TrimSpace(a) = <<>> /\ \A m \in 1 .. Len(a) : a[m] = Blank
  BY <1>1
<1>2. ASSUME NEW i \in 1 .. Len(a), NEW j \in 1 .. Len(a),
             i <= j, TrimSpace(a) = SubSeq(a, i, j)
      PROVE  TrimSpace(a) # <<>>
  BY <1>2 DEF Texts
<1> QED
  BY <1>1, <1>2, TrimSpaceIs

\* What SplitHostPort looks at: a colon, what is before it and what is behind.
Start(a, n) == SubSeq(a, 1, n - 1)
Rest(a, n) == SubSeq(a, n + 1, Len(a))
Unmarked(s) == \A ch \in {"[", "]", ":"} : ~Has(s, ch)
Bracketed(s) ==
  /\ Len(s) > 1 /\ s[1] = "[" /\ Last(s) = "]"
  /\ ~Has(Tail(Front(s)), "[") /\ ~Has(Tail(Front(s)), "]")

Splits(hp, a, n) ==
  \/ Unmarked(Start(a, n)) /\ hp = <<Start(a, n), Rest(a, n)>>
  \/ Bracketed(Start(a, n)) /\ hp = <<Tail(Front(Start(a, n))), Rest(a, n)>>

LEMMA SplitIs ==
  ASSUME NEW a \in Texts
  PROVE  \A hp : hp \in SplitHostPort(a) <=>
           \E n \in 1 .. Len(a) : a[n] = ":" /\ Unmarked(Rest(a, n)) /\ Splits(hp, a, n)
<1> DEFINE colons == {n \in DOMAIN a : a[n] = ":" /\ Unmarked(Rest(a, n))}
<1>1. SplitHostPort(a) =
        {<<Start(a, n), Rest(a, n)>> : n \in {m \in colons : Unmarked(Start(a, m))}}
          \cup {<<Tail(Front(Start(a, n))), Rest(a, n)>> :
                  n \in {m \in colons : Bracketed(Start(a, m))}}
  BY DEF SplitHostPort, Start, Rest, Unmarked, Bracketed
<1>2. \A n : n \in colons <=> n \in 1 .. Len(a) /\ a[n] = ":" /\ Unmarked(Rest(a, n))
  BY DEF Texts
<1> HIDE DEF colons
<1> QED
  BY <1>1, <1>2 DEF Splits

LEMMA StartHas ==
  ASSUME NEW a \in Texts, NEW n \in 1 .. Len(a)
  PROVE  /\ \A m \in 1 .. n - 1 : Has(Start(a, n), a[m])
         /\ n > 1 => Start(a, n)[1] = a[1]
         /\ Len(Start(a, n)) = n - 1
<1>1. Len(a) \in Nat
  BY DEF Texts
<1>2. IsPart(Start(a, n), a, 1, n - 1)
  <2>1. /\ 1 \in Nat /\ n - 1 \in Nat /\ 1 <= 1 /\ 1 <= n - 1 + 1 /\ n - 1 <= Len(a)
    BY <1>1
  <2> QED
    BY <2>1, Part DEF Start
<1>3. Start(a, n) \in Texts /\ Len(Start(a, n)) = n - 1
  BY <1>1, <1>2 DEF IsPart
<1>4. ASSUME NEW m \in 1 .. n - 1 PROVE Start(a, n)[m] = a[m]
  <2>1. m \in 1 .. n - 1 - 1 + 1 /\ 1 - 1 + m = m
    BY <1>1
  <2>2. Start(a, n)[m] = a[1 - 1 + m]
    BY <1>2, <2>1 DEF IsPart
  <2> QED
    BY <2>1, <2>2
<1>5. n > 1 => 1 \in 1 .. n - 1
  BY <1>1
<1> QED
  BY <1>3, <1>4, <1>5, HasIs

LEMMA RestHas ==
  ASSUME NEW a \in Texts, NEW n \in 1 .. Len(a), NEW m \in n + 1 .. Len(a)
  PROVE  Has(Rest(a, n), a[m])
<1>1. Len(a) \in Nat
  BY DEF Texts
<1>2. IsPart(Rest(a, n), a, n + 1, Len(a))
  <2>1. /\ n + 1 \in Nat /\ 1 <= n + 1 /\ n + 1 <= Len(a) + 1 /\ Len(a) <= Len(a)
    BY <1>1
  <2> QED
    BY <1>1, <2>1, Part DEF Rest
<1>3. /\ m - n \in 1 .. Len(a) - (n + 1) + 1 /\ n + 1 - 1 + (m - n) = m
  BY <1>1
<1>4. Rest(a, n)[m - n] = a[n + 1 - 1 + (m - n)]
  BY <1>2, <1>3 DEF IsPart
<1>5. Rest(a, n) \in Texts /\ m - n \in 1 .. Len(Rest(a, n))
  BY <1>2, <1>3 DEF IsPart
<1> QED
  BY <1>3, <1>4, <1>5, HasIs

\* A host as it is written before a port.
LEMMA BracketIs ==
  ASSUME NEW h \in Texts, IsHost(h)
  PROVE  /\ Len(h) >= 1
         /\ \A n \in 1 .. Len(h) : h[n] \notin {"[", "]", "://", Blank}
         /\ ~Has(h, "[") /\ ~Has(h, "]")
         /\ Bracket(h) \in Texts /\ Len(Bracket(h)) >= 1
         /\ \/ ~Has(h, ":") /\ Bracket(h) = h /\ Unmarked(h)
            \/ Has(h, ":") /\ Encloses(Bracket(h), "[", h, "]")
<1>1. Len(h) \in Nat /\ Len(h) >= 1
  BY DEF Texts, IsHost
<1>2. \A n \in 1 .. Len(h) : h[n] \notin {"[", "]", "://", Blank}
  BY DEF Texts, IsHost
<1>3. ~Has(h, "[") /\ ~Has(h, "]")
  BY <1>2, HasIs
<1>4. CASE ~Has(h, ":")
  <2>1. Bracket(h) = h
    BY <1>4 DEF Bracket
  <2>2. Unmarked(h)
    BY <1>3, <1>4 DEF Unmarked
  <2> QED
    BY <1>1, <1>2, <1>3, <1>4, <2>1, <2>2
<1>5. CASE Has(h, ":")
  <2>1. Encloses(Bracket(h), "[", h, "]")
    <3>1. "[" \in STRING /\ "]" \in STRING
      BY LiteralAssumption
    <3>2. Encloses(<<"[">> \o h \o <<"]">>, "[", h, "]")
      BY <3>1, Enclosed
    <3> QED
      BY <1>5, <3>2 DEF Bracket
  <2>2. Bracket(h) \in Texts /\ Len(Bracket(h)) = Len(h) + 2
    BY <2>1 DEF Encloses
  <2> QED
    BY <1>1, <1>2, <1>3, <1>5, <2>1, <2>2
<1> QED
  BY <1>4, <1>5

\* A text comes apart at the colon before its port.
LEMMA SplitAtPort ==
  ASSUME NEW b \in Texts, NEW p \in Texts, IsPort(p)
  PROVE  \A hp : hp \in SplitHostPort(b \o <<":">> \o p) <=>
           \/ Unmarked(b) /\ hp = <<b, p>>
           \/ Bracketed(b) /\ hp = <<Tail(Front(b)), p>>
<1> DEFINE a == b \o <<":">> \o p
           k == Len(b) + 1
<1>1. Len(b) \in Nat /\ Len(p) \in Nat
  BY DEF Texts
<1>2. Divides(a, b, ":", p)
  <2>1. ":" \in STRING
    BY LiteralAssumption
  <2> QED
    BY <2>1, Divided
<1> HIDE DEF a
<1>3. a \in Texts /\ Len(a) = Len(b) + 1 + Len(p) /\ k \in 1 .. Len(a) /\ a[k] = ":"
  BY <1>1, <1>2 DEF Divides
<1>4. Start(a, k) = b /\ Rest(a, k) = p
  <2>1. k - 1 = Len(b) /\ k + 1 = Len(b) + 2
    BY <1>1
  <2> QED
    BY <1>2, <2>1 DEF Divides, Start, Rest
<1>5. \A n \in 1 .. Len(p) : p[n] \notin {"[", "]", ":"}
  BY DEF IsPort, Texts
<1>6. Unmarked(p)
  BY <1>5, HasIs DEF Unmarked
<1>7. ASSUME NEW n \in 1 .. Len(a), a[n] = ":", Unmarked(Rest(a, n))
      PROVE  n = k
  <2>1. CASE n < k
    <3>1. k \in n + 1 .. Len(a)
      BY <1>1, <1>3, <2>1
    <3>2. Has(Rest(a, n), ":")
      BY <1>3, <3>1, RestHas
    <3> QED
      BY <1>7, <3>2 DEF Unmarked
  <2>2. CASE n > k
    <3>1. n - k \in 1 .. Len(p) /\ Len(b) + 1 + (n - k) = n
      BY <1>1, <1>3, <2>2
    <3>2. a[Len(b) + 1 + (n - k)] = p[n - k]
      BY <1>2, <3>1 DEF Divides
    <3> QED
      BY <1>5, <1>7, <3>1, <3>2
  <2> QED
    BY <1>1, <2>1, <2>2
<1>8. \A hp : hp \in SplitHostPort(a) <=> Splits(hp, a, k)
  BY <1>3, <1>4, <1>6, <1>7, SplitIs
<1> HIDE DEF k
<1> QED
  BY <1>4, <1>8 DEF Splits, a

\* Joined with a port, a host comes apart again.
LEMMA SplitPorted ==
  ASSUME NEW h \in Texts, NEW p \in Texts, IsHost(h), IsPort(p)
  PROVE  SplitHostPort(JoinHostPort(h, p)) = {<<h, p>>}
<1> DEFINE b == Bracket(h)
<1>1. b \in Texts /\ Len(h) \in Nat /\ Len(h) >= 1 /\ ~Has(h, "[") /\ ~Has(h, "]")
  BY BracketIs DEF Texts
<1>2. CASE b = h /\ Unmarked(h)
  <2>1. ~Bracketed(h)
    BY BracketIs DEF Bracketed
  <2> QED
    BY <1>2, <2>1, SplitAtPort DEF JoinHostPort
<1>3. CASE Encloses(b, "[", h, "]")
  <2>1. /\ Len(b) = Len(h) + 2 /\ b[1] = "[" /\ Last(b) = "]"
        /\ Tail(Front(b)) = h
    BY <1>3 DEF Encloses
  <2> HIDE DEF b
  <2>2. Len(b) > 1 /\ 1 \in 1 .. Len(b)
    BY <1>1, <2>1
  <2>3. Bracketed(b)
    BY <1>1, <2>1, <2>2 DEF Bracketed
  <2>4. ~Unmarked(b)
    <3>1. Has(b, "[")
      BY <1>1, <2>1, <2>2, HasIs
    <3> QED
      BY <3>1 DEF Unmarked
  <2>5. JoinHostPort(h, p) = b \o <<":">> \o p
    BY DEF JoinHostPort, b
  <2>6. \A hp : hp \in SplitHostPort(b \o <<":">> \o p) <=> hp = <<Tail(Front(b)), p>>
    BY <1>1, <2>3, <2>4, SplitAtPort
  <2> QED
    BY <2>1, <2>5, <2>6
<1> QED
  BY <1>2, <1>3, BracketIs

\* Without a port, a host does not come apart, in brackets or not.
LEMMA SplitUnported ==
  ASSUME NEW h \in Texts, IsHost(h)
  PROVE  SplitHostPort(h) = {} /\ SplitHostPort(Bracket(h)) = {}
<1>1. /\ Len(h) \in Nat /\ Len(h) >= 1
      /\ \A n \in 1 .. Len(h) : h[n] \notin {"[", "]", "://", Blank}
  BY BracketIs DEF Texts
<1>2. SplitHostPort(h) = {}
  <2> SUFFICES ASSUME NEW hp \in SplitHostPort(h) PROVE FALSE
    OBVIOUS
  <2>1. PICK n \in 1 .. Len(h) : h[n] = ":" /\ Unmarked(Rest(h, n)) /\ Splits(hp, h, n)
    BY SplitIs
  <2>2. ~Bracketed(Start(h, n))
    <3>1. CASE n = 1
      BY <3>1, StartHas DEF Bracketed
    <3>2. CASE n > 1
      <4>1. Start(h, n)[1] = h[1]
        BY <3>2, StartHas
      <4> QED
        BY <1>1, <4>1 DEF Bracketed
    <3> QED
      BY <1>1, <3>1, <3>2
  <2>3. Unmarked(Start(h, n))
    BY <2>1, <2>2 DEF Splits
  <2>4. ASSUME NEW m \in 1 .. Len(h), h[m] = ":" PROVE m = n
    <3>1. CASE m < n
      <4>1. m \in 1 .. n - 1
        BY <1>1, <3>1
      <4>2. Has(Start(h, n), ":")
        BY <2>4, <4>1, StartHas
      <4> QED
        BY <2>3, <4>2 DEF Unmarked
    <3>2. CASE m > n
      <4>1. m \in n + 1 .. Len(h)
        BY <1>1, <3>2
      <4>2. Has(Rest(h, n), ":")
        BY <2>4, <4>1, RestHas
      <4> QED
        BY <2>1, <4>2 DEF Unmarked
    <3> QED
      BY <1>1, <3>1, <3>2
  <2>5. HasOne(h, ":")
    BY <2>1, <2>4 DEF HasOne, Texts
  <2> QED
    BY <2>5 DEF IsHost
<1>3. ASSUME Encloses(Bracket(h), "[", h, "]") PROVE SplitHostPort(Bracket(h)) = {}
  <2> DEFINE b == Bracket(h)
  <2>1. b \in Texts /\ Len(b) = Len(h) + 2 /\ b[Len(b)] = "]"
    BY <1>3 DEF Encloses
  <2> HIDE DEF b
  <2> SUFFICES ASSUME NEW hp \in SplitHostPort(b) PROVE FALSE
    BY DEF b
  <2>2. PICK n \in 1 .. Len(b) : b[n] = ":" /\ Unmarked(Rest(b, n))
    BY <2>1, SplitIs
  <2>3. n # Len(b)
    BY <2>1, <2>2
  <2>4. Len(b) \in n + 1 .. Len(b)
    BY <1>1, <2>1, <2>3
  <2>5. Has(Rest(b, n), "]")
    BY <2>1, <2>4, RestHas
  <2> QED
    BY <2>2, <2>5 DEF Unmarked
<1> QED
  BY <1>2, <1>3, BracketIs

\* A text between blanks.
LEMMA TrimSpaceEnclosed ==
  ASSUME NEW s \in Texts, s # <<>>, s[1] # Blank, s[Len(s)] # Blank
  PROVE  TrimSpace(<<Blank>> \o s \o <<Blank>>) = s
<1> DEFINE c == <<Blank>> \o s \o <<Blank>>
           t == TrimSpace(c)
<1>1. Len(s) \in Nat /\ Len(s) >= 1
  BY DEF Texts
<1>2. Encloses(c, Blank, s, Blank)
  <2>1. Blank \in STRING
    BY LiteralAssumption
  <2> QED
    BY <2>1, Enclosed
<1> HIDE DEF c
<1>3. /\ c \in Texts /\ Len(c) = Len(s) + 2 /\ c[1] = Blank /\ c[Len(s) + 2] = Blank
      /\ \A n \in 1 .. Len(s) : c[n + 1] = s[n]
  BY <1>2 DEF Encloses
<1>4. c[2] = s[1] /\ c[Len(s) + 1] = s[Len(s)]
  BY <1>1, <1>3, 1 \in 1 .. Len(s), Len(s) \in 1 .. Len(s), 1 + 1 = 2
<1>5. 2 \in 1 .. Len(c) /\ Len(s) + 1 \in 1 .. Len(c)
  BY <1>1, <1>3
<1>6. PICK i \in 1 .. Len(c), j \in 1 .. Len(c) :
        /\ c[i] # Blank /\ c[j] # Blank
        /\ \A n \in 1 .. Len(c) : c[n] # Blank => i <= n /\ n <= j
        /\ t = SubSeq(c, i, j)
  BY <1>3, <1>4, <1>5, TrimSpaceIs
<1>7. i = 2 /\ j = Len(s) + 1
  <2>1. i <= 2 /\ Len(s) + 1 <= j
    BY <1>4, <1>5, <1>6
  <2>2. i # 1 /\ j # Len(s) + 2
    BY <1>3, <1>6
  <2> QED
    BY <1>1, <1>3, <2>1, <2>2
<1>8. IsPart(t, c, 2, Len(s) + 1)
  <2>1. /\ 2 \in Nat /\ Len(s) + 1 \in Nat /\ 1 <= 2 /\ 2 <= Len(s) + 1 + 1
        /\ Len(s) + 1 <= Len(c)
    BY <1>1, <1>3
  <2>2. t = SubSeq(c, 2, Len(s) + 1)
    BY <1>6, <1>7
  <2> QED
    BY <1>3, <2>1, <2>2, Part
<1> HIDE DEF t
<1>9. t \in Texts /\ Len(t) = Len(s)
  BY <1>1, <1>8 DEF IsPart
<1>10. ASSUME NEW n \in 1 .. Len(s) PROVE t[n] = s[n]
  <2>1. n \in 1 .. Len(s) + 1 - 2 + 1 /\ 2 - 1 + n = n + 1
    BY <1>1
  <2>2. t[n] = c[2 - 1 + n]
    BY <1>8, <2>1 DEF IsPart
  <2> QED
    BY <1>3, <2>1, <2>2
<1> QED
  BY <1>9, <1>10, SameText DEF t, c

LEMMA BlankIs == Blank \notin {"[", "]", ":", "8443"}
  BY DEF Blank

\* An address as the user writes it has no blanks at its ends and no scheme.
Address(a) ==
  /\ a \in Texts /\ a # <<>> /\ a[1] # Blank /\ a[Len(a)] # Blank
  /\ \A n \in 1 .. Len(a) : a[n] # "://"

LEMMA HostAddress ==
  ASSUME NEW h \in Texts, IsHost(h)
  PROVE  Address(h) /\ Address(Bracket(h))
<1>1. /\ Len(h) \in Nat /\ Len(h) >= 1 /\ h # <<>>
      /\ \A n \in 1 .. Len(h) : h[n] \notin {"[", "]", "://", Blank}
  BY BracketIs DEF Texts, IsHost
<1>2. Address(h)
  BY <1>1 DEF Address
<1>3. ASSUME Encloses(Bracket(h), "[", h, "]") PROVE Address(Bracket(h))
  <2> DEFINE b == Bracket(h)
  <2>1. /\ b \in Texts /\ Len(b) = Len(h) + 2 /\ b[1] = "[" /\ b[Len(h) + 2] = "]"
        /\ \A n \in 1 .. Len(h) : b[n + 1] = h[n]
    BY <1>3 DEF Encloses
  <2> HIDE DEF b
  <2>2. b # <<>> /\ b[1] # Blank /\ b[Len(b)] # Blank
    <3>1. b # <<>>
      BY <1>1, <2>1
    <3> QED
      BY <2>1, <3>1, BlankIs
  <2>3. ASSUME NEW n \in 1 .. Len(b) PROVE b[n] # "://"
    <3>1. CASE n = 1 \/ n = Len(h) + 2
      BY <2>1, <3>1
    <3>2. CASE n # 1 /\ n # Len(h) + 2
      <4>1. n - 1 \in 1 .. Len(h) /\ n - 1 + 1 = n
        BY <1>1, <2>1, <3>2
      <4> QED
        BY <1>1, <2>1, <4>1
    <3> QED
      BY <3>1, <3>2
  <2> QED
    BY <2>1, <2>2, <2>3 DEF Address, b
<1> QED
  BY <1>2, <1>3, BracketIs

LEMMA JoinAddress ==
  ASSUME NEW h \in Texts, NEW p \in Texts, IsHost(h), IsPort(p)
  PROVE  Address(JoinHostPort(h, p))
<1> DEFINE b == Bracket(h)
           a == JoinHostPort(h, p)
<1>1. Address(b)
  BY HostAddress
<1>2. b \in Texts /\ Len(b) \in Nat /\ Len(b) >= 1 /\ Len(p) \in Nat
  BY BracketIs DEF Texts
<1>3. Divides(a, b, ":", p)
  <2>1. ":" \in STRING
    BY LiteralAssumption
  <2>2. Divides(b \o <<":">> \o p, b, ":", p)
    BY <1>2, <2>1, Divided
  <2> QED
    BY <2>2 DEF JoinHostPort
<1> HIDE DEF a, b
<1>4. /\ a \in Texts /\ Len(a) = Len(b) + 1 + Len(p)
      /\ \A n \in 1 .. Len(b) : a[n] = b[n]
      /\ a[Len(b) + 1] = ":"
      /\ \A n \in 1 .. Len(p) : a[Len(b) + 1 + n] = p[n]
  BY <1>3 DEF Divides
<1>5. \A n \in 1 .. Len(p) : p[n] \notin {"://", Blank}
  BY DEF IsPort, Texts
<1>6. a # <<>> /\ a[1] # Blank
  <2>1. Len(a) >= 1
    BY <1>2, <1>4
  <2>2. a[1] = b[1]
    BY <1>2, <1>4, 1 \in 1 .. Len(b)
  <2> QED
    BY <1>1, <2>1, <2>2 DEF Address
<1>7. a[Len(a)] # Blank
  <2>1. CASE Len(p) = 0
    BY <1>2, <1>4, <2>1, BlankIs
  <2>2. CASE Len(p) # 0
    <3>1. Len(p) \in 1 .. Len(p) /\ Len(b) + 1 + Len(p) = Len(a)
      BY <1>2, <1>4, <2>2
    <3> QED
      BY <1>4, <1>5, <3>1
  <2> QED
    BY <2>1, <2>2
<1>8. ASSUME NEW n \in 1 .. Len(a) PROVE a[n] # "://"
  <2>1. CASE n \in 1 .. Len(b)
    BY <1>1, <1>4, <2>1 DEF Address
  <2>2. CASE n = Len(b) + 1
    BY <1>4, <2>2
  <2>3. CASE n > Len(b) + 1
    <3>1. n - (Len(b) + 1) \in 1 .. Len(p) /\ Len(b) + 1 + (n - (Len(b) + 1)) = n
      BY <1>2, <1>4, <2>3
    <3>2. a[Len(b) + 1 + (n - (Len(b) + 1))] = p[n - (Len(b) + 1)]
      BY <1>4, <3>1
    <3> QED
      BY <1>5, <3>1, <3>2
  <2> QED
    BY <1>2, <1>4, <2>1, <2>2, <2>3
<1> QED
  BY <1>4, <1>6, <1>7, <1>8 DEF Address, a

\* What is written comes out of TrimSpace, between blanks or not.
LEMMA AddressTrimmed ==
  ASSUME NEW a, Address(a)
  PROVE  TrimSpace(a) = a /\ TrimSpace(<<Blank>> \o a \o <<Blank>>) = a
  BY TrimSpaceTrimmed, TrimSpaceEnclosed DEF Address

-----------------------------------------------------------------------------
(* NormalizeServerName                                                     *)

\* ToLower works character by character and neither makes nor removes a dot.
LEMMA ToLowerType ==
  ASSUME NEW a \in Texts
  PROVE  /\ ToLower(a) \in Texts /\ Len(ToLower(a)) = Len(a)
         /\ \A n \in 1 .. Len(a) : ToLower(a)[n] = "." <=> a[n] = "."
<1> DEFINE lower == [A |-> "a", B |-> "b", H |-> "h"]
           l == [n \in 1 .. Len(a) |->
                   IF a[n] \in {"A", "B", "H"} THEN lower[a[n]] ELSE a[n]]
<1>1. Len(a) \in Nat /\ DOMAIN a = 1 .. Len(a) /\ \A n \in 1 .. Len(a) : a[n] \in STRING
  BY DEF Texts
<1>2. ToLower(a) = l
  <2>1. DOMAIN lower = {"A", "B", "H"}
    OBVIOUS
  <2> QED
    BY <1>1, <2>1 DEF ToLower
<1>3. ASSUME NEW n \in 1 .. Len(a) PROVE l[n] \in STRING /\ (l[n] = "." <=> a[n] = ".")
  <2>1. \A x \in {"A", "B", "H"} : lower[x] \in {"a", "b", "h"}
    OBVIOUS
  <2>2. l[n] = IF a[n] \in {"A", "B", "H"} THEN lower[a[n]] ELSE a[n]
    OBVIOUS
  <2> HIDE DEF lower, l
  <2>3. CASE a[n] \in {"A", "B", "H"}
    <3>1. l[n] \in {"a", "b", "h"}
      BY <2>1, <2>2, <2>3
    <3>2. "." \notin {"a", "b", "h", "A", "B", "H"}
      OBVIOUS
    <3> QED
      BY <2>3, <3>1, <3>2, LiteralAssumption
  <2>4. CASE a[n] \notin {"A", "B", "H"}
    BY <1>1, <2>2, <2>4
  <2> QED
    BY <2>3, <2>4
<1>4. l \in Texts /\ Len(l) = Len(a)
  BY <1>1, <1>3 DEF Texts
<1> QED
  BY <1>2, <1>3, <1>4

\* Lowering the first part of a text, and a text with a dot behind it.
LEMMA ToLowerDotted ==
  ASSUME NEW a \in Texts, a # <<>>, Last(a) = "."
  PROVE  /\ Front(a) \in Texts
         /\ ToLower(a) = ToLower(Front(a)) \o <<".">>
<1>1. Len(a) \in Nat /\ Len(a) >= 1 /\ a[Len(a)] = "."
  BY DEF Texts, Last
<1>2. /\ Front(a) \in Texts /\ Len(Front(a)) = Len(a) - 1
      /\ \A n \in 1 .. Len(a) - 1 : Front(a)[n] = a[n]
  <2>1. Len(a) - 1 \in Nat /\ \A n \in 1 .. Len(a) - 1 : n \in 1 .. Len(a) /\ a[n] \in STRING
    BY <1>1 DEF Texts
  <2>2. /\ SubSeq(a, 1, Len(a) - 1) = [n \in 1 .. Len(a) - 1 |-> a[n]]
    BY <1>1, <2>1 DEF Texts
  <2>3. /\ [n \in 1 .. Len(a) - 1 |-> a[n]] \in Texts
        /\ Len([n \in 1 .. Len(a) - 1 |-> a[n]]) = Len(a) - 1
    BY <2>1 DEF Texts
  <2>4. Front(a) = [n \in 1 .. Len(a) - 1 |-> a[n]]
    BY <2>2 DEF Front
  <2> QED
    BY <2>3, <2>4
<1>3. /\ ToLower(a) \in Texts /\ Len(ToLower(a)) = Len(a)
      /\ ToLower(a)[Len(a)] = "."
  BY <1>1, ToLowerType
<1>4. ToLower(Front(a)) \in Texts /\ Len(ToLower(Front(a))) = Len(a) - 1
  BY <1>2, ToLowerType
<1>5. ASSUME NEW n \in 1 .. Len(a) - 1 PROVE ToLower(a)[n] = ToLower(Front(a))[n]
  <2>1. n \in DOMAIN a /\ n \in DOMAIN Front(a) /\ Front(a)[n] = a[n]
    BY <1>1, <1>2 DEF Texts
  <2> QED
    BY <2>1 DEF ToLower
<1>6. \A n \in 1 .. Len(a) : ToLower(a)[n] = (ToLower(Front(a)) \o <<".">>)[n]
  BY <1>1, <1>3, <1>4, <1>5 DEF Texts
<1>7. ToLower(Front(a)) \o <<".">> \in Texts /\ Len(ToLower(Front(a)) \o <<".">>) = Len(a)
  BY <1>1, <1>4 DEF Texts
<1> QED
  BY <1>2, <1>3, <1>6, <1>7 DEF Texts

LEMMA NormalizeType ==
  ASSUME NEW w \in Texts
  PROVE  NormalizeServerName(w) \in Texts
  BY TrimSpaceType, ToLowerType, ToLowerDotted DEF NormalizeServerName

\* Two texts with a dot behind them are the same only if they are without it.
LEMMA SameWithoutDot ==
  ASSUME NEW a \in Texts, NEW b \in Texts, a \o <<".">> = b \o <<".">>
  PROVE  a = b
<1>1. Len(a) = Len(b)
  BY DEF Texts
<1>2. ASSUME NEW n \in 1 .. Len(a) PROVE a[n] = b[n]
  BY <1>1, (a \o <<".">>)[n] = a[n], (b \o <<".">>)[n] = b[n] DEF Texts
<1> QED
  BY <1>1, <1>2 DEF Texts

\* What makes a written name that of a name from a hello, which does not end with
\* a dot: the same characters but for their case, and a final dot at most.
LEMMA NormalizeMatches ==
  ASSUME NEW w \in Texts, NEW name \in Texts,
         name # <<>> => Last(name) \notin {Blank, "."}
  PROVE  NormalizeServerName(w) = NormalizeServerName(name) <=>
           \E dot \in {<<>>, <<".">>} :
             ToLower(TrimSpace(w)) = ToLower(TrimSpace(name)) \o dot
<1> DEFINE W == TrimSpace(w)
           N == TrimSpace(name)
<1>1. W \in Texts /\ N \in Texts
  BY TrimSpaceType
<1>2. N # <<>> => Last(N) # "."
  <2>1. CASE name = <<>>
    BY <2>1 DEF TrimSpace
  <2>2. CASE name # <<>>
    BY <2>2, TrimSpaceLast
  <2> QED
    BY <2>1, <2>2
<1>3. NormalizeServerName(name) = ToLower(N)
  BY <1>2 DEF NormalizeServerName
<1>4. ToLower(N) \in Texts /\ ToLower(N) \o <<>> = ToLower(N)
  BY <1>1, ToLowerType DEF Texts
<1>5. ToLower(N) # <<>> => Last(ToLower(N)) # "."
  BY <1>1, <1>2, ToLowerType DEF Last, Texts
<1>6. CASE W # <<>> /\ Last(W) = "."
  <2>1. NormalizeServerName(w) = ToLower(Front(W))
    BY <1>6 DEF NormalizeServerName
  <2>2. Front(W) \in Texts /\ ToLower(W) = ToLower(Front(W)) \o <<".">>
    BY <1>1, <1>6, ToLowerDotted
  <2>3. ToLower(Front(W)) \in Texts
    BY <2>2, ToLowerType
  <2>4. ToLower(W) # <<>> /\ Last(ToLower(W)) = "."
    BY <2>2, <2>3 DEF Last, Texts
  <2>5. ToLower(W) # ToLower(N)
    BY <1>5, <2>4
  <2>6. ToLower(W) = ToLower(N) \o <<".">> <=> ToLower(Front(W)) = ToLower(N)
    BY <1>4, <2>2, <2>3, SameWithoutDot
  <2> QED
    BY <1>3, <1>4, <2>1, <2>5, <2>6
<1>7. CASE ~ (W # <<>> /\ Last(W) = ".")
  <2>1. NormalizeServerName(w) = ToLower(W)
    BY <1>7 DEF NormalizeServerName
  <2>2. ToLower(W) \in Texts /\ (ToLower(W) # <<>> => Last(ToLower(W)) # ".")
    BY <1>1, <1>7, ToLowerType DEF Last, Texts
  <2>3. ToLower(W) # ToLower(N) \o <<".">>
    BY <1>4, <2>2 DEF Last, Texts
  <2> QED
    BY <1>3, <1>4, <2>1, <2>3
<1> QED
  BY <1>6, <1>7

-----------------------------------------------------------------------------
(* NewRouteTable and Resolve                                               *)

SNIRoute == [server_name : Texts, endpoint : Texts]

\* A table that was made resolves a name to the endpoint of the one route that
\* has it; the name and the endpoint of a route are not blank.
LEMMA ResolveFinds ==
  ASSUME NEW rs \in Seq(SNIRoute), NewRouteTable(rs) # None, NEW s
  PROVE  /\ Resolve(NewRouteTable(rs), s) = {} <=>
              \A n \in DOMAIN rs :
                NormalizeServerName(rs[n].server_name) # NormalizeServerName(s)
         /\ \A n \in DOMAIN rs :
              NormalizeServerName(rs[n].server_name) = NormalizeServerName(s) =>
                Resolve(NewRouteTable(rs), s) = {TrimSpace(rs[n].endpoint)}
         /\ \A n \in DOMAIN rs : NormalizeServerName(rs[n].server_name) # <<>>
         /\ \A e \in Resolve(NewRouteTable(rs), s) : TrimSpace(e) # <<>>
<1> DEFINE name(n) == NormalizeServerName(rs[n].server_name)
           endpoint(n) == TrimSpace(rs[n].endpoint)
           names == {name(n) : n \in DOMAIN rs}
           at(k) == CHOOSE n \in DOMAIN rs : name(n) = k
<1>1. /\ \A n \in DOMAIN rs :
           name(n) # <<>> /\ endpoint(n) # <<>> /\ \A m \in 1 .. n - 1 : name(m) # name(n)
      /\ NewRouteTable(rs) = [k \in names |-> endpoint(at(k))]
  BY DEF NewRouteTable
<1>2. \A m, n \in DOMAIN rs : name(m) = name(n) => m = n
  <2>1. DOMAIN rs = 1 .. Len(rs) /\ Len(rs) \in Nat
    OBVIOUS
  <2>2. ASSUME NEW m \in DOMAIN rs, NEW n \in DOMAIN rs, m < n PROVE name(m) # name(n)
    <3>1. m \in 1 .. n - 1
      BY <2>1, <2>2
    <3> QED
      BY <1>1, <3>1
  <2> QED
    BY <2>1, <2>2
<1>3. ASSUME NEW n \in DOMAIN rs PROVE at(name(n)) = n
  BY <1>2
<1> DEFINE table == NewRouteTable(rs)
           k == NormalizeServerName(s)
<1>4. DOMAIN table = names /\ \A x \in names : table[x] = endpoint(at(x))
  BY <1>1
<1> HIDE DEF table, at, name, endpoint, names, k
<1>5. Resolve(table, s) = {table[x] : x \in names \cap {k}}
  BY <1>4 DEF Resolve, k
<1>6. ASSUME NEW n \in DOMAIN rs, name(n) = k
      PROVE  Resolve(table, s) = {endpoint(n)}
  <2>1. k \in names
    BY <1>6 DEF names
  <2>2. table[k] = endpoint(n)
    BY <1>3, <1>4, <1>6, <2>1
  <2> QED
    BY <1>5, <2>1, <2>2
<1>7. Resolve(table, s) = {} <=> \A n \in DOMAIN rs : name(n) # k
  BY <1>5 DEF names
<1>8. ASSUME NEW e \in Resolve(table, s) PROVE TrimSpace(e) # <<>>
  <2>1. PICK n \in DOMAIN rs : name(n) = k
    BY <1>7
  <2>2. e = endpoint(n)
    BY <1>6, <2>1
  <2>3. rs[n] \in SNIRoute
    OBVIOUS
  <2>4. rs[n].endpoint \in Texts
    BY <2>3 DEF SNIRoute
  <2> QED
    BY <1>1, <2>2, <2>4, TrimSpaceTwice DEF endpoint
<1> QED
  BY <1>1, <1>6, <1>7, <1>8 DEF name, endpoint, table, k

=============================================================================
