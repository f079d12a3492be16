-------------------------- MODULE AppProvisionProofs --------------------------
(***************************************************************************)
(* Proofs about AppProvision, for whatever texts a user writes.            *)
(***************************************************************************)
EXTENDS AppProvision, TextProofs, FiniteSetTheorems

-----------------------------------------------------------------------------
(* A parser goes through a block and keeps what it parses to its type      *)

LEMMA SetInduction ==
  ASSUME NEW S, 0 \in S, \A n \in Nat : n \in S => n + 1 \in S
  PROVE  Nat \subseteq S
<1> SUFFICES ASSUME Nat \ S # {} PROVE FALSE
  OBVIOUS
<1>1. PICK x \in Nat \ S : \A y \in Nat \ S : x <= y
  <2>1. Nat \ S \in SUBSET Nat
    OBVIOUS
  <2> QED
    BY <2>1, FirstPosition
<1>2. x # 0 /\ x - 1 \in Nat /\ x - 1 \notin S
  BY <1>1
<1> QED
  BY <1>1, <1>2

\* What is parsed after each directive: in T until one is refused.
Parses(f, T, len, base, step) ==
  /\ f \in [0 .. len -> T \cup {None}] /\ f[0] = base
  /\ \A n \in 1 .. len : f[n] = IF f[n - 1] = None THEN None ELSE step[n][f[n - 1]]

LEMMA ParsesExist ==
  ASSUME NEW T, NEW base \in T, NEW len \in Nat, NEW step,
         \A c \in T, n \in 1 .. len : step[n][c] \in T \cup {None}
  PROVE  \E f : Parses(f, T, len, base, step)
<1> DEFINE S == {n \in Nat : n <= len => \E f : Parses(f, T, n, base, step)}
<1>1. 0 \in S
  <2>1. Parses([n \in 0 .. 0 |-> base], T, 0, base, step)
    BY DEF Parses
  <2> QED
    BY <2>1
<1>2. ASSUME NEW n \in Nat, n \in S PROVE n + 1 \in S
  <2> SUFFICES ASSUME n + 1 <= len PROVE \E f : Parses(f, T, n + 1, base, step)
    OBVIOUS
  <2>1. PICK f : Parses(f, T, n, base, step)
    BY <1>2
  <2> DEFINE x == IF f[n] = None THEN None ELSE step[n + 1][f[n]]
             g == [m \in 0 .. n + 1 |-> IF m = n + 1 THEN x ELSE f[m]]
  <2>2. x \in T \cup {None}
    <3>1. f[n] \in T \cup {None} /\ n + 1 \in 1 .. len
      BY <2>1 DEF Parses
    <3> QED
      BY <3>1
  <2> HIDE DEF x
  <2>3. g \in [0 .. n + 1 -> T \cup {None}] /\ g[0] = base
    BY <2>1, <2>2 DEF Parses
  <2>4. ASSUME NEW m \in 1 .. n + 1
        PROVE  g[m] = IF g[m - 1] = None THEN None ELSE step[m][g[m - 1]]
    <3>1. m - 1 \in 0 .. n + 1 /\ m - 1 # n + 1
      OBVIOUS
    <3>2. g[m - 1] = f[m - 1] /\ g[m] = IF m = n + 1 THEN x ELSE f[m]
      BY <3>1
    <3> HIDE DEF g
    <3>3. CASE m = n + 1
      BY <3>2, <3>3 DEF x
    <3>4. CASE m # n + 1
      BY <2>1, <3>2, <3>4, m \in 1 .. n DEF Parses
    <3> QED
      BY <3>3, <3>4
  <2> HIDE DEF g
  <2> QED
    BY <2>3, <2>4 DEF Parses
<1> HIDE DEF S
<1>3. Nat \subseteq S
  BY <1>1, <1>2, SetInduction
<1> QED
  BY <1>3 DEF S

LEMMA ParsesKeepType ==
  ASSUME NEW T, NEW len \in Nat, NEW f, f[0] \in T,
         \A n \in 1 .. len : f[n - 1] = None => f[n] = None,
         \A n \in 1 .. len : f[n - 1] \in T => f[n] \in T \cup {None}
  PROVE  f[len] \in T \cup {None}
<1> DEFINE S == {n \in Nat : n <= len => f[n] \in T \cup {None}}
<1>1. 0 \in S
  OBVIOUS
<1>2. ASSUME NEW n \in Nat, n \in S PROVE n + 1 \in S
  <2>1. n + 1 <= len => n + 1 \in 1 .. len /\ (n + 1) - 1 = n
    OBVIOUS
  <2> QED
    BY <1>2, <2>1
<1> HIDE DEF S
<1>3. Nat \subseteq S
  BY <1>1, <1>2, SetInduction
<1> QED
  BY <1>3 DEF S

\* A block that is parsed has no directive that was refused.
Continues(f, T, len) ==
  /\ len \in Nat /\ f[0] \in T
  /\ \A n \in 1 .. len : f[n - 1] = None => f[n] = None
  /\ \A n \in 1 .. len : f[n - 1] \in T => f[n] \in T \cup {None}

LEMMA NoneRefused ==
  ASSUME NEW T, NEW len, NEW f, Continues(f, T, len), f[len] # None
  PROVE  \A n \in 0 .. len : f[n] \in T /\ f[n] # None
<1>len. len \in Nat /\ \A n \in 1 .. len : f[n - 1] = None => f[n] = None
  BY DEF Continues
<1>1. ASSUME NEW n \in 0 .. len PROVE f[n] \in T \cup {None}
  <2>1. n \in Nat /\ \A m \in 1 .. n : m \in 1 .. len
    BY <1>len
  <2> QED
    BY <2>1, ParsesKeepType DEF Continues
<1> DEFINE S == {k \in Nat : k <= len => f[len - k] # None}
<1>2. 0 \in S
  BY <1>len, len - 0 = len
<1>3. ASSUME NEW k \in Nat, k \in S PROVE k + 1 \in S
  <2>1. k + 1 <= len => len - k \in 1 .. len /\ (len - k) - 1 = len - (k + 1)
    BY <1>len
  <2> QED
    BY <1>3, <1>len, <2>1
<1> HIDE DEF S
<1>4. Nat \subseteq S
  BY <1>2, <1>3, SetInduction
<1>5. ASSUME NEW n \in 0 .. len PROVE f[n] # None
  <2>1. len - n \in Nat /\ len - n <= len /\ len - (len - n) = n
    BY <1>len
  <2>2. len - n \in S
    BY <1>4, <2>1
  <2> QED
    BY <2>1, <2>2 DEF S
<1> QED
  BY <1>1, <1>5

\* Where each of some steps overwrites a value and no other touches it, the last
\* of them is what counts.
Overwrites(v, len, N, said) ==
  /\ len \in Nat /\ N \in SUBSET (1 .. len)
  /\ \A n \in 1 .. len : v[n] = IF n \in N THEN said[n] ELSE v[n - 1]

LEMMA LastWins ==
  ASSUME NEW v, NEW len, NEW N, NEW said, Overwrites(v, len, N, said)
  PROVE  /\ N = {} => v[len] = v[0]
         /\ N # {} => Max(N) \in N /\ v[len] = said[Max(N)]
<1> DEFINE last == IF N = {} THEN 0 ELSE Max(N)
           S == {k \in Nat : last + k <= len => v[last + k] = v[last]}
<1>0. (N = {} => last = 0) /\ (N # {} => last = Max(N))
  OBVIOUS
<1> HIDE DEF last
<1>len. len \in Nat /\ N \in SUBSET (1 .. len)
  BY DEF Overwrites
<1>step. \A n \in 1 .. len : v[n] = IF n \in N THEN said[n] ELSE v[n - 1]
  BY DEF Overwrites
<1>1. last \in 0 .. len /\ (N # {} => last \in N) /\ \A n \in N : n <= last
  <2>1. N # {} => Max(N) \in N /\ \A n \in N : Max(N) >= n
    BY <1>len, MinMax
  <2>2. CASE N = {}
    BY <1>0, <1>len, <2>2
  <2>3. CASE N # {}
    <3>1. last \in N /\ \A n \in N : last >= n
      BY <1>0, <2>1, <2>3
    <3> QED
      BY <1>len, <3>1
  <2> QED
    BY <2>2, <2>3
<1>2. 0 \in S
  BY <1>1, last + 0 = last
<1>3. ASSUME NEW k \in Nat, k \in S PROVE k + 1 \in S
  <2>1. last + (k + 1) <= len =>
          /\ last + (k + 1) \in 1 .. len /\ last + (k + 1) > last
          /\ (last + (k + 1)) - 1 = last + k
    BY <1>1, <1>len
  <2>2. last + (k + 1) <= len => v[last + (k + 1)] = v[last + k]
    BY <1>1, <1>step, <2>1
  <2> QED
    BY <1>1, <1>len, <1>3, <2>2
<1> HIDE DEF S
<1>4. Nat \subseteq S
  BY <1>2, <1>3, SetInduction
<1>5. v[len] = v[last]
  <2>1. len - last \in Nat /\ last + (len - last) = len
    BY <1>1, <1>len
  <2>2. len - last \in S
    BY <1>4, <2>1
  <2> QED
    BY <1>1, <1>len, <2>1, <2>2 DEF S
<1>6. last \in N => v[last] = said[last]
  BY <1>len, <1>step
<1> QED
  BY <1>0, <1>1, <1>5, <1>6

-----------------------------------------------------------------------------
(* What is said in a block                                                 *)

LEMMA LinesIs ==
  ASSUME NEW S, NEW block \in Seq(S), block # None, NEW name
  PROVE  /\ Lines(block, name) \in SUBSET (1 .. Len(block))
         /\ \A n \in 1 .. Len(block) : n \in Lines(block, name) <=> block[n].name = name
BY DEF Lines

\* A field that the lines of one name set to a text or to a number.
TextSet(v, name, block) ==
  \A n \in 1 .. Len(block) :
    v[n] = IF block[n].name = name THEN block[n].args[1].text ELSE v[n - 1]

NumberSet(v, name, block) ==
  \A n \in 1 .. Len(block) :
    v[n] = IF block[n].name = name THEN block[n].args[1][KindOf(name)][1] ELSE v[n - 1]

LEMMA TextParsed ==
  ASSUME NEW S, NEW block \in Seq(S), block # None, NEW name,
         NEW v, TextSet(v, name, block)
  PROVE  v[Len(block)] = LastSaid(block, name, "text", v[0])
<1> DEFINE len == Len(block)
           N == Lines(block, name)
           said == [n \in 1 .. len |-> block[n].args[1].text]
<1>1. /\ N \in SUBSET (1 .. len) /\ len \in Nat
      /\ \A n \in 1 .. len : n \in N <=> block[n].name = name
  BY LinesIs
<1>2. \A n \in 1 .. len : said[n] = block[n].args[1].text
  OBVIOUS
<1> HIDE DEF N, said
<1>3. Overwrites(v, len, N, said)
  BY <1>1, <1>2 DEF Overwrites, TextSet
<1>4. (N = {} => v[len] = v[0]) /\ (N # {} => Max(N) \in N /\ v[len] = said[Max(N)])
  BY <1>3, LastWins
<1> QED
  BY <1>1, <1>2, <1>4 DEF LastSaid, N

LEMMA NumberParsed ==
  ASSUME NEW S, NEW block \in Seq(S), block # None, NEW name,
         NEW v, NumberSet(v, name, block)
  PROVE  v[Len(block)] = IF Lines(block, name) = {} THEN v[0] ELSE SaidNumber(block, name)
<1> DEFINE len == Len(block)
           N == Lines(block, name)
           said == [n \in 1 .. len |-> block[n].args[1][KindOf(name)][1]]
<1>1. /\ N \in SUBSET (1 .. len) /\ len \in Nat
      /\ \A n \in 1 .. len : n \in N <=> block[n].name = name
  BY LinesIs
<1>2. \A n \in 1 .. len : said[n] = block[n].args[1][KindOf(name)][1]
  OBVIOUS
<1> HIDE DEF N, said
<1>3. Overwrites(v, len, N, said)
  BY <1>1, <1>2 DEF Overwrites, NumberSet
<1>4. (N = {} => v[len] = v[0]) /\ (N # {} => Max(N) \in N /\ v[len] = said[Max(N)])
  BY <1>3, LastWins
<1> QED
  BY <1>1, <1>2, <1>4 DEF SaidNumber, LastSaid, N

\* A block's numbers: those of its last lines, or those there were before it.
NumbersRead(after, before, block) ==
  \A f \in DOMAIN before :
    after[f] = IF Lines(block, f) = {} THEN before[f] ELSE SaidNumber(block, f)

NumbersSet(r, F, block) ==
  /\ \A n \in 0 .. Len(block) : DOMAIN r[n] = F
  /\ \A n \in 1 .. Len(block) :
       LET d == block[n] IN
       r[n] = [r[n - 1] EXCEPT ![d.name] = d.args[1][KindOf(d.name)][1]]

LEMMA NumbersParsed ==
  ASSUME NEW S, NEW block \in Seq(S), block # None,
         NEW r, NEW F, NumbersSet(r, F, block)
  PROVE  NumbersRead(r[Len(block)], r[0], block)
<1> DEFINE len == Len(block)
<1>1. len \in Nat /\ 0 \in 0 .. len /\ len \in 0 .. len
  OBVIOUS
<1>2. DOMAIN r[0] = F
  BY <1>1 DEF NumbersSet
<1>3. ASSUME NEW f \in F
      PROVE  r[len][f] = IF Lines(block, f) = {} THEN r[0][f] ELSE SaidNumber(block, f)
  <2> DEFINE v == [n \in 0 .. len |-> r[n][f]]
  <2>1. ASSUME NEW n \in 1 .. len
        PROVE  v[n] = IF block[n].name = f THEN block[n].args[1][KindOf(f)][1]
                      ELSE v[n - 1]
    <3>1. n \in 0 .. len /\ n - 1 \in 0 .. len
      OBVIOUS
    <3> DEFINE g == block[n].name
    <3>2. /\ DOMAIN r[n - 1] = F
          /\ r[n] = [r[n - 1] EXCEPT ![g] = block[n].args[1][KindOf(g)][1]]
      BY <3>1 DEF NumbersSet
    <3> HIDE DEF g
    <3>3. r[n][f] = IF g = f THEN block[n].args[1][KindOf(f)][1] ELSE r[n - 1][f]
      BY <3>2
    <3> QED
      BY <3>1, <3>3 DEF g
  <2>2. v[len] = r[len][f] /\ v[0] = r[0][f]
    BY <1>1
  <2> HIDE DEF v
  <2>3. NumberSet(v, f, block)
    BY <2>1 DEF NumberSet
  <2> QED
    BY <2>2, <2>3, NumberParsed
<1> QED
  BY <1>2, <1>3 DEF NumbersRead

\* The numbers of nested blocks, in whichever of them they are said last.
InsideSet(v, outer, block) ==
  /\ \A n \in 0 .. Len(block) : DOMAIN v[n] = DOMAIN v[0]
  /\ \A n \in 1 .. Len(block) :
       IF block[n].name = outer THEN NumbersRead(v[n], v[n - 1], block[n].block)
       ELSE v[n] = v[n - 1]

LEMMA NumbersInside ==
  ASSUME NEW empty, \A f \in DOMAIN empty : empty[f] = 0, NEW outer,
         NEW S, NEW block \in Seq(S), block # None,
         NEW v, v[0] = empty, InsideSet(v, outer, block)
  PROVE  \A f \in DOMAIN empty : v[Len(block)][f] = SaidNumbers(block, outer, empty)[f]
<1> DEFINE len == Len(block)
<1>1. len \in Nat /\ 0 \in 0 .. len /\ len \in 0 .. len
  OBVIOUS
<1> SUFFICES ASSUME NEW f \in DOMAIN empty
             PROVE  v[len][f] = SaidInside(block, outer, f)
  BY DEF SaidNumbers
<1> DEFINE w == [n \in 0 .. len |-> v[n][f]]
           said == [n \in 1 .. len |-> SaidNumber(block[n].block, f)]
           N == {n \in Lines(block, outer) : Lines(block[n].block, f) # {}}
<1>2. /\ N \in SUBSET (1 .. len)
      /\ \A n \in 1 .. len :
           n \in N <=> block[n].name = outer /\ Lines(block[n].block, f) # {}
  BY LinesIs
<1>3. ASSUME NEW n \in 1 .. len PROVE w[n] = IF n \in N THEN said[n] ELSE w[n - 1]
  <2>1. n \in 0 .. len /\ n - 1 \in 0 .. len
    OBVIOUS
  <2>2. block[n].name = outer =>
          v[n][f] = IF Lines(block[n].block, f) = {} THEN v[n - 1][f]
                    ELSE SaidNumber(block[n].block, f)
    BY <2>1 DEF NumbersRead, InsideSet
  <2>3. w[n] = v[n][f] /\ w[n - 1] = v[n - 1][f] /\ said[n] = SaidNumber(block[n].block, f)
    BY <2>1
  <2> HIDE DEF w, said, N, len
  <2>4. block[n].name # outer => v[n] = v[n - 1]
    BY DEF InsideSet, len
  <2> QED
    BY <1>2, <2>2, <2>3, <2>4
<1>4. w[len] = v[len][f] /\ w[0] = 0
  BY <1>1
<1>5. \A n \in 1 .. len : said[n] = SaidNumber(block[n].block, f)
  OBVIOUS
<1>n. N = {n \in Lines(block, outer) : Lines(block[n].block, f) # {}}
  OBVIOUS
<1> HIDE DEF w, said, N, len
<1>6. /\ N = {} => w[len] = w[0]
      /\ N # {} => Max(N) \in N /\ w[len] = said[Max(N)]
  <2>1. Overwrites(w, len, N, said)
    BY <1>1, <1>2, <1>3 DEF Overwrites
  <2> QED
    BY <2>1, LastWins
<1>7. N # {} => w[len] = SaidNumber(block[Max(N)].block, f)
  BY <1>2, <1>5, <1>6
<1>8. SaidInside(block, outer, f) = IF N = {} THEN 0 ELSE SaidNumber(block[Max(N)].block, f)
  BY <1>n DEF SaidInside
<1> QED
  BY <1>4, <1>6, <1>7, <1>8

\* Lines are counted.
LEMMA Ranks ==
  ASSUME NEW len \in Nat, NEW L \in SUBSET (1 .. len)
  PROVE  /\ Rank(0, L) = 0 /\ Rank(len, L) = Cardinality(L)
         /\ \A k \in Nat : Rank(k, L) \in Nat
         /\ \A k \in Nat : Rank(k + 1, L) = IF k + 1 \in L THEN Rank(k, L) + 1
                                            ELSE Rank(k, L)
<1> DEFINE Upto(k) == {m \in L : m <= k}
<1>1. IsFiniteSet(1 .. len)
  BY FS_Interval
<1>2. ASSUME NEW k \in Nat PROVE IsFiniteSet(Upto(k)) /\ Cardinality(Upto(k)) \in Nat
  <2>1. Upto(k) \in SUBSET (1 .. len)
    OBVIOUS
  <2> HIDE DEF Upto
  <2> QED
    BY <1>1, <2>1, FS_Subset, FS_CardinalityType
<1>0. \A m \in L : m \in Nat /\ m >= 1 /\ m <= len
  OBVIOUS
<1>3. Upto(0) = {} /\ Upto(len) = L
  <2>1. \A m \in L : ~(m <= 0)
    BY <1>0
  <2>2. \A m : m \notin Upto(0)
    BY <2>1
  <2>3. \A m : m \in Upto(len) <=> m \in L
    BY <1>0
  <2> QED
    BY <2>2, <2>3
<1>4. ASSUME NEW k \in Nat
      PROVE  Upto(k + 1) = IF k + 1 \in L THEN Upto(k) \cup {k + 1} ELSE Upto(k)
  <2>1. \A m \in L : m <= k + 1 <=> m <= k \/ m = k + 1
    BY <1>0
  <2>2. CASE k + 1 \in L
    <3>1. k + 1 <= k + 1
      OBVIOUS
    <3>2. \A m : m \in Upto(k + 1) <=> m \in Upto(k) \/ m = k + 1
      BY <2>1, <2>2, <3>1
    <3> HIDE DEF Upto
    <3> QED
      BY <2>2, <3>2
  <2>3. CASE k + 1 \notin L
    <3>1. \A m : m \in Upto(k + 1) <=> m \in Upto(k)
      BY <2>1, <2>3
    <3> QED
      BY <2>3, <3>1
  <2> QED
    BY <2>2, <2>3
<1>5. \A k \in Nat : k + 1 \notin Upto(k)
  OBVIOUS
<1>6. \A k : Rank(k, L) = Cardinality(Upto(k))
  BY DEF Rank
<1> HIDE DEF Upto
<1>7. ASSUME NEW k \in Nat
      PROVE  Rank(k + 1, L) = IF k + 1 \in L THEN Rank(k, L) + 1 ELSE Rank(k, L)
  <2>1. Cardinality(Upto(k) \cup {k + 1}) = Cardinality(Upto(k)) + 1
    BY <1>2, <1>5, FS_AddElement
  <2> QED
    BY <1>4, <1>6, <2>1
<1> QED
  BY <1>2, <1>3, <1>6, <1>7, FS_EmptySet

\* What is appended at some steps is in their order.
Appends(v, len, L, said) ==
  /\ len \in Nat /\ L \in SUBSET (1 .. len) /\ v[0] = <<>>
  /\ \A n \in 1 .. len : v[n] = IF n \in L THEN Append(v[n - 1], said[n]) ELSE v[n - 1]

LEMMA Appended ==
  ASSUME NEW v, NEW len, NEW L, NEW said, NEW T, Appends(v, len, L, said),
         \A n \in 0 .. len : v[n] \in Seq(T), \A n \in L : said[n] \in T
  PROVE  /\ Len(v[len]) = Cardinality(L)
         /\ \A n \in L : /\ Rank(n, L) \in 1 .. Len(v[len])
                         /\ v[len][Rank(n, L)] = said[n]
<1> DEFINE Placed(k) == /\ Len(v[k]) = Rank(k, L)
                        /\ \A n \in L : n <= k => /\ Rank(n, L) \in 1 .. Len(v[k])
                                                  /\ v[k][Rank(n, L)] = said[n]
           S == {k \in Nat : k <= len => Placed(k)}
<1>1. len \in Nat /\ L \in SUBSET (1 .. len)
  BY DEF Appends
<1>2. /\ Rank(0, L) = 0 /\ Rank(len, L) = Cardinality(L)
      /\ \A k \in Nat : Rank(k, L) \in Nat
      /\ \A k \in Nat : Rank(k + 1, L) = IF k + 1 \in L THEN Rank(k, L) + 1 ELSE Rank(k, L)
  BY <1>1, Ranks
<1>3. 0 \in S
  <2>1. Len(v[0]) = 0 /\ \A n \in L : ~(n <= 0)
    BY <1>1 DEF Appends
  <2> QED
    BY <1>2, <2>1
<1>4. ASSUME NEW k \in Nat, k \in S PROVE k + 1 \in S
  <2> SUFFICES ASSUME k + 1 <= len PROVE Placed(k + 1)
    OBVIOUS
  <2>1. /\ k + 1 \in 1 .. len /\ k \in 0 .. len /\ (k + 1) - 1 = k
        /\ v[k] \in Seq(T) /\ \A n \in L : n \in Nat /\ (n <= k + 1 => n <= k \/ n = k + 1)
    BY <1>1
  <2>2. Placed(k)
    BY <1>1, <1>4, <2>1
  <2>3. CASE k + 1 \in L
    <3>1. v[k + 1] = Append(v[k], said[k + 1]) /\ said[k + 1] \in T
      BY <2>1, <2>3 DEF Appends
    <3>2. /\ Len(v[k + 1]) = Len(v[k]) + 1 /\ v[k + 1][Len(v[k]) + 1] = said[k + 1]
          /\ \A i \in 1 .. Len(v[k]) : v[k + 1][i] = v[k][i]
          /\ Len(v[k]) \in Nat
      BY <2>1, <3>1
    <3>3. Rank(k + 1, L) = Len(v[k + 1]) /\ Rank(k + 1, L) = Len(v[k]) + 1
      BY <1>2, <2>2, <2>3, <3>2
    <3>4. ASSUME NEW n \in L, n <= k + 1
          PROVE  Rank(n, L) \in 1 .. Len(v[k + 1]) /\ v[k + 1][Rank(n, L)] = said[n]
      <4>1. CASE n <= k
        <5>1. Rank(n, L) \in 1 .. Len(v[k]) /\ v[k][Rank(n, L)] = said[n]
          BY <2>2, <4>1
        <5> QED
          BY <3>2, <5>1
      <4>2. CASE n = k + 1
        BY <3>2, <3>3, <4>2
      <4> QED
        BY <2>1, <3>4, <4>1, <4>2
    <3> QED
      BY <3>3, <3>4
  <2>4. CASE k + 1 \notin L
    <3>1. v[k + 1] = v[k] /\ Rank(k + 1, L) = Rank(k, L)
      BY <1>2, <2>1, <2>4 DEF Appends
    <3>2. \A n \in L : n <= k + 1 => n <= k
      BY <2>1, <2>4
    <3> QED
      BY <2>2, <3>1, <3>2
  <2> QED
    BY <2>3, <2>4
<1> HIDE DEF S, Placed
<1>5. Nat \subseteq S
  BY <1>3, <1>4, SetInduction
<1>6. Placed(len)
  BY <1>1, <1>5 DEF S
<1>7. \A n \in L : n <= len
  BY <1>1
<1> QED
  BY <1>2, <1>6, <1>7 DEF Placed

-----------------------------------------------------------------------------
(* What the directives set                                                 *)

LEMMA ArgumentType ==
  ASSUME NEW Inner, NEW d \in Directive(Inner), Len(d.args) = 1
  PROVE  /\ d.args[1].text \in Texts
         /\ d.args[1].int # <<>> => d.args[1].int[1] \in Int
         /\ d.args[1].duration # <<>> => d.args[1].duration[1] \in Int
<1> DEFINE Args == [text : Texts, int : Seq(Int), duration : Seq(Int)]
<1>1. d.args \in Seq(Args)
  BY DEF Directive
<1>2. d.args[1] \in Args
  <2> HIDE DEF Args
  <2> QED
    BY <1>1
<1>3. /\ d.args[1].text \in Texts
      /\ d.args[1].int \in Seq(Int) /\ d.args[1].duration \in Seq(Int)
  BY <1>2
<1>4. ASSUME NEW s \in Seq(Int), s # <<>> PROVE s[1] \in Int
  BY <1>4
<1> QED
  BY <1>3, <1>4

\* The names of directives that are fields of a configuration.
LEMMA SetsType ==
  ASSUME NEW Inner, NEW d \in Directive(Inner), NEW c
  PROVE  /\ SetText(c, d) = None \/ \E x \in Texts : SetText(c, d) = [c EXCEPT ![d.name] = x]
         /\ SetInt(c, d) = None \/ \E x \in Int : SetInt(c, d) = [c EXCEPT ![d.name] = x]
         /\ \/ SetDuration(c, d) = None
            \/ \E x \in Int : SetDuration(c, d) = [c EXCEPT ![d.name] = x]
BY ArgumentType DEF SetText, SetInt, SetDuration, Single

-----------------------------------------------------------------------------
(* The types of the parsers' results.  Each proof is the same but for the  *)
(* directives: a function that gives what is parsed after each directive   *)
(* exists, so that the parser's is one, and so keeps its type; and where   *)
(* no directive is refused, each field is what the last of its lines says. *)

LEMMA LimitsType ==
  ASSUME NEW limits \in LimitsConfig, NEW Inner,
         NEW block \in {None} \cup Seq(Directive(Inner))
  PROVE  /\ ParseLimits(limits, block) \in LimitsConfig \cup {None}
         /\ ParseLimits(limits, block) # None =>
              NumbersRead(ParseLimits(limits, block), limits, block)
<1> DEFINE P(l, d) ==
             CASE d.name \in {"max_streams", "max_bandwidth_bps"} -> SetInt(l, d)
               [] d.name = "stream_idle_timeout" -> SetDuration(l, d)
               [] OTHER -> None
           base == limits
           len == Len(block)
           Rec(f) == f = [n \in 0 .. len |->
                            IF n = 0 THEN base
                            ELSE LET c == f[n - 1]
                                 IN  IF c = None THEN None ELSE P(c, block[n])]
           step == [n \in 1 .. len |-> [c \in LimitsConfig |-> P(c, block[n])]]
           r == CHOOSE f : Rec(f)
<1>base. base \in LimitsConfig
  OBVIOUS
<1>1. ParseLimits(limits, block) = IF block = None THEN base ELSE r[len]
  BY DEF ParseLimits, ParseBlock
<1>none. block = None => NumbersRead(base, limits, block)
  BY DEF NumbersRead, Lines
<1> SUFFICES ASSUME block # None
             PROVE  /\ r[len] \in LimitsConfig \cup {None}
                    /\ r[len] # None => NumbersRead(r[len], limits, block)
  BY <1>1, <1>base, <1>none
<1>2. len \in Nat /\ \A n \in 1 .. len : block[n] \in Directive(Inner)
  OBVIOUS
<1>3. ASSUME NEW d \in Directive(Inner), NEW l \in LimitsConfig
      PROVE  P(l, d) \in LimitsConfig \cup {None}
  <2>1. \A x \in Int, f \in {"max_streams", "max_bandwidth_bps", "stream_idle_timeout"} :
          [l EXCEPT ![f] = x] \in LimitsConfig
    BY DEF LimitsConfig
  <2>2. /\ SetInt(l, d) = None \/ \E x \in Int : SetInt(l, d) = [l EXCEPT ![d.name] = x]
        /\ \/ SetDuration(l, d) = None
           \/ \E x \in Int : SetDuration(l, d) = [l EXCEPT ![d.name] = x]
    BY SetsType
  <2>3. P(l, d) # None =>
          /\ d.name \in {"max_streams", "max_bandwidth_bps", "stream_idle_timeout"}
          /\ P(l, d) = SetInt(l, d) \/ P(l, d) = SetDuration(l, d)
    OBVIOUS
  <2> HIDE DEF P
  <2> SUFFICES ASSUME P(l, d) # None PROVE P(l, d) \in LimitsConfig
    OBVIOUS
  <2>4. PICK x \in Int : P(l, d) = [l EXCEPT ![d.name] = x]
    BY <2>2, <2>3, Zenon
  <2> QED
    BY <2>1, <2>3, <2>4, Zenon
<1>4. \A n \in 1 .. len, c \in LimitsConfig :
        step[n][c] = P(c, block[n]) /\ step[n][c] \in LimitsConfig \cup {None}
  BY <1>2, <1>3
<1>set. ASSUME NEW d, NEW l, P(l, d) # None
        PROVE  P(l, d) = [l EXCEPT ![d.name] = d.args[1][KindOf(d.name)][1]]
  BY <1>set DEF SetInt, SetDuration, KindOf
<1>0. base = limits
  OBVIOUS
<1> HIDE DEF P, base, step
<1>5. PICK f : Parses(f, LimitsConfig, len, base, step)
  BY <1>base, <1>2, <1>4, ParsesExist
<1>6. Rec(f)
  <2>1. f = [n \in 0 .. len |-> f[n]]
    BY <1>5 DEF Parses
  <2>2. ASSUME NEW n \in 0 .. len, n # 0
        PROVE  f[n] = IF f[n - 1] = None THEN None ELSE P(f[n - 1], block[n])
    BY <1>2, <1>4, <1>5, <2>2, n \in 1 .. len, n - 1 \in 0 .. len DEF Parses
  <2> QED
    BY <1>5, <2>1, <2>2 DEF Parses
<1>7. Rec(r)
  BY <1>6
<1> HIDE DEF r
<1>8. r[0] = base /\ \A n \in 1 .. len :
        r[n] = IF r[n - 1] = None THEN None ELSE P(r[n - 1], block[n])
  <2>1. r[0] = base
    BY <1>2, <1>7
  <2>2. ASSUME NEW n \in 1 .. len
        PROVE  r[n] = IF r[n - 1] = None THEN None ELSE P(r[n - 1], block[n])
    <3>1. n \in 0 .. len /\ n # 0
      BY <1>2
    <3> QED
      BY <1>7, <3>1
  <2> QED
    BY <2>1, <2>2
<1>kept. Continues(r, LimitsConfig, len)
  BY <1>base, <1>2, <1>3, <1>8 DEF Continues
<1>9. r[len] \in LimitsConfig \cup {None}
  BY <1>kept, ParsesKeepType DEF Continues
<1>10. ASSUME r[len] # None PROVE NumbersRead(r[len], limits, block)
  <2>1. \A n \in 0 .. len : r[n] \in LimitsConfig /\ r[n] # None
    BY <1>10, <1>kept, NoneRefused
  <2>2. ASSUME NEW n \in 1 .. len
        PROVE  LET d == block[n] IN
               r[n] = [r[n - 1] EXCEPT ![d.name] = d.args[1][KindOf(d.name)][1]]
    <3>1. n \in 0 .. len /\ n - 1 \in 0 .. len
      OBVIOUS
    <3>2. r[n] = P(r[n - 1], block[n]) /\ r[n] # None
      BY <1>8, <2>1, <3>1
    <3> QED
      BY <1>set, <3>2
  <2>3. \A c \in LimitsConfig :
          DOMAIN c = {"max_streams", "max_bandwidth_bps", "stream_idle_timeout"}
    BY DEF LimitsConfig
  <2>4. NumbersSet(r, {"max_streams", "max_bandwidth_bps", "stream_idle_timeout"}, block)
    BY <2>1, <2>2, <2>3 DEF NumbersSet
  <2> QED
    BY <1>0, <1>8, <2>4, NumbersParsed
<1> QED
  BY <1>9, <1>10

LEMMA GuardrailsType ==
  ASSUME NEW guardrails \in GuardrailsConfig, NEW Inner,
         NEW block \in {None} \cup Seq(Directive(Inner))
  PROVE  /\ ParseGuardrails(guardrails, block) \in GuardrailsConfig \cup {None}
         /\ ParseGuardrails(guardrails, block) # None =>
              NumbersRead(ParseGuardrails(guardrails, block), guardrails, block)
<1> DEFINE P(g, d) ==
             CASE d.name \in {"min_stream_idle_timeout", "max_stream_idle_timeout"} ->
                    SetDuration(g, d)
               [] d.name \in {"max_sessions", "max_streams_per_session",
                              "max_bandwidth_bps_per_session", "max_headers",
                              "max_header_bytes"} -> SetInt(g, d)
               [] OTHER -> None
           base == guardrails
           len == Len(block)
           Rec(f) == f = [n \in 0 .. len |->
                            IF n = 0 THEN base
                            ELSE LET c == f[n - 1]
                                 IN  IF c = None THEN None ELSE P(c, block[n])]
           step == [n \in 1 .. len |-> [c \in GuardrailsConfig |-> P(c, block[n])]]
           r == CHOOSE f : Rec(f)
<1>base. base \in GuardrailsConfig
  OBVIOUS
<1>1. ParseGuardrails(guardrails, block) = IF block = None THEN base ELSE r[len]
  BY DEF ParseGuardrails, ParseBlock
<1>none. block = None => NumbersRead(base, guardrails, block)
  BY DEF NumbersRead, Lines
<1> SUFFICES ASSUME block # None
             PROVE  /\ r[len] \in GuardrailsConfig \cup {None}
                    /\ r[len] # None => NumbersRead(r[len], guardrails, block)
  BY <1>1, <1>base, <1>none
<1>2. len \in Nat /\ \A n \in 1 .. len : block[n] \in Directive(Inner)
  OBVIOUS
<1>3. ASSUME NEW d \in Directive(Inner), NEW g \in GuardrailsConfig
      PROVE  P(g, d) \in GuardrailsConfig \cup {None}
  <2>1. \A x \in Int, f \in {"min_stream_idle_timeout", "max_stream_idle_timeout", "max_sessions",
                  "max_streams_per_session", "max_bandwidth_bps_per_session", "max_headers",
                  "max_header_bytes"} :
          [g EXCEPT ![f] = x] \in GuardrailsConfig
    BY DEF GuardrailsConfig
  <2>2. /\ SetInt(g, d) = None \/ \E x \in Int : SetInt(g, d) = [g EXCEPT ![d.name] = x]
        /\ \/ SetDuration(g, d) = None
           \/ \E x \in Int : SetDuration(g, d) = [g EXCEPT ![d.name] = x]
    BY SetsType
  <2>3. P(g, d) # None =>
          /\ d.name \in {"min_stream_idle_timeout", "max_stream_idle_timeout", "max_sessions",
                  "max_streams_per_session", "max_bandwidth_bps_per_session", "max_headers",
                  "max_header_bytes"}
          /\ P(g, d) = SetInt(g, d) \/ P(g, d) = SetDuration(g, d)
    OBVIOUS
  <2> HIDE DEF P
  <2> SUFFICES ASSUME P(g, d) # None PROVE P(g, d) \in GuardrailsConfig
    OBVIOUS
  <2>4. PICK x \in Int : P(g, d) = [g EXCEPT ![d.name] = x]
    BY <2>2, <2>3, Zenon
  <2> QED
    BY <2>1, <2>3, <2>4, Zenon
<1>4. \A n \in 1 .. len, c \in GuardrailsConfig :
        step[n][c] = P(c, block[n]) /\ step[n][c] \in GuardrailsConfig \cup {None}
  BY <1>2, <1>3
<1>set. ASSUME NEW d, NEW g, P(g, d) # None
        PROVE  P(g, d) = [g EXCEPT ![d.name] = d.args[1][KindOf(d.name)][1]]
  BY <1>set DEF SetInt, SetDuration, KindOf
<1>0. base = guardrails
  OBVIOUS
<1> HIDE DEF P, base, step
<1>5. PICK f : Parses(f, GuardrailsConfig, len, base, step)
  BY <1>base, <1>2, <1>4, ParsesExist
<1>6. Rec(f)
  <2>1. f = [n \in 0 .. len |-> f[n]]
    BY <1>5 DEF Parses
  <2>2. ASSUME NEW n \in 0 .. len, n # 0
        PROVE  f[n] = IF f[n - 1] = None THEN None ELSE P(f[n - 1], block[n])
    BY <1>2, <1>4, <1>5, <2>2, n \in 1 .. len, n - 1 \in 0 .. len DEF Parses
  <2> QED
    BY <1>5, <2>1, <2>2 DEF Parses
<1>7. Rec(r)
  BY <1>6
<1> HIDE DEF r
<1>8. r[0] = base /\ \A n \in 1 .. len :
        r[n] = IF r[n - 1] = None THEN None ELSE P(r[n - 1], block[n])
  <2>1. r[0] = base
    BY <1>2, <1>7
  <2>2. ASSUME NEW n \in 1 .. len
        PROVE  r[n] = IF r[n - 1] = None THEN None ELSE P(r[n - 1], block[n])
    <3>1. n \in 0 .. len /\ n # 0
      BY <1>2
    <3> QED
      BY <1>7, <3>1
  <2> QED
    BY <2>1, <2>2
<1>kept. Continues(r, GuardrailsConfig, len)
  BY <1>base, <1>2, <1>3, <1>8 DEF Continues
<1>9. r[len] \in GuardrailsConfig \cup {None}
  BY <1>kept, ParsesKeepType DEF Continues
<1>10. ASSUME r[len] # None PROVE NumbersRead(r[len], guardrails, block)
  <2>1. \A n \in 0 .. len : r[n] \in GuardrailsConfig /\ r[n] # None
    BY <1>10, <1>kept, NoneRefused
  <2>2. ASSUME NEW n \in 1 .. len
        PROVE  LET d == block[n] IN
               r[n] = [r[n - 1] EXCEPT ![d.name] = d.args[1][KindOf(d.name)][1]]
    <3>1. n \in 0 .. len /\ n - 1 \in 0 .. len
      OBVIOUS
    <3>2. r[n] = P(r[n - 1], block[n]) /\ r[n] # None
      BY <1>8, <2>1, <3>1
    <3> QED
      BY <1>set, <3>2
  <2>3. \A c \in GuardrailsConfig :
          DOMAIN c = {"max_sessions", "max_streams_per_session",
                  "max_bandwidth_bps_per_session", "min_stream_idle_timeout",
                  "max_stream_idle_timeout", "max_headers", "max_header_bytes"}
    BY DEF GuardrailsConfig
  <2>4. NumbersSet(r, {"max_sessions", "max_streams_per_session",
                  "max_bandwidth_bps_per_session", "min_stream_idle_timeout",
                  "max_stream_idle_timeout", "max_headers", "max_header_bytes"}, block)
    BY <2>1, <2>2, <2>3 DEF NumbersSet
  <2> QED
    BY <1>0, <1>8, <2>4, NumbersParsed
<1> QED
  BY <1>9, <1>10

LEMMA RuntimeType ==
  ASSUME NEW runtime \in RuntimeConfig, NEW Inner,
         NEW block \in {None} \cup Seq(Directive(Inner))
  PROVE  /\ ParseRuntime(runtime, block) \in RuntimeConfig \cup {None}
         /\ ParseRuntime(runtime, block) # None =>
              NumbersRead(ParseRuntime(runtime, block), runtime, block)
<1> DEFINE P(r0, d) ==
             CASE d.name = "stream_copy_buffer_bytes" -> SetInt(r0, d)
               [] d.name \in {"handshake_timeout", "tunnel_keepalive_interval",
                              "tunnel_keepalive_timeout"} -> SetDuration(r0, d)
               [] OTHER -> None
           base == runtime
           len == Len(block)
           Rec(f) == f = [n \in 0 .. len |->
                            IF n = 0 THEN base
                            ELSE LET c == f[n - 1]
                                 IN  IF c = None THEN None ELSE P(c, block[n])]
           step == [n \in 1 .. len |-> [c \in RuntimeConfig |-> P(c, block[n])]]
           r == CHOOSE f : Rec(f)
<1>base. base \in RuntimeConfig
  OBVIOUS
<1>1. ParseRuntime(runtime, block) = IF block = None THEN base ELSE r[len]
  BY DEF ParseRuntime, ParseBlock
<1>none. block = None => NumbersRead(base, runtime, block)
  BY DEF NumbersRead, Lines
<1> SUFFICES ASSUME block # None
             PROVE  /\ r[len] \in RuntimeConfig \cup {None}
                    /\ r[len] # None => NumbersRead(r[len], runtime, block)
  BY <1>1, <1>base, <1>none
<1>2. len \in Nat /\ \A n \in 1 .. len : block[n] \in Directive(Inner)
  OBVIOUS
<1>3. ASSUME NEW d \in Directive(Inner), NEW r0 \in RuntimeConfig
      PROVE  P(r0, d) \in RuntimeConfig \cup {None}
  <2>1. \A x \in Int, f \in {"stream_copy_buffer_bytes", "handshake_timeout", "tunnel_keepalive_interval",
                  "tunnel_keepalive_timeout"} :
          [r0 EXCEPT ![f] = x] \in RuntimeConfig
    BY DEF RuntimeConfig
  <2>2. /\ SetInt(r0, d) = None \/ \E x \in Int : SetInt(r0, d) = [r0 EXCEPT ![d.name] = x]
        /\ \/ SetDuration(r0, d) = None
           \/ \E x \in Int : SetDuration(r0, d) = [r0 EXCEPT ![d.name] = x]
    BY SetsType
  <2>3. P(r0, d) # None =>
          /\ d.name \in {"stream_copy_buffer_bytes", "handshake_timeout", "tunnel_keepalive_interval",
                  "tunnel_keepalive_timeout"}
          /\ P(r0, d) = SetInt(r0, d) \/ P(r0, d) = SetDuration(r0, d)
    OBVIOUS
  <2> HIDE DEF P
  <2> SUFFICES ASSUME P(r0, d) # None PROVE P(r0, d) \in RuntimeConfig
    OBVIOUS
  <2>4. PICK x \in Int : P(r0, d) = [r0 EXCEPT ![d.name] = x]
    BY <2>2, <2>3, Zenon
  <2> QED
    BY <2>1, <2>3, <2>4, Zenon
<1>4. \A n \in 1 .. len, c \in RuntimeConfig :
        step[n][c] = P(c, block[n]) /\ step[n][c] \in RuntimeConfig \cup {None}
  BY <1>2, <1>3
<1>set. ASSUME NEW d, NEW r0, P(r0, d) # None
        PROVE  P(r0, d) = [r0 EXCEPT ![d.name] = d.args[1][KindOf(d.name)][1]]
  BY <1>set DEF SetInt, SetDuration, KindOf
<1>0. base = runtime
  OBVIOUS
<1> HIDE DEF P, base, step
<1>5. PICK f : Parses(f, RuntimeConfig, len, base, step)
  BY <1>base, <1>2, <1>4, ParsesExist
<1>6. Rec(f)
  <2>1. f = [n \in 0 .. len |-> f[n]]
    BY <1>5 DEF Parses
  <2>2. ASSUME NEW n \in 0 .. len, n # 0
        PROVE  f[n] = IF f[n - 1] = None THEN None ELSE P(f[n - 1], block[n])
    BY <1>2, <1>4, <1>5, <2>2, n \in 1 .. len, n - 1 \in 0 .. len DEF Parses
  <2> QED
    BY <1>5, <2>1, <2>2 DEF Parses
<1>7. Rec(r)
  BY <1>6
<1> HIDE DEF r
<1>8. r[0] = base /\ \A n \in 1 .. len :
        r[n] = IF r[n - 1] = None THEN None ELSE P(r[n - 1], block[n])
  <2>1. r[0] = base
    BY <1>2, <1>7
  <2>2. ASSUME NEW n \in 1 .. len
        PROVE  r[n] = IF r[n - 1] = None THEN None ELSE P(r[n - 1], block[n])
    <3>1. n \in 0 .. len /\ n # 0
      BY <1>2
    <3> QED
      BY <1>7, <3>1
  <2> QED
    BY <2>1, <2>2
<1>kept. Continues(r, RuntimeConfig, len)
  BY <1>base, <1>2, <1>3, <1>8 DEF Continues
<1>9. r[len] \in RuntimeConfig \cup {None}
  BY <1>kept, ParsesKeepType DEF Continues
<1>10. ASSUME r[len] # None PROVE NumbersRead(r[len], runtime, block)
  <2>1. \A n \in 0 .. len : r[n] \in RuntimeConfig /\ r[n] # None
    BY <1>10, <1>kept, NoneRefused
  <2>2. ASSUME NEW n \in 1 .. len
        PROVE  LET d == block[n] IN
               r[n] = [r[n - 1] EXCEPT ![d.name] = d.args[1][KindOf(d.name)][1]]
    <3>1. n \in 0 .. len /\ n - 1 \in 0 .. len
      OBVIOUS
    <3>2. r[n] = P(r[n - 1], block[n]) /\ r[n] # None
      BY <1>8, <2>1, <3>1
    <3> QED
      BY <1>set, <3>2
  <2>3. \A c \in RuntimeConfig :
          DOMAIN c = {"handshake_timeout", "stream_copy_buffer_bytes",
                  "tunnel_keepalive_interval", "tunnel_keepalive_timeout"}
    BY DEF RuntimeConfig
  <2>4. NumbersSet(r, {"handshake_timeout", "stream_copy_buffer_bytes",
                  "tunnel_keepalive_interval", "tunnel_keepalive_timeout"}, block)
    BY <2>1, <2>2, <2>3 DEF NumbersSet
  <2> QED
    BY <1>0, <1>8, <2>4, NumbersParsed
<1> QED
  BY <1>9, <1>10

LEMMA SameEndpoint ==
  ASSUME NEW e \in EndpointConfig, NEW d,
         e.key = d.args[1].text,
         e.token = LastSaid(d.block, "token", "text", <<>>),
         e.policy = LastSaid(d.block, "policy", "text", <<>>),
         e.max_parallel = SaidNumber(d.block, "max_parallel"),
         \A f \in DOMAIN EmptyLimits :
           e.limits[f] = SaidNumbers(d.block, "limits", EmptyLimits)[f]
  PROVE  e = SaidEndpoint(d)
<1> DEFINE said == SaidNumbers(d.block, "limits", EmptyLimits)
<1>1. e.limits = said
  <2>1. DOMAIN EmptyLimits = {"max_streams", "max_bandwidth_bps", "stream_idle_timeout"}
    BY DEF EmptyLimits
  <2>2. e.limits \in LimitsConfig
    BY DEF EndpointConfig
  <2>3. e.limits = [f \in DOMAIN EmptyLimits |-> e.limits[f]]
    BY <2>1, <2>2 DEF LimitsConfig
  <2>4. said = [f \in DOMAIN EmptyLimits |-> said[f]]
    BY DEF SaidNumbers
  <2> QED
    BY <2>3, <2>4
<1>2. e = [key |-> e.key, token |-> e.token, policy |-> e.policy,
           max_parallel |-> e.max_parallel, limits |-> e.limits]
  BY DEF EndpointConfig
<1> QED
  BY <1>1, <1>2 DEF SaidEndpoint

LEMMA EndpointType ==
  ASSUME NEW Inner, NEW e0 \in Directive(Directive(Directive(Inner))), Len(e0.args) = 1
  PROVE  /\ ParseEndpoint(e0) \in EndpointConfig \cup {None}
         /\ ParseEndpoint(e0) # None => ParseEndpoint(e0) = SaidEndpoint(e0)
<1> DEFINE P(e, x) ==
             CASE x.name \in {"token", "policy"} -> SetText(e, x)
               [] x.name = "max_parallel" -> SetInt(e, x)
               [] x.name = "limits" -> SetParsed(e, x, ParseLimits(e.limits, x.block))
               [] OTHER -> None
           block == e0.block
           base == [EmptyEndpoint EXCEPT !.key = e0.args[1].text]
           len == Len(block)
           Rec(f) == f = [n \in 0 .. len |->
                            IF n = 0 THEN base
                            ELSE LET c == f[n - 1]
                                 IN  IF c = None THEN None ELSE P(c, block[n])]
           step == [n \in 1 .. len |-> [c \in EndpointConfig |-> P(c, block[n])]]
           r == CHOOSE f : Rec(f)
<1>base. base \in EndpointConfig
  <2>1. e0.args[1].text \in Texts /\ <<>> \in Texts
    BY ArgumentType DEF Texts
  <2> QED
    BY <2>1 DEF EmptyEndpoint, EmptyLimits, EndpointConfig, LimitsConfig
<1>0. block \in {None} \cup Seq(Directive(Directive(Inner)))
  BY DEF Directive
<1> HIDE DEF block
<1>1. ParseEndpoint(e0) = IF block = None THEN base ELSE r[len]
  BY DEF ParseEndpoint, ParseBlock, block
<1>key. base \in EndpointConfig => /\ base.key = e0.args[1].text /\ base.token = <<>>
                                   /\ base.policy = <<>> /\ base.max_parallel = 0
                                   /\ base.limits = EmptyLimits
  BY DEF EmptyEndpoint, EndpointConfig
<1>zero. \A f \in DOMAIN EmptyLimits : EmptyLimits[f] = 0
  BY DEF EmptyLimits
<1>none. ASSUME block = None PROVE base = SaidEndpoint(e0)
  <2>1. \A name : Lines(e0.block, name) = {}
    BY <1>none DEF Lines, block
  <2>2. \A f \in DOMAIN EmptyLimits :
          EmptyLimits[f] = SaidNumbers(e0.block, "limits", EmptyLimits)[f]
    BY <1>zero, <2>1 DEF SaidNumbers, SaidInside
  <2>3. \A name, kind, default : LastSaid(e0.block, name, kind, default) = default
    BY <2>1 DEF LastSaid
  <2>4. SaidNumber(e0.block, "max_parallel") = 0
    BY <2>3 DEF SaidNumber
  <2> HIDE DEF base
  <2> QED
    BY <1>base, <1>key, <2>2, <2>3, <2>4, SameEndpoint
<1> SUFFICES ASSUME block # None
             PROVE  /\ r[len] \in EndpointConfig \cup {None}
                    /\ r[len] # None => r[len] = SaidEndpoint(e0)
  BY <1>1, <1>base, <1>none
<1>2. len \in Nat /\ \A n \in 1 .. len : block[n] \in Directive(Directive(Inner))
  BY <1>0
<1>3. ASSUME NEW x \in Directive(Directive(Inner)), NEW e \in EndpointConfig
      PROVE  P(e, x) \in EndpointConfig \cup {None}
  <2>1. /\ \A t \in Texts, f \in {"token", "policy"} : [e EXCEPT ![f] = t] \in EndpointConfig
        /\ \A n \in Int : [e EXCEPT !["max_parallel"] = n] \in EndpointConfig
        /\ \A l \in LimitsConfig : [e EXCEPT !["limits"] = l] \in EndpointConfig
    BY DEF EndpointConfig
  <2>2. CASE x.name = "limits"
    <3>1. e.limits \in LimitsConfig /\ x.block \in {None} \cup Seq(Directive(Inner))
      BY DEF EndpointConfig, Directive
    <3>2. ParseLimits(e.limits, x.block) \in LimitsConfig \cup {None}
      BY <3>1, LimitsType
    <3>3. P(e, x) = SetParsed(e, x, ParseLimits(e.limits, x.block))
      BY <2>2
    <3> HIDE DEF P
    <3> QED
      BY <2>1, <2>2, <3>2, <3>3 DEF SetParsed
  <2>3. CASE x.name \in {"token", "policy"}
    <3>1. P(e, x) = SetText(e, x)
      BY <2>3
    <3>2. SetText(e, x) = None \/ \E t \in Texts : SetText(e, x) = [e EXCEPT ![x.name] = t]
      BY SetsType
    <3> HIDE DEF P
    <3> QED
      BY <2>1, <2>3, <3>1, <3>2
  <2>4. CASE x.name = "max_parallel"
    <3>1. P(e, x) = SetInt(e, x)
      BY <2>4
    <3>2. SetInt(e, x) = None \/ \E n \in Int : SetInt(e, x) = [e EXCEPT ![x.name] = n]
      BY SetsType
    <3> HIDE DEF P
    <3> QED
      BY <2>1, <2>4, <3>1, <3>2
  <2>5. CASE x.name \notin {"token", "policy", "max_parallel", "limits"}
    BY <2>5
  <2> QED
    BY <2>2, <2>3, <2>4, <2>5
<1>4. \A n \in 1 .. len, c \in EndpointConfig :
        step[n][c] = P(c, block[n]) /\ step[n][c] \in EndpointConfig \cup {None}
  BY <1>2, <1>3
\* What a line that is accepted changes.
<1>set. ASSUME NEW x \in Directive(Directive(Inner)), NEW e \in EndpointConfig,
               P(e, x) # None
        PROVE  /\ P(e, x).key = e.key
               /\ P(e, x).token = IF x.name = "token" THEN x.args[1].text ELSE e.token
               /\ P(e, x).policy = IF x.name = "policy" THEN x.args[1].text ELSE e.policy
               /\ P(e, x).max_parallel = IF x.name = "max_parallel"
                                         THEN x.args[1][KindOf("max_parallel")][1]
                                         ELSE e.max_parallel
               /\ IF x.name = "limits" THEN NumbersRead(P(e, x).limits, e.limits, x.block)
                  ELSE P(e, x).limits = e.limits
  <2>1. CASE x.name = "limits"
    <3>1. e.limits \in LimitsConfig /\ x.block \in {None} \cup Seq(Directive(Inner))
      BY DEF EndpointConfig, Directive
    <3> DEFINE l == ParseLimits(e.limits, x.block)
    <3>2. l # None => NumbersRead(l, e.limits, x.block)
      BY <3>1, LimitsType
    <3>3. l # None /\ P(e, x) = [e EXCEPT !["limits"] = l]
      BY <1>set, <2>1 DEF SetParsed
    <3> HIDE DEF l, P
    <3>4. DOMAIN e = {"key", "token", "policy", "max_parallel", "limits"}
      BY DEF EndpointConfig
    <3>5. P(e, x).limits = l /\ P(e, x).key = e.key /\ P(e, x).token = e.token
          /\ P(e, x).policy = e.policy /\ P(e, x).max_parallel = e.max_parallel
      BY <3>3, <3>4
    <3> QED
      BY <2>1, <3>2, <3>3, <3>5
  <2>2. CASE x.name # "limits"
    <3>1. DOMAIN e = {"key", "token", "policy", "max_parallel", "limits"}
      BY DEF EndpointConfig
    <3>2. \/ x.name \in {"token", "policy"} /\ P(e, x) = [e EXCEPT ![x.name] = x.args[1].text]
          \/ x.name = "max_parallel" /\ P(e, x) = [e EXCEPT ![x.name] = x.args[1].int[1]]
      BY <1>set, <2>2 DEF SetText, SetInt
    <3>3. KindOf("max_parallel") = "int"
      BY DEF KindOf
    <3> HIDE DEF P
    <3> QED
      BY <2>2, <3>1, <3>2, <3>3
  <2> QED
    BY <2>1, <2>2
<1> HIDE DEF P, base, step
<1>5. PICK f : Parses(f, EndpointConfig, len, base, step)
  BY <1>base, <1>2, <1>4, ParsesExist
<1>6. Rec(f)
  <2>1. f = [n \in 0 .. len |-> f[n]]
    BY <1>5 DEF Parses
  <2>2. ASSUME NEW n \in 0 .. len, n # 0
        PROVE  f[n] = IF f[n - 1] = None THEN None ELSE P(f[n - 1], block[n])
    BY <1>2, <1>4, <1>5, <2>2, n \in 1 .. len, n - 1 \in 0 .. len DEF Parses
  <2> QED
    BY <1>5, <2>1, <2>2 DEF Parses
<1>7. Rec(r)
  BY <1>6
<1> HIDE DEF r
<1>8. r[0] = base /\ \A n \in 1 .. len :
        r[n] = IF r[n - 1] = None THEN None ELSE P(r[n - 1], block[n])
  <2>1. r[0] = base
    BY <1>2, <1>7
  <2>2. ASSUME NEW n \in 1 .. len
        PROVE  r[n] = IF r[n - 1] = None THEN None ELSE P(r[n - 1], block[n])
    <3>1. n \in 0 .. len /\ n # 0
      BY <1>2
    <3> QED
      BY <1>7, <3>1
  <2> QED
    BY <2>1, <2>2
<1>kept. Continues(r, EndpointConfig, len)
  BY <1>base, <1>2, <1>3, <1>8 DEF Continues
<1>9. r[len] \in EndpointConfig \cup {None}
  BY <1>kept, ParsesKeepType DEF Continues
<1>10. ASSUME r[len] # None PROVE r[len] = SaidEndpoint(e0)
  <2>1. \A n \in 0 .. len : r[n] \in EndpointConfig /\ r[n] # None
    BY <1>10, <1>kept, NoneRefused
  <2>2. 0 \in 0 .. len /\ len \in 0 .. len
    BY <1>2
  <2>3. ASSUME NEW n \in 1 .. len
        PROVE  /\ n \in 0 .. len /\ n - 1 \in 0 .. len
               /\ r[n - 1] \in EndpointConfig /\ block[n] \in Directive(Directive(Inner))
               /\ r[n] = P(r[n - 1], block[n]) /\ r[n] # None
    <3>1. n \in 0 .. len /\ n - 1 \in 0 .. len
      BY <1>2
    <3> QED
      BY <1>2, <1>8, <2>1, <3>1
  <2> DEFINE key == [n \in 0 .. len |-> r[n].key]
             token == [n \in 0 .. len |-> r[n].token]
             policy == [n \in 0 .. len |-> r[n].policy]
             parallel == [n \in 0 .. len |-> r[n].max_parallel]
             limits == [n \in 0 .. len |-> r[n].limits]
  <2>4. \A n \in 0 .. len :
          /\ key[n] = r[n].key /\ token[n] = r[n].token /\ policy[n] = r[n].policy
          /\ parallel[n] = r[n].max_parallel /\ limits[n] = r[n].limits
    OBVIOUS
  <2> HIDE DEF key, token, policy, parallel, limits
  <2>5. /\ token[0] = <<>> /\ policy[0] = <<>> /\ parallel[0] = 0
        /\ limits[0] = EmptyLimits /\ key[0] = e0.args[1].text
    BY <1>base, <1>key, <1>8, <2>2, <2>4
  <2>set. ASSUME NEW n \in 1 .. len
          PROVE  /\ token[n] = IF block[n].name = "token" THEN block[n].args[1].text
                               ELSE token[n - 1]
                 /\ policy[n] = IF block[n].name = "policy" THEN block[n].args[1].text
                                ELSE policy[n - 1]
                 /\ parallel[n] = IF block[n].name = "max_parallel"
                                  THEN block[n].args[1][KindOf("max_parallel")][1]
                                  ELSE parallel[n - 1]
                 /\ IF block[n].name = "limits"
                    THEN NumbersRead(limits[n], limits[n - 1], block[n].block)
                    ELSE limits[n] = limits[n - 1]
    <3> DEFINE x == block[n]
               e == r[n - 1]
    <3>1. /\ e \in EndpointConfig /\ x \in Directive(Directive(Inner))
          /\ P(e, x) # None /\ r[n] = P(e, x)
      BY <2>3
    <3>2. /\ token[n] = P(e, x).token /\ token[n - 1] = e.token
          /\ policy[n] = P(e, x).policy /\ policy[n - 1] = e.policy
          /\ parallel[n] = P(e, x).max_parallel /\ parallel[n - 1] = e.max_parallel
          /\ limits[n] = P(e, x).limits /\ limits[n - 1] = e.limits
      BY <2>3, <2>4, <3>1
    <3> HIDE DEF x, e
    <3>3. /\ P(e, x).token = IF x.name = "token" THEN x.args[1].text ELSE e.token
          /\ P(e, x).policy = IF x.name = "policy" THEN x.args[1].text ELSE e.policy
          /\ P(e, x).max_parallel = IF x.name = "max_parallel"
                                    THEN x.args[1][KindOf("max_parallel")][1]
                                    ELSE e.max_parallel
          /\ IF x.name = "limits" THEN NumbersRead(P(e, x).limits, e.limits, x.block)
             ELSE P(e, x).limits = e.limits
      BY <1>set, <3>1
    <3> QED
      BY <3>2, <3>3 DEF x
  <2>6. r[len].token = LastSaid(block, "token", "text", <<>>)
    <3>1. TextSet(token, "token", block)
      BY <2>set DEF TextSet
    <3> QED
      BY <1>0, <2>2, <2>4, <2>5, <3>1, TextParsed
  <2>7. r[len].policy = LastSaid(block, "policy", "text", <<>>)
    <3>1. TextSet(policy, "policy", block)
      BY <2>set DEF TextSet
    <3> QED
      BY <1>0, <2>2, <2>4, <2>5, <3>1, TextParsed
  <2>8. r[len].max_parallel = SaidNumber(block, "max_parallel")
    <3>1. NumberSet(parallel, "max_parallel", block)
      BY <2>set DEF NumberSet
    <3>2. Lines(block, "max_parallel") = {} => SaidNumber(block, "max_parallel") = 0
      BY DEF SaidNumber, LastSaid
    <3> QED
      BY <1>0, <2>2, <2>4, <2>5, <3>1, <3>2, NumberParsed
  <2>9. \A g \in DOMAIN EmptyLimits :
          r[len].limits[g] = SaidNumbers(block, "limits", EmptyLimits)[g]
    <3>1. \A n \in 0 .. len : DOMAIN limits[n] = DOMAIN limits[0]
      BY <2>1, <2>2, <2>4 DEF EndpointConfig, LimitsConfig
    <3>2. InsideSet(limits, "limits", block)
      BY <2>set, <3>1 DEF InsideSet
    <3> QED
      BY <1>0, <1>zero, <2>2, <2>4, <2>5, <3>2, NumbersInside
  <2>10. r[len].key = e0.args[1].text
    <3>1. Overwrites(key, len, {}, key)
      BY <1>2, <1>set, <2>3, <2>4 DEF Overwrites
    <3> QED
      BY <2>2, <2>4, <2>5, <3>1, LastWins
  <2> QED
    BY <2>1, <2>2, <2>6, <2>7, <2>8, <2>9, <2>10, SameEndpoint DEF block
<1> QED
  BY <1>9, <1>10

\* A configuration is what is said but for blanks, endpoints in the order of their
\* lines.
Alike(e, said) ==
  /\ TrimSpace(e.key) = TrimSpace(said.key)
  /\ TrimSpace(e.token) = TrimSpace(said.token)
  /\ TrimSpace(e.policy) = TrimSpace(said.policy)
  /\ e.max_parallel = said.max_parallel /\ e.limits = said.limits

AsSaid(s, said) ==
  /\ TrimSpace(s.tls_subject) = TrimSpace(said.tls_subject)
  /\ \A f \in DOMAIN EmptyGuardrails : s.guardrails[f] = said.guardrails[f]
  /\ \A f \in DOMAIN EmptyRuntime : s.runtime[f] = said.runtime[f]
  /\ Len(s.endpoints) = Cardinality(DOMAIN said.endpoints)
  /\ \A n \in DOMAIN said.endpoints :
       /\ Rank(n, DOMAIN said.endpoints) \in 1 .. Len(s.endpoints)
       /\ Alike(s.endpoints[Rank(n, DOMAIN said.endpoints)], said.endpoints[n])

LEMMA ServerType ==
  ASSUME NEW Inner, NEW d0 \in Directive(Directive(Directive(Directive(Inner)))),
         Len(d0.args) = 1,
         NEW server, server = [EmptyServer EXCEPT !.tls_subject = d0.args[1].text]
  PROVE  /\ ParseServerBody(server, d0.block) \in ServerConfig \cup {None}
         /\ ParseServerBody(server, d0.block) # None =>
              AsSaid(ParseServerBody(server, d0.block), SaidServer(d0))
<1> DEFINE P(s, d) ==
             CASE d.name = "listen" -> SetText(s, d)
               [] d.name = "endpoint" -> AddEndpoint(s, ParseEndpoint(d))
               [] d.name = "guardrails" ->
                    SetParsed(s, d, ParseGuardrails(s.guardrails, d.block))
               [] d.name = "runtime" -> SetParsed(s, d, ParseRuntime(s.runtime, d.block))
               [] OTHER -> None
           block == d0.block
           base == server
           len == Len(block)
           Rec(f) == f = [n \in 0 .. len |->
                            IF n = 0 THEN base
                            ELSE LET c == f[n - 1]
                                 IN  IF c = None THEN None ELSE P(c, block[n])]
           step == [n \in 1 .. len |-> [c \in ServerConfig |-> P(c, block[n])]]
           r == CHOOSE f : Rec(f)
<1>base. base \in ServerConfig
  <2>1. EmptyGuardrails \in GuardrailsConfig /\ EmptyRuntime \in RuntimeConfig
    BY DEF EmptyGuardrails, EmptyRuntime, GuardrailsConfig, RuntimeConfig
  <2>2. <<>> \in Seq(EndpointConfig)
    OBVIOUS
  <2>3. d0.args[1].text \in Texts /\ <<>> \in Texts
    BY ArgumentType DEF Texts
  <2> QED
    BY <2>1, <2>2, <2>3 DEF EmptyServer, ServerConfig
<1>empty. /\ base.tls_subject = d0.args[1].text /\ base.endpoints = <<>>
          /\ base.guardrails = EmptyGuardrails /\ base.runtime = EmptyRuntime
  BY DEF EmptyServer
<1>zero. /\ \A f \in DOMAIN EmptyGuardrails : EmptyGuardrails[f] = 0
         /\ \A f \in DOMAIN EmptyRuntime : EmptyRuntime[f] = 0
  BY DEF EmptyGuardrails, EmptyRuntime
<1>0. block \in {None} \cup Seq(Directive(Directive(Directive(Inner))))
  BY DEF Directive
<1>said. /\ SaidServer(d0).tls_subject = d0.args[1].text
         /\ SaidServer(d0).endpoints =
              [n \in Lines(block, "endpoint") |-> SaidEndpoint(block[n])]
         /\ SaidServer(d0).guardrails = SaidNumbers(block, "guardrails", EmptyGuardrails)
         /\ SaidServer(d0).runtime = SaidNumbers(block, "runtime", EmptyRuntime)
  BY DEF SaidServer
<1>1. ParseServerBody(server, d0.block) = IF block = None THEN base ELSE r[len]
  BY DEF ParseServerBody, ParseBlock
<1> HIDE DEF block
<1>none. ASSUME block = None PROVE AsSaid(base, SaidServer(d0))
  <2>1. \A name : Lines(block, name) = {}
    BY <1>none DEF Lines
  <2>2. /\ \A f \in DOMAIN EmptyGuardrails :
             EmptyGuardrails[f] = SaidNumbers(block, "guardrails", EmptyGuardrails)[f]
        /\ \A f \in DOMAIN EmptyRuntime :
             EmptyRuntime[f] = SaidNumbers(block, "runtime", EmptyRuntime)[f]
    BY <1>zero, <2>1 DEF SaidNumbers, SaidInside
  <2>3. DOMAIN SaidServer(d0).endpoints = {} /\ Len(base.endpoints) = 0
    BY <1>empty, <1>said, <2>1
  <2> HIDE DEF base
  <2>4. /\ TrimSpace(base.tls_subject) = TrimSpace(SaidServer(d0).tls_subject)
        /\ \A f \in DOMAIN EmptyGuardrails : base.guardrails[f] = SaidServer(d0).guardrails[f]
        /\ \A f \in DOMAIN EmptyRuntime : base.runtime[f] = SaidServer(d0).runtime[f]
    BY <1>empty, <1>said, <2>2
  <2>5. Len(base.endpoints) = Cardinality(DOMAIN SaidServer(d0).endpoints)
    BY <2>3, FS_EmptySet
  <2> QED
    BY <2>3, <2>4, <2>5 DEF AsSaid
<1> SUFFICES ASSUME block # None
             PROVE  /\ r[len] \in ServerConfig \cup {None}
                    /\ r[len] # None => AsSaid(r[len], SaidServer(d0))
  BY <1>1, <1>base, <1>none
<1>2. len \in Nat /\ \A n \in 1 .. len : block[n] \in Directive(Directive(Directive(Inner)))
  BY <1>0
<1>3. ASSUME NEW d \in Directive(Directive(Directive(Inner))), NEW s \in ServerConfig
      PROVE  P(s, d) \in ServerConfig \cup {None}
  <2>1. /\ \A t \in Texts : [s EXCEPT !["listen"] = t] \in ServerConfig
        /\ \A es \in Seq(EndpointConfig) : [s EXCEPT !["endpoints"] = es] \in ServerConfig
        /\ \A g \in GuardrailsConfig : [s EXCEPT !["guardrails"] = g] \in ServerConfig
        /\ \A x \in RuntimeConfig : [s EXCEPT !["runtime"] = x] \in ServerConfig
    BY DEF ServerConfig
  <2>2. d.block \in {None} \cup Seq(Directive(Directive(Inner)))
    BY DEF Directive
  <2>3. CASE d.name = "listen"
    <3>1. SetText(s, d) = None \/ \E t \in Texts : SetText(s, d) = [s EXCEPT ![d.name] = t]
      BY SetsType
    <3> QED
      BY <2>1, <2>3, <3>1
  <2>4. CASE d.name = "endpoint"
    <3>1. ParseEndpoint(d) \in EndpointConfig \cup {None}
      <4>1. CASE Len(d.args) = 1
        BY <4>1, EndpointType
      <4>2. CASE Len(d.args) # 1
        BY <4>2 DEF ParseEndpoint
      <4> QED
        BY <4>1, <4>2
    <3>2. ASSUME NEW e \in EndpointConfig
          PROVE  [s EXCEPT !.endpoints = Append(@, e)] \in ServerConfig
      <4> DEFINE es == Append(s.endpoints, e)
      <4>1. s.endpoints \in Seq(EndpointConfig)
        BY DEF ServerConfig
      <4>2. es \in Seq(EndpointConfig)
        BY <4>1
      <4>3. [s EXCEPT !.endpoints = Append(@, e)] = [s EXCEPT !["endpoints"] = es]
        OBVIOUS
      <4> HIDE DEF es
      <4> QED
        BY <2>1, <4>2, <4>3
    <3>3. P(s, d) = AddEndpoint(s, ParseEndpoint(d))
      BY <2>4
    <3> HIDE DEF P
    <3> QED
      BY <3>1, <3>2, <3>3 DEF AddEndpoint
  <2>5. CASE d.name = "guardrails"
    <3>1. s.guardrails \in GuardrailsConfig
      BY DEF ServerConfig
    <3>2. ParseGuardrails(s.guardrails, d.block) \in GuardrailsConfig \cup {None}
      BY <2>2, <3>1, GuardrailsType
    <3> QED
      BY <2>1, <2>5, <3>2 DEF SetParsed
  <2>6. CASE d.name = "runtime"
    <3>1. s.runtime \in RuntimeConfig
      BY DEF ServerConfig
    <3>2. ParseRuntime(s.runtime, d.block) \in RuntimeConfig \cup {None}
      BY <2>2, <3>1, RuntimeType
    <3> QED
      BY <2>1, <2>6, <3>2 DEF SetParsed
  <2>7. CASE d.name \notin {"listen", "endpoint", "guardrails", "runtime"}
    BY <2>7
  <2> QED
    BY <2>3, <2>4, <2>5, <2>6, <2>7
<1>4. \A n \in 1 .. len, c \in ServerConfig :
        step[n][c] = P(c, block[n]) /\ step[n][c] \in ServerConfig \cup {None}
  BY <1>2, <1>3
\* What a line that is accepted changes.
<1>set. ASSUME NEW d \in Directive(Directive(Directive(Inner))), NEW s \in ServerConfig,
               P(s, d) # None
        PROVE  /\ P(s, d).tls_subject = s.tls_subject
               /\ IF d.name = "endpoint"
                  THEN /\ P(s, d).endpoints = Append(s.endpoints, SaidEndpoint(d))
                       /\ SaidEndpoint(d) \in EndpointConfig
                  ELSE P(s, d).endpoints = s.endpoints
               /\ IF d.name = "guardrails"
                  THEN NumbersRead(P(s, d).guardrails, s.guardrails, d.block)
                  ELSE P(s, d).guardrails = s.guardrails
               /\ IF d.name = "runtime"
                  THEN NumbersRead(P(s, d).runtime, s.runtime, d.block)
                  ELSE P(s, d).runtime = s.runtime
  <2>0. DOMAIN s = {"listen", "tls_subject", "endpoints", "guardrails", "runtime"}
    BY DEF ServerConfig
  <2>b. d.block \in {None} \cup Seq(Directive(Directive(Inner)))
    BY DEF Directive
  <2>1. CASE d.name = "listen"
    <3>1. P(s, d) = [s EXCEPT !["listen"] = d.args[1].text]
      BY <1>set, <2>1 DEF SetText
    <3> HIDE DEF P
    <3> QED
      BY <2>0, <2>1, <3>1
  <2>2. CASE d.name = "endpoint"
    <3> DEFINE e == ParseEndpoint(d)
    <3>1. e # None /\ P(s, d) = [s EXCEPT !["endpoints"] = Append(s.endpoints, e)]
      BY <1>set, <2>2 DEF AddEndpoint
    <3>2. Len(d.args) = 1
      BY <3>1 DEF ParseEndpoint
    <3>3. e \in EndpointConfig \cup {None} /\ e = SaidEndpoint(d)
      BY <3>1, <3>2, EndpointType
    <3> HIDE DEF P, e
    <3> QED
      BY <2>0, <2>2, <3>1, <3>3
  <2>3. CASE d.name = "guardrails"
    <3> DEFINE g == ParseGuardrails(s.guardrails, d.block)
    <3>1. s.guardrails \in GuardrailsConfig
      BY DEF ServerConfig
    <3>2. g # None => NumbersRead(g, s.guardrails, d.block)
      BY <2>b, <3>1, GuardrailsType
    <3>3. g # None /\ P(s, d) = [s EXCEPT !["guardrails"] = g]
      BY <1>set, <2>3 DEF SetParsed
    <3> HIDE DEF P, g
    <3> QED
      BY <2>0, <2>3, <3>2, <3>3
  <2>4. CASE d.name = "runtime"
    <3> DEFINE q == ParseRuntime(s.runtime, d.block)
    <3>1. s.runtime \in RuntimeConfig
      BY DEF ServerConfig
    <3>2. q # None => NumbersRead(q, s.runtime, d.block)
      BY <2>b, <3>1, RuntimeType
    <3>3. q # None /\ P(s, d) = [s EXCEPT !["runtime"] = q]
      BY <1>set, <2>4 DEF SetParsed
    <3> HIDE DEF P, q
    <3> QED
      BY <2>0, <2>4, <3>2, <3>3
  <2>5. d.name \in {"listen", "endpoint", "guardrails", "runtime"}
    BY <1>set
  <2> QED
    BY <2>1, <2>2, <2>3, <2>4, <2>5
<1> HIDE DEF P, base, step
<1>5. PICK f : Parses(f, ServerConfig, len, base, step)
  BY <1>base, <1>2, <1>4, ParsesExist
<1>6. Rec(f)
  <2>1. f = [n \in 0 .. len |-> f[n]]
    BY <1>5 DEF Parses
  <2>2. ASSUME NEW n \in 0 .. len, n # 0
        PROVE  f[n] = IF f[n - 1] = None THEN None ELSE P(f[n - 1], block[n])
    BY <1>2, <1>4, <1>5, <2>2, n \in 1 .. len, n - 1 \in 0 .. len DEF Parses
  <2> QED
    BY <1>5, <2>1, <2>2 DEF Parses
<1>7. Rec(r)
  BY <1>6
<1> HIDE DEF r
<1>8. r[0] = base /\ \A n \in 1 .. len :
        r[n] = IF r[n - 1] = None THEN None ELSE P(r[n - 1], block[n])
  <2>1. r[0] = base
    BY <1>2, <1>7
  <2>2. ASSUME NEW n \in 1 .. len
        PROVE  r[n] = IF r[n - 1] = None THEN None ELSE P(r[n - 1], block[n])
    <3>1. n \in 0 .. len /\ n # 0
      BY <1>2
    <3> QED
      BY <1>7, <3>1
  <2> QED
    BY <2>1, <2>2
<1>kept. Continues(r, ServerConfig, len)
  BY <1>base, <1>2, <1>3, <1>8 DEF Continues
<1>9. r[len] \in ServerConfig \cup {None}
  BY <1>kept, ParsesKeepType DEF Continues
<1>10. ASSUME r[len] # None PROVE AsSaid(r[len], SaidServer(d0))
  <2>1. \A n \in 0 .. len : r[n] \in ServerConfig /\ r[n] # None
    BY <1>10, <1>kept, NoneRefused
  <2>2. 0 \in 0 .. len /\ len \in 0 .. len
    BY <1>2
  <2>3. ASSUME NEW n \in 1 .. len
        PROVE  /\ n \in 0 .. len /\ n - 1 \in 0 .. len
               /\ r[n - 1] \in ServerConfig
               /\ block[n] \in Directive(Directive(Directive(Inner)))
               /\ r[n] = P(r[n - 1], block[n]) /\ r[n] # None
    <3>1. n \in 0 .. len /\ n - 1 \in 0 .. len
      BY <1>2
    <3> QED
      BY <1>2, <1>8, <2>1, <3>1
  <2> DEFINE subject == [n \in 0 .. len |-> r[n].tls_subject]
             endpoints == [n \in 0 .. len |-> r[n].endpoints]
             guardrails == [n \in 0 .. len |-> r[n].guardrails]
             runtime == [n \in 0 .. len |-> r[n].runtime]
             L == Lines(block, "endpoint")
             said == SaidServer(d0).endpoints
  <2>4. \A n \in 0 .. len :
          /\ subject[n] = r[n].tls_subject /\ endpoints[n] = r[n].endpoints
          /\ guardrails[n] = r[n].guardrails /\ runtime[n] = r[n].runtime
    OBVIOUS
  <2>5. DOMAIN said = L /\ \A n \in L : said[n] = SaidEndpoint(block[n])
    BY <1>said
  <2>6. L \in SUBSET (1 .. len) /\ \A n \in 1 .. len : n \in L <=> block[n].name = "endpoint"
    BY <1>0, LinesIs
  <2> HIDE DEF subject, endpoints, guardrails, runtime, L, said
  <2>7. /\ subject[0] = d0.args[1].text /\ endpoints[0] = <<>>
        /\ guardrails[0] = EmptyGuardrails /\ runtime[0] = EmptyRuntime
    BY <1>empty, <1>8, <2>2, <2>4
  <2>8. r[len].tls_subject = d0.args[1].text
    <3>1. Overwrites(subject, len, {}, subject)
      BY <1>2, <1>set, <2>3, <2>4 DEF Overwrites
    <3> QED
      BY <2>2, <2>4, <2>7, <3>1, LastWins
  <2>9. \A g \in DOMAIN EmptyGuardrails :
          r[len].guardrails[g] = SaidNumbers(block, "guardrails", EmptyGuardrails)[g]
    <3>1. \A n \in 0 .. len : DOMAIN guardrails[n] = DOMAIN guardrails[0]
      BY <2>1, <2>2, <2>4 DEF ServerConfig, GuardrailsConfig
    <3>2. InsideSet(guardrails, "guardrails", block)
      BY <1>set, <2>3, <2>4, <3>1 DEF InsideSet
    <3> QED
      BY <1>0, <1>zero, <2>2, <2>4, <2>7, <3>2, NumbersInside
  <2>10. \A g \in DOMAIN EmptyRuntime :
          r[len].runtime[g] = SaidNumbers(block, "runtime", EmptyRuntime)[g]
    <3>1. \A n \in 0 .. len : DOMAIN runtime[n] = DOMAIN runtime[0]
      BY <2>1, <2>2, <2>4 DEF ServerConfig, RuntimeConfig
    <3>2. InsideSet(runtime, "runtime", block)
      BY <1>set, <2>3, <2>4, <3>1 DEF InsideSet
    <3> QED
      BY <1>0, <1>zero, <2>2, <2>4, <2>7, <3>2, NumbersInside
  <2>11. /\ Len(r[len].endpoints) = Cardinality(L)
         /\ \A n \in L : /\ Rank(n, L) \in 1 .. Len(r[len].endpoints)
                         /\ r[len].endpoints[Rank(n, L)] = said[n]
    <3>1. ASSUME NEW n \in 1 .. len
          PROVE  /\ endpoints[n] = IF n \in L THEN Append(endpoints[n - 1], said[n])
                                   ELSE endpoints[n - 1]
                 /\ n \in L => said[n] \in EndpointConfig
      <4> DEFINE d == block[n]
      <4>1. IF d.name = "endpoint"
            THEN /\ r[n].endpoints = Append(r[n - 1].endpoints, SaidEndpoint(d))
                 /\ SaidEndpoint(d) \in EndpointConfig
            ELSE r[n].endpoints = r[n - 1].endpoints
        <5>1. r[n - 1] \in ServerConfig /\ d \in Directive(Directive(Directive(Inner)))
          BY <2>3
        <5>2. r[n] = P(r[n - 1], d) /\ P(r[n - 1], d) # None
          BY <2>3
        <5> HIDE DEF d
        <5> QED
          BY <1>set, <5>1, <5>2
      <4>2. endpoints[n] = r[n].endpoints /\ endpoints[n - 1] = r[n - 1].endpoints
        BY <2>3, <2>4
      <4>3. (n \in L <=> d.name = "endpoint") /\ (n \in L => said[n] = SaidEndpoint(d))
        BY <2>5, <2>6
      <4> HIDE DEF d
      <4> QED
        BY <4>1, <4>2, <4>3
    <3>2. Appends(endpoints, len, L, said)
      BY <1>2, <2>6, <2>7, <3>1 DEF Appends
    <3>3. \A n \in 0 .. len : endpoints[n] \in Seq(EndpointConfig)
      BY <2>1, <2>4 DEF ServerConfig
    <3>4. \A n \in L : said[n] \in EndpointConfig
      BY <2>6, <3>1
    <3> QED
      BY <2>2, <2>4, <3>2, <3>3, <3>4, Appended
  <2> QED
    BY <1>said, <2>5, <2>8, <2>9, <2>10, <2>11 DEF AsSaid, Alike, said
<1> QED
  BY <1>9, <1>10

\* Clients that connect to an address: their blocks leave it alone.
Connecting(a) == {c \in ClientConfig : c.connect = a}

LEMMA ClientTLSType ==
  ASSUME NEW a, NEW client \in Connecting(a), NEW Inner,
         NEW block \in {None} \cup Seq(Directive(Inner))
  PROVE  ParseClientTLS(client, block) \in Connecting(a) \cup {None}
<1> DEFINE P(c0, d) ==
             CASE d.name = "ca_file" /\ Single(d) ->
                    [c0 EXCEPT !.tls_ca_file = d.args[1].text]
               [] d.name = "server_name" /\ Single(d) ->
                    [c0 EXCEPT !.tls_server_name = d.args[1].text]
               [] d.name = "insecure_skip_verify" /\ Flag(d) ->
                    [c0 EXCEPT !.tls_insecure_skip_verify = TRUE]
               [] OTHER -> None
           base == client
           len == Len(block)
           Rec(f) == f = [n \in 0 .. len |->
                            IF n = 0 THEN base
                            ELSE LET c == f[n - 1]
                                 IN  IF c = None THEN None ELSE P(c, block[n])]
           step == [n \in 1 .. len |-> [c \in Connecting(a) |-> P(c, block[n])]]
           r == CHOOSE f : Rec(f)
<1>base. base \in Connecting(a)
  OBVIOUS
<1>1. ParseClientTLS(client, block) = IF block = None THEN base ELSE r[len]
  BY DEF ParseClientTLS, ParseBlock
<1> SUFFICES ASSUME block # None PROVE r[len] \in Connecting(a) \cup {None}
  BY <1>1, <1>base
<1>2. len \in Nat /\ \A n \in 1 .. len : block[n] \in Directive(Inner)
  OBVIOUS
<1>3. ASSUME NEW d \in Directive(Inner), NEW c0 \in Connecting(a)
      PROVE  P(c0, d) \in Connecting(a) \cup {None}
  <2>1. Single(d) => d.args[1].text \in Texts
    BY ArgumentType DEF Single
  <2>2. /\ \A t \in Texts : /\ [c0 EXCEPT !.tls_ca_file = t] \in Connecting(a)
                            /\ [c0 EXCEPT !.tls_server_name = t] \in Connecting(a)
        /\ [c0 EXCEPT !.tls_insecure_skip_verify = TRUE] \in Connecting(a)
    BY DEF Connecting, ClientConfig
  <2> QED
    BY <2>1, <2>2
<1>4. \A n \in 1 .. len, c \in Connecting(a) :
        step[n][c] = P(c, block[n]) /\ step[n][c] \in Connecting(a) \cup {None}
  BY <1>2, <1>3
<1> HIDE DEF P, base, step
<1>5. PICK f : Parses(f, Connecting(a), len, base, step)
  BY <1>base, <1>2, <1>4, ParsesExist
<1>6. Rec(f)
  <2>1. f = [n \in 0 .. len |-> f[n]]
    BY <1>5 DEF Parses
  <2>2. ASSUME NEW n \in 0 .. len, n # 0
        PROVE  f[n] = IF f[n - 1] = None THEN None ELSE P(f[n - 1], block[n])
    BY <1>2, <1>4, <1>5, <2>2, n \in 1 .. len, n - 1 \in 0 .. len DEF Parses
  <2> QED
    BY <1>5, <2>1, <2>2 DEF Parses
<1>7. Rec(r)
  BY <1>6
<1> HIDE DEF r
<1>8. r[0] = base /\ \A n \in 1 .. len :
        r[n] = IF r[n - 1] = None THEN None ELSE P(r[n - 1], block[n])
  <2>1. r[0] = base
    BY <1>2, <1>7
  <2>2. ASSUME NEW n \in 1 .. len
        PROVE  r[n] = IF r[n - 1] = None THEN None ELSE P(r[n - 1], block[n])
    <3>1. n \in 0 .. len /\ n # 0
      BY <1>2
    <3> QED
      BY <1>7, <3>1
  <2> QED
    BY <2>1, <2>2
<1>9. Continues(r, Connecting(a), len)
  BY <1>base, <1>2, <1>3, <1>8 DEF Continues
<1> QED
  BY <1>9, ParsesKeepType DEF Continues

LEMMA ClientType ==
  ASSUME NEW a, NEW client \in Connecting(a), NEW Inner,
         NEW block \in {None} \cup Seq(Directive(Directive(Inner)))
  PROVE  ParseClientBody(client, block) \in Connecting(a) \cup {None}
<1> DEFINE P(c0, d) ==
             CASE d.name \in {"token", "forward"} -> SetText(c0, d)
               [] d.name = "tls" /\ d.args = <<>> -> ParseClientTLS(c0, d.block)
               [] OTHER -> None
           base == client
           len == Len(block)
           Rec(f) == f = [n \in 0 .. len |->
                            IF n = 0 THEN base
                            ELSE LET c == f[n - 1]
                                 IN  IF c = None THEN None ELSE P(c, block[n])]
           step == [n \in 1 .. len |-> [c \in Connecting(a) |-> P(c, block[n])]]
           r == CHOOSE f : Rec(f)
<1>base. base \in Connecting(a)
  OBVIOUS
<1>1. ParseClientBody(client, block) = IF block = None THEN base ELSE r[len]
  BY DEF ParseClientBody, ParseBlock
<1> SUFFICES ASSUME block # None PROVE r[len] \in Connecting(a) \cup {None}
  BY <1>1, <1>base
<1>2. len \in Nat /\ \A n \in 1 .. len : block[n] \in Directive(Directive(Inner))
  OBVIOUS
<1>3. ASSUME NEW d \in Directive(Directive(Inner)), NEW c0 \in Connecting(a)
      PROVE  P(c0, d) \in Connecting(a) \cup {None}
  <2>1. CASE d.name \in {"token", "forward"}
    <3>1. SetText(c0, d) = None \/ \E t \in Texts : SetText(c0, d) = [c0 EXCEPT ![d.name] = t]
      BY SetsType
    <3>2. \A t \in Texts, f \in {"token", "forward"} : [c0 EXCEPT ![f] = t] \in Connecting(a)
      BY DEF Connecting, ClientConfig
    <3> QED
      BY <2>1, <3>1, <3>2
  <2>2. CASE d.name \notin {"token", "forward"}
    <3>1. d.block \in {None} \cup Seq(Directive(Inner))
      BY DEF Directive
    <3> QED
      BY <2>2, <3>1, ClientTLSType
  <2> QED
    BY <2>1, <2>2
<1>4. \A n \in 1 .. len, c \in Connecting(a) :
        step[n][c] = P(c, block[n]) /\ step[n][c] \in Connecting(a) \cup {None}
  BY <1>2, <1>3
<1> HIDE DEF P, base, step
<1>5. PICK f : Parses(f, Connecting(a), len, base, step)
  BY <1>base, <1>2, <1>4, ParsesExist
<1>6. Rec(f)
  <2>1. f = [n \in 0 .. len |-> f[n]]
    BY <1>5 DEF Parses
  <2>2. ASSUME NEW n \in 0 .. len, n # 0
        PROVE  f[n] = IF f[n - 1] = None THEN None ELSE P(f[n - 1], block[n])
    BY <1>2, <1>4, <1>5, <2>2, n \in 1 .. len, n - 1 \in 0 .. len DEF Parses
  <2> QED
    BY <1>5, <2>1, <2>2 DEF Parses
<1>7. Rec(r)
  BY <1>6
<1> HIDE DEF r
<1>8. r[0] = base /\ \A n \in 1 .. len :
        r[n] = IF r[n - 1] = None THEN None ELSE P(r[n - 1], block[n])
  <2>1. r[0] = base
    BY <1>2, <1>7
  <2>2. ASSUME NEW n \in 1 .. len
        PROVE  r[n] = IF r[n - 1] = None THEN None ELSE P(r[n - 1], block[n])
    <3>1. n \in 0 .. len /\ n # 0
      BY <1>2
    <3> QED
      BY <1>7, <3>1
  <2> QED
    BY <2>1, <2>2
<1>9. Continues(r, Connecting(a), len)
  BY <1>base, <1>2, <1>3, <1>8 DEF Continues
<1> QED
  BY <1>9, ParsesKeepType DEF Continues

-----------------------------------------------------------------------------
(* What normalisation makes of the texts of a configuration                *)

LEMMA ConnectType ==
  ASSUME NEW a \in Texts
  PROVE  /\ NormalizeConnectAddress(a) \in Texts
         /\ TrimSpace(a) # <<>> => TrimSpace(NormalizeConnectAddress(a)) # <<>>
<1> DEFINE t == TrimSpace(a)
           split == SplitHostPort(t)
           hp == CHOOSE x \in split : TRUE
<1>1. t \in Texts /\ TrimSpace(t) = t /\ DefaultConnectorPort \in Texts
  BY TrimSpaceType, TrimSpaceTwice, LiteralAssumption DEF DefaultConnectorPort, Texts
<1>2. split # {} => hp \in split /\ hp[1] \in Texts /\ hp[2] \in Texts
  BY <1>1, SplitType
<1>3. t # <<>> => HostOfUnported(t) \in Texts
  <2>1. t # <<>> => Front(t) \in Texts
    BY <1>1, PartsType
  <2>2. Len(t) > 1 => Tail(Front(t)) \in Texts
    BY <1>1, PartsType
  <2> HIDE DEF t
  <2> QED
    BY <1>1, <2>1, <2>2 DEF HostOfUnported
<1>4. \/ NormalizeConnectAddress(a) = t
      \/ \E h \in Texts : NormalizeConnectAddress(a) = JoinHostPort(h, DefaultConnectorPort)
  BY <1>2, <1>3 DEF NormalizeConnectAddress
<1>5. ASSUME NEW h \in Texts
      PROVE  /\ JoinHostPort(h, DefaultConnectorPort) \in Texts
             /\ TrimSpace(JoinHostPort(h, DefaultConnectorPort)) # <<>>
  BY <1>1, JoinType, SolidText DEF Blank
<1> QED
  BY <1>1, <1>4, <1>5

\* A configuration that is valid when it is normalised is valid when it is
\* normalised again.
LEMMA NormalizedClient ==
  ASSUME NEW c \in ClientConfig
  PROVE  /\ NormalizeClient(c) \in ClientConfig
         /\ ClientValid(c) => ClientValid(NormalizeClient(c))
<1>1. /\ c.connect \in Texts /\ c.token \in Texts /\ c.forward \in Texts
      /\ c.tls_ca_file \in Texts /\ c.tls_server_name \in Texts
  BY DEF ClientConfig
<1>2. \A a \in Texts : TrimSpace(a) \in Texts /\ TrimSpace(TrimSpace(a)) = TrimSpace(a)
  BY TrimSpaceType, TrimSpaceTwice
<1>3. NormalizeConnectAddress(c.connect) \in Texts
  BY <1>1, ConnectType
<1>4. NormalizeClient(c) \in ClientConfig
  BY <1>1, <1>2, <1>3 DEF NormalizeClient, ClientConfig
<1>5. /\ NormalizeClient(c).connect = NormalizeConnectAddress(c.connect)
      /\ NormalizeClient(c).token = TrimSpace(c.token)
      /\ NormalizeClient(c).forward = TrimSpace(c.forward)
  BY DEF NormalizeClient, ClientConfig
<1>6. ASSUME ClientValid(c) PROVE ClientValid(NormalizeClient(c))
  BY <1>1, <1>2, <1>5, <1>6, ConnectType DEF ClientValid
<1> QED
  BY <1>4, <1>6

\* To normalise a configuration twice is to normalise it once, if that is so of its
\* address.
LEMMA NormalizedTwice ==
  ASSUME NEW c \in ClientConfig,
         NormalizeConnectAddress(NormalizeConnectAddress(c.connect))
           = NormalizeConnectAddress(c.connect)
  PROVE  NormalizeClient(NormalizeClient(c)) = NormalizeClient(c)
<1>1. /\ c.token \in Texts /\ c.forward \in Texts
      /\ c.tls_ca_file \in Texts /\ c.tls_server_name \in Texts
  BY DEF ClientConfig
<1>2. \A a \in Texts : TrimSpace(TrimSpace(a)) = TrimSpace(a)
  BY TrimSpaceTwice
<1> QED
  BY <1>1, <1>2 DEF NormalizeClient, ClientConfig

LEMMA NormalizedEndpoint ==
  ASSUME NEW e \in EndpointConfig
  PROVE  NormalizeEndpoint(e) \in EndpointConfig
<1>1. /\ TrimSpace(e.key) \in Texts /\ TrimSpace(e.token) \in Texts
      /\ TrimSpace(e.policy) \in Texts
  BY TrimSpaceType DEF EndpointConfig
<1> QED
  BY <1>1 DEF NormalizeEndpoint, EndpointConfig

LEMMA NormalizedServer ==
  ASSUME NEW s \in ServerConfig
  PROVE  NormalizeServer(s) \in ServerConfig
<1> DEFINE es == s.endpoints
<1>1. /\ s.listen \in Texts /\ s.tls_subject \in Texts /\ es \in Seq(EndpointConfig)
  BY DEF ServerConfig
<1>2. DefaultConnectorListen \in Texts
  BY LiteralAssumption DEF DefaultConnectorListen, Texts
<1>3. [n \in DOMAIN es |-> NormalizeEndpoint(es[n])] \in Seq(EndpointConfig)
  <2>1. Len(es) \in Nat /\ DOMAIN es = 1 .. Len(es) /\ \A n \in DOMAIN es : es[n] \in EndpointConfig
    BY <1>1
  <2>2. [n \in 1 .. Len(es) |-> NormalizeEndpoint(es[n])] \in [1 .. Len(es) -> EndpointConfig]
    BY <2>1, NormalizedEndpoint
  <2> QED
    BY <2>1, <2>2
<1>4. TrimSpace(s.listen) \in Texts /\ TrimSpace(s.tls_subject) \in Texts
  BY <1>1, TrimSpaceType
<1> QED
  BY <1>2, <1>3, <1>4 DEF NormalizeServer, ServerConfig

\* To normalise a configuration changes nothing but blanks.
LEMMA SaidNormalized ==
  ASSUME NEW s \in ServerConfig, NEW said, AsSaid(s, said)
  PROVE  /\ AsSaid(NormalizeServer(s), said)
         /\ NormalizeServer(s).tls_subject = TrimSpace(said.tls_subject)
<1> DEFINE t == NormalizeServer(s)
           L == DOMAIN said.endpoints
<1>1. /\ s.endpoints \in Seq(EndpointConfig) /\ s.tls_subject \in Texts
      /\ DOMAIN s = {"listen", "tls_subject", "endpoints", "guardrails", "runtime"}
  BY DEF ServerConfig
<1>2. /\ t.tls_subject = TrimSpace(s.tls_subject)
      /\ t.guardrails = s.guardrails /\ t.runtime = s.runtime
      /\ t.endpoints = [n \in DOMAIN s.endpoints |-> NormalizeEndpoint(s.endpoints[n])]
  BY <1>1 DEF NormalizeServer
<1>3. \A a \in Texts : TrimSpace(TrimSpace(a)) = TrimSpace(a)
  BY TrimSpaceTwice
<1>4. ASSUME NEW e \in EndpointConfig, NEW f, Alike(e, f)
      PROVE  Alike(NormalizeEndpoint(e), f)
  <2>1. /\ NormalizeEndpoint(e).key = TrimSpace(e.key)
        /\ NormalizeEndpoint(e).token = TrimSpace(e.token)
        /\ NormalizeEndpoint(e).policy = TrimSpace(e.policy)
        /\ NormalizeEndpoint(e).max_parallel = e.max_parallel
        /\ NormalizeEndpoint(e).limits = e.limits
        /\ e.key \in Texts /\ e.token \in Texts /\ e.policy \in Texts
    BY DEF NormalizeEndpoint, EndpointConfig
  <2> QED
    BY <1>3, <1>4, <2>1 DEF Alike
<1>5. t.endpoints \in Seq(EndpointConfig) /\ Len(t.endpoints) = Len(s.endpoints)
  <2>1. t \in ServerConfig
    BY NormalizedServer
  <2>2. t.endpoints \in Seq(EndpointConfig)
    BY <2>1 DEF ServerConfig
  <2>3. DOMAIN t.endpoints = DOMAIN s.endpoints
    BY <1>2
  <2> QED
    BY <1>1, <2>2, <2>3
<1>6. \A i \in 1 .. Len(s.endpoints) :
        /\ s.endpoints[i] \in EndpointConfig
        /\ t.endpoints[i] = NormalizeEndpoint(s.endpoints[i])
  BY <1>1, <1>2
<1> HIDE DEF t, L
<1>7. ASSUME NEW n \in L
      PROVE  /\ Rank(n, L) \in 1 .. Len(t.endpoints)
             /\ Alike(t.endpoints[Rank(n, L)], said.endpoints[n])
  <2>1. /\ Rank(n, L) \in 1 .. Len(s.endpoints)
        /\ Alike(s.endpoints[Rank(n, L)], said.endpoints[n])
    BY DEF AsSaid, L
  <2> QED
    BY <1>4, <1>5, <1>6, <2>1
<1>8. AsSaid(t, said)
  BY <1>1, <1>2, <1>3, <1>5, <1>7 DEF AsSaid, L
<1>9. t.tls_subject = TrimSpace(said.tls_subject)
  BY <1>2 DEF AsSaid
<1> QED
  BY <1>8, <1>9 DEF t

LEMMA SaidItself == \A s \in ServerConfig : AsSaid(s, s)
<1> SUFFICES ASSUME NEW s \in ServerConfig PROVE AsSaid(s, s)
  OBVIOUS
<1> DEFINE es == s.endpoints
<1>1. es \in Seq(EndpointConfig)
  BY DEF ServerConfig
<1> HIDE DEF es
<1>2. Len(es) \in Nat /\ DOMAIN es = 1 .. Len(es)
  BY <1>1
<1>3. ASSUME NEW n \in 1 .. Len(es) PROVE Rank(n, 1 .. Len(es)) = n
  <2>1. {m \in 1 .. Len(es) : m <= n} = 1 .. n
    BY <1>2
  <2>2. Cardinality(1 .. n) = n
    BY FS_Interval
  <2> QED
    BY <2>1, <2>2 DEF Rank
<1>4. Cardinality(1 .. Len(es)) = Len(es)
  <2>1. ASSUME NEW k \in Nat PROVE Cardinality(1 .. k) = k
    <3>1. Cardinality(1 .. k) = IF 1 > k THEN 0 ELSE k - 1 + 1
      BY FS_Interval
    <3> QED
      BY <3>1
  <2> QED
    BY <1>2, <2>1
<1> QED
  BY <1>2, <1>3, <1>4 DEF AsSaid, Alike, es

-----------------------------------------------------------------------------
(* What normalisation makes of the spellings of an address                 *)

LEMMA HostUnported ==
  ASSUME NEW h \in Texts, IsHost(h)
  PROVE  HostOfUnported(h) = h /\ HostOfUnported(Bracket(h)) = h
<1>1. Len(h) \in Nat /\ Len(h) >= 1 /\ h[1] # "[" /\ ~HasOne(h, ":")
  BY BracketIs DEF Texts, IsHost
<1>2. HostOfUnported(h) = h
  BY <1>1 DEF HostOfUnported
<1>3. ASSUME Encloses(Bracket(h), "[", h, "]") PROVE HostOfUnported(Bracket(h)) = h
  <2>1. /\ Len(Bracket(h)) = Len(h) + 2 /\ Bracket(h)[1] = "["
        /\ Last(Bracket(h)) = "]" /\ Tail(Front(Bracket(h))) = h
    BY <1>3 DEF Encloses
  <2>2. Len(Bracket(h)) > 1
    BY <1>1, <2>1
  <2> QED
    BY <2>1, <2>2 DEF HostOfUnported
<1> QED
  BY <1>2, <1>3, BracketIs

LEMMA ConnectPorted ==
  ASSUME NEW h \in Texts, NEW p \in Texts, IsHost(h), IsPort(p), NEW a,
         TrimSpace(a) = JoinHostPort(h, p)
  PROVE  NormalizeConnectAddress(a) =
           JoinHostPort(h, IF p = <<>> THEN DefaultConnectorPort ELSE p)
<1> DEFINE t == JoinHostPort(h, p)
<1>1. t # <<>> /\ ~Has(t, "://")
  BY JoinAddress, HasIs DEF Address
<1>2. SplitHostPort(t) = {<<h, p>>}
  BY SplitPorted
<1> HIDE DEF t
<1>3. TrimSpace(a) = t
  BY DEF t
<1>4. (CHOOSE hp \in {<<h, p>>} : TRUE) = <<h, p>>
  OBVIOUS
<1>5. NormalizeConnectAddress(a) =
        IF p = <<>> THEN JoinHostPort(h, DefaultConnectorPort) ELSE t
  BY <1>1, <1>2, <1>3, <1>4 DEF NormalizeConnectAddress
<1> QED
  BY <1>5 DEF t

LEMMA ConnectUnported ==
  ASSUME NEW h \in Texts, IsHost(h), NEW a, TrimSpace(a) \in {h, Bracket(h)}
  PROVE  NormalizeConnectAddress(a) = JoinHostPort(h, DefaultConnectorPort)
<1> DEFINE t == TrimSpace(a)
<1>1. t # <<>> /\ ~Has(t, "://")
  BY HostAddress, HasIs DEF Address
<1>2. SplitHostPort(t) = {} /\ HostOfUnported(t) = h
  BY SplitUnported, HostUnported
<1> QED
  BY <1>1, <1>2 DEF NormalizeConnectAddress

\* Each spelling comes out as what it means, and what is meant stays as it is.
LEMMA ConnectSpelled ==
  ASSUME NEW h \in Host, NEW p \in AnyPort, NEW a \in Spellings(h, p)
  PROVE  /\ NormalizeConnectAddress(a) = Meaning(h, p)
         /\ NormalizeConnectAddress(Meaning(h, p)) = Meaning(h, p)
<1>1. h \in Texts /\ IsHost(h)
  BY WritingAssumption, HostAssumption
<1>2. p \in Texts /\ IsPort(p)
  <2>1. <<>> \in Texts /\ IsPort(<<>>)
    BY DEF Texts, IsPort
  <2>2. ASSUME NEW q \in Port PROVE <<q>> \in Texts /\ IsPort(<<q>>)
    BY WritingAssumption, HostAssumption, OneCharacter
  <2> QED
    BY <2>1, <2>2 DEF AnyPort
<1>3. DefaultConnectorPort \in Texts /\ IsPort(DefaultConnectorPort)
      /\ DefaultConnectorPort # <<>>
  <2>1. <<"8443">> \in Texts /\ Len(<<"8443">>) = 1 /\ <<"8443">>[1] = "8443"
    BY LiteralAssumption, OneCharacter
  <2>2. \A n \in DOMAIN <<"8443">> : <<"8443">>[n] = "8443"
    OBVIOUS
  <2>3. IsPort(<<"8443">>)
    BY <2>2, BlankIs DEF IsPort
  <2> QED
    BY <2>1, <2>3 DEF DefaultConnectorPort
<1>4. \/ TrimSpace(a) = JoinHostPort(h, p)
      \/ p = <<>> /\ TrimSpace(a) \in {h, Bracket(h)}
  <2> DEFINE spelled == {JoinHostPort(h, p)} \cup IF p = <<>> THEN {h, Bracket(h)} ELSE {}
  <2>1. \A s \in spelled : Address(s)
    BY <1>1, <1>2, HostAddress, JoinAddress
  <2>2. a \in spelled \/ \E s \in spelled : a = <<Blank>> \o s \o <<Blank>>
    BY DEF Spellings
  <2> HIDE DEF spelled
  <2>3. TrimSpace(a) \in spelled
    BY <2>1, <2>2, AddressTrimmed
  <2> QED
    BY <2>3 DEF spelled
<1>5. NormalizeConnectAddress(a) = Meaning(h, p)
  BY <1>1, <1>2, <1>4, ConnectPorted, ConnectUnported DEF Meaning
<1>6. ASSUME NEW q \in Texts, IsPort(q), q # <<>>
      PROVE  NormalizeConnectAddress(JoinHostPort(h, q)) = JoinHostPort(h, q)
  <2>1. TrimSpace(JoinHostPort(h, q)) = JoinHostPort(h, q)
    BY <1>1, <1>6, JoinAddress, AddressTrimmed
  <2> QED
    BY <1>1, <1>6, <2>1, ConnectPorted
<1> QED
  BY <1>2, <1>3, <1>5, <1>6 DEF Meaning

-----------------------------------------------------------------------------
(* A Caddyfile's app, and the module's invariant                           *)

\* Of a lone client the address is the one after its name, normalised.
ClientOf(block, a) ==
  a # None /\ Len(block) = 1 /\ block[1].name = "client" =>
    /\ a.client # None
    /\ a.client.connect = NormalizeConnectAddress(block[1].args[1].text)

\* A server is the block's only directive, and is what is said in it.
ServerOf(block, a) ==
  a # None /\ a.server # None =>
    /\ AsSaid(a.server, SaidServer(block[1]))
    /\ a.server.tls_subject = TrimSpace(SaidServer(block[1]).tls_subject)

LEMMA AppType ==
  ASSUME NEW block \in Block
  PROVE  /\ ParseApp(block) \in AppConfig \cup {None}
         /\ ClientOf(block, ParseApp(block)) /\ ServerOf(block, ParseApp(block))
<1>none. block # None
  BY NoneAssumption
<1> DEFINE P(a, d) ==
             IF Len(d.args) # 1 \/ a.server # None \/ a.client # None THEN None
             ELSE LET arg == d.args[1].text IN
               CASE d.name = "server" ->
                      LET s == ParseServerBody([EmptyServer EXCEPT !.tls_subject = arg], d.block)
                      IN  IF s = None THEN None ELSE [a EXCEPT !.server = NormalizeServer(s)]
                 [] d.name = "client" ->
                      LET c == ParseClientBody([EmptyClient EXCEPT !.connect = arg], d.block)
                      IN  IF c = None THEN None ELSE [a EXCEPT !.client = NormalizeClient(c)]
                 [] OTHER -> None
           base == [server |-> None, client |-> None, plugin |-> FALSE]
           len == Len(block)
           Rec(f) == f = [n \in 0 .. len |->
                            IF n = 0 THEN base
                            ELSE LET c == f[n - 1]
                                 IN  IF c = None THEN None ELSE P(c, block[n])]
           step == [n \in 1 .. len |-> [c \in AppConfig |-> P(c, block[n])]]
           r == CHOOSE f : Rec(f)
<1>base. base \in AppConfig
  BY DEF AppConfig
<1>1. ParseApp(block) = IF block = None THEN base ELSE r[len]
  BY DEF ParseApp, ParseBlock
<1> HIDE DEF P, base, len, r
<1> SUFFICES r[len] \in AppConfig \cup {None} /\ ClientOf(block, r[len]) /\ ServerOf(block, r[len])
  BY <1>1, <1>none
<1> USE DEF P, base, len, r
<1>2. len \in Nat /\ \A n \in 1 .. len : block[n] \in Directive(Directive(Directive(Directive({}))))
  BY DEF Block
<1>3. ASSUME NEW d \in Directive(Directive(Directive(Directive({})))), NEW a \in AppConfig
      PROVE  /\ P(a, d) \in AppConfig \cup {None}
             /\ d.name = "client" /\ P(a, d) # None =>
                  /\ P(a, d).client # None
                  /\ P(a, d).client.connect = NormalizeConnectAddress(d.args[1].text)
  <2> DEFINE arg == d.args[1].text
             s == ParseServerBody([EmptyServer EXCEPT !.tls_subject = arg], d.block)
             c == ParseClientBody([EmptyClient EXCEPT !.connect = arg], d.block)
  <2> SUFFICES ASSUME Len(d.args) = 1
               PROVE  /\ P(a, d) \in AppConfig \cup {None}
                      /\ d.name = "client" /\ P(a, d) # None =>
                           /\ P(a, d).client # None
                           /\ P(a, d).client.connect = NormalizeConnectAddress(arg)
    OBVIOUS
  <2>1. arg \in Texts /\ <<>> \in Texts
    BY ArgumentType DEF Texts
  <2>2. d.block \in {None} \cup Seq(Directive(Directive(Directive({}))))
    BY DEF Directive
  <2>3. s \in ServerConfig \cup {None} /\ (s # None => AsSaid(s, SaidServer(d)))
    BY ServerType
  <2>4. c \in Connecting(arg) \cup {None}
    <3>1. [EmptyClient EXCEPT !.connect = arg] \in Connecting(arg)
      BY <2>1 DEF EmptyClient, Connecting, ClientConfig
    <3> QED
      BY <2>2, <3>1, ClientType
  <2>5. \/ P(a, d) = None
        \/ /\ d.name = "server" /\ s # None
           /\ P(a, d) = [a EXCEPT !.server = NormalizeServer(s)]
        \/ c # None /\ P(a, d) = [a EXCEPT !.client = NormalizeClient(c)]
    OBVIOUS
  <2> HIDE DEF P, s, c, arg
  <2>6. /\ \A x \in ServerConfig : [a EXCEPT !.server = x] \in AppConfig
        /\ \A x \in ClientConfig : [a EXCEPT !.client = x] \in AppConfig
    BY DEF AppConfig
  <2>7. CASE P(a, d) = None
    BY <2>7
  <2>8. CASE /\ d.name = "server" /\ s # None
             /\ P(a, d) = [a EXCEPT !.server = NormalizeServer(s)]
    BY <2>3, <2>6, <2>8, NormalizedServer
  <2>9. CASE c # None /\ P(a, d) = [a EXCEPT !.client = NormalizeClient(c)]
    <3>1. c \in ClientConfig /\ c.connect = arg
      BY <2>4, <2>9 DEF Connecting
    <3>2. NormalizeClient(c) \in ClientConfig /\ NormalizeClient(c) # None
      BY <3>1, NormalizedClient, NoneAssumption
    <3>3. NormalizeClient(c).connect = NormalizeConnectAddress(arg)
      BY <3>1 DEF NormalizeClient, ClientConfig
    <3>4. P(a, d).client = NormalizeClient(c)
      BY <2>9 DEF AppConfig
    <3> QED
      BY <2>6, <2>9, <3>2, <3>3, <3>4
  <2> QED
    BY <2>5, <2>7, <2>8, <2>9
<1>4. \A n \in 1 .. len, c \in AppConfig :
        step[n][c] = P(c, block[n]) /\ step[n][c] \in AppConfig \cup {None}
  BY <1>2, <1>3
\* A second directive is refused, whatever the first is.
<1>set. ASSUME NEW d \in Directive(Directive(Directive(Directive({})))), NEW a \in AppConfig,
               P(a, d) # None
        PROVE  /\ a.server = None /\ a.client = None
               /\ P(a, d).server # None \/ P(a, d).client # None
               /\ P(a, d).server # None =>
                    /\ AsSaid(P(a, d).server, SaidServer(d))
                    /\ P(a, d).server.tls_subject = TrimSpace(SaidServer(d).tls_subject)
  <2> DEFINE arg == d.args[1].text
             s == ParseServerBody([EmptyServer EXCEPT !.tls_subject = arg], d.block)
             c == ParseClientBody([EmptyClient EXCEPT !.connect = arg], d.block)
  <2>1. a.server = None /\ a.client = None /\ Len(d.args) = 1
    BY <1>set
  <2>2. \/ d.name = "server" /\ s # None /\ P(a, d) = [a EXCEPT !.server = NormalizeServer(s)]
        \/ d.name = "client" /\ c # None /\ P(a, d) = [a EXCEPT !.client = NormalizeClient(c)]
    BY <1>set
  <2>3. s \in ServerConfig \cup {None} /\ (s # None => AsSaid(s, SaidServer(d)))
    BY <2>1, ServerType
  <2>4. d.name = "client" => P(a, d).client # None
    BY <1>3, <1>set
  <2>5. DOMAIN a = {"server", "client", "plugin"}
    BY DEF AppConfig
  <2> HIDE DEF P, s, c
  <2>6. CASE d.name = "server" /\ s # None /\ P(a, d) = [a EXCEPT !.server = NormalizeServer(s)]
    <3>1. P(a, d).server = NormalizeServer(s)
      BY <2>5, <2>6
    <3>2. NormalizeServer(s) # None
      BY <2>3, <2>6, NormalizedServer, NoneAssumption
    <3> QED
      BY <2>1, <2>3, <2>6, <3>1, <3>2, SaidNormalized
  <2>7. CASE d.name = "client" /\ c # None /\ P(a, d) = [a EXCEPT !.client = NormalizeClient(c)]
    <3>1. P(a, d).server = None
      BY <2>1, <2>5, <2>7
    <3> QED
      BY <2>1, <2>4, <2>7, <3>1
  <2> QED
    BY <2>2, <2>6, <2>7
<1> HIDE DEF P, base, step
<1>5. PICK f : Parses(f, AppConfig, len, base, step)
  BY <1>base, <1>2, <1>4, ParsesExist
<1>6. Rec(f)
  <2>1. f = [n \in 0 .. len |-> f[n]]
    BY <1>5 DEF Parses
  <2>2. ASSUME NEW n \in 0 .. len, n # 0
        PROVE  f[n] = IF f[n - 1] = None THEN None ELSE P(f[n - 1], block[n])
    BY <1>2, <1>4, <1>5, <2>2, n \in 1 .. len, n - 1 \in 0 .. len DEF Parses
  <2> QED
    BY <1>5, <2>1, <2>2 DEF Parses
<1>7. Rec(r)
  BY <1>6
<1> HIDE DEF r
<1>8. r[0] = base /\ \A n \in 1 .. len :
        r[n] = IF r[n - 1] = None THEN None ELSE P(r[n - 1], block[n])
  <2>1. r[0] = base
    BY <1>2, <1>7
  <2>2. ASSUME NEW n \in 1 .. len
        PROVE  r[n] = IF r[n - 1] = None THEN None ELSE P(r[n - 1], block[n])
    <3>1. n \in 0 .. len /\ n # 0
      BY <1>2
    <3> QED
      BY <1>7, <3>1
  <2> QED
    BY <2>1, <2>2
<1>9. r[len] \in AppConfig \cup {None}
  <2>1. Continues(r, AppConfig, len)
    BY <1>base, <1>2, <1>3, <1>8 DEF Continues
  <2> QED
    BY <2>1, ParsesKeepType DEF Continues
<1>10. ASSUME r[len] # None, len = 1, block[1].name = "client"
       PROVE  /\ r[len].client # None
              /\ r[len].client.connect = NormalizeConnectAddress(block[1].args[1].text)
  <2>1. base # None
    BY <1>8, <1>10, 1 \in 1 .. len, 1 - 1 = 0
  <2>2. r[1] = P(base, block[1])
    BY <1>8, <1>10, <2>1, 1 \in 1 .. len, 1 - 1 = 0
  <2> QED
    BY <1>base, <1>2, <1>3, <1>10, <2>2
<1>11. ASSUME r[len] # None, r[len].server # None
       PROVE  /\ AsSaid(r[len].server, SaidServer(block[1]))
              /\ r[len].server.tls_subject = TrimSpace(SaidServer(block[1]).tls_subject)
  <2>1. \A n \in 0 .. len : r[n] \in AppConfig /\ r[n] # None
    <3>1. Continues(r, AppConfig, len)
      BY <1>base, <1>2, <1>3, <1>8 DEF Continues
    <3> QED
      BY <1>11, <3>1, NoneRefused
  <2>2. ASSUME NEW n \in 1 .. len
        PROVE  /\ n - 1 \in 0 .. len /\ r[n] = P(r[n - 1], block[n]) /\ r[n] # None
               /\ r[n - 1] \in AppConfig
               /\ block[n] \in Directive(Directive(Directive(Directive({}))))
    <3>1. n \in 0 .. len /\ n - 1 \in 0 .. len
      BY <1>2
    <3> QED
      BY <1>2, <1>8, <2>1, <3>1
  <2>3. len # 0
    BY <1>8, <1>11 DEF base
  <2>4. ~(len >= 2)
    <3> SUFFICES ASSUME len >= 2 PROVE FALSE
      OBVIOUS
    <3>1. 1 \in 1 .. len /\ 2 \in 1 .. len /\ 2 - 1 = 1
      BY <1>2
    <3>2. r[1].server # None \/ r[1].client # None
      BY <1>set, <2>2, <3>1
    <3>3. r[1].server = None /\ r[1].client = None
      BY <1>set, <2>2, <3>1
    <3> QED
      BY <3>2, <3>3
  <2>5. len = 1 /\ 1 \in 1 .. len
    <3>1. len \in Nat
      BY <1>2
    <3> HIDE DEF len
    <3> QED
      BY <2>3, <2>4, <3>1
  <2> QED
    BY <1>11, <1>set, <2>2, <2>5
<1> QED
  BY <1>9, <1>10, <1>11 DEF ClientOf, ServerOf

\* An app's runtime is chosen when it is provisioned, and a client's configuration
\* is valid from then on.
Stages ==
  /\ phase = "caddyfile" => body \in Block
  /\ phase = "written" => app \in AppConfig
  /\ phase \in {"caddyfile", "written", "refused"} =>
       cfg = None /\ identity = None /\ managed = None /\ built = None
  /\ identity # None => cfg \in ClientConfig /\ ClientValid(cfg)

\* An address the user means comes out the same wherever it is in the configuration,
\* and a configuration that has it is the same when it is normalised again.
Meant ==
  target # None =>
    /\ NormalizeConnectAddress(target) = target
    /\ phase = "caddyfile" =>
         /\ Len(body) = 1 /\ body[1].name = "client"
         /\ NormalizeConnectAddress(body[1].args[1].text) = target
    /\ phase = "written" =>
         app.client # None /\ NormalizeConnectAddress(app.client.connect) = target
    /\ identity # None =>
         identity.connect = target /\ cfg = identity /\ NormalizeClient(cfg) = cfg

\* A server's configuration is what the user wrote, and from a Caddyfile it is
\* normalised, before it is provisioned.
Written ==
  phase = "written" /\ app.server # None =>
    /\ AsSaid(app.server, Said)
    /\ body # None => app.server.tls_subject = TrimSpace(Said.tls_subject)

IInv ==
  TypeOK /\ ProvisionedStarts /\ Stages /\ Meant /\ Written /\ BuiltAsWritten

LEMMA SpellingsType ==
  ASSUME NEW h \in Host, NEW p \in AnyPort
  PROVE  /\ Spellings(h, p) \subseteq Texts
         /\ Meaning(h, p) \in Texts
<1>1. h \in Texts /\ p \in Texts /\ DefaultConnectorPort \in Texts
  <2>1. h \in Texts
    BY WritingAssumption
  <2>2. ASSUME NEW q \in STRING PROVE <<q>> \in Texts
    <3>1. ASSUME NEW C, NEW x \in C PROVE <<x>> \in Seq(C)
      OBVIOUS
    <3> QED
      BY <3>1 DEF Texts
  <2>3. <<>> \in Texts
    BY DEF Texts
  <2>6. Port \subseteq STRING
    BY WritingAssumption
  <2>4. p = <<>> \/ \E q \in Port : p = <<q>>
    BY DEF AnyPort
  <2>5. DefaultConnectorPort \in Texts
    BY <2>2, LiteralAssumption DEF DefaultConnectorPort
  <2> QED
    BY <2>1, <2>2, <2>3, <2>4, <2>5, <2>6
<1>2. /\ <<"[">> \in Texts /\ <<"]">> \in Texts /\ <<":">> \in Texts
      /\ <<Blank>> \in Texts
  BY LiteralAssumption DEF Texts
<1>3. \A s \in Texts, t \in Texts : s \o t \in Texts
  BY DEF Texts
<1>4. Spellings(h, p) \subseteq Texts
  <2> DEFINE spelled == {JoinHostPort(h, p)} \cup IF p = <<>> THEN {h, Bracket(h)} ELSE {}
  <2>1. JoinHostPort(h, p) \in Texts
    BY <1>1, JoinType
  <2>2. Bracket(h) \in Texts
    BY <1>1, HostAssumption, BracketIs
  <2>3. spelled \subseteq Texts
    BY <1>1, <2>1, <2>2
  <2>4. Spellings(h, p) = spelled \cup {<<Blank>> \o s \o <<Blank>> : s \in spelled}
    BY DEF Spellings
  <2> HIDE DEF spelled
  <2>5. ASSUME NEW s \in spelled PROVE <<Blank>> \o s \o <<Blank>> \in Texts
    BY <1>2, <1>3, <2>3
  <2> QED
    BY <2>3, <2>4, <2>5
<1>5. Meaning(h, p) \in Texts
  BY <1>1, JoinType DEF Meaning
<1> QED
  BY <1>4, <1>5

LEMMA WrittenType ==
  /\ (WritesClient \/ WritesServer \/ WritesOther) =>
       app \in AppConfig /\ target \in {None} \cup Texts
  /\ WritesCaddyfile => body \in Block /\ target \in {None} \cup Texts
<1>1. ASSUME NEW a \in Texts, NEW t \in Texts, NEW f \in Texts
      PROVE  JSONClient(a, t, f) \in AppConfig
  <2>1. [EmptyClient EXCEPT !.connect = a, !.token = t, !.forward = f] \in ClientConfig
    BY <1>1, <<>> \in Texts DEF EmptyClient, ClientConfig, Texts
  <2> QED
    BY <2>1 DEF JSONClient, AppConfig
<1>2. ASSUME WritesClient PROVE app \in AppConfig /\ target \in {None} \cup Texts
  <2>1. PICK t \in Text, f \in Text :
          \/ \E a \in AnyAddress : app = JSONClient(a, t, f) /\ target = None
          \/ \E h \in Host, p \in AnyPort : \E a \in Spellings(h, p) :
               app = JSONClient(a, t, f) /\ target = Meaning(h, p)
    BY <1>2 DEF WritesClient
  <2>2. t \in Texts /\ f \in Texts /\ AnyAddress \subseteq Texts
    BY WritingAssumption
  <2> QED
    BY <1>1, <2>1, <2>2, SpellingsType
<1>3. ASSUME WritesServer PROVE app \in AppConfig /\ target \in {None} \cup Texts
  BY <1>3, WritingAssumption DEF WritesServer, AppConfig
<1>4. ASSUME WritesOther PROVE app \in AppConfig /\ target \in {None} \cup Texts
  <2> DEFINE server == CHOOSE s \in Server : ServerValid(NormalizeServer(s), FALSE)
             host == CHOOSE h \in Host : TRUE
             client == [EmptyClient EXCEPT !.connect = host, !.token = <<"t">>,
                                           !.forward = <<"t">>]
  <2>1. server \in ServerConfig
    BY WritingAssumption
  <2>2. host \in Texts /\ <<"t">> \in Texts
    <3>1. <<"t">> \in Texts
      BY LiteralAssumption DEF Texts
    <3>2. host \in Texts
      BY WritingAssumption
    <3> QED
      BY <3>1, <3>2
  <2>3. client \in ClientConfig
    BY <2>2, <<>> \in Texts DEF EmptyClient, ClientConfig, Texts
  <2>4. /\ app \in {[server |-> None, client |-> None, plugin |-> FALSE],
                    [server |-> server, client |-> client, plugin |-> FALSE],
                    [server |-> None, client |-> client, plugin |-> TRUE]}
        /\ target = None
    BY <1>4 DEF WritesOther
  <2> HIDE DEF server, client
  <2>5. /\ [server |-> None, client |-> None, plugin |-> FALSE] \in AppConfig
        /\ [server |-> server, client |-> client, plugin |-> FALSE] \in AppConfig
        /\ [server |-> None, client |-> client, plugin |-> TRUE] \in AppConfig
    BY <2>1, <2>3 DEF AppConfig
  <2> QED
    BY <2>4, <2>5
<1>5. ASSUME WritesCaddyfile PROVE body \in Block /\ target \in {None} \cup Texts
  <2>1. CASE body \in Body /\ target = None
    BY <2>1, WritingAssumption
  <2>2. ASSUME NEW h \in Host, NEW p \in AnyPort, NEW block \in ClientBlock,
               NEW a \in Spellings(h, p), target = Meaning(h, p),
               body = <<[name |-> "client", block |-> block,
                         args |-> <<[text |-> a, int |-> <<>>, duration |-> <<>>]>>]>>
        PROVE  body \in Block /\ target \in {None} \cup Texts
    <3> DEFINE Inner == Directive(Directive(Directive({})))
               Args == [text : Texts, int : Seq(Int), duration : Seq(Int)]
               args == <<[text |-> a, int |-> <<>>, duration |-> <<>>]>>
    <3>1. block \in {None} \cup Seq(Inner)
      BY WritingAssumption
    <3>2. [text |-> a, int |-> <<>>, duration |-> <<>>] \in Args
      BY SpellingsType
    <3>3. args \in Seq(Args)
      <4> HIDE DEF Args
      <4> QED
        BY <3>2
    <3> HIDE DEF args, Inner
    <3>4. [name |-> "client", block |-> block, args |-> args] \in Directive(Inner)
      BY <3>1, <3>3, LiteralAssumption DEF Directive
    <3>5. body = <<[name |-> "client", block |-> block, args |-> args]>>
      BY <2>2 DEF args
    <3>6. body \in Seq(Directive(Inner))
      BY <3>4, <3>5
    <3> QED
      BY <2>2, <3>6, SpellingsType DEF Block, Inner
  <2> QED
    BY <1>5, <2>1, <2>2 DEF WritesCaddyfile
<1> QED
  BY <1>2, <1>3, <1>4, <1>5

LEMMA WrittenMeant ==
  ASSUME target # None
  PROVE  /\ (WritesClient \/ WritesServer \/ WritesOther) =>
              /\ app.client # None /\ NormalizeConnectAddress(app.client.connect) = target
              /\ NormalizeConnectAddress(target) = target
         /\ WritesCaddyfile =>
              /\ Len(body) = 1 /\ body[1].name = "client"
              /\ NormalizeConnectAddress(body[1].args[1].text) = target
              /\ NormalizeConnectAddress(target) = target
<1>1. ASSUME NEW a \in Texts, NEW t \in Texts, NEW f \in Texts
      PROVE  JSONClient(a, t, f).client # None /\ JSONClient(a, t, f).client.connect = a
  <2> DEFINE c == [EmptyClient EXCEPT !.connect = a, !.token = t, !.forward = f]
  <2>1. c \in ClientConfig /\ c.connect = a
    BY <1>1, <<>> \in Texts DEF EmptyClient, ClientConfig, Texts
  <2>2. JSONClient(a, t, f).client = c
    BY DEF JSONClient
  <2> QED
    BY <2>1, <2>2, NoneAssumption
<1>2. ASSUME WritesClient \/ WritesServer \/ WritesOther
      PROVE  /\ app.client # None /\ NormalizeConnectAddress(app.client.connect) = target
             /\ NormalizeConnectAddress(target) = target
  <2>1. PICK t \in Text, f \in Text, h \in Host, p \in AnyPort : \E a \in Spellings(h, p) :
          app = JSONClient(a, t, f) /\ target = Meaning(h, p)
    BY <1>2 DEF WritesClient, WritesServer, WritesOther
  <2>2. PICK a \in Spellings(h, p) : app = JSONClient(a, t, f)
    BY <2>1
  <2>3. t \in Texts /\ f \in Texts /\ a \in Texts
    BY WritingAssumption, SpellingsType
  <2> QED
    BY <1>1, <2>1, <2>2, <2>3, ConnectSpelled
<1>3. ASSUME WritesCaddyfile
      PROVE  /\ Len(body) = 1 /\ body[1].name = "client"
             /\ NormalizeConnectAddress(body[1].args[1].text) = target
             /\ NormalizeConnectAddress(target) = target
  <2>1. PICK h \in Host, p \in AnyPort, block \in ClientBlock : \E a \in Spellings(h, p) :
          /\ body = <<[name |-> "client", block |-> block,
                       args |-> <<[text |-> a, int |-> <<>>, duration |-> <<>>]>>]>>
          /\ target = Meaning(h, p)
    BY <1>3 DEF WritesCaddyfile
  <2>2. PICK a \in Spellings(h, p) :
          body = <<[name |-> "client", block |-> block,
                    args |-> <<[text |-> a, int |-> <<>>, duration |-> <<>>]>>]>>
    BY <2>1
  <2>3. Len(body) = 1 /\ body[1].name = "client" /\ body[1].args[1].text = a
    BY <2>2
  <2> QED
    BY <2>1, <2>3, ConnectSpelled
<1> QED
  BY <1>2, <1>3

LEMMA InitIInv == Init => IInv
<1> SUFFICES ASSUME Init PROVE IInv
  OBVIOUS
<1>1. CASE /\ phase = "written" /\ body = None
           /\ WritesClient \/ WritesServer \/ WritesOther
  <2>1. app \in AppConfig /\ target \in {None} \cup Texts
    BY <1>1, WrittenType
  <2>2. Meant
    BY <1>1, WrittenMeant DEF Meant, Init
  <2>3. Written
    <3>1. app.server # None => app.server \in ServerConfig /\ Said = app.server
      BY <1>1, <2>1 DEF AppConfig, Said
    <3> QED
      BY <1>1, <3>1, SaidItself DEF Written
  <2>4. BuiltAsWritten
    BY DEF Init, BuiltAsWritten
  <2> QED
    BY <1>1, <2>1, <2>2, <2>3, <2>4 DEF Init, IInv, TypeOK, ProvisionedStarts, Stages
<1>2. CASE phase = "caddyfile" /\ app = None /\ WritesCaddyfile
  <2>1. body \in Block /\ target \in {None} \cup Texts
    BY <1>2, WrittenType
  <2>2. Meant
    BY <1>2, WrittenMeant DEF Meant, Init
  <2>3. Written /\ BuiltAsWritten
    BY <1>2 DEF Init, Written, BuiltAsWritten
  <2> QED
    BY <1>2, <2>1, <2>2, <2>3 DEF Init, IInv, TypeOK, ProvisionedStarts, Stages
<1> QED
  BY <1>1, <1>2 DEF Init

\* What a valid server gives the library.
LEMMA BuiltType ==
  ASSUME NEW s \in ServerConfig, NEW provider \in BOOLEAN
  PROVE  [clients |-> IF provider THEN None ELSE StaticClients(s),
          guardrails |-> BifrostGuardrails(s.guardrails),
          runtime |-> BifrostRuntime(s.runtime)] \in BifrostServer
<1>1. /\ s.endpoints \in Seq(EndpointConfig) /\ s.guardrails \in GuardrailsConfig
      /\ s.runtime \in RuntimeConfig
  BY DEF ServerConfig
<1>2. ASSUME NEW e \in EndpointConfig PROVE StaticClient(e) \in BifrostClient
  <2>1. /\ TrimSpace(e.key) \in Texts /\ TrimSpace(e.token) \in Texts
        /\ TrimSpace(e.policy) \in Texts
    BY TrimSpaceType DEF EndpointConfig
  <2>2. e.max_parallel \in Int /\ e.limits \in LimitsConfig
    BY DEF EndpointConfig
  <2>3. \A n \in Int : n > 0 => n \div Second \in Int
    BY SecondAssumption
  <2>4. PlanLimits(e.limits) \in [maxStreams : Int, maxBandwidthBPS : Int,
                                  streamIdleTimeoutSeconds : Int]
    BY <2>2, <2>3 DEF PlanLimits, LimitsConfig
  <2> QED
    BY <2>1, <2>2, <2>4 DEF StaticClient, BifrostClient
<1>3. StaticClients(s) \in Seq(BifrostClient)
  <2> DEFINE es == s.endpoints
  <2>1. Len(es) \in Nat /\ DOMAIN es = 1 .. Len(es) /\ \A n \in DOMAIN es : es[n] \in EndpointConfig
    BY <1>1
  <2>2. [n \in 1 .. Len(es) |-> StaticClient(es[n])] \in [1 .. Len(es) -> BifrostClient]
    BY <1>2, <2>1
  <2> QED
    BY <2>1, <2>2 DEF StaticClients
<1>4. BifrostGuardrails(s.guardrails) \in
        [maxSessions : Int, maxStreamsPerSession : Int, maxBandwidthBPSPerSession : Int,
         minStreamIdleTimeout : Int, maxStreamIdleTimeout : Int, maxHeaders : Int,
         maxHeaderBytes : Int]
  BY <1>1 DEF BifrostGuardrails, GuardrailsConfig
<1>5. BifrostRuntime(s.runtime) \in
        [handshakeTimeout : Int, streamCopyBufferBytes : Int,
         tunnelKeepAliveInterval : Int, tunnelKeepAliveTimeout : Int]
  BY <1>1 DEF BifrostRuntime, RuntimeConfig
<1> QED
  BY <1>3, <1>4, <1>5 DEF BifrostServer

\* A client is admitted under what was said of its endpoint, and the conversion of
\* its idle timeout to seconds loses nothing.
LEMMA AdmitsSaid ==
  ASSUME NEW e \in EndpointConfig, NEW said, Alike(e, said), LimitsValid(e.limits)
  PROVE  Admits(StaticClient(e), said)
<1> DEFINE x == e.limits.stream_idle_timeout
<1>1. x \in Int /\ x >= 0 /\ x % Second = 0
  <2>1. e.limits \in LimitsConfig
    BY DEF EndpointConfig
  <2>2. "stream_idle_timeout" \in DOMAIN e.limits /\ x \in Int
    BY <2>1 DEF LimitsConfig
  <2> QED
    BY <2>2 DEF LimitsValid
<1> HIDE DEF x
<1>2. (IF x > 0 THEN x \div Second ELSE 0) * Second = x
  <2>1. CASE x > 0
    <3> DEFINE M == Second
               q == x \div M
               rest == x % M
    <3>1. M \in Nat \ {0}
      BY SecondAssumption
    <3>2. q \in Int /\ x = M * q + rest /\ rest = 0
      BY <1>1, <3>1
    <3> QED
      BY <1>1, <2>1, <3>1, <3>2
  <2>2. CASE x = 0
    BY <2>2, SecondAssumption
  <2> QED
    BY <1>1, <2>1, <2>2
<1>3. StaticClient(e).limits.streamIdleTimeoutSeconds = IF x > 0 THEN x \div Second ELSE 0
  BY DEF StaticClient, PlanLimits, x
<1>4. said.limits.stream_idle_timeout = x /\ said.limits = e.limits
  BY DEF Alike, x
<1>5. /\ StaticClient(e).endpointKey = TrimSpace(said.key)
      /\ StaticClient(e).token = TrimSpace(said.token)
      /\ StaticClient(e).mode = TrimSpace(said.policy)
      /\ StaticClient(e).maxParallel = said.max_parallel
      /\ StaticClient(e).limits.maxStreams = e.limits.max_streams
      /\ StaticClient(e).limits.maxBandwidthBPS = e.limits.max_bandwidth_bps
  BY DEF StaticClient, PlanLimits, Alike
<1> QED
  BY <1>2, <1>3, <1>4, <1>5 DEF Admits

\* The clients of a valid server: as said, and no two of one key.
LEMMA ClientsSaid ==
  ASSUME NEW s0 \in ServerConfig, NEW s, s = NormalizeServer(s0), NEW said,
         AsSaid(s, said), NEW provider, ServerValid(s, provider)
  PROVE  /\ Len(StaticClients(s)) = Cardinality(DOMAIN said.endpoints)
         /\ \A n \in DOMAIN said.endpoints :
              Admits(StaticClients(s)[Rank(n, DOMAIN said.endpoints)], said.endpoints[n])
         /\ \A m, n \in DOMAIN StaticClients(s) :
              StaticClients(s)[m].endpointKey = StaticClients(s)[n].endpointKey => m = n
<1> DEFINE es == s.endpoints
           cs == StaticClients(s)
           L == DOMAIN said.endpoints
<1>1. es \in Seq(EndpointConfig)
  <2>1. s \in ServerConfig
    BY NormalizedServer
  <2> QED
    BY <2>1 DEF ServerConfig
<1>2. /\ Len(es) \in Nat /\ DOMAIN es = 1 .. Len(es)
      /\ \A i \in 1 .. Len(es) : es[i] \in EndpointConfig
  BY <1>1
<1>3. cs = [i \in 1 .. Len(es) |-> StaticClient(es[i])]
  BY <1>2 DEF StaticClients
<1>4. \A i \in 1 .. Len(es) : TrimSpace(es[i].key) = es[i].key /\ LimitsValid(es[i].limits)
  <2>1. /\ s0.endpoints \in Seq(EndpointConfig)
        /\ DOMAIN s0 = {"listen", "tls_subject", "endpoints", "guardrails", "runtime"}
    BY DEF ServerConfig
  <2>2. es = [i \in DOMAIN s0.endpoints |-> NormalizeEndpoint(s0.endpoints[i])]
    BY <2>1 DEF NormalizeServer
  <2>3. ASSUME NEW i \in 1 .. Len(es)
        PROVE  TrimSpace(es[i].key) = es[i].key
    <3> DEFINE e == s0.endpoints[i]
    <3>1. i \in DOMAIN s0.endpoints /\ es[i] = NormalizeEndpoint(e)
      BY <1>2, <2>2
    <3>2. e \in EndpointConfig
      BY <2>1, <3>1
    <3> HIDE DEF e
    <3>3. NormalizeEndpoint(e).key = TrimSpace(e.key) /\ e.key \in Texts
      BY <3>2 DEF NormalizeEndpoint, EndpointConfig
    <3> QED
      BY <3>1, <3>3, TrimSpaceTwice
  <2>4. \A i \in 1 .. Len(es) : LimitsValid(es[i].limits)
    BY <1>2 DEF ServerValid
  <2> QED
    BY <2>3, <2>4
<1>5. \A m, n \in 1 .. Len(es) : es[m].key = es[n].key => m = n
  <2>1. \A n \in 1 .. Len(es) : \A m \in 1 .. n - 1 : es[m].key # es[n].key
    BY <1>2 DEF ServerValid
  <2>2. ASSUME NEW m \in 1 .. Len(es), NEW n \in 1 .. Len(es), m # n
        PROVE  m \in 1 .. n - 1 \/ n \in 1 .. m - 1
    BY <1>2, <2>2
  <2> HIDE DEF es
  <2> QED
    BY <2>1, <2>2
<1>6. /\ Len(es) = Cardinality(L)
      /\ \A n \in L : Rank(n, L) \in 1 .. Len(es) /\ Alike(es[Rank(n, L)], said.endpoints[n])
  BY DEF AsSaid
<1> HIDE DEF es, cs, L
<1>7. Len(cs) = Cardinality(L) /\ DOMAIN cs = 1 .. Len(es)
  BY <1>2, <1>3, <1>6
<1>8. ASSUME NEW n \in L PROVE Admits(cs[Rank(n, L)], said.endpoints[n])
  <2>1. cs[Rank(n, L)] = StaticClient(es[Rank(n, L)])
    BY <1>3, <1>6
  <2> QED
    BY <1>2, <1>4, <1>6, <2>1, AdmitsSaid
<1>9. ASSUME NEW m \in DOMAIN cs, NEW n \in DOMAIN cs, cs[m].endpointKey = cs[n].endpointKey
      PROVE  m = n
  <2>1. \A i \in 1 .. Len(es) : cs[i].endpointKey = es[i].key
    BY <1>3, <1>4 DEF StaticClient
  <2> QED
    BY <1>5, <1>7, <1>9, <2>1
<1> QED
  BY <1>7, <1>8, <1>9 DEF cs, L

LEMMA StepIInv == IInv /\ [Next]_vars => IInv'
<1> SUFFICES ASSUME IInv, [Next]_vars PROVE IInv'
  OBVIOUS
<1> USE DEF IInv, ProvisionedStarts
<1>1. CASE UnmarshalCaddyfile
  <2>1. app' \in {None} \cup AppConfig
    BY <1>1, AppType DEF UnmarshalCaddyfile, Stages
  <2>2. Meant'
    <3>1. ClientOf(body, app') /\ app' # None <=> phase' = "written"
      BY <1>1, AppType DEF UnmarshalCaddyfile, Stages
    <3> QED
      BY <1>1, <3>1 DEF UnmarshalCaddyfile, Meant, ClientOf, Stages
  <2>3. Written'
    <3>1. ServerOf(body, app') /\ app' # None <=> phase' = "written"
      BY <1>1, AppType DEF UnmarshalCaddyfile, Stages
    <3>2. body' = body /\ body \in Block /\ body # None
      BY <1>1, NoneAssumption DEF UnmarshalCaddyfile, Stages
    <3>3. Said' = SaidServer(body[1])
      BY <3>2 DEF Said
    <3> QED
      BY <3>1, <3>3 DEF Written, ServerOf
  <2>4. BuiltAsWritten'
    BY <1>1 DEF UnmarshalCaddyfile, Stages, BuiltAsWritten
  <2> QED
    BY <1>1, <2>1, <2>2, <2>3, <2>4 DEF UnmarshalCaddyfile, TypeOK, Stages
<1>2. CASE LeaseProvisions
  <2>1. app \in AppConfig /\ app.client \in ClientConfig /\ app.server = None
    BY <1>2 DEF LeaseProvisions, IsClientApp, Stages, AppConfig
  <2>2. /\ cfg' = NormalizeClient(app.client) /\ identity' = cfg'
        /\ cfg' \in ClientConfig /\ cfg' # None /\ ClientValid(cfg')
    BY <1>2, <2>1, NormalizedClient, NoneAssumption DEF LeaseProvisions
  <2>3. Meant'
    <3> SUFFICES ASSUME target # None PROVE Meant'
      BY <1>2 DEF LeaseProvisions, Meant
    <3>1. /\ NormalizeConnectAddress(target) = target
          /\ NormalizeConnectAddress(app.client.connect) = target
      BY <1>2 DEF LeaseProvisions, Meant
    <3>2. cfg'.connect = target
      BY <2>1, <2>2, <3>1 DEF NormalizeClient, ClientConfig
    <3>3. NormalizeClient(cfg') = cfg'
      BY <2>1, <2>2, <3>1, NormalizedTwice
    <3> QED
      BY <1>2, <2>2, <3>1, <3>2, <3>3 DEF LeaseProvisions, Meant
  <2>4. Written' /\ BuiltAsWritten'
    BY <1>2 DEF LeaseProvisions, Stages, Written, BuiltAsWritten
  <2> QED
    BY <1>2, <2>1, <2>2, <2>3, <2>4 DEF LeaseProvisions, TypeOK, Stages
<1>3. CASE ServerProvisions
  <2>1. /\ app \in AppConfig /\ app.server \in ServerConfig /\ app.client = None
        /\ app.plugin \in BOOLEAN
    BY <1>3 DEF ServerProvisions, IsServerApp, Stages, AppConfig
  <2>2. cfg' = NormalizeServer(app.server) /\ cfg' \in ServerConfig /\ cfg' # None
    BY <1>3, <2>1, NormalizedServer, NoneAssumption DEF ServerProvisions
  <2>3. built' \in BifrostServer /\ built' # None
    BY <1>3, <2>1, <2>2, BuiltType, NoneAssumption DEF ServerProvisions
  <2>4. managed' \in Texts /\ managed' # None
    BY <1>3, <2>1, NoneAssumption DEF ServerProvisions, ServerConfig
  <2>5. Said' = Said
    BY <1>3 DEF ServerProvisions, Said
  <2>6. /\ AsSaid(app.server, Said)
        /\ body # None => app.server.tls_subject = TrimSpace(Said.tls_subject)
    BY <1>3, <2>1, NoneAssumption DEF ServerProvisions, Written
  <2>7. AsSaid(cfg', Said)
    BY <2>1, <2>2, <2>6, SaidNormalized
  <2>8. /\ built'.clients = IF app.plugin THEN None ELSE StaticClients(cfg')
        /\ built'.guardrails = BifrostGuardrails(cfg'.guardrails)
        /\ built'.runtime = BifrostRuntime(cfg'.runtime)
        /\ ServerValid(cfg', app.plugin) /\ managed' = app.server.tls_subject
        /\ body' = body
    BY <1>3 DEF ServerProvisions
  <2>9. BuiltAsWritten'
    <3> DEFINE said == Said
    <3>1. built'.clients # None =>
            /\ Len(built'.clients) = Cardinality(DOMAIN said.endpoints)
            /\ \A n \in DOMAIN said.endpoints :
                 Admits(built'.clients[Rank(n, DOMAIN said.endpoints)], said.endpoints[n])
            /\ \A m, n \in DOMAIN built'.clients :
                 built'.clients[m].endpointKey = built'.clients[n].endpointKey => m = n
      <4>1. built'.clients # None => built'.clients = StaticClients(cfg')
        BY <2>8
      <4>2. /\ Len(StaticClients(cfg')) = Cardinality(DOMAIN said.endpoints)
            /\ \A n \in DOMAIN said.endpoints :
                 Admits(StaticClients(cfg')[Rank(n, DOMAIN said.endpoints)],
                        said.endpoints[n])
            /\ \A m, n \in DOMAIN StaticClients(cfg') :
                 StaticClients(cfg')[m].endpointKey = StaticClients(cfg')[n].endpointKey
                   => m = n
        BY <2>1, <2>2, <2>7, <2>8, ClientsSaid
      <4> QED
        BY <4>1, <4>2
    <3>2. /\ \A f \in DOMAIN EmptyGuardrails : cfg'.guardrails[f] = said.guardrails[f]
          /\ \A f \in DOMAIN EmptyRuntime : cfg'.runtime[f] = said.runtime[f]
      BY <2>7 DEF AsSaid
    <3>3. /\ DOMAIN EmptyGuardrails =
               {"max_sessions", "max_streams_per_session", "max_bandwidth_bps_per_session",
                "min_stream_idle_timeout", "max_stream_idle_timeout", "max_headers",
                "max_header_bytes"}
          /\ DOMAIN EmptyRuntime =
               {"handshake_timeout", "stream_copy_buffer_bytes",
                "tunnel_keepalive_interval", "tunnel_keepalive_timeout"}
      BY DEF EmptyGuardrails, EmptyRuntime
    <3> DEFINE g == said.guardrails
               r == said.runtime
    <3>4. /\ built'.guardrails.maxSessions = g.max_sessions
          /\ built'.guardrails.maxStreamsPerSession = g.max_streams_per_session
          /\ built'.guardrails.maxBandwidthBPSPerSession = g.max_bandwidth_bps_per_session
          /\ built'.guardrails.minStreamIdleTimeout = g.min_stream_idle_timeout
          /\ built'.guardrails.maxStreamIdleTimeout = g.max_stream_idle_timeout
          /\ built'.guardrails.maxHeaders = g.max_headers
          /\ built'.guardrails.maxHeaderBytes = g.max_header_bytes
      BY <2>8, <3>2, <3>3 DEF BifrostGuardrails
    <3>5. /\ built'.runtime.handshakeTimeout = r.handshake_timeout
          /\ built'.runtime.streamCopyBufferBytes = r.stream_copy_buffer_bytes
          /\ built'.runtime.tunnelKeepAliveInterval = r.tunnel_keepalive_interval
          /\ built'.runtime.tunnelKeepAliveTimeout = r.tunnel_keepalive_timeout
      BY <2>8, <3>2, <3>3 DEF BifrostRuntime
    <3>6. body' # None => managed' = TrimSpace(said.tls_subject)
      BY <2>6, <2>8
    <3> QED
      BY <2>5, <3>1, <3>4, <3>5, <3>6 DEF BuiltAsWritten
  <2>10. Written'
    BY <1>3 DEF ServerProvisions, Written
  <2> QED
    BY <1>3, <2>1, <2>2, <2>3, <2>4, <2>9, <2>10 DEF ServerProvisions, TypeOK, Stages, Meant
<1>4. CASE Refuses
  <2>1. Written' /\ BuiltAsWritten'
    BY <1>4 DEF Refuses, Stages, Written, BuiltAsWritten
  <2> QED
    BY <1>4, <2>1 DEF Refuses, TypeOK, Stages, Meant
<1>5. CASE NewClient
  <2>1. cfg \in ClientConfig /\ ClientValid(cfg)
    BY <1>5 DEF NewClient, Stages
  <2>2. cfg' \in ClientConfig /\ cfg' # None /\ ClientValid(cfg')
    BY <1>5, <2>1, NormalizedClient, NoneAssumption DEF NewClient
  <2>3. Meant'
    BY <1>5 DEF NewClient, Meant
  <2>4. Written' /\ BuiltAsWritten'
    BY <1>5 DEF NewClient, Stages, Written, BuiltAsWritten, Said
  <2> QED
    BY <1>5, <2>2, <2>3, <2>4 DEF NewClient, TypeOK, Stages
<1>6. CASE UNCHANGED vars
  <2>1. Written' /\ BuiltAsWritten'
    BY <1>6 DEF vars, Written, BuiltAsWritten, Said
  <2> QED
    BY <1>6, <2>1 DEF vars, TypeOK, Stages, Meant
<1> QED
  BY <1>1, <1>2, <1>3, <1>4, <1>5, <1>6 DEF Next

LEMMA Invariance == Spec => []IInv
BY InitIInv, StepIInv, PTL DEF Spec

\* Configurations keep to their types from what the user writes to what a runtime
\* runs with, and the runtime is the one that is configured.
THEOREM TypeCorrectness == Spec => []TypeOK
<1>1. IInv => TypeOK
  BY DEF IInv
<1> QED
  BY <1>1, Invariance, PTL

\* For any hosts and ports: however an address is spelled, in JSON or in a
\* Caddyfile, the identity of its client names the one address it means, and the
\* runtime of that identity runs with what the identity names.
THEOREM SpellingsAgree == Spec => []SpellingsShareIdentity
<1>1. IInv => SpellingsShareIdentity
  BY DEF IInv, Meant, SpellingsShareIdentity
<1> QED
  BY <1>1, Invariance, PTL

\* For any texts: a client app that was provisioned has a configuration that the
\* factory accepts when the app is started.
THEOREM ProvisionedClientsStart == Spec => []ProvisionedStarts
<1>1. IInv => ProvisionedStarts
  BY DEF IInv
<1> QED
  BY <1>1, Invariance, PTL

\* For any server configuration and any Caddyfile, with blocks of any length and
\* lines repeated and in any order: a server that was built admits one client per
\* endpoint, in their order, under distinct keys and with the very limits written,
\* and runs with the guardrails and timeouts written; from a Caddyfile, the
\* certificate is managed for the subject without its blanks.
THEOREM ServersBuiltAsWritten == Spec => []BuiltAsWritten
<1>1. IInv => BuiltAsWritten
  BY DEF IInv
<1> QED
  BY <1>1, Invariance, PTL
=============================================================================
