----------------------- MODULE PassthroughStreamProofs -----------------------
(***************************************************************************)
(* Proofs about PassthroughStream, for any directions and any number of    *)
(* bytes, whether the library waits for its copies or not.  IInv is the    *)
(* inductive invariant: what the flags of the lifecycle say of the         *)
(* observations that were marked, wherever these are by now.               *)
(***************************************************************************)
EXTENDS PassthroughStream, WellFoundedInduction, TLAPS

-----------------------------------------------------------------------------
(* The bytes of a sequence of observations                                 *)

LEMMA SetInduction ==
  ASSUME NEW S, 0 \in S, \A n \in Nat : n \in S => n + 1 \in S
  PROVE  Nat \subseteq S
<1> SUFFICES ASSUME Nat \ S # {} PROVE FALSE
  OBVIOUS
<1>1. PICK x \in Nat \ S : \A y \in Nat \ S : <<y, x>> \notin OpToRel(<, Nat)
  <2>1. Nat \ S \subseteq Nat
    OBVIOUS
  <2> QED
    BY <2>1, NatLessThanWellFounded, WFMin
<1>2. OpToRel(<, Nat) = {ss \in Nat \X Nat : ss[1] < ss[2]}
  BY DEF OpToRel
<1>3. x # 0 /\ x - 1 \in Nat /\ x - 1 \notin S
  OBVIOUS
<1>4. <<x - 1, x>> \in Nat \X Nat /\ <<x - 1, x>>[1] < <<x - 1, x>>[2]
  BY <1>3
<1> QED
  BY <1>1, <1>2, <1>3, <1>4

\* The sums of the first n numbers of a function on 1 .. len.
Sums(f, x, len) ==
  /\ f \in [0 .. len -> Nat] /\ f[0] = 0
  /\ \A n \in 1 .. len : f[n] = f[n - 1] + x[n]

LEMMA SumsExist ==
  ASSUME NEW len \in Nat, NEW x, \A n \in 1 .. len : x[n] \in Nat
  PROVE  \E f : Sums(f, x, len)
<1> DEFINE S == {n \in Nat : n <= len => \E f : Sums(f, x, n)}
<1>1. 0 \in S
  <2>1. Sums([n \in 0 .. 0 |-> 0], x, 0)
    BY DEF Sums
  <2> QED
    BY <2>1
<1>2. ASSUME NEW n \in Nat, n \in S PROVE n + 1 \in S
  <2> SUFFICES ASSUME n + 1 <= len PROVE \E f : Sums(f, x, n + 1)
    OBVIOUS
  <2>1. PICK f : Sums(f, x, n)
    BY <1>2
  <2> DEFINE g == [m \in 0 .. n + 1 |-> IF m = n + 1 THEN f[n] + x[n + 1] ELSE f[m]]
  <2>2. f[n] + x[n + 1] \in Nat
    BY <2>1 DEF Sums
  <2>3. g \in [0 .. n + 1 -> Nat] /\ g[0] = 0
    BY <2>1, <2>2 DEF Sums
  <2>4. ASSUME NEW m \in 1 .. n + 1 PROVE g[m] = g[m - 1] + x[m]
    <3>1. m - 1 \in 0 .. n + 1 /\ m - 1 # n + 1
      OBVIOUS
    <3>2. g[m - 1] = f[m - 1] /\ g[m] = IF m = n + 1 THEN f[n] + x[n + 1] ELSE f[m]
      BY <3>1
    <3> HIDE DEF g
    <3>3. CASE m = n + 1
      BY <3>2, <3>3
    <3>4. CASE m # n + 1
      <4>1. m \in 1 .. n
        BY <3>4
      <4> QED
        BY <2>1, <3>2, <3>4, <4>1 DEF Sums
    <3> QED
      BY <3>3, <3>4
  <2> HIDE DEF g
  <2> QED
    BY <2>3, <2>4 DEF Sums
<1> HIDE DEF S
<1>3. Nat \subseteq S
  BY <1>1, <1>2, SetInduction
<1> QED
  BY <1>3 DEF S

LEMMA SumsUnique ==
  ASSUME NEW len \in Nat, NEW x, NEW f, NEW g, NEW k \in Nat, len <= k,
         Sums(f, x, len), Sums(g, x, k)
  PROVE  \A n \in 0 .. len : f[n] = g[n]
<1> DEFINE S == {n \in Nat : n <= len => f[n] = g[n]}
<1>1. 0 \in S
  BY DEF Sums
<1>2. ASSUME NEW n \in Nat, n \in S PROVE n + 1 \in S
  BY <1>2 DEF Sums
<1>3. Nat \subseteq S
  BY <1>1, <1>2, SetInduction
<1> QED
  BY <1>3

LEMMA BytesAreSums ==
  ASSUME NEW seq, Len(seq) \in Nat, NEW d,
         \A n \in 1 .. Len(seq) : seq[n].bytes[d] \in Nat
  PROVE  \E f : Sums(f, [n \in 1 .. Len(seq) |-> seq[n].bytes[d]], Len(seq))
                /\ BytesIn(seq, d) = f[Len(seq)]
<1> DEFINE len == Len(seq)
           x == [n \in 1 .. len |-> seq[n].bytes[d]]
           Rec(f) == f = [n \in 0 .. len |-> IF n = 0 THEN 0 ELSE f[n - 1] + seq[n].bytes[d]]
           sum == CHOOSE f : Rec(f)
<1>1. BytesIn(seq, d) = sum[len]
  BY DEF BytesIn
<1>2. PICK f : Sums(f, x, len)
  BY SumsExist
<1>3. Rec(f)
  <2>1. f = [n \in 0 .. len |-> f[n]]
    BY <1>2 DEF Sums
  <2>2. ASSUME NEW n \in 0 .. len
        PROVE  f[n] = IF n = 0 THEN 0 ELSE f[n - 1] + seq[n].bytes[d]
    <3>1. CASE n = 0
      BY <1>2, <3>1 DEF Sums
    <3>2. CASE n # 0
      <4>1. n \in 1 .. len /\ x[n] = seq[n].bytes[d]
        BY <3>2
      <4> QED
        BY <1>2, <3>2, <4>1 DEF Sums
    <3> QED
      BY <3>1, <3>2
  <2> QED
    BY <2>1, <2>2
<1>4. Rec(sum)
  BY <1>3
<1> HIDE DEF sum
<1>5. ASSUME NEW n \in 0 .. len
      PROVE  sum[n] = IF n = 0 THEN 0 ELSE sum[n - 1] + seq[n].bytes[d]
  BY <1>4
<1> DEFINE S == {n \in Nat : n <= len => sum[n] = f[n]}
<1>6. 0 \in S
  BY <1>2, <1>5 DEF Sums
<1>7. ASSUME NEW n \in Nat, n \in S PROVE n + 1 \in S
  <2> SUFFICES ASSUME n + 1 <= len PROVE sum[n + 1] = f[n + 1]
    OBVIOUS
  <2>1. n + 1 \in 1 .. len /\ n + 1 \in 0 .. len /\ n + 1 # 0 /\ (n + 1) - 1 = n
    OBVIOUS
  <2>2. x[n + 1] = seq[n + 1].bytes[d]
    BY <2>1
  <2>3. f[n + 1] = f[n] + x[n + 1]
    BY <1>2, <2>1 DEF Sums
  <2>4. sum[n + 1] = sum[n] + seq[n + 1].bytes[d]
    BY <1>5, <2>1
  <2> QED
    BY <1>7, <2>2, <2>3, <2>4
<1>8. Nat \subseteq S
  BY <1>6, <1>7, SetInduction
<1>9. sum[len] = f[len]
  BY <1>8
<1> QED
  BY <1>1, <1>2, <1>9

\* The bytes of no observation, of one that follows others, and of all but the
\* first.
LEMMA BytesOfNone == ASSUME NEW d PROVE BytesIn(<<>>, d) = 0
<1>1. PICK f : Sums(f, [n \in 1 .. Len(<<>>) |-> <<>>[n].bytes[d]], Len(<<>>))
               /\ BytesIn(<<>>, d) = f[Len(<<>>)]
  <2>1. Len(<<>>) = 0
    OBVIOUS
  <2>2. Len(<<>>) \in Nat /\ \A n \in 1 .. Len(<<>>) : <<>>[n].bytes[d] \in Nat
    BY <2>1
  <2> HIDE DEF BytesIn
  <2> QED
    BY <2>2, BytesAreSums
<1>2. f[0] = 0 /\ Len(<<>>) = 0
  BY <1>1 DEF Sums
<1> QED
  BY <1>1, <1>2

LEMMA BytesAppended ==
  ASSUME NEW seq \in Seq(Observation), NEW o \in Observation, NEW d \in Direction
  PROVE  /\ BytesIn(seq, d) \in Nat
         /\ BytesIn(Append(seq, o), d) = BytesIn(seq, d) + o.bytes[d]
<1> DEFINE len == Len(seq)
           more == Append(seq, o)
           x == [n \in 1 .. Len(seq) |-> seq[n].bytes[d]]
           y == [n \in 1 .. Len(more) |-> more[n].bytes[d]]
<1>1. /\ len \in Nat /\ Len(more) = len + 1 /\ more[len + 1] = o
      /\ \A n \in 1 .. len : more[n] = seq[n] /\ seq[n] \in Observation
  <2>1. len \in Nat /\ Len(more) = len + 1
    OBVIOUS
  <2>2. more[len + 1] = o
    OBVIOUS
  <2>3. ASSUME NEW n \in 1 .. len PROVE more[n] = seq[n] /\ seq[n] \in Observation
    OBVIOUS
  <2> QED
    BY <2>1, <2>2, <2>3
<1>2. \A p \in Observation : p.bytes[d] \in Nat
  BY DEF Observation
<1>3. /\ \A n \in 1 .. Len(seq) : seq[n].bytes[d] \in Nat
      /\ \A n \in 1 .. Len(more) : more[n].bytes[d] \in Nat
  BY <1>1, <1>2
<1>4. PICK f : Sums(f, x, len) /\ BytesIn(seq, d) = f[len]
  BY <1>1, <1>3, BytesAreSums
<1>5. PICK g : Sums(g, y, len + 1) /\ BytesIn(more, d) = g[len + 1]
  <2>1. Len(more) = len + 1 /\ Len(more) \in Nat
    BY <1>1
  <2>2. \E g : Sums(g, y, Len(more)) /\ BytesIn(more, d) = g[Len(more)]
    <3> HIDE DEF more
    <3> QED
      BY <1>3, <2>1, BytesAreSums
  <2> HIDE DEF more, len, y
  <2> QED
    BY <2>1, <2>2
<1>6. Sums(f, y, len)
  <2>1. ASSUME NEW n \in 1 .. len PROVE y[n] = x[n]
    <3>1. n \in 1 .. Len(seq) /\ n \in 1 .. Len(more) /\ more[n] = seq[n]
      BY <1>1
    <3> QED
      BY <3>1
  <2> HIDE DEF x, y, more, len
  <2> QED
    BY <1>4, <2>1 DEF Sums
<1> HIDE DEF x, y, more, len
<1>7. f[len] = g[len]
  <2>1. len <= len + 1 /\ len + 1 \in Nat /\ len \in 0 .. len
    BY <1>1
  <2> QED
    BY <1>1, <1>5, <1>6, <2>1, SumsUnique
<1>8. len + 1 \in 1 .. len + 1 /\ (len + 1) - 1 = len /\ len \in 0 .. len
  BY <1>1
<1>9. f[len] \in Nat /\ g[len + 1] = g[len] + y[len + 1]
  BY <1>4, <1>5, <1>8 DEF Sums
<1>10. y[len + 1] = o.bytes[d]
  BY <1>1 DEF y, more, len
<1> QED
  BY <1>4, <1>5, <1>7, <1>9, <1>10 DEF more

\* Two observations in a row.
LEMMA TwoInOrder ==
  ASSUME NEW o \in Observation, NEW p \in Observation
  PROVE  Append(<<o>>, p) = <<o, p>> /\ <<o>> \o <<p>> = <<o, p>>
<1>1. Append(<<o>>, p) \in Seq(Observation) /\ Len(Append(<<o>>, p)) = 2
      /\ Append(<<o>>, p)[1] = o /\ Append(<<o>>, p)[2] = p
  OBVIOUS
<1>2. <<o>> \o <<p>> \in Seq(Observation) /\ Len(<<o>> \o <<p>>) = 2
      /\ (<<o>> \o <<p>>)[1] = o /\ (<<o>> \o <<p>>)[2] = p
  <2>1. <<o>> \o <<p>> \in Seq(Observation) /\ Len(<<o>> \o <<p>>) = 2
    OBVIOUS
  <2>2. (<<o>> \o <<p>>)[1] = o
    OBVIOUS
  <2>3. (<<o>> \o <<p>>)[2] = p
    OBVIOUS
  <2> QED
    BY <2>1, <2>2, <2>3
<1> DEFINE two == <<o, p>>
           app == Append(<<o>>, p)
           cat == <<o>> \o <<p>>
<1>3. /\ app \in Seq(Observation) /\ Len(app) = 2 /\ app[1] = o /\ app[2] = p
      /\ cat \in Seq(Observation) /\ Len(cat) = 2 /\ cat[1] = o /\ cat[2] = p
  BY <1>1, <1>2
<1>4. two \in Seq(Observation) /\ Len(two) = 2 /\ two[1] = o /\ two[2] = p
  OBVIOUS
<1> HIDE DEF two, app, cat
<1>5. /\ two = [n \in 1 .. 2 |-> two[n]] /\ app = [n \in 1 .. 2 |-> app[n]]
      /\ cat = [n \in 1 .. 2 |-> cat[n]]
  BY <1>3, <1>4
<1>6. \A n \in 1 .. 2 : n = 1 \/ n = 2
  OBVIOUS
<1>7. \A n \in 1 .. 2 : two[n] = app[n] /\ two[n] = cat[n]
  BY <1>3, <1>4, <1>6
<1>8. two = app /\ two = cat
  BY <1>5, <1>7
<1> QED
  BY <1>8 DEF two, app, cat

\* What the sequences that a goroutine marks at once say.
LEMMA BytesMarked ==
  ASSUME NEW o \in Observation, NEW p \in Observation, NEW d \in Direction
  PROVE  /\ BytesIn(<<>>, d) = 0 /\ BytesIn(<<o>>, d) = o.bytes[d]
         /\ BytesIn(<<o, p>>, d) = o.bytes[d] + p.bytes[d]
<1>1. <<>> \in Seq(Observation) /\ <<o>> \in Seq(Observation)
  OBVIOUS
<1>2. Append(<<>>, o) = <<o>>
  OBVIOUS
<1>3. Append(<<o>>, p) = <<o, p>>
  BY TwoInOrder
<1>4. o.bytes[d] \in Nat
  BY DEF Observation
<1>5. BytesIn(<<>>, d) = 0
  BY BytesOfNone
<1>6. BytesIn(<<o>>, d) = BytesIn(<<>>, d) + o.bytes[d]
  BY <1>1, <1>2, BytesAppended
<1>7. BytesIn(<<o, p>>, d) = BytesIn(<<o>>, d) + p.bytes[d]
  BY <1>1, <1>3, BytesAppended
<1> QED
  BY <1>4, <1>5, <1>6, <1>7

-----------------------------------------------------------------------------
(* The invariant                                                           *)

\* A copy marks the start and a delta, the handler an outcome.
Started == Lifecycle("stream_started")
Outcomes == {Lifecycle("stream_ended"), Lifecycle("stream_rejected")}

PendingInv ==
  /\ \A d \in Direction :
       \/ pending[d] = <<>>
       \/ \E n \in 1 .. MaxBytes : pending[d] \in {<<Usage(d, n)>>, <<Started, Usage(d, n)>>}
  /\ pending[Handler] \in {<<>>} \cup {<<o>> : o \in Outcomes}
  /\ \A k \in DOMAIN delivered :
       \/ delivered[k] \in Outcomes \cup {Started}
       \/ delivered[k].event = "stream_usage_delta"

\* The library copies while the handler waits for it; one that joins its copies
\* has none left afterwards, and none has anything to deliver.
CopyInv ==
  /\ handler \in {"proxy", "copy"} => ~ended /\ ~failed /\ pending[Handler] = <<>>
  /\ handler = "proxy" => ~started
  /\ handler = "proxy" \/ (joins /\ handler # "copy") => copying = {}
  /\ \A d \in Direction : d \notin copying => pending[d] = <<>>
  /\ ~observer => ~started /\ ~ended

\* Where the start is, if it was marked, and that nothing else was before.
StartPending(d) == pending[d] # <<>> /\ pending[d][1] = Started
StartSeen(k) == k \in DOMAIN delivered /\ delivered[k] = Started

StartInv ==
  /\ started <=> (\E k \in DOMAIN delivered : StartSeen(k)) \/ \E d \in Direction : StartPending(d)
  /\ \A d, e \in Direction : StartPending(d) /\ StartPending(e) => d = e
  /\ \A d \in Direction, k \in DOMAIN delivered : ~ (StartPending(d) /\ StartSeen(k))
  /\ \A j, k \in DOMAIN delivered : StartSeen(j) /\ StartSeen(k) => j = k
  /\ ~started => /\ \A d \in Direction : pending[d] = <<>>
                 /\ \A k \in DOMAIN delivered : delivered[k] \in Outcomes

\* Where the outcome is, if it was marked, and which it is.
Outcome == Lifecycle(IF started THEN "stream_ended" ELSE "stream_rejected")
OutcomeSeen(k) == k \in DOMAIN delivered /\ delivered[k] \in Outcomes

OutcomeInv ==
  /\ ended <=> (\E k \in DOMAIN delivered : OutcomeSeen(k)) \/ pending[Handler] # <<>>
  /\ \A k \in DOMAIN delivered : OutcomeSeen(k) => pending[Handler] = <<>>
  /\ \A j, k \in DOMAIN delivered : OutcomeSeen(j) /\ OutcomeSeen(k) => j = k
  /\ pending[Handler] # <<>> => pending[Handler] = <<Outcome>>
  /\ \A k \in DOMAIN delivered : OutcomeSeen(k) => delivered[k] = Outcome

\* What the handler leaves to do: after a failure the stream has started or
\* ended, and in the end a stream that has started has ended.
HandlerInv ==
  /\ observer /\ failed /\ handler \in {"end", "done"} => started \/ ended
  /\ observer /\ joins /\ handler = "done" /\ started => ended
  /\ ended /\ ~started => failed
  /\ observer /\ joins => (started <=> moved # NoBytes)

IInv ==
  /\ TypeOK /\ PendingInv /\ CopyInv /\ StartInv /\ OutcomeInv /\ HandlerInv
  /\ EndedIsLast /\ BytesConserved

-----------------------------------------------------------------------------
(* What each step does, told in terms of the observations                  *)

LEMMA Observations ==
  /\ Started \in Observation /\ Started.event = "stream_started"
  /\ Outcomes \subseteq Observation /\ Started \notin Outcomes
  /\ \A d \in Direction : Started.bytes[d] = 0 /\ \A o \in Outcomes : o.bytes[d] = 0
  /\ \A o \in Outcomes : o.event \in {"stream_ended", "stream_rejected"}
  /\ \A d \in Direction, n \in Nat :
       /\ Usage(d, n) \in Observation /\ Usage(d, n) # Started
       /\ Usage(d, n) \notin Outcomes
       /\ Usage(d, n).event = "stream_usage_delta" /\ Usage(d, n).bytes[d] = n
       /\ \A e \in Direction \ {d} : Usage(d, n).bytes[e] = 0
<1>1. NoBytes \in [Direction -> Nat] /\ \A d \in Direction : NoBytes[d] = 0
  BY DEF NoBytes
<1>2. Started = [event |-> "stream_started", bytes |-> NoBytes]
  BY DEF Started, Lifecycle
<1>3. Outcomes = {[event |-> "stream_ended", bytes |-> NoBytes],
                  [event |-> "stream_rejected", bytes |-> NoBytes]}
  BY DEF Outcomes, Lifecycle
<1>4. ASSUME NEW d \in Direction, NEW n \in Nat
      PROVE  /\ Usage(d, n) \in Observation
             /\ Usage(d, n).event = "stream_usage_delta" /\ Usage(d, n).bytes[d] = n
             /\ \A e \in Direction \ {d} : Usage(d, n).bytes[e] = 0
  <2>1. [NoBytes EXCEPT ![d] = n] \in [Direction -> Nat]
    BY <1>1
  <2>2. /\ [NoBytes EXCEPT ![d] = n][d] = n
        /\ \A e \in Direction \ {d} : [NoBytes EXCEPT ![d] = n][e] = 0
    BY <1>1
  <2> QED
    BY <2>1, <2>2 DEF Usage, Observation, Event
<1>5. Started \in Observation /\ Started.event = "stream_started"
      /\ \A d \in Direction : Started.bytes[d] = 0
  BY <1>1, <1>2 DEF Observation, Event
<1>6. ASSUME NEW o \in Outcomes
      PROVE  /\ o \in Observation /\ o.event \in {"stream_ended", "stream_rejected"}
             /\ \A d \in Direction : o.bytes[d] = 0
  BY <1>1, <1>3 DEF Observation, Event
<1> QED
  BY <1>4, <1>5, <1>6

\* What AddBytes marks.
LEMMA UsageMarked ==
  ASSUME NEW d \in Direction, NEW n \in 1 .. MaxBytes,
         observer \in BOOLEAN, ended \in BOOLEAN, started \in BOOLEAN
  PROVE  \/ (~observer \/ ended) /\ UsageMarks(d, n) = <<>>
         \/ observer /\ ~ended /\ started /\ UsageMarks(d, n) = <<Usage(d, n)>>
         \/ observer /\ ~ended /\ ~started /\ UsageMarks(d, n) = <<Started, Usage(d, n)>>
<1>1. CASE ~observer \/ ended
  BY <1>1 DEF UsageMarks
<1>2. CASE observer /\ ~ended /\ started
  <2>1. UsageMarks(d, n) = <<>> \o <<Usage(d, n)>>
    BY <1>2 DEF UsageMarks
  <2>2. n \in Nat
    BY BoundAssumption
  <2>3. Usage(d, n) \in Observation
    BY <2>2, Observations
  <2>4. <<>> \o <<Usage(d, n)>> = <<Usage(d, n)>>
    BY <2>3
  <2> QED
    BY <1>2, <2>1, <2>4
<1>3. CASE observer /\ ~ended /\ ~started
  <2>1. UsageMarks(d, n) = <<Started>> \o <<Usage(d, n)>>
    BY <1>3 DEF UsageMarks, Started
  <2>2. n \in Nat
    BY BoundAssumption
  <2>3. <<Started>> \o <<Usage(d, n)>> = <<Started, Usage(d, n)>>
    BY <2>2, TwoInOrder, Observations
  <2> QED
    BY <1>3, <2>1, <2>3
<1> QED
  BY <1>1, <1>2, <1>3

\* A delivery: the handler hands over an outcome, a copy its delta or the start
\* that precedes it.
Delivers(g, o, rest) ==
  /\ pending[g] # <<>> /\ pending' = [pending EXCEPT ![g] = rest]
  /\ delivered' = Append(delivered, o)
  /\ UNCHANGED <<observer, joins, handler, failed, copying, started, ended, moved>>

LEMMA Deliveries ==
  ASSUME TypeOK, PendingInv, NEW g \in Goroutine, Deliver(g)
  PROVE  \/ g = Handler /\ \E o \in Outcomes :
              pending[g] = <<o>> /\ Delivers(g, o, <<>>)
         \/ g \in Direction /\ \E n \in 1 .. MaxBytes :
              pending[g] = <<Usage(g, n)>> /\ Delivers(g, Usage(g, n), <<>>)
         \/ g \in Direction /\ \E n \in 1 .. MaxBytes :
              /\ pending[g] = <<Started, Usage(g, n)>>
              /\ Delivers(g, Started, <<Usage(g, n)>>)
<1>1. /\ pending[g] # <<>> /\ delivered' = Append(delivered, Head(pending[g]))
      /\ pending' = [pending EXCEPT ![g] = Tail(pending[g])]
      /\ UNCHANGED <<observer, joins, handler, failed, copying, started, ended, moved>>
  BY DEF Deliver
<1>2. \A n \in 1 .. MaxBytes : n \in Nat
  BY BoundAssumption
<1>3. CASE g = Handler
  <2>1. PICK o \in Outcomes : pending[g] = <<o>>
    BY <1>1, <1>3 DEF PendingInv
  <2>2. Head(<<o>>) = o /\ Tail(<<o>>) = <<>>
    OBVIOUS
  <2> QED
    BY <1>1, <1>3, <2>1, <2>2 DEF Delivers
<1>4. CASE g \in Direction
  <2>1. PICK n \in 1 .. MaxBytes : pending[g] \in {<<Usage(g, n)>>, <<Started, Usage(g, n)>>}
    BY <1>1, <1>4 DEF PendingInv
  <2>2. /\ Head(<<Usage(g, n)>>) = Usage(g, n) /\ Tail(<<Usage(g, n)>>) = <<>>
        /\ Head(<<Started, Usage(g, n)>>) = Started
        /\ Tail(<<Started, Usage(g, n)>>) = <<Usage(g, n)>>
    OBVIOUS
  <2>3. CASE pending[g] = <<Usage(g, n)>>
    BY <1>1, <1>4, <2>2, <2>3 DEF Delivers
  <2>4. CASE pending[g] = <<Started, Usage(g, n)>>
    BY <1>1, <1>4, <2>2, <2>4 DEF Delivers
  <2> QED
    BY <2>1, <2>3, <2>4
<1> QED
  BY <1>3, <1>4 DEF Goroutine

LEMMA Appended ==
  ASSUME NEW seq \in Seq(Observation), NEW o \in Observation
  PROVE  /\ Append(seq, o) \in Seq(Observation)
         /\ Len(seq) \in Nat /\ DOMAIN seq = 1 .. Len(seq)
         /\ Len(Append(seq, o)) = Len(seq) + 1
         /\ DOMAIN Append(seq, o) = 1 .. Len(seq) + 1
         /\ Append(seq, o)[Len(seq) + 1] = o
         /\ \A k \in 1 .. Len(seq) : Append(seq, o)[k] = seq[k]
<1>1. /\ Append(seq, o) \in Seq(Observation)
      /\ Len(seq) \in Nat /\ DOMAIN seq = 1 .. Len(seq)
      /\ Len(Append(seq, o)) = Len(seq) + 1
  OBVIOUS
<1>2. Append(seq, o)[Len(seq) + 1] = o
  OBVIOUS
<1>3. ASSUME NEW k \in 1 .. Len(seq) PROVE Append(seq, o)[k] = seq[k]
  OBVIOUS
<1>4. DOMAIN Append(seq, o) = 1 .. Len(Append(seq, o))
  BY <1>1
<1> QED
  BY <1>1, <1>2, <1>3, <1>4

LEMMA DeliveryFacts ==
  ASSUME TypeOK, NEW g \in Goroutine, NEW o \in Observation, NEW rest,
         Delivers(g, o, rest)
  PROVE  /\ pending'[g] = rest /\ \A h \in Goroutine \ {g} : pending'[h] = pending[h]
         /\ Len(delivered) \in Nat /\ Len(delivered') = Len(delivered) + 1
         /\ DOMAIN delivered = 1 .. Len(delivered)
         /\ DOMAIN delivered' = 1 .. Len(delivered) + 1
         /\ delivered'[Len(delivered) + 1] = o
         /\ \A k \in DOMAIN delivered : delivered'[k] = delivered[k]
         /\ \A k \in DOMAIN delivered' : k \in DOMAIN delivered \/ k = Len(delivered) + 1
<1>1. delivered' = Append(delivered, o) /\ delivered \in Seq(Observation)
  BY DEF Delivers, TypeOK
<1>2. /\ DOMAIN delivered = 1 .. Len(delivered) /\ Len(delivered) \in Nat
      /\ Len(delivered') = Len(delivered) + 1
      /\ DOMAIN delivered' = 1 .. Len(delivered) + 1
      /\ delivered'[Len(delivered) + 1] = o
      /\ \A k \in 1 .. Len(delivered) : delivered'[k] = delivered[k]
  BY <1>1, Appended
<1>3. \A k \in DOMAIN delivered' : k \in DOMAIN delivered \/ k = Len(delivered) + 1
  BY <1>2
<1>4. pending'[g] = rest /\ \A h \in Goroutine \ {g} : pending'[h] = pending[h]
  BY DEF Delivers, TypeOK
<1> QED
  BY <1>2, <1>3, <1>4

\* The handler settles: it marks nothing, or the outcome that the lifecycle has
\* left, once.
Settles ==
  /\ pending[Handler] = <<>>
  /\ joins => copying = {}
  /\ UNCHANGED <<observer, joins, copying, started, moved, delivered>>
  /\ \/ UNCHANGED <<ended, pending>>
     \/ /\ observer /\ ~ended /\ ended'
        /\ pending' = [pending EXCEPT ![Handler] = <<Outcome>>]

LEMMA Settlements ==
  ASSUME TypeOK, CopyInv, LibraryEnd \/ SettleReject \/ SettleEnd
  PROVE  Settles /\ Outcome \in Outcomes
<1>1. pending[Handler] = <<>>
  BY DEF LibraryEnd, SettleReject, SettleEnd, CopyInv
<1>2. joins => copying = {}
  BY DEF LibraryEnd, SettleReject, SettleEnd, CopyInv
<1>3. UNCHANGED <<observer, joins, copying, started, moved, delivered>>
  BY DEF LibraryEnd, SettleReject, SettleEnd
<1>4. pending = [pending EXCEPT ![Handler] = <<>>]
  BY <1>1 DEF TypeOK, Goroutine
<1>5. Outcome \in Outcomes
  BY DEF Outcome, Outcomes, TypeOK
<1>6. ASSUME MarkEnded
      PROVE  \/ UNCHANGED <<ended, pending>>
             \/ /\ observer /\ ~ended /\ ended'
                /\ pending' = [pending EXCEPT ![Handler] = <<Outcome>>]
  <2>1. CASE CanEnd
    BY <1>6, <2>1 DEF CanEnd, MarkEnded, Outcome
  <2>2. CASE ~CanEnd
    BY <1>4, <1>6, <2>2 DEF MarkEnded, TypeOK
  <2> QED
    BY <2>1, <2>2
<1>7. CASE SettleReject
  <2>1. CASE CanReject
    BY <1>1, <1>2, <1>3, <1>5, <1>7, <2>1 DEF CanReject, SettleReject, Outcome, Settles
  <2>2. CASE ~CanReject
    <3>1. UNCHANGED <<ended, pending>>
      BY <1>4, <1>7, <2>2 DEF SettleReject, TypeOK
    <3> QED
      BY <1>1, <1>2, <1>3, <1>5, <3>1 DEF Settles
  <2> QED
    BY <2>1, <2>2
<1>8. CASE LibraryEnd \/ SettleEnd
  BY <1>1, <1>2, <1>3, <1>5, <1>6, <1>8 DEF LibraryEnd, SettleEnd, Settles
<1> QED
  BY <1>7, <1>8

\* The other steps mark nothing and deliver nothing.
Idles == UNCHANGED <<observer, joins, started, ended, moved, pending, delivered>>

LEMMA Idlings ==
  ASSUME OpenFails \/ Opens \/ (\E d \in Direction : CopyReturns(d)) \/ UNCHANGED vars
  PROVE  Idles
BY DEF OpenFails, Opens, CopyReturns, vars, Idles

-----------------------------------------------------------------------------
(* The steps preserve the invariant                                        *)

\* Where the handler is and what the library copies.
LEMMA CopyStep ==
  ASSUME TypeOK, PendingInv, CopyInv, [Next]_vars
  PROVE  CopyInv'
<1> USE HandlerAssumption DEF TypeOK, Goroutine
<1>1. ASSUME NEW d \in Direction, NEW n \in 1 .. MaxBytes, AddBytes(d, n) PROVE CopyInv'
  <2>1. \A g \in Goroutine \ {d} : pending'[g] = pending[g]
    BY <1>1 DEF AddBytes
  <2>2. ~observer => UsageMarks(d, n) = <<>>
    BY DEF UsageMarks
  <2>3. d \in copying /\ Handler # d
    BY <1>1 DEF AddBytes
  <2> QED
    BY <1>1, <2>1, <2>2, <2>3 DEF AddBytes, CopyInv
<1>2. ASSUME NEW d \in Direction, CopyReturns(d) PROVE CopyInv'
  BY <1>2 DEF CopyReturns, CopyInv
<1>3. ASSUME NEW g \in Goroutine, Deliver(g) PROVE CopyInv'
  <2>1. pending[g] # <<>> /\ \A h \in Goroutine \ {g} : pending'[h] = pending[h]
    BY <1>3 DEF Deliver
  <2>2. UNCHANGED <<observer, joins, handler, failed, copying, started, ended, moved>>
    BY <1>3 DEF Deliver
  <2>3. handler \in {"proxy", "copy"} => pending'[Handler] = <<>>
    BY <2>1 DEF CopyInv
  <2>4. ASSUME NEW d \in Direction, d \notin copying PROVE pending'[d] = <<>>
    BY <2>1, <2>4 DEF CopyInv
  <2> QED
    BY <2>2, <2>3, <2>4 DEF CopyInv
<1>4. CASE OpenFails \/ Opens
  BY <1>4 DEF OpenFails, Opens, CopyInv
<1>5. CASE LibraryEnd \/ SettleReject \/ SettleEnd
  <2>1. Settles
    BY <1>5, Settlements
  <2>2. \A d \in Direction : pending'[d] = pending[d]
    BY <2>1 DEF Settles
  <2>3. handler' \notin {"proxy", "copy"}
    BY <1>5 DEF LibraryEnd, SettleReject, SettleEnd
  <2> QED
    BY <2>1, <2>2, <2>3 DEF Settles, CopyInv
<1>6. CASE UNCHANGED vars
  BY <1>6 DEF vars, CopyInv
<1> QED
  BY <1>1, <1>2, <1>3, <1>4, <1>5, <1>6 DEF Next

\* The types, and what the goroutines mark.
LEMMA TypeStep ==
  ASSUME TypeOK, PendingInv, CopyInv, [Next]_vars
  PROVE  TypeOK'
<1> USE HandlerAssumption, BoundAssumption DEF TypeOK, Goroutine
<1>1. ASSUME NEW d \in Direction, NEW n \in 1 .. MaxBytes, AddBytes(d, n) PROVE TypeOK'
  <2>1. UsageMarks(d, n) \in Seq(Observation)
    <3>1. n \in Nat
      OBVIOUS
    <3>2. Usage(d, n) \in Observation /\ Started \in Observation
      BY <3>1, Observations
    <3>3. /\ <<>> \in Seq(Observation) /\ <<Usage(d, n)>> \in Seq(Observation)
          /\ <<Started, Usage(d, n)>> \in Seq(Observation)
      BY <3>2
    <3>4. UsageMarks(d, n) \in {<<>>, <<Usage(d, n)>>, <<Started, Usage(d, n)>>}
      BY UsageMarked
    <3> QED
      BY <3>3, <3>4
  <2>2. moved' \in [Direction -> 0 .. MaxBytes]
    BY <1>1 DEF AddBytes
  <2>3. pending' \in [Goroutine -> Seq(Observation)]
    BY <1>1, <2>1 DEF AddBytes
  <2> QED
    BY <1>1, <2>2, <2>3 DEF AddBytes
<1>2. ASSUME NEW g \in Goroutine, Deliver(g) PROVE TypeOK'
  <2>1. PICK o \in Observation, rest \in Seq(Observation) : Delivers(g, o, rest)
    <3>1. ASSUME NEW o \in Outcomes, Delivers(g, o, <<>>)
          PROVE  \E p \in Observation, rest \in Seq(Observation) : Delivers(g, p, rest)
      <4>1. o \in Observation /\ <<>> \in Seq(Observation)
        BY Observations
      <4> QED
        BY <3>1, <4>1
    <3>2. ASSUME g \in Direction, NEW n \in 1 .. MaxBytes,
                 \/ Delivers(g, Usage(g, n), <<>>)
                 \/ Delivers(g, Started, <<Usage(g, n)>>)
          PROVE  \E o \in Observation, rest \in Seq(Observation) : Delivers(g, o, rest)
      <4>1. n \in Nat
        OBVIOUS
      <4>2. Usage(g, n) \in Observation /\ Started \in Observation
        BY <3>2, <4>1, Observations
      <4>3. <<>> \in Seq(Observation) /\ <<Usage(g, n)>> \in Seq(Observation)
        BY <4>2
      <4> QED
        BY <3>2, <4>2, <4>3
    <3> QED
      BY <1>2, <3>1, <3>2, Deliveries
  <2>2. delivered' \in Seq(Observation)
    BY <2>1 DEF Delivers
  <2> QED
    BY <2>1, <2>2 DEF Delivers
<1>3. CASE LibraryEnd \/ SettleReject \/ SettleEnd
  <2>1. Settles /\ Outcome \in Outcomes
    BY <1>3, Settlements
  <2>2. <<Outcome>> \in Seq(Observation)
    BY <2>1, Observations
  <2>3. pending' \in [Goroutine -> Seq(Observation)] /\ ended' \in BOOLEAN
    <3>1. CASE UNCHANGED <<ended, pending>>
      BY <3>1
    <3>2. CASE ended' /\ ~UNCHANGED <<ended, pending>>
      <4>1. pending' = [pending EXCEPT ![Handler] = <<Outcome>>]
        BY <2>1, <3>2 DEF Settles
      <4>2. pending \in [Goroutine -> Seq(Observation)]
        OBVIOUS
      <4> QED
        BY <2>2, <3>2, <4>1, <4>2
    <3> QED
      BY <2>1, <3>1, <3>2 DEF Settles
  <2>4. handler' \in {"settle", "end", "done"} /\ failed' \in BOOLEAN
    BY <1>3 DEF LibraryEnd, SettleReject, SettleEnd
  <2> QED
    BY <2>1, <2>3, <2>4 DEF Settles
<1>4. CASE OpenFails \/ Opens \/ (\E d \in Direction : CopyReturns(d)) \/ UNCHANGED vars
  BY <1>4 DEF OpenFails, Opens, CopyReturns, vars
<1> QED
  BY <1>1, <1>2, <1>3, <1>4 DEF Next

\* What is pending and delivered is of the shape the goroutines mark.
LEMMA PendingStep ==
  ASSUME TypeOK, PendingInv, CopyInv, [Next]_vars
  PROVE  PendingInv'
<1> USE HandlerAssumption DEF Goroutine
<1>1. ASSUME NEW d \in Direction, NEW n \in 1 .. MaxBytes, AddBytes(d, n)
      PROVE  PendingInv'
  <2>1. /\ pending'[d] \in {<<>>, <<Usage(d, n)>>, <<Started, Usage(d, n)>>}
        /\ \A g \in Goroutine \ {d} : pending'[g] = pending[g]
        /\ delivered' = delivered
    <3>1. UsageMarks(d, n) \in {<<>>, <<Usage(d, n)>>, <<Started, Usage(d, n)>>}
      BY UsageMarked DEF TypeOK
    <3>2. /\ pending'[d] = UsageMarks(d, n) /\ delivered' = delivered
          /\ \A g \in Goroutine \ {d} : pending'[g] = pending[g]
      BY <1>1 DEF AddBytes, TypeOK
    <3> QED
      BY <3>1, <3>2
  <2>2. ASSUME NEW e \in Direction
        PROVE  \/ pending'[e] = <<>>
               \/ \E m \in 1 .. MaxBytes :
                    pending'[e] \in {<<Usage(e, m)>>, <<Started, Usage(e, m)>>}
    <3>1. CASE e = d
      BY <2>1, <3>1
    <3>2. CASE e # d
      BY <2>1, <3>2 DEF PendingInv
    <3> QED
      BY <3>1, <3>2
  <2> QED
    BY <2>1, <2>2 DEF PendingInv
<1>2. ASSUME NEW g \in Goroutine, Deliver(g) PROVE PendingInv'
  <2>1. ASSUME NEW o \in Observation, NEW rest, Delivers(g, o, rest)
        PROVE  /\ pending'[g] = rest
               /\ \A h \in Goroutine \ {g} : pending'[h] = pending[h]
               /\ \A k \in DOMAIN delivered' :
                 \/ k \in DOMAIN delivered /\ delivered'[k] = delivered[k]
                 \/ delivered'[k] = o
    BY <2>1, DeliveryFacts
  <2>2. ASSUME NEW o \in Outcomes, g = Handler, Delivers(g, o, <<>>) PROVE PendingInv'
    <3>1. o \in Observation
      BY Observations
    <3> QED
      BY <2>1, <2>2, <3>1 DEF PendingInv
  <2>3. ASSUME g \in Direction, NEW n \in 1 .. MaxBytes,
               \/ Delivers(g, Usage(g, n), <<>>)
               \/ Delivers(g, Started, <<Usage(g, n)>>)
        PROVE  PendingInv'
    <3>1. n \in Nat
      BY BoundAssumption
    <3>2. /\ Usage(g, n) \in Observation /\ Usage(g, n).event = "stream_usage_delta"
          /\ Started \in Observation
      BY <2>3, <3>1, Observations
    <3>3. /\ pending'[g] \in {<<>>, <<Usage(g, n)>>}
          /\ \A h \in Goroutine \ {g} : pending'[h] = pending[h]
          /\ \A k \in DOMAIN delivered' :
               \/ k \in DOMAIN delivered /\ delivered'[k] = delivered[k]
               \/ delivered'[k] = Usage(g, n) \/ delivered'[k] = Started
      <4>1. CASE Delivers(g, Usage(g, n), <<>>)
        BY <2>1, <3>2, <4>1
      <4>2. CASE Delivers(g, Started, <<Usage(g, n)>>)
        BY <2>1, <3>2, <4>2
      <4> QED
        BY <2>3, <4>1, <4>2
    <3>4. ASSUME NEW e \in Direction
          PROVE  \/ pending'[e] = <<>>
                 \/ \E m \in 1 .. MaxBytes :
                      pending'[e] \in {<<Usage(e, m)>>, <<Started, Usage(e, m)>>}
      <4>1. CASE e = g
        BY <3>3, <4>1
      <4>2. CASE e # g
        BY <3>3, <4>2 DEF PendingInv
      <4> QED
        BY <4>1, <4>2
    <3>5. pending'[Handler] = pending[Handler]
      BY <2>3, <3>3
    <3>6. ASSUME NEW k \in DOMAIN delivered'
          PROVE  \/ delivered'[k] \in Outcomes \cup {Started}
                 \/ delivered'[k].event = "stream_usage_delta"
      BY <3>2, <3>3 DEF PendingInv
    <3> QED
      BY <3>4, <3>5, <3>6 DEF PendingInv
  <2> QED
    BY <1>2, <2>2, <2>3, Deliveries
<1>3. CASE LibraryEnd \/ SettleReject \/ SettleEnd
  <2>1. Settles /\ Outcome \in Outcomes
    BY <1>3, Settlements
  <2>2. /\ \A d \in Direction : pending'[d] = pending[d]
        /\ pending'[Handler] \in {<<>>, <<Outcome>>} /\ delivered' = delivered
    BY <2>1 DEF Settles, TypeOK
  <2> QED
    BY <2>1, <2>2 DEF PendingInv
<1>4. CASE OpenFails \/ Opens \/ (\E d \in Direction : CopyReturns(d)) \/ UNCHANGED vars
  BY <1>4, Idlings DEF Idles, PendingInv
<1> QED
  BY <1>1, <1>2, <1>3, <1>4 DEF Next

\* The start is marked once.
LEMMA StartStep ==
  ASSUME TypeOK, PendingInv, StartInv, [Next]_vars
  PROVE  StartInv'
<1> USE HandlerAssumption DEF Goroutine
<1>1. ASSUME NEW d \in Direction, NEW n \in 1 .. MaxBytes, AddBytes(d, n)
      PROVE  StartInv'
  <2>a. n \in Nat
    BY BoundAssumption
  <2>1. /\ pending[d] = <<>> /\ pending'[d] = UsageMarks(d, n)
        /\ \A e \in Direction \ {d} : pending'[e] = pending[e]
        /\ delivered' = delivered /\ started' = (started \/ UsageMarks(d, n) # <<>>)
    BY <1>1 DEF AddBytes, TypeOK
  <2>2. ~ StartPending(d)
    BY <2>1 DEF StartPending
  <2>3. \A e \in Direction \ {d} : StartPending(e)' <=> StartPending(e)
    BY <2>1 DEF StartPending
  <2>4. CASE UsageMarks(d, n) = <<>>
    <3>1. \A e \in Direction : pending'[e] = pending[e]
      BY <2>1, <2>4
    <3>2. started' = started
      BY <2>1, <2>4 DEF TypeOK
    <3> QED
      BY <2>1, <3>1, <3>2 DEF StartInv, StartPending, StartSeen
  <2>5. CASE started /\ UsageMarks(d, n) = <<Usage(d, n)>>
    <3>1. <<Usage(d, n)>>[1] = Usage(d, n) /\ Usage(d, n) # Started
      BY <2>a, Observations
    <3>2. ~ StartPending(d)'
      BY <2>1, <2>5, <3>1 DEF StartPending
    <3>3. started'
      BY <2>1, <2>5
    <3>4. \A e \in Direction : StartPending(e)' <=> StartPending(e)
      BY <2>2, <2>3, <3>2
    <3> QED
      BY <2>1, <2>5, <3>3, <3>4 DEF StartInv, StartSeen
  <2>6. CASE ~started /\ UsageMarks(d, n) = <<Started, Usage(d, n)>>
    <3>1. <<Started, Usage(d, n)>>[1] = Started /\ <<Started, Usage(d, n)>> # <<>>
      OBVIOUS
    <3>2. StartPending(d)' /\ started'
      BY <2>1, <2>6, <3>1 DEF StartPending
    <3>3. \A e \in Direction : StartPending(e)' => e = d
      BY <2>3, <2>6 DEF StartInv, StartPending
    <3>4. \A k \in DOMAIN delivered : delivered[k] # Started
      BY <2>6, Observations DEF StartInv
    <3> QED
      BY <2>1, <3>2, <3>3, <3>4 DEF StartInv, StartSeen
  <2> QED
    BY <2>4, <2>5, <2>6, UsageMarked DEF TypeOK
<1>2. ASSUME NEW g \in Goroutine, Deliver(g) PROVE StartInv'
  <2>1. ASSUME NEW o \in Outcomes, g = Handler, Delivers(g, o, <<>>) PROVE StartInv'
    <3>1. o \in Observation /\ o # Started
      BY Observations
    <3>2. \A e \in Direction : pending'[e] = pending[e]
      BY <2>1, <3>1, DeliveryFacts
    <3>3. \A e \in Direction : StartPending(e)' <=> StartPending(e)
      BY <3>2 DEF StartPending
    <3>4. \A k : StartSeen(k)' <=> StartSeen(k)
      BY <2>1, <3>1, DeliveryFacts DEF StartSeen
    <3>5. started' = started
      BY <2>1 DEF Delivers
    <3>6. \A k \in DOMAIN delivered' :
         \/ k \in DOMAIN delivered /\ delivered'[k] = delivered[k]
         \/ delivered'[k] \in Outcomes
      BY <2>1, <3>1, DeliveryFacts
    <3>7. \A k : StartSeen(k) => k \in DOMAIN delivered
      BY DEF StartSeen
    <3>8. \A k : StartSeen(k)' => k \in DOMAIN delivered'
      BY DEF StartSeen
    <3> QED
      BY <3>2, <3>3, <3>4, <3>5, <3>6, <3>7, <3>8 DEF StartInv
  <2>2. ASSUME g \in Direction, NEW n \in 1 .. MaxBytes, pending[g] = <<Usage(g, n)>>,
               Delivers(g, Usage(g, n), <<>>)
        PROVE  StartInv'
    <3>1. Usage(g, n) \in Observation /\ Usage(g, n) # Started
      BY <2>2, BoundAssumption, Observations
    <3>2. pending'[g] = <<>> /\ \A e \in Direction \ {g} : pending'[e] = pending[e]
      BY <2>2, <3>1, DeliveryFacts
    <3>3. ~ StartPending(g) /\ ~ StartPending(g)'
      BY <2>2, <3>1, <3>2 DEF StartPending
    <3>4. \A e \in Direction : StartPending(e)' <=> StartPending(e)
      BY <3>2, <3>3 DEF StartPending
    <3>5. \A k : StartSeen(k)' <=> StartSeen(k)
      BY <2>2, <3>1, DeliveryFacts DEF StartSeen
    <3>6. started' = started /\ started
      BY <2>2 DEF Delivers, StartInv
    <3>7. \A k : StartSeen(k) => k \in DOMAIN delivered
      BY DEF StartSeen
    <3>8. \A k : StartSeen(k)' => k \in DOMAIN delivered'
      BY DEF StartSeen
    <3> QED
      BY <3>4, <3>5, <3>6, <3>7, <3>8 DEF StartInv
  <2>3. ASSUME g \in Direction, NEW n \in 1 .. MaxBytes,
               pending[g] = <<Started, Usage(g, n)>>, Delivers(g, Started, <<Usage(g, n)>>)
        PROVE  StartInv'
    <3>1. Started \in Observation /\ Usage(g, n) # Started
      BY <2>3, BoundAssumption, Observations
    <3>2. pending'[g] = <<Usage(g, n)>> /\ \A e \in Direction \ {g} : pending'[e] = pending[e]
      BY <2>3, <3>1, DeliveryFacts
    <3>3. StartPending(g)
      BY <2>3 DEF StartPending
    <3>4. ~ StartPending(g)'
      BY <3>1, <3>2 DEF StartPending
    <3>5. \A e \in Direction : ~ StartPending(e)'
      BY <2>3, <3>2, <3>3, <3>4 DEF StartPending, StartInv
    <3>6. \A k \in DOMAIN delivered : ~ StartSeen(k)
      BY <2>3, <3>3 DEF StartInv
    <3>7. \A k : StartSeen(k)' <=> k = Len(delivered) + 1
      BY <2>3, <3>1, <3>6, DeliveryFacts DEF StartSeen
    <3>8. started' = started /\ started
      BY <2>3, <3>3 DEF Delivers, StartInv
    <3>9. Len(delivered) + 1 \in DOMAIN delivered'
      BY <2>3, <3>1, DeliveryFacts
    <3> QED
      BY <3>5, <3>7, <3>8, <3>9 DEF StartInv
  <2> QED
    BY <1>2, <2>1, <2>2, <2>3, Deliveries
<1>3. CASE LibraryEnd \/ SettleReject \/ SettleEnd
  <2>1. (\A d \in Direction : pending'[d] = pending[d]) /\ UNCHANGED <<delivered, started>>
    BY <1>3 DEF LibraryEnd, SettleReject, SettleEnd, MarkEnded, TypeOK
  <2> QED
    BY <2>1 DEF StartInv, StartPending, StartSeen
<1>4. CASE OpenFails \/ Opens \/ (\E d \in Direction : CopyReturns(d)) \/ UNCHANGED vars
  BY <1>4, Idlings DEF Idles, StartInv, StartPending, StartSeen
<1> QED
  BY <1>1, <1>2, <1>3, <1>4 DEF Next

\* The outcome is marked once.
LEMMA OutcomeStep ==
  ASSUME TypeOK, PendingInv, CopyInv, OutcomeInv, [Next]_vars
  PROVE  OutcomeInv'
<1> USE HandlerAssumption DEF Goroutine
<1>a. \A k : OutcomeSeen(k) => k \in DOMAIN delivered
  BY DEF OutcomeSeen
<1>b. \A k : OutcomeSeen(k)' => k \in DOMAIN delivered'
  BY DEF OutcomeSeen
<1>1. ASSUME NEW d \in Direction, NEW n \in 1 .. MaxBytes, AddBytes(d, n)
      PROVE  OutcomeInv'
  <2>1. UNCHANGED <<delivered, ended>> /\ pending'[Handler] = pending[Handler]
    BY <1>1 DEF AddBytes, TypeOK
  <2>2. ended => started' = started
    BY <1>1 DEF AddBytes, UsageMarks, TypeOK
  <2>3. \A k : OutcomeSeen(k)' <=> OutcomeSeen(k)
    BY <2>1 DEF OutcomeSeen
  <2>4. CASE ended
    <3>1. Outcome' = Outcome
      BY <2>2, <2>4 DEF Outcome, Lifecycle, NoBytes
    <3> QED
      BY <2>1, <2>3, <3>1 DEF OutcomeInv
  <2>5. CASE ~ended
    BY <2>1, <2>3, <2>5 DEF OutcomeInv
  <2> QED
    BY <2>4, <2>5
<1>2. ASSUME NEW g \in Goroutine, Deliver(g) PROVE OutcomeInv'
  <2>a. UNCHANGED <<ended, started>>
    BY <1>2 DEF Deliver
  <2>b. Outcome' = Outcome
    BY <2>a DEF Outcome, Lifecycle, NoBytes
  <2>1. ASSUME NEW o \in Outcomes, g = Handler, pending[g] = <<o>>, Delivers(g, o, <<>>)
        PROVE  OutcomeInv'
    <3>1. o \in Observation
      BY Observations
    <3>2. pending'[Handler] = <<>>
      BY <2>1, <3>1, DeliveryFacts
    <3>3. pending[Handler] # <<>> /\ o = Outcome /\ ended
      <4>1. pending[Handler] # <<>>
        BY <2>1
      <4>2. <<o>> = <<Outcome>>
        BY <2>1, <4>1 DEF OutcomeInv
      <4>3. <<o>>[1] = o /\ <<Outcome>>[1] = Outcome
        OBVIOUS
      <4> QED
        BY <4>1, <4>2, <4>3 DEF OutcomeInv
    <3>4. \A k : ~ OutcomeSeen(k)
      BY <1>a, <3>3 DEF OutcomeInv
    <3>5. \A k : OutcomeSeen(k)' <=> k = Len(delivered) + 1
      BY <2>1, <3>1, <3>4, DeliveryFacts DEF OutcomeSeen
    <3>6. Len(delivered) + 1 \in DOMAIN delivered' /\ delivered'[Len(delivered) + 1] = Outcome
      BY <2>1, <3>1, <3>3, DeliveryFacts
    <3> QED
      BY <1>b, <2>a, <2>b, <3>2, <3>3, <3>5, <3>6 DEF OutcomeInv
  <2>2. ASSUME g \in Direction, NEW o \in Observation, NEW rest, o \notin Outcomes,
               Delivers(g, o, rest)
        PROVE  OutcomeInv'
    <3>1. pending'[Handler] = pending[Handler]
      BY <2>2, DeliveryFacts
    <3>2. \A k : OutcomeSeen(k)' <=> OutcomeSeen(k)
      BY <2>2, DeliveryFacts DEF OutcomeSeen
    <3>3. \A k : OutcomeSeen(k) => delivered'[k] = delivered[k]
      BY <2>2, DeliveryFacts DEF OutcomeSeen
    <3> QED
      BY <1>a, <1>b, <2>a, <2>b, <3>1, <3>2, <3>3 DEF OutcomeInv
  <2>3. ASSUME NEW n \in 1 .. MaxBytes, g \in Direction
        PROVE  /\ Usage(g, n) \in Observation \ Outcomes
               /\ Started \in Observation \ Outcomes
    BY <2>3, BoundAssumption, Observations
  <2> QED
    BY <1>2, <2>1, <2>2, <2>3, Deliveries
<1>3. CASE LibraryEnd \/ SettleReject \/ SettleEnd
  <2>1. Settles
    BY <1>3, Settlements
  <2>2. UNCHANGED <<delivered, started>> /\ pending[Handler] = <<>>
    BY <2>1 DEF Settles
  <2>3. Outcome' = Outcome /\ \A k : OutcomeSeen(k)' <=> OutcomeSeen(k)
    BY <2>2 DEF Outcome, Lifecycle, NoBytes, OutcomeSeen
  <2>4. CASE UNCHANGED <<ended, pending>>
    BY <2>2, <2>3, <2>4 DEF OutcomeInv
  <2>5. CASE ~ended /\ ended' /\ pending' = [pending EXCEPT ![Handler] = <<Outcome>>]
    <3>1. pending'[Handler] = <<Outcome>> /\ <<Outcome>> # <<>>
      BY <2>5 DEF TypeOK
    <3>2. \A k : ~ OutcomeSeen(k)
      BY <1>a, <2>5 DEF OutcomeInv
    <3> QED
      BY <2>3, <2>5, <3>1, <3>2 DEF OutcomeInv
  <2> QED
    BY <2>1, <2>4, <2>5 DEF Settles
<1>4. CASE OpenFails \/ Opens \/ (\E d \in Direction : CopyReturns(d)) \/ UNCHANGED vars
  BY <1>4, Idlings DEF Idles, OutcomeInv, OutcomeSeen, Outcome, Lifecycle, NoBytes
<1> QED
  BY <1>1, <1>2, <1>3, <1>4 DEF Next

\* The handler leaves nothing to observe undone.
LEMMA HandlerStep ==
  ASSUME TypeOK, CopyInv, HandlerInv, [Next]_vars
  PROVE  HandlerInv'
<1> USE HandlerAssumption DEF TypeOK, Goroutine
<1>1. ASSUME NEW d \in Direction, NEW n \in 1 .. MaxBytes, AddBytes(d, n)
      PROVE  HandlerInv'
  <2>1. UNCHANGED <<observer, joins, handler, failed, ended>> /\ d \in copying
        /\ (started => started')
    BY <1>1 DEF AddBytes
  <2>2. joins => handler = "copy" /\ ~ended
    BY <2>1 DEF CopyInv
  <2>3. observer /\ joins => started'
    <3>1. <<Usage(d, n)>> # <<>> /\ <<Started, Usage(d, n)>> # <<>>
      OBVIOUS
    <3>2. observer /\ ~ended => UsageMarks(d, n) # <<>>
      BY <3>1, UsageMarked
    <3> QED
      BY <1>1, <2>2, <3>2 DEF AddBytes
  <2>4. moved' # NoBytes
    <3>1. moved'[d] = moved[d] + n /\ moved[d] \in Nat /\ n \in Nat /\ n # 0
      BY <1>1, BoundAssumption DEF AddBytes
    <3>2. NoBytes[d] = 0
      BY DEF NoBytes
    <3> QED
      BY <3>1, <3>2
  <2> QED
    BY <2>1, <2>2, <2>3, <2>4 DEF HandlerInv
<1>2. ASSUME Idles \/ UNCHANGED <<observer, joins, handler, failed, started, ended, moved>>,
             UNCHANGED <<handler, failed>>
      PROVE  HandlerInv'
  BY <1>2 DEF Idles, HandlerInv, NoBytes
<1>3. ASSUME NEW g \in Goroutine, Deliver(g) PROVE HandlerInv'
  BY <1>2, <1>3 DEF Deliver
<1>4. CASE OpenFails \/ Opens
  BY <1>4 DEF OpenFails, Opens, HandlerInv, CopyInv, NoBytes
<1>5. CASE (\E d \in Direction : CopyReturns(d)) \/ UNCHANGED vars
  BY <1>2, <1>5 DEF CopyReturns, vars
<1>6. CASE LibraryEnd
  BY <1>6 DEF LibraryEnd, MarkEnded, CanEnd, HandlerInv, CopyInv, NoBytes
<1>7. CASE SettleReject
  BY <1>7 DEF SettleReject, CanReject, HandlerInv, NoBytes
<1>8. CASE SettleEnd
  BY <1>8 DEF SettleEnd, MarkEnded, CanEnd, HandlerInv, NoBytes
<1> QED
  BY <1>1, <1>3, <1>4, <1>5, <1>6, <1>7, <1>8 DEF Next

\* Nothing follows the end of a stream whose copies are awaited.
LEMMA EndSeen ==
  ASSUME PendingInv, NEW k \in DOMAIN delivered, delivered[k].event = "stream_ended"
  PROVE  OutcomeSeen(k)
BY Observations DEF PendingInv, OutcomeSeen

LEMMA LastStep ==
  ASSUME TypeOK, PendingInv, CopyInv, OutcomeInv, EndedIsLast, [Next]_vars
  PROVE  EndedIsLast'
<1> USE HandlerAssumption DEF Goroutine
<1>1. ASSUME joins, UNCHANGED <<joins, delivered>>, ~ended \/ UNCHANGED pending
      PROVE  EndedIsLast'
  <2>1. CASE UNCHANGED pending
    BY <1>1, <2>1 DEF EndedIsLast
  <2>2. CASE ~ended
    <3>1. \A k \in DOMAIN delivered : delivered[k].event # "stream_ended"
      BY <2>2, EndSeen DEF OutcomeInv
    <3> QED
      BY <1>1, <3>1 DEF EndedIsLast
  <2> QED
    BY <1>1, <2>1, <2>2
<1>2. CASE ~joins
  <2>1. joins' = joins
    BY DEF Next, AddBytes, CopyReturns, Deliver, OpenFails, Opens, LibraryEnd,
           SettleReject, SettleEnd, vars
  <2> QED
    BY <1>2, <2>1 DEF EndedIsLast
<1>3. ASSUME joins, NEW d \in Direction, NEW n \in 1 .. MaxBytes, AddBytes(d, n)
      PROVE  EndedIsLast'
  BY <1>1, <1>3 DEF AddBytes, CopyInv, TypeOK
<1>4. ASSUME joins, NEW g \in Goroutine, Deliver(g) PROVE EndedIsLast'
  <2>1. pending[g] # <<>> /\ joins' = joins
    BY <1>4 DEF Deliver
  <2>2. \A k \in DOMAIN delivered : delivered[k].event # "stream_ended"
    BY <1>4, <2>1 DEF EndedIsLast
  <2>3. ASSUME NEW o \in Outcomes, g = Handler, Delivers(g, o, <<>>) PROVE EndedIsLast'
    <3>1. o \in Observation
      BY Observations
    <3>2. copying = {}
      BY <1>4, <2>1, <2>3 DEF CopyInv, TypeOK
    <3>3. \A h \in Goroutine : pending'[h] = <<>>
      BY <2>3, <3>1, <3>2, DeliveryFacts DEF CopyInv
    <3>4. \A k \in DOMAIN delivered' : k \in DOMAIN delivered \/ k = Len(delivered')
      BY <2>3, <3>1, DeliveryFacts
    <3>5. \A k \in DOMAIN delivered : delivered'[k] = delivered[k]
      BY <2>3, <3>1, DeliveryFacts
    <3> QED
      BY <2>2, <3>3, <3>4, <3>5 DEF EndedIsLast
  <2>4. ASSUME NEW o \in Observation, o.event # "stream_ended", NEW rest,
               Delivers(g, o, rest)
        PROVE  EndedIsLast'
    <3>1. \A k \in DOMAIN delivered' : delivered'[k].event # "stream_ended"
      BY <2>2, <2>4, DeliveryFacts
    <3> QED
      BY <3>1 DEF EndedIsLast
  <2>5. ASSUME NEW n \in 1 .. MaxBytes, g \in Direction
        PROVE  /\ Usage(g, n) \in Observation /\ Usage(g, n).event # "stream_ended"
               /\ Started \in Observation /\ Started.event # "stream_ended"
    BY <2>5, BoundAssumption, Observations
  <2> QED
    BY <1>4, <2>3, <2>4, <2>5, Deliveries
<1>5. CASE LibraryEnd \/ SettleReject \/ SettleEnd
  <2>1. Settles
    BY <1>5, Settlements
  <2> QED
    BY <1>1, <1>2, <2>1 DEF Settles
<1>6. CASE OpenFails \/ Opens \/ (\E d \in Direction : CopyReturns(d)) \/ UNCHANGED vars
  BY <1>1, <1>2, <1>6, Idlings DEF Idles
<1> QED
  BY <1>2, <1>3, <1>4, <1>5, <1>6 DEF Next, TypeOK

\* The bytes that are marked are those the copies reported.
Marked(d) == BytesIn(delivered, d) + BytesIn(pending[d], d)
Conserved(d) ==
  /\ Marked(d) <= moved[d]
  /\ observer /\ (joins \/ ~ended) => Marked(d) = moved[d]
  /\ \A g \in Goroutine \ {d} : BytesIn(pending[g], d) = 0

LEMMA Conservation ==
  /\ BytesConserved <=> \A d \in Direction : Conserved(d)
  /\ BytesConserved' <=> \A d \in Direction : Conserved(d)'
BY DEF BytesConserved, Conserved, Marked

LEMMA BytesAreNat ==
  ASSUME NEW seq \in Seq(Observation), NEW d \in Direction
  PROVE  BytesIn(seq, d) \in Nat
BY BytesAppended, Observations

LEMMA BytesStep ==
  ASSUME TypeOK, PendingInv, CopyInv, BytesConserved, [Next]_vars
  PROVE  BytesConserved'
<1> USE HandlerAssumption DEF Goroutine
<1>a. \A e \in Direction : Conserved(e)
  BY Conservation
<1>1. ASSUME NEW d \in Direction, NEW n \in 1 .. MaxBytes, AddBytes(d, n),
             NEW e \in Direction
      PROVE  Conserved(e)'
  <2>1. /\ pending[d] = <<>> /\ pending'[d] = UsageMarks(d, n)
        /\ \A g \in Goroutine \ {d} : pending'[g] = pending[g]
        /\ UNCHANGED <<delivered, observer, joins, ended>>
        /\ moved'[d] = moved[d] + n /\ \A g \in Direction \ {d} : moved'[g] = moved[g]
    BY <1>1 DEF AddBytes, TypeOK
  <2>2. /\ n \in Nat /\ moved[e] \in Nat /\ BytesIn(delivered, e) \in Nat
        /\ BytesIn(<<>>, e) = 0
    BY BoundAssumption, BytesAreNat, BytesOfNone DEF TypeOK
  <2>3. observer /\ joins => ~ended
    BY <1>1 DEF AddBytes, CopyInv, TypeOK
  <2>4. \/ (~observer \/ ended) /\ BytesIn(pending'[d], e) = 0
        \/ BytesIn(pending'[d], e) = IF e = d THEN n ELSE 0
    <3>1. CASE (~observer \/ ended) /\ UsageMarks(d, n) = <<>>
      BY <2>1, <2>2, <3>1
    <3>2. CASE UsageMarks(d, n) \in {<<Usage(d, n)>>, <<Started, Usage(d, n)>>}
      <4>1. /\ Started \in Observation /\ Usage(d, n) \in Observation
            /\ Started.bytes[e] = 0 /\ Usage(d, n).bytes[d] = n
            /\ e # d => Usage(d, n).bytes[e] = 0
        BY <2>2, Observations
      <4>2. /\ BytesIn(<<Usage(d, n)>>, e) = Usage(d, n).bytes[e]
            /\ BytesIn(<<Started, Usage(d, n)>>, e) = 0 + Usage(d, n).bytes[e]
        BY <4>1, BytesMarked
      <4>3. BytesIn(<<Usage(d, n)>>, e) = IF e = d THEN n ELSE 0
        BY <4>1, <4>2
      <4>4. BytesIn(<<Started, Usage(d, n)>>, e) = IF e = d THEN n ELSE 0
        BY <2>2, <4>1, <4>2
      <4> QED
        BY <2>1, <3>2, <4>3, <4>4
    <3> QED
      BY <3>1, <3>2, UsageMarked DEF TypeOK
  <2>5. CASE e = d
    <3>1. Marked(e) = BytesIn(delivered, e) /\ Marked(e) <= moved[e]
          /\ (observer /\ (joins \/ ~ended) => Marked(e) = moved[e])
      BY <1>a, <2>1, <2>2, <2>5 DEF Conserved, Marked
    <3>2. Marked(e)' = BytesIn(delivered, e) + BytesIn(pending'[d], e)
      BY <2>1, <2>5 DEF Marked
    <3>3. Marked(e)' <= moved'[e]
          /\ (observer' /\ (joins' \/ ~ended') => Marked(e)' = moved'[e])
      BY <2>1, <2>2, <2>3, <2>4, <2>5, <3>1, <3>2
    <3>4. \A g \in Goroutine \ {e} : BytesIn(pending'[g], e) = 0
      BY <1>a, <2>1, <2>5 DEF Conserved
    <3> QED
      BY <3>3, <3>4 DEF Conserved
  <2>6. CASE e # d
    <3>1. BytesIn(pending'[d], e) = 0
      BY <2>4, <2>6
    <3>2. \A g \in Goroutine \ {e} : BytesIn(pending'[g], e) = 0
      BY <1>a, <2>1, <3>1 DEF Conserved
    <3>3. Marked(e)' = Marked(e) /\ moved'[e] = moved[e]
      BY <2>1, <2>6 DEF Marked
    <3> QED
      BY <1>a, <2>1, <3>2, <3>3 DEF Conserved
  <2> QED
    BY <2>5, <2>6
<1>2. ASSUME NEW g \in Goroutine, NEW o \in Observation, NEW rest, Delivers(g, o, rest),
             NEW e \in Direction, BytesIn(rest, e) \in Nat,
             BytesIn(pending[g], e) = o.bytes[e] + BytesIn(rest, e)
      PROVE  Conserved(e)'
  <2>1. /\ pending'[g] = rest /\ \A h \in Goroutine \ {g} : pending'[h] = pending[h]
        /\ delivered' = Append(delivered, o)
        /\ UNCHANGED <<observer, joins, ended, moved>>
    BY <1>2, DeliveryFacts DEF Delivers
  <2>2. BytesIn(delivered', e) = BytesIn(delivered, e) + o.bytes[e]
        /\ BytesIn(delivered, e) \in Nat /\ o.bytes[e] \in Nat
    BY <2>1, BytesAppended DEF TypeOK, Observation
  <2>3. BytesIn(pending[e], e) \in Nat
    BY BytesAreNat DEF TypeOK
  <2>4. Marked(e)' = Marked(e)
    <3>1. CASE g = e
      BY <1>2, <2>1, <2>2, <2>3, <3>1 DEF Marked
    <3>2. CASE g # e
      <4>1. BytesIn(pending[g], e) = 0
        BY <1>a, <3>2 DEF Conserved
      <4>2. o.bytes[e] = 0
        BY <1>2, <2>2, <4>1
      <4> QED
        BY <2>1, <2>2, <3>2, <4>2 DEF Marked
    <3> QED
      BY <3>1, <3>2
  <2>5. ASSUME NEW h \in Goroutine \ {e} PROVE BytesIn(pending'[h], e) = 0
    <3>1. BytesIn(pending[h], e) = 0
      BY <1>a DEF Conserved
    <3>2. CASE h = g
      BY <1>2, <2>1, <2>2, <3>1, <3>2
    <3>3. CASE h # g
      BY <2>1, <3>1, <3>3
    <3> QED
      BY <3>2, <3>3
  <2> QED
    BY <1>a, <2>1, <2>4, <2>5 DEF Conserved
<1>3. ASSUME NEW g \in Goroutine, Deliver(g), NEW e \in Direction
      PROVE  Conserved(e)'
  <2>1. ASSUME NEW o \in Outcomes, pending[g] = <<o>>, Delivers(g, o, <<>>)
        PROVE  Conserved(e)'
    <3>1. o \in Observation
      BY Observations
    <3>2. BytesIn(<<>>, e) = 0 /\ BytesIn(<<o>>, e) = o.bytes[e] /\ o.bytes[e] \in Nat
      BY <3>1, BytesMarked DEF Observation
    <3> QED
      BY <1>2, <2>1, <3>1, <3>2
  <2>2. ASSUME g \in Direction, NEW n \in 1 .. MaxBytes,
               \/ pending[g] = <<Usage(g, n)>> /\ Delivers(g, Usage(g, n), <<>>)
               \/ /\ pending[g] = <<Started, Usage(g, n)>>
                  /\ Delivers(g, Started, <<Usage(g, n)>>)
        PROVE  Conserved(e)'
    <3>1. Usage(g, n) \in Observation /\ Started \in Observation
      BY <2>2, BoundAssumption, Observations
    <3>2. /\ BytesIn(<<>>, e) = 0 /\ BytesIn(<<Usage(g, n)>>, e) = Usage(g, n).bytes[e]
          /\ BytesIn(<<Started, Usage(g, n)>>, e) = Started.bytes[e] + Usage(g, n).bytes[e]
          /\ Usage(g, n).bytes[e] \in Nat
      BY <3>1, BytesMarked DEF Observation
    <3>3. CASE pending[g] = <<Usage(g, n)>> /\ Delivers(g, Usage(g, n), <<>>)
      BY <1>2, <3>1, <3>2, <3>3
    <3>4. CASE pending[g] = <<Started, Usage(g, n)>> /\ Delivers(g, Started, <<Usage(g, n)>>)
      BY <1>2, <3>1, <3>2, <3>4
    <3> QED
      BY <2>2, <3>3, <3>4
  <2> QED
    BY <1>3, <2>1, <2>2, Deliveries
<1>4. ASSUME LibraryEnd \/ SettleReject \/ SettleEnd, NEW e \in Direction
      PROVE  Conserved(e)'
  <2>1. Settles /\ Outcome \in Outcomes
    BY <1>4, Settlements
  <2>2. /\ \A g \in Goroutine \ {Handler} : pending'[g] = pending[g]
        /\ UNCHANGED <<observer, joins, moved, delivered>> /\ (ended => ended')
    BY <2>1 DEF Settles, TypeOK
  <2>3. BytesIn(pending'[Handler], e) = 0
    <3>1. BytesIn(<<Outcome>>, e) = Outcome.bytes[e] /\ Outcome.bytes[e] = 0
      BY <2>1, Observations, BytesMarked
    <3>2. BytesIn(pending[Handler], e) = 0
      BY <1>a DEF Conserved
    <3>3. pending'[Handler] \in {pending[Handler], <<Outcome>>}
      BY <2>1 DEF Settles, TypeOK
    <3> QED
      BY <3>1, <3>2, <3>3
  <2>4. Marked(e)' = Marked(e)
    BY <2>2 DEF Marked
  <2>5. \A g \in Goroutine \ {e} : BytesIn(pending'[g], e) = 0
    BY <1>a, <2>2, <2>3 DEF Conserved
  <2> QED
    BY <1>a, <2>2, <2>4, <2>5 DEF Conserved
<1>5. ASSUME OpenFails \/ Opens \/ (\E d \in Direction : CopyReturns(d)) \/ UNCHANGED vars,
             NEW e \in Direction
      PROVE  Conserved(e)'
  BY <1>a, <1>5, Idlings DEF Idles, Conserved, Marked
<1>6. \A e \in Direction : Conserved(e)'
  BY <1>1, <1>3, <1>4, <1>5 DEF Next
<1> QED
  BY <1>6, Conservation

-----------------------------------------------------------------------------
(* The invariant holds, and what it says of the observer                   *)

LEMMA InitIInv == Init => IInv
<1> SUFFICES ASSUME Init PROVE IInv
  OBVIOUS
<1> USE HandlerAssumption, BoundAssumption DEF Init
<1>1. /\ delivered = <<>> /\ DOMAIN delivered = {}
      /\ pending = [g \in Goroutine |-> <<>>] /\ \A g \in Goroutine : pending[g] = <<>>
      /\ Handler \in Goroutine /\ \A d \in Direction : d \in Goroutine
  BY DEF Goroutine
<1>2. moved = NoBytes /\ NoBytes \in [Direction -> 0 .. MaxBytes]
  BY DEF NoBytes
<1>3. TypeOK
  <2>1. <<>> \in Seq(Observation)
    OBVIOUS
  <2>2. pending \in [Goroutine -> Seq(Observation)] /\ delivered \in Seq(Observation)
    BY <1>1, <2>1
  <2> QED
    BY <1>2, <2>2 DEF TypeOK
<1>4. PendingInv /\ CopyInv /\ EndedIsLast
  BY <1>1 DEF PendingInv, CopyInv, EndedIsLast
<1>5. StartInv /\ OutcomeInv
  BY <1>1 DEF StartInv, OutcomeInv, StartPending, StartSeen, OutcomeSeen
<1>6. HandlerInv
  BY <1>2 DEF HandlerInv
<1>7. ASSUME NEW d \in Direction PROVE Conserved(d)
  BY <1>1, <1>2, BytesOfNone DEF Conserved, Marked, NoBytes
<1> QED
  BY <1>3, <1>4, <1>5, <1>6, <1>7, Conservation DEF IInv

LEMMA StepIInv == IInv /\ [Next]_vars => IInv'
BY TypeStep, PendingStep, CopyStep, StartStep, OutcomeStep, HandlerStep, LastStep,
   BytesStep DEF IInv

LEMMA Invariance == Spec => []IInv
BY InitIInv, StepIInv, PTL DEF Spec

\* The variables of a stream keep to their types.
THEOREM TypeCorrectness == Spec => []TypeOK
<1>1. IInv => TypeOK
  BY DEF IInv
<1> QED
  BY <1>1, Invariance, PTL

\* No byte that a copy reports to AddBytes is counted twice, in the wrong
\* direction, or lost unless the stream has ended already.
THEOREM BytesAreConserved == Spec => []BytesConserved
<1>1. IInv => BytesConserved
  BY DEF IInv
<1> QED
  BY <1>1, Invariance, PTL

\* The observer sees nothing after stream_ended if the library joins its copies.
THEOREM EndComesLast == Spec => []EndedIsLast
<1>1. IInv => EndedIsLast
  BY DEF IInv
<1> QED
  BY <1>1, Invariance, PTL

LEMMA MarksAre ==
  ASSUME NEW events, NEW x
  PROVE  x \in Marks(events) <=>
           \/ \E k \in DOMAIN delivered :
                x = <<"delivered", k>> /\ delivered[k].event \in events
           \/ \E g \in Goroutine : \E k \in DOMAIN pending[g] :
                x = <<g, k>> /\ pending[g][k].event \in events
<1> DEFINE In(seq) == {k \in DOMAIN seq : seq[k].event \in events}
<1>1. Marks(events) = ({"delivered"} \X In(delivered))
                      \cup UNION {{g} \X In(pending[g]) : g \in Goroutine}
  BY DEF Marks
<1>2. x \in {"delivered"} \X In(delivered) <=>
        \E k \in DOMAIN delivered : x = <<"delivered", k>> /\ delivered[k].event \in events
  OBVIOUS
<1>3. x \in UNION {{g} \X In(pending[g]) : g \in Goroutine} <=>
        \E g \in Goroutine : x \in {g} \X In(pending[g])
  OBVIOUS
<1>4. ASSUME NEW g \in Goroutine
      PROVE  x \in {g} \X In(pending[g]) <=>
               \E k \in DOMAIN pending[g] : x = <<g, k>> /\ pending[g][k].event \in events
  OBVIOUS
<1> HIDE DEF In
<1> QED
  BY <1>1, <1>2, <1>3, <1>4

\* A mark that is no delta is the start or the outcome, where the invariant
\* says.
LEMMA MarkIs ==
  ASSUME TypeOK, PendingInv, OutcomeInv, NEW events, "stream_usage_delta" \notin events,
         NEW x \in Marks(events)
  PROVE  \/ \E k \in DOMAIN delivered :
              x = <<"delivered", k>> /\ StartSeen(k) /\ "stream_started" \in events
         \/ \E k \in DOMAIN delivered :
              x = <<"delivered", k>> /\ OutcomeSeen(k) /\ Outcome.event \in events
         \/ \E d \in Direction :
              x = <<d, 1>> /\ StartPending(d) /\ "stream_started" \in events
         \/ x = <<Handler, 1>> /\ pending[Handler] # <<>> /\ Outcome.event \in events
<1>1. ASSUME NEW k \in DOMAIN delivered, x = <<"delivered", k>>,
             delivered[k].event \in events
      PROVE  \/ StartSeen(k) /\ "stream_started" \in events
             \/ OutcomeSeen(k) /\ Outcome.event \in events
  <2>1. CASE delivered[k] \in Outcomes
    BY <1>1, <2>1 DEF OutcomeInv, OutcomeSeen
  <2>2. CASE delivered[k] = Started
    BY <1>1, <2>2, Observations DEF StartSeen
  <2> QED
    BY <1>1, <2>1, <2>2 DEF PendingInv
<1>2. ASSUME NEW d \in Direction, NEW k \in DOMAIN pending[d], x = <<d, k>>,
             pending[d][k].event \in events
      PROVE  k = 1 /\ StartPending(d) /\ "stream_started" \in events
  <2>1. pending[d] # <<>>
    BY <1>2
  <2>2. PICK n \in 1 .. MaxBytes :
          pending[d] \in {<<Usage(d, n)>>, <<Started, Usage(d, n)>>}
    BY <2>1 DEF PendingInv
  <2>3. Usage(d, n).event \notin events
    BY BoundAssumption, Observations
  <2>4. CASE pending[d] = <<Usage(d, n)>>
    <3>1. k = 1 /\ pending[d][k] = Usage(d, n)
      BY <1>2, <2>4
    <3> QED
      BY <1>2, <2>3, <3>1
  <2>5. CASE pending[d] = <<Started, Usage(d, n)>>
    <3>1. /\ k = 1 \/ k = 2
          /\ pending[d][1] = Started /\ pending[d][2] = Usage(d, n)
      BY <1>2, <2>5
    <3>2. k = 1
      BY <1>2, <2>3, <3>1
    <3> QED
      BY <1>2, <2>1, <3>1, <3>2, Observations DEF StartPending
  <2> QED
    BY <2>2, <2>4, <2>5
<1>3. ASSUME NEW k \in DOMAIN pending[Handler], x = <<Handler, k>>,
             pending[Handler][k].event \in events
      PROVE  k = 1 /\ pending[Handler] # <<>> /\ Outcome.event \in events
  <2>1. pending[Handler] # <<>> /\ pending[Handler] = <<Outcome>>
    BY <1>3 DEF OutcomeInv
  <2>2. k = 1 /\ pending[Handler][k] = Outcome
    BY <1>3, <2>1
  <2> QED
    BY <1>3, <2>1, <2>2
<1> QED
  BY <1>1, <1>2, <1>3, MarksAre DEF Goroutine

LEMMA OutcomesDiffer ==
  Outcome.event = IF started THEN "stream_ended" ELSE "stream_rejected"
BY DEF Outcome, Lifecycle

\* Whatever overlaps, a stream starts at most once and has one outcome.
THEOREM StreamHasOneOutcome == Spec => []OneOutcome
<1>1. IInv => OneOutcome
  <2> SUFFICES ASSUME IInv PROVE OneOutcome
    OBVIOUS
  <2> USE DEF IInv
  <2>1. ASSUME NEW x \in Marks({"stream_ended", "stream_rejected"}),
               NEW y \in Marks({"stream_ended", "stream_rejected"})
        PROVE  x = y
    <3> DEFINE Is(z) == \/ \E k \in DOMAIN delivered : z = <<"delivered", k>> /\ OutcomeSeen(k)
                        \/ z = <<Handler, 1>> /\ pending[Handler] # <<>>
    <3>1. ASSUME NEW z \in Marks({"stream_ended", "stream_rejected"}) PROVE Is(z)
      <4>1. /\ "stream_usage_delta" \notin {"stream_ended", "stream_rejected"}
            /\ "stream_started" \notin {"stream_ended", "stream_rejected"}
        OBVIOUS
      <4> QED
        BY <4>1, MarkIs
    <3>2. Is(x) /\ Is(y)
      BY <3>1
    <3> QED
      BY <3>2 DEF OutcomeInv
  <2>2. ASSUME NEW x \in Marks({"stream_started", "stream_rejected"}),
               NEW y \in Marks({"stream_started", "stream_rejected"})
        PROVE  x = y
    <3> DEFINE Ends(z) == \/ \E k \in DOMAIN delivered : z = <<"delivered", k>> /\ OutcomeSeen(k)
                          \/ z = <<Handler, 1>> /\ pending[Handler] # <<>>
               Starts(z) == \/ \E k \in DOMAIN delivered : z = <<"delivered", k>> /\ StartSeen(k)
                            \/ \E d \in Direction : z = <<d, 1>> /\ StartPending(d)
    <3>1. ASSUME NEW z \in Marks({"stream_started", "stream_rejected"})
          PROVE  IF started THEN Starts(z) ELSE Ends(z)
      <4>1. "stream_usage_delta" \notin {"stream_started", "stream_rejected"}
        OBVIOUS
      <4>2. CASE started
        <5>1. Outcome.event \notin {"stream_started", "stream_rejected"}
          BY <4>2, OutcomesDiffer
        <5> QED
          BY <4>1, <4>2, <5>1, MarkIs
      <4>3. CASE ~started
        <5>1. /\ \A k \in DOMAIN delivered : ~ StartSeen(k)
              /\ \A d \in Direction : ~ StartPending(d)
          BY <4>3 DEF StartInv
        <5> QED
          BY <4>1, <4>3, <5>1, MarkIs
      <4> QED
        BY <4>2, <4>3
    <3>2. CASE started
      <4>1. Starts(x) /\ Starts(y)
        BY <3>1, <3>2
      <4> QED
        BY <4>1 DEF StartInv
    <3>3. CASE ~started
      <4>1. Ends(x) /\ Ends(y)
        BY <3>1, <3>3
      <4> QED
        BY <4>1 DEF OutcomeInv
    <3> QED
      BY <3>2, <3>3
  <2>3. ASSUME NEW x \in Marks({"stream_usage_delta", "stream_ended"})
        PROVE  Marks({"stream_started"}) # {}
    <3>1. ASSUME NEW k \in DOMAIN delivered,
                 delivered[k].event \in {"stream_usage_delta", "stream_ended"}
          PROVE  started
      <4>1. CASE delivered[k] \in Outcomes
        <5>1. delivered[k] = Outcome /\ Outcome.event # "stream_usage_delta"
          BY <4>1, OutcomesDiffer DEF OutcomeInv, OutcomeSeen
        <5> QED
          BY <3>1, <5>1, OutcomesDiffer
      <4>2. CASE delivered[k] \notin Outcomes
        BY <4>2 DEF StartInv
      <4> QED
        BY <4>1, <4>2
    <3>2. ASSUME NEW g \in Goroutine, NEW k \in DOMAIN pending[g],
                 pending[g][k].event \in {"stream_usage_delta", "stream_ended"}
          PROVE  started
      <4>1. pending[g] # <<>>
        BY <3>2
      <4>2. CASE g \in Direction
        BY <4>1, <4>2 DEF StartInv, TypeOK
      <4>3. CASE g = Handler
        <5>1. pending[Handler] = <<Outcome>>
          BY <4>1, <4>3 DEF OutcomeInv
        <5>2. pending[g][k] = Outcome
          BY <3>2, <4>3, <5>1
        <5> QED
          BY <3>2, <5>2, OutcomesDiffer
      <4> QED
        BY <4>2, <4>3 DEF Goroutine
    <3>3. started
      BY <3>1, <3>2, MarksAre
    <3>4. CASE \E k \in DOMAIN delivered : StartSeen(k)
      <4>1. PICK k \in DOMAIN delivered : delivered[k] = Started
        BY <3>4 DEF StartSeen
      <4>2. <<"delivered", k>> \in Marks({"stream_started"})
        BY <4>1, MarksAre, Observations
      <4> QED
        BY <4>2
    <3>5. CASE \E d \in Direction : StartPending(d)
      <4>1. PICK d \in Direction : pending[d] # <<>> /\ pending[d][1] = Started
        BY <3>5 DEF StartPending
      <4>2. 1 \in DOMAIN pending[d] /\ d \in Goroutine
        BY <4>1 DEF TypeOK, Goroutine
      <4>3. <<d, 1>> \in Marks({"stream_started"})
        BY <4>1, <4>2, MarksAre, Observations
      <4> QED
        BY <4>3
    <3> QED
      BY <3>3, <3>4, <3>5 DEF StartInv
  <2> HIDE DEF IInv
  <2> QED
    BY <2>1, <2>2, <2>3 DEF OneOutcome, AtMostOne
<1> QED
  BY <1>1, Invariance, PTL

\* When the handler is done, the observer knows how the stream went.
THEOREM NothingIsOwed == Spec => []NothingOwed
<1>1. IInv => NothingOwed
  <2> SUFFICES ASSUME IInv, joins, observer, handler = "done", pending[Handler] = <<>>
               PROVE  /\ moved # NoBytes => Last(delivered).event = "stream_ended"
                      /\ ~failed /\ moved = NoBytes => delivered = <<>>
                      /\ failed /\ moved = NoBytes =>
                           delivered = <<Lifecycle("stream_rejected")>>
    BY DEF NothingOwed
  <2> USE DEF IInv
  <2>1. started <=> moved # NoBytes
    BY DEF HandlerInv
  <2>2. ended <=> \E k \in DOMAIN delivered : OutcomeSeen(k)
    BY DEF OutcomeInv
  <2>3. ended <=> \E k \in DOMAIN delivered : delivered[k] = Outcome
    <3>1. started \in BOOLEAN
      BY DEF TypeOK
    <3>2. Outcome \in Outcomes
      BY <3>1 DEF Outcome, Outcomes
    <3> QED
      BY <2>2, <3>2 DEF OutcomeInv, OutcomeSeen
  <2>4. Len(delivered) \in Nat /\ DOMAIN delivered = 1 .. Len(delivered)
    BY DEF TypeOK
  <2>5. ASSUME started PROVE Last(delivered).event = "stream_ended"
    <3>1. PICK k \in DOMAIN delivered : delivered[k].event = "stream_ended"
      BY <2>3, <2>5, OutcomesDiffer DEF HandlerInv
    <3>2. k = Len(delivered)
      BY <3>1 DEF EndedIsLast
    <3> QED
      BY <3>1, <3>2 DEF Last
  <2>6. ASSUME ~started, ~failed PROVE delivered = <<>>
    <3>1. ~ended
      BY <2>6 DEF HandlerInv
    <3>2. \A k \in DOMAIN delivered : FALSE
      BY <2>2, <2>6, <3>1 DEF StartInv, OutcomeSeen
    <3>3. Len(delivered) = 0
      BY <2>4, <3>2
    <3>4. delivered \in Seq(Observation)
      BY DEF TypeOK
    <3> HIDE DEF IInv
    <3> QED
      BY <3>3, <3>4
  <2>7. ASSUME ~started, failed PROVE delivered = <<Lifecycle("stream_rejected")>>
    <3>1. ended /\ Outcome = Lifecycle("stream_rejected")
      BY <2>7 DEF HandlerInv, Outcome
    <3>2. PICK k \in DOMAIN delivered : delivered[k] = Outcome
      BY <2>3, <3>1
    <3>3. \A j, l \in DOMAIN delivered : j = l
      BY <2>7 DEF StartInv, OutcomeInv, OutcomeSeen
    <3>4. 1 \in DOMAIN delivered /\ Len(delivered) \in DOMAIN delivered
      BY <2>4, <3>2
    <3>5. Len(delivered) = 1 /\ delivered[1] = Outcome
      BY <3>2, <3>3, <3>4
    <3>6. delivered = <<Outcome>>
      BY <3>5 DEF TypeOK
    <3> QED
      BY <3>1, <3>6
  <2> QED
    BY <2>1, <2>5, <2>6, <2>7 DEF TypeOK
<1> QED
  BY <1>1, Invariance, PTL
=============================================================================
