-------------------------------- MODULE Text --------------------------------
(***************************************************************************)
(* The text functions of Go's library that configurations go through.  A   *)
(* text is a sequence of characters, of which the code tells apart         *)
(* brackets, colons, blanks, dots, wildcards, capitals and "://"; a port   *)
(* is one of them.                                                         *)
(***************************************************************************)
EXTENDS Integers, SequencesExt

CONSTANT None

Texts == Seq(STRING)

Blank == " "

\* Literals are strings: those the code puts into texts, and a directive's name.
ASSUME LiteralAssumption ==
  {"a", "b", "h", "[", "]", ":", "8443", Blank, "client", "t"} \subseteq STRING

Has(a, ch) == ch \in Range(a)

TrimSpace(a) ==
  LET solid == {n \in DOMAIN a : a[n] # Blank} IN
  IF solid = {} THEN <<>> ELSE SubSeq(a, Min(solid), Max(solid))

ToLower(a) ==
  LET lower == [A |-> "a", B |-> "b", H |-> "h"] IN
  [n \in DOMAIN a |-> IF a[n] \in DOMAIN lower THEN lower[a[n]] ELSE a[n]]

\* strings.Count is 1.
HasOne(a, ch) ==
  \E n \in DOMAIN a : a[n] = ch /\ \A m \in DOMAIN a : a[m] = ch => m = n

Bracket(h) == IF Has(h, ":") THEN <<"[">> \o h \o <<"]">> ELSE h

JoinHostPort(h, p) == Bracket(h) \o <<":">> \o p

\* What a user means by a host, a name or an IPv6 address, which has two colons
\* at least; and by a port, or no port.
IsHost(h) ==
  /\ h # <<>> /\ ~HasOne(h, ":")
  /\ \A n \in DOMAIN h : h[n] \notin {"[", "]", "://", Blank}

IsPort(p) == \A n \in DOMAIN p : p[n] \notin {"[", "]", ":", "://", Blank}

\* net.SplitHostPort: the host and port, or no pair when it returns an error.
SplitHostPort(a) ==
  LET Plain(s) == \A ch \in {"[", "]", ":"} : ~Has(s, ch)
      Bracketed(s) == /\ Len(s) > 1 /\ s[1] = "[" /\ Last(s) = "]"
                      /\ ~Has(Tail(Front(s)), "[") /\ ~Has(Tail(Front(s)), "]")
      Before(n) == SubSeq(a, 1, n - 1)
      After(n) == SubSeq(a, n + 1, Len(a))
      colons == {n \in DOMAIN a : a[n] = ":" /\ Plain(After(n))}
  IN  {<<Before(n), After(n)>> : n \in {m \in colons : Plain(Before(m))}}
        \cup {<<Tail(Front(Before(n))), After(n)>> :
                n \in {m \in colons : Bracketed(Before(m))}}
=============================================================================
