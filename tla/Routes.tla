------------------------------- MODULE Routes -------------------------------
(***************************************************************************)
(* The table of SNI routes (internal/config/routes.go): the endpoint of a  *)
(* name, whatever its case, the blanks around it and its final dot.        *)
(***************************************************************************)
EXTENDS Text

\* A faulty variant of NormalizeServerName, which no specification uses: names
\* are kept in the case they are written in.
NormalizeServerNameCased(s) ==
  LET t == TrimSpace(s) IN IF t # <<>> /\ Last(t) = "." THEN Front(t) ELSE t

NormalizeServerName(s) ==
  LET t == TrimSpace(s) IN
  ToLower(IF t # <<>> /\ Last(t) = "." THEN Front(t) ELSE t)

\* The endpoint of each name, or None if a route is refused.
NewRouteTable(routes) ==
  LET name(n) == NormalizeServerName(routes[n].server_name)
      endpoint(n) == TrimSpace(routes[n].endpoint)
      valid == \A n \in DOMAIN routes :
                 /\ name(n) # <<>> /\ endpoint(n) # <<>>
                 /\ Range(name(n)) \cap {"*", "{", "}"} = {}
                 /\ \A m \in 1 .. n - 1 : name(m) # name(n)
  IN  IF ~valid THEN None
      ELSE [k \in {name(n) : n \in DOMAIN routes} |->
              endpoint(CHOOSE n \in DOMAIN routes : name(n) = k)]

\* RouteTable.Resolve: the endpoint of a name, if it has a route.
Resolve(table, s) ==
  {table[k] : k \in DOMAIN table \cap {NormalizeServerName(s)}}
=============================================================================
