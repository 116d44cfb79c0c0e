--------------------------- MODULE MCRouteMatcher ---------------------------
(* Instances of RouteMatcher for TLC. *)
EXTENDS RouteMatcher

CONSTANT MaxRoutes   \* bound on the routes of one application

Static(x) == [kind |-> "static", text |-> <<x>>, name |-> ""]
Param(name) == [kind |-> "param", text |-> <<>>, name |-> name]
Prefixed(x, name) == [kind |-> "param", text |-> x, name |-> name]
Optional(name) == [kind |-> "optional", text |-> <<>>, name |-> name]
Splat == [kind |-> "wildcard", text |-> <<>>, name |-> "_splat"]

Route(up, segs) ==
  [up |-> up, segs |-> segs, index |-> FALSE, layout |-> FALSE, guard |-> NoGuard]
Index(up, segs) == [Route(up, segs) EXCEPT !.index = TRUE]
Guarded(route, name, texts) ==
  [route EXCEPT !.guard = [name |-> name, accepts |-> texts]]
\* A layout: its id ends with a segment that starts with "_".
Layout(route) == [route EXCEPT !.layout = TRUE]

Site == <<
  Index(0, <<>>),                                                   \* 1  /
  Route(0, <<Static("a")>>),                                        \* 2  /a
    Index(2, <<>>),                                                 \* 3  /a/
    Guarded(Route(2, <<Param("id")>>), "id", {<<"1">>}),            \* 4  /a/$id
      Route(4, <<Static("b")>>),                                    \* 5  /a/$id/b
    Route(2, <<Param("name")>>),                                    \* 6  /a/$name
    Route(2, <<Static("b")>>),                                      \* 7  /a/b
    Route(2, <<Prefixed(<<"x">>, "p")>>),                           \* 8  /a/x{$p}
    Route(2, <<Prefixed(<<"x", "y">>, "q")>>),                      \* 9  /a/xy{$q}
    Index(2, <<Optional("o")>>),                                    \* 10 /a/{-$o}/
    Route(2, <<Splat>>),                                            \* 11 /a/$
  Route(0, <<Param("x"), Static("b")>>),                            \* 12 /$x/b
  Route(0, <<Optional("l"), Static("b")>>),                         \* 13 /{-$l}/b
  Route(0, <<Optional("m"), Optional("n")>>),                       \* 14 /{-$m}/{-$n}
  Guarded(Route(0, <<Splat>>), "_splat", {<<"a", "b">>}),           \* 15 /$
  Guarded(Layout(Route(0, <<Param("y")>>)), "y", {<<"a">>}),      \* 16 /$y/_layout
    Route(16, <<Optional("k"), Param("z")>>)                        \* 17 /$y/{-$k}/$z
>>

\* A guarded route with a layout below it that has no guard of its own.
Layered == <<
  Guarded(Route(0, <<Param("id")>>), "id", {<<"1">>}),              \* 1 /$id
    Layout(Route(1, <<>>)),                                       \* 2 /$id/_layout
      Route(2, <<Static("b")>>),                                    \* 3 /$id/b
  Route(0, <<Param("name"), Static("b")>>)                          \* 4 /$name/b
>>

\* Applications that declare some routes of a catalogue, with their parents:
\* in its order, and with the children of each route reversed.
Declared(site) ==
  LET chain[i \in 0..Len(site)] ==
        IF i = 0 THEN <<>> ELSE Append(chain[site[i].up], i)
      Closed == {S \in UNION {kSubset(k, DOMAIN site) : k \in 1..MaxRoutes} :
                   \A i \in S : /\ site[i].up \in S \cup {0}
                                /\ site[i].layout => \E j \in S : site[j].up = i}
      Reversed(i, j) ==
        IF IsStrictPrefix(chain[i], chain[j]) THEN TRUE
        ELSE Exceeds(chain[i], chain[j])
  IN  {SetToSortSeq(S, LAMBDA i, j : i < j) : S \in Closed}
      \cup {SetToSortSeq(S, Reversed) : S \in Closed}
SiteOrders == Declared(Site)
LayeredOrders == Declared(Layered)

Request(p, slash) == [parts |-> p, slash |-> slash]
A == <<"a">>
Requests ==
  {Request(<<>>, TRUE), Request(<<A>>, FALSE), Request(<<A>>, TRUE),
   Request(<<<<"b">>>>, FALSE), Request(<<A, <<"b">>>>, FALSE),
   Request(<<A, <<"1">>>>, FALSE), Request(<<A, <<"x", "y", "1">>>>, FALSE),
   Request(<<A, <<"1">>, <<"b">>>>, FALSE), Request(<<A, <<"b">>>>, TRUE),
   Request(<<<<>>, <<"b">>>>, FALSE)}
=============================================================================
