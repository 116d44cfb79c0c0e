---------------------------- MODULE RouteMatcher ----------------------------
(***************************************************************************)
(* The route matching of new-process-route-tree.ts: parseSegments builds a *)
(* segment trie from the declared routes, getNodeMatch searches it with a  *)
(* stack of frames for the most specific route of a path, extractParams    *)
(* reads the params off the branch that was found.  Each step of the       *)
(* search is a step of the specification; the definition it is checked     *)
(* against looks at every way to lay the path on every branch at once.     *)
(*                                                                         *)
(* A part of a path is a sequence of letters.  A segment of a route has a  *)
(* kind, a text (a static name, or the prefix of a param) and the name of  *)
(* its param.  Suffixes and case-sensitive names, which are tested the way *)
(* prefixes are, are left out.  A guard is a params.parse that returns     *)
(* false for some values: it accepts a param that is absent or in a set.   *)
(***************************************************************************)
EXTENDS Integers, Sequences, FiniteSets, SequencesExt, FiniteSetsExt

CONSTANTS Catalogue,   \* routes an application may declare, parents first
          Orders,      \* orders in which applications declare some of them
          Paths        \* requested paths: [parts, slash]

Kinds == {"static", "param", "optional", "wildcard"}
Text == Seq(STRING)
Segments == [kind : Kinds, text : Text, name : STRING]
NoGuard == [name |-> "", accepts |-> {}]

ASSUME MatcherAssumption ==
  /\ Catalogue \in Seq([up : Nat, segs : Seq(Segments), index : BOOLEAN, layout : BOOLEAN,
                        guard : [name : STRING, accepts : SUBSET Text]])
  /\ \A i \in DOMAIN Catalogue : Catalogue[i].up < i
  /\ Paths \subseteq [parts : Seq(Text), slash : BOOLEAN]

\* Parents are parsed before their children.
ASSUME OrderAssumption ==
  /\ Orders \subseteq Seq(DOMAIN Catalogue)
  /\ \A o \in Orders : \A i \in DOMAIN o :
       Catalogue[o[i]].up \in {0} \cup {o[j] : j \in 1..(i - 1)}

VARIABLES routes,    \* the declared routes in the order of declaration
          tree,      \* the segment trie, node 1 being its root
          path,      \* the path to match
          fuzzy,     \* whether a partial match will do
          stack,     \* frames to try, the last one first
          bestMatch, \* the best full match so far
          bestFuzzy, \* the best partial match so far
          result     \* "none yet", or the frame returned

vars == <<routes, tree, path, fuzzy, stack, bestMatch, bestFuzzy, result>>

NoFrame == [node |-> 0]
Searching == [node |-> -1]

\* The function that maps x to v, and f, with g where f is not defined.
Maps(x, v) == [y \in {x} |-> v]
Extended(f, g) ==
  [x \in DOMAIN f \cup DOMAIN g |-> IF x \in DOMAIN f THEN f[x] ELSE g[x]]

-----------------------------------------------------------------------------
\* The trie.

FullSegs(r) ==
  LET segs[i \in 0..Len(Catalogue)] ==
        IF i = 0 THEN <<>> ELSE segs[Catalogue[i].up] \o Catalogue[i].segs
  IN  segs[r]

Root == [kind |-> "static", text |-> <<>>, branch |-> <<>>,
         guard |-> 0, route |-> 0, full |-> 0]

Children(t, n) ==
  {c \in DOMAIN t : t[c].branch # <<>> /\ Front(t[c].branch) = t[n].branch}

NewChild(acc, kind, text, r) ==
  LET id == Len(acc.tree) + 1
      node == [kind |-> kind, text |-> text,
               branch |-> Append(acc.tree[acc.at].branch, id),
               guard |-> 0, route |-> 0, full |-> r]
  IN  [acc EXCEPT !.tree = Append(@, node), !.at = id]

HasGuard(r) == Catalogue[r].guard # NoGuard

\* A pathless layout, which has children, is no match of its own.
IsLeaf(r) == Catalogue[r].segs # <<>> \/ Catalogue[r].index

\* The node an equal segment of an earlier route made, where they may share.
Shared(acc, seg, r) ==
  {c \in Children(acc.tree, acc.at) :
     /\ acc.tree[c].kind = seg.kind /\ acc.tree[c].text = seg.text
     /\ \/ seg.kind = "static"
        \/ /\ seg.kind \in {"param", "optional"}
           /\ ~HasGuard(r) /\ acc.tree[c].guard = 0}

AddSegment(acc, seg, r) ==
  LET old == Shared(acc, seg, r)
  IN  IF old = {} THEN NewChild(acc, seg.kind, seg.text, r)
      ELSE [acc EXCEPT !.at = Min(old)]

Along(acc, r) ==
  LET segs == Catalogue[r].segs
      along[i \in 0..Len(segs)] ==
        IF i = 0 THEN [acc EXCEPT !.at = acc.ends[Catalogue[r].up]]
        ELSE AddSegment(along[i - 1], segs[i], r)
  IN  along[Len(segs)]

\* parseSegments for one route, from the node of its parent on.
AddRoute(acc, r) ==
  LET route == Catalogue[r]
      last == Along(acc, r)
      group == IF route.layout /\ HasGuard(r)
               THEN NewChild(last, "pathless", <<>>, r) ELSE last
      end == IF IsLeaf(r) /\ route.index
             THEN NewChild(group, "index", <<>>, r) ELSE group
      free == IsLeaf(r) /\ end.tree[end.at].route = 0
      node == [end.tree[end.at] EXCEPT !.guard = IF HasGuard(r) THEN r ELSE 0,
                                       !.route = IF free THEN r ELSE @,
                                       !.full = IF free THEN r ELSE @]
  IN  [end EXCEPT !.ends = Extended(@, Maps(r, end.at)), !.tree = [@ EXCEPT ![end.at] = node]]

TreeOf(order) ==
  LET added[i \in 0..Len(order)] ==
        IF i = 0 THEN [tree |-> <<Root>>, at |-> 1, ends |-> Maps(0, 1)]
        ELSE AddRoute(added[i - 1], order[i])
  IN  added[Len(order)].tree

\* Mutant: segments are tried in the order of declaration.
BeforeAsDeclared(a, b) == a < b

\* sortDynamic: guarded segments first, a longer prefix before its beginning.
Before(a, b) ==
  LET x == tree[a]  y == tree[b] IN
  \/ x.guard # 0 /\ y.guard = 0
  \/ /\ (x.guard = 0) = (y.guard = 0)
     /\ \/ IsStrictPrefix(y.text, x.text)
        \/ ~IsStrictPrefix(x.text, y.text) /\ a < b

\* The nodes of S sorted by insertion, the most specific first.
Sorted(S) ==
  LET Place(s, c) == Min({i \in DOMAIN s : Before(c, s[i])} \cup {Len(s) + 1})
      sorted[i \in 0..Len(tree)] ==
        IF i = 0 THEN <<>>
        ELSE IF i \in S THEN InsertAt(sorted[i - 1], Place(sorted[i - 1], i), i)
        ELSE sorted[i - 1]
  IN  sorted[Len(tree)]

ChildrenOf(n, kind) == {c \in Children(tree, n) : tree[c].kind = kind}

\* A later index route replaces the node of an earlier one.
IndexOf(n) ==
  {c \in ChildrenOf(n, "index") : \A d \in ChildrenOf(n, "index") : d <= c}

-----------------------------------------------------------------------------
\* The params of a frame.

parts == path.parts
Beyond == Len(parts) + 1                          \* partsLength of the code
PathIsIndex == path.slash /\ parts # <<>>
After(n, text) == SubSeq(text, Len(tree[n].text) + 1, Len(text))

\* What a wildcard takes, the letters of its parts one after the other.
Rest(n, i) == After(n, FlattenSeq(SubSeq(parts, i, Len(parts))))

\* The walk moves on by so many parts and segments, or ends at this node.
Moved(e, p, s, params) ==
  [part |-> e.part + p, node |-> e.node + 1, segment |-> e.segment + s,
   params |-> params, over |-> FALSE]
Ended(e, params) ==
  [part |-> e.part, node |-> e.node, segment |-> e.segment, params |-> params, over |-> TRUE]

\* Mutant: the mask is read by segment, not by node.
ExtractSegment(e, n, names, skipped) ==
  LET kind == tree[n].kind
      value == After(n, parts[e.part])
      With(name, v) == Extended(Maps(name, v), e.params)
  IN  IF e.over THEN e ELSE
      CASE kind = "index" -> Ended(e, e.params)
        [] kind = "pathless" -> Moved(e, 0, 0, e.params)
        [] kind = "static" -> Moved(e, 1, 1, e.params)
        [] kind = "optional" /\ e.segment % 32 \in skipped -> Moved(e, 0, 1, e.params)
        [] kind = "wildcard" -> Ended(e, With("_splat", Rest(n, e.part)))
        [] OTHER -> Moved(e, 1, 1, IF e.part >= Beyond \/ value = <<>> THEN e.params
                                   ELSE With(names[e.segment].name, value))

\* One node of the branch in the loop of extractParams.
ExtractNode(e, n, names, skipped) ==
  LET kind == tree[n].kind
      value == After(n, parts[e.part])
      With(name, v) == Extended(Maps(name, v), e.params)
      left == kind = "optional" /\ value = <<>>
  IN  IF e.over THEN e ELSE
      CASE kind = "index" -> Ended(e, e.params)
        [] kind = "pathless" -> Moved(e, 0, 0, e.params)
        [] kind = "static" -> Moved(e, 1, 1, e.params)
        [] kind = "optional" /\ e.node % 32 \in skipped -> Moved(e, 0, 1, e.params)
        [] kind = "wildcard" -> Ended(e, With("_splat", Rest(n, e.part)))
        [] OTHER -> Moved(e, 1, 1, IF left THEN e.params
                                   ELSE With(names[e.segment].name, value))

\* extractParams, resumed where an earlier call for the branch stopped.
Walked(f) ==
  LET b == tree[f.node].branch
      names == FullSegs(tree[f.node].full)
      from == f.extract.node - 1
      walk[i \in 0..(Len(b) - from)] ==
        IF i = 0 THEN [part |-> f.extract.part, node |-> f.extract.node,
                       segment |-> f.extract.segment, params |-> <<>>, over |-> FALSE]
        ELSE ExtractNode(walk[i - 1], b[from + i], names, f.skipped)
  IN  walk[Len(b) - from]
Extract(f) ==
  LET e == Walked(f)
  IN  [f EXCEPT !.params = Extended(@, e.params),
                !.extract = [part |-> e.part, node |-> e.node, segment |-> e.segment]]

Accepts(r, params) ==
  LET g == Catalogue[r].guard
  IN  g.name \in DOMAIN params => params[g.name] \in g.accepts

\* Mutant: a guard is asked before the params of its own node are read.
ValidBefore(f) == tree[f.node].guard # 0 => Accepts(tree[f.node].guard, f.params)

\* validateParseParams
Parsed(f) == IF tree[f.node].guard = 0 THEN f ELSE Extract(f)
Valid(f) == tree[f.node].guard # 0 => Accepts(tree[f.node].guard, Extract(f).params)

-----------------------------------------------------------------------------
\* The search.

Exceeds(s, t) ==
  \E i \in DOMAIN s \cap DOMAIN t : s[i] > t[i] /\ \A j \in 1..(i - 1) : s[j] = t[j]
IsIndex(n) == IF tree[n].kind = "index" THEN 1 ELSE 0

\* isFrameMoreSpecific
MoreSpecific(prev, next) ==
  \/ prev = NoFrame
  \/ Exceeds(<<next.statics, next.dynamics, next.optionals, IsIndex(next.node), next.depth>>,
             <<prev.statics, prev.dynamics, prev.optionals, IsIndex(prev.node), prev.depth>>)

\* Mutant: parts are counted, whatever their place.
SegmentCount(i) == 1

SegmentScore(i) == 2^(Beyond - i - 1)
At(f, n) == [f EXCEPT !.node = n, !.depth = @ + 1]
Starts(n, i) == i < Beyond /\ IsPrefix(tree[n].text, parts[i])

\* The ways on from a frame, those tried last first: an optional segment is
\* skipped or taken.
Kindred(way) == IF way = "skip" THEN "optional" ELSE way

\* Whether the rest of the path lets frame f go on to c.  A param needs a part
\* that is not empty, an optional one does not.
Admits(f, c, way) ==
  CASE way = "wildcard" -> tree[c].text = <<>> \/ Starts(c, f.index)
    [] way = "static" -> f.index < Beyond /\ tree[c].text = parts[f.index]
    [] way = "param" -> Starts(c, f.index) /\ parts[f.index] # <<>>
    [] way = "optional" -> Starts(c, f.index)
    [] way \in {"skip", "pathless"} -> TRUE

Goes(f, c, way) ==
  LET g == At(f, c)
      next == [g EXCEPT !.index = @ + 1]
      score == SegmentScore(f.index)
  IN  CASE way = "wildcard" -> [g EXCEPT !.index = Beyond]
        [] way = "skip" -> [g EXCEPT !.skipped = @ \cup {f.depth % 32}]
        [] way = "optional" -> [next EXCEPT !.optionals = @ + score]
        [] way = "param" -> [next EXCEPT !.dynamics = @ + score]
        [] way = "static" -> [next EXCEPT !.statics = @ + score]
        [] way = "pathless" -> g

\* The frames of one way are pushed last to first.
Push(f, way) ==
  LET kids == Sorted({c \in ChildrenOf(f.node, Kindred(way)) : Admits(f, c, way)})
  IN  [i \in DOMAIN kids |-> Goes(f, kids[Len(kids) + 1 - i], way)]

\* What a frame pushes: the candidate of the highest priority comes last.
Pushed(f) ==
  Push(f, "wildcard") \o Push(f, "skip") \o Push(f, "optional")
    \o Push(f, "param") \o Push(f, "static") \o Push(f, "pathless")

First == [node |-> 1, index |-> 1, skipped |-> {}, depth |-> 1,
          statics |-> 0, dynamics |-> 0, optionals |-> 0,
          extract |-> [part |-> 1, node |-> 1, segment |-> 1], params |-> <<>>]

Init ==
  /\ routes \in Orders
  /\ tree = TreeOf(routes)
  /\ path \in Paths /\ fuzzy \in BOOLEAN
  /\ stack = <<First>>
  /\ bestMatch = NoFrame /\ bestFuzzy = NoFrame
  /\ result = Searching

Return(f) ==
  /\ result' = IF f = NoFrame THEN f ELSE Extract(f)
  /\ stack' = <<>>

\* The quick check for the index of the root.
Quick == stack = <<First>> /\ parts = <<>> /\ path.slash /\ IndexOf(1) # {}
RootIndex ==
  /\ result = Searching /\ Quick
  /\ \E n \in IndexOf(1) : Return(At(First, n))
  /\ UNCHANGED <<routes, tree, path, fuzzy, bestMatch, bestFuzzy>>

Popped == Last(stack)
Running == result = Searching /\ stack # <<>> /\ ~Quick

\* A wildcard that can no longer win is not tried.
Hopeless(f) == tree[f.node].kind = "wildcard" /\ tree[f.node].route # 0
               /\ ~MoreSpecific(bestMatch, f)

\* It, or a frame whose guard returns false, is dropped.
Discard ==
  /\ Running
  /\ Hopeless(Popped) \/ ~Valid(Popped)
  /\ stack' = Front(stack)
  /\ UNCHANGED <<routes, tree, path, fuzzy, bestMatch, bestFuzzy, result>>

\* One turn of the loop, on frame f.
Turn(f) ==
  LET node == tree[f.node]
      beyond == f.index = Beyond
      full == /\ beyond /\ node.route # 0
              /\ PathIsIndex => node.kind \in {"index", "wildcard"}
      best == IF full /\ MoreSpecific(bestMatch, f) THEN f ELSE bestMatch
      index == {g \in {At(f, n) : n \in IndexOf(f.node)} : beyond /\ Valid(g)}
      perfect == {g \in index : /\ g.dynamics = 0 /\ g.optionals = 0
                                /\ g.skipped = {} /\ g.statics = 2^(Beyond - 1) - 1}
      better == {g \in index : MoreSpecific(best, g)}
  IN  /\ bestFuzzy' = IF /\ fuzzy /\ node.route # 0 /\ node.kind # "index"
                         /\ MoreSpecific(bestFuzzy, f)
                      THEN f ELSE bestFuzzy
      /\ \/ /\ perfect # {}
            /\ \E g \in perfect : Return(Parsed(g))
            /\ bestMatch' = best
         \/ /\ perfect = {}
            /\ bestMatch' = IF better = {} THEN best
                            ELSE CHOOSE g \in {Parsed(h) : h \in better} : TRUE
            /\ stack' = Front(stack) \o Pushed(f)
            /\ result' = result

Explore ==
  /\ Running
  /\ ~Hopeless(Popped) /\ Valid(Popped)
  /\ Turn(Parsed(Popped))
  /\ UNCHANGED <<routes, tree, path, fuzzy>>

\* Nothing is left to try.
Finish ==
  /\ result = Searching /\ stack = <<>>
  /\ LET splat == Maps("**", FlattenSeq(SubSeq(parts, bestFuzzy.index, Len(parts))))
     IN  Return(CASE bestMatch # NoFrame -> bestMatch
                  [] bestMatch = NoFrame /\ bestFuzzy # NoFrame ->
                       [bestFuzzy EXCEPT !.params = Extended(splat, @)]
                  [] OTHER -> NoFrame)
  /\ UNCHANGED <<routes, tree, path, fuzzy, bestMatch, bestFuzzy>>

Next == RootIndex \/ Discard \/ Explore \/ Finish

Spec == Init /\ [][Next]_vars

-----------------------------------------------------------------------------
\* The reference.  A way to lay the path on the branch of a node is the set of
\* the optional segments it skips, by their place in the branch.

Ways(n) == SUBSET {k \in DOMAIN tree[n].branch : tree[tree[n].branch[k]].kind = "optional"}
Kind(b, k) == tree[b[k]].kind
Takes(b, S, k) ==
  Kind(b, k) \in {"static", "param"} \/ (Kind(b, k) = "optional" /\ k \notin S)

\* The part, and the segment of a route, at which the k-th node stands.
PartAt(b, S, k) ==
  IF \E j \in 1..(k - 1) : Kind(b, j) = "wildcard" THEN Beyond
  ELSE 1 + Cardinality({j \in 1..(k - 1) : Takes(b, S, j)})
Segment(b, k) ==
  1 + Cardinality({j \in 1..(k - 1) : Kind(b, j) \notin {"pathless", "index"}})
Reached(b, S) == PartAt(b, S, Len(b) + 1)

\* The value of each param of route r that stands among the first k nodes.
Name(r, b, k) ==
  IF Kind(b, k) = "wildcard" THEN "_splat" ELSE FullSegs(r)[Segment(b, k)].name
Value(b, S, k) ==
  IF Kind(b, k) = "wildcard" THEN Rest(b[k], PartAt(b, S, k))
  ELSE After(b[k], parts[PartAt(b, S, k)])
Binds(b, S, k) ==
  \/ Kind(b, k) \in {"param", "wildcard"}
  \/ Kind(b, k) = "optional" /\ k \notin S /\ Value(b, S, k) # <<>>
ValuesOf(r, b, S, k) ==
  LET Bound == {j \in 1..k : Binds(b, S, j)}
  IN  [name \in {Name(r, b, j) : j \in Bound} |->
         Value(b, S, CHOOSE j \in Bound : Name(r, b, j) = name)]

\* Each node of the branch finds its part of the path.
Lies(b, S, k) ==
  LET i == PartAt(b, S, k) IN
  CASE Kind(b, k) = "static" -> i < Beyond /\ tree[b[k]].text = parts[i]
    [] Kind(b, k) = "param" -> Starts(b[k], i) /\ parts[i] # <<>>
    [] Kind(b, k) = "optional" /\ k \notin S -> Starts(b[k], i)
    [] Kind(b, k) = "wildcard" -> tree[b[k]].text = <<>> \/ Starts(b[k], i)
    [] Kind(b, k) = "index" -> i = Beyond
    [] OTHER -> TRUE

\* The guard of the k-th node, if it has one, accepts the params so far.
Passes(b, S, k) ==
  LET r == tree[b[k]].guard IN r # 0 => Accepts(r, ValuesOf(r, b, S, k))

Fits(n, S) ==
  \A k \in DOMAIN tree[n].branch :
    Lies(tree[n].branch, S, k) /\ Passes(tree[n].branch, S, k)

Full(n, S) ==
  /\ Reached(tree[n].branch, S) = Beyond
  /\ PathIsIndex => tree[n].kind \in {"index", "wildcard"}

Candidates ==
  UNION {{<<n, S>> : S \in {W \in Ways(n) : Fits(n, W)}} :
           n \in {m \in DOMAIN tree : tree[m].route # 0}}

\* The parts that matched a static name, a param, an optional param, then the
\* end of the path if it is an index route that is laid there.
Matched(b, S, kind) ==
  {PartAt(b, S, k) : k \in {j \in DOMAIN b \ S : Kind(b, j) = kind}}
Rank(c) ==
  LET b == tree[c[1]].branch
      Parts(kind) == Matched(b, c[2], kind)
  IN  <<Parts("static"), Parts("param"), Parts("optional"), Parts("index")>>
RankAndDepth(c) == Append(Rank(c), DOMAIN tree[c[1]].branch)

\* The earliest part in which two ranks differ decides, one of a static name
\* before all of params and so on.
Leads(T, U) == \E i \in T \ U : \A j \in 1..(i - 1) : j \in T <=> j \in U
Outranks(x, y) ==
  \E i \in DOMAIN x : Leads(x[i], y[i]) /\ \A j \in 1..(i - 1) : x[j] = y[j]
Best(C, R(_)) == {c \in C : \A d \in C : ~Outranks(R(d), R(c))}

Found == <<result.node, result.skipped>>
Done == result # Searching
FullOnes == {c \in Candidates : Full(c[1], c[2])}
PartialOnes == {c \in Candidates : tree[c[1]].kind # "index"}
-----------------------------------------------------------------------------

\* Whatever the search prunes, it finds a route exactly when the path fits one,
\* guards included: the whole of it if possible, or a beginning of it in a fuzzy
\* search.
FindsWhatFits ==
  Done => IF FullOnes # {} THEN result # NoFrame /\ Found \in FullOnes
          ELSE IF fuzzy /\ PartialOnes # {}
               THEN result # NoFrame /\ Found \in PartialOnes
          ELSE result = NoFrame

\* The route it finds is one of the most specific: the scores, the pruning and
\* the order of the stack never prefer another one.  Parts matched by static
\* names come first, then by params, then by optional params, earlier parts
\* before later ones, then index routes.
FindsMostSpecific ==
  Done /\ result # NoFrame =>
    Found \in IF FullOnes # {} THEN Best(FullOnes, Rank) ELSE Best(PartialOnes, RankAndDepth)

\* Among equally specific ways the order of declaration does not decide
\* between a guarded and an unguarded segment, or between a prefix and a
\* longer one: the guarded, then the longer one is found.
Favoured(a, b) ==
  LET x == tree[a].branch  y == tree[b].branch IN
  \E k \in DOMAIN x \cap DOMAIN y :
    /\ \A j \in 1..(k - 1) : x[j] = y[j]
    /\ tree[x[k]].kind = tree[y[k]].kind /\ tree[x[k]].kind \in {"param", "wildcard"}
    /\ \/ tree[x[k]].guard # 0 /\ tree[y[k]].guard = 0
       \/ /\ (tree[x[k]].guard = 0) = (tree[y[k]].guard = 0)
          /\ IsStrictPrefix(tree[y[k]].text, tree[x[k]].text)
FavoursLongerPrefix ==
  Done /\ result # NoFrame /\ FullOnes # {} =>
    \A c \in Best(FullOnes, RankAndDepth) :
      RankAndDepth(c) = RankAndDepth(Found) => ~Favoured(c[1], result.node)

\* The mask of skipped segments has a bit per node ("beyond 32 segments we
\* can't track skipped optionals").
Shallow == \A n \in DOMAIN tree : Len(tree[n].branch) < 32

\* No two routes end in an index at the same place, where the later would replace
\* the node of the earlier one and its guard, and no index route has children.
PlainIndices ==
  \A n \in DOMAIN tree : \A c, d \in ChildrenOf(n, "index") :
    c = d /\ Children(tree, c) = {}

\* A wildcard ends the branches that it is on ("wildcard matches consume the
\* rest of the URL and cannot have children").
PlainWildcards ==
  \A n \in DOMAIN tree : tree[n].kind = "wildcard" => Children(tree, n) = {}

\* Names are extracted with the route that made a node.  What is extracted
\* for a guard keeps its names in the routes below, if they and the guard's
\* route name their common segments alike; and no route has a name twice.
Named(b, k) == Kind(b, k) \in {"param", "optional", "wildcard"}
WellNamed ==
  \A n \in DOMAIN tree : tree[n].route # 0 =>
    LET b == tree[n].branch
        Own(k) == Name(tree[n].route, b, k)
        Names == {k \in DOMAIN b : Named(b, k)}
    IN  /\ \A j, k \in Names : Own(j) = Own(k) => j = k
        /\ \A k \in Names : Own(k) # "**"
        /\ \A k \in DOMAIN b, j \in Names : j <= k /\ tree[b[k]].guard # 0 =>
             /\ Name(tree[b[k]].guard, b, j) = Own(j)
             /\ Name(tree[b[k]].full, b, j) = Own(j)

\* The params of the route that is found, whose names and positions a second
\* walk of the branch recovers from the mask of skipped segments, are those
\* the search matched.
ParamsAreMatched ==
  Done /\ result # NoFrame =>
    LET b == tree[result.node].branch
        values == ValuesOf(tree[result.node].route, b, result.skipped, Len(b))
    IN  \A name \in DOMAIN values :
          name \in DOMAIN result.params /\ result.params[name] = values[name]

\* params.parse "returning false during incoming route matching skips this
\* route" (RouteOptionsType.md): neither it nor a route below it is found.
GuardsHold ==
  Done /\ result # NoFrame =>
    LET up[i \in 0..Len(Catalogue)] ==
          IF i = 0 THEN {} ELSE {i} \cup up[Catalogue[i].up]
    IN  \A r \in up[tree[result.node].route] :
          HasGuard(r) => Accepts(r, result.params)
=============================================================================
