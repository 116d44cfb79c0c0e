------------------------- MODULE RouteMatcherProofs -------------------------
(***************************************************************************)
(* The route matcher finds a route exactly when the path fits one, and     *)
(* returns a most specific one that the path fits, with the params that    *)
(* the search matched, for every catalogue, order of declaration and path. *)
(*                                                                         *)
(* The trie: every node ends its own branch, and the route found at it is  *)
(* the one its names are read from (TrieOK, TreeOfOK).  A frame, while its *)
(* branch leads to a route, says truly which part of the path it stands    *)
(* at, which optional segments it skipped, that the path lies on each node *)
(* and that each guard above accepted (FrameOK, Passed); and what it has   *)
(* extracted so far is what these nodes bind, with the mark where the walk *)
(* of extractParams resumes (Resumes).  Every way the search goes on keeps *)
(* to this (GoesOK), so does extraction (ExtractOK), and what a guard is   *)
(* asked about are the values the definition asks it about (GuardAsks).    *)
(*                                                                         *)
(* Nothing is lost: as long as the search goes on, for every way to lay    *)
(* the path there is a frame on the stack whose branch and skipped         *)
(* segments begin it (Towards), unless a match has made it needless        *)
(* (SeekInv).  A guard does not drop such a frame (SeekValid), and a turn  *)
(* of the loop on it pushes the next one or ends there (SeekTurn).         *)
(*                                                                         *)
(* Nothing better is lost: a score adds two to the power of the places     *)
(* behind each part matched (Scored, SumNext), so that of two scores the   *)
(* higher one is that of the set which leads at the earliest part where    *)
(* they differ (ScoreMore).  The best match so far is not outranked by a   *)
(* way that has been given up (Improves, Covers), whether it is dropped at *)
(* a guard, pruned, or skipped by a shortcut that nothing outranks         *)
(* (NothingOver).                                                          *)
(***************************************************************************)
EXTENDS RouteMatcher, FiniteSetTheorems, TLAPS

-----------------------------------------------------------------------------
(* Recursive functions, and sequences that grow. *)

\* Induction up to n, for a set in place of a predicate.
LEMMA SetInduction ==
  ASSUME NEW n \in Nat, NEW T, 0 \in T, \A k \in 0..(n - 1) : k \in T => k + 1 \in T
  PROVE  \A k \in 0..n : k \in T
<1> DEFINE Less == {x \in Nat \X Nat : x[1] < x[2]}
           U == {k \in 0..n : k \notin T}
<1>1. IsWellFoundedOn(Less, Nat) BY NatLessThanWellFounded DEF OpToRel
<1>2. SUFFICES ASSUME U # {} PROVE FALSE OBVIOUS
<1>3. U \subseteq Nat OBVIOUS
<1>4. PICK x \in U : \A y \in U : ~(<<y, x>> \in Less)
  <2> HIDE DEF U, Less
  <2> QED BY <1>1, <1>2, <1>3, WFMin
<1>5. x \in 1..n /\ x \notin T BY <1>4
<1>6. x - 1 \in 0..(n - 1) /\ x - 1 \notin T BY <1>5
<1>7. x - 1 \in U /\ <<x - 1, x>> \in Less BY <1>5, <1>6
<1> QED BY <1>4, <1>7

LEMMA MinIn ==
  ASSUME NEW S \in SUBSET Nat, S # {}
  PROVE  Min(S) \in S
<1> DEFINE Less == {x \in Nat \X Nat : x[1] < x[2]}
<1>1. IsWellFoundedOn(Less, Nat) BY NatLessThanWellFounded DEF OpToRel
<1>2. PICK x \in S : \A y \in S : ~(<<y, x>> \in Less)
  <2> HIDE DEF Less
  <2> QED BY <1>1, WFMin
<1>3. \A y \in S : x <= y
  <2> SUFFICES ASSUME NEW y \in S PROVE x <= y OBVIOUS
  <2>1. ~(y < x) BY <1>2
  <2> QED BY <2>1
<1>4. \E y \in S : \A z \in S : y <= z BY <1>3
<1> QED BY <1>4 DEF Min

\* A function that is given by a start and a step exists, if the values lie
\* in sets that the step keeps to.
Steps(f, n, a, g) == f = [i \in 0..n |-> IF i = 0 THEN a ELSE g[<<i, f[i - 1]>>]]
LEMMA Iterate ==
  ASSUME NEW n \in Nat, NEW X, NEW a \in X[0], NEW g,
         \A i \in 1..n : \A x \in X[i - 1] : g[<<i, x>>] \in X[i]
  PROVE  \E f : Steps(f, n, a, g)
<1> DEFINE Upto(f, k) == /\ f = [i \in 0..k |-> f[i]] /\ f[0] = a /\ f[k] \in X[k]
                         /\ \A i \in 1..k : f[i] = g[<<i, f[i - 1]>>]
           T == {k \in 0..n : \E f : Upto(f, k)}
<1>1. 0 \in T
  <2> DEFINE h == [i \in 0..0 |-> a]
  <2>1. h = [i \in 0..0 |-> h[i]] /\ h[0] = a OBVIOUS
  <2> HIDE DEF h
  <2>2. Upto(h, 0) BY <2>1
  <2> HIDE DEF Upto
  <2> QED BY <2>2
<1>2. ASSUME NEW k \in 0..(n - 1), k \in T PROVE k + 1 \in T
  <2>1. PICK f : Upto(f, k) BY <1>2
  <2> DEFINE h == [i \in 0..(k + 1) |-> IF i <= k THEN f[i] ELSE g[<<k + 1, f[k]>>]]
  <2>2. g[<<k + 1, f[k]>>] \in X[k + 1]
    <3>1. f[k] \in X[(k + 1) - 1] /\ k + 1 \in 1..n BY <2>1
    <3> QED BY <3>1
  <2>3. h = [i \in 0..(k + 1) |-> h[i]] /\ h[k + 1] \in X[k + 1] BY <2>2
  <2>4. h[0] = a BY <2>1
  <2>5. ASSUME NEW i \in 1..(k + 1) PROVE h[i] = g[<<i, h[i - 1]>>]
    <3>1. h[i - 1] = f[i - 1] OBVIOUS
    <3>2. CASE i <= k
      <4>1. f[i] = g[<<i, f[i - 1]>>] BY <2>1, <3>2
      <4>2. h[i] = f[i] BY <3>2
      <4> HIDE DEF h
      <4> QED BY <3>1, <4>1, <4>2
    <3>3. CASE i = k + 1
      <4>1. h[k + 1] = g[<<k + 1, f[k]>>] OBVIOUS
      <4>2. h[k] = f[k] OBVIOUS
      <4>3. i - 1 = k BY <3>3
      <4> HIDE DEF h
      <4> QED BY <3>3, <4>1, <4>2, <4>3
    <3> QED BY <3>2, <3>3
  <2> HIDE DEF h
  <2>6. Upto(h, k + 1) BY <2>3, <2>4, <2>5
  <2> HIDE DEF Upto
  <2> QED BY <2>6
<1>3. n \in T
  <2> HIDE DEF T
  <2> QED BY <1>1, <1>2, SetInduction
<1>4. PICK f : Upto(f, n) BY <1>3
<1>5. Steps(f, n, a, g) BY <1>4 DEF Steps
<1> QED BY <1>5

-----------------------------------------------------------------------------
(* The trie. *)

Node == [kind : Kinds \cup {"pathless", "index"}, text : Text, branch : Seq(Nat),
         guard : Nat, route : Nat, full : Nat]

\* The nodes of a branch have its beginnings for branches.
Nested(t) ==
  \A n \in DOMAIN t :
    /\ n # 1 => t[n].branch # <<>>
    /\ \A k \in 1..Len(t[n].branch) :
         /\ Len(t[t[n].branch[k]].branch) = k
         /\ \A j \in 1..k : t[t[n].branch[k]].branch[j] = t[n].branch[j]

\* The branch of a node ends with the node, and the route found there is the
\* one it was made for, or the one that took it over.
TrieOK(t) ==
  /\ t \in Seq(Node) /\ t # <<>> /\ t[1].branch = <<>> /\ t[1].kind # "index" /\ Nested(t)
  /\ \A n \in DOMAIN t :
       /\ t[n].branch # <<>> => t[n].branch[Len(t[n].branch)] = n
       /\ \A k \in DOMAIN t[n].branch : t[n].branch[k] \in DOMAIN t
       /\ t[n].route # 0 => t[n].full = t[n].route

\* Each index node, but those of N, has a route.
Indices(t, N) == \A n \in (DOMAIN t) \ N : t[n].kind = "index" => t[n].route # 0

\* The trie while it is built: n nodes and the ends E of earlier routes are
\* known.
Building(E, n) ==
  {acc \in [tree : Seq(Node), at : Nat, ends : {E}] :
     /\ TrieOK(acc.tree) /\ acc.at \in DOMAIN acc.tree /\ Indices(acc.tree, {})
     /\ n <= Len(acc.tree)}

NewChildGives(new, n, E, kind) ==
  /\ new = [tree |-> new.tree, at |-> new.at, ends |-> E]
  /\ TrieOK(new.tree) /\ new.at \in DOMAIN new.tree
  /\ Indices(new.tree, {new.at}) /\ (kind # "index" => Indices(new.tree, {}))
  /\ new.tree[new.at].route = 0 /\ Len(new.tree) = n + 1

LEMMA NewChildOK ==
  ASSUME NEW acc, NEW t, NEW at, NEW E, acc = [tree |-> t, at |-> at, ends |-> E],
         TrieOK(t), at \in DOMAIN t, Indices(t, {}),
         NEW kind \in Kinds \cup {"pathless", "index"}, NEW text \in Text,
         NEW r \in Nat
  PROVE  NewChildGives(NewChild(acc, kind, text, r), Len(t), E, kind)
<1> SUFFICES ASSUME NEW new, new = NewChild(acc, kind, text, r)
             PROVE  NewChildGives(new, Len(t), E, kind)
  OBVIOUS
<1> DEFINE id == Len(t) + 1  b == t[at].branch
           node == [kind |-> kind, text |-> text, branch |-> Append(b, id),
                    guard |-> 0, route |-> 0, full |-> r]
           u == Append(t, node)
<1>1. new = [tree |-> u, at |-> id, ends |-> E] BY DEF NewChild
<1>2. t \in Seq(Node) /\ Len(t) \in Nat /\ DOMAIN t = 1..Len(t) /\ at \in 1..Len(t) BY DEF TrieOK
<1>3. t[at] \in Node /\ b \in Seq(Nat)
  <2>1. t[at] \in Node BY <1>2
  <2> QED BY <2>1 DEF Node
<1>4. node \in Node BY <1>2, <1>3 DEF Node
<1>5. /\ u \in Seq(Node) /\ DOMAIN u = 1..id /\ u[id] = node /\ id \in Nat
      /\ \A n \in 1..Len(t) : u[n] = t[n]
  <2> HIDE DEF node
  <2> QED BY <1>2, <1>4
<1>6. u # <<>> /\ u[1].branch = <<>> /\ u[1].kind # "index" BY <1>2, <1>5 DEF TrieOK
<1>7. ASSUME NEW n \in DOMAIN u
      PROVE  /\ u[n].branch # <<>> => u[n].branch[Len(u[n].branch)] = n
             /\ \A k \in DOMAIN u[n].branch : u[n].branch[k] \in DOMAIN u
             /\ u[n].route # 0 => u[n].full = u[n].route
  <2> HIDE DEF u
  <2>1. CASE n \in 1..Len(t) BY <1>2, <1>5, <2>1 DEF TrieOK
  <2>2. CASE n = id
    <3>1. u[n].branch = Append(b, id) /\ u[n].route = 0 BY <1>5, <2>2
    <3> HIDE DEF b, node
    <3>2. Len(Append(b, id)) = Len(b) + 1 /\ Append(b, id)[Len(b) + 1] = id BY <1>2, <1>3
    <3>3. ASSUME NEW k \in DOMAIN Append(b, id) PROVE Append(b, id)[k] \in DOMAIN u
      <4>1. k \in 1..Len(b) => Append(b, id)[k] = b[k] BY <1>2, <1>3
      <4>2. k \in 1..Len(b) => b[k] \in DOMAIN t BY <1>2, <1>3 DEF TrieOK, b
      <4> QED BY <1>2, <1>3, <1>5, <3>2, <4>1, <4>2
    <3> QED BY <2>2, <3>1, <3>2, <3>3
  <2> QED BY <1>5, <2>1, <2>2
<1>13. Nested(u)
  <2> HIDE DEF u
  <2> SUFFICES ASSUME NEW i \in DOMAIN u
               PROVE  /\ i # 1 => u[i].branch # <<>>
                      /\ \A k \in 1..Len(u[i].branch) :
                           /\ Len(u[u[i].branch[k]].branch) = k
                           /\ \A j \in 1..k : u[u[i].branch[k]].branch[j] = u[i].branch[j]
    BY DEF Nested
  <2>1. \A m \in 1..Len(t) :
          /\ t[m].branch \in Seq(Nat) /\ (m # 1 => t[m].branch # <<>>)
          /\ \A k \in 1..Len(t[m].branch) :
               /\ t[m].branch[k] \in 1..Len(t) /\ Len(t[t[m].branch[k]].branch) = k
               /\ \A j \in 1..k : t[t[m].branch[k]].branch[j] = t[m].branch[j]
    <3> SUFFICES ASSUME NEW m \in 1..Len(t)
                 PROVE  /\ t[m].branch \in Seq(Nat) /\ (m # 1 => t[m].branch # <<>>)
                        /\ \A k \in 1..Len(t[m].branch) :
                             /\ t[m].branch[k] \in 1..Len(t) /\ Len(t[t[m].branch[k]].branch) = k
                             /\ \A j \in 1..k : t[t[m].branch[k]].branch[j] = t[m].branch[j]
      OBVIOUS
    <3>1. t[m] \in Node BY <1>2
    <3>2. t[m].branch \in Seq(Nat) BY <3>1 DEF Node
    <3>3. m \in DOMAIN t /\ Nested(t) /\ DOMAIN t[m].branch = 1..Len(t[m].branch)
      BY <1>2, <3>2 DEF TrieOK
    <3>4. \A k \in DOMAIN t[m].branch : t[m].branch[k] \in DOMAIN t BY <3>3 DEF TrieOK
    <3> QED BY <1>2, <3>2, <3>3, <3>4 DEF Nested
  <2>2. CASE i \in 1..Len(t)
    <3>1. PICK d : d = t[i].branch OBVIOUS
    <3>2. u[i].branch = d /\ (i # 1 => d # <<>>) BY <1>5, <2>1, <2>2, <3>1
    <3>3. ASSUME NEW k \in 1..Len(d)
          PROVE  Len(u[d[k]].branch) = k /\ \A j \in 1..k : u[d[k]].branch[j] = d[j]
      <4>1. /\ d[k] \in 1..Len(t) /\ Len(t[d[k]].branch) = k
            /\ \A j \in 1..k : t[d[k]].branch[j] = d[j]
        BY <2>1, <2>2, <3>1
      <4>2. u[d[k]] = t[d[k]] BY <1>5, <4>1
      <4> QED BY <4>1, <4>2
    <3> QED BY <3>2, <3>3
  <2>3. CASE i = id
    <3>1. u[i].branch = Append(b, id) BY <1>5, <2>3
    <3> HIDE DEF b, node
    <3>2. PICK L \in Nat : L = Len(b) BY <1>3
    <3>3. PICK d : d = u[i].branch /\ Len(d) = L + 1 /\ d[L + 1] = id /\ \A j \in 1..L : d[j] = b[j]
      <4>1. PICK d : d = Append(b, id) OBVIOUS
      <4>2. b \in Seq(Nat) /\ id \in Nat BY <1>2, <1>3
      <4> HIDE DEF id
      <4>3. Len(d) = L + 1 /\ d[L + 1] = id /\ \A j \in 1..L : d[j] = b[j] BY <3>2, <4>1, <4>2
      <4> QED BY <3>1, <4>1, <4>3
    <3>4. d # <<>> BY <3>2, <3>3
    <3>5. ASSUME NEW k \in 1..L
          PROVE  Len(u[d[k]].branch) = k /\ \A j \in 1..k : u[d[k]].branch[j] = d[j]
      <4>1. /\ b[k] \in 1..Len(t) /\ Len(t[b[k]].branch) = k
            /\ \A j \in 1..k : t[b[k]].branch[j] = b[j]
        BY <1>2, <2>1, <3>2 DEF b
      <4>2. d[k] = b[k] /\ u[d[k]] = t[b[k]] BY <1>5, <3>3, <4>1
      <4>3. \A j \in 1..k : j \in 1..L /\ d[j] = b[j] BY <3>3
      <4> QED BY <4>1, <4>2, <4>3
    <3>6. Len(u[d[L + 1]].branch) = L + 1 /\ \A j \in 1..(L + 1) : u[d[L + 1]].branch[j] = d[j]
      BY <2>3, <3>3
    <3>7. \A k \in 1..(L + 1) : k \in 1..L \/ k = L + 1 OBVIOUS
    <3> QED BY <3>3, <3>4, <3>5, <3>6, <3>7
  <2> QED BY <1>5, <2>2, <2>3
<1>8. TrieOK(u)
  <2> HIDE DEF u
  <2> QED BY <1>5, <1>6, <1>7, <1>13 DEF TrieOK
<1>9. Indices(u, {id}) /\ (kind # "index" => Indices(u, {}))
  <2>1. u[id].kind = kind BY <1>5
  <2>2. \A n \in 1..Len(t) : u[n] = t[n] /\ (t[n].kind = "index" => t[n].route # 0)
    BY <1>2, <1>5 DEF Indices
  <2>3. \A n \in DOMAIN u : n # id => n \in 1..Len(t) BY <1>2, <1>5
  <2> HIDE DEF u
  <2> QED BY <2>1, <2>2, <2>3 DEF Indices
<1> HIDE DEF u
<1>10. new.tree = u /\ new.at = id BY <1>1
<1>11. new = [tree |-> new.tree, at |-> new.at, ends |-> E] BY <1>1, <1>10
<1>12. u[id].route = 0 /\ id \in DOMAIN u /\ Len(u) = Len(t) + 1 BY <1>2, <1>5
<1> HIDE DEF id
<1> QED BY <1>8, <1>9, <1>10, <1>11, <1>12 DEF NewChildGives

LEMMA AddSegmentOK ==
  ASSUME NEW E, NEW n \in Nat, NEW acc \in Building(E, n), NEW seg \in Segments, NEW r \in Nat
  PROVE  AddSegment(acc, seg, r) \in Building(E, n)
<1> DEFINE old == Shared(acc, seg, r)
<1>1. /\ acc = [tree |-> acc.tree, at |-> acc.at, ends |-> E] /\ TrieOK(acc.tree)
      /\ acc.at \in DOMAIN acc.tree /\ Indices(acc.tree, {}) /\ n <= Len(acc.tree)
      /\ acc.tree \in Seq(Node)
  BY DEF Building
<1>2. old \subseteq DOMAIN acc.tree BY DEF Shared, Children
<1>3. CASE old = {}
  <2>1. seg.kind \in Kinds \cup {"pathless", "index"} /\ seg.kind # "index" /\ seg.text \in Text
    BY DEF Segments, Kinds
  <2>2. PICK new : new = NewChild(acc, seg.kind, seg.text, r) OBVIOUS
  <2>3. PICK t, at : t = acc.tree /\ at = acc.at OBVIOUS
  <2>4. /\ new = [tree |-> new.tree, at |-> new.at, ends |-> E]
        /\ TrieOK(new.tree) /\ new.at \in DOMAIN new.tree
        /\ Indices(new.tree, {}) /\ Len(new.tree) = Len(t) + 1
    <3>1. acc = [tree |-> t, at |-> at, ends |-> E] /\ TrieOK(t) /\ at \in DOMAIN t /\ Indices(t, {})
      BY <1>1, <2>3
    <3>2. PICK kind, text : kind = seg.kind /\ text = seg.text OBVIOUS
    <3>3. new = NewChild(acc, kind, text, r) BY <2>2, <3>2
    <3>4. kind \in Kinds \cup {"pathless", "index"} /\ kind # "index" /\ text \in Text BY <2>1, <3>2
    <3> HIDE DEF old
    <3>5. NewChildGives(NewChild(acc, kind, text, r), Len(t), E, kind) BY <3>1, <3>4, NewChildOK
    <3> QED BY <3>3, <3>4, <3>5 DEF NewChildGives
  <2>5. new.tree \in Seq(Node) /\ n <= Len(new.tree) /\ new.at \in Nat
    BY <1>1, <2>3, <2>4 DEF TrieOK
  <2>6. new \in [tree : Seq(Node), at : Nat, ends : {E}] BY <2>4, <2>5
  <2>7. AddSegment(acc, seg, r) = new BY <1>3, <2>2 DEF AddSegment
  <2> QED BY <2>4, <2>5, <2>6, <2>7 DEF Building
<1>4. CASE old # {}
  <2>1. Min(old) \in old
    <3>1. old \in SUBSET Nat BY <1>1, <1>2
    <3> HIDE DEF old
    <3> QED BY <1>4, <3>1, MinIn
  <2>2. PICK at : at = Min(old) OBVIOUS
  <2>3. AddSegment(acc, seg, r) = [acc EXCEPT !.at = at] BY <1>4, <2>2 DEF AddSegment
  <2>4. [acc EXCEPT !.at = at] = [tree |-> acc.tree, at |-> at, ends |-> E] BY <1>1
  <2>5. at \in DOMAIN acc.tree /\ at \in Nat BY <1>1, <1>2, <2>1, <2>2
  <2> HIDE DEF old
  <2> QED BY <1>1, <2>3, <2>4, <2>5 DEF Building
<1> QED BY <1>3, <1>4

LEMMA MembersIn ==
  ASSUME NEW U, NEW s \in Seq(U), NEW i \in DOMAIN s
  PROVE  s[i] \in U /\ i \in Nat
OBVIOUS

LEMMA CatalogueOK ==
  ASSUME NEW r \in DOMAIN Catalogue
  PROVE  /\ r \in Nat /\ Catalogue[r].up \in Nat
         /\ Catalogue[r].segs \in Seq(Segments) /\ Len(Catalogue[r].segs) \in Nat
         /\ \A i \in 1..Len(Catalogue[r].segs) : Catalogue[r].segs[i] \in Segments
<1>1. Catalogue[r] \in [up : Nat, segs : Seq(Segments), index : BOOLEAN, layout : BOOLEAN,
                        guard : [name : STRING, accepts : SUBSET Text]]
  BY MatcherAssumption, MembersIn, Zenon
<1>2. r \in Nat BY MatcherAssumption, MembersIn, Zenon
<1>3. Catalogue[r].segs \in Seq(Segments) /\ Catalogue[r].up \in Nat BY <1>1
<1> QED BY <1>2, <1>3

LEMMA AlongOK ==
  ASSUME NEW E, NEW n \in Nat, NEW acc \in Building(E, n), NEW r \in DOMAIN Catalogue,
         E[Catalogue[r].up] \in DOMAIN acc.tree
  PROVE  Along(acc, r) \in Building(E, n)
<1> DEFINE segs == Catalogue[r].segs
           L == Len(segs)
           a == [acc EXCEPT !.at = acc.ends[Catalogue[r].up]]
           Is(f) == f = [i \in 0..L |-> IF i = 0 THEN a ELSE AddSegment(f[i - 1], segs[i], r)]
           B == Building(E, n)
<1>1. r \in Nat /\ L \in Nat /\ \A i \in 1..L : segs[i] \in Segments BY CatalogueOK
<1>2. a \in B
  <2>1. /\ acc = [tree |-> acc.tree, at |-> acc.at, ends |-> E] /\ acc.tree \in Seq(Node)
    BY DEF Building
  <2>2. a = [tree |-> acc.tree, at |-> E[Catalogue[r].up], ends |-> E] BY <2>1
  <2>3. E[Catalogue[r].up] \in Nat BY <2>1
  <2> HIDE DEF a
  <2> QED BY <2>1, <2>2, <2>3 DEF Building
<1>3. \A i \in 1..L : \A x \in B : AddSegment(x, segs[i], r) \in B
  <2> SUFFICES ASSUME NEW i \in 1..L, NEW x \in B PROVE AddSegment(x, segs[i], r) \in B OBVIOUS
  <2>1. PICK seg \in Segments : seg = segs[i] BY <1>1
  <2> QED BY <1>1, <2>1, AddSegmentOK
<1> HIDE DEF a, segs, L, B
<1>4. \E f : Is(f)
  <2> DEFINE g == [p \in (1..L) \X B |-> AddSegment(p[2], segs[p[1]], r)]
             X == [i \in 0..L |-> B]
  <2>1. \A i \in 1..L : \A x \in X[i - 1] : g[<<i, x>>] = AddSegment(x, segs[i], r) /\ g[<<i, x>>] \in X[i]
    <3> SUFFICES ASSUME NEW i \in 1..L, NEW x \in X[i - 1]
                 PROVE  g[<<i, x>>] = AddSegment(x, segs[i], r) /\ g[<<i, x>>] \in X[i]
      OBVIOUS
    <3>1. X[i - 1] = B /\ X[i] = B BY <1>1
    <3>2. x \in B BY <3>1
    <3>3. g[<<i, x>>] = AddSegment(x, segs[i], r) BY <3>2
    <3> HIDE DEF g, X
    <3> QED BY <1>3, <3>1, <3>2, <3>3
  <2>2. a \in X[0] BY <1>1, <1>2
  <2> HIDE DEF X, g
  <2>3. PICK f : f = [i \in 0..L |-> IF i = 0 THEN a ELSE g[<<i, f[i - 1]>>]]
    <3>1. \E f : Steps(f, L, a, g) BY <1>1, <2>1, <2>2, Iterate
    <3> QED BY <3>1 DEF Steps
  <2> DEFINE T == {i \in 0..L : f[i] \in X[i]}
  <2>4. \A i \in 0..L : i \in T
    <3>1. 0 \in T BY <1>1, <2>2, <2>3
    <3>2. ASSUME NEW k \in 0..(L - 1), k \in T PROVE k + 1 \in T
      <4>1. f[k + 1] = g[<<k + 1, f[k]>>] BY <1>1, <2>3
      <4>2. k + 1 \in 1..L /\ (k + 1) - 1 = k /\ f[k] \in X[k] BY <1>1, <3>2
      <4>3. g[<<k + 1, f[k]>>] \in X[k + 1] BY <2>1, <4>2
      <4> QED BY <4>1, <4>2, <4>3
    <3> HIDE DEF T
    <3> QED BY <1>1, <3>1, <3>2, SetInduction
  <2>5. \A i \in 1..L : g[<<i, f[i - 1]>>] = AddSegment(f[i - 1], segs[i], r)
    <3> SUFFICES ASSUME NEW i \in 1..L PROVE g[<<i, f[i - 1]>>] = AddSegment(f[i - 1], segs[i], r)
      OBVIOUS
    <3>1. i - 1 \in T BY <1>1, <2>4
    <3> QED BY <2>1, <3>1
  <2>6. Is(f)
    <3>1. \A i \in 0..L : i # 0 => i \in 1..L BY <1>1
    <3> QED BY <2>3, <2>5, <3>1
  <2> HIDE DEF Is
  <2> QED BY <2>6
<1>5. PICK f : Is(f) /\ Along(acc, r) = f[L]
  <2>1. Along(acc, r) = (CHOOSE f : Is(f))[L] BY DEF Along, a, segs, L
  <2> HIDE DEF Is
  <2> QED BY <1>4, <2>1
<1> DEFINE T == {i \in 0..L : f[i] \in B}
<1>6. 0 \in T BY <1>1, <1>2, <1>5
<1>7. ASSUME NEW k \in 0..(L - 1), k \in T PROVE k + 1 \in T
  <2>1. f[k + 1] = AddSegment(f[k], segs[k + 1], r) BY <1>1, <1>5
  <2>2. k + 1 \in 1..L /\ f[k] \in B BY <1>1, <1>7
  <2> QED BY <1>3, <2>1, <2>2
<1>8. L \in T
  <2> HIDE DEF T, Is
  <2> QED BY <1>1, <1>6, <1>7, SetInduction
<1> QED BY <1>5, <1>8 DEF B

LEMMA AddRouteOK ==
  ASSUME NEW E, NEW n \in Nat, NEW acc \in Building(E, n), NEW r \in DOMAIN Catalogue,
         E[Catalogue[r].up] \in DOMAIN acc.tree,
         NEW new, new = AddRoute(acc, r)
  PROVE  /\ new = [tree |-> new.tree, at |-> new.at, ends |-> Extended(E, Maps(r, new.at))]
         /\ TrieOK(new.tree) /\ new.at \in DOMAIN new.tree /\ Indices(new.tree, {})
         /\ n <= Len(new.tree)
<1> DEFINE route == Catalogue[r]
           last == Along(acc, r)
           group == IF route.layout /\ HasGuard(r)
                    THEN NewChild(last, "pathless", <<>>, r) ELSE last
           end == IF IsLeaf(r) /\ route.index
                  THEN NewChild(group, "index", <<>>, r) ELSE group
           free == IsLeaf(r) /\ end.tree[end.at].route = 0
           Grown(a, N) == /\ a = [tree |-> a.tree, at |-> a.at, ends |-> E]
                          /\ TrieOK(a.tree) /\ a.at \in DOMAIN a.tree /\ Indices(a.tree, N)
                          /\ n <= Len(a.tree)
<1>1. r \in Nat /\ r # 0 BY CatalogueOK, MatcherAssumption
<1>2. Grown(last, {}) /\ \A a : Grown(a, {}) => Len(a.tree) \in Nat
  <2>1. last \in Building(E, n) BY AlongOK
  <2> HIDE DEF last
  <2> QED BY <2>1 DEF Building, TrieOK
<1>3. <<>> \in Text BY DEF Text
<1>4. ASSUME NEW a, NEW kind \in {"pathless", "index"}, Grown(a, {}), NEW c,
             c = NewChild(a, kind, <<>>, r)
      PROVE  /\ Grown(c, {c.at}) /\ (kind # "index" => Grown(c, {}))
             /\ c.tree[c.at].route = 0
  <2>1. PICK t, at : t = a.tree /\ at = a.at OBVIOUS
  <2>2. NewChildGives(c, Len(t), E, kind)
    <3>1. a = [tree |-> t, at |-> at, ends |-> E] /\ TrieOK(t) /\ at \in DOMAIN t /\ Indices(t, {})
      BY <1>4, <2>1
    <3>2. kind \in Kinds \cup {"pathless", "index"} OBVIOUS
    <3> QED BY <1>1, <1>3, <1>4, <3>1, <3>2, NewChildOK
  <2>3. n <= Len(t) /\ Len(t) \in Nat BY <1>2, <1>4, <2>1
  <2> QED BY <2>2, <2>3 DEF NewChildGives
<1> HIDE DEF last
<1>5. Grown(group, {})
  <2> HIDE DEF Grown
  <2> QED BY <1>2, <1>4
<1> HIDE DEF group
<1>6. Grown(end, {end.at}) /\ (~Grown(end, {}) => free)
  <2>1. CASE IsLeaf(r) /\ route.index
    <3>1. end = NewChild(group, "index", <<>>, r) BY <2>1
    <3> HIDE DEF Grown, end
    <3> QED BY <1>4, <1>5, <2>1, <3>1
  <2>2. CASE ~(IsLeaf(r) /\ route.index)
    <3>1. end = group BY <2>2
    <3>2. Indices(end.tree, {}) => Indices(end.tree, {end.at}) BY DEF Indices
    <3> HIDE DEF end
    <3> QED BY <1>5, <3>1, <3>2
  <2> QED BY <2>1, <2>2
<1> DEFINE t == end.tree  at == end.at
           node == [end.tree[end.at] EXCEPT !.guard = IF HasGuard(r) THEN r ELSE 0,
                                            !.route = IF free THEN r ELSE @,
                                            !.full = IF free THEN r ELSE @]
           u == [t EXCEPT ![at] = node]
<1>7. TrieOK(t) /\ at \in DOMAIN t /\ t \in Seq(Node) /\ end = [tree |-> t, at |-> at, ends |-> E]
      /\ n <= Len(t)
  <2> HIDE DEF end
  <2> QED BY <1>6 DEF TrieOK
<1>8. new = [tree |-> u, at |-> at, ends |-> Extended(E, Maps(r, at))]
  <2>1. new = [end EXCEPT !.ends = Extended(@, Maps(r, end.at)), !.tree = [@ EXCEPT ![end.at] = node]]
    BY DEF AddRoute, last, group
  <2>2. PICK x : x = node OBVIOUS
  <2>3. PICK e : e = end OBVIOUS
  <2>4. new = [e EXCEPT !.ends = Extended(@, Maps(r, e.at)), !.tree = [@ EXCEPT ![e.at] = x]]
    <3> HIDE DEF node, end
    <3> QED BY <2>1, <2>2, <2>3
  <2>5. e = [tree |-> e.tree, at |-> e.at, ends |-> E] /\ e.tree = t /\ e.at = at BY <1>7, <2>3
  <2>6. PICK w, v : w = Extended(E, Maps(r, e.at)) /\ v = [e.tree EXCEPT ![e.at] = x] OBVIOUS
  <2>7. new = [e EXCEPT !.ends = w, !.tree = v]
    <3>1. e.ends = E BY <2>5
    <3> HIDE DEF node, end, t, at
    <3> QED BY <2>4, <2>6, <3>1
  <2>8. new = [tree |-> v, at |-> e.at, ends |-> w]
    <3> HIDE DEF node, end, t, at
    <3> QED BY <2>5, <2>7
  <2> HIDE DEF node, end
  <2> QED BY <2>2, <2>5, <2>6, <2>8
<1>9. t[at] \in Node /\ at \in Nat
  <2> HIDE DEF end
  <2> QED BY <1>7, MembersIn, Zenon
<1>10. /\ node \in Node /\ node.kind = t[at].kind /\ node.branch = t[at].branch
       /\ node.route # 0 => node.full = node.route
       /\ t[at].route # 0 => node.route # 0
       /\ free => node.route # 0
  <2>1. t[at].route # 0 => t[at].full = t[at].route BY <1>7 DEF TrieOK
  <2> PICK x \in Node : x = t[at] BY <1>9
  <2>2. PICK g \in Nat : g = IF HasGuard(r) THEN r ELSE 0 BY <1>1
  <2>3. node = [x EXCEPT !.guard = g, !.route = IF free THEN r ELSE x.route,
                         !.full = IF free THEN r ELSE x.full]
    BY <2>2
  <2>4. free => x.route = 0 OBVIOUS
  <2>5. PICK y : y = node OBVIOUS
  <2>6. free => y = [x EXCEPT !.guard = g, !.route = r, !.full = r]
    <3> HIDE DEF free, end
    <3> QED BY <2>3, <2>5 DEF Node
  <2>7. ~free => y = [x EXCEPT !.guard = g]
    <3> HIDE DEF free, end
    <3> QED BY <2>3, <2>5 DEF Node
  <2>8. /\ y \in Node /\ y.kind = x.kind /\ y.branch = x.branch
        /\ free => y.route = r /\ y.full = r
        /\ ~free => y.route = x.route /\ y.full = x.full
    <3> HIDE DEF free, end, node
    <3> QED BY <1>1, <2>6, <2>7 DEF Node
  <2> HIDE DEF node, free, end
  <2> QED BY <1>1, <2>1, <2>4, <2>5, <2>8
<1> HIDE DEF node, free, end
<1>11. /\ u \in Seq(Node) /\ DOMAIN u = DOMAIN t /\ Len(u) = Len(t) /\ u[at] = node
       /\ \A i \in DOMAIN t : i # at => u[i] = t[i]
  BY <1>7, <1>10
<1> HIDE DEF u
<1>12. TrieOK(u)
  <2>1. u # <<>> /\ u[1].branch = <<>> BY <1>7, <1>10, <1>11 DEF TrieOK
  <2>2. ASSUME NEW i \in DOMAIN u
        PROVE  u[i].branch = t[i].branch /\ u[i].kind = t[i].kind
               /\ (u[i].route # 0 => u[i].full = u[i].route)
    BY <1>7, <1>10, <1>11 DEF TrieOK
  <2>3. Nested(u)
    <3>1. \A i \in DOMAIN t : t[i].branch \in Seq(Nat)
      <4>1. \A i \in DOMAIN t : t[i] \in Node BY <1>7, MembersIn, Zenon
      <4> QED BY <4>1 DEF Node
    <3>2. \A i \in DOMAIN t : u[i].branch = t[i].branch BY <1>11, <2>2
    <3>3. \A i \in DOMAIN t : \A k \in 1..Len(t[i].branch) : t[i].branch[k] \in DOMAIN t
      BY <1>7, <3>1 DEF TrieOK
    <3>4. Nested(t) BY <1>7 DEF TrieOK
    <3> SUFFICES ASSUME NEW i \in DOMAIN u
                 PROVE  /\ i # 1 => u[i].branch # <<>>
                        /\ \A k \in 1..Len(u[i].branch) :
                             /\ Len(u[u[i].branch[k]].branch) = k
                             /\ \A j \in 1..k : u[u[i].branch[k]].branch[j] = u[i].branch[j]
      BY DEF Nested
    <3>5. PICK d : d = t[i].branch /\ u[i].branch = d /\ i \in DOMAIN t /\ d \in Seq(Nat)
      BY <1>11, <3>1, <3>2
    <3>6. \A k \in 1..Len(d) : d[k] \in DOMAIN t BY <3>3, <3>5
    <3>7. /\ i # 1 => d # <<>>
          /\ \A k \in 1..Len(d) : /\ Len(t[d[k]].branch) = k
                                   /\ \A j \in 1..k : t[d[k]].branch[j] = d[j]
      BY <3>4, <3>5 DEF Nested
    <3>8. ASSUME NEW k \in 1..Len(d)
          PROVE  Len(u[d[k]].branch) = k /\ \A j \in 1..k : u[d[k]].branch[j] = d[j]
      <4>1. u[d[k]].branch = t[d[k]].branch BY <3>2, <3>6
      <4> QED BY <3>7, <4>1
    <3> QED BY <3>5, <3>7, <3>8
  <2> QED BY <1>7, <1>11, <2>1, <2>2, <2>3 DEF TrieOK
<1>13. Indices(u, {})
  <2> SUFFICES ASSUME NEW i \in DOMAIN u, u[i].kind = "index" PROVE u[i].route # 0
    BY DEF Indices
  <2>1. CASE i = at
    <3>1. t[at].kind = "index" BY <1>10, <1>11, <2>1
    <3>2. Indices(t, {}) => t[at].route # 0 BY <1>7, <3>1 DEF Indices
    <3>3. ~Indices(t, {}) => free BY <1>6, <1>7
    <3> QED BY <1>10, <1>11, <2>1, <3>2, <3>3
  <2>2. CASE i # at
    <3>1. Indices(t, {at}) BY <1>6
    <3> QED BY <1>11, <2>2, <3>1 DEF Indices
  <2> QED BY <2>1, <2>2
<1>14. new.tree = u /\ new.at = at BY <1>8
<1> HIDE DEF t, at
<1>15. new = [tree |-> new.tree, at |-> new.at, ends |-> Extended(E, Maps(r, new.at))] BY <1>8, <1>14
<1> QED BY <1>7, <1>11, <1>12, <1>13, <1>14, <1>15

LEMMA TreeOfOK ==
  ASSUME NEW o \in Orders
  PROVE  TrieOK(TreeOf(o)) /\ Indices(TreeOf(o), {})
<1> DEFINE L == Len(o)
           a == [tree |-> <<Root>>, at |-> 1, ends |-> Maps(0, 1)]
           Is(f) == f = [i \in 0..L |-> IF i = 0 THEN a ELSE AddRoute(f[i - 1], o[i])]
           Known(acc) == /\ acc = [tree |-> acc.tree, at |-> acc.at, ends |-> acc.ends]
                         /\ TrieOK(acc.tree) /\ acc.at \in DOMAIN acc.tree /\ Indices(acc.tree, {})
                         /\ \A x \in DOMAIN acc.ends : acc.ends[x] \in DOMAIN acc.tree
           All == [tree : Seq(Node), at : Nat, ends : UNION {[D -> Nat] : D \in SUBSET Nat}]
           Sets == [i \in 0..L |-> {acc \in All :
                      Known(acc) /\ {0} \cup {o[j] : j \in 1..i} \subseteq DOMAIN acc.ends}]
<1>1. L \in Nat /\ \A i \in 1..L : o[i] \in DOMAIN Catalogue /\ o[i] \in Nat
  <2>1. o \in Seq(DOMAIN Catalogue) BY OrderAssumption
  <2>2. \A r \in DOMAIN Catalogue : r \in Nat BY CatalogueOK
  <2> QED BY <2>1, <2>2
<1>2. a \in Sets[0]
  <2>1. Root \in Node /\ Root.branch = <<>> /\ Root.route = 0 /\ Root.kind # "index"
    <3>1. <<>> \in Text /\ <<>> \in Seq(Nat) BY DEF Text
    <3> QED BY <3>1 DEF Root, Node, Kinds
  <2>2. PICK x : x = Root OBVIOUS
  <2>3. /\ <<x>> \in Seq(Node) /\ <<x>> # <<>> /\ DOMAIN <<x>> = {1} /\ <<x>>[1] = x
    BY <2>1, <2>2
  <2>4. TrieOK(<<x>>) /\ Indices(<<x>>, {})
    <3>1. x.branch = <<>> /\ x.route = 0 /\ x.kind # "index" BY <2>1, <2>2
    <3>2. Len(x.branch) = 0 /\ 1..0 = {} BY <3>1
    <3>3. Nested(<<x>>) BY <2>3, <3>1, <3>2 DEF Nested
    <3> QED BY <2>3, <3>1, <3>3 DEF TrieOK, Indices
  <2>5. PICK ends : ends = Maps(0, 1) OBVIOUS
  <2>6. ends = [i \in {0} |-> 1] BY <2>5 DEF Maps
  <2>7. DOMAIN ends = {0} /\ ends[0] = 1 /\ ends \in UNION {[D -> Nat] : D \in SUBSET Nat}
    BY <2>6
  <2>8. a = [tree |-> <<x>>, at |-> 1, ends |-> ends] BY <2>2, <2>5
  <2>9. {0} \cup {o[j] : j \in 1..0} \subseteq DOMAIN ends BY <2>7
  <2>10. a.tree = <<x>> /\ a.at = 1 /\ a.ends = ends BY <2>8
  <2> HIDE DEF a
  <2>11. a \in All BY <2>3, <2>7, <2>8
  <2>12. Known(a) BY <2>3, <2>4, <2>7, <2>8, <2>10
  <2> HIDE DEF All, Known
  <2> QED BY <1>1, <2>9, <2>10, <2>11, <2>12
<1>3. \A i \in 1..L : \A x \in Sets[i - 1] : AddRoute(x, o[i]) \in Sets[i]
  <2> SUFFICES ASSUME NEW i \in 1..L, NEW x \in Sets[i - 1] PROVE AddRoute(x, o[i]) \in Sets[i]
    OBVIOUS
  <2>1. i - 1 \in 0..L /\ i \in 0..L BY <1>1
  <2>2. x \in All /\ Known(x) /\ {0} \cup {o[j] : j \in 1..(i - 1)} \subseteq DOMAIN x.ends
    <3> HIDE DEF All, Known
    <3> QED BY <2>1
  <2>3. PICK r \in DOMAIN Catalogue : r = o[i] BY <1>1
  <2>4. PICK E : E = x.ends OBVIOUS
  <2>5. PICK D \in SUBSET Nat : E \in [D -> Nat] BY <2>2, <2>4
  <2>6. PICK n \in Nat : n = Len(x.tree) /\ DOMAIN x.tree = 1..n BY <2>2 DEF TrieOK
  <2>7. x \in Building(E, n) BY <2>2, <2>4, <2>6 DEF Building
  <2>8. E[Catalogue[r].up] \in DOMAIN x.tree
    <3>1. o \in Orders /\ i \in DOMAIN o BY <1>1, OrderAssumption
    <3>2. Catalogue[r].up \in {0} \cup {o[j] : j \in 1..(i - 1)} BY <2>3, <3>1, OrderAssumption
    <3> QED BY <2>2, <2>4, <3>2
  <2>9. PICK new : new = AddRoute(x, r) OBVIOUS
  <2>10. PICK F : F = Extended(E, Maps(r, new.at)) OBVIOUS
  <2>11. /\ new = [tree |-> new.tree, at |-> new.at, ends |-> F]
         /\ TrieOK(new.tree) /\ new.at \in DOMAIN new.tree /\ Indices(new.tree, {})
         /\ n <= Len(new.tree)
    <3> HIDE DEF Sets
    <3> QED BY <2>7, <2>8, <2>9, <2>10, AddRouteOK
  <2>12. PICK m \in Nat : m = Len(new.tree) /\ DOMAIN new.tree = 1..m /\ new.tree \in Seq(Node)
    <3>1. PICK u : u = new.tree /\ u \in Seq(Node) BY <2>11 DEF TrieOK
    <3>2. Len(u) \in Nat /\ DOMAIN u = 1..Len(u) BY <3>1
    <3> QED BY <3>1, <3>2
  <2>13. F = [y \in DOMAIN E \cup {r} |-> IF y \in DOMAIN E THEN E[y] ELSE new.at]
    <3>1. PICK G : G = Maps(r, new.at) OBVIOUS
    <3>2. G = [y \in {r} |-> new.at] BY <3>1 DEF Maps
    <3>3. F = [y \in DOMAIN E \cup DOMAIN G |-> IF y \in DOMAIN E THEN E[y] ELSE G[y]]
      BY <2>10, <3>1 DEF Extended
    <3>4. DOMAIN G = {r} /\ \A y \in {r} : G[y] = new.at BY <3>2
    <3> QED BY <3>3, <3>4
  <2>14. r \in Nat BY <1>1, <2>3
  <2>15. new.at \in Nat BY <2>11, <2>12
  <2>16. F \in [D \cup {r} -> Nat] /\ DOMAIN F = DOMAIN E \cup {r} BY <2>5, <2>13, <2>15
  <2>17. ASSUME NEW y \in DOMAIN F PROVE F[y] \in DOMAIN new.tree
    <3>1. y \in DOMAIN E => F[y] = E[y] /\ E[y] \in 1..n BY <2>2, <2>4, <2>6, <2>13
    <3>2. y \notin DOMAIN E => F[y] = new.at BY <2>13
    <3> QED BY <2>11, <2>12, <3>1, <3>2
  <2>18. new.ends = F BY <2>11
  <2>19. new \in All
    <3>1. D \cup {r} \in SUBSET Nat BY <2>14
    <3>2. F \in UNION {[C -> Nat] : C \in SUBSET Nat} BY <2>16, <3>1
    <3> QED BY <2>11, <2>12, <2>15, <2>18, <3>2
  <2>20. Known(new) BY <2>11, <2>17, <2>18
  <2>21. {0} \cup {o[j] : j \in 1..i} \subseteq DOMAIN new.ends
    <3>1. \A j \in 1..i : j = i \/ j \in 1..(i - 1) BY <1>1
    <3> QED BY <2>2, <2>3, <2>4, <2>16, <2>18, <3>1
  <2> HIDE DEF All, Known
  <2> QED BY <2>1, <2>3, <2>9, <2>19, <2>20, <2>21
<1> DEFINE U == UNION {Sets[i] : i \in 0..L}
<1> HIDE DEF a, L, Sets
<1>4. \E f : Is(f)
  <2> DEFINE g == [p \in (1..L) \X U |-> AddRoute(p[2], o[p[1]])]
  <2>1. \A i \in 1..L : \A x \in Sets[i - 1] : g[<<i, x>>] = AddRoute(x, o[i]) /\ g[<<i, x>>] \in Sets[i]
    <3> SUFFICES ASSUME NEW i \in 1..L, NEW x \in Sets[i - 1]
                 PROVE  g[<<i, x>>] = AddRoute(x, o[i]) /\ g[<<i, x>>] \in Sets[i]
      OBVIOUS
    <3>1. x \in U BY <1>1
    <3>2. g[<<i, x>>] = AddRoute(x, o[i]) BY <3>1
    <3> HIDE DEF g
    <3> QED BY <1>3, <3>2
  <2> HIDE DEF g
  <2>2. PICK f : f = [i \in 0..L |-> IF i = 0 THEN a ELSE g[<<i, f[i - 1]>>]]
    <3>1. \E f : Steps(f, L, a, g) BY <1>1, <1>2, <2>1, Iterate
    <3> QED BY <3>1 DEF Steps
  <2> DEFINE T == {i \in 0..L : f[i] \in Sets[i]}
  <2>3. \A i \in 0..L : i \in T
    <3>1. 0 \in T BY <1>1, <1>2, <2>2
    <3>2. ASSUME NEW k \in 0..(L - 1), k \in T PROVE k + 1 \in T
      <4>1. f[k + 1] = g[<<k + 1, f[k]>>] BY <1>1, <2>2
      <4>2. k + 1 \in 1..L /\ (k + 1) - 1 = k /\ f[k] \in Sets[k] BY <1>1, <3>2
      <4>3. g[<<k + 1, f[k]>>] \in Sets[k + 1] BY <2>1, <4>2
      <4> QED BY <4>1, <4>2, <4>3
    <3> HIDE DEF T
    <3> QED BY <1>1, <3>1, <3>2, SetInduction
  <2>4. \A i \in 1..L : g[<<i, f[i - 1]>>] = AddRoute(f[i - 1], o[i])
    <3> SUFFICES ASSUME NEW i \in 1..L PROVE g[<<i, f[i - 1]>>] = AddRoute(f[i - 1], o[i])
      OBVIOUS
    <3>1. i - 1 \in T BY <1>1, <2>3
    <3> QED BY <2>1, <3>1
  <2>5. Is(f)
    <3>1. \A i \in 0..L : i # 0 => i \in 1..L BY <1>1
    <3> QED BY <2>2, <2>4, <3>1
  <2> HIDE DEF Is
  <2> QED BY <2>5
<1>5. PICK f : Is(f) /\ TreeOf(o) = f[L].tree
  <2>1. TreeOf(o) = (CHOOSE f : Is(f))[L].tree BY DEF TreeOf, a, L
  <2> HIDE DEF Is
  <2> QED BY <1>4, <2>1
<1> DEFINE T == {i \in 0..L : f[i] \in Sets[i]}
<1>6. 0 \in T BY <1>1, <1>2, <1>5
<1>7. ASSUME NEW k \in 0..(L - 1), k \in T PROVE k + 1 \in T
  <2>1. f[k + 1] = AddRoute(f[k], o[k + 1]) BY <1>1, <1>5
  <2>2. k + 1 \in 1..L /\ (k + 1) - 1 = k /\ f[k] \in Sets[k] BY <1>1, <1>7
  <2>3. AddRoute(f[k], o[k + 1]) \in Sets[k + 1] BY <1>3, <2>2
  <2> QED BY <2>1, <2>2, <2>3
<1>8. L \in T
  <2> HIDE DEF T, Is
  <2> QED BY <1>1, <1>6, <1>7, SetInduction
<1>9. Known(f[L])
  <2> HIDE DEF Known, All
  <2> QED BY <1>1, <1>8 DEF Sets
<1> QED BY <1>5, <1>9

-----------------------------------------------------------------------------
(* What the parts of a path score. *)

\* A set of parts scores the number of the sets it leads.
Less(N, T) == {X \in SUBSET (1..N) : Leads(T, X)}
Score(N, T) == Cardinality(Less(N, T))

LEMMA LeadsOn ==
  ASSUME NEW N \in Nat, NEW T \in SUBSET (1..N), NEW U \in SUBSET (1..N), NEW X \in SUBSET (1..N),
         Leads(T, U), Leads(U, X)
  PROVE  Leads(T, X)
<1>1. PICK i \in T \ U : \A j \in 1..(i - 1) : j \in T <=> j \in U BY DEF Leads
<1>2. PICK k \in U \ X : \A j \in 1..(k - 1) : j \in U <=> j \in X BY DEF Leads
<1>3. i \in 1..N /\ k \in 1..N /\ i # k OBVIOUS
<1>4. CASE i < k
  <2>1. i \in 1..(k - 1) /\ \A j \in 1..(i - 1) : j \in 1..(k - 1) BY <1>3, <1>4
  <2>2. i \in T \ X /\ \A j \in 1..(i - 1) : j \in T <=> j \in X BY <1>1, <1>2, <2>1
  <2> QED BY <2>2 DEF Leads
<1>5. CASE k < i
  <2>1. k \in 1..(i - 1) /\ \A j \in 1..(k - 1) : j \in 1..(i - 1) BY <1>3, <1>5
  <2>2. k \in T \ X /\ \A j \in 1..(k - 1) : j \in T <=> j \in X BY <1>1, <1>2, <2>1
  <2> QED BY <2>2 DEF Leads
<1> QED BY <1>3, <1>4, <1>5

LEMMA Powers ==
  ASSUME NEW N \in Nat
  PROVE  /\ IsFiniteSet(SUBSET (1..N)) /\ Cardinality(SUBSET (1..N)) = 2^N /\ 2^N \in Nat
<1>1. IsFiniteSet(1..N) /\ Cardinality(1..N) = N BY FS_Interval
<1>2. IsFiniteSet(SUBSET (1..N)) /\ Cardinality(SUBSET (1..N)) = 2^Cardinality(1..N)
  BY <1>1, FS_SUBSET
<1>3. Cardinality(SUBSET (1..N)) \in Nat BY <1>2, FS_CardinalityType
<1> QED BY <1>1, <1>2, <1>3

LEMMA ScoreIs ==
  ASSUME NEW N \in Nat, NEW T
  PROVE  IsFiniteSet(Less(N, T)) /\ Score(N, T) \in Nat
<1>1. Less(N, T) \subseteq SUBSET (1..N) BY DEF Less
<1>2. IsFiniteSet(Less(N, T)) BY <1>1, Powers, FS_Subset
<1> QED BY <1>2, FS_CardinalityType DEF Score

LEMMA ScoreMore ==
  ASSUME NEW N \in Nat, NEW T \in SUBSET (1..N), NEW U \in SUBSET (1..N), Leads(T, U)
  PROVE  Score(N, T) > Score(N, U)
<1>1. PICK A, B : A = Less(N, T) /\ B = Less(N, U) OBVIOUS
<1>2. B \subseteq A BY <1>1, LeadsOn DEF Less
<1>3. U \in A BY <1>1 DEF Less
<1>4. ~Leads(U, U) BY DEF Leads
<1>5. U \notin B BY <1>1, <1>4 DEF Less
<1>6. IsFiniteSet(A) /\ Cardinality(A) \in Nat /\ Cardinality(B) \in Nat
  BY <1>1, ScoreIs DEF Score
<1>7. Cardinality(B) <= Cardinality(A) /\ (Cardinality(B) = Cardinality(A) => A = B)
  BY <1>2, <1>6, FS_Subset
<1>8. Cardinality(A) > Cardinality(B) BY <1>3, <1>5, <1>6, <1>7
<1> QED BY <1>1, <1>8 DEF Score

LEMMA ScoreNone ==
  ASSUME NEW N \in Nat
  PROVE  Score(N, {}) = 0
<1>1. Less(N, {}) = {} BY DEF Less, Leads
<1> QED BY <1>1, FS_EmptySet DEF Score

LEMMA ScoreTop ==
  ASSUME NEW N \in Nat, NEW T \in SUBSET (1..N)
  PROVE  Score(N, T) <= 2^N - 1 /\ (Score(N, T) = 2^N - 1 => T = 1..N)
<1>1. PICK P, A, B : P = SUBSET (1..N) /\ A = Less(N, T) /\ B = P \ {T} OBVIOUS
<1>2. IsFiniteSet(P) /\ Cardinality(P) = 2^N /\ 2^N \in Nat BY <1>1, Powers
<1>3. ~Leads(T, T) BY DEF Leads
<1>4. A \subseteq B BY <1>1, <1>3 DEF Less
<1>5. IsFiniteSet(B) /\ Cardinality(B) = Cardinality(P) - 1
  <2>1. T \in P BY <1>1
  <2> QED BY <1>1, <1>2, <2>1, FS_RemoveElement
<1>6. /\ Cardinality(A) <= Cardinality(B)
      /\ Cardinality(A) = Cardinality(B) => A = B
  BY <1>4, <1>5, FS_Subset
<1>7. ASSUME A = B PROVE T = 1..N
  <2> SUFFICES ASSUME T # 1..N PROVE FALSE OBVIOUS
  <2>1. 1..N \in A BY <1>1, <1>7
  <2>2. Leads(T, 1..N) BY <1>1, <2>1 DEF Less
  <2> QED BY <2>2 DEF Leads
<1>8. Score(N, T) = Cardinality(A) BY <1>1 DEF Score
<1> QED BY <1>2, <1>5, <1>6, <1>7, <1>8

LEMMA ScoreAdd ==
  ASSUME NEW N \in Nat, NEW i \in 1..N, NEW T \in SUBSET (1..(i - 1))
  PROVE  Score(N, T \cup {i}) = Score(N, T) + 2^(N - i)
<1>1. PICK A, B, C, D : /\ A = Less(N, T) /\ C = Less(N, T \cup {i})
                        /\ B = {X \in SUBSET (1..N) : /\ \A j \in 1..(i - 1) : j \in T <=> j \in X
                                                      /\ i \notin X}
                        /\ D = SUBSET ((i + 1)..N)
  OBVIOUS
<1>2. A \cap B = {}
  <2> SUFFICES ASSUME NEW X \in A \cap B PROVE FALSE OBVIOUS
  <2>1. Leads(T, X) /\ \A j \in 1..(i - 1) : j \in T <=> j \in X BY <1>1 DEF Less
  <2> QED BY <2>1 DEF Leads
<1>3. C = A \cup B
  <2> SUFFICES ASSUME NEW X \in SUBSET (1..N)
               PROVE  Leads(T \cup {i}, X) <=> Leads(T, X) \/ X \in B
    BY <1>1 DEF Less
  <2>1. ASSUME Leads(T \cup {i}, X) PROVE Leads(T, X) \/ X \in B
    <3>1. PICK k \in (T \cup {i}) \ X : \A j \in 1..(k - 1) : j \in T \cup {i} <=> j \in X
      BY <2>1 DEF Leads
    <3>2. CASE k = i
      <4>1. \A j \in 1..(i - 1) : j \in T <=> j \in X BY <3>1, <3>2
      <4> QED BY <1>1, <3>1, <3>2, <4>1
    <3>3. CASE k # i
      <4>1. k \in T \ X /\ k \in 1..(i - 1) BY <3>1, <3>3
      <4>2. \A j \in 1..(k - 1) : j # i BY <4>1
      <4>3. \A j \in 1..(k - 1) : j \in T <=> j \in X BY <3>1, <4>2
      <4> QED BY <4>1, <4>3 DEF Leads
    <3> QED BY <3>2, <3>3
  <2>2. ASSUME Leads(T, X) PROVE Leads(T \cup {i}, X)
    <3>1. PICK k \in T \ X : \A j \in 1..(k - 1) : j \in T <=> j \in X BY <2>2 DEF Leads
    <3>2. \A j \in 1..(k - 1) : j # i OBVIOUS
    <3>3. k \in (T \cup {i}) \ X /\ \A j \in 1..(k - 1) : j \in T \cup {i} <=> j \in X
      BY <3>1, <3>2
    <3> QED BY <3>3 DEF Leads
  <2>3. ASSUME X \in B PROVE Leads(T \cup {i}, X)
    <3>1. i \notin X /\ \A j \in 1..(i - 1) : j \in T <=> j \in X BY <1>1, <2>3
    <3>2. i \in (T \cup {i}) \ X /\ \A j \in 1..(i - 1) : j \in T \cup {i} <=> j \in X BY <3>1
    <3> QED BY <3>2 DEF Leads
  <2> QED BY <2>1, <2>2, <2>3
<1>4. IsFiniteSet(D) /\ Cardinality(D) = 2^(N - i)
  <2>1. IsFiniteSet((i + 1)..N) /\ Cardinality((i + 1)..N) = N - i
    <3>1. PICK a : a = i + 1 /\ a \in Int /\ a <= N + 1 OBVIOUS
    <3>2. IsFiniteSet(a..N) /\ Cardinality(a..N) = IF a > N THEN 0 ELSE N - a + 1
      BY <3>1, FS_Interval
    <3> QED BY <3>1, <3>2
  <2> QED BY <1>1, <2>1, FS_SUBSET
<1>5. ExistsBijection(D, B)
  <2> DEFINE f == [Y \in D |-> T \cup Y]
  <2>1. f \in [D -> B]
    <3> SUFFICES ASSUME NEW Y \in D PROVE T \cup Y \in B OBVIOUS
    <3>1. Y \subseteq (i + 1)..N BY <1>1
    <3>2. T \cup Y \in SUBSET (1..N) BY <3>1
    <3>3. i \notin T \cup Y BY <3>1
    <3>4. \A j \in 1..(i - 1) : j \notin Y BY <3>1
    <3> QED BY <1>1, <3>2, <3>3, <3>4
  <2>2. ASSUME NEW Y \in D, NEW Z \in D, f[Y] = f[Z] PROVE Y = Z
    <3>1. T \cup Y = T \cup Z BY <2>2
    <3>2. \A j \in Y \cup Z : j \notin T BY <1>1
    <3> QED BY <3>1, <3>2
  <2>3. ASSUME NEW X \in B PROVE \E Y \in D : f[Y] = X
    <3>1. PICK Y : Y = X \cap ((i + 1)..N) OBVIOUS
    <3>2. X \subseteq 1..N /\ i \notin X /\ \A j \in 1..(i - 1) : j \in T <=> j \in X
      BY <1>1, <2>3
    <3>3. \A j : j \in X <=> j \in T \cup Y
      <4> SUFFICES ASSUME NEW j PROVE j \in X <=> j \in T \cup Y OBVIOUS
      <4>1. j \in X => j \in 1..(i - 1) \/ j \in (i + 1)..N BY <3>2
      <4>2. j \in T => j \in 1..(i - 1) OBVIOUS
      <4> QED BY <3>1, <3>2, <4>1, <4>2
    <3>4. Y \in D /\ T \cup Y = X BY <1>1, <3>1, <3>3
    <3> QED BY <3>4
  <2> HIDE DEF f
  <2>4. f \in Bijection(D, B) BY <2>1, <2>2, <2>3 DEF Bijection, Injection, Surjection, IsInjective
  <2> QED BY <2>4 DEF ExistsBijection
<1>6. IsFiniteSet(B) /\ Cardinality(B) = 2^(N - i) BY <1>4, <1>5, FS_Bijection
<1>7. IsFiniteSet(A) /\ Cardinality(A) \in Nat BY <1>1, ScoreIs DEF Score
<1>8. Cardinality(A \cup B) = Cardinality(A) + Cardinality(B) - Cardinality(A \cap B)
  BY <1>6, <1>7, FS_Union
<1>9. Cardinality(A \cap B) = 0 BY <1>2, FS_EmptySet
<1>10. Cardinality(B) \in Nat BY <1>6, FS_CardinalityType
<1>11. Cardinality(C) = Cardinality(A) + 2^(N - i) BY <1>3, <1>6, <1>7, <1>8, <1>9, <1>10
<1> QED BY <1>1, <1>11 DEF Score

-----------------------------------------------------------------------------
(* Where the nodes of a branch stand. *)

PathOK == path \in [parts : Seq(Text), slash : BOOLEAN]

LEMMA BeyondIs ==
  ASSUME PathOK
  PROVE  parts \in Seq(Text) /\ Len(parts) \in Nat /\ Beyond \in Nat /\ Beyond >= 1
BY DEF PathOK, parts, Beyond

LEMMA ChildBranch ==
  ASSUME TrieOK(tree), NEW n \in DOMAIN tree, NEW c \in Children(tree, n)
  PROVE  /\ c \in DOMAIN tree /\ tree[n].branch \in Seq(Nat)
         /\ tree[c].branch = Append(tree[n].branch, c)
<1> DEFINE b == tree[n].branch  d == tree[c].branch
<1>1. c \in DOMAIN tree /\ d # <<>> /\ Front(d) = b BY DEF Children
<1>2. tree[c] \in Node /\ tree[n] \in Node BY <1>1, MembersIn, Zenon DEF TrieOK
<1>3. d \in Seq(Nat) /\ b \in Seq(Nat) /\ c \in Nat
  <2>1. c \in Nat BY <1>1, MembersIn DEF TrieOK
  <2>2. \A x \in Node : x.branch \in Seq(Nat) BY DEF Node
  <2> QED BY <1>2, <2>1, <2>2
<1>4. d[Len(d)] = c BY <1>1 DEF TrieOK
<1> HIDE DEF d, b
<1>5. d = Append(b, c) BY <1>1, <1>3, <1>4 DEF Front
<1> QED BY <1>1, <1>3, <1>5 DEF d, b

\* Of two counts the second has one place more.
Count(T, k) == Cardinality({j \in 1..k : j \in T})

LEMMA CountNext ==
  ASSUME NEW k \in Nat, NEW T
  PROVE  /\ Count(T, k) \in Nat
         /\ Count(T, k + 1) = Count(T, k) + (IF k + 1 \in T THEN 1 ELSE 0)
<1> DEFINE P == {j \in 1..(k + 1) : j \in T}  Q == {j \in 1..k : j \in T}
<1>1. IsFiniteSet(Q)
  <2>1. IsFiniteSet(1..k) BY FS_Interval
  <2>2. Q \subseteq 1..k OBVIOUS
  <2> HIDE DEF Q
  <2> QED BY <2>1, <2>2, FS_Subset
<1>2. k + 1 \notin Q OBVIOUS
<1>3. k + 1 \in T => P = Q \cup {k + 1} OBVIOUS
<1>4. k + 1 \notin T => P = Q OBVIOUS
<1>5. Cardinality(Q \cup {k + 1}) = Cardinality(Q) + 1
  <2> HIDE DEF Q
  <2> QED BY <1>1, <1>2, FS_AddElement
<1>6. Cardinality(Q) \in Nat
  <2> HIDE DEF Q
  <2> QED BY <1>1, FS_CardinalityType
<1> HIDE DEF P, Q
<1>7. Cardinality(P) = Cardinality(Q) + (IF k + 1 \in T THEN 1 ELSE 0)
  <2>1. CASE k + 1 \in T BY <1>3, <1>5, <2>1
  <2>2. CASE k + 1 \notin T BY <1>4, <1>6, <2>2
  <2> QED BY <2>1, <2>2
<1> QED BY <1>6, <1>7 DEF P, Q, Count

WildBefore(b, k) == \E j \in 1..(k - 1) : Kind(b, j) = "wildcard"

LEMMA PartFirst ==
  ASSUME NEW b, NEW S
  PROVE  PartAt(b, S, 1) = 1 /\ Segment(b, 1) = 1
<1>1. /\ {j \in 1..(1 - 1) : Takes(b, S, j)} = {}
      /\ {j \in 1..(1 - 1) : Kind(b, j) \notin {"pathless", "index"}} = {}
  OBVIOUS
<1>2. ~WildBefore(b, 1) BY DEF WildBefore
<1> QED BY <1>1, <1>2, FS_EmptySet DEF PartAt, Segment, WildBefore

LEMMA PartNext ==
  ASSUME PathOK, NEW b, NEW S, NEW k \in Nat \ {0}
  PROVE  /\ PartAt(b, S, k) \in Nat /\ PartAt(b, S, k) >= 1
         /\ WildBefore(b, k) => PartAt(b, S, k) = Beyond
         /\ WildBefore(b, k) \/ Kind(b, k) = "wildcard" => PartAt(b, S, k + 1) = Beyond
         /\ ~WildBefore(b, k) /\ Takes(b, S, k) /\ Kind(b, k) # "wildcard"
              => PartAt(b, S, k + 1) = PartAt(b, S, k) + 1
         /\ ~WildBefore(b, k) /\ ~Takes(b, S, k) /\ Kind(b, k) # "wildcard"
              => PartAt(b, S, k + 1) = PartAt(b, S, k)
<1> DEFINE T == {j \in Nat : Takes(b, S, j)}
           C(i) == Cardinality({j \in 1..(i - 1) : Takes(b, S, j)})
<1>1. PICK m \in Nat : k = m + 1 /\ k - 1 = m
  <2>1. k - 1 \in Nat /\ k = (k - 1) + 1 OBVIOUS
  <2> QED BY <2>1
<1>2. C(k) \in Nat /\ C(k + 1) = C(k) + (IF Takes(b, S, k) THEN 1 ELSE 0)
  <2>1. {j \in 1..m : j \in T} = {j \in 1..(k - 1) : Takes(b, S, j)} BY <1>1
  <2>2. {j \in 1..(m + 1) : j \in T} = {j \in 1..((k + 1) - 1) : Takes(b, S, j)} BY <1>1
  <2>3. k \in T <=> Takes(b, S, k) OBVIOUS
  <2>4. C(k) = Count(T, m) /\ C(k + 1) = Count(T, m + 1) BY <2>1, <2>2 DEF Count
  <2> HIDE DEF T, C
  <2>5. Count(T, m) \in Nat /\ Count(T, m + 1) = Count(T, m) + (IF m + 1 \in T THEN 1 ELSE 0)
    BY CountNext
  <2> QED BY <1>1, <2>3, <2>4, <2>5
<1>3. WildBefore(b, k + 1) <=> WildBefore(b, k) \/ Kind(b, k) = "wildcard"
  <2>1. \A j : j \in 1..((k + 1) - 1) <=> j = k \/ j \in 1..(k - 1) OBVIOUS
  <2> QED BY <2>1 DEF WildBefore
<1>4. \A i : PartAt(b, S, i) = IF WildBefore(b, i) THEN Beyond ELSE 1 + C(i)
  BY DEF PartAt, WildBefore
<1> HIDE DEF C
<1> QED BY <1>2, <1>3, <1>4, BeyondIs

LEMMA SegmentNext ==
  ASSUME NEW b, NEW k \in Nat \ {0}
  PROVE  /\ Segment(b, k) \in Nat
         /\ Kind(b, k) \in {"pathless", "index"} => Segment(b, k + 1) = Segment(b, k)
         /\ Kind(b, k) \notin {"pathless", "index"} => Segment(b, k + 1) = Segment(b, k) + 1
<1> DEFINE T == {j \in Nat : Kind(b, j) \notin {"pathless", "index"}}
           C(i) == Cardinality({j \in 1..(i - 1) : Kind(b, j) \notin {"pathless", "index"}})
<1>1. PICK m \in Nat : k = m + 1 /\ k - 1 = m
  <2>1. k - 1 \in Nat /\ k = (k - 1) + 1 OBVIOUS
  <2> QED BY <2>1
<1>2. C(k) \in Nat /\ C(k + 1) = C(k) + (IF k \in T THEN 1 ELSE 0)
  <2>1. {j \in 1..m : j \in T} = {j \in 1..(k - 1) : Kind(b, j) \notin {"pathless", "index"}} BY <1>1
  <2>2. {j \in 1..(m + 1) : j \in T}
          = {j \in 1..((k + 1) - 1) : Kind(b, j) \notin {"pathless", "index"}}
    BY <1>1
  <2> HIDE DEF T
  <2>3. C(k) = Count(T, m) /\ C(k + 1) = Count(T, m + 1)
    <3>1. C(k) = Cardinality({j \in 1..m : j \in T}) BY <2>1
    <3>2. C(k + 1) = Cardinality({j \in 1..(m + 1) : j \in T}) BY <2>2
    <3> QED BY <3>1, <3>2 DEF Count
  <2> HIDE DEF C
  <2>4. Count(T, m) \in Nat /\ Count(T, m + 1) = Count(T, m) + (IF m + 1 \in T THEN 1 ELSE 0)
    BY CountNext
  <2> QED BY <1>1, <2>3, <2>4
<1>3. \A i : Segment(b, i) = 1 + C(i) BY DEF Segment
<1>4. k \in T <=> Kind(b, k) \notin {"pathless", "index"} OBVIOUS
<1> HIDE DEF C, T
<1> QED BY <1>2, <1>3, <1>4

\* Two branches that agree on their first nodes agree on all this.
Agree(b, S, d, R, k) == \A j \in 1..k : b[j] = d[j] /\ (j \in S <=> j \in R)

LEMMA PartSame ==
  ASSUME NEW b, NEW S, NEW d, NEW R, NEW k \in Nat, Agree(b, S, d, R, k - 1)
  PROVE  PartAt(b, S, k) = PartAt(d, R, k) /\ Segment(b, k) = Segment(d, k)
<1>1. \A j \in 1..(k - 1) : Kind(b, j) = Kind(d, j) /\ (Takes(b, S, j) <=> Takes(d, R, j))
  BY DEF Agree, Kind, Takes
<1>2. {j \in 1..(k - 1) : Takes(b, S, j)} = {j \in 1..(k - 1) : Takes(d, R, j)} BY <1>1
<1>3. {j \in 1..(k - 1) : Kind(b, j) \notin {"pathless", "index"}}
        = {j \in 1..(k - 1) : Kind(d, j) \notin {"pathless", "index"}}
  BY <1>1
<1>4. (\E j \in 1..(k - 1) : Kind(b, j) = "wildcard") <=> (\E j \in 1..(k - 1) : Kind(d, j) = "wildcard")
  BY <1>1
<1> QED BY <1>2, <1>3, <1>4 DEF PartAt, Segment

-----------------------------------------------------------------------------
(* The values of the params. *)

\* p gives each param of route r at the nodes J of branch b its value.
Holds(p, r, b, S, J) ==
  /\ p = [x \in DOMAIN p |-> p[x]]
  /\ \A x : x \in DOMAIN p <=> \E j \in J : Binds(b, S, j) /\ x = Name(r, b, j)
  /\ \A j \in J : Binds(b, S, j) => p[Name(r, b, j)] = Value(b, S, j)

Distinct(r, b, J) ==
  \A j, k \in J : Named(b, j) /\ Named(b, k) /\ Name(r, b, j) = Name(r, b, k) => j = k

LEMMA BindsNamed ==
  ASSUME NEW b, NEW S, NEW k, Binds(b, S, k)
  PROVE  Named(b, k)
BY DEF Binds, Named

LEMMA HoldsUnique ==
  ASSUME NEW p, NEW q, NEW r, NEW b, NEW S, NEW J, Holds(p, r, b, S, J), Holds(q, r, b, S, J)
  PROVE  p = q
<1>1. \A x : x \in DOMAIN p <=> x \in DOMAIN q BY DEF Holds
<1>2. DOMAIN p = DOMAIN q BY <1>1
<1>3. \A x \in DOMAIN p : p[x] = q[x] BY DEF Holds
<1>4. p = [x \in DOMAIN p |-> p[x]] /\ q = [x \in DOMAIN q |-> q[x]] BY DEF Holds
<1>5. [x \in DOMAIN p |-> p[x]] = [x \in DOMAIN q |-> q[x]] BY <1>2, <1>3
<1> QED BY <1>4, <1>5

LEMMA HoldsValues ==
  ASSUME NEW r, NEW b, NEW S, NEW k \in Nat, Distinct(r, b, 1..k)
  PROVE  Holds(ValuesOf(r, b, S, k), r, b, S, 1..k)
<1> DEFINE B == {j \in 1..k : Binds(b, S, j)}
           V(x) == Value(b, S, CHOOSE j \in B : Name(r, b, j) = x)
           D == {Name(r, b, j) : j \in B}
           p == ValuesOf(r, b, S, k)
<1>1. p = [x \in D |-> V(x)] BY DEF ValuesOf
<1>2. ASSUME NEW j \in 1..k, Binds(b, S, j) PROVE V(Name(r, b, j)) = Value(b, S, j)
  <2> DEFINE i == CHOOSE i \in B : Name(r, b, i) = Name(r, b, j)
  <2>1. j \in B /\ \E i0 \in B : Name(r, b, i0) = Name(r, b, j) BY <1>2
  <2>2. i \in B /\ Name(r, b, i) = Name(r, b, j)
    <3> HIDE DEF B
    <3> QED BY <2>1
  <2> HIDE DEF i
  <2>3. i = j BY <1>2, <2>2, BindsNamed DEF Distinct
  <2> QED BY <2>3 DEF i
<1>3. \A x : x \in D <=> \E j \in 1..k : Binds(b, S, j) /\ x = Name(r, b, j) OBVIOUS
<1> HIDE DEF D, V, B, p
<1>4. p = [x \in DOMAIN p |-> p[x]] /\ DOMAIN p = D /\ \A x \in D : p[x] = V(x) BY <1>1
<1>5. \A j \in 1..k : Binds(b, S, j) => p[Name(r, b, j)] = Value(b, S, j) BY <1>2, <1>3, <1>4
<1>6. \A x : x \in DOMAIN p <=> \E j \in 1..k : Binds(b, S, j) /\ x = Name(r, b, j) BY <1>3, <1>4
<1>7. Holds(p, r, b, S, 1..k) BY <1>4, <1>5, <1>6 DEF Holds
<1> QED BY <1>7 DEF p

\* Nodes that bind nothing make no difference.
LEMMA HoldsMore ==
  ASSUME NEW p, NEW r, NEW b, NEW S, NEW J, NEW K, Holds(p, r, b, S, J),
         \A j : j \in J => j \in K \/ ~Binds(b, S, j),
         \A j : j \in K => j \in J \/ ~Binds(b, S, j)
  PROVE  Holds(p, r, b, S, K)
<1>1. \A x : (\E j \in J : Binds(b, S, j) /\ x = Name(r, b, j))
                <=> (\E j \in K : Binds(b, S, j) /\ x = Name(r, b, j))
  OBVIOUS
<1>2. \A j \in K : Binds(b, S, j) => j \in J OBVIOUS
<1> QED BY <1>1, <1>2 DEF Holds

LEMMA HoldsNone ==
  ASSUME NEW r, NEW b, NEW S, NEW J, \A j \in J : ~Binds(b, S, j)
  PROVE  Holds(<<>>, r, b, S, J)
<1>1. <<>> = [x \in DOMAIN <<>> |-> <<>>[x]] /\ DOMAIN <<>> = {} OBVIOUS
<1> QED BY <1>1 DEF Holds

LEMMA HoldsOne ==
  ASSUME NEW r, NEW b, NEW S, NEW k, Binds(b, S, k), NEW x, x = Name(r, b, k),
         NEW v, v = Value(b, S, k)
  PROVE  Holds(Maps(x, v), r, b, S, {k})
<1>1. PICK p : p = Maps(x, v) OBVIOUS
<1>2. p = [y \in {x} |-> v] BY <1>1 DEF Maps
<1>3. p = [y \in DOMAIN p |-> p[y]] /\ DOMAIN p = {x} /\ p[x] = v BY <1>2
<1> QED BY <1>1, <1>3 DEF Holds

LEMMA ExtendedIs ==
  ASSUME NEW p, NEW q
  PROVE  /\ Extended(p, q) = [x \in DOMAIN Extended(p, q) |-> Extended(p, q)[x]]
         /\ \A x : x \in DOMAIN Extended(p, q) <=> x \in DOMAIN p \/ x \in DOMAIN q
         /\ \A x \in DOMAIN p : Extended(p, q)[x] = p[x]
         /\ \A x \in DOMAIN q : x \notin DOMAIN p => Extended(p, q)[x] = q[x]
BY DEF Extended

LEMMA HoldsJoin ==
  ASSUME NEW p, NEW q, NEW r, NEW b, NEW S, NEW J, NEW K,
         Holds(p, r, b, S, J), Holds(q, r, b, S, K), Distinct(r, b, J \cup K)
  PROVE  Holds(Extended(p, q), r, b, S, J \cup K)
<1>1. PICK e : e = Extended(p, q) OBVIOUS
<1>2. /\ e = [x \in DOMAIN e |-> e[x]]
      /\ \A x : x \in DOMAIN e <=> x \in DOMAIN p \/ x \in DOMAIN q
      /\ \A x \in DOMAIN p : e[x] = p[x]
      /\ \A x \in DOMAIN q : x \notin DOMAIN p => e[x] = q[x]
  BY <1>1, ExtendedIs
<1>3. \A x : x \in DOMAIN e <=> \E j \in J \cup K : Binds(b, S, j) /\ x = Name(r, b, j)
  BY <1>2 DEF Holds
<1>4. ASSUME NEW j \in J \cup K, Binds(b, S, j) PROVE e[Name(r, b, j)] = Value(b, S, j)
  <2> PICK x : x = Name(r, b, j) OBVIOUS
  <2>1. CASE x \in DOMAIN p
    <3>1. PICK i \in J : Binds(b, S, i) /\ x = Name(r, b, i) BY <2>1 DEF Holds
    <3>2. i = j BY <1>4, <3>1, BindsNamed DEF Distinct
    <3>3. p[x] = Value(b, S, i) BY <3>1 DEF Holds
    <3> QED BY <1>2, <2>1, <3>2, <3>3
  <2>2. CASE x \notin DOMAIN p
    <3>1. j \notin J BY <1>4, <2>2 DEF Holds
    <3>2. x \in DOMAIN q /\ q[x] = Value(b, S, j) BY <1>4, <3>1 DEF Holds
    <3> QED BY <1>2, <2>2, <3>2
  <2> QED BY <2>1, <2>2
<1> QED BY <1>1, <1>2, <1>3, <1>4 DEF Holds

\* Another route that has these names, another branch that begins alike.
LEMMA HoldsSame ==
  ASSUME NEW p, NEW r, NEW s, NEW b, NEW d, NEW S, NEW R, NEW J, Holds(p, r, b, S, J),
         \A j \in J : /\ Binds(b, S, j) <=> Binds(d, R, j)
                      /\ Binds(b, S, j) => Name(r, b, j) = Name(s, d, j)
                      /\ Value(b, S, j) = Value(d, R, j)
  PROVE  Holds(p, s, d, R, J)
<1>1. \A x : (\E j \in J : Binds(b, S, j) /\ x = Name(r, b, j))
                <=> (\E j \in J : Binds(d, R, j) /\ x = Name(s, d, j))
  OBVIOUS
<1> QED BY <1>1 DEF Holds

LEMMA DataSame ==
  ASSUME NEW b, NEW S, NEW d, NEW R, NEW k \in Nat, Agree(b, S, d, R, k), NEW j \in 1..k
  PROVE  /\ Binds(b, S, j) <=> Binds(d, R, j)
         /\ \A r : Name(r, b, j) = Name(r, d, j)
         /\ Value(b, S, j) = Value(d, R, j)
         /\ Lies(b, S, j) <=> Lies(d, R, j)
         /\ Kind(b, j) = Kind(d, j) /\ (Named(b, j) <=> Named(d, j))
<1>1. PartAt(b, S, j) = PartAt(d, R, j) /\ Segment(b, j) = Segment(d, j)
  <2>1. Agree(b, S, d, R, j - 1) BY DEF Agree
  <2> QED BY <2>1, PartSame
<1>2. b[j] = d[j] /\ (j \in S <=> j \in R) BY DEF Agree
<1>3. Kind(b, j) = Kind(d, j) BY <1>2 DEF Kind
<1>4. Value(b, S, j) = Value(d, R, j) BY <1>1, <1>2, <1>3 DEF Value
<1>5. Binds(b, S, j) <=> Binds(d, R, j) BY <1>2, <1>3, <1>4 DEF Binds
<1>6. \A r : Name(r, b, j) = Name(r, d, j) BY <1>1, <1>3 DEF Name
<1>7. Lies(b, S, j) <=> Lies(d, R, j) BY <1>1, <1>2, <1>3 DEF Lies
<1> QED BY <1>3, <1>4, <1>5, <1>6, <1>7 DEF Named

-----------------------------------------------------------------------------
(* extractParams *)

\* The path lies on the branch.
OnTrack(b, S) ==
  /\ b \in Seq(Nat) /\ \A k \in 1..Len(b) : b[k] \in DOMAIN tree
  /\ \A k \in 1..Len(b) : Lies(b, S, k) /\ (k < Len(b) => Kind(b, k) # "index")

\* The names of route r are those of its own, and of the route s that made
\* the node.
WellNamedFor(r, s, b) ==
  /\ Distinct(r, b, 1..Len(b))
  /\ \A j \in 1..Len(b) : Named(b, j) => Name(s, b, j) = Name(r, b, j)

LEMMA KindIs ==
  ASSUME TrieOK(tree), NEW b, NEW k, b[k] \in DOMAIN tree
  PROVE  /\ Kind(b, k) \in {"static", "param", "optional", "wildcard", "pathless", "index"}
         /\ Kind(b, k) = tree[b[k]].kind
<1>1. tree[b[k]] \in Node BY MembersIn, Zenon DEF TrieOK
<1>2. \A x \in Node : x.kind \in Kinds \cup {"pathless", "index"} BY DEF Node
<1> QED BY <1>1, <1>2 DEF Kind, Kinds

\* After a wildcard nothing is bound.
LEMMA NoneAfterWild ==
  ASSUME PathOK, NEW b, NEW S, NEW r, OnTrack(b, S), Distinct(r, b, 1..Len(b)),
         NEW k \in 1..Len(b), WildBefore(b, k)
  PROVE  ~Binds(b, S, k) /\ ~Takes(b, S, k)
<1>1. PartAt(b, S, k) = Beyond
  <2>1. k \in Nat \ {0} BY DEF OnTrack
  <2> QED BY <2>1, PartNext
<1>2. PICK j \in 1..(k - 1) : Kind(b, j) = "wildcard" BY DEF WildBefore
<1>3. Kind(b, k) # "wildcard"
  <2>1. j \in 1..Len(b) /\ j # k BY DEF OnTrack
  <2> QED BY <1>2, <2>1 DEF Distinct, Named, Name
<1>4. Lies(b, S, k) BY DEF OnTrack
<1>5. ~(Beyond < Beyond) BY BeyondIs
<1>6. Kind(b, k) # "static" BY <1>1, <1>4, <1>5 DEF Lies
<1>7. ~(Kind(b, k) = "param" \/ (Kind(b, k) = "optional" /\ k \notin S))
  BY <1>1, <1>4, <1>5 DEF Lies, Starts
<1> QED BY <1>3, <1>6, <1>7 DEF Binds, Takes

\* The walk along the branch after its k-th node.
Walking(e, r, b, S, from, k) ==
  /\ e = [part |-> e.part, node |-> e.node, segment |-> e.segment,
          params |-> e.params, over |-> e.over]
  /\ e.over \in BOOLEAN
  /\ Holds(e.params, r, b, S, (from + 1)..k)
  /\ e.part = PartAt(b, S, e.node) /\ e.segment = Segment(b, e.node)
  /\ ~e.over => e.node = k + 1
  /\ e.over => /\ e.node \in (from + 1)..k
               /\ Kind(b, e.node) = "wildcard" \/ (Kind(b, e.node) = "index" /\ e.node = Len(b))

LEMMA WalkNext ==
  ASSUME PathOK, TrieOK(tree), NEW b, NEW S, NEW r, NEW s, OnTrack(b, S), Len(b) < 32,
         WellNamedFor(r, s, b), NEW from \in Nat, NEW k \in (from + 1)..Len(b),
         NEW e, Walking(e, r, b, S, from, k - 1)
  PROVE  Walking(ExtractNode(e, b[k], FullSegs(s), S), r, b, S, from, k)
<1> PICK new : new = ExtractNode(e, b[k], FullSegs(s), S) OBVIOUS
<1> PICK P, N, G, p : P = e.part /\ N = e.node /\ G = e.segment /\ p = e.params OBVIOUS
<1>1. /\ Holds(p, r, b, S, (from + 1)..(k - 1)) /\ P = PartAt(b, S, N) /\ G = Segment(b, N)
      /\ ~e.over => N = k
      /\ e.over => N \in (from + 1)..(k - 1) /\ (Kind(b, N) = "wildcard" \/ N = Len(b))
  BY DEF Walking
<1>2. Len(b) \in Nat /\ k \in Nat \ {0} /\ k \in 1..Len(b) BY DEF OnTrack
<1>3. ASSUME ~Binds(b, S, k) PROVE Holds(p, r, b, S, (from + 1)..k)
  <2>1. \A j : j \in (from + 1)..k <=> j \in (from + 1)..(k - 1) \/ j = k BY <1>2
  <2> QED BY <1>1, <1>3, <2>1, HoldsMore
<1>4. CASE e.over
  <2>1. N \in 1..(k - 1) /\ Kind(b, N) = "wildcard" BY <1>1, <1>2, <1>4
  <2>2. WildBefore(b, k) BY <2>1 DEF WildBefore
  <2>3. ~Binds(b, S, k) BY <1>2, <2>2, NoneAfterWild DEF WellNamedFor
  <2>4. new = e BY <1>4 DEF ExtractNode
  <2>5. N \in (from + 1)..k BY <1>1, <1>2, <1>4
  <2>6. Holds(p, r, b, S, (from + 1)..k) BY <1>3, <2>3
  <2> QED BY <1>4, <2>1, <2>4, <2>5, <2>6 DEF Walking
<1>5. CASE ~e.over
  <2> DEFINE kind == Kind(b, k)  value == After(b[k], parts[P])
  <2>1. N = k /\ P = PartAt(b, S, k) /\ G = Segment(b, k) BY <1>1, <1>5
  <2>2. /\ tree[b[k]].kind = kind
        /\ kind \in {"static", "param", "optional", "wildcard", "pathless", "index"}
    <3>1. b[k] \in DOMAIN tree BY <1>2 DEF OnTrack
    <3> QED BY <3>1, KindIs
  <2>3. Lies(b, S, k) /\ (k < Len(b) => kind # "index") BY <1>2 DEF OnTrack
  <2>4. /\ P \in Nat /\ G \in Nat
        /\ kind # "wildcard" => PartAt(b, S, k + 1) = P + (IF Takes(b, S, k) THEN 1 ELSE 0)
    <3>1. CASE WildBefore(b, k)
      <4>1. ~Takes(b, S, k) BY <1>2, <3>1, NoneAfterWild DEF WellNamedFor
      <4> QED BY <1>2, <2>1, <3>1, <4>1, PartNext, SegmentNext
    <3>2. CASE ~WildBefore(b, k)
      <4>1. CASE Takes(b, S, k) BY <1>2, <2>1, <3>2, <4>1, PartNext, SegmentNext
      <4>2. CASE ~Takes(b, S, k) BY <1>2, <2>1, <3>2, <4>2, PartNext, SegmentNext
      <4> QED BY <4>1, <4>2
    <3> QED BY <3>1, <3>2
  <2>5. /\ kind \in {"pathless", "index"} => Segment(b, k + 1) = G
        /\ kind \notin {"pathless", "index"} => Segment(b, k + 1) = G + 1
    BY <1>2, <2>1, SegmentNext
  <2>6. k % 32 = k BY <1>2
  \* What is bound here joins the values so far.
  <2>7. ASSUME Binds(b, S, k), NEW x, x = Name(r, b, k), NEW v, v = Value(b, S, k)
        PROVE  Holds(Extended(Maps(x, v), p), r, b, S, (from + 1)..k)
    <3>1. PICK J : J = (from + 1)..(k - 1) OBVIOUS
    <3>2. {k} \cup J = (from + 1)..k BY <1>2, <3>1
    <3>3. Distinct(r, b, {k} \cup J)
      <4>1. \A j \in {k} \cup J : j \in 1..Len(b) BY <1>2, <3>1
      <4> QED BY <4>1 DEF WellNamedFor, Distinct
    <3>4. PICK q : q = Maps(x, v) /\ Holds(q, r, b, S, {k}) BY <2>7, HoldsOne
    <3>5. Holds(Extended(q, p), r, b, S, {k} \cup J) BY <1>1, <3>1, <3>3, <3>4, HoldsJoin
    <3> QED BY <3>2, <3>4, <3>5
  \* The walk moves on, or it ends.
  <2>8. ASSUME NEW m, NEW g, NEW q, new = Moved(e, m, g, q), Holds(q, r, b, S, (from + 1)..k),
               PartAt(b, S, k + 1) = P + m, Segment(b, k + 1) = G + g
        PROVE  Walking(new, r, b, S, from, k)
    <3>1. /\ new = [part |-> P + m, node |-> k + 1, segment |-> G + g, params |-> q, over |-> FALSE]
      BY <2>1, <2>8 DEF Moved
    <3>2. new.part = P + m /\ new.node = k + 1 /\ new.segment = G + g /\ new.params = q /\ ~new.over
      BY <3>1
    <3>3. /\ new = [part |-> new.part, node |-> new.node, segment |-> new.segment,
                    params |-> new.params, over |-> new.over]
          /\ new.over \in BOOLEAN
      BY <3>1
    <3> QED BY <2>8, <3>2, <3>3 DEF Walking
  <2>9. ASSUME NEW q, new = Ended(e, q), Holds(q, r, b, S, (from + 1)..k),
               kind = "wildcard" \/ (kind = "index" /\ k = Len(b))
        PROVE  Walking(new, r, b, S, from, k)
    <3>1. /\ new = [part |-> P, node |-> k, segment |-> G, params |-> q, over |-> TRUE]
      BY <2>1, <2>9 DEF Ended
    <3>2. new.part = P /\ new.node = k /\ new.segment = G /\ new.params = q /\ new.over
      BY <3>1
    <3>3. /\ new = [part |-> new.part, node |-> new.node, segment |-> new.segment,
                    params |-> new.params, over |-> new.over]
          /\ new.over \in BOOLEAN
      BY <3>1
    <3>4. k \in (from + 1)..k BY <1>2
    <3> QED BY <2>1, <2>9, <3>2, <3>3, <3>4 DEF Walking
  <2>10. CASE kind = "index"
    <3>1. new = Ended(e, p) BY <1>5, <2>2, <2>10 DEF ExtractNode
    <3>2. ~Binds(b, S, k) BY <2>10 DEF Binds
    <3>3. k = Len(b) BY <1>2, <2>3, <2>10
    <3> QED BY <1>3, <2>9, <2>10, <3>1, <3>2, <3>3
  <2>11. CASE kind = "pathless"
    <3>1. new = Moved(e, 0, 0, p) BY <1>5, <2>2, <2>11 DEF ExtractNode
    <3>2. ~Binds(b, S, k) /\ ~Takes(b, S, k) BY <2>11 DEF Binds, Takes
    <3>3. PartAt(b, S, k + 1) = P + 0 /\ Segment(b, k + 1) = G + 0
      BY <2>4, <2>5, <2>11, <3>2
    <3> QED BY <1>3, <2>8, <3>1, <3>2, <3>3
  <2>12. CASE kind = "static"
    <3>1. new = Moved(e, 1, 1, p) BY <1>5, <2>2, <2>12 DEF ExtractNode
    <3>2. ~Binds(b, S, k) /\ Takes(b, S, k) BY <2>12 DEF Binds, Takes
    <3>3. PartAt(b, S, k + 1) = P + 1 /\ Segment(b, k + 1) = G + 1
      BY <2>4, <2>5, <2>12, <3>2
    <3> QED BY <1>3, <2>8, <3>1, <3>2, <3>3
  <2>13. CASE kind = "optional" /\ k \in S
    <3>1. new = Moved(e, 0, 1, p) BY <1>5, <2>1, <2>2, <2>6, <2>13 DEF ExtractNode
    <3>2. ~Binds(b, S, k) /\ ~Takes(b, S, k) BY <2>13 DEF Binds, Takes
    <3>3. PartAt(b, S, k + 1) = P + 0 /\ Segment(b, k + 1) = G + 1
      BY <2>4, <2>5, <2>13, <3>2
    <3> QED BY <1>3, <2>8, <3>1, <3>2, <3>3
  <2>14. CASE kind = "wildcard"
    <3>1. new = Ended(e, Extended(Maps("_splat", Rest(b[k], P)), p))
      BY <1>5, <2>2, <2>14 DEF ExtractNode
    <3>2. Binds(b, S, k) /\ Name(r, b, k) = "_splat" /\ Value(b, S, k) = Rest(b[k], P)
      BY <2>1, <2>14 DEF Binds, Name, Value
    <3> QED BY <2>7, <2>9, <2>14, <3>1, <3>2
  <2>15. CASE kind = "param" \/ (kind = "optional" /\ k \notin S)
    <3>1. new = Moved(e, 1, 1, IF kind = "optional" /\ value = <<>> THEN p
                               ELSE Extended(Maps(FullSegs(s)[G].name, value), p))
      BY <1>5, <2>1, <2>2, <2>6, <2>15 DEF ExtractNode
    <3>2. Takes(b, S, k) /\ Value(b, S, k) = value BY <2>1, <2>15 DEF Takes, Value
    <3>3. PartAt(b, S, k + 1) = P + 1 /\ Segment(b, k + 1) = G + 1
      BY <2>4, <2>5, <2>15, <3>2
    <3>4. CASE kind = "optional" /\ value = <<>>
      <4>1. ~Binds(b, S, k) BY <3>2, <3>4 DEF Binds
      <4>2. new = Moved(e, 1, 1, p) BY <3>1, <3>4
      <4> QED BY <1>3, <2>8, <3>3, <4>1, <4>2
    <3>5. CASE ~(kind = "optional" /\ value = <<>>)
      <4>1. Binds(b, S, k) BY <2>15, <3>2, <3>5 DEF Binds
      <4>2. Name(r, b, k) = FullSegs(s)[G].name
        <5>1. Name(s, b, k) = Name(r, b, k) BY <1>2, <4>1, BindsNamed DEF WellNamedFor
        <5> QED BY <2>1, <2>15, <5>1 DEF Name
      <4>3. new = Moved(e, 1, 1, Extended(Maps(FullSegs(s)[G].name, value), p)) BY <3>1, <3>5
      <4> QED BY <2>7, <2>8, <3>2, <3>3, <4>1, <4>2, <4>3
    <3> QED BY <3>4, <3>5
  <2> QED BY <2>2, <2>10, <2>11, <2>12, <2>13, <2>14, <2>15
<1> QED BY <1>4, <1>5

\* The entries of a walk whatever it meets.
Values == {After(n, parts[p]) : n \in Nat, p \in Nat} \cup {Rest(n, p) : n \in Nat, p \in Nat}
Params(s) ==
  UNION {[D -> Values] : D \in SUBSET ({FullSegs(s)[g].name : g \in Nat} \cup {"_splat"})}
Entries(s) ==
  [part : Nat, node : Nat, segment : Nat, params : Params(s), over : BOOLEAN]

LEMMA ExtractNodeIn ==
  ASSUME NEW s, NEW e \in Entries(s), NEW n \in Nat, NEW S
  PROVE  ExtractNode(e, n, FullSegs(s), S) \in Entries(s)
<1> DEFINE V == Values
           X == {FullSegs(s)[g].name : g \in Nat} \cup {"_splat"}
<1>1. /\ e.part \in Nat /\ e.node \in Nat /\ e.segment \in Nat /\ e.params \in Params(s)
  BY DEF Entries
<1>2. ASSUME NEW p \in Params(s), NEW x \in X, NEW v \in V
      PROVE  Extended(Maps(x, v), p) \in Params(s)
  <2>1. PICK D \in SUBSET X : p \in [D -> V] BY DEF Params
  <2> HIDE DEF X, V
  <2>2. PICK m : m = Maps(x, v) OBVIOUS
  <2>3. m = [y \in {x} |-> v] BY <2>2 DEF Maps
  <2>4. Extended(m, p) \in [D \cup {x} -> V]
    <3>1. DOMAIN m = {x} /\ m[x] = v /\ DOMAIN p = D BY <2>1, <2>3
    <3>2. Extended(m, p) = [y \in D \cup {x} |-> IF y = x THEN m[y] ELSE p[y]]
      BY <3>1 DEF Extended
    <3>3. \A y \in D \cup {x} : (IF y = x THEN m[y] ELSE p[y]) \in V BY <2>1, <3>1
    <3> QED BY <3>2, <3>3
  <2>5. D \cup {x} \in SUBSET X OBVIOUS
  <2> QED BY <2>2, <2>4, <2>5 DEF Params, X, V
<1>3. \A p \in {0, 1}, g \in {0, 1}, q \in Params(s) : Moved(e, p, g, q) \in Entries(s)
  BY <1>1 DEF Moved, Entries
<1>4. \A q \in Params(s) : Ended(e, q) \in Entries(s) BY <1>1 DEF Ended, Entries
<1>5. After(n, parts[e.part]) \in V /\ Rest(n, e.part) \in V BY <1>1 DEF Values
<1>6. FullSegs(s)[e.segment].name \in X /\ "_splat" \in X BY <1>1
<1> HIDE DEF X, V
<1>7. PICK w, q : /\ w = Extended(Maps("_splat", Rest(n, e.part)), e.params) /\ w \in Params(s)
                  /\ q = Extended(Maps(FullSegs(s)[e.segment].name, After(n, parts[e.part])), e.params)
                  /\ q \in Params(s)
  BY <1>1, <1>2, <1>5, <1>6
<1>8. CASE e.over BY <1>8 DEF ExtractNode
<1>9. CASE ~e.over
  <2> DEFINE kind == tree[n].kind
             new == ExtractNode(e, n, FullSegs(s), S)
             left == kind = "optional" /\ After(n, parts[e.part]) = <<>>
  <2>1. \/ new = Ended(e, e.params) \/ new = Moved(e, 0, 0, e.params)
        \/ new = Moved(e, 1, 1, e.params) \/ new = Moved(e, 0, 1, e.params)
        \/ new = Ended(e, w) \/ new = Moved(e, 1, 1, q)
    <3>1. CASE kind = "index" BY <1>9, <3>1 DEF ExtractNode
    <3>2. CASE kind = "pathless" BY <1>9, <3>2 DEF ExtractNode
    <3>3. CASE kind = "static" BY <1>9, <3>3 DEF ExtractNode
    <3>4. CASE kind = "optional" /\ e.node % 32 \in S BY <1>9, <3>4 DEF ExtractNode
    <3>5. CASE kind = "wildcard" BY <1>7, <1>9, <3>5 DEF ExtractNode
    <3>6. CASE /\ kind \notin {"index", "pathless", "static", "wildcard"}
               /\ ~(kind = "optional" /\ e.node % 32 \in S)
      <4>1. new = Moved(e, 1, 1, IF left THEN e.params ELSE q) BY <1>7, <1>9, <3>6 DEF ExtractNode
      <4> QED BY <4>1
    <3> QED BY <3>1, <3>2, <3>3, <3>4, <3>5, <3>6
  <2> HIDE DEF new
  <2>2. new \in Entries(s) BY <1>1, <1>3, <1>4, <1>7, <2>1
  <2> QED BY <2>2 DEF new
<1> QED BY <1>8, <1>9

\* What f.extract tells is where its next node stands.
Marked(f) ==
  LET b == tree[f.node].branch  e == f.extract IN
  /\ e.node \in 1..(Len(b) + 1) /\ e.part = PartAt(b, f.skipped, e.node)
  /\ e.segment = Segment(b, e.node)

LEMMA WalkedOK ==
  ASSUME PathOK, TrieOK(tree), NEW f, NEW b, b = tree[f.node].branch, NEW S, S = f.skipped,
         NEW r, NEW s, s = tree[f.node].full, OnTrack(b, S), Len(b) < 32,
         WellNamedFor(r, s, b), Marked(f)
  PROVE  Walking(Walked(f), r, b, S, f.extract.node - 1, Len(b))
<1> DEFINE names == FullSegs(s)
<1>0. Len(b) \in Nat /\ f.extract.node \in 1..(Len(b) + 1)
  <2>1. b \in Seq(Nat) BY DEF OnTrack
  <2>2. Len(b) \in Nat BY <2>1
  <2> QED BY <2>2 DEF Marked
<1>N. PICK from \in Nat : from = f.extract.node - 1 /\ from + 1 = f.extract.node /\ from <= Len(b)
  <2>1. PICK N \in 1..(Len(b) + 1) : N = f.extract.node BY <1>0
  <2>2. N - 1 \in Nat /\ (N - 1) + 1 = N /\ N - 1 <= Len(b) BY <1>0
  <2> QED BY <2>1, <2>2
<1>L. PICK L \in Nat : from + L = Len(b) /\ L = Len(b) - from
  <2>1. PICK n \in Nat : n = Len(b) BY <1>0
  <2>2. from <= n BY <1>N, <2>1
  <2>3. n - from \in Nat /\ from + (n - from) = n BY <2>2
  <2> QED BY <2>1, <2>3
<1> PICK a : a = [part |-> f.extract.part, node |-> f.extract.node,
                  segment |-> f.extract.segment, params |-> <<>>, over |-> FALSE]
  OBVIOUS
<1> DEFINE Is(h) == h = [i \in 0..L |-> IF i = 0 THEN a ELSE ExtractNode(h[i - 1], b[from + i], names, S)]
           U == Entries(s)
<1>1. /\ Len(b) \in Nat /\ from \in Nat /\ L \in Nat /\ from + L = Len(b)
      /\ f.extract.node \in Nat \ {0} /\ from + 1 = f.extract.node
  <2>1. PICK N \in 1..(Len(b) + 1) : N = f.extract.node BY <1>0
  <2>2. N \in Nat \ {0} BY <1>0
  <2> QED BY <1>0, <1>N, <1>L, <2>1, <2>2
<1>2. \A i \in 1..L : from + i \in 1..Len(b) /\ b[from + i] \in Nat
  <2> SUFFICES ASSUME NEW i \in 1..L PROVE from + i \in 1..Len(b) /\ b[from + i] \in Nat OBVIOUS
  <2>1. from + i \in 1..Len(b) BY <1>1
  <2>2. PICK j \in 1..Len(b) : j = from + i BY <2>1
  <2>3. b[j] \in Nat BY DEF OnTrack
  <2> QED BY <2>2, <2>3
<1>3. a \in U
  <2>1. f.extract.part \in Nat /\ f.extract.segment \in Nat
    BY <1>1, PartNext, SegmentNext DEF Marked
  <2>2. <<>> \in Params(s)
    <3>1. <<>> \in [{} -> Values] OBVIOUS
    <3> QED BY <3>1 DEF Params
  <2> QED BY <1>1, <2>1, <2>2 DEF Entries
<1>4. \A i \in 1..L : \A x \in U : ExtractNode(x, b[from + i], names, S) \in U
  BY <1>2, ExtractNodeIn
<1> HIDE DEF U, names
<1>5. \E h : Is(h)
  <2> DEFINE g == [p \in (1..L) \X U |-> ExtractNode(p[2], b[from + p[1]], names, S)]
             X == [i \in 0..L |-> U]
  <2>1. \A i \in 1..L : \A x \in X[i - 1] :
          g[<<i, x>>] = ExtractNode(x, b[from + i], names, S) /\ g[<<i, x>>] \in X[i]
    <3> SUFFICES ASSUME NEW i \in 1..L, NEW x \in X[i - 1]
                 PROVE  g[<<i, x>>] = ExtractNode(x, b[from + i], names, S) /\ g[<<i, x>>] \in X[i]
      OBVIOUS
    <3>1. X[i - 1] = U /\ X[i] = U BY <1>1
    <3>2. x \in U BY <3>1
    <3>3. g[<<i, x>>] = ExtractNode(x, b[from + i], names, S) BY <3>2
    <3> HIDE DEF g, X
    <3> QED BY <1>4, <3>1, <3>2, <3>3
  <2>2. a \in X[0] BY <1>1, <1>3
  <2>3. PICK G, Y : G = g /\ Y = X OBVIOUS
  <2> HIDE DEF X, g
  <2>4. PICK h : h = [i \in 0..L |-> IF i = 0 THEN a ELSE G[<<i, h[i - 1]>>]]
    <3>1. \A i \in 1..L : \A x \in Y[i - 1] : G[<<i, x>>] \in Y[i] BY <2>1, <2>3
    <3>2. \E h : Steps(h, L, a, G) BY <1>1, <2>2, <2>3, <3>1, Iterate
    <3> QED BY <3>2 DEF Steps
  <2> DEFINE T == {i \in 0..L : h[i] \in Y[i]}
  <2>5. \A i \in 0..L : i \in T
    <3>1. 0 \in T BY <1>1, <2>2, <2>3, <2>4
    <3>2. ASSUME NEW k \in 0..(L - 1), k \in T PROVE k + 1 \in T
      <4>0. k + 1 \in 0..L /\ k + 1 # 0 /\ (k + 1) - 1 = k BY <1>1
      <4>1. h[k + 1] = G[<<k + 1, h[k]>>] BY <2>4, <4>0
      <4>2. k + 1 \in 1..L /\ (k + 1) - 1 = k /\ h[k] \in Y[k] BY <1>1, <3>2
      <4>3. G[<<k + 1, h[k]>>] \in Y[k + 1] BY <2>1, <2>3, <4>2
      <4> QED BY <4>1, <4>2, <4>3
    <3>3. PICK W : W = T OBVIOUS
    <3> HIDE DEF T
    <3> QED BY <1>1, <3>1, <3>2, <3>3, SetInduction
  <2>6. \A i \in 1..L : G[<<i, h[i - 1]>>] = ExtractNode(h[i - 1], b[from + i], names, S)
    <3> SUFFICES ASSUME NEW i \in 1..L
                 PROVE  G[<<i, h[i - 1]>>] = ExtractNode(h[i - 1], b[from + i], names, S)
      OBVIOUS
    <3>1. i - 1 \in T BY <1>1, <2>5
    <3> QED BY <2>1, <2>3, <3>1
  <2>7. Is(h)
    <3>1. \A i \in 0..L : i # 0 => i \in 1..L BY <1>1
    <3> QED BY <2>4, <2>6, <3>1
  <2> HIDE DEF Is
  <2> QED BY <2>7
<1>6. PICK h : Is(h) /\ Walked(f) = h[L]
  <2>1. Walked(f) = (CHOOSE h : Is(h))[L]
    <3>1. from = f.extract.node - 1 /\ L = Len(b) - from BY <1>N, <1>L
    <3> QED BY <3>1 DEF Walked, names
  <2> HIDE DEF Is
  <2> QED BY <1>5, <2>1
<1> DEFINE T == {i \in 0..L : Walking(h[i], r, b, S, from, from + i)}
<1>7. 0 \in T
  <2>1. h[0] = a BY <1>1, <1>6
  <2>2. Holds(<<>>, r, b, S, (from + 1)..from)
    <3>1. (from + 1)..from = {} BY <1>1
    <3> QED BY <3>1, HoldsNone
  <2>3. Walking(a, r, b, S, from, from) BY <1>1, <2>2 DEF Walking, Marked
  <2>4. from + 0 = from BY <1>1
  <2> QED BY <1>1, <2>1, <2>3, <2>4
<1>8. ASSUME NEW k \in 0..(L - 1), k \in T PROVE k + 1 \in T
  <2>1. h[k + 1] = ExtractNode(h[k], b[from + (k + 1)], names, S)
    <3>1. k + 1 \in 0..L /\ k + 1 # 0 /\ (k + 1) - 1 = k BY <1>1
    <3> QED BY <1>6, <3>1
  <2>2. k + 1 \in 0..L /\ from + (k + 1) \in (from + 1)..Len(b) /\ (from + (k + 1)) - 1 = from + k
    BY <1>1
  <2>3. PICK e, m : e = h[k] /\ m = from + (k + 1) OBVIOUS
  <2>4. Walking(e, r, b, S, from, m - 1) BY <1>8, <2>2, <2>3
  <2>5. Walking(ExtractNode(e, b[m], FullSegs(s), S), r, b, S, from, m)
    BY <1>1, <2>2, <2>3, <2>4, WalkNext
  <2> QED BY <2>1, <2>2, <2>3, <2>5 DEF names
<1>9. L \in T
  <2>1. PICK W : W = T OBVIOUS
  <2> HIDE DEF T, Is
  <2>2. \A k \in 0..L : k \in W BY <1>1, <1>7, <1>8, <2>1, SetInduction
  <2> QED BY <1>1, <2>1, <2>2
<1> QED BY <1>1, <1>6, <1>9

-----------------------------------------------------------------------------
(* The parts that the segments of a branch matched. *)

\* The part at which the next node stands.
LEMMA StandsOK ==
  ASSUME PathOK, NEW b, NEW S, NEW k \in Nat \ {0}, NEW i, i = PartAt(b, S, k)
  PROVE  /\ i \in Nat
         /\ Kind(b, k) = "wildcard" => PartAt(b, S, k + 1) = Beyond
         /\ Kind(b, k) # "wildcard" /\ ~Takes(b, S, k) => PartAt(b, S, k + 1) = i
         /\ Kind(b, k) # "wildcard" /\ Takes(b, S, k) /\ i < Beyond
              => PartAt(b, S, k + 1) = i + 1
<1>1. CASE WildBefore(b, k) BY <1>1, PartNext, BeyondIs
<1>2. CASE ~WildBefore(b, k) BY <1>2, PartNext
<1> QED BY <1>1, <1>2

LEMMA PartOrder ==
  ASSUME PathOK, NEW b, Len(b) \in Nat, NEW S, \A k \in 1..Len(b) : Lies(b, S, k),
         NEW k \in 1..(Len(b) + 1)
  PROVE  /\ PartAt(b, S, k) \in 1..Beyond
         /\ \A j \in 1..(k - 1) : Takes(b, S, j) => PartAt(b, S, j) < PartAt(b, S, k)
<1> DEFINE Up(m) == /\ PartAt(b, S, m) \in 1..Beyond
                    /\ \A j \in 1..(m - 1) : Takes(b, S, j) => PartAt(b, S, j) < PartAt(b, S, m)
           T == {m \in 0..Len(b) : Up(m + 1)}
<1>1. Beyond \in Nat /\ Beyond >= 1 BY BeyondIs
<1>2. 0 \in T
  <2>1. Up(1) BY <1>1, PartFirst
  <2> QED BY <2>1
<1>3. ASSUME NEW m \in 0..(Len(b) - 1), m \in T PROVE m + 1 \in T
  <2>1. PICK h \in 1..Len(b) : h = m + 1 OBVIOUS
  <2>2. PICK i : i = PartAt(b, S, h) OBVIOUS
  <2>3. i \in 1..Beyond /\ \A j \in 1..(h - 1) : Takes(b, S, j) => PartAt(b, S, j) < i
    BY <1>3, <2>1, <2>2
  <2>4. Lies(b, S, h) BY <2>1
  <2>5. Takes(b, S, h) => i < Beyond /\ Kind(b, h) # "wildcard"
    BY <2>2, <2>4 DEF Takes, Lies, Starts
  <2>6. /\ Kind(b, h) = "wildcard" => PartAt(b, S, h + 1) = Beyond
        /\ Kind(b, h) # "wildcard" /\ ~Takes(b, S, h) => PartAt(b, S, h + 1) = i
        /\ Kind(b, h) # "wildcard" /\ Takes(b, S, h) /\ i < Beyond
             => PartAt(b, S, h + 1) = i + 1
    BY <2>2, StandsOK
  <2>7. PICK x : x = PartAt(b, S, h + 1) OBVIOUS
  <2>8. x \in 1..Beyond /\ i <= x /\ (Takes(b, S, h) => i < x)
    BY <1>1, <2>3, <2>5, <2>6, <2>7
  <2>9. \A j \in 1..h : j \in 1..(h - 1) \/ j = h BY <2>1
  <2>10. \A j \in 1..(h - 1) : PartAt(b, S, j) \in Int
    <3>1. \A j \in 1..(h - 1) : j \in Nat \ {0} OBVIOUS
    <3> QED BY <3>1, StandsOK
  <2>11. \A j \in 1..h : Takes(b, S, j) => PartAt(b, S, j) < x
    BY <2>2, <2>3, <2>8, <2>9, <2>10
  <2>12. (h + 1) - 1 = h BY <2>1
  <2>13. Up(h + 1) BY <2>7, <2>8, <2>11, <2>12
  <2> QED BY <2>1, <2>13
<1>4. PICK U : U = T OBVIOUS
<1> HIDE DEF T
<1>5. \A m \in 0..Len(b) : m \in U BY <1>2, <1>3, <1>4, SetInduction
<1>6. PICK m \in 0..Len(b) : m + 1 = k
  <2>1. k - 1 \in 0..Len(b) /\ (k - 1) + 1 = k OBVIOUS
  <2> QED BY <2>1
<1>7. m \in T BY <1>4, <1>5
<1> QED BY <1>6, <1>7 DEF T

Scores == {"static", "param", "optional"}

\* The parts that a kind of segments matched: they lie before the part the
\* branch has come to, and each was matched once.
LEMMA MatchedIn ==
  ASSUME PathOK, NEW b \in Seq(Nat), NEW S, \A k \in 1..Len(b) : Lies(b, S, k),
         S \subseteq {k \in 1..Len(b) : Kind(b, k) = "optional"}, NEW kind \in Scores
  PROVE  /\ \A i \in Matched(b, S, kind) :
              i \in 1..Len(parts) /\ i \in 1..(PartAt(b, S, Len(b) + 1) - 1)
         /\ \A other \in Scores : other # kind => Matched(b, S, kind) \cap Matched(b, S, other) = {}
<1>1. PICK L \in Nat : L = Len(b) /\ DOMAIN b = 1..L OBVIOUS
<1>2. ASSUME NEW x \in Scores, NEW i \in Matched(b, S, x)
      PROVE  \E k \in 1..L : i = PartAt(b, S, k) /\ Kind(b, k) = x /\ Takes(b, S, k)
  <2>1. PICK k \in DOMAIN b \ S : i = PartAt(b, S, k) /\ Kind(b, k) = x BY <1>2 DEF Matched
  <2>2. Takes(b, S, k) BY <2>1 DEF Takes, Scores
  <2> QED BY <1>1, <2>1, <2>2
<1>3. \A k \in 1..(L + 1) :
        /\ PartAt(b, S, k) \in 1..Beyond
        /\ \A j \in 1..(k - 1) : Takes(b, S, j) => PartAt(b, S, j) < PartAt(b, S, k)
  BY <1>1, PartOrder
<1>4. PICK N \in Nat : N = Len(parts) /\ Beyond = N + 1 BY BeyondIs DEF Beyond
<1>5. PICK E : E = PartAt(b, S, L + 1) OBVIOUS
<1>6. E \in 1..Beyond /\ \A j \in 1..L : Takes(b, S, j) => PartAt(b, S, j) < E
  <2>1. L + 1 \in 1..(L + 1) /\ (L + 1) - 1 = L OBVIOUS
  <2> QED BY <1>3, <1>5, <2>1
<1>7. ASSUME NEW i \in Matched(b, S, kind)
      PROVE  i \in 1..Len(parts) /\ i \in 1..(PartAt(b, S, Len(b) + 1) - 1)
  <2>1. PICK k \in 1..L : i = PartAt(b, S, k) /\ Takes(b, S, k) BY <1>2
  <2>2. k \in 1..(L + 1) OBVIOUS
  <2>3. i \in 1..Beyond /\ i < E BY <1>3, <1>6, <2>1, <2>2
  <2> QED BY <1>1, <1>4, <1>5, <1>6, <2>3
<1>8. ASSUME NEW other \in Scores, other # kind,
             NEW i \in Matched(b, S, kind) \cap Matched(b, S, other)
      PROVE  FALSE
  <2>1. PICK j \in 1..L : i = PartAt(b, S, j) /\ Kind(b, j) = kind /\ Takes(b, S, j) BY <1>2, <1>8
  <2>2. PICK k \in 1..L : i = PartAt(b, S, k) /\ Kind(b, k) = other /\ Takes(b, S, k) BY <1>2, <1>8
  <2>3. j # k BY <1>8, <2>1, <2>2
  <2>4. i \in Int BY <1>7, <1>8
  <2>5. CASE j < k
    <3>1. k \in 1..(L + 1) /\ j \in 1..(k - 1) BY <2>5
    <3>2. i < i BY <1>3, <2>1, <2>2, <3>1
    <3> QED BY <2>4, <3>2
  <2>6. CASE k < j
    <3>1. j \in 1..(L + 1) /\ k \in 1..(j - 1) BY <2>6
    <3>2. i < i BY <1>3, <2>1, <2>2, <3>1
    <3> QED BY <2>4, <3>2
  <2> QED BY <2>3, <2>5, <2>6
<1> QED BY <1>7, <1>8

\* One more node adds its part to those of its kind.
OneMore(b, S, d, R, K) ==
  /\ b \in Seq(Nat) /\ d \in Seq(Nat) /\ K \in Nat \ {0}
  /\ Len(d) = K /\ Len(b) = K - 1 /\ Agree(b, S, d, R, K - 1)

LEMMA MatchedNext ==
  ASSUME NEW b, NEW d, NEW S, NEW R, NEW K, OneMore(b, S, d, R, K), NEW kind
  PROVE  /\ Kind(d, K) # kind \/ K \in R => Matched(d, R, kind) = Matched(b, S, kind)
         /\ Kind(d, K) = kind /\ K \notin R
              => Matched(d, R, kind) = Matched(b, S, kind) \cup {PartAt(d, R, K)}
<1> DEFINE In(j) == j \notin S /\ Kind(b, j) = kind
           On(j) == j \notin R /\ Kind(d, j) = kind
<1>1. /\ DOMAIN b = 1..(K - 1) /\ DOMAIN d = 1..K /\ K \in Nat \ {0}
      /\ Agree(b, S, d, R, K - 1)
  BY DEF OneMore
<1>2. \A j \in 1..(K - 1) : (On(j) <=> In(j)) /\ PartAt(d, R, j) = PartAt(b, S, j)
  <2> SUFFICES ASSUME NEW j \in 1..(K - 1)
               PROVE  (On(j) <=> In(j)) /\ PartAt(d, R, j) = PartAt(b, S, j)
    OBVIOUS
  <2>1. On(j) <=> In(j) BY <1>1 DEF Agree, Kind
  <2>2. j \in Nat /\ Agree(b, S, d, R, j - 1) BY <1>1 DEF Agree
  <2>3. PartAt(d, R, j) = PartAt(b, S, j) BY <2>2, PartSame
  <2> QED BY <2>1, <2>3
<1>3. \A x : x \in Matched(b, S, kind) <=> \E j \in 1..(K - 1) : In(j) /\ x = PartAt(b, S, j)
  BY <1>1 DEF Matched
<1>4. \A x : x \in Matched(d, R, kind) <=> \E j \in 1..K : On(j) /\ x = PartAt(d, R, j)
  BY <1>1 DEF Matched
<1>5. \A j \in 1..K : j \in 1..(K - 1) \/ j = K BY <1>1
<1>6. K \in 1..K /\ \A j \in 1..(K - 1) : j \in 1..K BY <1>1
<1>7. On(K) <=> Kind(d, K) = kind /\ K \notin R OBVIOUS
<1> HIDE DEF In, On
<1>8. \A x : x \in Matched(d, R, kind)
               <=> x \in Matched(b, S, kind) \/ (On(K) /\ x = PartAt(d, R, K))
  BY <1>2, <1>3, <1>4, <1>5, <1>6
<1>9. ~On(K) => Matched(d, R, kind) = Matched(b, S, kind) BY <1>8
<1>10. On(K) => Matched(d, R, kind) = Matched(b, S, kind) \cup {PartAt(d, R, K)} BY <1>8
<1> QED BY <1>7, <1>9, <1>10

\* What they score.
Sum(b, S, kind) == Score(Len(parts), Matched(b, S, kind))

LEMMA SumFirst ==
  ASSUME PathOK, NEW S, NEW kind
  PROVE  Sum(<<>>, S, kind) = 0
<1>1. Matched(<<>>, S, kind) = {}
  <2>1. PICK b : b = <<>> OBVIOUS
  <2>2. DOMAIN b = {} BY <2>1
  <2>3. Matched(b, S, kind) = {} BY <2>2 DEF Matched
  <2> QED BY <2>1, <2>3
<1>2. Len(parts) \in Nat BY BeyondIs
<1> QED BY <1>1, <1>2, ScoreNone DEF Sum

\* A segment adds the power of two of its part to the score of its kind.
Summed(b, S, d, R, K, kind) ==
  /\ Kind(d, K) # kind \/ K \in R => Sum(d, R, kind) = Sum(b, S, kind)
  /\ Kind(d, K) = kind /\ K \notin R
       => Sum(d, R, kind) = Sum(b, S, kind) + SegmentScore(PartAt(d, R, K))
Laid(b, S) ==
  /\ \A k \in 1..Len(b) : Lies(b, S, k)
  /\ S \subseteq {k \in 1..Len(b) : Kind(b, k) = "optional"}

LEMMA SumNext ==
  ASSUME PathOK, NEW b, NEW d, NEW S, NEW R, NEW K, OneMore(b, S, d, R, K), Laid(b, S),
         Lies(d, R, K), NEW kind \in Scores
  PROVE  Summed(b, S, d, R, K, kind)
<1> PICK i : i = PartAt(d, R, K) OBVIOUS
<1>1. PICK T, U : T = Matched(b, S, kind) /\ U = Matched(d, R, kind) OBVIOUS
<1>2. /\ Kind(d, K) # kind \/ K \in R => U = T
      /\ Kind(d, K) = kind /\ K \notin R => U = T \cup {i}
  <2>1. /\ Kind(d, K) # kind \/ K \in R => Matched(d, R, kind) = Matched(b, S, kind)
        /\ Kind(d, K) = kind /\ K \notin R
              => Matched(d, R, kind) = Matched(b, S, kind) \cup {PartAt(d, R, K)}
    BY MatchedNext
  <2> QED BY <1>1, <2>1
<1>3. ASSUME Kind(d, K) = kind, K \notin R
      PROVE  Sum(d, R, kind) = Sum(b, S, kind) + SegmentScore(i)
  <2>1. PICK N \in Nat : N = Len(parts) /\ Beyond = N + 1 BY BeyondIs DEF Beyond
  <2>2. /\ b \in Seq(Nat) /\ K \in Nat \ {0} /\ Len(b) = K - 1 /\ Agree(b, S, d, R, K - 1)
        /\ \A k \in 1..Len(b) : Lies(b, S, k)
        /\ S \subseteq {k \in 1..Len(b) : Kind(b, k) = "optional"}
    BY DEF OneMore, Laid
  <2>10. PartAt(b, S, K) = i BY <2>2, PartSame
  <2>3. K \in 1..(Len(b) + 1) /\ K = Len(b) + 1 /\ Len(b) \in Nat BY <2>2
  <2>4. i \in 1..Beyond BY <2>2, <2>3, <2>10, PartOrder
  <2>5. i < Beyond BY <1>3 DEF Lies, Starts, Scores
  <2>6. i \in 1..N BY <2>1, <2>4, <2>5
  <2>7. T \in SUBSET (1..(i - 1)) BY <1>1, <2>2, <2>3, <2>10, MatchedIn
  <2>8. Score(N, T \cup {i}) = Score(N, T) + 2^(N - i) BY <2>1, <2>6, <2>7, ScoreAdd
  <2>9. SegmentScore(i) = 2^(N - i)
    <3>1. PICK B \in Nat : B = Beyond /\ B = N + 1 BY <2>1
    <3>2. N - i = B - i - 1 BY <2>6, <3>1
    <3> QED BY <3>1, <3>2 DEF SegmentScore
  <2> QED BY <1>1, <1>2, <1>3, <2>1, <2>8, <2>9 DEF Sum
<1>4. Kind(d, K) # kind \/ K \in R => Sum(d, R, kind) = Sum(b, S, kind) BY <1>1, <1>2 DEF Sum
<1> QED BY <1>3, <1>4 DEF Summed

-----------------------------------------------------------------------------
(* Frames. *)

Begins(b, d) == Len(b) <= Len(d) /\ \A i \in 1..Len(b) : b[i] = d[i]

\* The nodes of routes at or below the end of branch b.
Below(b) == {n \in DOMAIN tree : tree[n].route # 0 /\ Begins(b, tree[n].branch)}

Fields == {"node", "index", "skipped", "depth", "statics", "dynamics", "optionals",
           "extract", "params"}
IsFrame(f) ==
  f = [x \in DOMAIN f |-> f[x]] /\ DOMAIN f = Fields /\ f.node \in DOMAIN tree

\* The params of the frame are those of the nodes before the marked one, and
\* of the marked one if that is a wildcard, which the walk does not pass.
Resumes(f) ==
  LET b == tree[f.node].branch  e == f.extract IN
  /\ Marked(f)
  /\ \E m \in {e.node - 1, e.node} :
       /\ m = e.node => e.node <= Len(b) /\ Kind(b, m) = "wildcard"
       /\ \A n \in Below(b) : Holds(f.params, tree[n].route, b, f.skipped, 1..m)

\* The scores of a frame are those of the parts it has matched.
Scored(f) ==
  LET b == tree[f.node].branch  S == f.skipped IN
  /\ f.statics = Sum(b, S, "static") /\ f.dynamics = Sum(b, S, "param")
  /\ f.optionals = Sum(b, S, "optional")

FrameOK(f) ==
  LET b == tree[f.node].branch  S == f.skipped IN
  /\ S \subseteq {k \in 1..Len(b) : Kind(b, k) = "optional"}
  /\ f.depth = Len(b) + 1 /\ f.index = PartAt(b, S, Len(b) + 1)
  /\ OnTrack(b, S) /\ Resumes(f) /\ Scored(f)

\* What frame g has gained by the last node of its branch d.
Gains(f, g, d, R) ==
  LET On(kind) == Kind(d, Len(d)) = kind /\ Len(d) \notin R IN
  /\ On("static") => g.statics = f.statics + SegmentScore(f.index)
  /\ ~On("static") => g.statics = f.statics
  /\ On("param") => g.dynamics = f.dynamics + SegmentScore(f.index)
  /\ ~On("param") => g.dynamics = f.dynamics
  /\ On("optional") => g.optionals = f.optionals + SegmentScore(f.index)
  /\ ~On("optional") => g.optionals = f.optionals

NoIndex(b) == \A k \in 1..Len(b) : Kind(b, k) # "index"

\* The guards of the first k nodes accept.
Passed(f, k) == \A j \in 1..k : Passes(tree[f.node].branch, f.skipped, j)

\* Nothing is asked of a frame below which no route lies.
Live(f) == Below(tree[f.node].branch) # {}
Arrived(f) == IsFrame(f) /\ (Live(f) => FrameOK(f) /\ Passed(f, Len(tree[f.node].branch) - 1))
Explored(f) == IsFrame(f) /\ (Live(f) => FrameOK(f) /\ Passed(f, Len(tree[f.node].branch)))

LEMMA ExtractIs ==
  ASSUME NEW f, IsFrame(f), NEW e, e = Walked(f), NEW g, g = Extract(f)
  PROVE  /\ IsFrame(g) /\ g.node = f.node /\ g.index = f.index /\ g.skipped = f.skipped
         /\ g.depth = f.depth /\ g.params = Extended(f.params, e.params)
         /\ g.extract.part = e.part /\ g.extract.node = e.node
         /\ g.extract.segment = e.segment
         /\ g.statics = f.statics /\ g.dynamics = f.dynamics /\ g.optionals = f.optionals
BY DEF IsFrame, Fields, Extract

LEMMA ExtractSame ==
  ASSUME NEW f, IsFrame(f), NEW g, g = Extract(f)
  PROVE  IsFrame(g) /\ g.node = f.node /\ g.skipped = f.skipped
<1>1. PICK e : e = Walked(f) OBVIOUS
<1> QED BY <1>1, ExtractIs

LEMMA BranchIs ==
  ASSUME TrieOK(tree), NEW n \in DOMAIN tree
  PROVE  /\ tree[n].branch \in Seq(Nat) /\ Len(tree[n].branch) \in Nat
         /\ tree[n].branch # <<>> => tree[n].branch[Len(tree[n].branch)] = n
         /\ \A k \in 1..Len(tree[n].branch) : tree[n].branch[k] \in DOMAIN tree
         /\ tree[n].route # 0 => tree[n].full = tree[n].route
<1>1. tree[n] \in Node BY MembersIn, Zenon DEF TrieOK
<1>2. \A x \in Node : x.branch \in Seq(Nat) BY DEF Node
<1>3. tree[n].branch \in Seq(Nat) BY <1>1, <1>2
<1> QED BY <1>3 DEF TrieOK

\* Names on the branch of node i agree with those of the routes below it.
LEMMA NamesBelow ==
  ASSUME TrieOK(tree), WellNamed, NEW i \in DOMAIN tree, NEW b, b = tree[i].branch,
         NEW n \in Below(b), NEW r, r = tree[n].route
  PROVE  /\ Distinct(r, b, 1..Len(b))
         /\ tree[i].guard # 0 =>
              /\ WellNamedFor(r, tree[i].full, b)
              /\ \A j \in 1..Len(b) : Named(b, j) => Name(tree[i].guard, b, j) = Name(r, b, j)
<1> DEFINE d == tree[n].branch
<1>1. n \in DOMAIN tree /\ r # 0 /\ Len(b) <= Len(d) /\ \A j \in 1..Len(b) : b[j] = d[j]
  BY DEF Below, Begins
<1>2. Len(b) \in Nat /\ Len(d) \in Nat /\ d \in Seq(Nat) /\ b \in Seq(Nat) BY <1>1, BranchIs
<1>3. \A j \in 1..Len(b) : j \in 1..Len(d) /\ (Named(b, j) <=> Named(d, j))
                           /\ \A s : Name(s, b, j) = Name(s, d, j)
  <2>1. Agree(b, {}, d, {}, Len(b)) BY <1>1 DEF Agree
  <2>2. \A j \in 1..Len(b) : (Named(b, j) <=> Named(d, j)) /\ \A s : Name(s, b, j) = Name(s, d, j)
    <3> HIDE DEF d
    <3> QED BY <1>2, <2>1, DataSame
  <2> QED BY <1>1, <1>2, <2>2
<1>4. /\ \A j, k \in 1..Len(d) : Named(d, j) /\ Named(d, k) /\ Name(r, d, j) = Name(r, d, k) => j = k
      /\ \A k \in 1..Len(d), j \in 1..Len(d) :
           Named(d, j) /\ j <= k /\ tree[d[k]].guard # 0 =>
             /\ Name(tree[d[k]].guard, d, j) = Name(r, d, j)
             /\ Name(tree[d[k]].full, d, j) = Name(r, d, j)
  <2>1. DOMAIN d = 1..Len(d) BY <1>2
  <2> DEFINE Names == {k \in DOMAIN d : Named(d, k)}
  <2>2. /\ \A j, k \in Names : Name(r, d, j) = Name(r, d, k) => j = k
        /\ \A k \in DOMAIN d, j \in Names : j <= k /\ tree[d[k]].guard # 0 =>
             /\ Name(tree[d[k]].guard, d, j) = Name(r, d, j)
             /\ Name(tree[d[k]].full, d, j) = Name(r, d, j)
    BY <1>1 DEF WellNamed
  <2>3. \A j : j \in Names <=> j \in 1..Len(d) /\ Named(d, j) BY <2>1
  <2> HIDE DEF Names, d
  <2> QED BY <2>1, <2>2, <2>3
<1>5. Distinct(r, b, 1..Len(b))
  <2> HIDE DEF d
  <2> QED BY <1>3, <1>4 DEF Distinct
<1>6. ASSUME tree[i].guard # 0, NEW j \in 1..Len(b), Named(b, j)
      PROVE  Name(tree[i].guard, b, j) = Name(r, b, j) /\ Name(tree[i].full, b, j) = Name(r, b, j)
  <2>1. PICK k : k = Len(b) OBVIOUS
  <2>2. k \in 1..Len(b) /\ j <= k /\ b[k] = i
    <3>1. Len(b) # 0 BY <1>2
    <3>2. b # <<>> BY <1>2, <3>1
    <3> QED BY <1>2, <2>1, <3>2, BranchIs
  <2>3. d[k] = i /\ k \in 1..Len(d) BY <1>1, <1>3, <2>2
  <2> HIDE DEF d
  <2> QED BY <1>3, <1>4, <1>6, <2>2, <2>3
<1> QED BY <1>5, <1>6 DEF WellNamedFor

LEMMA OwnNames ==
  ASSUME TrieOK(tree), WellNamed, NEW i \in DOMAIN tree, NEW b, b = tree[i].branch,
         tree[i].route # 0
  PROVE  i \in Below(b) /\ WellNamedFor(tree[i].route, tree[i].full, b)
<1>1. i \in Below(b) BY BranchIs DEF Below, Begins
<1>2. Distinct(tree[i].route, b, 1..Len(b)) BY <1>1, NamesBelow
<1>3. tree[i].full = tree[i].route BY BranchIs
<1> QED BY <1>1, <1>2, <1>3 DEF WellNamedFor

\* After the walk the params are those of the whole branch.
WalkEnd(e, p, r, b, S) ==
  /\ Holds(Extended(p, e.params), r, b, S, 1..Len(b))
  /\ e.node \in 1..(Len(b) + 1) /\ e.part = PartAt(b, S, e.node)
  /\ e.segment = Segment(b, e.node)
  /\ e.node = Len(b) + 1 \/ (e.node <= Len(b) /\ Kind(b, e.node) \in {"wildcard", "index"})
  /\ \A k \in 1..Len(b) : k > e.node => ~Binds(b, S, k)

LEMMA WalkEnds ==
  ASSUME PathOK, TrieOK(tree), NEW f, NEW b, b = tree[f.node].branch, NEW S, S = f.skipped,
         NEW r, NEW s, s = tree[f.node].full, OnTrack(b, S), Len(b) < 32,
         WellNamedFor(r, s, b), Marked(f),
         NEW m \in {f.extract.node - 1, f.extract.node},
         m = f.extract.node => f.extract.node <= Len(b) /\ Kind(b, m) = "wildcard",
         NEW p, Holds(p, r, b, S, 1..m), NEW e, e = Walked(f)
  PROVE  WalkEnd(e, p, r, b, S)
<1>1. Walking(e, r, b, S, f.extract.node - 1, Len(b)) BY WalkedOK
<1>2. PICK L \in Nat : L = Len(b) BY DEF OnTrack
<1>3. PICK N \in 1..(L + 1) : N = f.extract.node BY <1>2 DEF Marked
<1>4. m \in {N - 1, N} /\ m <= L BY <1>2, <1>3
<1>5. PICK E \in Nat : E = e.node /\ E \in 1..(L + 1)
  <2>1. e.over => e.node \in ((N - 1) + 1)..L BY <1>1, <1>2, <1>3 DEF Walking
  <2>2. ~e.over => e.node = L + 1 BY <1>1, <1>2 DEF Walking
  <2> QED BY <2>1, <2>2
<1>6. Holds(Extended(p, e.params), r, b, S, 1..L)
  <2>1. PICK J, K : J = 1..m /\ K = ((N - 1) + 1)..L OBVIOUS
  <2>2. J \cup K = 1..L BY <1>4, <2>1
  <2>3. Holds(e.params, r, b, S, K) BY <1>1, <1>2, <1>3, <2>1 DEF Walking
  <2>4. Distinct(r, b, J \cup K) BY <1>2, <2>2 DEF WellNamedFor
  <2>5. Holds(Extended(p, e.params), r, b, S, J \cup K) BY <2>1, <2>3, <2>4, HoldsJoin
  <2> QED BY <2>2, <2>5
<1>7. E = L + 1 \/ (E <= L /\ Kind(b, E) \in {"wildcard", "index"})
  <2>1. CASE e.over
    <3>1. e.node \in ((N - 1) + 1)..L BY <1>1, <1>2, <1>3, <2>1 DEF Walking
    <3>2. Kind(b, e.node) \in {"wildcard", "index"} BY <1>1, <2>1 DEF Walking
    <3>3. E \in ((N - 1) + 1)..L /\ Kind(b, E) \in {"wildcard", "index"} BY <1>5, <3>1, <3>2
    <3>4. E <= L BY <1>3, <3>3
    <3> QED BY <3>3, <3>4
  <2>2. CASE ~e.over
    <3>1. e.node = L + 1 BY <1>1, <1>2, <2>2 DEF Walking
    <3>2. E = L + 1 BY <1>5, <3>1
    <3> QED BY <3>2
  <2> QED BY <2>1, <2>2
<1>8. ASSUME NEW k \in 1..L, k > E PROVE ~Binds(b, S, k)
  <2>1. Kind(b, E) = "wildcard" BY <1>1, <1>2, <1>5, <1>8 DEF Walking
  <2>2. WildBefore(b, k)
    <3>1. E \in 1..(k - 1) BY <1>5, <1>8
    <3> QED BY <2>1, <3>1 DEF WildBefore
  <2> QED BY <1>2, <2>2, NoneAfterWild DEF WellNamedFor
<1>9. e.part = PartAt(b, S, e.node) /\ e.segment = Segment(b, e.node) BY <1>1 DEF Walking
<1> QED BY <1>2, <1>5, <1>6, <1>7, <1>8, <1>9 DEF WalkEnd

\* Extraction keeps a frame sound and completes its params.
LEMMA ExtractOK ==
  ASSUME PathOK, TrieOK(tree), NEW f, IsFrame(f), FrameOK(f), NEW b, b = tree[f.node].branch,
         Len(b) < 32, Below(b) # {},
         \A n \in Below(b) : WellNamedFor(tree[n].route, tree[f.node].full, b),
         NEW g, g = Extract(f)
  PROVE  /\ FrameOK(g)
         /\ \A n \in Below(b) : Holds(g.params, tree[n].route, b, f.skipped, 1..Len(b))
<1> PICK e, S, s, p : e = Walked(f) /\ S = f.skipped /\ s = tree[f.node].full /\ p = f.params OBVIOUS
<1>1. OnTrack(b, S) /\ Marked(f) /\ Scored(f) BY DEF FrameOK, Resumes
<1>2. PICK m \in {f.extract.node - 1, f.extract.node} :
        /\ m = f.extract.node => f.extract.node <= Len(b) /\ Kind(b, m) = "wildcard"
        /\ \A n \in Below(b) : Holds(p, tree[n].route, b, S, 1..m)
  BY DEF FrameOK, Resumes
<1>3. /\ g.node = f.node /\ g.index = f.index /\ g.skipped = f.skipped /\ g.depth = f.depth
      /\ g.params = Extended(p, e.params)
      /\ g.extract.part = e.part /\ g.extract.node = e.node /\ g.extract.segment = e.segment
  BY ExtractIs
<1>4. ASSUME NEW n \in Below(b)
      PROVE  /\ Holds(g.params, tree[n].route, b, S, 1..Len(b))
             /\ e.node \in 1..(Len(b) + 1) /\ e.part = PartAt(b, S, e.node)
             /\ e.segment = Segment(b, e.node)
             /\ e.node = Len(b) + 1 \/ (e.node <= Len(b) /\ Kind(b, e.node) \in {"wildcard", "index"})
             /\ \A k \in 1..Len(b) : k > e.node => ~Binds(b, S, k)
  <2> PICK r : r = tree[n].route OBVIOUS
  <2>1. WellNamedFor(r, s, b) /\ Holds(p, r, b, S, 1..m) BY <1>2
  <2>2. WalkEnd(e, p, r, b, S) BY <1>1, <1>2, <2>1, WalkEnds
  <2> QED BY <1>3, <2>2 DEF WalkEnd
<1>5. PICK E \in 1..(Len(b) + 1) : E = e.node BY <1>4
<1>6. PICK L \in Nat : L = Len(b) BY <1>1 DEF OnTrack
<1>7. Marked(g) BY <1>3, <1>4 DEF Marked
<1>8. \E k \in {E - 1, E} :
        /\ k = E => E <= L /\ Kind(b, k) = "wildcard"
        /\ \A n \in Below(b) : Holds(g.params, tree[n].route, b, S, 1..k)
  <2>1. ASSUME NEW k \in 0..L, \A j \in 1..L : j > k => ~Binds(b, S, j), NEW n \in Below(b)
        PROVE  Holds(g.params, tree[n].route, b, S, 1..k)
    <3>1. PICK q, r : q = g.params /\ r = tree[n].route /\ Holds(q, r, b, S, 1..L) BY <1>4, <1>6
    <3>2. \A j : j \in 1..L => j \in 1..k \/ ~Binds(b, S, j) BY <2>1
    <3>3. \A j : j \in 1..k => j \in 1..L \/ ~Binds(b, S, j) OBVIOUS
    <3>4. Holds(q, r, b, S, 1..k) BY <3>1, <3>2, <3>3, HoldsMore
    <3> QED BY <3>1, <3>4
  <2>2. \A j \in 1..L : j > E => ~Binds(b, S, j) BY <1>4, <1>5, <1>6
  <2>3. E = L + 1 \/ (E <= L /\ Kind(b, E) \in {"wildcard", "index"}) BY <1>4, <1>5, <1>6
  <2>4. CASE E <= L /\ Kind(b, E) = "wildcard"
    <3>1. E \in 0..L BY <1>5, <1>6, <2>4
    <3>2. \A n \in Below(b) : Holds(g.params, tree[n].route, b, S, 1..E) BY <2>1, <2>2, <3>1
    <3> QED BY <2>4, <3>2
  <2>5. CASE ~(E <= L /\ Kind(b, E) = "wildcard")
    <3>1. PICK k \in 0..L : k = E - 1
      <4>1. E - 1 \in 0..L BY <1>5, <1>6
      <4> QED BY <4>1
    <3>2. E \in 1..L => ~Binds(b, S, E)
      <4>1. E \in 1..L => Kind(b, E) = "index" BY <1>5, <2>3, <2>5
      <4> QED BY <4>1 DEF Binds
    <3>3. \A j \in 1..L : j > k => j = E \/ j > E BY <1>5, <1>6, <3>1
    <3>4. \A n \in Below(b) : Holds(g.params, tree[n].route, b, S, 1..k) BY <2>1, <2>2, <3>2, <3>3
    <3>5. k # E BY <1>5, <3>1
    <3> QED BY <3>1, <3>4, <3>5
  <2> QED BY <2>4, <2>5
<1>9. Resumes(g)
  <2>1. g.extract.node = E /\ g.skipped = S /\ tree[g.node].branch = b BY <1>3, <1>5
  <2> QED BY <1>6, <1>7, <1>8, <2>1 DEF Resumes
<1>10. Scored(g)
  <2>1. g.statics = f.statics /\ g.dynamics = f.dynamics /\ g.optionals = f.optionals
    BY ExtractIs
  <2> QED BY <1>1, <1>3, <2>1 DEF Scored
<1> QED BY <1>3, <1>4, <1>9, <1>10 DEF FrameOK

\* The guard of the frame's node is asked about the params that the search
\* matched.
Asked(p, i, b, S) == tree[i].guard # 0 => p = ValuesOf(tree[i].guard, b, S, Len(b))

LEMMA GuardAsks ==
  ASSUME TrieOK(tree), WellNamed, NEW i \in DOMAIN tree, NEW b, b = tree[i].branch,
         NEW S, NEW n \in Below(b), NEW p, Holds(p, tree[n].route, b, S, 1..Len(b))
  PROVE  Asked(p, i, b, S)
<1> SUFFICES ASSUME tree[i].guard # 0 PROVE p = ValuesOf(tree[i].guard, b, S, Len(b)) BY DEF Asked
<1> PICK r, s : r = tree[n].route /\ s = tree[i].guard OBVIOUS
<1>1. /\ Distinct(r, b, 1..Len(b))
      /\ \A j \in 1..Len(b) : Named(b, j) => Name(s, b, j) = Name(r, b, j)
  BY NamesBelow
<1>2. Distinct(s, b, 1..Len(b)) BY <1>1 DEF Distinct
<1>3. Holds(p, s, b, S, 1..Len(b))
  <2>1. \A j \in 1..Len(b) : Binds(b, S, j) => Name(r, b, j) = Name(s, b, j)
    BY <1>1, BindsNamed
  <2>2. Holds(p, r, b, S, 1..Len(b)) OBVIOUS
  <2> QED BY <2>1, <2>2, HoldsSame
<1>4. Holds(ValuesOf(s, b, S, Len(b)), s, b, S, 1..Len(b)) BY <1>2, BranchIs, HoldsValues
<1> QED BY <1>3, <1>4, HoldsUnique

LEMMA GuardPasses ==
  ASSUME TrieOK(tree), WellNamed, NEW i \in DOMAIN tree, NEW b, b = tree[i].branch, b # <<>>,
         NEW S, NEW n \in Below(b), NEW p, Holds(p, tree[n].route, b, S, 1..Len(b)),
         tree[i].guard # 0 => Accepts(tree[i].guard, p)
  PROVE  Passes(b, S, Len(b))
<1>1. b[Len(b)] = i BY BranchIs
<1>2. Asked(p, i, b, S) BY GuardAsks
<1> QED BY <1>1, <1>2 DEF Passes, Asked

\* What validateParseParams lets pass has passed all its guards.
LEMMA ParseOK ==
  ASSUME PathOK, TrieOK(tree), WellNamed, Shallow, NEW f, Arrived(f), Valid(f),
         NEW g, g = Parsed(f)
  PROVE  /\ Explored(g) /\ g.node = f.node /\ g.index = f.index /\ g.skipped = f.skipped
<1> PICK b, S : b = tree[f.node].branch /\ S = f.skipped OBVIOUS
<1>1. IsFrame(f) /\ f.node \in DOMAIN tree BY DEF Arrived, IsFrame
<1>2. Len(b) \in Nat /\ Len(b) < 32 BY <1>1, BranchIs DEF Shallow
<1>3. /\ IsFrame(g) /\ g.node = f.node /\ g.index = f.index /\ g.skipped = f.skipped
  <2>1. CASE tree[f.node].guard = 0 BY <1>1, <2>1 DEF Parsed
  <2>2. CASE tree[f.node].guard # 0
    <3>1. g = Extract(f) BY <2>2 DEF Parsed
    <3>2. PICK e : e = Walked(f) OBVIOUS
    <3> QED BY <1>1, <3>1, <3>2, ExtractIs
  <2> QED BY <2>1, <2>2
<1>4. ASSUME Below(b) # {}
      PROVE  FrameOK(g) /\ \A k \in 1..Len(b) : Passes(b, S, k)
  <2>1. FrameOK(f) /\ \A k \in 1..(Len(b) - 1) : Passes(b, S, k)
    BY <1>4 DEF Arrived, Live, Passed
  <2>2. b # <<>> => Passes(b, S, Len(b))
    <3>1. CASE tree[f.node].guard = 0
      <4>1. b # <<>> => b[Len(b)] = f.node BY <1>1, BranchIs
      <4> QED BY <3>1, <4>1 DEF Passes
    <3>2. CASE tree[f.node].guard # 0
      <4>1. PICK n \in Below(b) : TRUE BY <1>4
      <4>2. \A i \in Below(b) : WellNamedFor(tree[i].route, tree[f.node].full, b)
        <5> SUFFICES ASSUME NEW i \in Below(b)
                     PROVE  WellNamedFor(tree[i].route, tree[f.node].full, b)
          OBVIOUS
        <5> QED BY <1>1, <3>2, NamesBelow
      <4>3. PICK h : h = Extract(f) /\ Accepts(tree[f.node].guard, h.params) BY <3>2 DEF Valid
      <4>4. Holds(h.params, tree[n].route, b, S, 1..Len(b))
        BY <1>1, <1>2, <1>4, <2>1, <4>2, <4>3, ExtractOK
      <4>5. PICK p : p = h.params OBVIOUS
      <4>6. Holds(p, tree[n].route, b, S, 1..Len(b)) /\ Accepts(tree[f.node].guard, p)
        BY <4>3, <4>4, <4>5
      <4> QED BY <1>1, <4>6, GuardPasses
    <3> QED BY <3>1, <3>2
  <2>3. FrameOK(g)
    <3>1. CASE tree[f.node].guard = 0 BY <2>1, <3>1 DEF Parsed
    <3>2. CASE tree[f.node].guard # 0
      <4>1. g = Extract(f) BY <3>2 DEF Parsed
      <4>2. \A i \in Below(b) : WellNamedFor(tree[i].route, tree[f.node].full, b)
        <5> SUFFICES ASSUME NEW i \in Below(b)
                     PROVE  WellNamedFor(tree[i].route, tree[f.node].full, b)
          OBVIOUS
        <5> QED BY <1>1, <3>2, NamesBelow
      <4> QED BY <1>1, <1>2, <1>4, <2>1, <4>1, <4>2, ExtractOK
    <3> QED BY <3>1, <3>2
  <2>4. \A k \in 1..Len(b) : k \in 1..(Len(b) - 1) \/ k = Len(b) BY <1>2
  <2>5. 1..Len(b) # {} => b # <<>> BY <1>2
  <2> QED BY <2>1, <2>2, <2>3, <2>4, <2>5
<1> QED BY <1>3, <1>4 DEF Explored, Live, Passed

LEMMA ValuesSame ==
  ASSUME NEW b, NEW S, NEW d, NEW R, NEW k \in Nat, Agree(b, S, d, R, k), NEW r
  PROVE  ValuesOf(r, b, S, k) = ValuesOf(r, d, R, k)
<1> DEFINE B == {j \in 1..k : Binds(b, S, j)}
           D == {j \in 1..k : Binds(d, R, j)}
           F(x) == CHOOSE j \in B : Name(r, b, j) = x
           G(x) == CHOOSE j \in D : Name(r, d, j) = x
<1>1. \A j \in 1..k : /\ Binds(b, S, j) <=> Binds(d, R, j)
                      /\ Name(r, b, j) = Name(r, d, j) /\ Value(b, S, j) = Value(d, R, j)
  BY DataSame
<1>2. B = D BY <1>1
<1>3. \A j \in B : Name(r, b, j) = Name(r, d, j) /\ Value(b, S, j) = Value(d, R, j) BY <1>1
<1>4. {Name(r, b, j) : j \in B} = {Name(r, d, j) : j \in D} BY <1>2, <1>3
<1>5. ASSUME NEW x PROVE F(x) = G(x)
  <2>1. \A j : j \in B /\ Name(r, b, j) = x <=> j \in D /\ Name(r, d, j) = x BY <1>2, <1>3
  <2> HIDE DEF B, D
  <2> QED BY <2>1, Zenon
<1>6. ASSUME NEW x \in {Name(r, b, j) : j \in B} PROVE Value(b, S, F(x)) = Value(d, R, G(x))
  <2>1. \E j \in B : Name(r, b, j) = x OBVIOUS
  <2>2. F(x) \in B
    <3> HIDE DEF B
    <3> QED BY <2>1
  <2> HIDE DEF F, G
  <2> QED BY <1>3, <1>5, <2>2
<1> HIDE DEF B, D, F, G
<1>7. [x \in {Name(r, b, j) : j \in B} |-> Value(b, S, F(x))]
        = [x \in {Name(r, d, j) : j \in D} |-> Value(d, R, G(x))]
  BY <1>4, <1>6
<1> QED BY <1>7 DEF ValuesOf, B, D, F, G

\* A frame below a sound one is sound, if the path lies on its last node.
LEMMA ExtendOK ==
  ASSUME PathOK, TrieOK(tree), NEW f, Explored(f), NEW b, b = tree[f.node].branch, NoIndex(b),
         NEW c \in Children(tree, f.node), NEW d, d = tree[c].branch, NEW g, IsFrame(g),
         g.node = c, g.extract = f.extract, g.params = f.params, g.depth = f.depth + 1,
         NEW S, S = f.skipped, NEW R, R = g.skipped,
         Live(f) => R = S \/ (R = S \cup {Len(d)} /\ Kind(d, Len(d)) = "optional"),
         Live(f) /\ f.index = PartAt(d, R, Len(d)) =>
           Lies(d, R, Len(d)) /\ g.index = PartAt(d, R, Len(d) + 1),
         Live(f) => Gains(f, g, d, R)
  PROVE  Arrived(g)
<1> SUFFICES ASSUME Live(g)
             PROVE  FrameOK(g) /\ Passed(g, Len(d) - 1)
  BY DEF Arrived
<1>1. f.node \in DOMAIN tree /\ c \in DOMAIN tree BY ChildBranch DEF Explored, IsFrame
<1>2. /\ b \in Seq(Nat) /\ d = Append(b, c) BY <1>1, ChildBranch
<1>3. PICK L \in Nat : L = Len(b) /\ Len(d) = L + 1 /\ d \in Seq(Nat) /\ c \in Nat
  <2>1. c \in Nat BY <1>1, MembersIn DEF TrieOK
  <2> QED BY <1>2, <2>1
<1>4. d[L + 1] = c /\ \A j \in 1..L : d[j] = b[j] BY <1>2, <1>3
<1>5. \A n \in Below(d) : n \in Below(b)
  <2> SUFFICES ASSUME NEW n \in Below(d) PROVE n \in Below(b) OBVIOUS
  <2>1. n \in DOMAIN tree /\ tree[n].route # 0 /\ Begins(d, tree[n].branch) BY DEF Below
  <2>2. Len(tree[n].branch) \in Nat BY <2>1, BranchIs
  <2>3. Begins(b, tree[n].branch)
    <3>1. L <= Len(tree[n].branch) BY <1>3, <2>1, <2>2 DEF Begins
    <3>2. \A j \in 1..L : j \in 1..Len(d) BY <1>3
    <3> QED BY <1>3, <1>4, <2>1, <3>1, <3>2 DEF Begins
  <2> QED BY <2>1, <2>3 DEF Below
<1>6. Live(f) BY <1>5 DEF Live
<1>7. /\ S \subseteq {k \in 1..L : Kind(b, k) = "optional"}
      /\ f.depth = L + 1 /\ f.index = PartAt(b, S, L + 1)
      /\ OnTrack(b, S) /\ Resumes(f) /\ Scored(f) /\ \A j \in 1..L : Passes(b, S, j)
  BY <1>3, <1>6 DEF Explored, FrameOK, Passed
<1>8. \A j \in 1..L : b[j] = d[j] /\ (j \in S <=> j \in R)
  <2>1. \A j \in 1..L : j # L + 1 OBVIOUS
  <2> QED BY <1>3, <1>4, <1>6, <2>1
<1>9. \A k \in 0..L : Agree(b, S, d, R, k) BY <1>8 DEF Agree
<1>10. \A k \in 1..(L + 1) : PartAt(b, S, k) = PartAt(d, R, k) /\ Segment(b, k) = Segment(d, k)
  <2> SUFFICES ASSUME NEW k \in 1..(L + 1)
               PROVE  PartAt(b, S, k) = PartAt(d, R, k) /\ Segment(b, k) = Segment(d, k)
    OBVIOUS
  <2>1. k - 1 \in 0..L /\ k \in Nat OBVIOUS
  <2> QED BY <1>9, <2>1, PartSame
<1>11. \A j \in 1..L : /\ Binds(b, S, j) <=> Binds(d, R, j)
                       /\ \A r : Name(r, b, j) = Name(r, d, j)
                       /\ Value(b, S, j) = Value(d, R, j)
                       /\ Lies(b, S, j) <=> Lies(d, R, j)
                       /\ Kind(b, j) = Kind(d, j)
  BY <1>9, DataSame
<1>12. Lies(d, R, L + 1) /\ g.index = PartAt(d, R, Len(d) + 1)
  <2>1. PartAt(b, S, L + 1) = PartAt(d, R, L + 1) BY <1>10
  <2> QED BY <1>3, <1>6, <1>7, <2>1
<1>13. R \subseteq {k \in 1..(L + 1) : Kind(d, k) = "optional"}
  BY <1>3, <1>6, <1>7, <1>11
<1>14. OnTrack(d, R)
  <2>1. \A k \in 1..(L + 1) : k \in 1..L \/ k = L + 1 OBVIOUS
  <2>2. \A k \in 1..(L + 1) : d[k] \in DOMAIN tree
    <3>1. \A k \in 1..L : b[k] \in DOMAIN tree BY <1>3, <1>7 DEF OnTrack
    <3> QED BY <1>1, <1>4, <2>1, <3>1
  <2>3. \A k \in 1..(L + 1) : Lies(d, R, k) BY <1>3, <1>7, <1>11, <1>12, <2>1 DEF OnTrack
  <2>4. \A k \in 1..(L + 1) : k < L + 1 => Kind(d, k) # "index"
    BY <1>3, <1>11, <2>1 DEF NoIndex
  <2> QED BY <1>3, <2>2, <2>3, <2>4 DEF OnTrack
<1>15. PICK e, p : e = f.extract /\ p = f.params OBVIOUS
<1>16. Marked(f) /\ e.node \in 1..(L + 1) BY <1>3, <1>7, <1>15 DEF Resumes, Marked
<1>17. Marked(g)
  <2>1. e.part = PartAt(d, R, e.node) /\ e.segment = Segment(d, e.node)
    BY <1>10, <1>15, <1>16 DEF Marked
  <2>2. e.node \in 1..(Len(d) + 1) BY <1>3, <1>16
  <2> QED BY <1>15, <2>1, <2>2 DEF Marked
<1>18. Resumes(g)
  <2>1. PICK m \in {e.node - 1, e.node} :
          /\ m = e.node => e.node <= L /\ Kind(b, m) = "wildcard"
          /\ \A n \in Below(b) : Holds(p, tree[n].route, b, S, 1..m)
    BY <1>3, <1>7, <1>15 DEF Resumes
  <2>2. m \in 0..L
    <3>1. PICK N \in 1..(L + 1) : N = e.node BY <1>16
    <3> QED BY <2>1, <3>1
  <2>3. m = e.node => e.node <= Len(d) /\ Kind(d, m) = "wildcard"
    <3>1. PICK N \in 1..(L + 1) : N = e.node BY <1>16
    <3>2. m = N => m \in 1..L BY <2>1, <2>2, <3>1
    <3> QED BY <1>3, <1>11, <2>1, <3>1, <3>2
  <2>4. ASSUME NEW n \in Below(d) PROVE Holds(p, tree[n].route, d, R, 1..m)
    <3>1. PICK r : r = tree[n].route OBVIOUS
    <3>2. Holds(p, r, b, S, 1..m) BY <1>5, <2>1, <3>1
    <3>3. \A j \in 1..m : j \in 1..L BY <2>2
    <3>4. Holds(p, r, d, R, 1..m) BY <1>11, <3>2, <3>3, HoldsSame
    <3> QED BY <3>1, <3>4
  <2> QED BY <1>15, <1>17, <2>1, <2>3, <2>4 DEF Resumes
<1>22. Scored(g)
  <2>1. PICK K \in Nat \ {0} : K = L + 1 /\ K - 1 = L OBVIOUS
  <2>2. OneMore(b, S, d, R, K) BY <1>2, <1>3, <1>9, <2>1 DEF OneMore
  <2>3. Laid(b, S) BY <1>3, <1>7 DEF OnTrack, Laid
  <2>4. Lies(d, R, K) BY <1>12, <2>1
  <2>5. \A kind \in Scores : Summed(b, S, d, R, K, kind) BY <2>2, <2>3, <2>4, SumNext
  <2>6. PartAt(d, R, K) = f.index /\ Len(d) = K BY <1>3, <1>7, <1>10, <2>1
  <2>7. /\ f.statics = Sum(b, S, "static") /\ f.dynamics = Sum(b, S, "param")
        /\ f.optionals = Sum(b, S, "optional")
    BY <1>7 DEF Scored
  <2>8. Gains(f, g, d, R) BY <1>6
  <2>9. g.statics = Sum(d, R, "static") BY <2>5, <2>6, <2>7, <2>8 DEF Gains, Scores, Summed
  <2>10. g.dynamics = Sum(d, R, "param") BY <2>5, <2>6, <2>7, <2>8 DEF Gains, Scores, Summed
  <2>11. g.optionals = Sum(d, R, "optional") BY <2>5, <2>6, <2>7, <2>8 DEF Gains, Scores, Summed
  <2> QED BY <2>9, <2>10, <2>11 DEF Scored
<1>19. FrameOK(g) BY <1>3, <1>7, <1>12, <1>13, <1>14, <1>18, <1>22 DEF FrameOK
<1>20. \A j \in 1..L : Passes(d, R, j)
  <2> SUFFICES ASSUME NEW j \in 1..L PROVE Passes(d, R, j) OBVIOUS
  <2>1. \A r : ValuesOf(r, b, S, j) = ValuesOf(r, d, R, j) BY <1>9, ValuesSame
  <2> QED BY <1>4, <1>7, <2>1 DEF Passes
<1>21. Passed(g, Len(d) - 1)
  <2>1. Len(d) - 1 = L BY <1>3
  <2> QED BY <1>20, <2>1 DEF Passed
<1> QED BY <1>19, <1>21

LEMMA InsertIn ==
  ASSUME NEW U, NEW s \in Seq(U), NEW i \in 1..(Len(s) + 1), NEW e \in U
  PROVE  InsertAt(s, i, e) \in Seq(U)
<1>1. SubSeq(s, 1, i - 1) \in Seq(U)
  <2>1. \A j \in 1..(i - 1) : s[j] \in U OBVIOUS
  <2> QED BY <2>1
<1>2. SubSeq(s, i, Len(s)) \in Seq(U)
  <2>1. \A j \in i..Len(s) : s[j] \in U OBVIOUS
  <2> QED BY <2>1
<1>3. <<e>> \in Seq(U) OBVIOUS
<1>4. InsertAt(s, i, e) = SubSeq(s, 1, i - 1) \o <<e>> \o SubSeq(s, i, Len(s)) BY DEF InsertAt
<1> QED BY <1>1, <1>2, <1>3, <1>4

Has(s, x) == \E i \in 1..Len(s) : s[i] = x

LEMMA HasJoin ==
  ASSUME NEW U, NEW V, NEW s \in Seq(U), NEW t \in Seq(V), NEW x
  PROVE  Has(s, x) \/ Has(t, x) <=> Has(s \o t, x)
<1>1. PICK L \in Nat, M \in Nat : L = Len(s) /\ M = Len(t) OBVIOUS
<1>2. PICK W : s \in Seq(W) /\ t \in Seq(W)
  <2>1. s \in Seq(U \cup V) /\ t \in Seq(U \cup V) OBVIOUS
  <2> QED BY <2>1
<1>3. PICK c : c = s \o t /\ Len(c) = L + M
  <2>1. Len(s \o t) = L + M BY <1>1, <1>2
  <2> QED BY <2>1
<1>4. /\ \A i \in 1..L : c[i] = s[i]
      /\ \A i \in 1..M : c[L + i] = t[i]
  BY <1>1, <1>2, <1>3
<1>5. ASSUME Has(s, x) PROVE Has(c, x)
  <2>1. PICK i \in 1..L : s[i] = x BY <1>1, <1>5 DEF Has
  <2>2. i \in 1..(L + M) /\ c[i] = x BY <1>4, <2>1
  <2> QED BY <1>3, <2>2 DEF Has
<1>6. ASSUME Has(t, x) PROVE Has(c, x)
  <2>1. PICK i \in 1..M : t[i] = x BY <1>1, <1>6 DEF Has
  <2>2. L + i \in 1..(L + M) /\ c[L + i] = x BY <1>4, <2>1
  <2> QED BY <1>3, <2>2 DEF Has
<1>7. ASSUME Has(c, x) PROVE Has(s, x) \/ Has(t, x)
  <2>1. PICK i \in 1..(L + M) : c[i] = x BY <1>3, <1>7 DEF Has
  <2>2. CASE i <= L
    <3>1. i \in 1..L /\ s[i] = x BY <1>4, <2>1, <2>2
    <3> QED BY <1>1, <3>1 DEF Has
  <2>3. CASE ~(i <= L)
    <3>1. i - L \in 1..M /\ L + (i - L) = i BY <2>3
    <3>2. t[i - L] = x BY <1>4, <2>1, <3>1
    <3> QED BY <1>1, <3>1, <3>2 DEF Has
  <2> QED BY <2>2, <2>3
<1> QED BY <1>3, <1>5, <1>6, <1>7

LEMMA InsertHas ==
  ASSUME NEW U, NEW s \in Seq(U), NEW i \in 1..(Len(s) + 1), NEW e \in U
  PROVE  Has(InsertAt(s, i, e), e) /\ \A x : Has(s, x) => Has(InsertAt(s, i, e), x)
<1>1. PICK L \in Nat : L = Len(s) OBVIOUS
<1>2. PICK t, u : t = SubSeq(s, 1, i - 1) /\ u = SubSeq(s, i, L) OBVIOUS
<1>3. /\ t \in Seq(U) /\ Len(t) = i - 1 /\ \A j \in 1..(i - 1) : t[j] = s[j]
      /\ u \in Seq(U) /\ Len(u) = L - i + 1 /\ \A j \in 1..(L - i + 1) : u[j] = s[i + j - 1]
  <2>1. \A j \in 1..(i - 1) : s[j] \in U BY <1>1
  <2>2. \A j \in i..L : s[j] \in U BY <1>1
  <2> QED BY <1>1, <1>2, <2>1, <2>2
<1>4. InsertAt(s, i, e) = (t \o <<e>>) \o u BY <1>1, <1>2 DEF InsertAt
<1>5. <<e>> \in Seq(U) /\ t \o <<e>> \in Seq(U) BY <1>3
<1>6. \A x : Has((t \o <<e>>) \o u, x) <=> Has(t, x) \/ Has(<<e>>, x) \/ Has(u, x)
  BY <1>3, <1>5, HasJoin
<1>7. Has(<<e>>, e) BY DEF Has
<1>8. ASSUME NEW x, Has(s, x) PROVE Has(t, x) \/ Has(u, x)
  <2>1. PICK j \in 1..L : s[j] = x BY <1>1, <1>8 DEF Has
  <2>2. CASE j < i
    <3>1. j \in 1..(i - 1) BY <2>2
    <3>2. t[j] = x BY <1>3, <2>1, <3>1
    <3> QED BY <1>3, <3>1, <3>2 DEF Has
  <2>3. CASE ~(j < i)
    <3>1. j - i + 1 \in 1..(L - i + 1) /\ i + (j - i + 1) - 1 = j BY <1>1, <2>3
    <3>2. u[j - i + 1] = x BY <1>3, <2>1, <3>1
    <3> QED BY <1>3, <3>1, <3>2 DEF Has
  <2> QED BY <2>2, <2>3
<1> QED BY <1>4, <1>6, <1>7, <1>8

\* The nodes that are sorted are those of the set.
LEMMA SortedIn ==
  ASSUME TrieOK(tree), NEW S \in SUBSET (DOMAIN tree)
  PROVE  Sorted(S) \in Seq(S) /\ \A x \in S : Has(Sorted(S), x)
<1> DEFINE L == Len(tree)
           Place(s, c) == Min({i \in DOMAIN s : Before(c, s[i])} \cup {Len(s) + 1})
           Put(s, i) == IF i \in S THEN InsertAt(s, Place(s, i), i) ELSE s
           Is(f) == f = [i \in 0..L |-> IF i = 0 THEN <<>>
                                        ELSE IF i \in S THEN InsertAt(f[i - 1], Place(f[i - 1], i), i)
                                        ELSE f[i - 1]]
           B == Seq(S)
<1>1. L \in Nat BY DEF TrieOK
<1>2. <<>> \in B OBVIOUS
<1>3. \A i \in 1..L : \A x \in B : Put(x, i) \in B
  <2> SUFFICES ASSUME NEW i \in 1..L, NEW x \in B PROVE Put(x, i) \in B OBVIOUS
  <2>1. CASE i \in S
    <3> DEFINE R == {k \in DOMAIN x : Before(i, x[k])} \cup {Len(x) + 1}
    <3>1. R \in SUBSET Nat /\ R # {} /\ R \subseteq 1..(Len(x) + 1) OBVIOUS
    <3> HIDE DEF R
    <3>2. Min(R) \in R BY <3>1, MinIn
    <3>3. PICK k \in 1..(Len(x) + 1) : k = Min(R) BY <3>1, <3>2
    <3>4. InsertAt(x, k, i) \in B BY <2>1, InsertIn
    <3>5. Put(x, i) = InsertAt(x, Min(R), i) BY <2>1 DEF R
    <3> HIDE DEF Put
    <3> QED BY <3>3, <3>4, <3>5
  <2>2. CASE i \notin S BY <2>2
  <2> QED BY <2>1, <2>2
<1>9. ASSUME NEW i \in 1..L, NEW x \in B
      PROVE  (i \in S => Has(Put(x, i), i)) /\ \A y : Has(x, y) => Has(Put(x, i), y)
  <2>1. CASE i \in S
    <3> DEFINE R == {k \in DOMAIN x : Before(i, x[k])} \cup {Len(x) + 1}
    <3>1. R \in SUBSET Nat /\ R # {} /\ R \subseteq 1..(Len(x) + 1) OBVIOUS
    <3> HIDE DEF R
    <3>2. Min(R) \in R BY <3>1, MinIn
    <3>3. PICK k \in 1..(Len(x) + 1) : k = Min(R) BY <3>1, <3>2
    <3>4. Has(InsertAt(x, k, i), i) /\ \A y : Has(x, y) => Has(InsertAt(x, k, i), y)
      BY <2>1, InsertHas
    <3>5. Put(x, i) = InsertAt(x, Min(R), i) BY <2>1 DEF R
    <3> HIDE DEF Put
    <3> QED BY <3>3, <3>4, <3>5
  <2>2. CASE i \notin S BY <2>2
  <2> QED BY <2>1, <2>2
<1>A. \A f : \A i : i # 0 => (IF i = 0 THEN <<>>
                          ELSE IF i \in S THEN InsertAt(f[i - 1], Place(f[i - 1], i), i)
                          ELSE f[i - 1]) = Put(f[i - 1], i)
  OBVIOUS
<1> HIDE DEF L, B, Place, Put
<1>4. \E f : Is(f)
  <2> DEFINE g == [p \in (1..L) \X B |-> Put(p[2], p[1])]
             X == [i \in 0..L |-> B]
  <2>1. \A i \in 1..L : \A x \in X[i - 1] : g[<<i, x>>] = Put(x, i) /\ g[<<i, x>>] \in X[i]
    <3> SUFFICES ASSUME NEW i \in 1..L, NEW x \in X[i - 1]
                 PROVE  g[<<i, x>>] = Put(x, i) /\ g[<<i, x>>] \in X[i]
      OBVIOUS
    <3>1. X[i - 1] = B /\ X[i] = B BY <1>1
    <3>2. x \in B BY <3>1
    <3>3. g[<<i, x>>] = Put(x, i) BY <3>2
    <3> HIDE DEF g, X
    <3> QED BY <1>3, <3>1, <3>2, <3>3
  <2>2. <<>> \in X[0] BY <1>1, <1>2
  <2> HIDE DEF X, g
  <2>3. PICK f : f = [i \in 0..L |-> IF i = 0 THEN <<>> ELSE g[<<i, f[i - 1]>>]]
    <3>1. \E f : Steps(f, L, <<>>, g) BY <1>1, <2>1, <2>2, Iterate
    <3> QED BY <3>1 DEF Steps
  <2> DEFINE T == {i \in 0..L : f[i] \in X[i]}
  <2>4. \A i \in 0..L : i \in T
    <3>1. 0 \in T BY <1>1, <2>2, <2>3
    <3>2. ASSUME NEW k \in 0..(L - 1), k \in T PROVE k + 1 \in T
      <4>1. f[k + 1] = g[<<k + 1, f[k]>>] BY <1>1, <2>3
      <4>2. k + 1 \in 1..L /\ (k + 1) - 1 = k /\ f[k] \in X[k] BY <1>1, <3>2
      <4>3. g[<<k + 1, f[k]>>] \in X[k + 1] BY <2>1, <4>2
      <4> QED BY <4>1, <4>2, <4>3
    <3> HIDE DEF T
    <3> QED BY <1>1, <3>1, <3>2, SetInduction
  <2>5. \A i \in 1..L : g[<<i, f[i - 1]>>] = Put(f[i - 1], i)
    <3> SUFFICES ASSUME NEW i \in 1..L PROVE g[<<i, f[i - 1]>>] = Put(f[i - 1], i)
      OBVIOUS
    <3>1. i - 1 \in T BY <1>1, <2>4
    <3> QED BY <2>1, <3>1
  <2>6. f = [i \in 0..L |-> IF i = 0 THEN <<>> ELSE Put(f[i - 1], i)]
    <3>1. \A i \in 0..L : i # 0 => i \in 1..L BY <1>1
    <3> QED BY <2>3, <2>5, <3>1
  <2>7. Is(f) BY <2>6 DEF Put
  <2> HIDE DEF Is
  <2> QED BY <2>7
<1>5. PICK f : Is(f) /\ Sorted(S) = f[L]
  <2>1. Sorted(S) = (CHOOSE f : Is(f))[L] BY DEF Sorted, L, Place
  <2> HIDE DEF Is
  <2> QED BY <1>4, <2>1
<1>10. DOMAIN tree = 1..L BY DEF L, TrieOK
<1> DEFINE T == {i \in 0..L : f[i] \in B /\ \A x \in S : x <= i => Has(f[i], x)}
<1>6. 0 \in T BY <1>1, <1>2, <1>5, <1>10
<1>7. ASSUME NEW k \in 0..(L - 1), k \in T PROVE k + 1 \in T
  <2>1. f[k + 1] = Put(f[k], k + 1) BY <1>1, <1>5 DEF Put
  <2>2. k + 1 \in 1..L /\ f[k] \in B BY <1>1, <1>7
  <2>3. ASSUME NEW x \in S, x <= k + 1 PROVE Has(f[k + 1], x)
    <3>1. x <= k \/ x = k + 1 BY <1>10, <2>3
    <3>2. x <= k => Has(f[k], x) BY <1>7
    <3> QED BY <1>9, <2>1, <2>2, <3>1, <3>2
  <2> QED BY <1>3, <2>1, <2>2, <2>3
<1>8. L \in T
  <2> HIDE DEF T, Is
  <2> QED BY <1>1, <1>6, <1>7, SetInduction
<1>11. \A x \in S : x <= L BY <1>10
<1> QED BY <1>5, <1>8, <1>11 DEF B

\* What is pushed are the ways on to the admitted children.
LEMMA PushIn ==
  ASSUME TrieOK(tree), NEW U, NEW f, NEW way,
         \A c \in ChildrenOf(f.node, Kindred(way)) : Admits(f, c, way) => Goes(f, c, way) \in U
  PROVE  Push(f, way) \in Seq(U)
<1> DEFINE S == {c \in ChildrenOf(f.node, Kindred(way)) : Admits(f, c, way)}
<1>1. S \in SUBSET (DOMAIN tree) BY DEF ChildrenOf, Children
<1>2. \A c \in S : Goes(f, c, way) \in U OBVIOUS
<1>3. PICK kids : kids = Sorted(S) OBVIOUS
<1>4. Push(f, way) = [i \in DOMAIN kids |-> Goes(f, kids[Len(kids) + 1 - i], way)]
  BY <1>3 DEF Push
<1> HIDE DEF S
<1>5. kids \in Seq(S) BY <1>1, <1>3, SortedIn
<1>6. PICK L \in Nat : L = Len(kids) /\ DOMAIN kids = 1..L BY <1>5
<1>7. \A i \in 1..L : kids[L + 1 - i] \in S
  <2>1. \A i \in 1..L : L + 1 - i \in 1..L OBVIOUS
  <2> QED BY <1>5, <1>6, <2>1
<1>8. PICK s : s = [i \in 1..L |-> Goes(f, kids[L + 1 - i], way)] OBVIOUS
<1>9. s \in Seq(U)
  <2>1. \A i \in 1..L : s[i] \in U BY <1>2, <1>7, <1>8
  <2>2. DOMAIN s = 1..L BY <1>8
  <2>3. s = [i \in 1..L |-> s[i]] BY <1>8
  <2>4. s \in [1..L -> U] BY <2>1, <2>3
  <2> QED BY <1>6, <2>4
<1> QED BY <1>4, <1>6, <1>8, <1>9

\* A frame on the stack.
Waits(f) == Arrived(f) /\ NoIndex(tree[f.node].branch)

Onward == {"wildcard", "skip", "optional", "param", "static", "pathless"}

LEMMA GoesIs ==
  ASSUME NEW f, IsFrame(f), NEW way \in Onward, NEW c \in DOMAIN tree, NEW g, g = Goes(f, c, way)
  PROVE  /\ IsFrame(g) /\ g.node = c /\ g.extract = f.extract /\ g.params = f.params
         /\ g.depth = f.depth + 1
         /\ g.skipped = IF way = "skip" THEN f.skipped \cup {f.depth % 32} ELSE f.skipped
         /\ g.index = IF way = "wildcard" THEN Beyond
                      ELSE IF way \in {"skip", "pathless"} THEN f.index ELSE f.index + 1
<1>1. CASE way = "wildcard" BY <1>1 DEF IsFrame, Fields, Goes, At
<1>2. CASE way = "skip" BY <1>2 DEF IsFrame, Fields, Goes, At
<1>3. CASE way = "optional" BY <1>3 DEF IsFrame, Fields, Goes, At
<1>4. CASE way = "param" BY <1>4 DEF IsFrame, Fields, Goes, At
<1>5. CASE way = "static" BY <1>5 DEF IsFrame, Fields, Goes, At
<1>6. CASE way = "pathless" BY <1>6 DEF IsFrame, Fields, Goes, At
<1> QED BY <1>1, <1>2, <1>3, <1>4, <1>5, <1>6 DEF Onward

LEMMA GoesGains ==
  ASSUME NEW f, IsFrame(f), NEW way \in Onward, NEW c, NEW g, g = Goes(f, c, way),
         NEW d, NEW R, NEW K, K = Len(d), Kind(d, K) = Kindred(way), K \in R <=> way = "skip"
  PROVE  Gains(f, g, d, R)
<1>1. CASE way = "wildcard" BY <1>1 DEF IsFrame, Fields, Goes, At, Gains, Kindred
<1>2. CASE way = "skip" BY <1>2 DEF IsFrame, Fields, Goes, At, Gains, Kindred
<1>3. CASE way = "optional" BY <1>3 DEF IsFrame, Fields, Goes, At, Gains, Kindred
<1>4. CASE way = "param" BY <1>4 DEF IsFrame, Fields, Goes, At, Gains, Kindred
<1>5. CASE way = "static" BY <1>5 DEF IsFrame, Fields, Goes, At, Gains, Kindred
<1>6. CASE way = "pathless" BY <1>6 DEF IsFrame, Fields, Goes, At, Gains, Kindred
<1> QED BY <1>1, <1>2, <1>3, <1>4, <1>5, <1>6 DEF Onward

\* The search only goes on to where the path lies.
LEMMA GoesOK ==
  ASSUME PathOK, TrieOK(tree), Shallow, NEW f, Explored(f), NoIndex(tree[f.node].branch),
         NEW way \in Onward, NEW c \in ChildrenOf(f.node, Kindred(way)), Admits(f, c, way)
  PROVE  Waits(Goes(f, c, way))
<1> PICK b, d, S, g : /\ b = tree[f.node].branch /\ d = tree[c].branch /\ S = f.skipped
                      /\ g = Goes(f, c, way)
  OBVIOUS
<1> PICK R : R = g.skipped OBVIOUS
<1>1. IsFrame(f) /\ f.node \in DOMAIN tree BY DEF Explored, IsFrame
<1>2. /\ c \in Children(tree, f.node) /\ c \in DOMAIN tree /\ tree[c].kind = Kindred(way)
      /\ b \in Seq(Nat) /\ d = Append(b, c)
  <2>1. c \in Children(tree, f.node) /\ tree[c].kind = Kindred(way) BY DEF ChildrenOf
  <2> QED BY <1>1, <2>1, ChildBranch
<1>3. PICK K \in Nat \ {0} : K = Len(d) /\ d[K] = c /\ Len(b) = K - 1
  <2>1. PICK L \in Nat : L = Len(b) BY <1>2
  <2>2. c \in Nat BY <1>2, MembersIn DEF TrieOK
  <2>3. Len(d) = L + 1 /\ d[L + 1] = c BY <1>2, <2>1, <2>2
  <2>4. L + 1 \in Nat \ {0} /\ L = (L + 1) - 1 OBVIOUS
  <2> QED BY <2>1, <2>3, <2>4
<1>4. /\ IsFrame(g) /\ g.node = c /\ g.extract = f.extract /\ g.params = f.params
      /\ g.depth = f.depth + 1
      /\ R = IF way = "skip" THEN S \cup {f.depth % 32} ELSE S
      /\ g.index = IF way = "wildcard" THEN Beyond
                   ELSE IF way \in {"skip", "pathless"} THEN f.index ELSE f.index + 1
  <2>1. g = Goes(f, c, way) /\ c \in DOMAIN tree BY <1>2
  <2>2. /\ IsFrame(g) /\ g.node = c /\ g.extract = f.extract /\ g.params = f.params
        /\ g.depth = f.depth + 1
        /\ g.skipped = IF way = "skip" THEN f.skipped \cup {f.depth % 32} ELSE f.skipped
        /\ g.index = IF way = "wildcard" THEN Beyond
                     ELSE IF way \in {"skip", "pathless"} THEN f.index ELSE f.index + 1
    BY <1>1, <2>1, GoesIs
  <2> QED BY <2>2
<1>5. Kind(d, K) = Kindred(way) BY <1>2, <1>3 DEF Kind
<1>6. ASSUME Live(f)
      PROVE  /\ R = S \/ (R = S \cup {K} /\ Kind(d, K) = "optional")
             /\ K \in R <=> way = "skip"
  <2>1. f.depth = K /\ K \notin S
    <3>1. f.depth = (K - 1) + 1 /\ S \subseteq 1..(K - 1) BY <1>3, <1>6 DEF Explored, FrameOK
    <3> QED BY <3>1
  <2>2. f.depth % 32 = K
    <3>1. K < 32 BY <1>2, <1>3 DEF Shallow
    <3> QED BY <2>1, <3>1
  <2> QED BY <1>4, <1>5, <2>1, <2>2 DEF Kindred
<1>7. ASSUME Live(f), f.index = PartAt(d, R, K)
      PROVE  Lies(d, R, K) /\ g.index = PartAt(d, R, K + 1)
  <2> PICK i : i = f.index OBVIOUS
  <2>1. /\ i \in Nat /\ i = PartAt(d, R, K)
        /\ Kind(d, K) = "wildcard" => PartAt(d, R, K + 1) = Beyond
        /\ Kind(d, K) # "wildcard" /\ ~Takes(d, R, K) => PartAt(d, R, K + 1) = i
        /\ Kind(d, K) # "wildcard" /\ Takes(d, R, K) /\ i < Beyond
              => PartAt(d, R, K + 1) = i + 1
    BY <1>7, StandsOK
  <2>2. Starts(c, i) => i < Beyond BY DEF Starts
  <2>3. CASE way = "wildcard"
    <3>1. Kind(d, K) = "wildcard" BY <1>5, <2>3 DEF Kindred
    <3>2. Lies(d, R, K) BY <1>3, <2>1, <2>3, <3>1 DEF Lies, Admits
    <3> QED BY <1>4, <2>1, <2>3, <3>1, <3>2
  <2>4. CASE way = "skip"
    <3>1. Kind(d, K) = "optional" /\ K \in R BY <1>5, <1>6, <1>7, <2>4 DEF Kindred
    <3>2. Lies(d, R, K) /\ ~Takes(d, R, K) BY <3>1 DEF Lies, Takes
    <3> QED BY <1>4, <2>1, <2>4, <3>1, <3>2
  <2>5. CASE way = "pathless"
    <3>1. Kind(d, K) = "pathless" BY <1>5, <2>5 DEF Kindred
    <3>2. Lies(d, R, K) /\ ~Takes(d, R, K) BY <3>1 DEF Lies, Takes
    <3> QED BY <1>4, <2>1, <2>5, <3>1, <3>2
  <2>6. CASE way = "static"
    <3>1. Kind(d, K) = "static" BY <1>5, <2>6 DEF Kindred
    <3>2. i < Beyond /\ tree[c].text = parts[i] BY <2>6 DEF Admits
    <3>3. Lies(d, R, K) /\ Takes(d, R, K) BY <1>3, <2>1, <3>1, <3>2 DEF Lies, Takes
    <3> QED BY <1>4, <2>1, <2>6, <3>1, <3>2, <3>3
  <2>7. CASE way = "param"
    <3>1. Kind(d, K) = "param" BY <1>5, <2>7 DEF Kindred
    <3>2. i < Beyond /\ Starts(c, i) /\ parts[i] # <<>> BY <2>2, <2>7 DEF Admits
    <3>3. Lies(d, R, K) /\ Takes(d, R, K) BY <1>3, <2>1, <3>1, <3>2 DEF Lies, Takes
    <3> QED BY <1>4, <2>1, <2>7, <3>1, <3>2, <3>3
  <2>8. CASE way = "optional"
    <3>1. Kind(d, K) = "optional" /\ K \notin R BY <1>5, <1>6, <1>7, <2>8 DEF Kindred
    <3>2. i < Beyond /\ Starts(c, i) BY <2>2, <2>8 DEF Admits
    <3>3. Lies(d, R, K) /\ Takes(d, R, K) BY <1>3, <2>1, <3>1, <3>2 DEF Lies, Takes
    <3> QED BY <1>4, <2>1, <2>8, <3>1, <3>2, <3>3
  <2> QED BY <2>3, <2>4, <2>5, <2>6, <2>7, <2>8 DEF Onward
<1>8. NoIndex(b) OBVIOUS
<1>9. Arrived(g)
  <2>1. /\ b = tree[f.node].branch /\ d = tree[c].branch /\ g.node = c /\ S = f.skipped
        /\ R = g.skipped /\ c \in Children(tree, f.node)
    BY <1>2, <1>4
  <2>2. Live(f) => R = S \/ (R = S \cup {Len(d)} /\ Kind(d, Len(d)) = "optional")
    BY <1>3, <1>6
  <2>3. Live(f) /\ f.index = PartAt(d, R, Len(d))
          => Lies(d, R, Len(d)) /\ g.index = PartAt(d, R, Len(d) + 1)
    BY <1>3, <1>7
  <2>4. IsFrame(g) /\ g.extract = f.extract /\ g.params = f.params /\ g.depth = f.depth + 1
    BY <1>4
  <2>5. Explored(f) /\ NoIndex(b) BY <1>8
  <2>6. Live(f) => Gains(f, g, d, R)
    <3>1. ASSUME Live(f) PROVE Gains(f, g, d, R)
      <4>1. K = Len(d) /\ Kind(d, K) = Kindred(way) /\ (K \in R <=> way = "skip")
        BY <1>3, <1>5, <1>6, <3>1
      <4>2. g = Goes(f, c, way) /\ IsFrame(f) BY <1>1
      <4> QED BY <4>1, <4>2, GoesGains
    <3> QED BY <3>1
  <2> QED BY <2>1, <2>2, <2>3, <2>4, <2>5, <2>6, ExtendOK, SMTT(60)
<1>10. NoIndex(d)
  <2>1. Kind(d, K) # "index" BY <1>5 DEF Kindred, Onward
  <2>2. \A j \in 1..K : j = K \/ (j \in 1..Len(b) /\ d[j] = b[j])
    <3>1. \A j \in 1..(K - 1) : d[j] = b[j] BY <1>2, <1>3
    <3> QED BY <1>3, <3>1
  <2> QED BY <1>3, <1>8, <2>1, <2>2 DEF NoIndex, Kind
<1> QED BY <1>4, <1>9, <1>10 DEF Waits

\* The index node below an explored frame at the end of the path.
LEMMA IndexOK ==
  ASSUME PathOK, TrieOK(tree), Indices(tree, {}), NEW f, Explored(f),
         NoIndex(tree[f.node].branch), f.index = Beyond, NEW n \in IndexOf(f.node)
  PROVE  Arrived(At(f, n)) /\ tree[n].route # 0 /\ tree[n].kind = "index"
<1> PICK b, d, S, g : b = tree[f.node].branch /\ d = tree[n].branch /\ S = f.skipped /\ g = At(f, n)
  OBVIOUS
<1>1. IsFrame(f) /\ f.node \in DOMAIN tree BY DEF Explored, IsFrame
<1>2. /\ n \in Children(tree, f.node) /\ n \in DOMAIN tree /\ tree[n].kind = "index"
      /\ b \in Seq(Nat) /\ d = Append(b, n)
  <2>1. n \in Children(tree, f.node) /\ tree[n].kind = "index" BY DEF IndexOf, ChildrenOf
  <2> QED BY <1>1, <2>1, ChildBranch
<1>3. PICK K \in Nat \ {0} : K = Len(d) /\ d[K] = n /\ Len(b) = K - 1
  <2>1. PICK L \in Nat : L = Len(b) BY <1>2
  <2>2. n \in Nat BY <1>2, MembersIn DEF TrieOK
  <2>3. Len(d) = L + 1 /\ d[L + 1] = n BY <1>2, <2>1, <2>2
  <2>4. L + 1 \in Nat \ {0} /\ L = (L + 1) - 1 OBVIOUS
  <2> QED BY <2>1, <2>3, <2>4
<1>4. /\ IsFrame(g) /\ g.node = n /\ g.extract = f.extract /\ g.params = f.params
      /\ g.depth = f.depth + 1 /\ g.skipped = S /\ g.index = Beyond
  BY <1>1, <1>2 DEF IsFrame, Fields, At
<1>5. Kind(d, K) = "index" BY <1>2, <1>3 DEF Kind
<1>6. ASSUME f.index = PartAt(d, S, K)
      PROVE  Lies(d, S, K) /\ g.index = PartAt(d, S, K + 1)
  <2>1. ~Takes(d, S, K) /\ Kind(d, K) # "wildcard" BY <1>5 DEF Takes
  <2>2. PartAt(d, S, K) = Beyond BY <1>6
  <2>3. PartAt(d, S, K + 1) = Beyond BY <2>1, <2>2, StandsOK
  <2>4. Lies(d, S, K) BY <1>5, <2>2 DEF Lies
  <2> QED BY <1>4, <2>3, <2>4
<1>7. NoIndex(b) OBVIOUS
<1>8. Arrived(g)
  <2>1. /\ b = tree[f.node].branch /\ d = tree[n].branch /\ g.node = n /\ S = f.skipped
        /\ S = g.skipped /\ n \in Children(tree, f.node)
    BY <1>2, <1>4
  <2>2. f.index = PartAt(d, S, Len(d))
          => Lies(d, S, Len(d)) /\ g.index = PartAt(d, S, Len(d) + 1)
    BY <1>3, <1>6
  <2>3. Gains(f, g, d, S)
    <3>1. Kind(d, Len(d)) = "index" BY <1>3, <1>5
    <3>2. g.statics = f.statics /\ g.dynamics = f.dynamics /\ g.optionals = f.optionals
      BY <1>1 DEF IsFrame, Fields, At
    <3> QED BY <3>1, <3>2 DEF Gains
  <2> QED BY <1>4, <1>7, <2>1, <2>2, <2>3, ExtendOK
<1>9. tree[n].route # 0 BY <1>2 DEF Indices
<1> QED BY <1>2, <1>8, <1>9

-----------------------------------------------------------------------------
(* What is found. *)

\* A frame at a route which the path fits up to there.
Reaches(f) ==
  /\ IsFrame(f) /\ FrameOK(f) /\ tree[f.node].route # 0
  /\ Passed(f, Len(tree[f.node].branch))

LEMMA ReachesRoute ==
  ASSUME TrieOK(tree), NEW f, Explored(f), tree[f.node].route # 0
  PROVE  Reaches(f)
<1>1. IsFrame(f) /\ f.node \in DOMAIN tree BY DEF Explored, IsFrame
<1>2. PICK n \in DOMAIN tree : n = f.node BY <1>1
<1>3. n \in Below(tree[n].branch) BY <1>2, BranchIs DEF Below, Begins
<1>4. Live(f) BY <1>2, <1>3 DEF Live
<1> QED BY <1>1, <1>4 DEF Explored, Reaches

Candidate(c) ==
  c \in Candidates /\ (c \in FullOnes <=> Full(c[1], c[2]))
    /\ (c \in PartialOnes <=> tree[c[1]].kind # "index")

LEMMA ReachesCandidate ==
  ASSUME TrieOK(tree), NEW f, Reaches(f)
  PROVE  Candidate(<<f.node, f.skipped>>)
<1>1. PICK n, S, b : n = f.node /\ S = f.skipped /\ b = tree[n].branch OBVIOUS
<1>2. /\ n \in DOMAIN tree /\ tree[n].route # 0 /\ b \in Seq(Nat)
      /\ S \subseteq {k \in 1..Len(b) : Kind(b, k) = "optional"}
      /\ \A k \in 1..Len(b) : Lies(b, S, k) /\ Passes(b, S, k)
  BY <1>1 DEF Reaches, IsFrame, FrameOK, OnTrack, Passed
<1>3. DOMAIN b = 1..Len(b) BY <1>2
<1>4. S \in Ways(n) BY <1>1, <1>2, <1>3 DEF Ways, Kind
<1>5. Fits(n, S) BY <1>1, <1>2, <1>3 DEF Fits
<1>6. <<n, S>> \in Candidates
  <2> DEFINE F(m) == {<<m, T>> : T \in {W \in Ways(m) : Fits(m, W)}}
  <2>1. <<n, S>> \in F(n) BY <1>4, <1>5
  <2>2. n \in {m \in DOMAIN tree : tree[m].route # 0} BY <1>2
  <2> HIDE DEF F
  <2>3. <<n, S>> \in UNION {F(m) : m \in {x \in DOMAIN tree : tree[x].route # 0}} BY <2>1, <2>2
  <2> QED BY <2>3 DEF Candidates, F
<1>7. PICK c : c = <<n, S>> /\ c[1] = n /\ c[2] = S
  <2>1. <<n, S>>[1] = n /\ <<n, S>>[2] = S OBVIOUS
  <2> QED BY <2>1, Zenon
<1>8. Candidate(c) BY <1>6, <1>7 DEF Candidate, FullOnes, PartialOnes
<1> QED BY <1>1, <1>7, <1>8

\* No route has a param named "**".
LEMMA NotStars ==
  ASSUME TrieOK(tree), WellNamed, NEW n \in DOMAIN tree, tree[n].route # 0,
         NEW b, b = tree[n].branch, NEW j \in 1..Len(b), Named(b, j)
  PROVE  Name(tree[n].route, b, j) # "**"
<1>1. b \in Seq(Nat) BY BranchIs
<1>2. j \in {k \in DOMAIN b : Named(b, k)} BY <1>1
<1> QED BY <1>2 DEF WellNamed

\* The params of a frame that is returned are those of its route.
Given(g) ==
  LET b == tree[g.node].branch
      values == ValuesOf(tree[g.node].route, b, g.skipped, Len(b))
  IN  \A name \in DOMAIN values : name \in DOMAIN g.params /\ g.params[name] = values[name]

LEMMA GivenOK ==
  ASSUME PathOK, TrieOK(tree), WellNamed, Shallow, NEW f, Reaches(f),
         NEW h, IsFrame(h), h.node = f.node, h.skipped = f.skipped, h.extract = f.extract,
         NEW v, h.params = f.params \/ h.params = Extended(Maps("**", v), f.params),
         NEW g, g = Extract(h)
  PROVE  g.node = f.node /\ g.skipped = f.skipped /\ Given(g)
<1> PICK n, b, S, r, s, p, e : /\ n = f.node /\ b = tree[n].branch /\ S = f.skipped
                               /\ r = tree[n].route /\ s = tree[n].full /\ p = f.params
                               /\ e = Walked(h)
  OBVIOUS
<1>1. n \in DOMAIN tree /\ r # 0 /\ OnTrack(b, S) /\ Resumes(f)
  BY DEF Reaches, IsFrame, FrameOK
<1>2. n \in Below(b) /\ WellNamedFor(r, s, b) BY <1>1, OwnNames
<1>3. Len(b) \in Nat /\ Len(b) < 32 BY <1>1, BranchIs DEF Shallow
<1>4. PICK m \in {h.extract.node - 1, h.extract.node} :
        /\ m = h.extract.node => h.extract.node <= Len(b) /\ Kind(b, m) = "wildcard"
        /\ Holds(p, r, b, S, 1..m)
  <2>1. PICK x : x = f.extract.node OBVIOUS
  <2>2. \E m \in {x - 1, x} :
          /\ m = x => x <= Len(b) /\ Kind(b, m) = "wildcard"
          /\ \A i \in Below(b) : Holds(p, tree[i].route, b, S, 1..m)
    BY <1>1, <2>1 DEF Resumes
  <2>3. h.extract.node = x BY <2>1
  <2> QED BY <1>2, <2>2, <2>3
<1>5. Marked(h) BY <1>1 DEF Resumes, Marked
<1>6. b = tree[h.node].branch /\ S = h.skipped /\ s = tree[h.node].full OBVIOUS
<1>7. PICK q : q = Extended(p, e.params) OBVIOUS
<1>8. Holds(q, r, b, S, 1..Len(b))
  <2>1. WalkEnd(e, p, r, b, S) BY <1>1, <1>2, <1>3, <1>4, <1>5, <1>6, WalkEnds
  <2> QED BY <1>7, <2>1 DEF WalkEnd
<1>9. ValuesOf(r, b, S, Len(b)) = q
  <2>1. Holds(ValuesOf(r, b, S, Len(b)), r, b, S, 1..Len(b))
    BY <1>2, <1>3, HoldsValues DEF WellNamedFor
  <2> QED BY <1>8, <2>1, HoldsUnique
<1>10. g.node = n /\ g.skipped = S /\ g.params = Extended(h.params, e.params)
  BY ExtractIs
<1>11. ASSUME NEW x \in DOMAIN q PROVE x \in DOMAIN g.params /\ g.params[x] = q[x]
  <2>1. x # "**"
    <3>1. PICK j \in 1..Len(b) : Binds(b, S, j) /\ x = Name(r, b, j) BY <1>8 DEF Holds
    <3>2. Named(b, j) BY <3>1, BindsNamed
    <3> QED BY <1>1, <3>1, <3>2, NotStars
  <2>2. PICK o : o = h.params OBVIOUS
  <2>3. (x \in DOMAIN o <=> x \in DOMAIN p) /\ (x \in DOMAIN p => o[x] = p[x])
    <3>1. CASE o = p BY <3>1
    <3>2. CASE o # p
      <4>1. PICK t : t = Maps("**", v) /\ o = Extended(t, p) BY <2>2, <3>2
      <4>2. DOMAIN t = {"**"} BY <4>1 DEF Maps
      <4> QED BY <2>1, <4>1, <4>2, ExtendedIs
    <3> QED BY <3>1, <3>2
  <2>4. PICK w : w = Extended(o, e.params) /\ w = g.params BY <1>10, <2>2
  <2>5. PICK u : u = e.params OBVIOUS
  <2>6. q = Extended(p, u) /\ w = Extended(o, u) BY <1>7, <2>4, <2>5
  <2>7. x \in DOMAIN p \/ x \in DOMAIN u BY <2>6, ExtendedIs
  <2>8. x \in DOMAIN w BY <2>3, <2>6, <2>7, ExtendedIs
  <2>9. CASE x \in DOMAIN p
    <3>1. q[x] = p[x] /\ w[x] = o[x] BY <2>3, <2>6, <2>9, ExtendedIs
    <3> QED BY <2>3, <2>4, <2>8, <2>9, <3>1
  <2>10. CASE x \notin DOMAIN p
    <3>1. q[x] = u[x] /\ w[x] = u[x] BY <2>3, <2>6, <2>7, <2>10, ExtendedIs
    <3> QED BY <2>4, <2>8, <3>1
  <2> QED BY <2>9, <2>10
<1> QED BY <1>9, <1>10, <1>11 DEF Given

\* Where the path lies on a branch does not change while the search goes on.
SameBranches ==
  /\ parts' = parts /\ Beyond' = Beyond /\ (PathIsIndex' <=> PathIsIndex)
  /\ \A b, k : Kind(b, k)' = Kind(b, k) /\ Segment(b, k)' = Segment(b, k)
  /\ \A b, S, k : /\ PartAt(b, S, k)' = PartAt(b, S, k)
                  /\ Value(b, S, k)' = Value(b, S, k)
                  /\ Binds(b, S, k)' <=> Binds(b, S, k)
                  /\ Lies(b, S, k)' <=> Lies(b, S, k)
                  /\ Passes(b, S, k)' <=> Passes(b, S, k)
  /\ \A r, b, k : Name(r, b, k)' = Name(r, b, k)
  /\ \A r, b, S, k : ValuesOf(r, b, S, k)' = ValuesOf(r, b, S, k)

LEMMA BranchesSame ==
  ASSUME tree' = tree, path' = path
  PROVE  SameBranches
<1>1. parts' = parts BY DEF parts
<1>2. Beyond' = Beyond BY <1>1 DEF Beyond
<1>3. PathIsIndex' <=> PathIsIndex BY <1>1 DEF PathIsIndex
<1>4. \A b, k : Kind(b, k)' = Kind(b, k) BY DEF Kind
<1>5. \A n, x : After(n, x)' = After(n, x) BY DEF After
<1>6. \A n, i : Rest(n, i)' = Rest(n, i) BY <1>1, <1>5 DEF Rest
<1>7. \A n, i : Starts(n, i)' <=> Starts(n, i) BY <1>1, <1>2 DEF Starts
<1>8. \A b, S, k : Takes(b, S, k)' <=> Takes(b, S, k) BY <1>4 DEF Takes
<1>9. \A b, S, k : PartAt(b, S, k)' = PartAt(b, S, k)
  <2> SUFFICES ASSUME NEW b, NEW S, NEW k PROVE PartAt(b, S, k)' = PartAt(b, S, k) OBVIOUS
  <2>1. {j \in 1..(k - 1) : Takes(b, S, j)}' = {j \in 1..(k - 1) : Takes(b, S, j)} BY <1>8
  <2>2. (\E j \in 1..(k - 1) : Kind(b, j) = "wildcard")' <=> (\E j \in 1..(k - 1) : Kind(b, j) = "wildcard")
    BY <1>4
  <2> QED BY <1>2, <2>1, <2>2 DEF PartAt
<1>10. \A b, k : Segment(b, k)' = Segment(b, k)
  <2> SUFFICES ASSUME NEW b, NEW k PROVE Segment(b, k)' = Segment(b, k) OBVIOUS
  <2>1. {j \in 1..(k - 1) : Kind(b, j) \notin {"pathless", "index"}}'
          = {j \in 1..(k - 1) : Kind(b, j) \notin {"pathless", "index"}}
    BY <1>4
  <2> QED BY <2>1 DEF Segment
<1>11. \A r, b, k : Name(r, b, k)' = Name(r, b, k) BY <1>4, <1>10 DEF Name
<1>12. \A b, S, k : Value(b, S, k)' = Value(b, S, k) BY <1>1, <1>4, <1>5, <1>6, <1>9 DEF Value
<1>13. \A b, S, k : Binds(b, S, k)' <=> Binds(b, S, k) BY <1>4, <1>12 DEF Binds
<1>14. \A b, S, k : Lies(b, S, k)' <=> Lies(b, S, k)
  BY <1>1, <1>2, <1>4, <1>7, <1>9 DEF Lies
<1>15. \A r, b, S, k : ValuesOf(r, b, S, k)' = ValuesOf(r, b, S, k)
  <2> SUFFICES ASSUME NEW r, NEW b, NEW S, NEW k
               PROVE  ValuesOf(r, b, S, k)' = ValuesOf(r, b, S, k)
    OBVIOUS
  <2> DEFINE B == {j \in 1..k : Binds(b, S, j)}
             F(x) == CHOOSE j \in B : Name(r, b, j) = x
             D == {Name(r, b, j) : j \in B}
  <2>1. B' = B BY <1>13
  <2>2. \A x : F(x)' = F(x)
    <3> SUFFICES ASSUME NEW x PROVE F(x)' = F(x) OBVIOUS
    <3>1. \A j : (j \in B)' /\ Name(r, b, j)' = x <=> j \in B /\ Name(r, b, j) = x BY <1>11, <2>1
    <3> HIDE DEF B
    <3> QED BY <3>1, Zenon
  <2>3. D' = D BY <1>11, <2>1
  <2>4. \A x : Value(b, S, F(x))' = Value(b, S, F(x))
    <3> HIDE DEF F
    <3> QED BY <1>12, <2>2
  <2> HIDE DEF D, F, B
  <2>5. [x \in D |-> Value(b, S, F(x))]' = [x \in D |-> Value(b, S, F(x))] BY <2>3, <2>4
  <2> QED BY <2>5 DEF ValuesOf, D, F, B
<1>16. \A b, S, k : Passes(b, S, k)' <=> Passes(b, S, k) BY <1>15 DEF Passes
<1> QED BY <1>1, <1>2, <1>3, <1>4, <1>9, <1>10, <1>11, <1>12, <1>13, <1>14, <1>15, <1>16
        DEF SameBranches

-----------------------------------------------------------------------------
(* The invariant. *)

\* A frame at a route that the whole path fits, or the beginning of it.
Matches(f) ==
  /\ Reaches(f) /\ f.index = Beyond
  /\ PathIsIndex => tree[f.node].kind \in {"index", "wildcard"}
Begun(f) == Reaches(f) /\ fuzzy /\ tree[f.node].kind # "index"

\* What is returned is one of these, with the params of its route.
Right(g) ==
  /\ <<g.node, g.skipped>> \in FullOnes \cup (IF fuzzy THEN PartialOnes ELSE {})
  /\ Given(g)

Stacked(s) == \E U : s \in Seq(U) /\ \A f \in U : Waits(f)

Searched ==
  /\ Stacked(stack)
  /\ bestMatch # NoFrame => Matches(bestMatch)
  /\ bestFuzzy # NoFrame => Begun(bestFuzzy)
  /\ result # Searching /\ result # NoFrame => Right(result)

Built == routes \in Orders /\ tree = TreeOf(routes) /\ path \in Paths

MatcherInv == Built /\ (WellNamed /\ Shallow => Searched)

LEMMA BuiltGives ==
  ASSUME Built
  PROVE  TrieOK(tree) /\ Indices(tree, {}) /\ PathOK
BY TreeOfOK, MatcherAssumption DEF Built, PathOK

LEMMA MatchesAre ==
  ASSUME TrieOK(tree), NEW f
  PROVE  /\ Matches(f) => <<f.node, f.skipped>> \in FullOnes
         /\ Begun(f) => fuzzy /\ <<f.node, f.skipped>> \in PartialOnes
<1> PICK n, S, c : n = f.node /\ S = f.skipped /\ c = <<n, S>> OBVIOUS
<1>1. c[1] = n /\ c[2] = S OBVIOUS
<1>2. ASSUME Matches(f) PROVE c \in FullOnes
  <2>1. Reaches(f) BY <1>2 DEF Matches
  <2>2. Candidate(c) BY <2>1, ReachesCandidate
  <2>3. f.index = PartAt(tree[n].branch, S, Len(tree[n].branch) + 1)
    BY <2>1 DEF Reaches, FrameOK
  <2>4. Full(n, S) BY <1>2, <2>3 DEF Matches, Full, Reached
  <2> QED BY <1>1, <2>2, <2>4 DEF Candidate
<1>3. ASSUME Begun(f) PROVE fuzzy /\ c \in PartialOnes
  <2>1. Candidate(c) BY <1>3, ReachesCandidate DEF Begun
  <2> QED BY <1>1, <1>3, <2>1 DEF Begun, Candidate
<1> QED BY <1>2, <1>3

LEMMA ReturnOK ==
  ASSUME PathOK, TrieOK(tree), WellNamed, Shallow, NEW f, Matches(f) \/ Begun(f),
         NEW h, IsFrame(h), h.node = f.node, h.skipped = f.skipped, h.extract = f.extract,
         NEW v, h.params = f.params \/ h.params = Extended(Maps("**", v), f.params),
         NEW g, g = Extract(h)
  PROVE  Right(g)
<1>1. Reaches(f) BY DEF Matches, Begun
<1>2. g.node = f.node /\ g.skipped = f.skipped /\ Given(g) BY <1>1, GivenOK
<1>3. <<f.node, f.skipped>> \in FullOnes \cup (IF fuzzy THEN PartialOnes ELSE {})
  BY MatchesAre
<1> QED BY <1>2, <1>3 DEF Right

\* Stacks of frames that wait.
LEMMA StackTop ==
  ASSUME NEW s, Stacked(s), s # <<>>
  PROVE  Waits(Last(s)) /\ Stacked(Front(s))
<1>1. PICK U : s \in Seq(U) /\ \A f \in U : Waits(f) BY DEF Stacked
<1>2. Last(s) \in U /\ Front(s) \in Seq(U) BY <1>1 DEF Last, Front
<1> QED BY <1>1, <1>2 DEF Stacked

LEMMA StackJoin ==
  ASSUME NEW s, NEW t, Stacked(s), Stacked(t)
  PROVE  Stacked(s \o t)
<1>1. PICK U : s \in Seq(U) /\ \A f \in U : Waits(f) BY DEF Stacked
<1>2. PICK V : t \in Seq(V) /\ \A f \in V : Waits(f) BY DEF Stacked
<1>3. s \in Seq(U \cup V) /\ t \in Seq(U \cup V) BY <1>1, <1>2
<1>4. s \o t \in Seq(U \cup V) BY <1>3
<1> QED BY <1>1, <1>2, <1>4 DEF Stacked

LEMMA PushedOK ==
  ASSUME PathOK, TrieOK(tree), Shallow, NEW f, Explored(f), NoIndex(tree[f.node].branch)
  PROVE  Stacked(Pushed(f))
<1>1. ASSUME NEW way \in Onward PROVE Stacked(Push(f, way))
  <2> DEFINE U == {Goes(f, c, way) : c \in {d \in ChildrenOf(f.node, Kindred(way)) : Admits(f, d, way)}}
  <2>1. \A g \in U : Waits(g) BY GoesOK
  <2>2. \A c \in ChildrenOf(f.node, Kindred(way)) : Admits(f, c, way) => Goes(f, c, way) \in U
    OBVIOUS
  <2> HIDE DEF U
  <2>3. Push(f, way) \in Seq(U) BY <2>2, PushIn
  <2> QED BY <2>1, <2>3 DEF Stacked
<1>2. PICK a, b, c, d, e, g :
        /\ a = Push(f, "wildcard") /\ b = Push(f, "skip") /\ c = Push(f, "optional")
        /\ d = Push(f, "param") /\ e = Push(f, "static") /\ g = Push(f, "pathless")
  OBVIOUS
<1>3. Stacked(a) /\ Stacked(b) /\ Stacked(c) /\ Stacked(d) /\ Stacked(e) /\ Stacked(g)
  BY <1>1, <1>2 DEF Onward
<1>4. Stacked(a \o b) BY <1>3, StackJoin
<1>5. Stacked((a \o b) \o c) BY <1>3, <1>4, StackJoin
<1>6. Stacked(((a \o b) \o c) \o d) BY <1>3, <1>5, StackJoin
<1>7. Stacked((((a \o b) \o c) \o d) \o e) BY <1>3, <1>6, StackJoin
<1>8. Stacked(((((a \o b) \o c) \o d) \o e) \o g) BY <1>3, <1>7, StackJoin
<1>9. Pushed(f) = ((((a \o b) \o c) \o d) \o e) \o g BY <1>2 DEF Pushed
<1> QED BY <1>8, <1>9

-----------------------------------------------------------------------------
(* The tree and the path do not change. *)

LEMMA SumsSame ==
  ASSUME SameBranches
  PROVE  \A b, S, kind : /\ Matched(b, S, kind)' = Matched(b, S, kind)
                         /\ Sum(b, S, kind)' = Sum(b, S, kind)
<1> SUFFICES ASSUME NEW b, NEW S, NEW kind
             PROVE  /\ Matched(b, S, kind)' = Matched(b, S, kind)
                    /\ Sum(b, S, kind)' = Sum(b, S, kind)
  OBVIOUS
<1>1. Matched(b, S, kind)' = Matched(b, S, kind) BY DEF Matched, SameBranches
<1> QED BY <1>1 DEF Sum, SameBranches, Score, Less, Leads

SameFrames ==
  /\ \A s : Stacked(s)' <=> Stacked(s)
  /\ \A f : (Matches(f)' <=> Matches(f)) /\ (Begun(f)' <=> Begun(f)) /\ (Right(f)' <=> Right(f))
  /\ (WellNamed' <=> WellNamed) /\ (Shallow' <=> Shallow)
  /\ FullOnes' = FullOnes /\ PartialOnes' = PartialOnes /\ Candidates' = Candidates

LEMMA FramesSame ==
  ASSUME tree' = tree, path' = path, fuzzy' = fuzzy
  PROVE  SameFrames
<1>1. SameBranches BY BranchesSame
<1>2. \A b : Below(b)' = Below(b) BY DEF Below
<1>3. \A f : IsFrame(f)' <=> IsFrame(f) BY DEF IsFrame
<1>4. \A f : Marked(f)' <=> Marked(f) BY <1>1 DEF Marked, SameBranches
<1>5. \A p, r, b, S, J : Holds(p, r, b, S, J)' <=> Holds(p, r, b, S, J)
  BY <1>1 DEF Holds, SameBranches
<1>6. \A f : Resumes(f)' <=> Resumes(f) BY <1>1, <1>2, <1>4, <1>5 DEF Resumes, SameBranches
<1>7. \A b, S : OnTrack(b, S)' <=> OnTrack(b, S) BY <1>1 DEF OnTrack, SameBranches
<1>8. \A f : FrameOK(f)' <=> FrameOK(f)
  <2> SUFFICES ASSUME NEW f PROVE FrameOK(f)' <=> FrameOK(f) OBVIOUS
  <2>1. \A b : {k \in 1..Len(b) : Kind(b, k) = "optional"}' = {k \in 1..Len(b) : Kind(b, k) = "optional"}
    BY <1>1 DEF SameBranches
  <2>2. \A b, S, kind : Sum(b, S, kind)' = Sum(b, S, kind) BY <1>1, SumsSame
  <2>3. Scored(f)' <=> Scored(f) BY <2>2 DEF Scored
  <2> QED BY <1>1, <1>6, <1>7, <2>1, <2>3 DEF FrameOK, SameBranches
<1>9. \A f, k : Passed(f, k)' <=> Passed(f, k) BY <1>1 DEF Passed, SameBranches
<1>10. \A f : Live(f)' <=> Live(f) BY <1>2 DEF Live
<1>11. \A b : NoIndex(b)' <=> NoIndex(b) BY <1>1 DEF NoIndex, SameBranches
<1>12. \A f : Waits(f)' <=> Waits(f) BY <1>3, <1>8, <1>9, <1>10, <1>11 DEF Waits, Arrived
<1>13. \A s : Stacked(s)' <=> Stacked(s) BY <1>12 DEF Stacked
<1>14. \A f : Reaches(f)' <=> Reaches(f) BY <1>3, <1>8, <1>9 DEF Reaches
<1>15. \A f : Matches(f)' <=> Matches(f) BY <1>1, <1>14 DEF Matches, SameBranches
<1>16. \A f : Begun(f)' <=> Begun(f) BY <1>14 DEF Begun
<1>17. \A f : Given(f)' <=> Given(f) BY <1>1 DEF Given, SameBranches
<1>18. FullOnes' = FullOnes /\ PartialOnes' = PartialOnes /\ Candidates' = Candidates
  <2>1. \A n : Ways(n)' = Ways(n) BY DEF Ways
  <2>2. \A n, S : Fits(n, S)' <=> Fits(n, S) BY <1>1 DEF Fits, SameBranches
  <2>3. \A n, S : Full(n, S)' <=> Full(n, S) BY <1>1 DEF Full, Reached, SameBranches
  <2>4. \A n : {<<n, S>> : S \in {W \in Ways(n) : Fits(n, W)}}'
                 = {<<n, S>> : S \in {W \in Ways(n) : Fits(n, W)}}
    BY <2>1, <2>2
  <2>5. Candidates' = Candidates BY <2>4 DEF Candidates
  <2>6. FullOnes' = FullOnes /\ PartialOnes' = PartialOnes
    BY <2>3, <2>5 DEF FullOnes, PartialOnes
  <2> QED BY <2>5, <2>6
<1>19. \A f : Right(f)' <=> Right(f) BY <1>17, <1>18 DEF Right
<1>20. WellNamed' <=> WellNamed
  <2>1. \A b, k : Named(b, k)' <=> Named(b, k) BY <1>1 DEF Named, SameBranches
  <2> QED BY <1>1, <2>1 DEF WellNamed, SameBranches
<1>21. Shallow' <=> Shallow BY DEF Shallow
<1> QED BY <1>13, <1>15, <1>16, <1>18, <1>19, <1>20, <1>21 DEF SameFrames

-----------------------------------------------------------------------------
(* The steps. *)

LEMMA FirstOK ==
  ASSUME PathOK, TrieOK(tree)
  PROVE  Waits(First) /\ Explored(First) /\ First.index = 1 /\ First.node = 1
<1> PICK f : f = First OBVIOUS
<1>1. /\ f = [x \in DOMAIN f |-> f[x]] /\ DOMAIN f = Fields /\ f.node = 1 /\ f.index = 1
      /\ f.skipped = {} /\ f.depth = 1 /\ f.params = <<>>
      /\ f.extract.part = 1 /\ f.extract.node = 1 /\ f.extract.segment = 1
  BY DEF First, Fields
<1>2. 1 \in DOMAIN tree /\ tree[1].branch = <<>> BY DEF TrieOK
<1>3. IsFrame(f) BY <1>1, <1>2 DEF IsFrame
<1>4. PICK b : b = tree[f.node].branch /\ b = <<>> /\ Len(b) = 0 BY <1>1, <1>2
<1>5. PartAt(b, {}, 1) = 1 /\ Segment(b, 1) = 1 BY PartFirst
<1>6. Marked(f) BY <1>1, <1>4, <1>5 DEF Marked
<1>7. Resumes(f)
  <2>1. \A r : Holds(<<>>, r, b, {}, 1..0) BY HoldsNone
  <2>2. \A n \in Below(b) : Holds(f.params, tree[n].route, b, f.skipped, 1..0) BY <1>1, <2>1
  <2>3. 0 \in {f.extract.node - 1, f.extract.node} /\ 0 # f.extract.node BY <1>1
  <2> QED BY <1>4, <1>6, <2>2, <2>3 DEF Resumes
<1>8. OnTrack(b, {}) BY <1>4 DEF OnTrack
<1>12. Scored(f)
  <2>1. \A kind : Sum(b, {}, kind) = 0 BY <1>4, SumFirst
  <2>2. f.statics = 0 /\ f.dynamics = 0 /\ f.optionals = 0 BY DEF First
  <2> QED BY <1>1, <1>4, <2>1, <2>2 DEF Scored
<1>9. FrameOK(f) BY <1>1, <1>4, <1>5, <1>7, <1>8, <1>12 DEF FrameOK
<1>10. Passed(f, Len(b) - 1) /\ Passed(f, Len(b)) BY <1>4 DEF Passed
<1>11. NoIndex(b) BY <1>4 DEF NoIndex
<1> QED BY <1>1, <1>3, <1>4, <1>9, <1>10, <1>11 DEF Waits, Arrived, Explored

\* The guard of an index route at the root has no params to refuse.
LEMMA RootIndexOK ==
  ASSUME PathOK, TrieOK(tree), Indices(tree, {}), parts = <<>>, NEW n \in IndexOf(1),
         NEW g, g = At(First, n)
  PROVE  Matches(g)
<1>1. Explored(First) /\ First.index = 1 /\ First.node = 1 /\ NoIndex(tree[1].branch)
  BY FirstOK DEF Waits
<1>2. Beyond = 1 BY DEF Beyond
<1>3. Arrived(g) /\ tree[n].route # 0 /\ tree[n].kind = "index" BY <1>1, <1>2, IndexOK
<1>4. g.node = n /\ g.index = 1 /\ IsFrame(g) /\ n \in DOMAIN tree
  <2>1. IsFrame(First) BY <1>1 DEF Explored
  <2> QED BY <1>1, <1>3, <2>1 DEF Arrived, IsFrame, At, Fields
<1>5. PICK b : b = tree[n].branch /\ b = <<n>> /\ Len(b) = 1 /\ b[1] = n
  <2>1. 1 \in DOMAIN tree /\ tree[1].branch = <<>> BY DEF TrieOK
  <2>2. n \in Children(tree, 1) BY DEF IndexOf, ChildrenOf
  <2>3. tree[n].branch = Append(<<>>, n) BY <2>1, <2>2, ChildBranch
  <2>4. PICK b : b = tree[n].branch OBVIOUS
  <2>5. <<>> \in Seq(Nat) /\ n \in Nat BY <1>4, MembersIn DEF TrieOK
  <2>6. Append(<<>>, n) = <<n>> BY <2>5
  <2>7. Len(<<n>>) = 1 /\ <<n>>[1] = n BY <2>5
  <2> QED BY <2>3, <2>4, <2>6, <2>7
<1>6. Explored(g)
  <2> SUFFICES ASSUME Live(g) PROVE FrameOK(g) /\ Passed(g, 1)
    BY <1>4, <1>5 DEF Explored
  <2>1. FrameOK(g) BY <1>3 DEF Arrived
  <2>2. PICK S : S = g.skipped OBVIOUS
  <2>3. ~Binds(b, S, 1) BY <1>3, <1>5 DEF Binds, Kind
  <2>4. ASSUME NEW r PROVE DOMAIN ValuesOf(r, b, S, 1) = {}
    <3>1. {j \in 1..1 : Binds(b, S, j)} = {} BY <2>3
    <3> QED BY <3>1 DEF ValuesOf
  <2>5. Passes(b, S, 1) BY <2>4 DEF Passes, Accepts
  <2> QED BY <1>4, <1>5, <2>1, <2>2, <2>5 DEF Passed
<1>7. Reaches(g) BY <1>3, <1>4, <1>6, ReachesRoute
<1> QED BY <1>2, <1>3, <1>4, <1>7 DEF Matches

\* The frames of one turn of the loop.
LEMMA TurnOK ==
  ASSUME PathOK, TrieOK(tree), Indices(tree, {}), WellNamed, Shallow,
         NEW p, Waits(p), Valid(p), NEW f, f = Parsed(p)
  PROVE  /\ Explored(f) /\ NoIndex(tree[f.node].branch)
         /\ f.index = Beyond /\ tree[f.node].route # 0
              /\ (PathIsIndex => tree[f.node].kind \in {"index", "wildcard"}) => Matches(f)
         /\ fuzzy /\ tree[f.node].route # 0 /\ tree[f.node].kind # "index" => Begun(f)
         /\ \A n \in IndexOf(f.node) :
              f.index = Beyond /\ Valid(At(f, n)) => Matches(Parsed(At(f, n)))
<1>1. Explored(f) /\ NoIndex(tree[f.node].branch)
  <2>1. Arrived(p) /\ NoIndex(tree[p.node].branch) BY DEF Waits
  <2> QED BY <2>1, ParseOK
<1>2. tree[f.node].route # 0 => Reaches(f) BY <1>1, ReachesRoute
<1>3. ASSUME NEW n \in IndexOf(f.node), f.index = Beyond, NEW g, g = At(f, n), Valid(g)
      PROVE  Matches(Parsed(g))
  <2>1. Arrived(g) /\ tree[n].route # 0 /\ tree[n].kind = "index" BY <1>1, <1>3, IndexOK
  <2>2. g.node = n /\ g.index = Beyond
    <3>1. IsFrame(f) BY <1>1 DEF Explored
    <3> QED BY <1>3, <3>1 DEF IsFrame, At, Fields
  <2>3. PICK h : h = Parsed(g) OBVIOUS
  <2>4. Explored(h) /\ h.node = n /\ h.index = Beyond BY <1>3, <2>1, <2>2, <2>3, ParseOK
  <2>5. Reaches(h) BY <2>1, <2>4, ReachesRoute
  <2>6. Matches(h) BY <2>1, <2>4, <2>5 DEF Matches
  <2> QED BY <2>3, <2>6
<1> QED BY <1>1, <1>2, <1>3 DEF Matches, Begun

LEMMA InitInv == Init => MatcherInv
<1> SUFFICES ASSUME Init PROVE MatcherInv OBVIOUS
<1>1. Built BY DEF Init, Built
<1>2. Waits(First) BY <1>1, BuiltGives, FirstOK
<1>3. Stacked(stack)
  <2>1. PICK f : f = First OBVIOUS
  <2>2. stack \in Seq({f}) /\ \A g \in {f} : Waits(g) BY <1>2, <2>1 DEF Init
  <2> QED BY <2>2 DEF Stacked
<1>4. bestMatch = NoFrame /\ bestFuzzy = NoFrame /\ result = Searching BY DEF Init
<1> QED BY <1>1, <1>3, <1>4 DEF MatcherInv, Searched

\* What a step must do to keep the invariant.
Kept ==
  /\ Stacked(stack')
  /\ bestMatch' # NoFrame => Matches(bestMatch')
  /\ bestFuzzy' # NoFrame => Begun(bestFuzzy')
  /\ result' # Searching /\ result' # NoFrame => Right(result')

LEMMA KeptOK ==
  ASSUME MatcherInv, routes' = routes, tree' = tree, path' = path, fuzzy' = fuzzy,
         WellNamed /\ Shallow => Kept
  PROVE  MatcherInv'
<1>1. Built' BY DEF MatcherInv, Built
<1>2. SameFrames BY FramesSame
<1>3. ASSUME WellNamed', Shallow' PROVE Searched'
  <2>1. Kept BY <1>2, <1>3 DEF SameFrames
  <2>2. PICK s, m, z, r : s = stack' /\ m = bestMatch' /\ z = bestFuzzy' /\ r = result' OBVIOUS
  <2>3. Stacked(s)' /\ (m # NoFrame => Matches(m)') /\ (z # NoFrame => Begun(z)')
        /\ (r # Searching /\ r # NoFrame => Right(r)')
    BY <1>2, <2>1, <2>2 DEF Kept, SameFrames
  <2> QED BY <2>2, <2>3 DEF Searched
<1> QED BY <1>1, <1>3 DEF MatcherInv

LEMMA EmptyStacked == Stacked(<<>>)
<1>1. PICK U : U = {} OBVIOUS
<1>2. <<>> \in Seq(U) /\ \A f \in U : Waits(f) BY <1>1
<1> QED BY <1>2 DEF Stacked

LEMMA RootIndexInv ==
  ASSUME MatcherInv, RootIndex
  PROVE  MatcherInv'
<1> USE DEF MatcherInv
<1>1. Built /\ TrieOK(tree) /\ Indices(tree, {}) /\ PathOK BY BuiltGives
<1>2. ASSUME WellNamed, Shallow PROVE Kept
  <2>1. PICK n \in IndexOf(1) : Return(At(First, n)) BY DEF RootIndex
  <2>2. PICK g : g = At(First, n) OBVIOUS
  <2>3. Matches(g) BY <1>1, <2>2, RootIndexOK DEF RootIndex, Quick
  <2>4. Right(Extract(g))
    <3>1. IsFrame(g) BY <2>3 DEF Matches, Reaches
    <3>2. PICK e : e = Extract(g) OBVIOUS
    <3>3. Right(e) BY <1>1, <1>2, <2>3, <3>1, <3>2, ReturnOK
    <3> QED BY <3>2, <3>3
  <2>5. stack' = <<>> /\ (result' = NoFrame \/ result' = Extract(g)) BY <2>1, <2>2 DEF Return
  <2>6. Stacked(stack') BY <2>5, EmptyStacked
  <2>7. bestMatch' = bestMatch /\ bestFuzzy' = bestFuzzy BY DEF RootIndex
  <2>8. Searched BY <1>2
  <2> QED BY <2>4, <2>5, <2>6, <2>7, <2>8 DEF Kept, Searched
<1> QED BY <1>2, KeptOK DEF RootIndex

LEMMA DiscardInv ==
  ASSUME MatcherInv, Discard
  PROVE  MatcherInv'
<1>1. ASSUME WellNamed, Shallow PROVE Kept
  <2>1. Searched BY <1>1 DEF MatcherInv
  <2>2. stack # <<>> /\ stack' = Front(stack) BY DEF Discard, Running
  <2>3. Stacked(stack') BY <2>1, <2>2, StackTop DEF Searched
  <2>4. bestMatch' = bestMatch /\ bestFuzzy' = bestFuzzy /\ result' = result BY DEF Discard
  <2> QED BY <2>1, <2>3, <2>4 DEF Kept, Searched
<1> QED BY <1>1, KeptOK DEF Discard

LEMMA ExploreInv ==
  ASSUME MatcherInv, Explore
  PROVE  MatcherInv'
<1>1. Built /\ TrieOK(tree) /\ Indices(tree, {}) /\ PathOK BY BuiltGives DEF MatcherInv
<1>2. ASSUME WellNamed, Shallow PROVE Kept
  <2>1. Searched BY <1>2 DEF MatcherInv
  <2> DEFINE f == Parsed(Popped)
             node == tree[f.node]
             beyond == f.index = Beyond
             full == /\ beyond /\ node.route # 0
                     /\ PathIsIndex => node.kind \in {"index", "wildcard"}
             best == IF full /\ MoreSpecific(bestMatch, f) THEN f ELSE bestMatch
             index == {g \in {At(f, n) : n \in IndexOf(f.node)} : beyond /\ Valid(g)}
             perfect == {g \in index : /\ g.dynamics = 0 /\ g.optionals = 0
                                       /\ g.skipped = {} /\ g.statics = 2^(Beyond - 1) - 1}
             better == {g \in index : MoreSpecific(best, g)}
  <2>2. /\ stack # <<>> /\ Valid(Popped) /\ result = Searching
        /\ bestFuzzy' = IF /\ fuzzy /\ node.route # 0 /\ node.kind # "index"
                           /\ MoreSpecific(bestFuzzy, f)
                        THEN f ELSE bestFuzzy
        /\ \/ /\ \E g \in perfect : Return(Parsed(g))
              /\ bestMatch' = best
           \/ /\ bestMatch' = IF better = {} THEN best
                              ELSE CHOOSE g \in {Parsed(h) : h \in better} : TRUE
              /\ stack' = Front(stack) \o Pushed(f)
              /\ result' = result
    BY DEF Explore, Turn, Running
  <2>3. Waits(Popped) /\ Stacked(Front(stack)) BY <2>1, <2>2, StackTop DEF Searched, Popped
  <2>4. /\ Explored(f) /\ NoIndex(tree[f.node].branch)
        /\ full => Matches(f)
        /\ fuzzy /\ node.route # 0 /\ node.kind # "index" => Begun(f)
        /\ \A n \in IndexOf(f.node) : beyond /\ Valid(At(f, n)) => Matches(Parsed(At(f, n)))
    <3>1. PICK p, q : p = Popped /\ q = Parsed(p) OBVIOUS
    <3>2. Waits(p) /\ Valid(p) BY <2>2, <2>3, <3>1
    <3> QED BY <1>1, <1>2, <3>1, <3>2, TurnOK
  <2>5. \A g \in index : Matches(Parsed(g)) BY <2>4
  <2>6. perfect \subseteq index /\ better \subseteq index OBVIOUS
  <2>7. best # NoFrame => Matches(best) BY <2>1, <2>4 DEF Searched
  <2> HIDE DEF perfect, better, index, best, full
  <2>8. bestFuzzy' # NoFrame => Begun(bestFuzzy') BY <2>1, <2>2, <2>4 DEF Searched
  <2>9. CASE (\E g \in perfect : Return(Parsed(g))) /\ bestMatch' = best
    <3>1. PICK g \in perfect : Return(Parsed(g)) BY <2>9
    <3>2. PICK h, e : h = Parsed(g) /\ e = Extract(h) OBVIOUS
    <3>3. Matches(h) BY <2>5, <2>6, <3>2
    <3>4. Right(e)
      <4>1. IsFrame(h) BY <3>3 DEF Matches, Reaches
      <4> QED BY <1>1, <1>2, <3>2, <3>3, <4>1, ReturnOK
    <3>5. stack' = <<>> /\ (result' = NoFrame \/ result' = e) BY <3>1, <3>2 DEF Return
    <3>6. Stacked(stack') BY <3>5, EmptyStacked
    <3> QED BY <2>7, <2>8, <2>9, <3>4, <3>5, <3>6 DEF Kept
  <2>10. CASE /\ bestMatch' = IF better = {} THEN best
                              ELSE CHOOSE g \in {Parsed(h) : h \in better} : TRUE
              /\ stack' = Front(stack) \o Pushed(f)
              /\ result' = result
    <3>1. bestMatch' # NoFrame => Matches(bestMatch')
      <4>1. CASE better = {} BY <2>7, <2>10, <4>1
      <4>2. CASE better # {}
        <5>1. bestMatch' \in {Parsed(h) : h \in better} BY <2>10, <4>2
        <5> QED BY <2>5, <2>6, <5>1
      <4> QED BY <4>1, <4>2
    <3>2. Stacked(Pushed(f)) BY <1>1, <1>2, <2>4, PushedOK
    <3>3. Stacked(stack') BY <2>3, <2>10, <3>2, StackJoin
    <3>4. result' = Searching BY <2>2, <2>10
    <3> QED BY <2>8, <3>1, <3>3, <3>4 DEF Kept
  <2> QED BY <2>2, <2>9, <2>10
<1> QED BY <1>2, KeptOK DEF Explore, Turn

LEMMA FinishInv ==
  ASSUME MatcherInv, Finish
  PROVE  MatcherInv'
<1>1. Built /\ TrieOK(tree) /\ Indices(tree, {}) /\ PathOK BY BuiltGives DEF MatcherInv
<1>2. ASSUME WellNamed, Shallow PROVE Kept
  <2>1. Searched BY <1>2 DEF MatcherInv
  <2> PICK v : v = FlattenSeq(SubSeq(parts, bestFuzzy.index, Len(parts))) OBVIOUS
  <2> PICK m, z : m = bestMatch /\ z = bestFuzzy OBVIOUS
  <2>2. \/ m # NoFrame /\ Return(m)
        \/ z # NoFrame /\ Return([z EXCEPT !.params = Extended(Maps("**", v), @)])
        \/ Return(NoFrame)
    BY DEF Finish
  <2>3. \A h : Return(h) => stack' = <<>> /\ (result' = NoFrame \/ result' = Extract(h)) BY DEF Return
  <2>4. bestMatch' = bestMatch /\ bestFuzzy' = bestFuzzy BY DEF Finish
  <2>5. stack' = <<>> BY <2>2, <2>3
  <2>6. result' # Searching /\ result' # NoFrame => Right(result')
    <3>1. CASE m # NoFrame /\ Return(m)
      <4>1. Matches(m) /\ IsFrame(m) BY <2>1, <3>1 DEF Searched, Matches, Reaches
      <4>2. PICK e : e = Extract(m) OBVIOUS
      <4>3. Right(e) BY <1>1, <1>2, <4>1, <4>2, ReturnOK
      <4> QED BY <2>3, <3>1, <4>2, <4>3
    <3>2. CASE z # NoFrame /\ Return([z EXCEPT !.params = Extended(Maps("**", v), @)])
      <4>1. Begun(z) /\ IsFrame(z) BY <2>1, <3>2 DEF Searched, Begun, Reaches
      <4>2. PICK t : t = Extended(Maps("**", v), z.params) OBVIOUS
      <4>3. PICK h, e : h = [z EXCEPT !.params = t] /\ e = Extract(h) OBVIOUS
      <4>4. /\ IsFrame(h) /\ h.node = z.node /\ h.skipped = z.skipped
            /\ h.extract = z.extract /\ h.params = t
        BY <4>1, <4>3 DEF IsFrame, Fields
      <4>5. Right(e) BY <1>1, <1>2, <4>1, <4>2, <4>3, <4>4, ReturnOK
      <4>6. Return(h) BY <3>2, <4>2, <4>3
      <4> QED BY <2>3, <4>3, <4>5, <4>6
    <3>3. CASE Return(NoFrame) BY <3>3 DEF Return
    <3> QED BY <2>2, <3>1, <3>2, <3>3
  <2>7. Stacked(stack') BY <2>5, EmptyStacked
  <2> QED BY <2>1, <2>4, <2>6, <2>7 DEF Kept, Searched
<1> QED BY <1>2, KeptOK DEF Finish

LEMMA StepInv == MatcherInv /\ [Next]_vars => MatcherInv'
<1> SUFFICES ASSUME MatcherInv, [Next]_vars PROVE MatcherInv' OBVIOUS
<1>1. CASE RootIndex BY <1>1, RootIndexInv
<1>2. CASE Discard BY <1>2, DiscardInv
<1>3. CASE Explore BY <1>3, ExploreInv
<1>4. CASE Finish BY <1>4, FinishInv
<1>5. CASE UNCHANGED vars
  <2>1. WellNamed /\ Shallow => Kept BY <1>5 DEF vars, MatcherInv, Searched, Kept
  <2> QED BY <1>5, <2>1, KeptOK DEF vars
<1> QED BY <1>1, <1>2, <1>3, <1>4, <1>5 DEF Next

LEMMA MatcherInvHolds == Spec => []MatcherInv
<1> QED BY InitInv, StepInv, PTL DEF Spec

\* What is found, if anything is, is a route that the path fits.
FoundFits ==
  Done /\ result # NoFrame =>
    Found \in FullOnes \cup (IF fuzzy THEN PartialOnes ELSE {})

\* Whatever the search prunes and in whatever order it tries: the route that
\* getNodeMatch returns fits the path, each guard on its branch, asked about
\* the params so far, accepts, and unless the search is fuzzy all of the path
\* is used.  The names of shared segments agree, and masks have bits enough.
THEOREM WhatIsFoundFits == Spec => [](WellNamed /\ Shallow => FoundFits)
<1>1. MatcherInv => (WellNamed /\ Shallow => FoundFits)
  BY DEF MatcherInv, Searched, FoundFits, Found, Done, Right
<1> QED BY <1>1, MatcherInvHolds, PTL

\* The params that extractParams reads off the mask of skipped segments, in as
\* many resumed walks as there are guards on the way, are those of the route.
THEOREM ParamsAreThoseMatched == Spec => [](WellNamed /\ Shallow => ParamsAreMatched)
<1>1. MatcherInv => (WellNamed /\ Shallow => ParamsAreMatched)
  BY DEF MatcherInv, Searched, ParamsAreMatched, Done, Right, Given
<1> QED BY <1>1, MatcherInvHolds, PTL

-----------------------------------------------------------------------------
(* What the path fits is looked for until it is found. *)

\* The nodes of a branch.
LEMMA BranchNode ==
  ASSUME TrieOK(tree), NEW n \in DOMAIN tree, NEW d, d = tree[n].branch,
         NEW k \in 1..Len(d), NEW m, m = d[k]
  PROVE  /\ m \in DOMAIN tree /\ Len(tree[m].branch) = k
         /\ \A j \in 1..k : tree[m].branch[j] = d[j]
<1>1. m \in DOMAIN tree BY BranchIs
<1>2. Len(tree[m].branch) = k /\ \A j \in 1..k : tree[m].branch[j] = d[j]
  BY DEF TrieOK, Nested
<1> QED BY <1>1, <1>2

LEMMA AtEnd ==
  ASSUME TrieOK(tree), NEW m \in DOMAIN tree, NEW n \in DOMAIN tree,
         Begins(tree[m].branch, tree[n].branch), Len(tree[m].branch) = Len(tree[n].branch)
  PROVE  m = n
<1>1. PICK b, d : b = tree[m].branch /\ d = tree[n].branch OBVIOUS
<1>2. /\ b \in Seq(Nat) /\ d \in Seq(Nat) /\ Len(b) = Len(d)
      /\ b # <<>> => b[Len(b)] = m
      /\ d # <<>> => d[Len(d)] = n
  BY <1>1, BranchIs
<1>3. \A i \in 1..Len(b) : b[i] = d[i] BY <1>1 DEF Begins
<1>4. CASE d = <<>>
  <2>1. b = <<>> BY <1>2, <1>4
  <2>2. m = 1 /\ n = 1 BY <1>1, <1>4, <2>1 DEF TrieOK, Nested
  <2> QED BY <2>2
<1>5. CASE d # <<>>
  <2>1. b # <<>> /\ Len(b) \in 1..Len(b) BY <1>2, <1>5
  <2> QED BY <1>2, <1>3, <1>5, <2>1
<1> QED BY <1>4, <1>5

LEMMA NextChild ==
  ASSUME TrieOK(tree), NEW m \in DOMAIN tree, NEW n \in DOMAIN tree,
         NEW b, b = tree[m].branch, NEW d, d = tree[n].branch,
         Begins(b, d), Len(b) < Len(d), NEW x, x = d[Len(b) + 1]
  PROVE  x \in Children(tree, m) /\ tree[x].branch = Append(b, x) /\ Begins(tree[x].branch, d)
<1>1. /\ b \in Seq(Nat) /\ d \in Seq(Nat) /\ Len(b) \in Nat /\ Len(d) \in Nat
  BY BranchIs
<1>2. PICK K \in 1..Len(d) : K = Len(b) + 1 BY <1>1
<1>3. PICK e : e = tree[x].branch OBVIOUS
<1>4. x \in DOMAIN tree /\ Len(e) = K /\ \A j \in 1..K : e[j] = d[j]
  BY <1>2, <1>3, BranchNode
<1>5. e \in Seq(Nat) BY <1>3, <1>4, BranchIs
<1>6. \A j \in 1..Len(b) : e[j] = b[j] BY <1>1, <1>2, <1>4 DEF Begins
<1>7. Front(e) = b BY <1>1, <1>2, <1>4, <1>5, <1>6 DEF Front
<1>8. e # <<>> BY <1>1, <1>2, <1>4
<1>9. x \in Children(tree, m) BY <1>3, <1>4, <1>7, <1>8 DEF Children
<1>10. e = Append(b, x) BY <1>3, <1>9, ChildBranch
<1>11. Begins(e, d) BY <1>1, <1>2, <1>4 DEF Begins
<1> QED BY <1>3, <1>9, <1>10, <1>11

\* Node n with the set S of skipped segments is a way to lay the path.
Fitting(n, S) ==
  LET b == tree[n].branch IN
  /\ n \in DOMAIN tree /\ tree[n].route # 0
  /\ S \subseteq {k \in 1..Len(b) : Kind(b, k) = "optional"}
  /\ \A k \in 1..Len(b) : Lies(b, S, k) /\ Passes(b, S, k)

LEMMA CandidateGives ==
  ASSUME TrieOK(tree), NEW c \in Candidates
  PROVE  Fitting(c[1], c[2])
<1> DEFINE F(m) == {<<m, T>> : T \in {W \in Ways(m) : Fits(m, W)}}
<1>1. c \in UNION {F(m) : m \in {x \in DOMAIN tree : tree[x].route # 0}} BY DEF Candidates
<1>2. PICK n \in DOMAIN tree : tree[n].route # 0 /\ c \in F(n) BY <1>1
<1>3. PICK S \in Ways(n) : Fits(n, S) /\ c = <<n, S>> BY <1>2
<1>4. c[1] = n /\ c[2] = S BY <1>3
<1>5. PICK b : b = tree[n].branch OBVIOUS
<1>6. DOMAIN b = 1..Len(b)
  <2>1. b \in Seq(Nat) BY <1>5, BranchIs
  <2> QED BY <2>1
<1>7. S \subseteq {k \in 1..Len(b) : Kind(b, k) = "optional"}
  BY <1>3, <1>5, <1>6 DEF Ways, Kind
<1>8. \A k \in 1..Len(b) : Lies(b, S, k) /\ Passes(b, S, k) BY <1>3, <1>5, <1>6 DEF Fits
<1> QED BY <1>2, <1>4, <1>5, <1>7, <1>8 DEF Fitting

LEMMA CandidatePair ==
  ASSUME NEW c \in Candidates
  PROVE  c = <<c[1], c[2]>>
<1> DEFINE F(m) == {<<m, T>> : T \in {W \in Ways(m) : Fits(m, W)}}
<1>1. c \in UNION {F(m) : m \in {x \in DOMAIN tree : tree[x].route # 0}} BY DEF Candidates
<1>2. PICK n \in DOMAIN tree : c \in F(n) BY <1>1
<1>3. PICK S : c = <<n, S>> BY <1>2
<1> QED BY <1>3

\* A frame is on the way to it.
Towards(f, n, S) ==
  LET b == tree[f.node].branch IN
  Begins(b, tree[n].branch) /\ f.skipped = {k \in S : k <= Len(b)}

LEMMA TowardsAgree ==
  ASSUME TrieOK(tree), NEW f, IsFrame(f), NEW n, NEW S, Fitting(n, S), Towards(f, n, S),
         NEW b, b = tree[f.node].branch, NEW d, d = tree[n].branch
  PROVE  n \in Below(b) /\ Live(f) /\ Agree(b, f.skipped, d, S, Len(b)) /\ Len(b) <= Len(d)
<1>1. n \in DOMAIN tree /\ tree[n].route # 0 BY DEF Fitting
<1>2. Begins(b, d) BY DEF Towards
<1>3. n \in Below(b) BY <1>1, <1>2 DEF Below
<1>4. Live(f) BY <1>3 DEF Live
<1>5. Agree(b, f.skipped, d, S, Len(b))
  <2>1. f.skipped = {k \in S : k <= Len(b)} BY DEF Towards
  <2>2. f.node \in DOMAIN tree BY DEF IsFrame
  <2>3. Len(b) \in Nat BY <2>2, BranchIs
  <2>4. \A j \in 1..Len(b) : b[j] = d[j] /\ (j \in f.skipped <=> j \in S)
    BY <1>2, <2>1, <2>3 DEF Begins
  <2> QED BY <2>4 DEF Agree
<1> QED BY <1>2, <1>3, <1>4, <1>5 DEF Begins

\* Its guard accepts it.
LEMMA SeekValid ==
  ASSUME PathOK, TrieOK(tree), WellNamed, Shallow, NEW p, Arrived(p), NEW n, NEW S,
         Fitting(n, S), Towards(p, n, S)
  PROVE  Valid(p)
<1>1. PICK i, R, g : i = p.node /\ R = p.skipped /\ g = tree[i].guard OBVIOUS
<1>2. PICK b, d : b = tree[i].branch /\ d = tree[n].branch OBVIOUS
<1> SUFFICES ASSUME g # 0 PROVE Accepts(g, Extract(p).params) BY <1>1 DEF Valid
<1>3. IsFrame(p) /\ i \in DOMAIN tree BY <1>1 DEF Arrived, IsFrame
<1>4. n \in Below(b) /\ Live(p) /\ Agree(b, R, d, S, Len(b)) /\ Len(b) <= Len(d)
  BY <1>1, <1>2, <1>3, TowardsAgree
<1>5. FrameOK(p) BY <1>4 DEF Arrived
<1>6. b \in Seq(Nat) /\ Len(b) \in Nat /\ Len(b) < 32 BY <1>2, <1>3, BranchIs DEF Shallow
<1>7. PICK h, q : h = Extract(p) /\ q = h.params OBVIOUS
<1>8. Holds(q, tree[n].route, b, R, 1..Len(b))
  <2>1. \A m \in Below(b) : WellNamedFor(tree[m].route, tree[i].full, b)
    <3> SUFFICES ASSUME NEW m \in Below(b)
                 PROVE  WellNamedFor(tree[m].route, tree[i].full, b)
      OBVIOUS
    <3>1. PICK r : r = tree[m].route OBVIOUS
    <3>2. WellNamedFor(r, tree[i].full, b) BY <1>1, <1>2, <1>3, <3>1, NamesBelow
    <3> QED BY <3>1, <3>2
  <2>2. Below(b) # {} BY <1>4
  <2>3. \A m \in Below(b) : Holds(h.params, tree[m].route, b, p.skipped, 1..Len(b))
    BY <1>1, <1>2, <1>3, <1>5, <1>6, <1>7, <2>1, <2>2, ExtractOK
  <2> QED BY <1>1, <1>4, <1>7, <2>3
<1>9. Asked(q, i, b, R) BY <1>2, <1>3, <1>4, <1>8, GuardAsks
<1>10. q = ValuesOf(g, b, R, Len(b)) BY <1>1, <1>9 DEF Asked
<1>11. CASE b = <<>>
  <2>1. Len(b) = 0 BY <1>11
  <2>2. DOMAIN q = {} BY <1>10, <2>1 DEF ValuesOf
  <2>3. Accepts(g, q) BY <2>2 DEF Accepts
  <2> QED BY <1>7, <2>3
<1>12. CASE b # <<>>
  <2>1. b[Len(b)] = i /\ Len(b) \in 1..Len(b) BY <1>2, <1>3, <1>6, <1>12, BranchIs
  <2>2. d[Len(b)] = i BY <1>4, <2>1 DEF Agree
  <2>3. Len(d) \in Nat BY <1>2, BranchIs DEF Fitting
  <2>4. Len(b) \in 1..Len(d) BY <1>4, <2>1, <2>3
  <2>5. Passes(d, S, Len(b)) BY <1>2, <2>4 DEF Fitting
  <2>6. Accepts(g, ValuesOf(g, d, S, Len(b))) BY <1>1, <2>2, <2>5 DEF Passes
  <2>7. ValuesOf(g, b, R, Len(b)) = ValuesOf(g, d, S, Len(b)) BY <1>4, <1>6, ValuesSame
  <2> QED BY <1>7, <1>10, <2>6, <2>7
<1> QED BY <1>11, <1>12

\* The next node of its branch, and the part of the path that it stands at.
Faces(f, x, d, S, K) ==
  /\ K \in 1..Len(d) /\ K < 32 /\ f.depth = K /\ x = d[K]
  /\ x \in Children(tree, f.node) /\ x \in DOMAIN tree
  /\ Len(tree[x].branch) = K
  /\ f.index = PartAt(d, S, K) /\ Kind(d, K) = tree[x].kind
  /\ f.skipped = {k \in S : k < K} /\ f.skipped \subseteq 1..(K - 1)

LEMMA SeekFaces ==
  ASSUME PathOK, TrieOK(tree), Shallow, NEW f, Explored(f), NEW n, NEW S,
         Fitting(n, S), Towards(f, n, S), NEW d, d = tree[n].branch,
         Len(tree[f.node].branch) < Len(d)
  PROVE  \E K : /\ Faces(f, d[K], d, S, K) /\ K = Len(tree[f.node].branch) + 1
                /\ Begins(tree[d[K]].branch, d)
<1>1. PICK b, R : b = tree[f.node].branch /\ R = f.skipped OBVIOUS
<1>2. IsFrame(f) /\ f.node \in DOMAIN tree BY DEF Explored, IsFrame
<1>3. n \in Below(b) /\ Live(f) /\ Agree(b, R, d, S, Len(b)) /\ Len(b) <= Len(d)
  BY <1>1, <1>2, TowardsAgree
<1>4. FrameOK(f) BY <1>3 DEF Explored
<1>5. n \in DOMAIN tree BY DEF Fitting
<1>6. b \in Seq(Nat) /\ Len(b) \in Nat /\ Len(d) \in Nat /\ Len(d) < 32
  BY <1>1, <1>2, <1>5, BranchIs DEF Shallow
<1>7. PICK K \in Nat, M \in Nat : K = Len(b) + 1 /\ M = Len(d) BY <1>6
<1>8. K \in 1..M /\ K < 32
  <2>1. Len(b) < M BY <1>1, <1>7
  <2> QED BY <1>6, <1>7, <2>1
<1>9. PICK x : x = d[K] OBVIOUS
<1>10. Begins(b, d) BY <1>1 DEF Towards
<1>11. /\ x \in Children(tree, f.node) /\ tree[x].branch = Append(b, x)
       /\ Begins(tree[x].branch, d)
  <2>1. PICK m \in DOMAIN tree : m = f.node BY <1>2
  <2>2. b = tree[m].branch /\ Len(b) < Len(d) /\ x = d[Len(b) + 1] BY <1>1, <1>7, <1>9, <2>1
  <2>3. x \in Children(tree, m) /\ tree[x].branch = Append(b, x) /\ Begins(tree[x].branch, d)
    BY <1>5, <1>10, <2>2, NextChild
  <2> QED BY <2>1, <2>3
<1>12. x \in DOMAIN tree /\ Len(tree[x].branch) = K BY <1>5, <1>7, <1>8, <1>9, BranchNode
<1>13. f.index = PartAt(d, S, K)
  <2>1. f.index = PartAt(b, R, K) BY <1>1, <1>4, <1>7 DEF FrameOK
  <2>2. Agree(b, R, d, S, K - 1) BY <1>3, <1>6, <1>7
  <2> QED BY <1>7, <2>1, <2>2, PartSame
<1>14. f.depth = K BY <1>1, <1>4, <1>7 DEF FrameOK
<1>15. f.skipped = {k \in S : k < K} /\ f.skipped \subseteq 1..(K - 1)
  <2>1. f.skipped = {k \in S : k <= Len(b)} BY <1>1 DEF Towards
  <2>2. \A k \in S : k \in 1..M BY <1>7 DEF Fitting
  <2>3. \A k \in S : k <= Len(b) <=> k < K
    <3> SUFFICES ASSUME NEW k \in S PROVE k <= Len(b) <=> k < K OBVIOUS
    <3>1. k \in Nat BY <2>2
    <3> QED BY <1>6, <1>7, <3>1
  <2>4. f.skipped \subseteq 1..(K - 1)
    <3> SUFFICES ASSUME NEW k \in f.skipped PROVE k \in 1..(K - 1) OBVIOUS
    <3>1. k \in 1..M /\ k < K BY <2>1, <2>2, <2>3
    <3> QED BY <1>7, <3>1
  <2> QED BY <2>1, <2>3, <2>4
<1>16. Kind(d, K) = tree[x].kind BY <1>9 DEF Kind
<1>17. Faces(f, x, d, S, K) BY <1>7, <1>8, <1>9, <1>11, <1>12, <1>13, <1>14, <1>15, <1>16 DEF Faces
<1> QED BY <1>1, <1>7, <1>9, <1>11, <1>17

LEMMA GoesTo ==
  ASSUME NEW f, IsFrame(f), NEW way \in Onward, NEW c, NEW g, g = Goes(f, c, way)
  PROVE  /\ g.node = c
         /\ way # "skip" => g.skipped = f.skipped
         /\ way = "skip" => g.skipped = f.skipped \cup {f.depth % 32}
<1>1. CASE way = "wildcard" BY <1>1 DEF IsFrame, Fields, Goes, At
<1>2. CASE way = "skip" BY <1>2 DEF IsFrame, Fields, Goes, At
<1>3. CASE way = "optional" BY <1>3 DEF IsFrame, Fields, Goes, At
<1>4. CASE way = "param" BY <1>4 DEF IsFrame, Fields, Goes, At
<1>5. CASE way = "static" BY <1>5 DEF IsFrame, Fields, Goes, At
<1>6. CASE way = "pathless" BY <1>6 DEF IsFrame, Fields, Goes, At
<1> QED BY <1>1, <1>2, <1>3, <1>4, <1>5, <1>6 DEF Onward

OnTheWay(f, x, way, n, S) ==
  /\ way \in Onward /\ x \in ChildrenOf(f.node, Kindred(way)) /\ Admits(f, x, way)
  /\ Towards(Goes(f, x, way), n, S)

\* Where the path lies on the next node, some way on leads there.
LEMMA SeekNext ==
  ASSUME PathOK, TrieOK(tree), Shallow, NEW f, Explored(f), NEW n, NEW S,
         Fitting(n, S), NEW d, d = tree[n].branch, NEW K, NEW x, Faces(f, x, d, S, K),
         Begins(tree[x].branch, d), Kind(d, K) # "index"
  PROVE  \E way : OnTheWay(f, x, way, n, S)
<1>1. PICK kind, i : kind = Kind(d, K) /\ i = f.index OBVIOUS
<1>2. kind \in {"static", "param", "optional", "wildcard", "pathless"}
  <2>1. d[K] \in DOMAIN tree BY DEF Faces
  <2>2. Kind(d, K) \in {"static", "param", "optional", "wildcard", "pathless", "index"}
    BY <2>1, KindIs
  <2> QED BY <1>1, <2>2
<1>3. Lies(d, S, K) BY DEF Faces, Fitting
<1>4. PICK way : way = IF kind = "optional" /\ K \in S THEN "skip" ELSE kind OBVIOUS
<1>5. way \in Onward /\ Kindred(way) = kind BY <1>2, <1>4 DEF Onward, Kindred
<1>6. x \in ChildrenOf(f.node, Kindred(way)) BY <1>1, <1>5 DEF ChildrenOf, Faces
<1>7. i = PartAt(d, S, K) /\ d[K] = x BY <1>1 DEF Faces
<1>8. Admits(f, x, way)
  <2>1. CASE kind = "static" BY <1>1, <1>3, <1>4, <1>7, <2>1 DEF Lies, Admits
  <2>2. CASE kind = "param" BY <1>1, <1>3, <1>4, <1>7, <2>2 DEF Lies, Admits
  <2>3. CASE kind = "wildcard" BY <1>1, <1>3, <1>4, <1>7, <2>3 DEF Lies, Admits
  <2>4. CASE kind = "pathless" BY <1>4, <2>4 DEF Admits
  <2>5. CASE kind = "optional" /\ K \in S BY <1>4, <2>5 DEF Admits
  <2>6. CASE kind = "optional" /\ K \notin S BY <1>1, <1>3, <1>4, <1>7, <2>6 DEF Lies, Admits
  <2> QED BY <1>2, <2>1, <2>2, <2>3, <2>4, <2>5, <2>6
<1>9. Towards(Goes(f, x, way), n, S)
  <2>1. PICK g : g = Goes(f, x, way) OBVIOUS
  <2>2. IsFrame(f) /\ x \in DOMAIN tree BY DEF Explored, Faces
  <2>3. /\ g.node = x
        /\ way # "skip" => g.skipped = f.skipped
        /\ way = "skip" => g.skipped = f.skipped \cup {f.depth % 32}
    BY <1>5, <2>1, <2>2, GoesTo
  <2>4. K \in Nat /\ K < 32 /\ f.depth = K /\ f.skipped = {k \in S : k < K}
    BY DEF Faces
  <2>5. (\A k \in S : k \in Nat) /\ (K \in S => kind = "optional")
    <3>1. \A k \in S : k \in 1..Len(d) /\ Kind(d, k) = "optional" BY DEF Fitting
    <3> QED BY <1>1, <3>1
  <2>6. g.skipped = {k \in S : k <= K}
    <3>1. f.depth % 32 = K BY <2>4
    <3>2. CASE K \in S
      <4>1. way = "skip" BY <1>4, <2>5, <3>2
      <4>2. g.skipped = {k \in S : k < K} \cup {K} BY <2>3, <2>4, <3>1, <4>1
      <4>3. \A k \in S : k <= K <=> k < K \/ k = K BY <2>4, <2>5
      <4> QED BY <3>2, <4>2, <4>3
    <3>3. CASE K \notin S
      <4>1. way # "skip" BY <1>2, <1>4, <3>3
      <4>2. g.skipped = {k \in S : k < K} BY <2>3, <2>4, <4>1
      <4>3. \A k \in S : k <= K <=> k < K \/ k = K BY <2>4, <2>5
      <4> QED BY <3>3, <4>2, <4>3
    <3> QED BY <3>2, <3>3
  <2>7. Len(tree[x].branch) = K BY DEF Faces
  <2>8. Towards(g, n, S) BY <2>3, <2>6, <2>7 DEF Towards
  <2> QED BY <2>1, <2>8
<1>10. OnTheWay(f, x, way, n, S) BY <1>5, <1>6, <1>8, <1>9 DEF OnTheWay
<1> QED BY <1>10

\* And it is pushed.
LEMMA PushHas ==
  ASSUME TrieOK(tree), NEW f, NEW way,
         NEW x \in ChildrenOf(f.node, Kindred(way)), Admits(f, x, way)
  PROVE  Has(Push(f, way), Goes(f, x, way))
<1> DEFINE T == {c \in ChildrenOf(f.node, Kindred(way)) : Admits(f, c, way)}
<1>1. T \in SUBSET (DOMAIN tree) BY DEF ChildrenOf, Children
<1>2. x \in T OBVIOUS
<1>3. PICK kids : kids = Sorted(T) OBVIOUS
<1>4. Push(f, way) = [i \in DOMAIN kids |-> Goes(f, kids[Len(kids) + 1 - i], way)]
  BY <1>3 DEF Push
<1> HIDE DEF T
<1>5. kids \in Seq(T) /\ Has(kids, x) BY <1>1, <1>2, <1>3, SortedIn
<1>6. PICK L \in Nat : L = Len(kids) /\ DOMAIN kids = 1..L BY <1>5
<1>7. PICK j \in 1..L : kids[j] = x BY <1>5, <1>6 DEF Has
<1>8. PICK i \in 1..L : L + 1 - i = j
  <2>1. L + 1 - j \in 1..L /\ L + 1 - (L + 1 - j) = j OBVIOUS
  <2> QED BY <2>1
<1>9. PICK s : s = [k \in 1..L |-> Goes(f, kids[L + 1 - k], way)] OBVIOUS
<1>10. s[i] = Goes(f, x, way) BY <1>7, <1>8, <1>9
<1>11. Len(s) = L BY <1>9
<1>12. Has(s, Goes(f, x, way)) BY <1>8, <1>10, <1>11 DEF Has
<1> QED BY <1>4, <1>6, <1>9, <1>12

LEMMA PushedHas ==
  ASSUME TrieOK(tree), NEW f, NEW way \in Onward,
         NEW x \in ChildrenOf(f.node, Kindred(way)), Admits(f, x, way)
  PROVE  Has(Pushed(f), Goes(f, x, way))
<1> DEFINE U(w) == {Goes(f, c, w) : c \in {d \in ChildrenOf(f.node, Kindred(w)) : Admits(f, d, w)}}
<1>1. ASSUME NEW w PROVE Push(f, w) \in Seq(U(w))
  <2>1. \A c \in ChildrenOf(f.node, Kindred(w)) : Admits(f, c, w) => Goes(f, c, w) \in U(w)
    OBVIOUS
  <2> HIDE DEF U
  <2> QED BY <2>1, PushIn
<1> HIDE DEF U
<1>2. PICK a, b, c, d, e, h :
        /\ a = Push(f, "wildcard") /\ b = Push(f, "skip") /\ c = Push(f, "optional")
        /\ d = Push(f, "param") /\ e = Push(f, "static") /\ h = Push(f, "pathless")
  OBVIOUS
<1>3. PICK W : /\ a \in Seq(W) /\ b \in Seq(W) /\ c \in Seq(W) /\ d \in Seq(W)
               /\ e \in Seq(W) /\ h \in Seq(W)
  <2> DEFINE V == U("wildcard") \cup U("skip") \cup U("optional") \cup U("param")
                    \cup U("static") \cup U("pathless")
  <2>1. \A w \in Onward : U(w) \subseteq V BY DEF Onward
  <2> HIDE DEF V
  <2>2. \A w \in Onward : Push(f, w) \in Seq(V) BY <1>1, <2>1
  <2>3. /\ a \in Seq(V) /\ b \in Seq(V) /\ c \in Seq(V) /\ d \in Seq(V)
        /\ e \in Seq(V) /\ h \in Seq(V)
    BY <1>2, <2>2 DEF Onward
  <2> QED BY <2>3
<1>4. PICK g : g = Goes(f, x, way) OBVIOUS
<1>5. Has(Push(f, way), g) BY <1>4, PushHas
<1>6. Has(a, g) \/ Has(b, g) \/ Has(c, g) \/ Has(d, g) \/ Has(e, g) \/ Has(h, g)
  BY <1>2, <1>5 DEF Onward
<1>7. PICK s2 : s2 = a \o b /\ s2 \in Seq(W)
  <2>1. a \o b \in Seq(W) BY <1>3
  <2> QED BY <2>1
<1>8. PICK s3 : s3 = s2 \o c /\ s3 \in Seq(W)
  <2>1. s2 \o c \in Seq(W) BY <1>3, <1>7
  <2> QED BY <2>1
<1>9. PICK s4 : s4 = s3 \o d /\ s4 \in Seq(W)
  <2>1. s3 \o d \in Seq(W) BY <1>3, <1>8
  <2> QED BY <2>1
<1>10. PICK s5 : s5 = s4 \o e /\ s5 \in Seq(W)
  <2>1. s4 \o e \in Seq(W) BY <1>3, <1>9
  <2> QED BY <2>1
<1>11. PICK s6 : s6 = s5 \o h /\ s6 \in Seq(W)
  <2>1. s5 \o h \in Seq(W) BY <1>3, <1>10
  <2> QED BY <2>1
<1>12. Has(a, g) \/ Has(b, g) => Has(s2, g) BY <1>3, <1>7, HasJoin
<1>13. Has(s2, g) \/ Has(c, g) => Has(s3, g) BY <1>3, <1>7, <1>8, HasJoin
<1>14. Has(s3, g) \/ Has(d, g) => Has(s4, g) BY <1>3, <1>8, <1>9, HasJoin
<1>15. Has(s4, g) \/ Has(e, g) => Has(s5, g) BY <1>3, <1>9, <1>10, HasJoin
<1>16. Has(s5, g) \/ Has(h, g) => Has(s6, g) BY <1>3, <1>10, <1>11, HasJoin
<1>17. Has(s6, g) BY <1>6, <1>12, <1>13, <1>14, <1>15, <1>16
<1>18. Pushed(f) = s6 BY <1>2, <1>7, <1>8, <1>9, <1>10, <1>11 DEF Pushed
<1> QED BY <1>4, <1>17, <1>18

\* Some frame of a stack is on the way.
Coming(s, n, S) == \E f : Has(s, f) /\ Towards(f, n, S)

LEMMA ComingTop ==
  ASSUME NEW s, Stacked(s), s # <<>>, NEW n, NEW S, Coming(s, n, S)
  PROVE  Towards(Last(s), n, S) \/ Coming(Front(s), n, S)
<1>1. PICK U : s \in Seq(U) BY DEF Stacked
<1>2. PICK L \in Nat : L = Len(s) /\ L # 0 BY <1>1
<1>3. PICK f : Has(s, f) /\ Towards(f, n, S) BY DEF Coming
<1>4. PICK i \in 1..L : s[i] = f BY <1>2, <1>3 DEF Has
<1>5. CASE i = L
  <2>1. Last(s) = f BY <1>2, <1>4, <1>5 DEF Last
  <2> QED BY <1>3, <2>1
<1>6. CASE i # L
  <2>1. PICK t : t = Front(s) OBVIOUS
  <2>2. Len(t) = L - 1 /\ \A j \in 1..(L - 1) : t[j] = s[j] BY <1>1, <1>2, <2>1 DEF Front
  <2>3. i \in 1..(L - 1) BY <1>2, <1>6
  <2>4. Has(t, f) BY <1>4, <2>2, <2>3 DEF Has
  <2> QED BY <1>3, <2>1, <2>4 DEF Coming
<1> QED BY <1>5, <1>6

LEMMA ComingJoin ==
  ASSUME NEW s, NEW t, Stacked(s), Stacked(t), NEW n, NEW S,
         Coming(s, n, S) \/ Coming(t, n, S)
  PROVE  Coming(s \o t, n, S)
<1>1. PICK U : s \in Seq(U) BY DEF Stacked
<1>2. PICK V : t \in Seq(V) BY DEF Stacked
<1>3. PICK f : (Has(s, f) \/ Has(t, f)) /\ Towards(f, n, S) BY DEF Coming
<1>4. Has(s \o t, f) BY <1>1, <1>2, <1>3, HasJoin
<1> QED BY <1>3, <1>4 DEF Coming

\* A turn of the loop on such a frame ends there, finds the index route there,
\* or pushes another one.
Turned(f, n, S) ==
  \/ f.node = n /\ f.skipped = S
  \/ f.index = Beyond /\ n \in IndexOf(f.node) /\ Valid(At(f, n)) /\ f.skipped = S
  \/ Coming(Pushed(f), n, S)

LEMMA SeekTurn ==
  ASSUME PathOK, TrieOK(tree), Indices(tree, {}), WellNamed, Shallow, PlainIndices,
         NEW p, Waits(p), Valid(p), NEW f, f = Parsed(p), NEW n, NEW S,
         Fitting(n, S), Towards(p, n, S)
  PROVE  Turned(f, n, S)
<1>1. PICK b, d : b = tree[f.node].branch /\ d = tree[n].branch OBVIOUS
<1>2. Explored(f) /\ NoIndex(b) /\ f.node = p.node /\ f.skipped = p.skipped
  <2>1. Arrived(p) /\ NoIndex(tree[p.node].branch) BY DEF Waits
  <2>2. Explored(f) /\ f.node = p.node /\ f.skipped = p.skipped BY <2>1, ParseOK
  <2> QED BY <1>1, <2>1, <2>2
<1>3. Towards(f, n, S) BY <1>2 DEF Towards
<1>4. IsFrame(f) /\ f.node \in DOMAIN tree BY <1>2 DEF Explored, IsFrame
<1>5. n \in DOMAIN tree BY DEF Fitting
<1>6. Len(b) \in Nat /\ Len(d) \in Nat BY <1>1, <1>4, <1>5, BranchIs
<1>7. Begins(b, d) /\ Len(b) <= Len(d) BY <1>1, <1>3 DEF Towards, Begins
<1>8. CASE Len(b) = Len(d)
  <2>1. PICK m \in DOMAIN tree : m = f.node BY <1>4
  <2>2. m = n BY <1>1, <1>5, <1>7, <1>8, <2>1, AtEnd
  <2>3. S \subseteq 1..Len(d) BY <1>1 DEF Fitting
  <2>4. f.skipped = {k \in S : k <= Len(b)} BY <1>1, <1>3 DEF Towards
  <2>5. f.skipped = S
    <3>1. \A k \in S : k \in 1..Len(d) BY <2>3
    <3>2. \A k \in S : k <= Len(b) BY <1>6, <1>8, <3>1
    <3> QED BY <2>4, <3>2
  <2> QED BY <2>1, <2>2, <2>5 DEF Turned
<1>9. CASE Len(b) # Len(d)
  <2>1. Len(b) < Len(d) BY <1>6, <1>7, <1>9
  <2>2. PICK K : /\ Faces(f, d[K], d, S, K) /\ K = Len(b) + 1
                 /\ Begins(tree[d[K]].branch, d)
    BY <1>1, <1>2, <1>3, <2>1, SeekFaces
  <2>3. PICK x : x = d[K] OBVIOUS
  <2>4. Faces(f, x, d, S, K) /\ Begins(tree[x].branch, d) BY <2>2, <2>3
  <2>5. CASE Kind(d, K) # "index"
    <3>1. PICK way : OnTheWay(f, x, way, n, S) BY <1>1, <1>2, <2>4, <2>5, SeekNext
    <3>2. Has(Pushed(f), Goes(f, x, way)) BY <3>1, PushedHas DEF OnTheWay
    <3>3. Towards(Goes(f, x, way), n, S) BY <3>1 DEF OnTheWay
    <3> QED BY <3>2, <3>3 DEF Turned, Coming
  <2>6. CASE Kind(d, K) = "index"
    <3>1. x \in ChildrenOf(f.node, "index") BY <2>4, <2>6 DEF Faces, ChildrenOf
    <3>2. x \in DOMAIN tree /\ Len(tree[x].branch) = K /\ x \in Nat
      <4>1. x \in DOMAIN tree /\ Len(tree[x].branch) = K BY <2>4 DEF Faces
      <4> QED BY <4>1, MembersIn DEF TrieOK
    <3>3. \A c \in ChildrenOf(f.node, "index") : c = x /\ Children(tree, x) = {}
      BY <1>4, <3>1 DEF PlainIndices
    <3>4. x \in IndexOf(f.node) BY <3>1, <3>2, <3>3 DEF IndexOf
    <3>5. K = Len(d)
      <4>1. K \in Nat /\ K <= Len(d) BY <1>6, <2>4 DEF Faces
      <4>2. ASSUME K < Len(d) PROVE FALSE
        <5>1. PICK e, y : e = tree[x].branch /\ y = d[Len(e) + 1] OBVIOUS
        <5>2. Begins(e, d) /\ Len(e) < Len(d) BY <2>4, <3>2, <4>2, <5>1
        <5>3. y \in Children(tree, x) BY <1>1, <1>5, <3>2, <5>1, <5>2, NextChild
        <5> QED BY <3>1, <3>3, <5>3
      <4> QED BY <1>6, <4>1, <4>2
    <3>6. f.index = Beyond
      <4>1. Lies(d, S, K) /\ f.index = PartAt(d, S, K) BY <1>1, <2>4 DEF Fitting, Faces
      <4> QED BY <2>6, <4>1 DEF Lies
    <3>7. PICK g : g = At(f, x) OBVIOUS
    <3>8. Arrived(g) BY <1>1, <1>2, <3>4, <3>6, <3>7, IndexOK
    <3>9. Towards(g, n, S)
      <4>1. g.node = x /\ g.skipped = f.skipped BY <1>4, <3>7 DEF IsFrame, At, Fields
      <4>2. f.skipped = {k \in S : k < K} /\ K \in Nat BY <2>4 DEF Faces
      <4>3. \A k \in S : k \in Nat /\ k # K
        <5>1. \A k \in S : k \in 1..Len(d) /\ Kind(d, k) = "optional" BY <1>1 DEF Fitting
        <5> QED BY <2>6, <5>1
      <4>4. \A k \in S : k <= K <=> k < K BY <4>2, <4>3
      <4>5. g.skipped = {k \in S : k <= K} BY <4>1, <4>2, <4>4
      <4> QED BY <1>1, <2>4, <3>2, <4>1, <4>5 DEF Towards
    <3>10. Valid(g) BY <3>8, <3>9, SeekValid
    <3>11. x = n
      <4>1. d # <<>> /\ d[Len(d)] = n
        <5>1. Len(d) # 0 BY <1>6, <2>4, <3>5 DEF Faces
        <5>2. d # <<>> BY <5>1
        <5> QED BY <1>1, <1>5, <5>2, BranchIs
      <4> QED BY <2>3, <3>5, <4>1
    <3>12. f.skipped = S
      <4>1. f.skipped = {k \in S : k < K} BY <2>4 DEF Faces
      <4>2. \A k \in S : k \in 1..Len(d) /\ Kind(d, k) = "optional" BY <1>1 DEF Fitting
      <4>3. \A k \in S : k # K BY <2>6, <4>2
      <4>4. \A k \in S : k < K BY <1>6, <3>5, <4>2, <4>3
      <4> QED BY <4>1, <4>4
    <3> QED BY <3>4, <3>6, <3>7, <3>10, <3>11, <3>12 DEF Turned
  <2> QED BY <2>5, <2>6
<1> QED BY <1>8, <1>9

-----------------------------------------------------------------------------
(* Which of two ways is the more specific. *)

LEMMA FrameReal ==
  ASSUME TrieOK(tree), NEW f, IsFrame(f)
  PROVE  f # NoFrame /\ f # Searching
<1>1. f.node \in Nat /\ f.node # 0 BY MembersIn DEF IsFrame, TrieOK
<1>2. NoFrame.node = 0 /\ Searching.node = -1 BY DEF NoFrame, Searching
<1> QED BY <1>1, <1>2

\* What isFrameMoreSpecific compares.
Grade(n, S) ==
  LET b == tree[n].branch IN
  <<Sum(b, S, "static"), Sum(b, S, "param"), Sum(b, S, "optional"), IsIndex(n), Len(b) + 1>>

\* The first of k numbers in which s and t differ is greater in s.
Over(s, t, k) == \E i \in 1..k : s[i] > t[i] /\ \A j \in 1..(i - 1) : s[j] = t[j]

Grades == [1..5 -> Nat]

LEMMA GradeIs ==
  ASSUME PathOK, TrieOK(tree), NEW n \in DOMAIN tree, NEW S
  PROVE  Grade(n, S) \in Grades
<1>1. PICK b : b = tree[n].branch /\ Len(b) \in Nat BY BranchIs
<1>2. PICK x, y, z, i, l :
        /\ x = Sum(b, S, "static") /\ y = Sum(b, S, "param") /\ z = Sum(b, S, "optional")
        /\ i = IsIndex(n) /\ l = Len(b) + 1
  OBVIOUS
<1>3. x \in Nat /\ y \in Nat /\ z \in Nat
  <2>1. Len(parts) \in Nat BY BeyondIs
  <2> QED BY <1>2, <2>1, ScoreIs DEF Sum
<1>4. i \in Nat /\ l \in Nat BY <1>1, <1>2 DEF IsIndex
<1>5. Grade(n, S) = <<x, y, z, i, l>> BY <1>1, <1>2 DEF Grade
<1> QED BY <1>3, <1>4, <1>5 DEF Grades

LEMMA OverKeeps ==
  ASSUME NEW c \in Grades, NEW m \in Grades, NEW g \in Grades, NEW k \in {4, 5},
         Over(c, g, k), Over(g, m, 5)
  PROVE  Over(c, m, k)
<1>1. PICK i \in 1..k : c[i] > g[i] /\ \A j \in 1..(i - 1) : c[j] = g[j] BY DEF Over
<1>2. PICK h \in 1..5 : g[h] > m[h] /\ \A j \in 1..(h - 1) : g[j] = m[j] BY DEF Over
<1>3. \A j \in 1..5 : c[j] \in Nat /\ g[j] \in Nat /\ m[j] \in Nat BY DEF Grades
<1>4. i \in 1..5 OBVIOUS
<1>5. CASE h < i
  <2>1. h \in 1..k /\ h \in 1..(i - 1) /\ \A j \in 1..(h - 1) : j \in 1..(i - 1) BY <1>5
  <2>2. c[h] > m[h] /\ \A j \in 1..(h - 1) : c[j] = m[j] BY <1>1, <1>2, <2>1
  <2> QED BY <2>1, <2>2 DEF Over
<1>6. CASE ~(h < i)
  <2>1. h = i \/ i \in 1..(h - 1) BY <1>4, <1>6
  <2>2. \A j \in 1..(i - 1) : j \in 1..(h - 1) BY <1>6
  <2>3. g[i] >= m[i] BY <1>2, <1>3, <1>4, <2>1
  <2>4. c[i] > m[i] BY <1>1, <1>3, <1>4, <2>3
  <2>5. \A j \in 1..(i - 1) : c[j] = m[j] BY <1>1, <1>2, <2>2
  <2> QED BY <2>4, <2>5 DEF Over
<1> QED BY <1>5, <1>6

LEMMA OverMore ==
  ASSUME NEW s, NEW t, Over(s, t, 4)
  PROVE  Over(s, t, 5)
BY DEF Over

\* isFrameMoreSpecific on frames that reached a node.
LEMMA MoreIs ==
  ASSUME PathOK, TrieOK(tree), NEW p, IsFrame(p), FrameOK(p), NEW f, IsFrame(f), FrameOK(f)
  PROVE  MoreSpecific(p, f) <=> Over(Grade(f.node, f.skipped), Grade(p.node, p.skipped), 5)
<1> DEFINE Of(g) == <<g.statics, g.dynamics, g.optionals, IsIndex(g.node), g.depth>>
<1>1. ASSUME NEW g, FrameOK(g) PROVE Of(g) = Grade(g.node, g.skipped)
  BY <1>1 DEF FrameOK, Scored, Grade
<1>2. PICK s, t : s = Grade(f.node, f.skipped) /\ t = Grade(p.node, p.skipped) OBVIOUS
<1>3. s \in Grades /\ t \in Grades
  <2>1. PICK n \in DOMAIN tree, m \in DOMAIN tree : n = f.node /\ m = p.node BY DEF IsFrame
  <2> QED BY <1>2, <2>1, GradeIs
<1>4. DOMAIN s \cap DOMAIN t = 1..5 BY <1>3 DEF Grades
<1>5. Exceeds(s, t) <=> Over(s, t, 5) BY <1>4 DEF Exceeds, Over
<1>6. p # NoFrame BY FrameReal
<1>7. MoreSpecific(p, f) <=> Exceeds(Of(f), Of(p)) BY <1>6 DEF MoreSpecific
<1> HIDE DEF Of
<1> QED BY <1>1, <1>2, <1>5, <1>7

LEMMA FittingIs ==
  ASSUME PathOK, TrieOK(tree), NEW n, NEW S, Fitting(n, S), NEW b, b = tree[n].branch
  PROVE  /\ n \in DOMAIN tree /\ b \in Seq(Nat) /\ Laid(b, S) /\ DOMAIN b = 1..Len(b)
         /\ \A kind \in Scores : Matched(b, S, kind) \in SUBSET (1..Len(parts))
<1>1. n \in DOMAIN tree /\ Laid(b, S) BY DEF Fitting, Laid
<1>2. b \in Seq(Nat) BY <1>1, BranchIs
<1>3. \A kind \in Scores : \A i \in Matched(b, S, kind) : i \in 1..Len(parts)
  BY <1>1, <1>2, MatchedIn DEF Laid
<1> QED BY <1>1, <1>2, <1>3

\* The index node of a branch is its last.
LEMMA IndexIs ==
  ASSUME PathOK, TrieOK(tree), PlainIndices, NEW n, NEW S, Fitting(n, S), NEW b, b = tree[n].branch
  PROVE  /\ tree[n].kind = "index" => Matched(b, S, "index") = {Beyond}
         /\ tree[n].kind # "index" => Matched(b, S, "index") = {}
<1>1. n \in DOMAIN tree /\ b \in Seq(Nat) /\ Laid(b, S) /\ DOMAIN b = 1..Len(b) BY FittingIs
<1>2. PICK L \in Nat : L = Len(b) BY <1>1
<1>3. ASSUME NEW k \in 1..L, Kind(b, k) = "index" PROVE k = L /\ tree[n].kind = "index"
  <2>1. PICK x : x = b[k] OBVIOUS
  <2>2. x \in DOMAIN tree /\ Len(tree[x].branch) = k /\ \A j \in 1..k : tree[x].branch[j] = b[j]
    BY <1>1, <1>2, <2>1, BranchNode
  <2>3. tree[x].kind = "index" BY <1>3, <2>1 DEF Kind
  <2>4. ASSUME k # L PROVE FALSE
    <3>1. PICK e, y : e = tree[x].branch /\ y = b[Len(e) + 1] OBVIOUS
    <3>2. Begins(e, b) /\ Len(e) < Len(b) BY <1>2, <2>2, <2>4, <3>1 DEF Begins
    <3>3. y \in Children(tree, x) BY <1>1, <2>2, <3>1, <3>2, NextChild
    <3>4. PICK e1 : e1 = tree[x].branch /\ e1 # <<>> /\ e1 \in Seq(Nat)
      <4>1. tree[x].branch \in Seq(Nat) /\ Len(tree[x].branch) # 0 BY <2>2, BranchIs
      <4> QED BY <4>1
    <3>5. PICK up \in DOMAIN tree : x \in Children(tree, up)
      <4>1. CASE k = 1
        <5>1. 1 \in DOMAIN tree /\ tree[1].branch = <<>> BY DEF TrieOK
        <5>2. Front(e1) = <<>>
          <6>1. Len(e1) = 1 BY <2>2, <3>4, <4>1
          <6>2. Front(e1) \in Seq(Nat) /\ Len(Front(e1)) = 0 BY <3>4, <6>1 DEF Front
          <6> QED BY <6>2
        <5>3. x \in Children(tree, 1) BY <2>2, <3>4, <5>1, <5>2 DEF Children
        <5> QED BY <5>1, <5>3
      <4>2. CASE k # 1
        <5>1. PICK h \in 1..L : h = k - 1
          <6>1. k - 1 \in 1..L BY <4>2
          <6> QED BY <6>1
        <5>2. PICK up, a : up = b[h] /\ a = tree[up].branch OBVIOUS
        <5>3. up \in DOMAIN tree /\ Len(a) = h /\ \A j \in 1..h : a[j] = b[j]
          BY <1>1, <1>2, <5>2, BranchNode
        <5>4. a \in Seq(Nat) BY <5>2, <5>3, BranchIs
        <5>5. Front(e1) = a
          <6>1. Len(Front(e1)) = h /\ \A j \in 1..h : Front(e1)[j] = e1[j]
            BY <2>2, <3>4, <5>1 DEF Front
          <6>2. \A j \in 1..h : j \in 1..k BY <5>1
          <6>3. \A j \in 1..h : Front(e1)[j] = a[j] BY <2>2, <3>4, <5>3, <6>1, <6>2
          <6>4. Front(e1) \in Seq(Nat) BY <3>4 DEF Front
          <6> QED BY <5>3, <5>4, <6>1, <6>3, <6>4
        <5> QED BY <2>2, <3>4, <5>2, <5>3, <5>5 DEF Children
      <4> QED BY <4>1, <4>2
    <3>6. x \in ChildrenOf(up, "index") BY <2>3, <3>5 DEF ChildrenOf
    <3>7. Children(tree, x) = {} BY <3>5, <3>6 DEF PlainIndices
    <3> QED BY <3>3, <3>7
  <2>5. b[L] = n BY <1>1, <1>2, <1>3, BranchIs
  <2> QED BY <2>1, <2>3, <2>4, <2>5
<1>4. \A i : i \in Matched(b, S, "index")
               <=> \E k \in 1..L : k \notin S /\ Kind(b, k) = "index" /\ i = PartAt(b, S, k)
  BY <1>1, <1>2 DEF Matched
<1>5. ASSUME tree[n].kind = "index" PROVE Matched(b, S, "index") = {Beyond}
  <2>1. L # 0
    <3> SUFFICES ASSUME L = 0 PROVE FALSE OBVIOUS
    <3>1. b = <<>> BY <1>1, <1>2
    <3>2. n = 1 BY <1>1, <3>1 DEF TrieOK, Nested
    <3> QED BY <1>5, <3>2 DEF TrieOK
  <2>2. L \in 1..L /\ b[L] = n
    <3>1. b # <<>> BY <1>2, <2>1
    <3> QED BY <1>1, <1>2, <2>1, <3>1, BranchIs
  <2>3. Kind(b, L) = "index" BY <1>5, <2>2 DEF Kind
  <2>4. L \notin S BY <1>2, <2>3 DEF Fitting
  <2>5. Lies(b, S, L) BY <1>1, <1>2, <2>2 DEF Laid
  <2>6. PartAt(b, S, L) = Beyond BY <2>3, <2>5 DEF Lies
  <2>7. \A i : i \in Matched(b, S, "index") <=> i = Beyond BY <1>3, <1>4, <2>2, <2>3, <2>4, <2>6
  <2> QED BY <2>7
<1>6. ASSUME tree[n].kind # "index" PROVE Matched(b, S, "index") = {}
  <2>1. \A i : i \notin Matched(b, S, "index") BY <1>3, <1>4, <1>6
  <2> QED BY <2>1
<1> QED BY <1>5, <1>6

\* A way that outranks another one has the higher scores.
Ranked(n, S, m, R) ==
  LET x == Grade(n, S)  y == Grade(m, R) IN
  /\ Outranks(Rank(<<n, S>>), Rank(<<m, R>>)) => Over(x, y, 4)
  /\ Outranks(RankAndDepth(<<n, S>>), RankAndDepth(<<m, R>>)) => Over(x, y, 5)

LEMMA AppendIs ==
  ASSUME NEW W, NEW s \in Seq(W), NEW e \in W
  PROVE  Len(Append(s, e)) = Len(s) + 1 /\ Append(s, e)[Len(s) + 1] = e
<1>1. Len(Append(s, e)) = Len(s) + 1 OBVIOUS
<1>2. Append(s, e)[Len(s) + 1] = e OBVIOUS
<1> QED BY <1>1, <1>2

LEMMA RankOver ==
  ASSUME PathOK, TrieOK(tree), PlainIndices, NEW n, NEW S, Fitting(n, S),
         NEW m, NEW R, Fitting(m, R)
  PROVE  Ranked(n, S, m, R)
<1>1. PICK b, d : b = tree[n].branch /\ d = tree[m].branch OBVIOUS
<1>2. PICK N : N = Len(parts) /\ N \in Nat BY BeyondIs
<1> DEFINE P(i, e, W) == Matched(e, W, CASE i = 1 -> "static" [] i = 2 -> "param" [] i = 3 -> "optional"
                                          [] OTHER -> "index")
<1>3. PICK a, c : /\ a = [i \in 1..4 |-> P(i, b, S)] /\ c = [i \in 1..4 |-> P(i, d, R)]
  OBVIOUS
<1>4. PICK x, y : x = Grade(n, S) /\ y = Grade(m, R) OBVIOUS
<1>5. /\ n \in DOMAIN tree /\ b \in Seq(Nat) /\ DOMAIN b = 1..Len(b)
      /\ m \in DOMAIN tree /\ d \in Seq(Nat) /\ DOMAIN d = 1..Len(d)
  BY <1>1, FittingIs
<1>6. PICK L \in Nat, M \in Nat : L = Len(b) /\ M = Len(d)
  <2>1. Len(b) \in Nat /\ Len(d) \in Nat BY <1>5
  <2> QED BY <2>1
<1>7. x \in Grades /\ y \in Grades BY <1>4, <1>5, GradeIs
<1>8. \A i \in 1..3 : /\ a[i] \in SUBSET (1..N) /\ c[i] \in SUBSET (1..N)
                      /\ x[i] = Score(N, a[i]) /\ y[i] = Score(N, c[i])
  <2>1. \A kind \in Scores : Matched(b, S, kind) \in SUBSET (1..N)
                               /\ Matched(d, R, kind) \in SUBSET (1..N)
    BY <1>1, <1>2, FittingIs
  <2>2. /\ x[1] = Score(N, Matched(b, S, "static")) /\ x[2] = Score(N, Matched(b, S, "param"))
        /\ x[3] = Score(N, Matched(b, S, "optional"))
    BY <1>1, <1>2, <1>4 DEF Grade, Sum
  <2>3. /\ y[1] = Score(N, Matched(d, R, "static")) /\ y[2] = Score(N, Matched(d, R, "param"))
        /\ y[3] = Score(N, Matched(d, R, "optional"))
    BY <1>1, <1>2, <1>4 DEF Grade, Sum
  <2>4. /\ a[1] = Matched(b, S, "static") /\ a[2] = Matched(b, S, "param")
        /\ a[3] = Matched(b, S, "optional")
    BY <1>3
  <2>5. /\ c[1] = Matched(d, R, "static") /\ c[2] = Matched(d, R, "param")
        /\ c[3] = Matched(d, R, "optional")
    BY <1>3
  <2> QED BY <2>1, <2>2, <2>3, <2>4, <2>5 DEF Scores
<1>9. /\ a[4] = Matched(b, S, "index") /\ c[4] = Matched(d, R, "index")
      /\ x[4] = IsIndex(n) /\ y[4] = IsIndex(m) /\ x[5] = L + 1 /\ y[5] = M + 1
  <2>1. a[4] = Matched(b, S, "index") /\ c[4] = Matched(d, R, "index") BY <1>3
  <2> QED BY <1>1, <1>4, <1>6, <2>1 DEF Grade
<1>10. /\ Leads(a[4], c[4]) => x[4] > y[4]
       /\ a[4] = c[4] => x[4] = y[4]
  <2>1. /\ tree[n].kind = "index" => a[4] = {Beyond}
        /\ tree[n].kind # "index" => a[4] = {}
        /\ tree[m].kind = "index" => c[4] = {Beyond}
        /\ tree[m].kind # "index" => c[4] = {}
    BY <1>1, <1>9, IndexIs
  <2>2. Leads(a[4], c[4]) => \E i \in a[4] : i \notin c[4] BY DEF Leads
  <2> QED BY <1>9, <2>1, <2>2 DEF IsIndex
<1>11. \A i \in 1..4 : (Leads(a[i], c[i]) => x[i] > y[i]) /\ (a[i] = c[i] => x[i] = y[i])
  <2> SUFFICES ASSUME NEW i \in 1..4
               PROVE  (Leads(a[i], c[i]) => x[i] > y[i]) /\ (a[i] = c[i] => x[i] = y[i])
    OBVIOUS
  <2>1. CASE i \in 1..3 BY <1>2, <1>8, <2>1, ScoreMore
  <2>2. CASE i = 4 BY <1>10, <2>2
  <2> QED BY <2>1, <2>2
<1>12. Leads(1..L, 1..M) => x[5] > y[5]
  <2> SUFFICES ASSUME NEW i \in (1..L) \ (1..M) PROVE L > M BY <1>9 DEF Leads
  <2> QED OBVIOUS
<1>13. PICK p, q : p = Rank(<<n, S>>) /\ q = Rank(<<m, R>>) OBVIOUS
<1>14. p = <<a[1], a[2], a[3], a[4]>> /\ q = <<c[1], c[2], c[3], c[4]>>
  <2>1. /\ a[1] = Matched(b, S, "static") /\ a[2] = Matched(b, S, "param")
        /\ a[3] = Matched(b, S, "optional")
    BY <1>3
  <2>2. /\ c[1] = Matched(d, R, "static") /\ c[2] = Matched(d, R, "param")
        /\ c[3] = Matched(d, R, "optional")
    BY <1>3
  <2> QED BY <1>1, <1>9, <1>13, <2>1, <2>2 DEF Rank
<1> HIDE DEF P
<1>15. /\ DOMAIN p = 1..4 /\ \A i \in 1..4 : p[i] = a[i] /\ q[i] = c[i]
  BY <1>14
<1>16. ASSUME Outranks(p, q) PROVE Over(x, y, 4)
  <2>1. PICK i \in 1..4 : Leads(p[i], q[i]) /\ \A j \in 1..(i - 1) : p[j] = q[j]
    BY <1>15, <1>16 DEF Outranks
  <2>2. x[i] > y[i] BY <1>11, <1>15, <2>1
  <2>3. \A j \in 1..(i - 1) : x[j] = y[j]
    <3>1. \A j \in 1..(i - 1) : j \in 1..4 OBVIOUS
    <3> QED BY <1>11, <1>15, <2>1, <3>1
  <2> QED BY <2>2, <2>3 DEF Over
<1>17. PICK u, v : u = RankAndDepth(<<n, S>>) /\ v = RankAndDepth(<<m, R>>) OBVIOUS
<1>18. u = Append(p, 1..L) /\ v = Append(q, 1..M)
  BY <1>1, <1>5, <1>6, <1>13, <1>17 DEF RankAndDepth
<1>19. DOMAIN u = 1..5 /\ u[5] = 1..L /\ v[5] = 1..M /\ \A i \in 1..4 : u[i] = a[i] /\ v[i] = c[i]
  <2>1. PICK e, h, W : /\ e = 1..L /\ h = 1..M
                       /\ W = {a[1], a[2], a[3], a[4], c[1], c[2], c[3], c[4], e, h}
    OBVIOUS
  <2>2. p \in Seq(W) /\ q \in Seq(W) /\ e \in W /\ h \in W /\ Len(p) = 4 /\ Len(q) = 4
    BY <1>14, <2>1
  <2>3. u = Append(p, e) /\ v = Append(q, h) BY <1>18, <2>1
  <2>4. DOMAIN u = 1..5 /\ u[5] = e /\ v[5] = h
    <3>1. u \in Seq(W) /\ v \in Seq(W) BY <2>2, <2>3
    <3>2. Len(u) = 5 /\ u[5] = e
      <4>1. Len(u) = Len(p) + 1 /\ u[Len(p) + 1] = e BY <2>2, <2>3, AppendIs
      <4>2. Len(p) + 1 = 5 BY <2>2
      <4> QED BY <4>1, <4>2
    <3>3. Len(v) = 5 /\ v[5] = h
      <4>1. Len(v) = Len(q) + 1 /\ v[Len(q) + 1] = h BY <2>2, <2>3, AppendIs
      <4>2. Len(q) + 1 = 5 BY <2>2
      <4> QED BY <4>1, <4>2
    <3> QED BY <3>1, <3>2, <3>3
  <2>5. \A i \in 1..4 : u[i] = p[i] /\ v[i] = q[i] BY <2>2, <2>3
  <2> QED BY <1>15, <2>1, <2>4, <2>5
<1>20. ASSUME Outranks(u, v) PROVE Over(x, y, 5)
  <2>1. PICK i \in 1..5 : Leads(u[i], v[i]) /\ \A j \in 1..(i - 1) : u[j] = v[j]
    BY <1>19, <1>20 DEF Outranks
  <2>2. x[i] > y[i]
    <3>1. CASE i \in 1..4 BY <1>11, <1>19, <2>1, <3>1
    <3>2. CASE i = 5 BY <1>12, <1>19, <2>1, <3>2
    <3> QED BY <3>1, <3>2
  <2>3. \A j \in 1..(i - 1) : x[j] = y[j]
    <3>1. \A j \in 1..(i - 1) : j \in 1..4 OBVIOUS
    <3> QED BY <1>11, <1>19, <2>1, <3>1
  <2> QED BY <2>2, <2>3 DEF Over
<1> QED BY <1>4, <1>13, <1>16, <1>17, <1>20 DEF Ranked

\* Nothing is more specific than an index route whose parts are all static.
LEMMA NothingOver ==
  ASSUME PathOK, TrieOK(tree), NEW m \in DOMAIN tree, NEW R, tree[m].kind = "index",
         Sum(tree[m].branch, R, "static") = 2^Len(parts) - 1, NEW n, NEW S, Fitting(n, S)
  PROVE  ~Over(Grade(n, S), Grade(m, R), 4)
<1>1. PICK b, d : b = tree[n].branch /\ d = tree[m].branch OBVIOUS
<1>2. PICK N : N = Len(parts) /\ N \in Nat BY BeyondIs
<1>3. PICK x, y : x = Grade(n, S) /\ y = Grade(m, R) OBVIOUS
<1>4. /\ n \in DOMAIN tree /\ b \in Seq(Nat) /\ Laid(b, S)
      /\ \A kind \in Scores : Matched(b, S, kind) \in SUBSET (1..N)
  BY <1>1, <1>2, FittingIs
<1>5. x \in Grades /\ y \in Grades BY <1>3, <1>4, GradeIs
<1>6. /\ x[1] = Score(N, Matched(b, S, "static")) /\ x[2] = Score(N, Matched(b, S, "param"))
      /\ x[3] = Score(N, Matched(b, S, "optional")) /\ x[4] = IsIndex(n)
  BY <1>1, <1>2, <1>3 DEF Grade, Sum
<1>7. y[1] = 2^N - 1 /\ y[4] = IsIndex(m) BY <1>1, <1>2, <1>3 DEF Grade
<1>8. x[1] <= y[1] /\ (x[1] = y[1] => Matched(b, S, "static") = 1..N)
  BY <1>2, <1>4, <1>6, <1>7, ScoreTop DEF Scores
<1>9. ASSUME x[1] = y[1] PROVE x[2] = 0 /\ x[3] = 0
  <2>1. \A kind \in Scores : kind # "static" => Matched(b, S, kind) \cap Matched(b, S, "static") = {}
    BY <1>4, MatchedIn DEF Laid, Scores
  <2>2. \A kind \in Scores : kind # "static" => Matched(b, S, kind) = {} BY <1>4, <1>8, <1>9, <2>1
  <2>3. Matched(b, S, "param") = {} /\ Matched(b, S, "optional") = {} BY <2>2 DEF Scores
  <2> QED BY <1>2, <1>6, <2>3, ScoreNone
<1>10. y[4] = 1 /\ x[4] \in {0, 1} BY <1>6, <1>7 DEF IsIndex
<1> SUFFICES ASSUME NEW i \in 1..4, x[i] > y[i], \A j \in 1..(i - 1) : x[j] = y[j] PROVE FALSE
  BY <1>3 DEF Over
<1>11. \A j \in 1..5 : x[j] \in Nat /\ y[j] \in Nat BY <1>5 DEF Grades
<1>12. i # 1 BY <1>8, <1>11
<1>13. x[1] = y[1] BY <1>12
<1>14. i # 2 /\ i # 3 BY <1>9, <1>11, <1>13
<1>15. i # 4 BY <1>10
<1> QED BY <1>12, <1>14, <1>15

-----------------------------------------------------------------------------
(* What the search still owes. *)

\* Way c is more specific than the one that frame f took, by the first k
\* scores.
Surpasses(c, f, k) == Over(Grade(c[1], c[2]), Grade(f.node, f.skipped), k)

Target(c) == c \in FullOnes \/ (fuzzy /\ c \in PartialOnes)
Held(c, m, z) ==
  \/ m # NoFrame /\ (PlainWildcards /\ c \in FullOnes => ~Surpasses(c, m, 4))
  \/ z # NoFrame /\ c \notin FullOnes /\ (PlainWildcards => ~Surpasses(c, z, 5))
Seeks(s, m, z) ==
  \A c \in Candidates : Target(c) => Held(c, m, z) \/ Coming(s, c[1], c[2])
Exact(r) ==
  IF FullOnes # {}
  THEN /\ r # NoFrame /\ <<r.node, r.skipped>> \in FullOnes
       /\ PlainWildcards => \A c \in FullOnes : ~Surpasses(c, r, 4)
  ELSE IF fuzzy /\ PartialOnes # {}
  THEN /\ r # NoFrame /\ <<r.node, r.skipped>> \in PartialOnes
       /\ PlainWildcards => \A c \in PartialOnes : ~Surpasses(c, r, 5)
  ELSE r = NoFrame

\* A better match covers what the one before it did, and itself.
Real(f) == IsFrame(f) /\ FrameOK(f)
Improves(m, w) ==
  m # NoFrame => w # NoFrame /\ \A c \in Candidates : \A k \in {4, 5} :
                                  ~Surpasses(c, m, k) => ~Surpasses(c, w, k)
Covers(w, n, S) == w # NoFrame /\ \A k \in {4, 5} : ~Surpasses(<<n, S>>, w, k)

LEMMA CoversItself ==
  ASSUME PathOK, TrieOK(tree), NEW f, IsFrame(f)
  PROVE  Covers(f, f.node, f.skipped)
<1>1. PICK n, S : n = f.node /\ S = f.skipped /\ n \in DOMAIN tree BY DEF IsFrame
<1>2. PICK x : x = Grade(n, S) /\ x \in Grades BY <1>1, GradeIs
<1>3. \A i \in 1..5 : ~(x[i] > x[i]) BY <1>2 DEF Grades
<1>4. \A k \in {4, 5} : ~Over(x, x, k) BY <1>3 DEF Over
<1>5. <<n, S>>[1] = n /\ <<n, S>>[2] = S OBVIOUS
<1>6. f # NoFrame BY FrameReal
<1> QED BY <1>1, <1>2, <1>4, <1>5, <1>6 DEF Covers, Surpasses

LEMMA ImprovesOn ==
  ASSUME PathOK, TrieOK(tree), NEW m, m = NoFrame \/ Real(m), NEW f, Real(f), MoreSpecific(m, f)
  PROVE  Improves(m, f)
<1> SUFFICES ASSUME m # NoFrame, NEW c \in Candidates, NEW k \in {4, 5}, Surpasses(c, f, k)
             PROVE  Surpasses(c, m, k)
  BY FrameReal DEF Improves, Real
<1>1. PICK x, y, z : /\ x = Grade(c[1], c[2]) /\ y = Grade(f.node, f.skipped)
                     /\ z = Grade(m.node, m.skipped)
  OBVIOUS
<1>2. x \in Grades /\ y \in Grades /\ z \in Grades
  <2>1. c[1] \in DOMAIN tree BY CandidateGives DEF Fitting
  <2>2. PICK n \in DOMAIN tree : n = c[1] BY <2>1
  <2>3. PICK i \in DOMAIN tree, j \in DOMAIN tree : i = f.node /\ j = m.node BY DEF Real, IsFrame
  <2> QED BY <1>1, <2>2, <2>3, GradeIs
<1>3. Over(y, z, 5) BY <1>1, MoreIs DEF Real
<1>4. Over(x, y, k) BY <1>1 DEF Surpasses
<1>5. Over(x, z, k) BY <1>2, <1>3, <1>4, OverKeeps
<1> QED BY <1>1, <1>5 DEF Surpasses

LEMMA NotImproved ==
  ASSUME PathOK, TrieOK(tree), NEW m, m = NoFrame \/ Real(m), NEW f, Real(f), ~MoreSpecific(m, f)
  PROVE  Covers(m, f.node, f.skipped)
<1>1. m # NoFrame /\ Real(m) BY DEF MoreSpecific
<1>2. PICK n, S, x, z : /\ n = f.node /\ S = f.skipped /\ x = Grade(n, S)
                        /\ z = Grade(m.node, m.skipped)
  OBVIOUS
<1>3. ~Over(x, z, 5) BY <1>1, <1>2, MoreIs DEF Real
<1>4. ~Over(x, z, 4) BY <1>3, OverMore
<1>5. <<n, S>>[1] = n /\ <<n, S>>[2] = S OBVIOUS
<1> QED BY <1>1, <1>2, <1>3, <1>4, <1>5 DEF Covers, Surpasses

LEMMA BetterOf ==
  ASSUME PathOK, TrieOK(tree), NEW m, m = NoFrame \/ Real(m), NEW f, Real(f),
         NEW w, w = IF MoreSpecific(m, f) THEN f ELSE m
  PROVE  Improves(m, w) /\ Covers(w, f.node, f.skipped)
<1>1. CASE MoreSpecific(m, f) BY <1>1, ImprovesOn, CoversItself DEF Real
<1>2. CASE ~MoreSpecific(m, f)
  <2>1. w = m BY <1>2
  <2> QED BY <1>2, <2>1, NotImproved DEF Improves
<1> QED BY <1>1, <1>2

\* What a better match covers a still better one does.
LEMMA HeldOn ==
  ASSUME NEW c \in Candidates, NEW m, NEW z, NEW w, NEW y, Improves(m, w), Improves(z, y),
         Held(c, m, z)
  PROVE  Held(c, w, y)
BY DEF Held, Improves

LEMMA CoveredHeld ==
  ASSUME NEW c, NEW n, NEW S, c = <<n, S>>, NEW w, NEW z,
         Covers(w, n, S) \/ (c \notin FullOnes /\ Covers(z, n, S))
  PROVE  Held(c, w, z)
BY DEF Held, Covers

LEMMA CoversOn ==
  ASSUME NEW n, NEW S, <<n, S>> \in Candidates, NEW m, NEW w, Covers(m, n, S), Improves(m, w)
  PROVE  Covers(w, n, S)
BY DEF Covers, Improves

LEMMA MatchExact ==
  ASSUME TrieOK(tree), NEW f, Matches(f), NEW g, IsFrame(g), g.node = f.node, g.skipped = f.skipped,
         PlainWildcards => \A c \in FullOnes : ~Surpasses(c, f, 4)
  PROVE  Exact(g) /\ g # Searching
<1>1. g # NoFrame /\ g # Searching BY FrameReal
<1>2. <<f.node, f.skipped>> \in FullOnes BY MatchesAre
<1>3. \A c : Surpasses(c, g, 4) <=> Surpasses(c, f, 4) BY DEF Surpasses
<1> QED BY <1>1, <1>2, <1>3 DEF Exact

\* What a step must do.
SeekKept ==
  /\ result' = Searching => Seeks(stack', bestMatch', bestFuzzy')
  /\ result' # Searching => Exact(result')
SeekInv ==
  /\ result = Searching => Seeks(stack, bestMatch, bestFuzzy)
  /\ result # Searching => Exact(result)

LEMMA InitSeek ==
  ASSUME Init
  PROVE  SeekInv
<1>1. TrieOK(tree) /\ PathOK
  <2>1. Built BY DEF Init, Built
  <2> QED BY <2>1, BuiltGives
<1>2. result = Searching /\ stack = <<First>> BY DEF Init
<1>3. ASSUME NEW c \in Candidates PROVE Coming(stack, c[1], c[2])
  <2>1. PICK n, S, d : n = c[1] /\ S = c[2] /\ d = tree[n].branch OBVIOUS
  <2>2. Fitting(n, S) BY <1>1, <2>1, CandidateGives
  <2>3. n \in DOMAIN tree /\ S \subseteq 1..Len(d) BY <2>1, <2>2 DEF Fitting
  <2>4. Len(d) \in Nat BY <1>1, <2>1, <2>3, BranchIs
  <2>5. PICK f : f = First OBVIOUS
  <2>6. f.node = 1 /\ f.skipped = {} BY <2>5 DEF First
  <2>7. tree[1].branch = <<>> BY <1>1 DEF TrieOK
  <2>8. Begins(<<>>, d) BY <2>4 DEF Begins
  <2>9. {k \in S : k <= 0} = {}
    <3>1. \A k \in S : k \in 1..Len(d) BY <2>3
    <3>2. \A k \in S : ~(k <= 0) BY <2>4, <3>1
    <3> QED BY <3>2
  <2>10. Towards(f, n, S) BY <2>1, <2>6, <2>7, <2>8, <2>9 DEF Towards
  <2>11. Has(<<f>>, f) BY DEF Has
  <2> QED BY <1>2, <2>1, <2>5, <2>10, <2>11 DEF Coming
<1> QED BY <1>2, <1>3 DEF SeekInv, Seeks

\* Each step keeps what is owed.
LEMMA RootIndexSeek ==
  ASSUME MatcherInv, WellNamed, Shallow, RootIndex
  PROVE  SeekKept
<1>1. TrieOK(tree) /\ Indices(tree, {}) /\ PathOK BY BuiltGives DEF MatcherInv
<1>2. PICK n \in IndexOf(1) : Return(At(First, n)) BY DEF RootIndex
<1>3. PICK g, e : g = At(First, n) /\ e = Extract(g) OBVIOUS
<1>4. Matches(g) BY <1>1, <1>3, RootIndexOK DEF RootIndex, Quick
<1>5. IsFrame(g) BY <1>4 DEF Matches, Reaches
<1>6. IsFrame(e) /\ e.node = g.node /\ e.skipped = g.skipped BY <1>3, <1>5, ExtractSame
<1>7. result' = e BY <1>2, <1>3, <1>5, <1>1, FrameReal DEF Return
<1>8. \A c \in FullOnes : ~Surpasses(c, g, 4)
  <2>1. IsFrame(First) /\ First.node = 1 BY <1>1, FirstOK DEF Waits, Arrived
  <2>2. n \in DOMAIN tree /\ tree[n].kind = "index" BY <1>2 DEF IndexOf, ChildrenOf, Children
  <2>3. g.node = n BY <1>3, <2>1 DEF IsFrame, Fields, At
  <2>4. g.statics = 0 BY <1>3 DEF At, First
  <2>5. parts = <<>> /\ Len(parts) = 0 BY DEF RootIndex, Quick
  <2>6. 2^0 = 1
    <3>1. Cardinality(SUBSET (1..0)) = 2^0 BY Powers
    <3>2. SUBSET (1..0) = {{}} OBVIOUS
    <3> QED BY <3>1, <3>2, FS_Singleton
  <2>7. Scored(g) BY <1>4 DEF Matches, Reaches, FrameOK
  <2>8. Sum(tree[n].branch, g.skipped, "static") = 2^Len(parts) - 1
    BY <2>3, <2>4, <2>5, <2>6, <2>7 DEF Scored
  <2>9. PICK R : R = g.skipped OBVIOUS
  <2>10. ASSUME NEW c \in FullOnes PROVE ~Over(Grade(c[1], c[2]), Grade(n, R), 4)
    <3>1. PICK i, S : i = c[1] /\ S = c[2] OBVIOUS
    <3>2. c \in Candidates BY DEF FullOnes
    <3>3. Fitting(i, S) BY <1>1, <3>1, <3>2, CandidateGives
    <3> QED BY <1>1, <2>2, <2>8, <2>9, <3>1, <3>3, NothingOver
  <2> QED BY <2>3, <2>9, <2>10 DEF Surpasses
<1>9. Exact(e) /\ e # Searching BY <1>1, <1>4, <1>6, <1>8, MatchExact
<1> QED BY <1>7, <1>9 DEF SeekKept

\* A frame at a node without children is on the way to that node only.
LEMMA LastTowards ==
  ASSUME TrieOK(tree), PlainWildcards, NEW p, IsFrame(p), tree[p.node].kind = "wildcard",
         NEW n, NEW S, Fitting(n, S), Towards(p, n, S)
  PROVE  p.node = n /\ p.skipped = S
<1>1. PICK i \in DOMAIN tree : i = p.node BY DEF IsFrame
<1>2. PICK b, d : b = tree[i].branch /\ d = tree[n].branch OBVIOUS
<1>3. n \in DOMAIN tree /\ S \subseteq 1..Len(d) BY <1>2 DEF Fitting
<1>4. Len(b) \in Nat /\ Len(d) \in Nat BY <1>2, <1>3, BranchIs
<1>5. Begins(b, d) /\ Len(b) <= Len(d) /\ p.skipped = {k \in S : k <= Len(b)}
  BY <1>1, <1>2 DEF Towards, Begins
<1>6. Children(tree, i) = {} BY <1>1 DEF PlainWildcards
<1>7. ~(Len(b) < Len(d))
  <2> SUFFICES ASSUME Len(b) < Len(d) PROVE FALSE OBVIOUS
  <2>1. PICK x : x = d[Len(b) + 1] OBVIOUS
  <2>2. x \in Children(tree, i) BY <1>2, <1>3, <1>5, <2>1, NextChild
  <2> QED BY <1>6, <2>2
<1>8. Len(b) = Len(d) BY <1>4, <1>5, <1>7
<1>9. i = n BY <1>2, <1>3, <1>5, <1>8, AtEnd
<1>10. \A k \in S : k \in 1..Len(d) BY <1>3
<1>11. \A k \in S : k <= Len(b) BY <1>4, <1>8, <1>10
<1> QED BY <1>1, <1>5, <1>9, <1>11

LEMMA DiscardSeek ==
  ASSUME MatcherInv, WellNamed, Shallow, SeekInv, Discard
  PROVE  SeekKept
<1>1. TrieOK(tree) /\ Indices(tree, {}) /\ PathOK /\ Searched
  BY BuiltGives DEF MatcherInv
<1>2. /\ stack # <<>> /\ stack' = Front(stack) /\ result = Searching /\ result' = result
      /\ bestMatch' = bestMatch /\ bestFuzzy' = bestFuzzy
      /\ Hopeless(Popped) \/ ~Valid(Popped)
  BY DEF Discard, Running
<1>3. PICK s, p, m, z : s = stack /\ p = Last(s) /\ m = bestMatch /\ z = bestFuzzy OBVIOUS
<1>4. Stacked(s) /\ s # <<>> /\ Waits(p) BY <1>1, <1>2, <1>3, StackTop DEF Searched
<1>5. Popped = p BY <1>3 DEF Popped
<1>6. ASSUME NEW c \in Candidates, Target(c)
      PROVE  Held(c, m, z) \/ Coming(Front(s), c[1], c[2])
  <2>1. Held(c, m, z) \/ Coming(s, c[1], c[2]) BY <1>2, <1>3, <1>6 DEF SeekInv, Seeks
  <2>4. PICK n, S : n = c[1] /\ S = c[2] /\ Fitting(n, S) BY <1>1, CandidateGives
  <2>5. ASSUME ~Towards(p, n, S), Coming(s, n, S) PROVE Coming(Front(s), n, S)
    <3>1. Towards(Last(s), n, S) \/ Coming(Front(s), n, S) BY <1>4, <2>5, ComingTop
    <3> QED BY <1>3, <2>5, <3>1
  <2>2. CASE Hopeless(p) /\ Towards(p, n, S)
    <3>1. m # NoFrame BY <1>3, <2>2 DEF Hopeless, MoreSpecific
    <3>2. ASSUME PlainWildcards PROVE ~Surpasses(c, m, 4)
      <4>1. IsFrame(p) BY <1>4 DEF Waits, Arrived
      <4>2. Live(p) BY <1>1, <2>2, <2>4, <4>1, TowardsAgree
      <4>3. Real(p) BY <1>4, <4>1, <4>2 DEF Waits, Arrived, Real
      <4>4. Real(m) BY <1>1, <1>3, <3>1 DEF Searched, Matches, Reaches, Real
      <4>5. ~MoreSpecific(m, p) BY <1>3, <2>2 DEF Hopeless
      <4>6. Covers(m, p.node, p.skipped) BY <1>1, <4>3, <4>4, <4>5, NotImproved
      <4>7. p.node = n /\ p.skipped = S BY <1>1, <2>2, <2>4, <3>2, <4>1, LastTowards DEF Hopeless
      <4>8. ~Surpasses(<<n, S>>, m, 4) BY <4>6, <4>7 DEF Covers
      <4>9. <<n, S>>[1] = n /\ <<n, S>>[2] = S OBVIOUS
      <4> QED BY <2>4, <4>8, <4>9 DEF Surpasses
    <3> QED BY <3>1, <3>2 DEF Held
  <2>3. CASE ~Valid(p) /\ Coming(s, c[1], c[2])
    <3>1. n = c[1] /\ S = c[2] BY <2>4
    <3>2. Fitting(n, S) BY <2>4
    <3>3. ~Towards(p, n, S) BY <1>1, <1>4, <2>3, <3>2, SeekValid DEF Waits
    <3>4. Coming(Front(s), n, S) BY <1>3, <1>4, <2>3, <3>1, <3>3, ComingTop
    <3> QED BY <3>1, <3>4
  <2> QED BY <1>2, <1>5, <2>1, <2>2, <2>3, <2>4, <2>5
<1>7. Seeks(Front(s), m, z) BY <1>6 DEF Seeks
<1> QED BY <1>2, <1>3, <1>7 DEF SeekKept

\* A frame that ends at a node that all of the path fits has used all of it.
LEMMA AtFull ==
  ASSUME NEW f, Explored(f), NEW c \in FullOnes, Fitting(c[1], c[2]),
         f.node = c[1], f.skipped = c[2]
  PROVE  /\ f.index = Beyond /\ tree[f.node].route # 0
         /\ PathIsIndex => tree[f.node].kind \in {"index", "wildcard"}
<1>1. Full(c[1], c[2]) BY DEF FullOnes
<1>2. tree[f.node].route # 0 /\ f.node \in DOMAIN tree BY DEF Fitting
<1>3. f.node \in Below(tree[f.node].branch) BY <1>2 DEF Below, Begins
<1>4. FrameOK(f) BY <1>3 DEF Explored, Live
<1> QED BY <1>1, <1>2, <1>4 DEF Full, Reached, FrameOK

\* The index node at the end of the path.
LEMMA IndexReal ==
  ASSUME PathOK, TrieOK(tree), Indices(tree, {}), NEW f, Explored(f),
         NoIndex(tree[f.node].branch), f.index = Beyond, NEW n \in IndexOf(f.node),
         NEW g, g = At(f, n)
  PROVE  /\ Real(g) /\ g.node = n /\ g.skipped = f.skipped /\ n \in DOMAIN tree
         /\ tree[n].kind = "index" /\ IsFrame(Parsed(g))
         /\ Parsed(g).node = n /\ Parsed(g).skipped = f.skipped
<1>1. Arrived(g) /\ tree[n].route # 0 /\ tree[n].kind = "index" BY IndexOK
<1>2. IsFrame(f) /\ IsFrame(g) BY <1>1 DEF Explored, Arrived
<1>3. g.node = n /\ g.skipped = f.skipped BY <1>2 DEF IsFrame, Fields, At
<1>4. n \in DOMAIN tree BY <1>2, <1>3 DEF IsFrame
<1>5. n \in Below(tree[n].branch)
  <2>1. Len(tree[n].branch) \in Nat BY <1>4, BranchIs
  <2> QED BY <1>1, <1>4, <2>1 DEF Below, Begins
<1>6. Real(g) BY <1>1, <1>2, <1>3, <1>5 DEF Arrived, Live, Real
<1>7. PICK h : h = Extract(g) OBVIOUS
<1>8. IsFrame(h) /\ h.node = n /\ h.skipped = f.skipped BY <1>2, <1>3, <1>7, ExtractSame
<1>9. Parsed(g) = g \/ Parsed(g) = h BY <1>7 DEF Parsed
<1> QED BY <1>1, <1>2, <1>3, <1>4, <1>6, <1>8, <1>9

\* One that all of the path matched by static names.
LEMMA PerfectTop ==
  ASSUME PathOK, TrieOK(tree), NEW g, Real(g), tree[g.node].kind = "index",
         g.statics = 2^(Beyond - 1) - 1
  PROVE  \A c \in FullOnes : ~Surpasses(c, g, 4)
<1>1. PICK m, R : m = g.node /\ R = g.skipped /\ m \in DOMAIN tree BY DEF Real, IsFrame
<1>2. Beyond - 1 = Len(parts)
  <2>1. PICK N \in Nat : N = Len(parts) BY BeyondIs
  <2> QED BY <2>1 DEF Beyond
<1>3. Sum(tree[m].branch, R, "static") = 2^Len(parts) - 1
  BY <1>1, <1>2 DEF Real, FrameOK, Scored
<1> SUFFICES ASSUME NEW c \in FullOnes PROVE ~Over(Grade(c[1], c[2]), Grade(m, R), 4)
  BY <1>1 DEF Surpasses
<1>4. PICK i, S : i = c[1] /\ S = c[2] OBVIOUS
<1>5. c \in Candidates BY DEF FullOnes
<1>6. Fitting(i, S) BY <1>4, <1>5, CandidateGives
<1> QED BY <1>1, <1>3, <1>4, <1>6, NothingOver

LEMMA ExploreSeek ==
  ASSUME MatcherInv, WellNamed, Shallow, PlainIndices, SeekInv, Explore
  PROVE  SeekKept
<1>1. TrieOK(tree) /\ Indices(tree, {}) /\ PathOK /\ Searched BY BuiltGives DEF MatcherInv
<1> DEFINE f == Parsed(Popped)
           node == tree[f.node]
           beyond == f.index = Beyond
           full == /\ beyond /\ node.route # 0
                   /\ PathIsIndex => node.kind \in {"index", "wildcard"}
           best == IF full /\ MoreSpecific(bestMatch, f) THEN f ELSE bestMatch
           index == {g \in {At(f, n) : n \in IndexOf(f.node)} : beyond /\ Valid(g)}
           perfect == {g \in index : /\ g.dynamics = 0 /\ g.optionals = 0
                                     /\ g.skipped = {} /\ g.statics = 2^(Beyond - 1) - 1}
           better == {g \in index : MoreSpecific(best, g)}
<1>2. /\ stack # <<>> /\ Valid(Popped) /\ result = Searching
      /\ bestFuzzy' = IF /\ fuzzy /\ node.route # 0 /\ node.kind # "index"
                         /\ MoreSpecific(bestFuzzy, f)
                      THEN f ELSE bestFuzzy
      /\ \/ \E g \in perfect : Return(Parsed(g))
         \/ /\ bestMatch' = IF better = {} THEN best
                            ELSE CHOOSE g \in {Parsed(h) : h \in better} : TRUE
            /\ stack' = Front(stack) \o Pushed(f)
            /\ result' = result
  BY DEF Explore, Turn, Running
<1>3. PICK s, p : s = stack /\ p = Popped OBVIOUS
<1>4. /\ Stacked(s) /\ s # <<>> /\ p = Last(s) /\ Waits(p) /\ Valid(p) /\ Stacked(Front(s))
  BY <1>1, <1>2, <1>3, StackTop DEF Searched, Popped
<1>5. f = Parsed(p) BY <1>3
<1>6. /\ Explored(f) /\ NoIndex(tree[f.node].branch)
      /\ full => Matches(f)
      /\ fuzzy /\ node.route # 0 /\ node.kind # "index" => Begun(f)
      /\ \A n \in IndexOf(f.node) : beyond /\ Valid(At(f, n)) => Matches(Parsed(At(f, n)))
  <2>1. PICK q : q = Parsed(p) OBVIOUS
  <2>2. /\ Explored(q) /\ NoIndex(tree[q.node].branch)
        /\ q.index = Beyond /\ tree[q.node].route # 0
             /\ (PathIsIndex => tree[q.node].kind \in {"index", "wildcard"}) => Matches(q)
        /\ fuzzy /\ tree[q.node].route # 0 /\ tree[q.node].kind # "index" => Begun(q)
        /\ \A n \in IndexOf(q.node) :
             q.index = Beyond /\ Valid(At(q, n)) => Matches(Parsed(At(q, n)))
    BY <1>1, <1>4, <2>1, TurnOK
  <2> QED BY <1>5, <2>1, <2>2
<1>7. \A g \in index : Matches(Parsed(g)) BY <1>6
<1>8. \A m : m = bestMatch \/ m = bestFuzzy => m = NoFrame \/ Real(m)
  BY <1>1 DEF Searched, Matches, Begun, Reaches, Real
<1>9. /\ Improves(bestMatch, best) /\ (best = NoFrame \/ Real(best))
      /\ full => Covers(best, f.node, f.skipped)
  <2>1. CASE full
    <3>1. Real(f) BY <1>6, <2>1 DEF Matches, Reaches, Real
    <3>2. PICK w : w = best /\ w = IF MoreSpecific(bestMatch, f) THEN f ELSE bestMatch BY <2>1
    <3>3. Improves(bestMatch, w) /\ Covers(w, f.node, f.skipped)
      BY <1>1, <1>8, <3>1, <3>2, BetterOf
    <3> QED BY <1>8, <3>1, <3>2, <3>3
  <2>2. CASE ~full
    <3>1. best = bestMatch BY <2>2
    <3> QED BY <1>8, <2>2, <3>1 DEF Improves
  <2> QED BY <2>1, <2>2
<1>10. /\ Improves(bestFuzzy, bestFuzzy')
       /\ fuzzy /\ node.route # 0 /\ node.kind # "index" => Covers(bestFuzzy', f.node, f.skipped)
  <2>1. CASE fuzzy /\ node.route # 0 /\ node.kind # "index"
    <3>1. Real(f) BY <1>6, <2>1 DEF Begun, Reaches, Real
    <3>2. PICK w : w = bestFuzzy' /\ w = IF MoreSpecific(bestFuzzy, f) THEN f ELSE bestFuzzy
      BY <1>2, <2>1
    <3>3. Improves(bestFuzzy, w) /\ Covers(w, f.node, f.skipped)
      BY <1>1, <1>8, <3>1, <3>2, BetterOf
    <3> QED BY <3>2, <3>3
  <2>2. CASE ~(fuzzy /\ node.route # 0 /\ node.kind # "index")
    <3>1. bestFuzzy' = bestFuzzy BY <1>2, <2>2
    <3> QED BY <2>2, <3>1 DEF Improves
  <2> QED BY <2>1, <2>2
<1>16. \A g \in index :
         /\ Real(g) /\ tree[g.node].kind = "index" /\ g.skipped = f.skipped
         /\ g.node \in IndexOf(f.node) /\ g = At(f, g.node)
         /\ IsFrame(Parsed(g)) /\ Parsed(g).node = g.node /\ Parsed(g).skipped = g.skipped
  BY <1>1, <1>6, IndexReal
<1>11. perfect \subseteq index /\ better \subseteq index OBVIOUS
<1>12. \A g \in index : g \in better <=> MoreSpecific(best, g) OBVIOUS
<1>13. \A x \in IndexOf(f.node) : beyond /\ Valid(At(f, x)) => At(f, x) \in index OBVIOUS
<1>17. \A g \in perfect : g.statics = 2^(Beyond - 1) - 1 OBVIOUS
<1>18. \A g \in better : MoreSpecific(best, g) OBVIOUS
<1> HIDE DEF perfect, better, index, best
<1>14. CASE \E g \in perfect : Return(Parsed(g))
  <2>1. PICK g \in perfect : Return(Parsed(g)) BY <1>14
  <2>2. PICK h, e : h = Parsed(g) /\ e = Extract(h) OBVIOUS
  <2>3. Matches(h) BY <1>7, <1>11, <2>1, <2>2
  <2>4. IsFrame(h) BY <2>3 DEF Matches, Reaches
  <2>5. IsFrame(e) /\ e.node = h.node /\ e.skipped = h.skipped BY <2>2, <2>4, ExtractSame
  <2>6. result' = e BY <1>1, <2>1, <2>2, <2>4, FrameReal DEF Return
  <2>8. g \in index BY <1>11, <2>1
  <2>9. h.node = g.node /\ h.skipped = g.skipped BY <1>16, <2>2, <2>8
  <2>10. \A c \in FullOnes : ~Surpasses(c, g, 4) BY <1>1, <1>16, <1>17, <2>1, <2>8, PerfectTop
  <2>11. \A c \in FullOnes : ~Surpasses(c, h, 4) BY <2>9, <2>10 DEF Surpasses
  <2>7. Exact(e) /\ e # Searching BY <1>1, <2>3, <2>5, <2>11, MatchExact
  <2> QED BY <2>6, <2>7 DEF SeekKept
<1>15. CASE /\ bestMatch' = IF better = {} THEN best
                            ELSE CHOOSE g \in {Parsed(h) : h \in better} : TRUE
            /\ stack' = Front(stack) \o Pushed(f)
            /\ result' = result
  <2>1. ASSUME better # {} PROVE \E h \in better : bestMatch' = Parsed(h)
    <3>1. bestMatch' \in {Parsed(h) : h \in better} BY <1>15, <2>1
    <3> QED BY <3>1
  <2>2. Improves(best, bestMatch')
    <3>1. CASE better = {} BY <1>15, <3>1 DEF Improves
    <3>2. CASE better # {}
      <4>7. PICK h \in better : bestMatch' = Parsed(h) BY <2>1, <3>2
      <4>1. PICK w : w = Parsed(h) /\ bestMatch' = w BY <4>7
      <4>2. h \in index BY <1>11, <4>1
      <4>3. Real(h) /\ IsFrame(w) /\ w.node = h.node /\ w.skipped = h.skipped
        BY <1>16, <4>1, <4>2
      <4>4. Improves(best, h) BY <1>1, <1>9, <1>18, <4>1, <4>3, ImprovesOn
      <4>5. w # NoFrame BY <1>1, <4>3, FrameReal
      <4>6. \A c, k : Surpasses(c, w, k) <=> Surpasses(c, h, k) BY <4>3 DEF Surpasses
      <4> QED BY <4>1, <4>4, <4>5, <4>6 DEF Improves
    <3> QED BY <3>1, <3>2
  <2>3. ASSUME NEW g \in index, \A h \in index : h = g PROVE Covers(bestMatch', g.node, g.skipped)
    <3>1. CASE better = {}
      <4>1. bestMatch' = best BY <1>15, <3>1
      <4>2. ~MoreSpecific(best, g) BY <1>12, <2>3, <3>1
      <4>3. Real(g) BY <1>16, <2>3
      <4> QED BY <1>1, <1>9, <4>1, <4>2, <4>3, NotImproved
    <3>2. CASE better # {}
      <4>7. PICK h \in better : bestMatch' = Parsed(h) BY <2>1, <3>2
      <4>1. PICK w : w = Parsed(h) /\ bestMatch' = w BY <4>7
      <4>2. h = g BY <1>11, <2>3, <4>1
      <4>3. IsFrame(w) /\ w.node = g.node /\ w.skipped = g.skipped BY <1>16, <2>3, <4>1, <4>2
      <4>4. Covers(w, w.node, w.skipped) BY <1>1, <4>3, CoversItself
      <4> QED BY <4>1, <4>3, <4>4
    <3> QED BY <3>1, <3>2
  <2>4. PICK m, z : m = bestMatch' /\ z = bestFuzzy' OBVIOUS
  <2>5. Stacked(Pushed(f)) BY <1>1, <1>6, PushedOK
  <2>6. ASSUME NEW c \in Candidates, Target(c)
        PROVE  Held(c, m, z) \/ Coming(Front(s) \o Pushed(f), c[1], c[2])
    <3>1. PICK n, S : n = c[1] /\ S = c[2] OBVIOUS
    <3>2. Fitting(n, S) BY <1>1, <3>1, CandidateGives
    <3>7. c = <<n, S>> BY <3>1, CandidatePair
    <3>3. Held(c, bestMatch, bestFuzzy) \/ Coming(s, n, S)
      BY <1>2, <1>3, <2>6, <3>1 DEF SeekInv, Seeks
    <3>4. CASE Held(c, bestMatch, bestFuzzy)
      <4>1. Improves(bestMatch, m) BY <1>9, <2>2, <2>4 DEF Improves
      <4>2. Improves(bestFuzzy, z) BY <1>10, <2>4
      <4> QED BY <3>4, <4>1, <4>2, HeldOn
    <3>5. CASE Coming(Front(s), n, S)
      BY <1>4, <2>5, <3>1, <3>5, ComingJoin
    <3>6. CASE Towards(p, n, S)
      <4>1. Turned(f, n, S) BY <1>1, <1>4, <1>5, <3>2, <3>6, SeekTurn
      <4>2. CASE f.node = n /\ f.skipped = S
        <5>1. CASE c \in FullOnes
          <6>1. full BY <1>6, <3>1, <3>2, <4>2, <5>1, AtFull
          <6>2. Covers(best, n, S) BY <1>9, <4>2, <6>1
          <6>3. Covers(m, n, S) BY <2>2, <2>4, <3>7, <6>2, CoversOn
          <6> QED BY <3>7, <6>3, CoveredHeld
        <5>2. CASE c \notin FullOnes
          <6>1. fuzzy /\ c \in PartialOnes BY <2>6, <5>2 DEF Target
          <6>2. node.route # 0 /\ node.kind # "index"
            BY <3>1, <3>2, <4>2, <6>1 DEF Fitting, PartialOnes
          <6>3. Covers(z, n, S) BY <1>10, <2>4, <4>2, <6>1, <6>2
          <6> QED BY <3>7, <5>2, <6>3, CoveredHeld
        <5> QED BY <5>1, <5>2
      <4>3. CASE f.index = Beyond /\ n \in IndexOf(f.node) /\ Valid(At(f, n)) /\ f.skipped = S
        <5>1. PICK g : g = At(f, n) /\ g \in index BY <1>13, <4>3
        <5>2. \A x \in IndexOf(f.node) : x = n
          <6>1. f.node \in DOMAIN tree BY <1>6 DEF Explored, IsFrame
          <6> QED BY <4>3, <6>1 DEF IndexOf, PlainIndices
        <5>3. \A h \in index : h = g BY <1>16, <5>1, <5>2
        <5>4. Covers(m, g.node, g.skipped) BY <2>3, <2>4, <5>1, <5>3
        <5>5. g.node = n /\ g.skipped = S BY <1>16, <4>3, <5>1, <5>2
        <5> QED BY <3>7, <5>4, <5>5, CoveredHeld
      <4>4. CASE Coming(Pushed(f), n, S)
        BY <1>4, <2>5, <3>1, <4>4, ComingJoin
      <4> QED BY <4>1, <4>2, <4>3, <4>4 DEF Turned
    <3> QED BY <1>4, <3>3, <3>4, <3>5, <3>6, ComingTop
  <2>7. Seeks(Front(s) \o Pushed(f), m, z) BY <2>6 DEF Seeks
  <2> QED BY <1>2, <1>3, <1>15, <2>4, <2>7 DEF SeekKept
<1> QED BY <1>2, <1>14, <1>15

LEMMA FinishSeek ==
  ASSUME MatcherInv, WellNamed, Shallow, SeekInv, Finish
  PROVE  SeekKept
<1>1. TrieOK(tree) /\ Indices(tree, {}) /\ PathOK /\ Searched BY BuiltGives DEF MatcherInv
<1>2. PICK v : v = FlattenSeq(SubSeq(parts, bestFuzzy.index, Len(parts))) OBVIOUS
<1>3. PICK m, z : m = bestMatch /\ z = bestFuzzy OBVIOUS
<1>4. /\ result = Searching /\ stack = <<>>
      /\ \/ m # NoFrame /\ Return(m)
         \/ /\ m = NoFrame /\ z # NoFrame
            /\ Return([z EXCEPT !.params = Extended(Maps("**", v), @)])
         \/ m = NoFrame /\ z = NoFrame /\ Return(NoFrame)
  BY <1>2, <1>3 DEF Finish
<1>5. \A c \in Candidates : Target(c) => Held(c, m, z)
  <2> SUFFICES ASSUME NEW c \in Candidates, Target(c) PROVE Held(c, m, z) OBVIOUS
  <2>1. Held(c, m, z) \/ Coming(stack, c[1], c[2]) BY <1>3, <1>4 DEF SeekInv, Seeks
  <2>2. Len(stack) = 0 BY <1>4
  <2>3. ~Coming(stack, c[1], c[2]) BY <2>2 DEF Coming, Has
  <2> QED BY <2>1, <2>3
<1>6. CASE m # NoFrame /\ Return(m)
  <2>1. Matches(m) /\ IsFrame(m) BY <1>1, <1>3, <1>6 DEF Searched, Matches, Reaches
  <2>2. PICK e : e = Extract(m) OBVIOUS
  <2>3. IsFrame(e) /\ e.node = m.node /\ e.skipped = m.skipped BY <2>1, <2>2, ExtractSame
  <2>6. PlainWildcards => \A c \in FullOnes : ~Surpasses(c, m, 4)
    <3> SUFFICES ASSUME PlainWildcards, NEW c \in FullOnes PROVE ~Surpasses(c, m, 4) OBVIOUS
    <3>1. c \in Candidates /\ Target(c) BY DEF FullOnes, Target
    <3> QED BY <1>5, <3>1 DEF Held
  <2>4. Exact(e) /\ e # Searching BY <1>1, <2>1, <2>3, <2>6, MatchExact
  <2>5. result' = e BY <1>6, <2>2 DEF Return
  <2> QED BY <2>4, <2>5 DEF SeekKept
<1>7. ASSUME m = NoFrame PROVE FullOnes = {}
  <2> SUFFICES ASSUME NEW c \in FullOnes PROVE FALSE OBVIOUS
  <2>1. c \in Candidates /\ Target(c) BY DEF FullOnes, Target
  <2> QED BY <1>5, <1>7, <2>1 DEF Held
<1>8. CASE /\ m = NoFrame /\ z # NoFrame
           /\ Return([z EXCEPT !.params = Extended(Maps("**", v), @)])
  <2>1. Begun(z) /\ IsFrame(z) BY <1>1, <1>3, <1>8 DEF Searched, Begun, Reaches
  <2>2. PICK t : t = Extended(Maps("**", v), z.params) OBVIOUS
  <2>3. PICK h, e : h = [z EXCEPT !.params = t] /\ e = Extract(h) OBVIOUS
  <2>4. IsFrame(h) /\ h.node = z.node /\ h.skipped = z.skipped
    BY <2>1, <2>3 DEF IsFrame, Fields
  <2>5. IsFrame(e) /\ e.node = z.node /\ e.skipped = z.skipped
    <3>1. IsFrame(h) /\ e = Extract(h) BY <2>3, <2>4
    <3>2. IsFrame(e) /\ e.node = h.node /\ e.skipped = h.skipped BY <3>1, ExtractSame
    <3> QED BY <2>4, <3>2
  <2>6. fuzzy /\ <<z.node, z.skipped>> \in PartialOnes BY <1>1, <2>1, MatchesAre
  <2>7. e # NoFrame /\ e # Searching BY <1>1, <2>5, FrameReal
  <2>12. PlainWildcards => \A c \in PartialOnes : ~Surpasses(c, z, 5)
    <3> SUFFICES ASSUME PlainWildcards, NEW c \in PartialOnes PROVE ~Surpasses(c, z, 5) OBVIOUS
    <3>1. c \in Candidates /\ Target(c) BY <2>6 DEF PartialOnes, Target
    <3> QED BY <1>5, <1>8, <3>1 DEF Held
  <2>13. \A c : Surpasses(c, e, 5) <=> Surpasses(c, z, 5) BY <2>5 DEF Surpasses
  <2>8. Exact(e) BY <1>7, <1>8, <2>5, <2>6, <2>7, <2>12, <2>13 DEF Exact
  <2>9. h # NoFrame BY <1>1, <2>4, FrameReal
  <2>10. Return(h) BY <1>8, <2>2, <2>3
  <2>11. result' = e BY <2>3, <2>9, <2>10 DEF Return
  <2> QED BY <2>7, <2>8, <2>11 DEF SeekKept
<1>9. CASE m = NoFrame /\ z = NoFrame /\ Return(NoFrame)
  <2>1. ~(fuzzy /\ PartialOnes # {})
    <3> SUFFICES ASSUME fuzzy, NEW c \in PartialOnes PROVE FALSE OBVIOUS
    <3>1. c \in Candidates /\ Target(c) BY DEF PartialOnes, Target
    <3> QED BY <1>5, <1>9, <3>1 DEF Held
  <2>2. Exact(NoFrame) BY <1>7, <1>9, <2>1 DEF Exact
  <2>3. result' = NoFrame BY <1>9 DEF Return
  <2>4. NoFrame # Searching
    <3>1. NoFrame.node = 0 /\ Searching.node = -1 BY DEF NoFrame, Searching
    <3> QED BY <3>1
  <2> QED BY <2>2, <2>3, <2>4 DEF SeekKept
<1> QED BY <1>4, <1>6, <1>8, <1>9

\* The tree and the path, so what is owed, do not change.
LEMMA SeekKeptOK ==
  ASSUME tree' = tree, path' = path, fuzzy' = fuzzy, SeekKept
  PROVE  SeekInv'
<1>1. SameFrames BY FramesSame
<1>2. FullOnes' = FullOnes /\ PartialOnes' = PartialOnes /\ Candidates' = Candidates
  BY <1>1 DEF SameFrames
<1>3. \A s, n, S : Coming(s, n, S)' <=> Coming(s, n, S) BY DEF Coming, Towards
<1>9. PlainWildcards' <=> PlainWildcards BY DEF PlainWildcards, Children
<1>10. \A c, f, k : Surpasses(c, f, k)' <=> Surpasses(c, f, k)
  <2>1. \A b, S, kind : Sum(b, S, kind)' = Sum(b, S, kind) BY BranchesSame, SumsSame
  <2>2. \A n, S : Grade(n, S)' = Grade(n, S) BY <2>1 DEF Grade, IsIndex
  <2> QED BY <2>2 DEF Surpasses, Over
<1>4. \A c : (Target(c)' <=> Target(c)) /\ \A m, z : Held(c, m, z)' <=> Held(c, m, z)
  BY <1>2, <1>9, <1>10 DEF Target, Held
<1>5. \A s, m, z : Seeks(s, m, z)' <=> Seeks(s, m, z) BY <1>2, <1>3, <1>4 DEF Seeks
<1>6. \A r : Exact(r)' <=> Exact(r) BY <1>2, <1>9, <1>10 DEF Exact
<1>7. PICK s, m, z, r : s = stack' /\ m = bestMatch' /\ z = bestFuzzy' /\ r = result' OBVIOUS
<1>8. /\ r = Searching => Seeks(s, m, z)'
      /\ r # Searching => Exact(r)'
  BY <1>5, <1>6, <1>7 DEF SeekKept
<1> QED BY <1>7, <1>8 DEF SeekInv, Searching

LEMMA PlainSame ==
  ASSUME tree' = tree, path' = path, fuzzy' = fuzzy
  PROVE  (WellNamed' <=> WellNamed) /\ (Shallow' <=> Shallow) /\ (PlainIndices' <=> PlainIndices)
<1>1. SameFrames BY FramesSame
<1>2. \A n : Children(tree, n)' = Children(tree, n) BY DEF Children
<1>3. \A n, k : ChildrenOf(n, k)' = ChildrenOf(n, k) BY <1>2 DEF ChildrenOf
<1>4. PlainIndices' <=> PlainIndices BY <1>2, <1>3 DEF PlainIndices
<1> QED BY <1>1, <1>4 DEF SameFrames

FindsInv == MatcherInv /\ (WellNamed /\ Shallow /\ PlainIndices => SeekInv)

LEMMA FindsStep == FindsInv /\ [Next]_vars => FindsInv'
<1> SUFFICES ASSUME FindsInv, [Next]_vars PROVE FindsInv' OBVIOUS
<1>1. MatcherInv' BY StepInv DEF FindsInv
<1>2. tree' = tree /\ path' = path /\ fuzzy' = fuzzy
  BY DEF Next, RootIndex, Discard, Explore, Turn, Finish, vars
<1>3. ASSUME WellNamed, Shallow, PlainIndices PROVE SeekKept
  <2>1. MatcherInv /\ SeekInv BY <1>3 DEF FindsInv
  <2>2. CASE RootIndex BY <1>3, <2>1, <2>2, RootIndexSeek
  <2>3. CASE Discard BY <1>3, <2>1, <2>3, DiscardSeek
  <2>4. CASE Explore BY <1>3, <2>1, <2>4, ExploreSeek
  <2>5. CASE Finish BY <1>3, <2>1, <2>5, FinishSeek
  <2>6. CASE UNCHANGED vars BY <2>1, <2>6 DEF vars, SeekInv, SeekKept
  <2> QED BY <2>2, <2>3, <2>4, <2>5, <2>6 DEF Next
<1>4. ASSUME WellNamed', Shallow', PlainIndices' PROVE SeekInv'
  <2>1. WellNamed /\ Shallow /\ PlainIndices BY <1>2, <1>4, PlainSame
  <2> QED BY <1>2, <1>3, <2>1, SeekKeptOK
<1> QED BY <1>1, <1>4 DEF FindsInv

\* The search finds a route exactly when the path fits one: no pruning, no
\* order of the stack and no guard loses the last way there is.  An index
\* route has a place of its own and no children.
THEOREM WhatFitsIsFound == Spec => [](WellNamed /\ Shallow /\ PlainIndices => FindsWhatFits)
<1>1. Init => FindsInv BY InitInv, InitSeek DEF FindsInv
<1>2. FindsInv => (WellNamed /\ Shallow /\ PlainIndices => FindsWhatFits)
  BY DEF FindsInv, SeekInv, Exact, FindsWhatFits, Done, Found
<1> QED BY <1>1, <1>2, FindsStep, PTL DEF Spec

\* The route it finds is one of the most specific: neither the scores, which
\* stand for the parts that each kind of segment matched, nor the pruning of
\* wildcards, nor the shortcut for an index route with static names only ever
\* prefers another one.
THEOREM WhatIsFoundIsMostSpecific ==
  Spec => [](WellNamed /\ Shallow /\ PlainIndices /\ PlainWildcards => FindsMostSpecific)
<1>1. Init => FindsInv BY InitInv, InitSeek DEF FindsInv
<1>2. FindsInv => (WellNamed /\ Shallow /\ PlainIndices /\ PlainWildcards => FindsMostSpecific)
  <2> SUFFICES ASSUME FindsInv, WellNamed, Shallow, PlainIndices, PlainWildcards, Done,
                      result # NoFrame
               PROVE  Found \in IF FullOnes # {} THEN Best(FullOnes, Rank)
                                ELSE Best(PartialOnes, RankAndDepth)
    BY DEF FindsMostSpecific
  <2>1. Exact(result) BY DEF FindsInv, SeekInv, Done
  <2>2. TrieOK(tree) /\ PathOK BY BuiltGives DEF FindsInv, MatcherInv
  <2>3. PICK m, R, r : m = result.node /\ R = result.skipped /\ r = result OBVIOUS
  <2>4. Found = <<m, R>> BY <2>3 DEF Found
  <2>5. ASSUME NEW c \in Candidates, <<m, R>> \in Candidates
        PROVE  /\ Outranks(Rank(c), Rank(<<m, R>>)) => Surpasses(c, r, 4)
               /\ Outranks(RankAndDepth(c), RankAndDepth(<<m, R>>)) => Surpasses(c, r, 5)
    <3>1. PICK n, S : n = c[1] /\ S = c[2] OBVIOUS
    <3>2. c = <<n, S>> BY <3>1, CandidatePair
    <3>3. Fitting(n, S) BY <2>2, <3>1, CandidateGives
    <3>4. Fitting(m, R)
      <4>1. PICK e : e = <<m, R>> /\ e[1] = m /\ e[2] = R
        <5>1. <<m, R>>[1] = m /\ <<m, R>>[2] = R OBVIOUS
        <5> QED BY <5>1, Zenon
      <4> QED BY <2>2, <2>5, <4>1, CandidateGives
    <3>5. Ranked(n, S, m, R) BY <2>2, <3>3, <3>4, RankOver
    <3> QED BY <2>3, <3>1, <3>2, <3>5 DEF Ranked, Surpasses
  <2>6. CASE FullOnes # {}
    <3>1. <<m, R>> \in FullOnes /\ \A c \in FullOnes : ~Surpasses(c, r, 4)
      BY <2>1, <2>3, <2>6 DEF Exact
    <3>2. \A c \in FullOnes : c \in Candidates BY DEF FullOnes
    <3>3. \A c \in FullOnes : ~Outranks(Rank(c), Rank(<<m, R>>)) BY <2>5, <3>1, <3>2
    <3>4. <<m, R>> \in Best(FullOnes, Rank) BY <3>1, <3>3 DEF Best
    <3> QED BY <2>4, <2>6, <3>4
  <2>7. CASE FullOnes = {}
    <3>1. <<m, R>> \in PartialOnes /\ \A c \in PartialOnes : ~Surpasses(c, r, 5)
      BY <2>1, <2>3, <2>7 DEF Exact
    <3>2. \A c \in PartialOnes : c \in Candidates BY DEF PartialOnes
    <3>3. \A c \in PartialOnes : ~Outranks(RankAndDepth(c), RankAndDepth(<<m, R>>))
      BY <2>5, <3>1, <3>2
    <3>4. <<m, R>> \in Best(PartialOnes, RankAndDepth) BY <3>1, <3>3 DEF Best
    <3> QED BY <2>4, <2>7, <3>4
  <2> QED BY <2>6, <2>7
<1> QED BY <1>1, <1>2, FindsStep, PTL DEF Spec
=============================================================================
