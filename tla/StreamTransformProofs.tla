------------------------ MODULE StreamTransformProofs ------------------------
(***************************************************************************)
(* What transformStreamWithRouter does with the HTML and the scripts, for  *)
(* every well-formed page, every number of scripts and every cap on what   *)
(* is held back.                                                           *)
(*                                                                         *)
(* None of the properties is inductive.  The invariant, Inv, says where    *)
(* everything is: the positions up to SentTo are in the text sent, the     *)
(* rest of what was read is held back or kept for the end, in order; the   *)
(* first scripts are in the barrier element, those up to Given in the text *)
(* sent, the rest wait, in order.  To keep this it has to know why the     *)
(* code may send what it sends: no closing tag ends in the text held back  *)
(* (HeldBack), nothing is injected before the barrier element was read     *)
(* (Lifted), a finished serializer has handed over its scripts (Flushed),  *)
(* unless the transform came late (Lateness).                              *)
(*                                                                         *)
(* The invariant is stated of values, Good(a, v, t, lt, sp), since the     *)
(* code's handlers call each other: Enqueue, Inject, Signal, TryFinish,    *)
(* Received and Over each have a lemma, and a step combines them.  The     *)
(* module has the lemmas on sequences, the invariant, what is sent (Sent,  *)
(* Sending), the handlers, a turn of the read loop (Turned, ReadBehind,    *)
(* ReadClosing, ReadText), the steps, and the properties.                  *)
(***************************************************************************)
EXTENDS StreamTransform, SequenceTheorems, WellFoundedInduction, TLAPS

-----------------------------------------------------------------------------
(* Sequences of positions. *)

\* The numbers in s follow k.
Follow(s, k) == \A i \in DOMAIN s : s[i] = k + i

LEMMA ListsConcat ==
  ASSUME NEW s \in Seq(Int), NEW t \in Seq(Int), NEW l \in Nat, NEW m \in Nat, NEW n \in Nat,
         l <= m, m <= n, Lists(s, l, m), Lists(t, m, n)
  PROVE  s \o t \in Seq(Int) /\ Lists(s \o t, l, n)
<1> DEFINE u == s \o t
<1>1. /\ u \in Seq(Int) /\ Len(u) = Len(s) + Len(t)
      /\ DOMAIN u = 1..Len(u) /\ DOMAIN s = 1..Len(s) /\ DOMAIN t = 1..Len(t)
      /\ Len(s) \in Nat /\ Len(t) \in Nat
  OBVIOUS
<1>2. \A i \in DOMAIN s : i \in DOMAIN u /\ u[i] = s[i] BY <1>1
<1>3. \A i \in DOMAIN t : Len(s) + i \in DOMAIN u /\ u[Len(s) + i] = t[i] BY <1>1
<1>4. \A i \in DOMAIN u : i \in DOMAIN s \/ (i > Len(s) /\ i - Len(s) \in DOMAIN t /\ u[i] = t[i - Len(s)])
  BY <1>1
<1> HIDE DEF u
<1>5. \A p \in (l + 1)..n : \E i \in DOMAIN u : u[i] = p
  <2> TAKE p \in (l + 1)..n
  <2>1. CASE p <= m BY <1>2, <2>1 DEF Lists
  <2>2. CASE p > m BY <1>3, <2>2 DEF Lists
  <2> QED BY <2>1, <2>2
<1>6. \A i \in DOMAIN u : u[i] > 0 => l < u[i] /\ u[i] <= n
  <2> TAKE i \in DOMAIN u
  <2>1. u[i] \in Int BY <1>1
  <2>2. CASE i \in DOMAIN s BY <1>2, <2>1, <2>2 DEF Lists
  <2>3. CASE i \notin DOMAIN s BY <1>4, <2>1, <2>3 DEF Lists
  <2> QED BY <2>2, <2>3
<1>7. \A i, j \in DOMAIN u : i < j /\ u[i] > 0 /\ u[j] > 0 => u[i] < u[j]
  <2> SUFFICES ASSUME NEW i \in DOMAIN u, NEW j \in DOMAIN u, i < j, u[i] > 0, u[j] > 0
               PROVE  u[i] < u[j]
    OBVIOUS
  <2>1. CASE j \in DOMAIN s
    <3>1. i \in DOMAIN s BY <1>1, <2>1
    <3> QED BY <1>2, <2>1, <3>1 DEF Lists
  <2>2. CASE j \notin DOMAIN s /\ i \in DOMAIN s
    <3>1. u[i] <= m BY <1>2, <2>2 DEF Lists
    <3>2. m < u[j] BY <1>4, <2>2 DEF Lists
    <3>3. u[i] \in Int /\ u[j] \in Int BY <1>1
    <3> QED BY <3>1, <3>2, <3>3
  <2>3. CASE i \notin DOMAIN s
    <3>1. j \notin DOMAIN s BY <1>1, <2>3
    <3>2. /\ i - Len(s) \in DOMAIN t /\ u[i] = t[i - Len(s)]
          /\ j - Len(s) \in DOMAIN t /\ u[j] = t[j - Len(s)]
          /\ i - Len(s) < j - Len(s)
      BY <1>1, <1>4, <2>3, <3>1
    <3> QED BY <3>2 DEF Lists
  <2> QED BY <2>1, <2>2, <2>3
<1>8. Lists(u, l, n) BY <1>5, <1>6, <1>7 DEF Lists
<1> QED BY <1>1, <1>8 DEF u

LEMMA FollowLists ==
  ASSUME NEW s \in Seq(Int), NEW k \in Nat, Follow(s, k)
  PROVE  Lists(s, k, k + Len(s))
<1>1. DOMAIN s = 1..Len(s) /\ Len(s) \in Nat OBVIOUS
<1>2. \A p \in (k + 1)..(k + Len(s)) : p - k \in DOMAIN s /\ s[p - k] = p BY <1>1 DEF Follow
<1>3. \A p \in (k + 1)..(k + Len(s)) : \E i \in DOMAIN s : s[i] = p BY <1>2
<1>4. \A i \in DOMAIN s : i \in Int /\ s[i] = k + i /\ 0 < i /\ i <= Len(s) BY <1>1 DEF Follow
<1> QED BY <1>3, <1>4 DEF Lists

LEMMA OthersLists ==
  ASSUME NEW s \in Seq(Int), NEW k \in Nat, \A i \in DOMAIN s : s[i] <= 0
  PROVE  Lists(s, k, k)
BY DEF Lists

LEMMA FollowConcat ==
  ASSUME NEW s \in Seq(Int), NEW t \in Seq(Int), NEW k \in Nat,
         Follow(s, k), Follow(t, k + Len(s))
  PROVE  Follow(s \o t, k)
BY DEF Follow

LEMMA FollowSubSeq ==
  ASSUME NEW s \in Seq(Int), NEW k \in Nat, Follow(s, k), NEW n \in 0..Len(s)
  PROVE  /\ SubSeq(s, 1, n) \in Seq(Int) /\ Len(SubSeq(s, 1, n)) = n
         /\ Follow(SubSeq(s, 1, n), k)
         /\ SubSeq(s, n + 1, Len(s)) \in Seq(Int) /\ Len(SubSeq(s, n + 1, Len(s))) = Len(s) - n
         /\ Follow(SubSeq(s, n + 1, Len(s)), k + n)
<1> DEFINE u == SubSeq(s, n + 1, Len(s))
<1>1. u \in Seq(Int) /\ Len(u) = Len(s) - n OBVIOUS
<1>2. \A i \in 1..Len(u) : u[i] = s[n + i] BY SMTT(40)
<1>3. DOMAIN u = 1..Len(u) OBVIOUS
<1>4. Follow(u, k + n) BY <1>1, <1>2, <1>3 DEF Follow
<1> DEFINE v == SubSeq(s, 1, n)
<1>5. v \in Seq(Int) /\ Len(v) = n OBVIOUS
<1>6. \A i \in 1..Len(v) : v[i] = s[i] OBVIOUS
<1>7. DOMAIN v = 1..Len(v) OBVIOUS
<1>8. Follow(v, k) BY <1>5, <1>6, <1>7 DEF Follow
<1> QED BY <1>1, <1>4, <1>5, <1>8

LEMMA NegativeSeq ==
  ASSUME NEW s \in Seq(Int)
  PROVE  /\ Negative(s) \in Seq(Int) /\ Len(Negative(s)) = Len(s)
         /\ \A i \in 1..Len(s) : Negative(s)[i] = -s[i]
<1>1. DOMAIN s = 1..Len(s) /\ Len(s) \in Nat OBVIOUS
<1>2. Negative(s) = [i \in 1..Len(s) |-> -s[i]] BY <1>1 DEF Negative
<1> QED BY <1>1, <1>2

LEMMA NegativeConcat ==
  ASSUME NEW s \in Seq(Int), NEW t \in Seq(Int)
  PROVE  Negative(s \o t) = Negative(s) \o Negative(t)
<1>0. s \o t \in Seq(Int) OBVIOUS
<1>1. PICK u \in Seq(Int) : u = s \o t BY <1>0
<1>2. PICK a \in Seq(Int) : a = Negative(s) BY NegativeSeq
<1>3. PICK b \in Seq(Int) : b = Negative(t) BY NegativeSeq
<1>4. PICK c \in Seq(Int) : c = Negative(u) BY NegativeSeq
<1>5. /\ Len(a) = Len(s) /\ \A i \in 1..Len(s) : a[i] = -s[i]
      /\ Len(b) = Len(t) /\ \A i \in 1..Len(t) : b[i] = -t[i]
      /\ Len(c) = Len(u) /\ \A i \in 1..Len(u) : c[i] = -u[i]
  BY <1>2, <1>3, <1>4, NegativeSeq
<1>6. /\ Len(s) \in Nat /\ Len(t) \in Nat /\ Len(u) = Len(s) + Len(t)
      /\ \A i \in 1..Len(s) : u[i] = s[i]
      /\ \A i \in (Len(s) + 1)..(Len(s) + Len(t)) : u[i] = t[i - Len(s)]
  BY <1>1
<1>7. /\ a \o b \in Seq(Int) /\ Len(a \o b) = Len(s) + Len(t)
      /\ \A i \in 1..(Len(s) + Len(t)) :
           (a \o b)[i] = IF i <= Len(s) THEN a[i] ELSE b[i - Len(s)]
  <2>1. Len(a) = Len(s) /\ Len(b) = Len(t) BY <1>5
  <2>2. /\ a \o b \in Seq(Int) /\ Len(a \o b) = Len(a) + Len(b)
        /\ \A i \in 1..(Len(a) + Len(b)) :
             (a \o b)[i] = IF i <= Len(a) THEN a[i] ELSE b[i - Len(a)]
    BY ConcatProperties
  <2> QED BY <2>1, <2>2
<1>8. ASSUME NEW i \in 1..(Len(s) + Len(t)) PROVE c[i] = (a \o b)[i]
  <2>1. CASE i <= Len(s)
    <3>1. i \in 1..Len(s) BY <1>6, <2>1
    <3> QED BY <1>5, <1>6, <1>7, <2>1, <3>1
  <2>2. CASE i > Len(s)
    <3>1. i - Len(s) \in 1..Len(t) /\ i \in (Len(s) + 1)..(Len(s) + Len(t)) BY <1>6, <2>2
    <3>2. (a \o b)[i] = b[i - Len(s)] BY <1>6, <1>7, <2>2, SMTT(40)
    <3>3. b[i - Len(s)] = -t[i - Len(s)] BY <1>5, <3>1
    <3>4. c[i] = -u[i] /\ u[i] = t[i - Len(s)] BY <1>5, <1>6, <3>1
    <3> QED BY <3>2, <3>3, <3>4
  <2>3. i <= Len(s) \/ i > Len(s) BY <1>6
  <2> QED BY <2>1, <2>2, <2>3
<1>10. c = a \o b BY <1>5, <1>6, <1>7, <1>8, SeqEqual
<1> QED BY <1>1, <1>2, <1>3, <1>4, <1>10

-----------------------------------------------------------------------------
(* The invariant, on values of the variables. *)

Item == (1..Len(page)) \cup (-Scripts..-1)
AppType == [rendered : 0..Len(page), state : {"rendering", "ended", "failed"}, inBar : Injected]
SsrType == [queue : Injected, produced : 1..Scripts, lifted : BOOLEAN,
            microtask : {"none", "lift", "enqueue"}, buffered : {<<>>},
            finished : BOOLEAN, failed : BOOLEAN, live : BOOLEAN]
TrType == [mode : {"none", "passthrough", "on"}, read : 0..Len(page), out : Seq(Item),
           pending : Injected, leftover : Html, closing : Html,
           rendering : BOOLEAN, barrier : BOOLEAN, finished : BOOLEAN,
           listening : BOOLEAN, timer : BOOLEAN,
           stream : {"open", "closed", "errored", "cancelled"}]
Typed(a, v, t) == /\ a \in AppType /\ v \in SsrType /\ t \in TrType
                  /\ t.read <= a.rendered /\ Len(t.leftover) <= MaxLeftover

Bar == CHOOSE b \in DOMAIN page : page[b] = "bar"

\* The positions sent, and the scripts given to the transform.
SentTo(t) == t.read - Len(t.leftover) - Len(t.closing)
Given(v, t) == v.produced - Len(v.queue) - Len(t.pending)

HtmlInPlace(t) ==
  /\ SentTo(t) >= 0 /\ Lists(t.out, 0, SentTo(t))
  /\ Follow(t.leftover, SentTo(t)) /\ Follow(t.closing, SentTo(t))
  /\ t.leftover = <<>> \/ t.closing = <<>>

ScriptsInPlace(inBar, v, t) ==
  /\ Follow(Negative(inBar), 0)
  /\ Len(inBar) <= Given(v, t) /\ Lists(Negative(t.out), Len(inBar), Given(v, t))
  /\ Follow(Negative(t.pending), Given(v, t))
  /\ Follow(Negative(v.queue), Given(v, t) + Len(t.pending))

\* No tag ends in what is held back; the closing tags are what they are.
HeldBack(t) ==
  /\ \A i \in DOMAIN t.leftover :
       /\ page[t.leftover[i]] \notin {"</body>", "</html>"}
       /\ i > 1 /\ page[t.leftover[i]] = ">" => page[t.leftover[i - 1]] # "</"
  /\ t.closing # <<>> => page[t.closing[1]] = "</body>"

BodyOpen(n, sp) == sp \/ \A p \in 1..n : page[p] # "</body>"

Attached(t) ==
  /\ t.mode = "none" => t.read = 0 /\ t.out = <<>> /\ t.rendering /\ ~t.finished
  /\ t.mode # "on" => /\ t.leftover = <<>> /\ t.closing = <<>> /\ t.pending = <<>>
                      /\ ~t.listening /\ t.rendering /\ ~t.barrier
  /\ t.mode = "on" => t.listening
  /\ ~t.rendering => t.read = Len(page)

Lifted(v, t) ==
  /\ v.lifted => t.mode = "on"
  /\ t.mode = "on" => (v.lifted <=> Bar <= t.read) /\ (t.barrier <=> Bar <= t.read)
  /\ ~v.lifted => /\ v.microtask = "none" /\ t.pending = <<>>
                  /\ \A i \in DOMAIN t.out : t.out[i] > 0

\* What is serialized reaches the transform, unless it was attached late.
Flushed(v) ==
  v.finished /\ ~v.failed /\ v.lifted => v.queue = <<>> \/ v.microtask = "lift"
Lateness(a, v, t, lt) ==
  t.mode = "passthrough" =>
    /\ v.finished
    /\ ~lt /\ ~v.failed /\ Bar <= a.rendered => v.queue = <<>>

Working(a, v, t, lt, sp) ==
  /\ v.live /\ HtmlInPlace(t) /\ ScriptsInPlace(a.inBar, v, t)
  /\ HeldBack(t) /\ (t.mode = "on" => BodyOpen(SentTo(t), sp))
  /\ Attached(t) /\ Lifted(v, t) /\ Flushed(v) /\ Lateness(a, v, t, lt)
  /\ t.finished => v.finished
  /\ a.rendered < Bar => a.inBar = <<>>
  /\ a.state = "ended" => a.rendered = Len(page)

Before(out, i) == {p \in 1..Len(page) : \E j \in 1..i : out[j] = p}
MayFollow(n, sp) ==
  /\ Bar <= n /\ BodyOpen(n, sp)
  /\ page[n] \in {">", "</body>", "</html>"} \/ n = Len(page) \/ page[n + 1] = "</body>"
Placed(out, sp) ==
  \A i \in DOMAIN out :
    out[i] < 0 => \E n \in Before(out, i) :
                    Before(out, i) = 1..n /\ MayFollow(n, sp)

Complete(inBar, excused, out) ==
  /\ Lists(out, 0, Len(page))
  /\ excused \/ Lists(Negative(inBar \o out), 0, Scripts)

Good(a, v, t, lt, sp) ==
  /\ Typed(a, v, t)
  /\ v.finished /\ ~v.failed => v.produced = Scripts
  /\ t.stream = "open" => Working(a, v, t, lt, sp)
  /\ t.stream # "open" => ~v.live
  /\ t.mode = "none" => t.stream = "open" /\ ~t.timer
  /\ Placed(t.out, sp)
  /\ t.stream = "closed" => Complete(a.inBar, lt \/ v.failed, t.out)

Inv == /\ page \in Pages /\ late \in BOOLEAN /\ split \in BOOLEAN
       /\ Good(app, ssr, tr, late, split)

-----------------------------------------------------------------------------
LEMMA PageOK ==
  ASSUME page \in Pages
  PROVE  /\ WellFormed(page)
         /\ Len(page) \in Nat /\ DOMAIN page = 1..Len(page)
         /\ Bar \in 1..Len(page) /\ page[Bar] = "bar"
         /\ \A i \in 1..Len(page) : /\ page[i] = "bar" => i = Bar
                                    /\ page[i] = "</body>" => Bar < i
<1>1. WellFormed(page) BY StreamAssumption
<1>2. page \in Seq({"txt", "bar", "</", ">", "</body>", "</html>"}) BY <1>1 DEF WellFormed
<1>3. Len(page) \in Nat /\ DOMAIN page = 1..Len(page) BY <1>2
<1>4. PICK b \in DOMAIN page :
        /\ page[b] = "bar"
        /\ \A i \in DOMAIN page : (page[i] = "bar" => i = b) /\ (page[i] = "</body>" => b < i)
  BY <1>1 DEF WellFormed
<1>5. Bar \in DOMAIN page /\ page[Bar] = "bar" BY <1>4 DEF Bar
<1>6. Bar = b BY <1>4, <1>5
<1> QED BY <1>1, <1>3, <1>4, <1>5, <1>6

LEMMA ItemSeqs ==
  ASSUME page \in Pages
  PROVE  /\ Item \subseteq Int
         /\ \A s \in Html : s \in Seq(Item) /\ s \in Seq(Int)
         /\ \A s \in Injected : s \in Seq(Item) /\ s \in Seq(Int)
         /\ \A s \in Seq(Item) : s \in Seq(Int)
<1>1. Scripts \in Nat /\ Len(page) \in Nat BY StreamAssumption, PageOK
<1>2. Item \subseteq Int /\ 1..Len(page) \subseteq Item /\ -Scripts..-1 \subseteq Item
  BY <1>1 DEF Item
<1>3. \A s \in Html : s \in Seq(Item) BY <1>2, SeqMonotonic DEF Html
<1>4. \A s \in Injected : s \in Seq(Item) BY <1>2, SeqMonotonic DEF Injected
<1>5. \A s \in Seq(Item) : s \in Seq(Int) BY <1>2, SeqMonotonic
<1> QED BY <1>2, <1>3, <1>4, <1>5

LEMMA ItemConcat ==
  ASSUME page \in Pages, NEW s \in Seq(Item), NEW t \in Seq(Item)
  PROVE  /\ s \o t \in Seq(Item) /\ Len(s \o t) = Len(s) + Len(t)
         /\ Len(s) \in Nat /\ Len(t) \in Nat
         /\ \A i \in 1..Len(s) : (s \o t)[i] = s[i]
         /\ \A i \in 1..Len(t) : (s \o t)[Len(s) + i] = t[i]
<1>1. Len(s) \in Nat /\ Len(t) \in Nat BY LenProperties
<1>2. /\ s \o t \in Seq(Item) /\ Len(s \o t) = Len(s) + Len(t)
      /\ \A i \in 1..(Len(s) + Len(t)) :
           (s \o t)[i] = IF i <= Len(s) THEN s[i] ELSE t[i - Len(s)]
  BY ConcatProperties
<1>3. \A i \in 1..Len(s) : (s \o t)[i] = s[i] BY <1>1, <1>2
<1>4. ASSUME NEW i \in 1..Len(t) PROVE (s \o t)[Len(s) + i] = t[i]
  <2>1. Len(s) + i \in 1..(Len(s) + Len(t)) /\ ~(Len(s) + i <= Len(s)) /\ (Len(s) + i) - Len(s) = i
    BY <1>1
  <2>2. (s \o t)[Len(s) + i] = t[(Len(s) + i) - Len(s)] BY <1>2, <2>1
  <2> QED BY <2>1, <2>2
<1> QED BY <1>1, <1>2, <1>3, <1>4

LEMMA TypedConcat ==
  ASSUME NEW S, NEW s \in Seq(S), NEW t \in Seq(S)
  PROVE  s \o t \in Seq(S)
BY ConcatProperties

\* HTML that goes on where the page was, and scripts that may follow it.
LEMMA SendPlaced ==
  ASSUME page \in Pages, NEW out \in Seq(Item), NEW html \in Html, NEW scripts \in Injected,
         NEW k \in Nat, NEW sp, NEW tp, sp => tp,
         Lists(out, 0, k), Follow(html, k), Placed(out, sp),
         scripts # <<>> => MayFollow(k + Len(html), tp)
  PROVE  /\ out \o html \in Seq(Item) /\ (out \o html) \o scripts \in Seq(Item)
         /\ Lists(out \o html, 0, k + Len(html))
         /\ Lists((out \o html) \o scripts, 0, k + Len(html))
         /\ Placed((out \o html) \o scripts, tp)
<1> DEFINE u == out \o html
           w == u \o scripts
           n == k + Len(html)
<1>1. /\ html \in Seq(Item) /\ html \in Seq(Int) /\ scripts \in Seq(Item) /\ scripts \in Seq(Int)
      /\ out \in Seq(Int) /\ Item \subseteq Int
  BY ItemSeqs
<1>2. /\ u \in Seq(Item) /\ Len(u) = Len(out) + Len(html) /\ Len(out) \in Nat /\ Len(html) \in Nat
      /\ \A i \in 1..Len(out) : u[i] = out[i]
      /\ \A i \in 1..Len(html) : u[Len(out) + i] = html[i]
  BY <1>1, ItemConcat
<1>3. /\ w \in Seq(Item) /\ Len(w) = Len(u) + Len(scripts) /\ Len(u) \in Nat /\ Len(scripts) \in Nat
      /\ \A i \in 1..Len(u) : w[i] = u[i]
      /\ \A i \in 1..Len(scripts) : w[Len(u) + i] = scripts[i]
  BY <1>1, <1>2, ItemConcat
<1>4. Lists(html, k, n) BY <1>1, FollowLists
<1>5. Lists(u, 0, n) BY <1>1, <1>2, <1>4, ListsConcat
<1>6. \A i \in 1..Len(scripts) : scripts[i] < 0 /\ scripts[i] \in Int
  <2>1. \A i \in 1..Len(scripts) : scripts[i] \in -Scripts..-1 BY ElementOfSeq DEF Injected
  <2> QED BY <2>1, StreamAssumption
<1>7. DOMAIN scripts = 1..Len(scripts) BY <1>1
<1>0. n \in Nat /\ 0 \in Nat /\ 0 <= n /\ n <= n BY <1>2
<1>8. Lists(scripts, n, n)
  <2>1. \A i \in DOMAIN scripts : scripts[i] <= 0 BY <1>6, <1>7
  <2> HIDE DEF n
  <2> QED BY <1>0, <1>1, <2>1, OthersLists
<1>9. Lists(w, 0, n)
  <2>1. u \in Seq(Int) BY <1>2, ItemSeqs
  <2> HIDE DEF n, u
  <2> QED BY <1>0, <1>1, <1>5, <1>8, <2>1, ListsConcat
<1>10. Placed(w, tp)
  <2> SUFFICES ASSUME NEW i \in 1..Len(w), w[i] < 0
               PROVE  \E m \in Before(w, i) : Before(w, i) = 1..m /\ MayFollow(m, tp)
    BY <1>3 DEF Placed
  <2>1. CASE i <= Len(out)
    <3>1. \A j \in 1..i : w[j] = out[j] BY <1>2, <1>3, <2>1
    <3>2. Before(w, i) = Before(out, i) BY <3>1 DEF Before
    <3>3. i \in DOMAIN out /\ out[i] < 0 BY <1>1, <1>2, <2>1, <3>1
    <3>4. PICK m \in Before(out, i) : Before(out, i) = 1..m /\ MayFollow(m, sp)
      BY <3>3 DEF Placed
    <3>5. MayFollow(m, tp) BY <3>4 DEF MayFollow, BodyOpen
    <3> QED BY <3>2, <3>4, <3>5
  <2>2. CASE Len(out) < i /\ i <= Len(u)
    <3>1. i - Len(out) \in 1..Len(html) /\ w[i] = html[i - Len(out)] BY <1>2, <1>3, <2>2
    <3>2. html[i - Len(out)] \in 1..Len(page) BY <3>1, ElementOfSeq DEF Html
    <3> QED BY <2>2, <3>1, <3>2, PageOK
  <2>3. CASE Len(u) < i
    <3>1. scripts # <<>> BY <1>3, <2>3
    <3>2. MayFollow(n, tp) BY <3>1
    <3>3. n \in 1..Len(page)
      <4>1. Bar <= n /\ Bar \in 1..Len(page) BY <3>2, PageOK DEF MayFollow
      <4>0. n \in (0 + 1)..n BY <1>0, <4>1, PageOK
      <4>2. \E j \in DOMAIN u : u[j] = n BY <1>5, <4>0 DEF Lists
      <4>3. n \in Item BY <1>2, <4>2, ElementOfSeq
      <4>4. n >= 1 /\ n \in Int BY <1>2, <4>1, PageOK
      <4> QED BY <4>3, <4>4, StreamAssumption DEF Item
    <3>4. ASSUME NEW p \in 1..n PROVE p \in Before(w, i)
      <4>1. PICK j \in DOMAIN u : u[j] = p BY <1>5 DEF Lists
      <4>2. j \in 1..i /\ w[j] = p BY <1>2, <1>3, <2>3, <4>1
      <4> QED BY <3>3, <4>2, PageOK DEF Before
    <3>5. ASSUME NEW p \in Before(w, i) PROVE p \in 1..n
      <4>1. PICK j \in 1..i : w[j] = p BY DEF Before
      <4>2. p \in 1..Len(page) BY DEF Before
      <4>3. j \in DOMAIN w BY <1>3, <4>1
      <4>4. p > 0 /\ p \in Int BY <4>2, PageOK
      <4>5. w[j] > 0 => w[j] <= n BY <1>9, <4>3 DEF Lists
      <4> QED BY <1>0, <4>1, <4>4, <4>5
    <3>6. Before(w, i) = 1..n BY <3>4, <3>5
    <3> QED BY <3>2, <3>3, <3>6
  <2> QED BY <1>2, <1>3, <2>1, <2>2, <2>3
<1> QED BY <1>2, <1>3, <1>5, <1>9, <1>10

\* A step leaves the page alone.
LEMMA SamePage ==
  ASSUME page' = page, Good(app', ssr', tr', late', split')
  PROVE  Good(app, ssr, tr, late, split)'
<1>1. Typed(app', ssr', tr') <=> Typed(app, ssr, tr)'
  BY DEF Typed, AppType, SsrType, TrType, Html, Injected, Item
<1>2. Placed(tr'.out, split') <=> Placed(tr.out, split)'
  BY DEF Placed, Before, MayFollow, BodyOpen, Bar
<1>3. Complete(app'.inBar, late' \/ ssr'.failed, tr'.out)
        <=> Complete(app.inBar, late \/ ssr.failed, tr.out)'
  BY DEF Complete
<1>4. HeldBack(tr') <=> HeldBack(tr)' BY DEF HeldBack
<1>5. BodyOpen(SentTo(tr'), split') <=> BodyOpen(SentTo(tr), split)' BY DEF BodyOpen, SentTo
<1>6. Attached(tr') <=> Attached(tr)' BY DEF Attached
<1>7. Lifted(ssr', tr') <=> Lifted(ssr, tr)' BY DEF Lifted, Bar
<1>8. Lateness(app', ssr', tr', late') <=> Lateness(app, ssr, tr, late)' BY DEF Lateness, Bar
<1>9. /\ HtmlInPlace(tr') <=> HtmlInPlace(tr)'
      /\ ScriptsInPlace(app'.inBar, ssr', tr') <=> ScriptsInPlace(app.inBar, ssr, tr)'
      /\ Flushed(ssr') <=> Flushed(ssr)'
  OBVIOUS
<1>10. Working(app', ssr', tr', late', split') <=> Working(app, ssr, tr, late, split)'
  BY <1>4, <1>5, <1>6, <1>7, <1>8, <1>9 DEF Working, Bar
<1> QED BY <1>1, <1>2, <1>3, <1>10 DEF Good

\* The page is sent up to k, and the scripts after b, up to g.
Sent(out, k, b, g, sp) ==
  /\ out \in Seq(Item) /\ Placed(out, sp)
  /\ Lists(out, 0, k) /\ Lists(Negative(out), b, g)

\* What is sent adds HTML that goes on where the page was, and scripts that go
\* on where the scripts were.
LEMMA Sending ==
  ASSUME page \in Pages, NEW out, NEW html \in Html, NEW scripts \in Injected,
         NEW k \in Nat, NEW b \in Nat, NEW g \in Nat, b <= g, NEW sp, NEW tp, sp => tp,
         Sent(out, k, b, g, sp), Follow(html, k), Follow(Negative(scripts), g),
         scripts # <<>> => MayFollow(k + Len(html), tp),
         NEW w, w = (out \o html) \o scripts
  PROVE  /\ Sent(w, k + Len(html), b, g + Len(scripts), tp)
         /\ scripts = <<>> => /\ w = out \o html
                              /\ (\A i \in DOMAIN out : out[i] > 0) => \A i \in DOMAIN w : w[i] > 0
<1>0. /\ out \in Seq(Item) /\ Placed(out, sp)
      /\ Lists(out, 0, k) /\ Lists(Negative(out), b, g)
  BY DEF Sent
<1>1. /\ html \in Seq(Item) /\ html \in Seq(Int) /\ scripts \in Seq(Item) /\ scripts \in Seq(Int)
      /\ out \in Seq(Int) /\ Item \subseteq Int
  BY <1>0, ItemSeqs
<1>2. /\ out \o html \in Seq(Item) /\ w \in Seq(Item)
      /\ Lists(w, 0, k + Len(html)) /\ Placed(w, tp)
  BY <1>0, SendPlaced
<1>3. out \o html \in Seq(Int) BY <1>2, ItemSeqs
<1>4. PICK no \in Seq(Int) : no = Negative(out) BY <1>1, NegativeSeq
<1>5. PICK nh \in Seq(Int) : nh = Negative(html) BY <1>1, NegativeSeq
<1>6. PICK ns \in Seq(Int) : ns = Negative(scripts) BY <1>1, NegativeSeq
<1>7. Negative(w) = (no \o nh) \o ns BY <1>1, <1>3, <1>4, <1>5, <1>6, NegativeConcat
<1>8. Lists(nh, g, g)
  <2>1. Len(nh) = Len(html) /\ \A i \in 1..Len(html) : nh[i] = -html[i] BY <1>1, <1>5, NegativeSeq
  <2>2. \A i \in 1..Len(html) : html[i] \in 1..Len(page) BY ElementOfSeq DEF Html
  <2>3. DOMAIN nh = 1..Len(html) BY <1>5, <2>1
  <2>4. \A i \in DOMAIN nh : nh[i] <= 0 BY <2>1, <2>2, <2>3, PageOK
  <2> QED BY <2>4, OthersLists
<1>9. Len(ns) = Len(scripts) /\ Len(scripts) \in Nat BY <1>1, <1>6, NegativeSeq, LenProperties
<1>10. Lists(ns, g, g + Len(scripts)) BY <1>6, <1>9, FollowLists
<1>11. no \o nh \in Seq(Int) /\ Lists(no \o nh, b, g) BY <1>0, <1>4, <1>8, ListsConcat
<1>12. g + Len(scripts) \in Nat /\ g <= g + Len(scripts) BY <1>9
<1>13. Lists(Negative(w), b, g + Len(scripts))
  <2> DEFINE e == g + Len(scripts)
             u == no \o nh
  <2>1. e \in Nat /\ g <= e /\ u \in Seq(Int) /\ Lists(u, b, g) /\ Lists(ns, g, e)
    BY <1>10, <1>11, <1>12
  <2> HIDE DEF e, u
  <2>2. Lists(u \o ns, b, e) BY <2>1, ListsConcat
  <2> QED BY <1>7, <2>2 DEF e, u
<1>14. ASSUME scripts = <<>>
       PROVE  /\ w = out \o html
              /\ (\A i \in DOMAIN out : out[i] > 0) => \A i \in DOMAIN w : w[i] > 0
  <2>1. w = out \o html BY <1>0, <1>2, <1>14, ConcatEmptySeq
  <2>2. /\ Len(w) = Len(out) + Len(html) /\ Len(out) \in Nat /\ Len(html) \in Nat
        /\ \A i \in 1..Len(out) : w[i] = out[i]
        /\ \A i \in 1..Len(html) : w[Len(out) + i] = html[i]
    BY <1>0, <1>1, <2>1, ItemConcat
  <2>3. ASSUME \A i \in DOMAIN out : out[i] > 0, NEW i \in DOMAIN w PROVE w[i] > 0
    <3>1. i \in 1..Len(w) /\ DOMAIN out = 1..Len(out) BY <1>1, <1>2
    <3>2. CASE i <= Len(out) BY <2>2, <2>3, <3>1, <3>2
    <3>3. CASE i > Len(out)
      <4>1. i - Len(out) \in 1..Len(html) BY <2>2, <3>1, <3>3
      <4>2. w[i] = html[i - Len(out)] BY <2>2, <3>1, <4>1
      <4>3. html[i - Len(out)] \in 1..Len(page) BY <4>1, ElementOfSeq DEF Html
      <4> QED BY <4>2, <4>3, PageOK
    <3> QED BY <2>2, <3>1, <3>2, <3>3
  <2> QED BY <2>1, <2>3
<1> QED BY <1>2, <1>13, <1>14 DEF Sent

LEMMA NothingFollows ==
  ASSUME NEW k \in Nat
  PROVE  /\ <<>> \in Html /\ <<>> \in Injected /\ <<>> \in Seq(Item) /\ Len(<<>>) = 0
         /\ Follow(<<>>, k) /\ Follow(Negative(<<>>), k)
<1>1. Negative(<<>>) = <<>> BY DEF Negative
<1> QED BY <1>1 DEF Html, Injected, Follow

\* HTML alone.
LEMMA SendingHtml ==
  ASSUME page \in Pages, NEW out, NEW html \in Html,
         NEW k \in Nat, NEW b \in Nat, NEW g \in Nat, b <= g, NEW sp, NEW tp, sp => tp,
         Sent(out, k, b, g, sp), Follow(html, k), NEW w, w = out \o html
  PROVE  /\ Sent(w, k + Len(html), b, g, tp)
         /\ (\A i \in DOMAIN out : out[i] > 0) => \A i \in DOMAIN w : w[i] > 0
<1>1. w \in Seq(Item) BY ItemSeqs, TypedConcat DEF Sent
<1>2. w = (out \o html) \o <<>> BY <1>1, ConcatEmptySeq
<1>3. PICK none \in Injected : none = <<>> BY NothingFollows
<1>4. Follow(Negative(none), g) /\ g + Len(none) = g BY <1>3, NothingFollows
<1>5. none # <<>> => MayFollow(k + Len(html), tp) BY <1>3
<1>6. w = (out \o html) \o none BY <1>2, <1>3
<1> DEFINE u == (out \o html) \o none
<1>7. /\ Sent(u, k + Len(html), b, g + Len(none), tp)
      /\ none = <<>> => /\ u = out \o html
                        /\ (\A i \in DOMAIN out : out[i] > 0) => \A i \in DOMAIN u : u[i] > 0
  <2>1. Follow(Negative(none), g) BY <1>4
  <2>2. Sent(u, k + Len(html), b, g + Len(none), tp) BY <1>5, <2>1, Sending, Zenon
  <2>3. none = <<>> => /\ u = out \o html
                       /\ (\A i \in DOMAIN out : out[i] > 0) => \A i \in DOMAIN u : u[i] > 0
    BY <1>5, <2>1, Sending, Zenon
  <2> QED BY <2>2, <2>3
<1> HIDE DEF u
<1>8. u = w BY <1>6 DEF u
<1> QED BY <1>3, <1>4, <1>7, <1>8

\* The stream is over.
LEMMA OverGood ==
  ASSUME page \in Pages, NEW a, NEW v, NEW t, NEW lt, NEW sp,
         Typed(a, v, t), v.finished /\ ~v.failed => v.produced = Scripts,
         Placed(t.out, sp), t.mode # "none",
         NEW how \in {"closed", "errored", "cancelled"},
         how = "closed" => Complete(a.inBar, lt \/ v.failed, t.out),
         NEW o, o = Over([ssr |-> v, tr |-> t], how)
  PROVE  Good(a, o.ssr, o.tr, lt, sp)
<1>1. /\ o.ssr = [v EXCEPT !.live = FALSE, !.queue = <<>>, !.buffered = <<>>]
      /\ o.tr = [t EXCEPT !.stream = how, !.timer = FALSE,
                          !.pending = <<>>, !.leftover = <<>>, !.closing = <<>>]
  BY DEF Over
<1>2. <<>> \in Html /\ <<>> \in Injected /\ Len(<<>>) = 0 BY NothingFollows
<1>3. o.ssr \in SsrType /\ o.tr \in TrType BY <1>1, <1>2, ZenonT(60) DEF Typed, SsrType, TrType
<1>4. /\ o.tr.read = t.read /\ Len(o.tr.leftover) = 0 /\ o.tr.stream = how /\ o.tr.out = t.out
      /\ o.tr.mode = t.mode
      /\ ~o.ssr.live /\ o.ssr.finished = v.finished /\ o.ssr.failed = v.failed
      /\ o.ssr.produced = v.produced
  BY <1>1, <1>2 DEF Typed, SsrType, TrType
<1>5. Typed(a, o.ssr, o.tr) BY <1>3, <1>4, StreamAssumption DEF Typed
<1> QED BY <1>4, <1>5 DEF Good

LEMMA FollowAppend ==
  ASSUME NEW s \in Seq(Int), NEW k \in Nat, Follow(Negative(s), k),
         NEW x \in Int, x = -(k + Len(s) + 1)
  PROVE  Follow(Negative(Append(s, x)), k)
<1>1. /\ Append(s, x) \in Seq(Int) /\ Len(Append(s, x)) = Len(s) + 1 /\ Len(s) \in Nat
      /\ \A i \in 1..Len(s) : Append(s, x)[i] = s[i]
      /\ Append(s, x)[Len(s) + 1] = x
  BY AppendProperties, LenProperties
<1>2. /\ \A i \in 1..Len(s) : Negative(s)[i] = -s[i]
      /\ DOMAIN Negative(s) = 1..Len(s)
      /\ \A i \in 1..(Len(s) + 1) : Negative(Append(s, x))[i] = -(Append(s, x)[i])
      /\ DOMAIN Negative(Append(s, x)) = 1..(Len(s) + 1)
  BY <1>1, NegativeSeq, LenProperties
<1>3. ASSUME NEW i \in 1..(Len(s) + 1) PROVE Negative(Append(s, x))[i] = k + i
  <2>1. CASE i \in 1..Len(s) BY <1>1, <1>2, <2>1 DEF Follow
  <2>2. CASE i = Len(s) + 1 BY <1>1, <1>2, <2>2
  <2> QED BY <1>1, <2>1, <2>2
<1> QED BY <1>2, <1>3 DEF Follow

-----------------------------------------------------------------------------
(* The handlers. *)

\* Of a pair of values that have their types.
LEMMA Fields ==
  ASSUME page \in Pages, NEW a, NEW v, NEW t, Typed(a, v, t)
  PROVE  /\ a \in AppType /\ v \in SsrType /\ t \in TrType
         /\ a.rendered \in 0..Len(page) /\ a.inBar \in Injected /\ a.inBar \in Seq(Int)
         /\ v.queue \in Injected /\ v.queue \in Seq(Int) /\ Len(v.queue) \in Nat
         /\ v.produced \in 1..Scripts /\ v.produced \in Int /\ v.buffered = <<>>
         /\ v.live \in BOOLEAN /\ v.lifted \in BOOLEAN
         /\ v.microtask \in {"none", "lift", "enqueue"}
         /\ t.read \in 0..Len(page) /\ t.read \in Nat
         /\ t.out \in Seq(Item) /\ t.out \in Seq(Int)
         /\ t.pending \in Injected /\ t.pending \in Seq(Int) /\ Len(t.pending) \in Nat
         /\ t.leftover \in Html /\ t.leftover \in Seq(Int) /\ Len(t.leftover) \in Nat
         /\ t.closing \in Html /\ t.closing \in Seq(Int) /\ Len(t.closing) \in Nat
         /\ SentTo(t) \in Int /\ Given(v, t) \in Int /\ Len(a.inBar) \in Nat
<1>1. /\ a \in AppType /\ v \in SsrType /\ t \in TrType BY DEF Typed
<1>2. /\ a.rendered \in 0..Len(page) /\ a.inBar \in Injected
      /\ v.queue \in Injected /\ v.produced \in 1..Scripts /\ v.buffered = <<>>
      /\ v.live \in BOOLEAN /\ v.lifted \in BOOLEAN
      /\ v.microtask \in {"none", "lift", "enqueue"}
      /\ t.read \in 0..Len(page) /\ t.out \in Seq(Item) /\ t.pending \in Injected
      /\ t.leftover \in Html /\ t.closing \in Html
  BY <1>1 DEF AppType, SsrType, TrType
<1>3. /\ a.inBar \in Seq(Int) /\ v.queue \in Seq(Int) /\ t.out \in Seq(Int)
      /\ t.pending \in Seq(Int) /\ t.leftover \in Seq(Int) /\ t.closing \in Seq(Int)
  BY <1>2, ItemSeqs
<1>4. /\ Len(v.queue) \in Nat /\ Len(t.pending) \in Nat /\ Len(t.leftover) \in Nat
      /\ Len(t.closing) \in Nat /\ Len(a.inBar) \in Nat
  BY <1>3, LenProperties
<1>5. v.produced \in Int /\ t.read \in Nat BY <1>2, PageOK, StreamAssumption
<1>6. SentTo(t) \in Int
  <2>1. t.read \in Int /\ Len(t.leftover) \in Int /\ Len(t.closing) \in Int BY <1>4, <1>5
  <2> QED BY <2>1 DEF SentTo
<1>7. Given(v, t) \in Int
  <2>1. v.produced \in Int /\ Len(v.queue) \in Int /\ Len(t.pending) \in Int BY <1>4, <1>5
  <2> QED BY <2>1 DEF Given
<1> QED BY <1>1, <1>2, <1>3, <1>4, <1>5, <1>6, <1>7

LEMMA EnqueueGood ==
  ASSUME page \in Pages, NEW a, NEW v, NEW t, NEW lt, NEW sp, Good(a, v, t, lt, sp),
         v.produced < Scripts, NEW e, e = Enqueue(v)
  PROVE  /\ Good(a, e, t, lt, sp) /\ e.produced = v.produced + 1
         /\ e.live = v.live /\ e.lifted = v.lifted /\ e.failed = v.failed
<1>1. Typed(a, v, t) BY DEF Good
<1> DEFINE x == -(v.produced + 1)
<1>2. /\ x \in -Scripts..-1 /\ x \in Int /\ v.produced + 1 \in 1..Scripts
      /\ Append(v.queue, x) \in Injected /\ Len(Append(v.queue, x)) = Len(v.queue) + 1
  <2>1. x \in -Scripts..-1 /\ x \in Int /\ v.produced + 1 \in 1..Scripts
    BY <1>1, Fields, StreamAssumption
  <2> QED BY <1>1, <2>1, Fields, AppendProperties DEF Injected
<1> HIDE DEF x
<1>3. /\ e \in SsrType /\ e.produced = v.produced + 1
      /\ e.live = v.live /\ e.lifted = v.lifted /\ e.failed = v.failed /\ e.finished = v.finished
      /\ v.live => /\ e.queue = Append(v.queue, x)
                   /\ e.microtask # v.microtask => e.microtask = "enqueue" /\ v.lifted
  BY <1>1, <1>2, Fields DEF Enqueue, SsrType, x
<1>4. Typed(a, e, t) BY <1>1, <1>3 DEF Typed
<1>5. ~(v.finished /\ ~v.failed) BY <1>1, Fields, StreamAssumption DEF Good
<1>6. ASSUME t.stream = "open" PROVE Working(a, e, t, lt, sp)
  <2>1. Working(a, v, t, lt, sp) BY <1>6 DEF Good
  <2>2. v.live /\ e.queue = Append(v.queue, x) BY <1>3, <2>1 DEF Working
  <2>0. /\ v.produced \in Int /\ Len(v.queue) \in Nat /\ Len(t.pending) \in Nat
        /\ v.queue \in Seq(Int)
    BY <1>1, Fields
  <2>3. Given(e, t) = Given(v, t)
    <3>1. /\ v.produced \in Int /\ Len(v.queue) \in Int /\ Len(t.pending) \in Int
          /\ e.produced = v.produced + 1 /\ Len(e.queue) = Len(v.queue) + 1
      BY <1>2, <1>3, <2>0, <2>2
    <3>2. \A i, j, k \in Int : (i + 1) - (j + 1) - k = i - j - k OBVIOUS
    <3>3. (v.produced + 1) - (Len(v.queue) + 1) - Len(t.pending)
          = v.produced - Len(v.queue) - Len(t.pending)
      BY <3>1, <3>2
    <3> QED BY <3>1, <3>3 DEF Given
  <2>4. Given(v, t) \in Nat
    BY <1>1, <2>1, Fields DEF Working, ScriptsInPlace
  <2>5. Follow(Negative(e.queue), Given(v, t) + Len(t.pending))
    <3> DEFINE k == Given(v, t) + Len(t.pending)
    <3>0. /\ v.produced \in Int /\ Len(v.queue) \in Int /\ Len(t.pending) \in Int
          /\ k \in Nat /\ Given(v, t) = v.produced - Len(v.queue) - Len(t.pending)
      BY <2>0, <2>4 DEF Given
    <3>1. k \in Nat /\ x = -(k + Len(v.queue) + 1) BY <3>0, SMTT(40) DEF x
    <3>2. Follow(Negative(v.queue), k) BY <2>1 DEF Working, ScriptsInPlace
    <3> HIDE DEF k
    <3>3. Follow(Negative(Append(v.queue, x)), k) BY <1>2, <2>0, <3>1, <3>2, FollowAppend
    <3> QED BY <2>2, <3>3 DEF k
  <2>6. ScriptsInPlace(a.inBar, e, t) BY <2>1, <2>3, <2>5 DEF Working, ScriptsInPlace
  <2>7. Lifted(e, t) BY <1>3, <2>1, <2>2 DEF Working, Lifted
  <2>8. Flushed(e) BY <1>3, <1>5 DEF Flushed
  <2>9. Lateness(a, e, t, lt) BY <1>3, <1>5, <2>1 DEF Working, Lateness
  <2> QED BY <1>3, <2>1, <2>2, <2>6, <2>7, <2>8, <2>9 DEF Working
<1> QED BY <1>3, <1>4, <1>5, <1>6 DEF Good

\* Scripts alone.
LEMMA SendingScripts ==
  ASSUME page \in Pages, NEW out, NEW scripts \in Injected,
         NEW k \in Nat, NEW b \in Nat, NEW g \in Nat, b <= g, NEW sp,
         Sent(out, k, b, g, sp), Follow(Negative(scripts), g),
         scripts # <<>> => MayFollow(k, sp), NEW w, w = out \o scripts
  PROVE  Sent(w, k, b, g + Len(scripts), sp)
<1>1. PICK none \in Html : none = <<>> BY NothingFollows
<1>2. Follow(none, k) /\ k + Len(none) = k BY <1>1, NothingFollows
<1>3. out \in Seq(Item) BY DEF Sent
<1>4. w = (out \o none) \o scripts BY <1>1, <1>3, ConcatEmptySeq
<1>5. PICK tp : tp = sp OBVIOUS
<1>6. Sent((out \o none) \o scripts, k + Len(none), b, g + Len(scripts), tp)
  <2>1. sp => tp BY <1>5
  <2>2. scripts # <<>> => MayFollow(k + Len(none), tp) BY <1>2, <1>5
  <2>3. Follow(none, k) BY <1>2
  <2> QED BY <2>1, <2>2, <2>3, Sending, Zenon
<1> QED BY <1>2, <1>4, <1>5, <1>6

LEMMA Accounts ==
  ASSUME page \in Pages, NEW a, NEW v, NEW t, Typed(a, v, t),
         HtmlInPlace(t), ScriptsInPlace(a.inBar, v, t)
  PROVE  /\ SentTo(t) \in Nat /\ t.read = SentTo(t) + Len(t.leftover) + Len(t.closing)
         /\ Given(v, t) \in Nat /\ v.produced = Given(v, t) + Len(t.pending) + Len(v.queue)
         /\ t.read \in Nat /\ v.produced \in Nat
<1>1. /\ v.produced \in Int /\ Len(v.queue) \in Int /\ Len(t.pending) \in Int
      /\ Len(a.inBar) \in Nat /\ Len(a.inBar) <= Given(v, t) /\ Given(v, t) \in Int
  BY Fields DEF ScriptsInPlace
<1>2. /\ t.read \in Int /\ Len(t.leftover) \in Int /\ Len(t.closing) \in Int
      /\ SentTo(t) \in Int /\ SentTo(t) >= 0
  BY Fields DEF HtmlInPlace
<1>3. SentTo(t) \in Nat /\ t.read = SentTo(t) + Len(t.leftover) + Len(t.closing)
  BY <1>2 DEF SentTo
<1>4. Given(v, t) \in Nat /\ v.produced = Given(v, t) + Len(t.pending) + Len(v.queue)
  BY <1>1 DEF Given
<1>5. t.read \in Nat /\ v.produced \in Nat BY Fields
<1> QED BY <1>3, <1>4, <1>5

\* When the application's HTML is over, a script may be written.
LEMMA AtTheEnd ==
  ASSUME page \in Pages, NEW a, NEW v, NEW t, NEW lt, NEW sp,
         Typed(a, v, t), Working(a, v, t, lt, sp), t.mode = "on",
         t.read = Len(page), t.closing = <<>> \/ t.leftover = <<>>
  PROVE  MayFollow(SentTo(t) + Len(t.leftover), sp)
<1> DEFINE n == SentTo(t) + Len(t.leftover)
<1>1. /\ SentTo(t) \in Nat /\ t.read = SentTo(t) + Len(t.leftover) + Len(t.closing)
      /\ Len(t.leftover) \in Nat /\ Len(t.closing) \in Nat
  BY Accounts, Fields DEF Working
<1>2. Bar \in 1..Len(page) /\ Len(page) \in Nat BY PageOK
<1>3. CASE t.closing = <<>>
  <2>1. n = Len(page) BY <1>1, <1>3
  <2>2. BodyOpen(n, sp)
    <3>1. ASSUME ~sp, NEW p \in 1..n PROVE page[p] # "</body>"
      <4>1. CASE p <= SentTo(t) BY <1>1, <3>1, <4>1 DEF Working, BodyOpen
      <4>2. CASE p > SentTo(t)
        <5>1. p - SentTo(t) \in 1..Len(t.leftover) BY <1>1, <4>2
        <5>2. DOMAIN t.leftover = 1..Len(t.leftover) BY Fields
        <5>3. t.leftover[p - SentTo(t)] = SentTo(t) + (p - SentTo(t))
          BY <5>1, <5>2 DEF Working, HtmlInPlace, Follow
        <5>4. SentTo(t) + (p - SentTo(t)) = p BY <1>1
        <5> QED BY <5>1, <5>2, <5>3, <5>4 DEF Working, HeldBack
      <4> QED BY <1>1, <4>1, <4>2
    <3> QED BY <3>1 DEF BodyOpen
  <2> QED BY <1>2, <2>1, <2>2 DEF MayFollow
<1>4. CASE t.closing # <<>>
  <2>1. t.leftover = <<>> /\ Len(t.leftover) = 0 /\ n = SentTo(t)
    BY <1>1, <1>4
  <2>2. page[n + 1] = "</body>" /\ n + 1 \in 1..Len(page)
    <3>1. 1 \in DOMAIN t.closing /\ Len(t.closing) >= 1 BY <1>4, Fields
    <3>2. t.closing[1] = SentTo(t) + 1 BY <3>1 DEF Working, HtmlInPlace, Follow
    <3>3. page[t.closing[1]] = "</body>" BY <1>4 DEF Working, HeldBack
    <3> QED BY <1>1, <2>1, <3>1, <3>2, <3>3
  <2>3. Bar <= n BY <1>1, <1>2, <2>1, <2>2, PageOK
  <2>4. BodyOpen(n, sp) BY <2>1 DEF Working
  <2> QED BY <2>2, <2>3, <2>4 DEF MayFollow
<1> QED BY <1>3, <1>4

LEMMA InjectGood ==
  ASSUME page \in Pages, NEW a, NEW v, NEW t, NEW lt, NEW sp, Good(a, v, t, lt, sp),
         v.lifted \/ v.microtask # "none", NEW i, i = Inject([ssr |-> v, tr |-> t])
  PROVE  /\ Good(a, i.ssr, i.tr, lt, sp)
         /\ v.live => i.ssr.queue = <<>>
         /\ i.ssr.produced = v.produced /\ i.ssr.lifted = v.lifted
         /\ i.ssr.finished = v.finished /\ i.ssr.failed = v.failed
         /\ i.ssr.live = v.live
<1>0. Typed(a, v, t) BY DEF Good
<1>1. <<>> \in Html /\ <<>> \in Injected /\ Len(<<>>) = 0 BY NothingFollows
<1>2. CASE ~v.live \/ v.queue = <<>>
  <2>1. i.ssr = [v EXCEPT !.microtask = "none"] /\ i.tr = t BY <1>2 DEF Inject
  <2>2. /\ i.ssr \in SsrType /\ i.ssr.produced = v.produced /\ i.ssr.queue = v.queue
        /\ i.ssr.lifted = v.lifted /\ i.ssr.finished = v.finished /\ i.ssr.failed = v.failed
        /\ i.ssr.live = v.live /\ i.ssr.microtask = "none"
    BY <1>0, <2>1, Fields DEF SsrType
  <2>3. Typed(a, i.ssr, i.tr) BY <1>0, <2>1, <2>2 DEF Typed
  <2>4. ASSUME t.stream = "open" PROVE Working(a, i.ssr, t, lt, sp)
    <3>1. Working(a, v, t, lt, sp) /\ v.queue = <<>> BY <1>2, <2>4 DEF Good, Working
    <3>2. ScriptsInPlace(a.inBar, i.ssr, t)
      BY <2>2, <3>1 DEF Working, ScriptsInPlace, Given
    <3>3. Lifted(i.ssr, t) /\ Flushed(i.ssr) /\ Lateness(a, i.ssr, t, lt)
      BY <2>2, <3>1 DEF Working, Lifted, Flushed, Lateness
    <3> QED BY <2>2, <3>1, <3>2, <3>3 DEF Working
  <2> QED BY <1>2, <2>1, <2>2, <2>3, <2>4 DEF Good
<1>3. CASE v.live /\ v.queue # <<>>
  <2>1. t.stream = "open" /\ Working(a, v, t, lt, sp) BY <1>3 DEF Good
  <2>2. t.mode = "on" /\ t.listening /\ v.lifted BY <2>1 DEF Working, Lifted, Attached
  <2>3. v.buffered \o v.queue = v.queue BY <1>0, Fields, ConcatEmptySeq
  <2>4. /\ i.ssr = [v EXCEPT !.microtask = "none", !.queue = <<>>, !.buffered = <<>>]
        /\ i.tr = Listen(t, v.queue)
    BY <1>3, <2>2, <2>3 DEF Inject
  <2>5. /\ i.ssr \in SsrType /\ i.ssr.produced = v.produced /\ i.ssr.queue = <<>>
        /\ i.ssr.lifted = v.lifted /\ i.ssr.finished = v.finished /\ i.ssr.failed = v.failed
        /\ i.ssr.live = v.live /\ i.ssr.microtask = "none"
    BY <1>0, <1>1, <2>4 DEF Typed, SsrType
  <2>6. /\ v.produced \in Nat /\ SentTo(t) \in Nat /\ t.read = SentTo(t) + Len(t.leftover) + Len(t.closing)
        /\ Given(v, t) \in Nat /\ v.produced = Given(v, t) + Len(t.pending) + Len(v.queue)
        /\ Len(t.leftover) \in Nat /\ Len(t.closing) \in Nat
        /\ Len(t.pending) \in Nat /\ Len(v.queue) \in Nat
    BY <1>0, <2>1, Accounts, Fields DEF Working
  <2>7. CASE t.rendering \/ t.leftover # <<>> \/ t.closing # <<>>
    <3> DEFINE p == t.pending \o v.queue
    <3>1. i.tr = [t EXCEPT !.pending = p] BY <2>4, <2>7 DEF Listen
    <3>2. /\ p \in Injected /\ Len(p) = Len(t.pending) + Len(v.queue)
          /\ Negative(p) = Negative(t.pending) \o Negative(v.queue)
      BY <1>0, Fields, ConcatProperties, NegativeConcat DEF Injected
    <3>3. Follow(Negative(p), Given(v, t))
      <4>1. PICK x \in Seq(Int) : x = Negative(t.pending) BY <1>0, Fields, NegativeSeq
      <4>2. PICK y \in Seq(Int) : y = Negative(v.queue) BY <1>0, Fields, NegativeSeq
      <4>3. Len(x) = Len(t.pending) BY <1>0, <4>1, Fields, NegativeSeq
      <4>4. Follow(x, Given(v, t)) /\ Follow(y, Given(v, t) + Len(x))
        BY <2>1, <4>1, <4>2, <4>3 DEF Working, ScriptsInPlace
      <4>5. Follow(x \o y, Given(v, t)) BY <2>6, <4>4, FollowConcat
      <4> QED BY <3>2, <4>1, <4>2, <4>5
    <3> HIDE DEF p
    <3>4. /\ i.tr \in TrType /\ i.tr.pending = p
          /\ i.tr.read = t.read /\ i.tr.leftover = t.leftover /\ i.tr.closing = t.closing
          /\ i.tr.out = t.out /\ i.tr.stream = t.stream /\ i.tr.mode = t.mode
          /\ i.tr.finished = t.finished /\ i.tr.rendering = t.rendering
          /\ i.tr.barrier = t.barrier /\ i.tr.listening = t.listening /\ i.tr.timer = t.timer
      BY <1>0, <3>1, <3>2 DEF Typed, TrType
    <3>5. Typed(a, i.ssr, i.tr) BY <1>0, <2>5, <3>4 DEF Typed
    <3>6. SentTo(i.tr) = SentTo(t) BY <3>4 DEF SentTo
    <3>7. Given(i.ssr, i.tr) = Given(v, t)
      <4>1. Given(i.ssr, i.tr) = v.produced - 0 - (Len(t.pending) + Len(v.queue))
        BY <1>1, <2>5, <3>2, <3>4 DEF Given
      <4>2. \A x, y, z \in Int : (x + y + z) - 0 - (y + z) = x OBVIOUS
      <4>3. Given(v, t) \in Int /\ Len(t.pending) \in Int /\ Len(v.queue) \in Int BY <2>6
      <4>4. Given(i.ssr, i.tr) = (Given(v, t) + Len(t.pending) + Len(v.queue)) - 0
                                 - (Len(t.pending) + Len(v.queue))
        BY <2>6, <4>1, Zenon
      <4> QED BY <4>2, <4>3, <4>4, Zenon
    <3>8. HtmlInPlace(i.tr) /\ HeldBack(i.tr) /\ (i.tr.mode = "on" => BodyOpen(SentTo(i.tr), sp))
      BY <2>1, <3>4, <3>6 DEF Working, HtmlInPlace, HeldBack
    <3>9. ScriptsInPlace(a.inBar, i.ssr, i.tr)
      <4>1. \A k \in Nat : Follow(Negative(<<>>), k) BY NothingFollows
      <4>2. Given(v, t) + Len(p) \in Nat
        <5>1. Given(v, t) \in Nat BY <2>6
        <5>2. Len(p) \in Nat BY <3>2, LenProperties DEF Injected
        <5> QED BY <5>1, <5>2
      <4> QED BY <2>1, <2>5, <3>3, <3>4, <3>7, <4>1, <4>2 DEF Working, ScriptsInPlace
    <3>10. Attached(i.tr) BY <2>1, <2>2, <3>4 DEF Working, Attached
    <3>11. Lifted(i.ssr, i.tr) BY <2>1, <2>2, <2>5, <3>4 DEF Working, Lifted
    <3>12. Flushed(i.ssr) /\ Lateness(a, i.ssr, i.tr, lt)
      BY <2>2, <2>5, <3>4 DEF Flushed, Lateness
    <3>13. Working(a, i.ssr, i.tr, lt, sp)
      BY <2>1, <2>5, <3>4, <3>8, <3>9, <3>10, <3>11, <3>12 DEF Working
    <3> QED BY <2>1, <2>2, <2>5, <3>4, <3>5, <3>13 DEF Good
  <2>8. CASE ~(t.rendering \/ t.leftover # <<>> \/ t.closing # <<>>)
    <3> DEFINE o == t.out \o t.pending \o v.queue
               n == SentTo(t)
               g == Given(v, t)
               b == Len(a.inBar)
    <3>1. i.tr = [t EXCEPT !.out = o, !.pending = <<>>] BY <2>4, <2>8 DEF Listen
    <3>2. MayFollow(n, sp)
      <4>1. t.read = Len(page) BY <2>1, <2>8 DEF Working, Attached
      <4>2. MayFollow(n + Len(t.leftover), sp) BY <1>0, <2>1, <2>2, <2>8, <4>1, AtTheEnd
      <4>3. Len(t.leftover) = 0 BY <1>1, <2>8
      <4> QED BY <2>6, <4>2, <4>3
    <3>3. /\ t.pending \in Injected /\ v.queue \in Injected
          /\ b \in Nat /\ b <= g /\ n \in Nat /\ g \in Nat /\ b <= g + Len(t.pending)
          /\ g + Len(t.pending) \in Nat
          /\ Sent(t.out, n, b, g, sp)
          /\ Follow(Negative(t.pending), g) /\ Follow(Negative(v.queue), g + Len(t.pending))
      <4>1. t.out \in Seq(Item) /\ t.pending \in Injected /\ v.queue \in Injected /\ b \in Nat
        BY <1>0, Fields
      <4>2. /\ b <= g /\ Lists(t.out, 0, n) /\ Lists(Negative(t.out), b, g)
            /\ Follow(Negative(t.pending), g) /\ Follow(Negative(v.queue), g + Len(t.pending))
        BY <2>1 DEF Working, HtmlInPlace, ScriptsInPlace
      <4>3. n \in Nat /\ g \in Nat /\ Len(t.pending) \in Nat BY <2>6
      <4>4. Placed(t.out, sp) BY DEF Good
      <4> HIDE DEF n, g, b
      <4> QED BY <4>1, <4>2, <4>3, <4>4 DEF Sent
    <3> HIDE DEF n, g, b
    <3>4. Sent(t.out \o t.pending, n, b, g + Len(t.pending), sp)
      BY <3>2, <3>3, SendingScripts, Zenon
    <3>5. /\ o \in Seq(Item) /\ Lists(o, 0, n) /\ Placed(o, sp)
          /\ Lists(Negative(o), b, (g + Len(t.pending)) + Len(v.queue))
      <4>1. Sent(o, n, b, (g + Len(t.pending)) + Len(v.queue), sp)
        BY <3>2, <3>3, <3>4, SendingScripts, Zenon
      <4> QED BY <4>1 DEF Sent
    <3> HIDE DEF o
    <3>6. /\ i.tr \in TrType /\ i.tr.pending = <<>> /\ i.tr.out = o
          /\ i.tr.read = t.read /\ i.tr.leftover = t.leftover /\ i.tr.closing = t.closing
          /\ i.tr.stream = t.stream /\ i.tr.mode = t.mode
          /\ i.tr.finished = t.finished /\ i.tr.rendering = t.rendering
          /\ i.tr.barrier = t.barrier /\ i.tr.listening = t.listening /\ i.tr.timer = t.timer
      BY <1>0, <1>1, <3>1, <3>5 DEF Typed, TrType
    <3>7. Typed(a, i.ssr, i.tr) BY <1>0, <2>5, <3>6 DEF Typed
    <3>8. SentTo(i.tr) = n BY <3>6 DEF SentTo, n
    <3>9. Given(i.ssr, i.tr) = (g + Len(t.pending)) + Len(v.queue)
      <4>1. Given(i.ssr, i.tr) = v.produced - 0 - 0 BY <1>1, <2>5, <3>6 DEF Given
      <4> QED BY <2>6, <4>1 DEF g
    <3>10. HtmlInPlace(i.tr) /\ HeldBack(i.tr) /\ (i.tr.mode = "on" => BodyOpen(SentTo(i.tr), sp))
      <4>1. n = SentTo(t) BY DEF n
      <4>2. n >= 0 BY <3>3
      <4> QED BY <2>1, <3>5, <3>6, <3>8, <4>1, <4>2 DEF Working, HtmlInPlace, HeldBack
    <3>11. ScriptsInPlace(a.inBar, i.ssr, i.tr)
      <4>1. Follow(Negative(a.inBar), 0) BY <2>1 DEF Working, ScriptsInPlace
      <4>2. \A k \in Nat : Follow(Negative(<<>>), k) BY NothingFollows
      <4>3. (g + Len(t.pending)) + Len(v.queue) \in Nat
            /\ ((g + Len(t.pending)) + Len(v.queue)) + 0 \in Nat
            /\ b <= (g + Len(t.pending)) + Len(v.queue)
        <5>1. g \in Nat /\ b \in Nat /\ b <= g BY <3>3
        <5>2. Len(t.pending) \in Nat /\ Len(v.queue) \in Nat BY <2>6
        <5>3. \A x, y, z, m \in Nat : m <= x => /\ (x + y) + z \in Nat
                                            /\ ((x + y) + z) + 0 \in Nat
                                            /\ m <= (x + y) + z
          OBVIOUS
        <5> QED BY <5>1, <5>2, <5>3, Zenon
      <4> QED BY <1>1, <2>5, <3>5, <3>6, <3>9, <4>1, <4>2, <4>3 DEF ScriptsInPlace, b
    <3>12. Attached(i.tr) BY <2>1, <2>2, <3>6 DEF Working, Attached
    <3>13. Lifted(i.ssr, i.tr) BY <2>1, <2>2, <2>5, <3>6 DEF Working, Lifted
    <3>14. Flushed(i.ssr) /\ Lateness(a, i.ssr, i.tr, lt)
      BY <2>2, <2>5, <3>6 DEF Flushed, Lateness
    <3>15. Working(a, i.ssr, i.tr, lt, sp)
      BY <2>1, <2>5, <3>6, <3>10, <3>11, <3>12, <3>13, <3>14 DEF Working
    <3> QED BY <2>1, <2>2, <2>5, <3>5, <3>6, <3>7, <3>15 DEF Good
  <2> QED BY <2>7, <2>8
<1> QED BY <1>2, <1>3

LEMMA Pair ==
  ASSUME NEW S, NEW T, NEW w \in [ssr : S, tr : T]
  PROVE  w = [ssr |-> w.ssr, tr |-> w.tr]
OBVIOUS

\* The scripts of the barrier element come first.
LEMMA BarFirst ==
  ASSUME page \in Pages, NEW inBar \in Injected, NEW out \in Seq(Item), NEW g \in Nat,
         Len(inBar) <= g, Follow(Negative(inBar), 0), Lists(Negative(out), Len(inBar), g)
  PROVE  Lists(Negative(inBar \o out), 0, g)
<1>1. inBar \in Seq(Int) /\ out \in Seq(Int) /\ Len(inBar) \in Nat
  BY ItemSeqs, LenProperties
<1>2. PICK x \in Seq(Int) : x = Negative(inBar) /\ Len(x) = Len(inBar) BY <1>1, NegativeSeq
<1>3. PICK y \in Seq(Int) : y = Negative(out) BY <1>1, NegativeSeq
<1>4. 0 + Len(x) = Len(inBar) BY <1>1, <1>2
<1>5. Lists(x, 0, Len(inBar))
  <2>1. Lists(x, 0, 0 + Len(x)) BY <1>2, FollowLists
  <2> QED BY <1>4, <2>1
<1>6. 0 <= Len(inBar) BY <1>1
<1>7. Lists(x \o y, 0, g)
  <2> DEFINE k == Len(inBar)
  <2>1. k \in Nat /\ 0 \in Nat /\ 0 <= k /\ k <= g /\ Lists(x, 0, k) /\ Lists(y, k, g)
    BY <1>1, <1>3, <1>5, <1>6
  <2> HIDE DEF k
  <2> QED BY <2>1, ListsConcat
<1> QED BY <1>1, <1>2, <1>3, <1>7, NegativeConcat

\* What was sent, while the stream is open.
LEMMA SentSoFar ==
  ASSUME page \in Pages, NEW a, NEW v, NEW t, NEW lt, NEW sp, Good(a, v, t, lt, sp),
         t.stream = "open"
  PROVE  /\ Typed(a, v, t) /\ Working(a, v, t, lt, sp)
         /\ Len(a.inBar) \in Nat /\ Len(a.inBar) <= Given(v, t)
         /\ SentTo(t) \in Nat /\ t.read = SentTo(t) + Len(t.leftover) + Len(t.closing)
         /\ Given(v, t) \in Nat /\ v.produced = Given(v, t) + Len(t.pending) + Len(v.queue)
         /\ Sent(t.out, SentTo(t), Len(a.inBar), Given(v, t), sp)
         /\ Follow(t.leftover, SentTo(t)) /\ Follow(t.closing, SentTo(t))
         /\ Follow(Negative(t.pending), Given(v, t))
<1>1. Typed(a, v, t) /\ Working(a, v, t, lt, sp) /\ Placed(t.out, sp) BY DEF Good
<1>2. HtmlInPlace(t) /\ ScriptsInPlace(a.inBar, v, t) BY <1>1 DEF Working
<1>3. /\ SentTo(t) \in Nat /\ t.read = SentTo(t) + Len(t.leftover) + Len(t.closing)
      /\ Given(v, t) \in Nat /\ v.produced = Given(v, t) + Len(t.pending) + Len(v.queue)
  BY <1>1, <1>2, Accounts
<1>4. Len(a.inBar) \in Nat /\ t.out \in Seq(Item) BY <1>1, Fields
<1> QED BY <1>1, <1>2, <1>3, <1>4 DEF Sent, HtmlInPlace, ScriptsInPlace

LEMMA TryFinishGood ==
  ASSUME page \in Pages, NEW a, NEW v, NEW t, NEW lt, NEW sp, Good(a, v, t, lt, sp),
         t.mode = "on",
         t.finished /\ ~t.rendering => v.failed \/ v.queue = <<>>,
         NEW o, o = TryFinish([ssr |-> v, tr |-> t])
  PROVE  Good(a, o.ssr, o.tr, lt, sp)
<1>1. CASE t.rendering \/ ~t.finished \/ t.stream # "open"
  <2>1. o = [ssr |-> v, tr |-> t] BY <1>1 DEF TryFinish
  <2> QED BY <2>1
<1>2. CASE ~(t.rendering \/ ~t.finished \/ t.stream # "open")
  <2> DEFINE out1 == (t.out \o t.leftover) \o t.pending
             out2 == out1 \o t.closing
             t2 == [t EXCEPT !.out = out2]
             n == SentTo(t) + Len(t.leftover)
             b == Len(a.inBar)
             g == Given(v, t)
  <2>1. o = Over([ssr |-> v, tr |-> t2], "closed")
    <3>1. [[ssr |-> v, tr |-> t] EXCEPT !.tr.out = @ \o t.leftover \o t.pending \o t.closing]
            = [ssr |-> v, tr |-> t2]
      <4>1. [[ssr |-> v, tr |-> t] EXCEPT !.tr.out = @ \o t.leftover \o t.pending \o t.closing]
              \in [ssr : {v}, tr : {t2}]
        OBVIOUS
      <4> QED BY <4>1, Pair
    <3> HIDE DEF t2
    <3> QED BY <1>2, <3>1 DEF TryFinish
  <2>2. /\ Typed(a, v, t) /\ Working(a, v, t, lt, sp)
        /\ b \in Nat /\ b <= g /\ SentTo(t) \in Nat /\ g \in Nat
        /\ t.read = SentTo(t) + Len(t.leftover) + Len(t.closing)
        /\ v.produced = g + Len(t.pending) + Len(v.queue)
        /\ Sent(t.out, SentTo(t), b, g, sp)
        /\ Follow(t.leftover, SentTo(t)) /\ Follow(t.closing, SentTo(t))
        /\ Follow(Negative(t.pending), g)
    BY <1>2, SentSoFar
  <2>3. /\ t.leftover \in Html /\ t.closing \in Html /\ t.pending \in Injected
        /\ Len(t.leftover) \in Nat /\ Len(t.closing) \in Nat /\ Len(t.pending) \in Nat
        /\ Len(v.queue) \in Nat /\ a.inBar \in Injected
    BY <2>2, Fields
  <2>4. t.read = Len(page) BY <1>2, <2>2 DEF Working, Attached
  <2>5. t.leftover = <<>> \/ t.closing = <<>> BY <2>2 DEF Working, HtmlInPlace
  <2>6. MayFollow(n, sp) BY <2>2, <2>4, <2>5, AtTheEnd
  <2>7. n \in Nat /\ g + Len(t.pending) \in Nat /\ b <= g + Len(t.pending)
    <3>1. \A x, y, m \in Nat : x + y \in Nat /\ (m <= x => m <= x + y) OBVIOUS
    <3> QED BY <2>2, <2>3, <3>1, Zenon
  <2>8. Follow(t.closing, n)
    <3>1. CASE t.closing = <<>> BY <3>1 DEF Follow
    <3>2. CASE t.leftover = <<>>
      <4>1. n = SentTo(t) BY <2>2, <3>2
      <4> QED BY <2>2, <4>1
    <3> QED BY <2>5, <3>1, <3>2
  <2> HIDE DEF b, g
  <2>9. Sent(out1, n, b, g + Len(t.pending), sp)
    <3>1. sp => sp OBVIOUS
    <3> QED BY <2>2, <2>3, <2>6, <3>1, Sending, Zenon
  <2>10. Sent(out2, n + Len(t.closing), b, g + Len(t.pending), sp)
    <3>1. sp => sp OBVIOUS
    <3> HIDE DEF out1, n
    <3> QED BY <2>2, <2>3, <2>7, <2>8, <2>9, <3>1, SendingHtml, Zenon
  <2>11. n + Len(t.closing) = Len(page) BY <2>2, <2>4
  <2> HIDE DEF out1, out2, n
  <2>12. out2 \in Seq(Item) /\ Placed(out2, sp) BY <2>10 DEF Sent
  <2>13. /\ Typed(a, v, t2) /\ t2.mode = "on" /\ t2.out = out2
    BY <2>2, <2>12 DEF Typed, TrType
  <2>14. Complete(a.inBar, lt \/ v.failed, out2)
    <3>1. Lists(out2, 0, Len(page)) BY <2>10, <2>11 DEF Sent
    <3>2. ASSUME ~v.failed PROVE Lists(Negative(a.inBar \o out2), 0, Scripts)
      <4>1. v.finished BY <1>2, <2>2 DEF Working
      <4>2. v.produced = Scripts BY <3>2, <4>1 DEF Good
      <4>3. v.queue = <<>> BY <1>2, <3>2
      <4>4. g + Len(t.pending) = Scripts
        <5>1. Len(v.queue) = 0 BY <4>3
        <5>2. g \in Nat /\ Len(t.pending) \in Nat BY <2>2, <2>3
        <5>3. \A x, y \in Nat : (x + y) + 0 = x + y OBVIOUS
        <5> QED BY <2>2, <4>2, <5>1, <5>2, <5>3
      <4>5. Follow(Negative(a.inBar), 0) BY <2>2 DEF Working, ScriptsInPlace
      <4>6. Lists(Negative(out2), b, Scripts) /\ b <= Scripts BY <2>7, <2>10, <4>4 DEF Sent
      <4> QED BY <2>3, <2>12, <4>5, <4>6, BarFirst, StreamAssumption DEF b
    <3> QED BY <3>1, <3>2 DEF Complete
  <2>15. v.finished /\ ~v.failed => v.produced = Scripts BY DEF Good
  <2> HIDE DEF t2
  <2> QED BY <2>1, <2>12, <2>13, <2>14, <2>15, OverGood
<1> QED BY <1>1, <1>2

\* Completion is signalled after what is serialized reached the transform.
LEMMA SignalGood ==
  ASSUME page \in Pages, NEW a, NEW v, NEW t, NEW lt, NEW sp, Good(a, v, t, lt, sp),
         v.failed \/ v.produced = Scripts,
         v.live /\ v.lifted => v.failed \/ v.queue = <<>>,
         NEW o, o = Signal([ssr |-> v, tr |-> t])
  PROVE  Good(a, o.ssr, o.tr, lt, sp)
<1> DEFINE v2 == [v EXCEPT !.finished = TRUE]
<1>1. Typed(a, v, t) BY DEF Good
<1>2. /\ v2 \in SsrType /\ v2.finished /\ v2.queue = v.queue /\ v2.produced = v.produced
      /\ v2.lifted = v.lifted /\ v2.microtask = v.microtask /\ v2.failed = v.failed
      /\ v2.live = v.live /\ v2.failed \in BOOLEAN
  BY <1>1 DEF Typed, SsrType
<1> HIDE DEF v2
<1>3. Typed(a, v2, t) BY <1>1, <1>2 DEF Typed
<1>4. Good(a, v2, t, lt, sp)
  <2>1. ASSUME t.stream = "open" PROVE Working(a, v2, t, lt, sp)
    <3>1. Working(a, v, t, lt, sp) BY <2>1 DEF Good
    <3>2. Given(v2, t) = Given(v, t) BY <1>2 DEF Given
    <3>3. ScriptsInPlace(a.inBar, v2, t) BY <1>2, <3>1, <3>2 DEF Working, ScriptsInPlace
    <3>4. Lifted(v2, t) /\ Flushed(v2) BY <1>2, <3>1 DEF Working, Lifted, Flushed
    <3>5. Lateness(a, v2, t, lt) BY <1>2, <3>1 DEF Working, Lateness
    <3> QED BY <1>2, <3>1, <3>3, <3>4, <3>5 DEF Working
  <2> QED BY <1>2, <1>3, <2>1 DEF Good
<1>5. CASE ~(t.listening /\ t.stream = "open")
  <2>1. o = [ssr |-> v2, tr |-> t] BY <1>5 DEF Signal, v2
  <2> QED BY <1>4, <2>1
<1>6. CASE t.listening /\ t.stream = "open"
  <2> DEFINE t2 == [t EXCEPT !.finished = TRUE]
  <2>1. o = TryFinish([ssr |-> v2, tr |-> t2])
    <3>1. [[ssr |-> v, tr |-> t] EXCEPT !.ssr.finished = TRUE] = [ssr |-> v2, tr |-> t]
      <4>1. [[ssr |-> v, tr |-> t] EXCEPT !.ssr.finished = TRUE] \in [ssr : {v2}, tr : {t}]
        BY DEF v2
      <4> QED BY <4>1, Pair
    <3>2. [[ssr |-> v2, tr |-> t] EXCEPT !.tr.finished = TRUE] = [ssr |-> v2, tr |-> t2]
      <4>1. [[ssr |-> v2, tr |-> t] EXCEPT !.tr.finished = TRUE] \in [ssr : {v2}, tr : {t2}]
        OBVIOUS
      <4> QED BY <4>1, Pair
    <3> HIDE DEF t2
    <3> QED BY <1>6, <3>1, <3>2 DEF Signal
  <2>2. /\ t2 \in TrType /\ t2.finished /\ t2.mode = t.mode /\ t2.read = t.read /\ t2.out = t.out
        /\ t2.pending = t.pending /\ t2.leftover = t.leftover /\ t2.closing = t.closing
        /\ t2.rendering = t.rendering /\ t2.barrier = t.barrier /\ t2.listening = t.listening
        /\ t2.timer = t.timer /\ t2.stream = t.stream
    BY <1>1 DEF Typed, TrType
  <2> HIDE DEF t2
  <2>3. Working(a, v2, t, lt, sp) /\ t.mode = "on"
    BY <1>4, <1>6 DEF Good, Working, Attached
  <2>4. SentTo(t2) = SentTo(t) /\ Given(v2, t2) = Given(v2, t) BY <2>2 DEF SentTo, Given
  <2>5. HtmlInPlace(t2) /\ HeldBack(t2) /\ (t2.mode = "on" => BodyOpen(SentTo(t2), sp))
    BY <2>2, <2>3, <2>4 DEF Working, HtmlInPlace, HeldBack
  <2>6. ScriptsInPlace(a.inBar, v2, t2) BY <2>2, <2>3, <2>4 DEF Working, ScriptsInPlace
  <2>7. Attached(t2) /\ Lifted(v2, t2) /\ Lateness(a, v2, t2, lt)
    BY <1>2, <2>2, <2>3 DEF Working, Attached, Lifted, Lateness
  <2>8. Working(a, v2, t2, lt, sp) BY <1>2, <2>3, <2>5, <2>6, <2>7 DEF Working
  <2>9. Typed(a, v2, t2) BY <1>3, <2>2 DEF Typed
  <2>10. Good(a, v2, t2, lt, sp) BY <1>4, <1>6, <2>2, <2>3, <2>8, <2>9 DEF Good
  <2>11. ~t2.rendering => v2.failed \/ v2.queue = <<>>
    <3>1. ASSUME ~t2.rendering PROVE v2.lifted
      <4>1. t.read = Len(page) BY <2>2, <2>3, <3>1 DEF Working, Attached
      <4> QED BY <2>3, <4>1, PageOK DEF Working, Lifted
    <3> QED BY <1>2, <2>3, <3>1 DEF Working
  <2> QED BY <2>1, <2>2, <2>3, <2>10, <2>11, TryFinishGood
<1> QED BY <1>5, <1>6

-----------------------------------------------------------------------------
(* What is read *)

LEMMA LargestExists ==
  ASSUME NEW n \in Nat, NEW S \in SUBSET (1..n), S # {}
  PROVE  \E i \in S : \A j \in S : j <= i
<1> DEFINE Less == {x \in Nat \X Nat : x[1] < x[2]}
           T == {n - i : i \in S}
<1>1. IsWellFoundedOn(Less, Nat) BY NatLessThanWellFounded DEF OpToRel
<1>2. \A i \in S : i \in Nat /\ i <= n OBVIOUS
<1>3. T \subseteq Nat /\ T # {}
  <2>1. T \subseteq Nat BY <1>2
  <2>2. PICK i \in S : TRUE OBVIOUS
  <2> QED BY <2>1, <2>2
<1>4. PICK x \in T : \A y \in T : ~(<<y, x>> \in Less)
  <2> HIDE DEF T, Less
  <2> QED BY <1>1, <1>3, WFMin
<1>5. PICK i \in S : x = n - i BY <1>4
<1>6. ASSUME NEW j \in S PROVE j <= i
  <2>1. n - j \in T /\ n - j \in Nat /\ x \in Nat BY <1>3
  <2>2. ~(n - j < x) BY <1>4, <2>1
  <2> QED BY <1>2, <1>5, <2>1, <2>2
<1> QED BY <1>6

\* A tag ends at i.
TagEnd(s, i) ==
  \/ page[s[i]] \in {"</body>", "</html>"}
  \/ i > 1 /\ page[s[i]] = ">" /\ page[s[i - 1]] = "</"

LEMMA LastTag ==
  ASSUME page \in Pages, NEW s \in Html, NEW n, n = LastTagEnd(s)
  PROVE  /\ n \in 0..Len(s)
         /\ n > 0 => TagEnd(s, n)
         /\ \A i \in 1..Len(s) : TagEnd(s, i) => i <= n
<1> DEFINE Ends == {i \in 2..Len(s) : page[s[i]] = ">" /\ page[s[i - 1]] = "</"}
                   \cup {i \in 1..Len(s) : page[s[i]] \in {"</body>", "</html>"}}
<1>1. Len(s) \in Nat BY LenProperties DEF Html
<1>2. \A i \in 1..Len(s) : i \in Ends <=> TagEnd(s, i) BY <1>1 DEF TagEnd
<1>3. Ends \subseteq 1..Len(s) BY <1>1
<1>4. n = IF Ends = {} THEN 0 ELSE CHOOSE i \in Ends : \A j \in Ends : j <= i
  BY DEF LastTagEnd
<1> HIDE DEF Ends
<1>5. CASE Ends = {} BY <1>1, <1>2, <1>4, <1>5
<1>6. CASE Ends # {}
  <2>1. \E i \in Ends : \A j \in Ends : j <= i BY <1>1, <1>3, <1>6, LargestExists
  <2>2. n \in Ends /\ \A j \in Ends : j <= n BY <1>4, <1>6, <2>1
  <2> QED BY <1>1, <1>2, <1>3, <2>2
<1> QED BY <1>5, <1>6

LEMMA ClosingTags ==
  ASSUME page \in Pages
  PROVE  /\ \A i \in 1..Len(page) : page[i] = "</body>" => i < Len(page) /\ page[i + 1] = "</html>"
         /\ \A tag \in {"</body>", "</html>"} : \A i, j \in 1..Len(page) :
              page[i] = tag /\ page[j] = tag => i = j
<1>1. Len(page) \in Nat /\ DOMAIN page = 1..Len(page) BY PageOK
<1>2. /\ \A i \in DOMAIN page : /\ page[i] = "</body>" => i < Len(page) /\ page[i + 1] = "</html>"
                                /\ page[i] = "</html>" => i > 1 /\ page[i - 1] = "</body>"
      /\ \A i, j \in DOMAIN page : page[i] = "</body>" /\ page[j] = "</body>" => i = j
  BY PageOK DEF WellFormed
<1>3. ASSUME NEW i \in 1..Len(page), NEW j \in 1..Len(page), page[i] = "</html>", page[j] = "</html>"
      PROVE  i = j
  <2>1. /\ i > 1 /\ page[i - 1] = "</body>" /\ i - 1 \in 1..Len(page)
        /\ j > 1 /\ page[j - 1] = "</body>" /\ j - 1 \in 1..Len(page)
    <3>1. i \in DOMAIN page /\ j \in DOMAIN page BY <1>1
    <3>2. i > 1 /\ page[i - 1] = "</body>" /\ j > 1 /\ page[j - 1] = "</body>"
      BY <1>2, <1>3, <3>1
    <3> QED BY <1>1, <3>2
  <2>2. i - 1 = j - 1 BY <1>1, <1>2, <2>1
  <2> QED BY <2>2
<1> QED BY <1>1, <1>2, <1>3

LEMMA FirstTag ==
  ASSUME page \in Pages, NEW s \in Html, NEW k \in Nat, Follow(s, k),
         NEW tag \in {"</body>", "</html>"}, NEW n, n = IndexOf(s, tag)
  PROVE  /\ n \in 0..Len(s)
         /\ n > 0 => page[s[n]] = tag
         /\ \A i \in 1..Len(s) : page[s[i]] = tag => n = i
<1>1. Len(s) \in Nat /\ DOMAIN s = 1..Len(s) BY LenProperties DEF Html
<1>2. \A i \in 1..Len(s) : s[i] = k + i /\ s[i] \in 1..Len(page)
  BY <1>1, ElementOfSeq DEF Follow, Html
<1>3. CASE \A i \in DOMAIN s : page[s[i]] # tag BY <1>1, <1>3 DEF IndexOf
<1>4. ASSUME NEW i \in DOMAIN s, page[s[i]] = tag PROVE n = i
  <2>1. \A j \in 1..Len(s) : page[s[j]] = tag => j = i
    <3> TAKE j \in 1..Len(s)
    <3>1. page[s[j]] = tag => s[j] = s[i] BY <1>1, <1>2, <1>4, ClosingTags
    <3> QED BY <1>1, <1>2, <1>4, <3>1
  <2>2. \A j \in 1..(i - 1) : j \in 1..Len(s) /\ j # i BY <1>1
  <2>3. \A j \in 1..(i - 1) : page[s[j]] # tag BY <2>1, <2>2
  <2>4. n = CHOOSE j \in DOMAIN s : page[s[j]] = tag /\ \A m \in 1..(j - 1) : page[s[m]] # tag
    BY <1>4 DEF IndexOf
  <2>5. n \in DOMAIN s /\ page[s[n]] = tag BY <1>4, <2>3, <2>4
  <2> QED BY <1>1, <2>1, <2>5
<1> QED BY <1>1, <1>3, <1>4

LEMMA SubtractBoth ==
  ASSUME NEW i \in Nat, NEW j \in Nat, NEW m \in Nat, NEW n, n = m + i + j
  PROVE  n - j - i = m
OBVIOUS

LEMMA SameTotal ==
  ASSUME NEW i \in Nat, NEW j \in Nat, NEW m \in Nat, NEW n \in Nat, NEW q \in Nat,
         (i + j) + q = (m + n) + q
  PROVE  i + j = m + n
OBVIOUS

\* What a turn of the read loop has to establish when it has read up to k and
\* leaves x sent, y pending, l held back and c for the end.
Turned(a, v, t, tp, k, x, y, l, c, n, g) ==
  /\ y \in Injected /\ l \in Html /\ c \in Html /\ n \in Nat /\ g \in Nat
  /\ Sent(x, n, Len(a.inBar), g, tp) /\ Len(a.inBar) <= g /\ BodyOpen(n, tp)
  /\ Follow(l, n) /\ Follow(c, n) /\ (l = <<>> \/ c = <<>>)
  /\ Len(l) <= MaxLeftover /\ k = n + Len(l) + Len(c)
  /\ \A i \in DOMAIN l : /\ page[l[i]] \notin {"</body>", "</html>"}
                         /\ i > 1 /\ page[l[i]] = ">" => page[l[i - 1]] # "</"
  /\ c # <<>> => page[c[1]] = "</body>"
  /\ Follow(Negative(y), g) /\ v.produced = g + Len(y) + Len(v.queue)
  /\ t.pending = <<>> => y = <<>> /\ ((\A i \in DOMAIN t.out : t.out[i] > 0)
                                     => \A i \in DOMAIN x : x[i] > 0)

\* The transform after the turn.
Turn(t, k, bar, x, y, l, c) ==
  [t EXCEPT !.read = k, !.barrier = @ \/ bar, !.out = x, !.pending = y,
            !.leftover = l, !.closing = c]

LEMMA TurnGood ==
  ASSUME page \in Pages, NEW a, NEW v, NEW t, NEW lt, NEW sp, NEW tp, Good(a, v, t, lt, sp),
         t.stream = "open", t.mode = "on", t.rendering,
         NEW k \in (t.read + 1)..a.rendered,
         NEW bar \in BOOLEAN, bar <=> t.read < Bar /\ Bar <= k,
         NEW x, NEW y, NEW l, NEW c, NEW n, NEW g, Turned(a, v, t, tp, k, x, y, l, c, n, g),
         NEW o, o = Turn(t, k, bar, x, y, l, c),
         NEW e, e = IF bar THEN Lift(v) ELSE v
  PROVE  Good(a, e, o, lt, tp)
<1>0. /\ y \in Injected /\ l \in Html /\ c \in Html /\ n \in Nat /\ g \in Nat
      /\ Sent(x, n, Len(a.inBar), g, tp) /\ Len(a.inBar) <= g /\ BodyOpen(n, tp)
      /\ Follow(l, n) /\ Follow(c, n) /\ (l = <<>> \/ c = <<>>)
      /\ Len(l) <= MaxLeftover /\ k = n + Len(l) + Len(c)
      /\ Follow(Negative(y), g) /\ v.produced = g + Len(y) + Len(v.queue)
      /\ t.pending = <<>> => y = <<>> /\ ((\A i \in DOMAIN t.out : t.out[i] > 0)
                                         => \A i \in DOMAIN x : x[i] > 0)
  BY DEF Turned
<1>1. Typed(a, v, t) /\ Working(a, v, t, lt, sp) BY DEF Good
<1>2. /\ Len(page) \in Nat /\ t.read \in Nat /\ a.rendered \in 0..Len(page)
      /\ k \in 1..Len(page) /\ t.read < k /\ k <= a.rendered /\ Bar \in 1..Len(page)
  <2>1. t.read \in Nat /\ a.rendered \in 0..Len(page) BY <1>1, Fields
  <2>2. Len(page) \in Nat /\ Bar \in 1..Len(page) BY PageOK
  <2>3. \A i, j, m \in Nat : \A z \in (i + 1)..j : j \in 0..m => z \in 1..m /\ i < z /\ z <= j
    OBVIOUS
  <2>4. a.rendered \in Nat BY <2>1, <2>2
  <2> QED BY <2>1, <2>2, <2>3, <2>4, Zenon
<1>3. x \in Seq(Item) /\ Placed(x, tp) /\ Lists(x, 0, n) /\ Lists(Negative(x), Len(a.inBar), g)
  BY <1>0 DEF Sent
<1>4. /\ o \in TrType /\ o.read = k /\ o.barrier = (t.barrier \/ bar) /\ o.out = x
      /\ o.pending = y /\ o.leftover = l /\ o.closing = c /\ o.mode = t.mode
      /\ o.rendering = t.rendering /\ o.finished = t.finished /\ o.listening = t.listening
      /\ o.timer = t.timer /\ o.stream = t.stream
  <2>1. k \in 0..Len(page) /\ (t.barrier \/ bar) \in BOOLEAN BY <1>1, <1>2 DEF Typed, TrType
  <2>2. t \in TrType BY <1>1 DEF Typed
  <2>3. /\ o.read = k /\ o.barrier = (t.barrier \/ bar) /\ o.out = x
        /\ o.pending = y /\ o.leftover = l /\ o.closing = c /\ o.mode = t.mode
        /\ o.rendering = t.rendering /\ o.finished = t.finished /\ o.listening = t.listening
        /\ o.timer = t.timer /\ o.stream = t.stream
    BY <2>2 DEF Turn, TrType
  <2>4. o \in TrType BY <1>0, <1>3, <2>1, <2>2 DEF Turn, TrType
  <2> QED BY <2>3, <2>4
<1>5. t.read < Bar => ~v.lifted /\ v.microtask = "none" /\ ~t.barrier
  BY <1>1, <1>2 DEF Working, Lifted
<1>6. Bar <= t.read => v.lifted /\ t.barrier BY <1>1 DEF Working, Lifted
<1>7. /\ e \in SsrType /\ e.produced = v.produced /\ e.queue = v.queue /\ e.live = v.live
      /\ e.finished = v.finished /\ e.failed = v.failed
      /\ ~bar => e = v
      /\ bar => e.lifted /\ (v.queue # <<>> => e.microtask = "lift")
  <2>1. CASE ~bar BY <1>1, <2>1 DEF Typed
  <2>2. CASE bar
    <3>1. v.live /\ ~v.lifted /\ v.microtask = "none" BY <1>1, <1>5, <2>2 DEF Working
    <3>2. e = [v EXCEPT !.lifted = TRUE,
                        !.microtask = IF @ = "none" /\ v.queue # <<>> THEN "lift" ELSE @]
      BY <2>2, <3>1 DEF Lift
    <3> QED BY <1>1, <2>2, <3>1, <3>2 DEF Typed, SsrType
  <2> QED BY <2>1, <2>2
<1>8. (e.lifted <=> Bar <= k) /\ (o.barrier <=> Bar <= k)
  <2>1. CASE Bar <= t.read
    <3>1. Bar <= k /\ ~bar BY <1>2, <2>1
    <3> QED BY <1>4, <1>6, <1>7, <2>1, <3>1
  <2>2. CASE t.read < Bar
    <3>1. bar <=> Bar <= k BY <2>2
    <3> QED BY <1>4, <1>5, <1>7, <2>2, <3>1
  <2> QED BY <1>2, <2>1, <2>2
<1>9. Typed(a, e, o) BY <1>0, <1>1, <1>2, <1>4, <1>7 DEF Typed
<1>10. Len(l) \in Nat /\ Len(c) \in Nat /\ Len(y) \in Nat /\ Len(v.queue) \in Nat
       /\ Len(t.pending) \in Nat
  BY <1>0, <1>1, Fields, LenProperties DEF Html, Injected
<1>11. SentTo(o) = n
  <2>1. \A i, j, m \in Nat : (m + i + j) - i - j = m OBVIOUS
  <2> QED BY <1>0, <1>4, <1>10, <2>1 DEF SentTo
<1>12. Given(e, o) = g
  <2>1. Given(e, o) = v.produced - Len(v.queue) - Len(y) BY <1>4, <1>7 DEF Given
  <2>2. v.produced - Len(v.queue) - Len(y) = g
    <3>1. v.produced = g + Len(y) + Len(v.queue) BY <1>0
    <3>2. g \in Nat /\ Len(y) \in Nat /\ Len(v.queue) \in Nat BY <1>0, <1>10
    <3>3. PICK i \in Nat : i = Len(y) BY <3>2
    <3>4. PICK j \in Nat : j = Len(v.queue) BY <3>2
    <3>5. PICK m \in Nat : m = g BY <3>2
    <3>6. (m + i + j) - j - i = m BY SubtractBoth
    <3> QED BY <3>1, <3>3, <3>4, <3>5, <3>6
  <2> QED BY <2>1, <2>2
<1>13. HtmlInPlace(o)
  <2>1. n >= 0 BY <1>0
  <2>2. /\ Lists(o.out, 0, n) /\ Follow(o.leftover, n) /\ Follow(o.closing, n)
        /\ o.leftover = <<>> \/ o.closing = <<>>
    <3>1. o.out = x /\ o.leftover = l /\ o.closing = c BY <1>4
    <3>2. Lists(x, 0, n) BY <1>3
    <3>3. Follow(l, n) /\ Follow(c, n) /\ (l = <<>> \/ c = <<>>) BY <1>0
    <3> QED BY <3>1, <3>2, <3>3
  <2> QED BY <1>11, <2>1, <2>2 DEF HtmlInPlace
<1>20. HeldBack(o) BY <1>4 DEF HeldBack, Turned
<1>14. ScriptsInPlace(a.inBar, e, o)
  <2>1. /\ Follow(Negative(a.inBar), 0)
        /\ Follow(Negative(v.queue), Given(v, t) + Len(t.pending))
    BY <1>1 DEF Working, ScriptsInPlace
  <2>2. Given(v, t) + Len(t.pending) = g + Len(y)
    <3>1. Given(v, t) \in Nat /\ v.produced = Given(v, t) + Len(t.pending) + Len(v.queue)
      BY SentSoFar
    <3>2. PICK i \in Nat : i = Given(v, t) BY <3>1
    <3>3. PICK j \in Nat : j = Len(t.pending) BY <1>10
    <3>4. PICK m \in Nat : m = Len(y) BY <1>10
    <3>5. PICK q \in Nat : q = Len(v.queue) BY <1>10
    <3>6. (i + j) + q = (g + m) + q BY <1>0, <3>1, <3>2, <3>3, <3>4, <3>5
    <3>7. i + j = g + m BY <1>0, <3>6, SameTotal
    <3> QED BY <3>2, <3>3, <3>4, <3>7
  <2> QED BY <1>0, <1>3, <1>4, <1>7, <1>12, <2>1, <2>2 DEF ScriptsInPlace
<1>15. Attached(o) BY <1>1, <1>4 DEF Working, Attached
<1>16. Lifted(e, o)
  <2>1. ASSUME ~e.lifted
        PROVE  e.microtask = "none" /\ y = <<>> /\ \A i \in DOMAIN x : x[i] > 0
    <3>1. ~bar /\ e = v BY <1>7, <2>1
    <3>2. ~v.lifted BY <2>1, <3>1
    <3> QED BY <1>0, <1>1, <3>1, <3>2 DEF Working, Lifted
  <2> QED BY <1>4, <1>8, <2>1 DEF Lifted
<1>17. Flushed(e) BY <1>1, <1>7 DEF Working, Flushed
<1>18. Lateness(a, e, o, lt) BY <1>4 DEF Lateness
<1>19. Working(a, e, o, lt, tp)
  BY <1>0, <1>1, <1>4, <1>7, <1>11, <1>13, <1>14, <1>15, <1>16, <1>17, <1>18, <1>20 DEF Working
<1> QED BY <1>3, <1>4, <1>7, <1>9, <1>19 DEF Good

-----------------------------------------------------------------------------
(* A turn of the read loop. *)

LEMMA Parts ==
  ASSUME NEW S, NEW s \in Seq(S), NEW n \in 0..Len(s)
  PROVE  /\ SubSeq(s, 1, n) \in Seq(S) /\ Len(SubSeq(s, 1, n)) = n
         /\ SubSeq(s, n + 1, Len(s)) \in Seq(S)
         /\ \A i \in 1..Len(SubSeq(s, n + 1, Len(s))) : SubSeq(s, n + 1, Len(s))[i] = s[n + i]
OBVIOUS

Excess(r) == IF Len(r) > MaxLeftover THEN Len(r) - MaxLeftover ELSE 0

\* Held back is what follows n in s, but for what exceeds the cap.
Held(out, s, k, n, b, g, sp) ==
  LET r == SubSeq(s, n + 1, Len(s))
      l == SubSeq(r, Excess(r) + 1, Len(r))
      w == out \o SubSeq(r, 1, Excess(r))
  IN  /\ l \in Html /\ Len(l) <= MaxLeftover /\ Follow(l, k + n + Excess(r))
      /\ Excess(r) \in Nat /\ k + Len(s) = k + n + Excess(r) + Len(l)
      /\ Sent(w, k + n + Excess(r), b, g, sp)
      /\ (\A i \in DOMAIN out : out[i] > 0) => \A i \in DOMAIN w : w[i] > 0
      /\ \A i \in DOMAIN l :
           /\ page[l[i]] \notin {"</body>", "</html>"}
           /\ i > 1 /\ page[l[i]] = ">" => page[l[i - 1]] # "</"

LEMMA HoldingBack ==
  ASSUME page \in Pages, NEW out, NEW s \in Html, NEW k \in Nat, NEW n \in 0..Len(s),
         Follow(s, k), NEW b \in Nat, NEW g \in Nat, b <= g, NEW sp,
         Sent(out, k + n, b, g, sp),
         \A i \in 1..Len(s) : TagEnd(s, i) => i <= n
  PROVE  Held(out, s, k, n, b, g, sp)
<1> DEFINE r == SubSeq(s, n + 1, Len(s))
           m == Excess(r)
           l == SubSeq(r, m + 1, Len(r))
           h == SubSeq(r, 1, m)
           w == out \o h
<1>1. s \in Seq(Int) /\ Len(s) \in Nat /\ MaxLeftover \in Nat /\ n \in Nat
  BY ItemSeqs, LenProperties, StreamAssumption
<1>2. /\ r \in Seq(Int) /\ Len(r) = Len(s) - n /\ Follow(r, k + n)
  BY <1>1, FollowSubSeq
<1>3. /\ r \in Html /\ \A i \in 1..Len(r) : r[i] = s[n + i]
  BY <1>1, Parts DEF Html
<1> HIDE DEF r
<1>4. Len(r) \in Nat /\ m \in 0..Len(r) /\ Len(r) - m <= MaxLeftover /\ k + n \in Nat
  BY <1>1, <1>2, SMTT(40) DEF Excess
<1> HIDE DEF m
<1>5. /\ Len(h) = m /\ Follow(h, k + n)
      /\ Len(l) = Len(r) - m /\ Follow(l, (k + n) + m)
  BY <1>2, <1>4, FollowSubSeq
<1>6. /\ h \in Html /\ l \in Html /\ \A i \in 1..Len(l) : l[i] = r[m + i]
  BY <1>3, <1>4, Parts DEF Html
<1> HIDE DEF h, l
<1>7. /\ Sent(w, (k + n) + Len(h), b, g, sp)
      /\ (\A i \in DOMAIN out : out[i] > 0) => \A i \in DOMAIN w : w[i] > 0
  <2>1. sp => sp OBVIOUS
  <2>2. Sent(w, (k + n) + Len(h), b, g, sp)
    BY <1>4, <1>5, <1>6, <2>1, SendingHtml, Zenon
  <2>3. (\A i \in DOMAIN out : out[i] > 0) => \A i \in DOMAIN w : w[i] > 0
    BY <1>4, <1>5, <1>6, <2>1, SendingHtml, Zenon
  <2> QED BY <2>2, <2>3
<1> HIDE DEF w
<1>8. k + Len(s) = k + n + m + Len(l) /\ m \in Nat BY <1>1, <1>2, <1>4, <1>5
<1>9. ASSUME NEW i \in DOMAIN l
      PROVE  /\ page[l[i]] \notin {"</body>", "</html>"}
             /\ i > 1 /\ page[l[i]] = ">" => page[l[i - 1]] # "</"
  <2>1. i \in 1..Len(l) /\ i \in Nat BY <1>6 DEF Html
  <2>2. /\ l[i] = s[n + (m + i)] /\ n + (m + i) \in 1..Len(s) /\ n + (m + i) > n
    <3>1. m + i \in 1..Len(r) BY <1>4, <1>5, <2>1
    <3>2. l[i] = s[n + (m + i)] BY <1>3, <1>6, <2>1, <3>1
    <3>3. n + (m + i) \in 1..Len(s) /\ n + (m + i) > n 
      <4>1. Len(r) = Len(s) - n /\ Len(s) \in Nat /\ n \in Nat /\ m + i \in 1..Len(r)
        BY <1>1, <1>2, <3>1
      <4>2. \A z \in Int : z \in 1..Len(r) => n + z \in 1..Len(s) /\ n + z > n BY <4>1
      <4>3. m + i \in Int BY <1>4, <2>1
      <4> QED BY <4>1, <4>2, <4>3
    <3> QED BY <3>2, <3>3
  <2>3. ~TagEnd(s, n + (m + i)) BY <1>1, <1>4, <2>1, <2>2
  <2>4. i > 1 => l[i - 1] = s[(n + (m + i)) - 1]
    <3>1. i > 1 => i - 1 \in 1..Len(l) /\ m + (i - 1) \in 1..Len(r) BY <1>4, <1>5, <2>1
    <3>2. i > 1 => l[i - 1] = s[n + (m + (i - 1))] BY <1>3, <1>6, <3>1
    <3>3. n + (m + (i - 1)) = (n + (m + i)) - 1 BY <1>1, <1>4, <2>1
    <3> QED BY <3>2, <3>3
  <2>5. i > 1 => n + (m + i) > 1 BY <1>1, <1>4, <2>1
  <2> QED BY <2>2, <2>3, <2>4, <2>5 DEF TagEnd
<1>10. (k + n) + m = k + n + m OBVIOUS
<1> QED BY <1>4, <1>5, <1>6, <1>7, <1>8, <1>9 DEF Held, r, m, l, h, w

LEMMA Joined ==
  ASSUME NEW S, NEW s \in Seq(S), NEW t \in Seq(S)
  PROVE  /\ s \o t \in Seq(S) /\ Len(s \o t) = Len(s) + Len(t)
         /\ Len(s) \in Nat /\ Len(t) \in Nat
         /\ \A i \in 1..Len(s) : (s \o t)[i] = s[i]
BY ConcatProperties, LenProperties

LEMMA Chunk ==
  ASSUME page \in Pages, NEW r \in Nat, NEW k \in Nat, r < k, k <= Len(page),
         NEW chunk, chunk = [i \in 1..(k - r) |-> r + i]
  PROVE  chunk \in Html /\ Len(chunk) = k - r /\ Follow(chunk, r)
<1>1. PICK n \in Nat : n = k - r OBVIOUS
<1>2. Len(page) \in Nat BY PageOK
<1>3. \A i \in 1..n : r + i \in 1..Len(page) BY <1>1, <1>2
<1>4. DOMAIN chunk = 1..n /\ \A i \in 1..n : chunk[i] = r + i BY <1>1
<1>5. chunk \in [1..n -> 1..Len(page)] BY <1>1, <1>3
<1>6. chunk \in Seq(1..Len(page)) BY <1>5, SeqDef
<1>7. Len(chunk) = n
  <2>1. PICK m \in Nat : m = Len(chunk) /\ DOMAIN chunk = 1..m BY <1>6, LenProperties
  <2>2. 1..m = 1..n BY <1>4, <2>1
  <2>3. m = n BY <2>2
  <2> QED BY <2>1, <2>3
<1>8. Follow(chunk, r) BY <1>4 DEF Follow
<1> QED BY <1>1, <1>6, <1>7, <1>8 DEF Html

\* The text of one turn: what was held back, l, and the new chunk.
Text(l, r, k) == l \o [i \in 1..(k - r) |-> r + i]

\* It goes on where the page was sent or kept for the end.
GoesOn(s, l, c, n, k) ==
  /\ s \in Html /\ \A i \in 1..Len(l) : s[i] = l[i]
  /\ c = <<>> => Follow(s, n) /\ k = n + Len(s)
  /\ c # <<>> => /\ c \o s \in Html /\ Follow(c \o s, n)
                 /\ k = n + Len(c \o s) /\ (c \o s)[1] = c[1]

LEMMA TextOf ==
  ASSUME page \in Pages, NEW l \in Html, NEW c \in Html, l = <<>> \/ c = <<>>,
         NEW n \in Nat, Follow(l, n), Follow(c, n),
         NEW r \in Nat, r = n + Len(l) + Len(c), NEW k \in Nat, r < k, k <= Len(page),
         NEW s, s = Text(l, r, k)
  PROVE  GoesOn(s, l, c, n, k)
<1>1. PICK chunk \in Html :
        chunk = [i \in 1..(k - r) |-> r + i] /\ Len(chunk) = k - r /\ Follow(chunk, r)
  BY Chunk
<1>2. s = l \o chunk BY <1>1 DEF Text
<1>3. /\ s \in Html /\ Len(s) = Len(l) + Len(chunk)
      /\ Len(l) \in Nat /\ Len(chunk) \in Nat /\ \A i \in 1..Len(l) : s[i] = l[i]
  <2>1. l \in Seq(1..Len(page)) /\ chunk \in Seq(1..Len(page)) BY DEF Html
  <2>2. /\ l \o chunk \in Seq(1..Len(page)) /\ Len(l \o chunk) = Len(l) + Len(chunk)
        /\ Len(l) \in Nat /\ Len(chunk) \in Nat
        /\ \A i \in 1..Len(l) : (l \o chunk)[i] = l[i]
    BY <2>1, Joined, Zenon
  <2> QED BY <1>2, <2>2 DEF Html
<1>4. /\ c \o s \in Html /\ Len(c \o s) = Len(c) + Len(s) /\ Len(c) \in Nat
      /\ \A i \in 1..Len(c) : (c \o s)[i] = c[i]
  BY <1>3, Joined DEF Html
<1>5. l \in Seq(Int) /\ c \in Seq(Int) /\ chunk \in Seq(Int) BY ItemSeqs
<1>6. PICK x \in Nat : x = Len(l) BY <1>3
<1>7. PICK y \in Nat : y = Len(c) BY <1>4
<1>8. PICK z \in Nat : z = Len(chunk) /\ r + z = k BY <1>1, <1>3
<1>9. ASSUME c = <<>> PROVE Follow(s, n) /\ k = n + Len(s)
  <2>1. y = 0 BY <1>7, <1>9
  <2>2. r = n + Len(l) BY <1>6, <1>7, <2>1
  <2>3. Follow(s, n) BY <1>1, <1>2, <1>5, <2>2, FollowConcat
  <2>4. k = n + (x + z) BY <1>6, <1>8, <2>2
  <2> QED BY <1>3, <1>6, <1>8, <2>3, <2>4
<1>10. ASSUME c # <<>>
       PROVE  Follow(c \o s, n) /\ k = n + Len(c \o s) /\ (c \o s)[1] = c[1]
  <2>1. l = <<>> /\ x = 0 BY <1>6, <1>10
  <2>2. s = chunk BY <1>2, <1>5, <2>1, ConcatEmptySeq
  <2>3. r = n + Len(c) BY <1>6, <1>7, <2>1
  <2>4. Follow(c \o s, n) BY <1>1, <1>5, <2>2, <2>3, FollowConcat
  <2>5. k = n + (y + z) BY <1>7, <1>8, <2>3
  <2>6. 1 \in 1..Len(c) BY <1>4, <1>10, EmptySeq DEF Html
  <2> QED BY <1>4, <1>7, <1>8, <2>2, <2>4, <2>5, <2>6
<1> QED BY <1>3, <1>4, <1>9, <1>10 DEF GoesOn

LEMMA TextRead ==
  ASSUME page \in Pages, NEW a, NEW v, NEW t, NEW lt, NEW sp, Good(a, v, t, lt, sp),
         t.stream = "open", NEW k \in (t.read + 1)..a.rendered,
         NEW s, s = Text(t.leftover, t.read, k)
  PROVE  /\ t.read \in Nat /\ k \in Nat /\ t.read < k /\ k <= Len(page)
         /\ GoesOn(s, t.leftover, t.closing, SentTo(t), k)
<1>1. Typed(a, v, t) /\ Working(a, v, t, lt, sp) BY DEF Good
<1>2. /\ t.read \in Nat /\ k \in Nat /\ t.read < k /\ k <= Len(page) /\ Len(page) \in Nat
  <2>1. t.read \in Nat /\ a.rendered \in 0..Len(page) /\ Len(page) \in Nat BY <1>1, Fields, PageOK
  <2> QED BY <2>1
<1>3. PICK r \in Nat : r = t.read BY <1>2
<1>4. PICK l \in Html : l = t.leftover BY <1>1, Fields
<1>5. PICK c \in Html : c = t.closing BY <1>1, Fields
<1>6. PICK n \in Nat : n = SentTo(t) BY SentSoFar
<1>7. Follow(l, n) /\ Follow(c, n) /\ (l = <<>> \/ c = <<>>)
  BY <1>1, <1>4, <1>5, <1>6 DEF Working, HtmlInPlace
<1>8. r = n + Len(l) + Len(c) BY <1>3, <1>4, <1>5, <1>6, SentSoFar
<1>9. s = Text(l, r, k) BY <1>3, <1>4
<1>10. r < k BY <1>2, <1>3
<1>11. GoesOn(s, l, c, n, k)
  BY <1>2, <1>7, <1>8, <1>9, <1>10, TextOf, Zenon
<1> QED BY <1>2, <1>4, <1>5, <1>6, <1>11

LEMMA BarRead ==
  ASSUME page \in Pages, NEW a, NEW v, NEW t, NEW lt, NEW sp, Good(a, v, t, lt, sp),
         t.stream = "open", t.mode = "on", NEW k \in (t.read + 1)..a.rendered,
         NEW s, s = Text(t.leftover, t.read, k)
  PROVE  (~t.barrier /\ \E i \in DOMAIN s : page[s[i]] = "bar") <=> t.read < Bar /\ Bar <= k
<1>1. Typed(a, v, t) /\ Working(a, v, t, lt, sp) BY DEF Good
<1>2. t.read \in Nat /\ k \in Nat /\ t.read < k BY <1>1, Fields
<1>3. Bar \in 1..Len(page) /\ Len(page) \in Nat BY PageOK
<1>4. t.barrier <=> Bar <= t.read BY <1>1 DEF Working, Lifted
<1>5. /\ s \in Html
      /\ t.closing = <<>> => Follow(s, SentTo(t)) /\ k = SentTo(t) + Len(s)
  BY TextRead DEF GoesOn
<1>6. /\ SentTo(t) \in Nat /\ t.read = SentTo(t) + Len(t.leftover) + Len(t.closing)
      /\ Len(t.leftover) \in Nat /\ Len(t.closing) \in Nat
  BY <1>1, SentSoFar, Fields
<1>7. ASSUME t.read < Bar PROVE t.closing = <<>>
  <2>1. SUFFICES ASSUME t.closing # <<>> PROVE FALSE OBVIOUS
  <2>2. 1 \in DOMAIN t.closing /\ Len(t.closing) >= 1 BY <1>1, <2>1, Fields
  <2>3. page[t.closing[1]] = "</body>" /\ t.closing[1] = SentTo(t) + 1
    BY <1>1, <2>1, <2>2 DEF Working, HeldBack, HtmlInPlace, Follow
  <2>4. t.closing[1] \in 1..Len(page) BY <1>1, <2>2, Fields, ElementOfSeq DEF Html
  <2>5. Bar < SentTo(t) + 1 BY <2>3, <2>4, PageOK
  <2> QED BY <1>3, <1>6, <1>7, <2>2, <2>5
<1>8. ASSUME t.read < Bar PROVE (\E i \in DOMAIN s : page[s[i]] = "bar") <=> Bar <= k
  <2>1. /\ Follow(s, SentTo(t)) /\ k = SentTo(t) + Len(s) /\ Len(s) \in Nat
        /\ DOMAIN s = 1..Len(s)
    BY <1>5, <1>7, <1>8, LenProperties DEF Html
  <2>2. ASSUME NEW i \in DOMAIN s, page[s[i]] = "bar" PROVE Bar <= k
    <3>1. s[i] = SentTo(t) + i /\ s[i] \in 1..Len(page)
      BY <1>5, <2>1, ElementOfSeq DEF Follow, Html
    <3>2. s[i] = Bar BY <2>2, <3>1, PageOK
    <3> QED BY <1>6, <2>1, <3>1, <3>2
  <2>3. ASSUME Bar <= k PROVE \E i \in DOMAIN s : page[s[i]] = "bar"
    <3>1. Bar - SentTo(t) \in DOMAIN s
      <4>1. SentTo(t) <= t.read BY <1>6
      <4> QED BY <1>3, <1>6, <1>8, <2>1, <2>3, <4>1, SMTT(40)
    <3>2. s[Bar - SentTo(t)] = SentTo(t) + (Bar - SentTo(t)) BY <2>1, <3>1 DEF Follow
    <3>3. SentTo(t) + (Bar - SentTo(t)) = Bar BY <1>3, <1>6
    <3> QED BY <3>1, <3>2, <3>3, PageOK
  <2> QED BY <2>2, <2>3
<1> QED BY <1>2, <1>3, <1>4, <1>8

LEMMA SentWider ==
  ASSUME NEW out, NEW k, NEW b, NEW g, NEW sp, NEW tp, sp => tp, Sent(out, k, b, g, sp)
  PROVE  Sent(out, k, b, g, tp)
BY DEF Sent, Placed, MayFollow, BodyOpen

\* Behind the closing tags everything is kept for the end.
LEMMA ReadBehind ==
  ASSUME page \in Pages, NEW a, NEW v, NEW t, NEW lt, NEW sp \in BOOLEAN, Good(a, v, t, lt, sp),
         t.stream = "open", t.mode = "on", t.closing # <<>>, NEW tp \in BOOLEAN, sp => tp,
         NEW k \in (t.read + 1)..a.rendered,
         NEW s, s = Text(t.leftover, t.read, k)
  PROVE  Turned(a, v, t, tp, k, t.out, t.pending, <<>>, t.closing \o s, SentTo(t), Given(v, t))
<1>1. /\ Typed(a, v, t) /\ Working(a, v, t, lt, sp)
      /\ Len(a.inBar) <= Given(v, t)
      /\ SentTo(t) \in Nat
      /\ Given(v, t) \in Nat /\ v.produced = Given(v, t) + Len(t.pending) + Len(v.queue)
      /\ Sent(t.out, SentTo(t), Len(a.inBar), Given(v, t), sp)
      /\ Follow(Negative(t.pending), Given(v, t))
  BY SentSoFar
<1>2. Sent(t.out, SentTo(t), Len(a.inBar), Given(v, t), tp) BY <1>1, SentWider
<1>3. BodyOpen(SentTo(t), tp) /\ page[t.closing[1]] = "</body>"
  BY <1>1 DEF Working, HeldBack, BodyOpen
<1>4. /\ t.closing \o s \in Html /\ Follow(t.closing \o s, SentTo(t))
      /\ k = SentTo(t) + Len(t.closing \o s) /\ (t.closing \o s)[1] = t.closing[1]
  <2>1. GoesOn(s, t.leftover, t.closing, SentTo(t), k) BY TextRead
  <2> QED BY <2>1 DEF GoesOn
<1> DEFINE c == t.closing \o s
<1> HIDE DEF c
<1>5. t.pending \in Injected BY <1>1, Fields
<1>6. /\ <<>> \in Html /\ Len(<<>>) = 0 /\ Follow(<<>>, SentTo(t)) /\ DOMAIN <<>> = {}
  BY <1>1, NothingFollows
<1>7. SentTo(t) + Len(<<>>) + Len(c) = SentTo(t) + Len(c)
  <2>1. Len(c) \in Nat BY <1>4, LenProperties DEF c, Html
  <2> QED BY <1>1, <1>6, <2>1
<1>8. MaxLeftover >= 0 BY StreamAssumption
<1>9. /\ c \in Html /\ Follow(c, SentTo(t)) /\ k = SentTo(t) + Len(<<>>) + Len(c)
      /\ page[c[1]] = "</body>"
  BY <1>3, <1>4, <1>7 DEF c
<1> QED BY <1>1, <1>2, <1>3, <1>5, <1>6, <1>8, <1>9 DEF Turned, c

\* The closing tags have come: what precedes them is sent, with the scripts.
LEMMA ReadClosing ==
  ASSUME page \in Pages, NEW a, NEW v, NEW t, NEW lt, NEW sp \in BOOLEAN, Good(a, v, t, lt, sp),
         t.stream = "open", t.mode = "on", t.closing = <<>>, NEW tp \in BOOLEAN, sp => tp,
         NEW k \in (t.read + 1)..a.rendered,
         NEW s, s = Text(t.leftover, t.read, k),
         NEW n \in Nat \ {0}, n = IndexOf(s, "</body>"),
         NEW x, x = (t.out \o SubSeq(s, 1, n - 1)) \o t.pending
  PROVE  Turned(a, v, t, tp, k, x, <<>>, <<>>, SubSeq(s, n, Len(s)),
                SentTo(t) + (n - 1), Given(v, t) + Len(t.pending))
<1>1. /\ Typed(a, v, t) /\ Working(a, v, t, lt, sp)
      /\ Len(a.inBar) \in Nat /\ Len(a.inBar) <= Given(v, t)
      /\ SentTo(t) \in Nat
      /\ Given(v, t) \in Nat /\ v.produced = Given(v, t) + Len(t.pending) + Len(v.queue)
      /\ Sent(t.out, SentTo(t), Len(a.inBar), Given(v, t), sp)
      /\ Follow(Negative(t.pending), Given(v, t))
  BY SentSoFar
<1>2. GoesOn(s, t.leftover, t.closing, SentTo(t), k) BY TextRead
<1>3. s \in Html /\ Follow(s, SentTo(t)) /\ k = SentTo(t) + Len(s) BY <1>2 DEF GoesOn
<1> DEFINE u == SubSeq(s, 1, n - 1)
           c == SubSeq(s, n, Len(s))
<1>4. PICK m \in Nat : m = SentTo(t) BY <1>1
<1>5. PICK g \in Nat : g = Given(v, t) BY <1>1
<1>6. PICK b \in Nat : b = Len(a.inBar) /\ b <= g BY <1>1, <1>5
<1>7. t.pending \in Injected /\ t.pending \in Seq(Int) BY <1>1, Fields
<1>8. PICK p \in Nat : p = Len(t.pending) BY <1>7, LenProperties
<1>9. PICK L \in Nat : L = Len(s) BY <1>3, LenProperties DEF Html
<1>10. /\ n \in 1..L /\ n - 1 \in Nat /\ n - 1 \in 0..L /\ page[s[n]] = "</body>"
  <2>1. n \in 0..Len(s) /\ (n > 0 => page[s[n]] = "</body>") BY <1>1, <1>3, FirstTag
  <2> QED BY <1>9, <2>1
<1>11. s \in Seq(Int) /\ Follow(s, m) BY <1>3, <1>4, ItemSeqs
<1>12. s[n] = m + n /\ m + n \in 1..Len(page)
  <2>1. n \in DOMAIN s /\ n \in 1..Len(s) BY <1>9, <1>10, <1>11
  <2>2. s[n] = m + n BY <1>11, <2>1 DEF Follow
  <2>3. s[n] \in 1..Len(page) BY <1>3, <2>1, ElementOfSeq DEF Html
  <2> QED BY <2>2, <2>3
<1>13. PICK j \in Nat : j = n - 1 /\ j + 1 = n BY <1>10
<1>14. /\ SubSeq(s, 1, j) \in Html /\ Len(SubSeq(s, 1, j)) = j /\ Follow(SubSeq(s, 1, j), m)
       /\ SubSeq(s, j + 1, Len(s)) \in Html /\ Len(SubSeq(s, j + 1, Len(s))) = L - j
       /\ Follow(SubSeq(s, j + 1, Len(s)), m + j)
       /\ SubSeq(s, j + 1, Len(s))[1] = s[n]
  <2>1. j \in 0..Len(s) BY <1>9, <1>10, <1>13
  <2>2. /\ Len(SubSeq(s, 1, j)) = j /\ Follow(SubSeq(s, 1, j), m)
        /\ Len(SubSeq(s, j + 1, Len(s))) = Len(s) - j
        /\ Follow(SubSeq(s, j + 1, Len(s)), m + j)
    BY <1>11, <2>1, FollowSubSeq, Zenon
  <2>3. s \in Seq(1..Len(page)) BY <1>3 DEF Html
  <2>4. /\ SubSeq(s, 1, j) \in Seq(1..Len(page)) /\ SubSeq(s, j + 1, Len(s)) \in Seq(1..Len(page))
        /\ \A i \in 1..Len(SubSeq(s, j + 1, Len(s))) : SubSeq(s, j + 1, Len(s))[i] = s[j + i]
    BY <2>1, <2>3, Parts, Zenon
  <2>5. 1 \in 1..Len(SubSeq(s, j + 1, Len(s))) BY <1>9, <1>10, <1>13, <2>2
  <2> QED BY <1>9, <1>13, <2>2, <2>4, <2>5, SMTT(40) DEF Html
<1>15. /\ u \in Html /\ Len(u) = j /\ Follow(u, m)
       /\ c \in Html /\ Len(c) = L - j /\ Follow(c, m + j)
       /\ page[c[1]] = "</body>"
  BY <1>10, <1>13, <1>14
<1> HIDE DEF u, c
<1>16. BodyOpen(m + j, tp)
  <2>1. ASSUME NEW i \in 1..(m + j) PROVE page[i] # "</body>"
    <3>1. i # m + n /\ i \in 1..Len(page)
      <4>1. PICK z \in Nat : z = Len(page) BY PageOK
      <4>2. m + n \in 1..z /\ m + n = (m + j) + 1 BY <1>12, <1>13, <4>1
      <4>3. i \in 1..z /\ i # m + n BY <4>2
      <4> QED BY <4>1, <4>3
    <3>2. page[m + n] = "</body>" BY <1>10, <1>12
    <3> QED BY <1>12, <3>1, <3>2, ClosingTags
  <2> QED BY <2>1 DEF BodyOpen
<1>17. MayFollow(m + j, tp)
  <2>1. page[(m + j) + 1] = "</body>" /\ (m + j) + 1 = m + n BY <1>10, <1>12, <1>13
  <2>2. Bar < m + n BY <1>10, <1>12, PageOK
  <2>3. Bar <= m + j BY <1>12, <1>13, <2>2, PageOK
  <2> QED BY <1>16, <2>1, <2>3 DEF MayFollow
<1>18. Sent(x, m + j, b, g + p, tp)
  <2>1. x = (t.out \o u) \o t.pending BY DEF u
  <2>2. /\ Sent(t.out, m, b, g, sp) /\ Follow(Negative(t.pending), g)
        /\ t.pending # <<>> => MayFollow(m + Len(u), tp)
    BY <1>1, <1>4, <1>5, <1>6, <1>15, <1>17
  <2>3. Sent((t.out \o u) \o t.pending, m + Len(u), b, g + Len(t.pending), tp)
    BY <1>6, <1>7, <1>15, <2>2, Sending, ZenonT(90)
  <2> QED BY <1>8, <1>15, <2>1, <2>3
<1>19. PICK q \in Nat : q = Len(v.queue) BY <1>1, Fields
<1>20. /\ m + j \in Nat /\ g + p \in Nat /\ b <= g + p /\ MaxLeftover >= 0
       /\ v.produced = (g + p) + 0 + q
  <2>1. v.produced = g + p + q BY <1>1, <1>5, <1>8, <1>19
  <2>2. \A i, h, f \in Nat : /\ i + h \in Nat /\ i + h + f = (i + h) + 0 + f
                             /\ (f <= i => f <= i + h)
    OBVIOUS
  <2> QED BY <1>6, <2>1, <2>2, StreamAssumption
<1>21. k = (m + j) + 0 + (L - j)
  <2>1. k = m + L BY <1>3, <1>4, <1>9
  <2>2. \A i, h, f \in Nat : i + f = (i + h) + 0 + (f - h) OBVIOUS
  <2> QED BY <2>1, <2>2
<1>22. /\ <<>> \in Html /\ <<>> \in Injected /\ Len(<<>>) = 0 /\ DOMAIN <<>> = {}
       /\ Follow(<<>>, m + j) /\ Follow(Negative(<<>>), g + p)
  BY <1>20, NothingFollows
<1>23. t.pending = <<>> /\ (\A i \in DOMAIN t.out : t.out[i] > 0) => \A i \in DOMAIN x : x[i] > 0
  <2>1. SUFFICES ASSUME t.pending = <<>>, \A i \in DOMAIN t.out : t.out[i] > 0
                 PROVE  \A i \in DOMAIN x : x[i] > 0
    OBVIOUS
  <2>2. t.out \o u \in Seq(Item) BY <1>1, <1>15, Fields, ItemSeqs, TypedConcat
  <2>3. x = t.out \o u BY <2>1, <2>2, ConcatEmptySeq DEF u
  <2>4. Sent(t.out, m, b, g, sp) BY <1>1, <1>4, <1>5, <1>6
  <2>5. \A i \in DOMAIN (t.out \o u) : (t.out \o u)[i] > 0
    BY <1>6, <1>15, <2>1, <2>4, SendingHtml, ZenonT(90)
  <2> QED BY <2>3, <2>5
<1>24. Turned(a, v, t, tp, k, x, <<>>, <<>>, c, m + j, g + p)
  BY <1>6, <1>15, <1>16, <1>18, <1>19, <1>20, <1>21, <1>22, <1>23 DEF Turned
<1> QED BY <1>4, <1>5, <1>8, <1>13, <1>24 DEF c

\* The closing tags are read together.
Together(s) ==
  0 < IndexOf(s, "</body>") /\ IndexOf(s, "</body>") < IndexOf(s, "</html>")

\* Otherwise they have not been.
LEMMA BodyStillOpen ==
  ASSUME page \in Pages, NEW s \in Html, NEW m \in Nat, Follow(s, m),
         page[m + Len(s)] # "</body>", ~Together(s),
         NEW p \in (m + 1)..(m + Len(s))
  PROVE  page[p] # "</body>"
<1> DEFINE k == m + Len(s)
<1>1. PICK L \in Nat : L = Len(s) /\ DOMAIN s = 1..L BY LenProperties DEF Html
<1>2. SUFFICES ASSUME page[p] = "</body>" PROVE FALSE OBVIOUS
<1>3. p \in Nat /\ k = m + L /\ p <= k /\ p > m BY <1>1
<1>4. PICK i \in 1..L : p = m + i
  <2>1. p - m \in 1..L /\ p = m + (p - m) BY <1>3
  <2> QED BY <2>1
<1>5. \A j \in 1..L : s[j] = m + j BY <1>1 DEF Follow
<1>6. s[i] = p BY <1>4, <1>5
<1>7. IndexOf(s, "</body>") = i BY <1>1, <1>2, <1>6, FirstTag
<1>8. p # k BY <1>2
<1>9. i + 1 \in 1..L /\ m + (i + 1) = p + 1 BY <1>3, <1>4, <1>8
<1>10. s[i + 1] = p + 1 BY <1>5, <1>9
<1>11. p \in 1..Len(page)
  <2>1. s[i] \in 1..Len(page) BY <1>1, ElementOfSeq DEF Html
  <2> QED BY <1>6, <2>1
<1>12. page[p + 1] = "</html>" BY <1>2, <1>11, ClosingTags
<1>13. IndexOf(s, "</html>") = i + 1 BY <1>1, <1>9, <1>10, <1>12, FirstTag
<1>14. 0 < i /\ i < i + 1 BY <1>4
<1> QED BY <1>7, <1>13, <1>14 DEF Together

LEMMA BodyOpenBefore ==
  ASSUME NEW k \in Nat, NEW m \in Nat, m <= k, NEW sp, BodyOpen(k, sp)
  PROVE  BodyOpen(m, sp)
BY DEF BodyOpen

\* The last tag that ends in the text ends in the new chunk.
LEMMA TagEndsLater ==
  ASSUME page \in Pages, NEW l \in Html, NEW s \in Html,
         \A i \in 1..Len(l) : s[i] = l[i],
         \A i \in DOMAIN l : /\ page[l[i]] \notin {"</body>", "</html>"}
                             /\ i > 1 /\ page[l[i]] = ">" => page[l[i - 1]] # "</",
         NEW n \in 1..Len(s), TagEnd(s, n)
  PROVE  Len(l) < n
<1>1. Len(l) \in Nat /\ DOMAIN l = 1..Len(l) /\ Len(s) \in Nat BY LenProperties DEF Html
<1>2. SUFFICES ASSUME n <= Len(l) PROVE FALSE BY <1>1
<1>3. n \in 1..Len(l) /\ s[n] = l[n] BY <1>1, <1>2
<1>4. n > 1 => n - 1 \in 1..Len(l) /\ s[n - 1] = l[n - 1] BY <1>1, <1>2
<1> QED BY <1>1, <1>3, <1>4 DEF TagEnd

\* What is sent up to the last tag that ends in the text.
LEMMA SentToTag ==
  ASSUME page \in Pages, NEW a, NEW v, NEW t, NEW lt, NEW sp, Good(a, v, t, lt, sp),
         t.stream = "open", t.mode = "on", t.closing = <<>>, NEW tp, sp => tp,
         NEW k \in (t.read + 1)..a.rendered,
         NEW s, s = Text(t.leftover, t.read, k), BodyOpen(k, tp),
         NEW n \in Nat \ {0}, n = LastTagEnd(s),
         NEW x, x = (t.out \o SubSeq(s, 1, n)) \o t.pending
  PROVE  /\ Sent(x, SentTo(t) + n, Len(a.inBar), Given(v, t) + Len(t.pending), tp)
         /\ t.pending = <<>> /\ (\A i \in DOMAIN t.out : t.out[i] > 0) => \A i \in DOMAIN x : x[i] > 0
<1>1. /\ Typed(a, v, t) /\ Working(a, v, t, lt, sp)
      /\ Len(a.inBar) \in Nat /\ Len(a.inBar) <= Given(v, t)
      /\ SentTo(t) \in Nat /\ t.read = SentTo(t) + Len(t.leftover) + Len(t.closing)
      /\ Given(v, t) \in Nat
      /\ Sent(t.out, SentTo(t), Len(a.inBar), Given(v, t), sp)
      /\ Follow(Negative(t.pending), Given(v, t))
  BY SentSoFar
<1>2. GoesOn(s, t.leftover, t.closing, SentTo(t), k) BY TextRead
<1>3. /\ s \in Html /\ Follow(s, SentTo(t)) /\ k = SentTo(t) + Len(s)
      /\ \A i \in 1..Len(t.leftover) : s[i] = t.leftover[i]
  BY <1>2 DEF GoesOn
<1> DEFINE u == SubSeq(s, 1, n)
<1>4. PICK m \in Nat : m = SentTo(t) BY <1>1
<1>5. PICK g \in Nat : g = Given(v, t) BY <1>1
<1>6. PICK b \in Nat : b = Len(a.inBar) /\ b <= g BY <1>1, <1>5
<1>7. t.pending \in Injected /\ t.pending \in Seq(Int) BY <1>1, Fields
<1>8. PICK p \in Nat : p = Len(t.pending) BY <1>7, LenProperties
<1>9. PICK L \in Nat : L = Len(s) BY <1>3, LenProperties DEF Html
<1>10. n \in 1..L /\ TagEnd(s, n)
  <2>1. n \in 0..Len(s) /\ (n > 0 => TagEnd(s, n)) BY <1>3, LastTag
  <2> QED BY <1>9, <2>1
<1>11. s \in Seq(Int) /\ Follow(s, m) BY <1>3, <1>4, ItemSeqs
<1>12. s[n] = m + n /\ m + n \in 1..Len(page)
  <2>1. n \in DOMAIN s /\ n \in 1..Len(s) BY <1>9, <1>10, <1>11
  <2>2. s[n] = m + n BY <1>11, <2>1 DEF Follow
  <2>3. s[n] \in 1..Len(page) BY <1>3, <2>1, ElementOfSeq DEF Html
  <2> QED BY <2>2, <2>3
<1>13. u \in Html /\ Len(u) = n /\ Follow(u, m)
  <2>1. n \in 0..Len(s) BY <1>9, <1>10
  <2>2. s \in Seq(1..Len(page)) BY <1>3 DEF Html
  <2>3. Len(SubSeq(s, 1, n)) = n /\ Follow(SubSeq(s, 1, n), m)
    BY <1>11, <2>1, FollowSubSeq, Zenon
  <2>4. SubSeq(s, 1, n) \in Seq(1..Len(page)) BY <2>1, <2>2, Parts, Zenon
  <2> QED BY <2>3, <2>4 DEF Html
<1> HIDE DEF u
<1>14. ASSUME t.pending # <<>> PROVE MayFollow(m + n, tp)
  <2>1. Bar <= t.read
    <3>1. v.lifted BY <1>1, <1>14 DEF Working, Lifted
    <3> QED BY <1>1, <3>1 DEF Working, Lifted
  <2>2. t.read < m + n
    <3>1. PICK z \in Nat : z = Len(t.leftover) BY <1>1, Fields
    <3>2. Len(t.closing) = 0 BY EmptySeq
    <3>3. t.read = m + z BY <1>1, <1>4, <3>1, <3>2
    <3>4. t.leftover \in Html BY <1>1, Fields
    <3>5. \A i \in DOMAIN t.leftover :
            /\ page[t.leftover[i]] \notin {"</body>", "</html>"}
            /\ i > 1 /\ page[t.leftover[i]] = ">" => page[t.leftover[i - 1]] # "</"
      BY <1>1 DEF Working, HeldBack
    <3>6. n \in 1..Len(s) BY <1>9, <1>10
    <3>7. Len(t.leftover) < n BY <1>3, <1>10, <3>4, <3>5, <3>6, TagEndsLater
    <3> QED BY <3>1, <3>3, <3>7
  <2>3. Bar <= m + n
    <3>1. t.read \in Nat /\ Bar \in Nat BY <1>1, Fields, PageOK
    <3> QED BY <2>1, <2>2, <3>1
  <2>4. BodyOpen(m + n, tp)
    <3>1. k \in Nat /\ m + n \in Nat /\ m + n <= k BY <1>3, <1>4, <1>9, <1>10
    <3> QED BY <3>1, BodyOpenBefore
  <2>5. page[m + n] \in {">", "</body>", "</html>"} BY <1>10, <1>12 DEF TagEnd
  <2> QED BY <2>3, <2>4, <2>5 DEF MayFollow
<1>15. Sent(x, m + n, b, g + p, tp)
  <2>1. x = (t.out \o u) \o t.pending BY DEF u
  <2>2. /\ Sent(t.out, m, b, g, sp) /\ Follow(Negative(t.pending), g)
        /\ t.pending # <<>> => MayFollow(m + Len(u), tp)
    BY <1>1, <1>4, <1>5, <1>6, <1>13, <1>14
  <2>3. Sent((t.out \o u) \o t.pending, m + Len(u), b, g + Len(t.pending), tp)
    BY <1>6, <1>7, <1>13, <2>2, Sending, ZenonT(90)
  <2> QED BY <1>8, <1>13, <2>1, <2>3
<1>16. t.pending = <<>> /\ (\A i \in DOMAIN t.out : t.out[i] > 0) => \A i \in DOMAIN x : x[i] > 0
  <2>1. SUFFICES ASSUME t.pending = <<>>, \A i \in DOMAIN t.out : t.out[i] > 0
                 PROVE  \A i \in DOMAIN x : x[i] > 0
    OBVIOUS
  <2>2. t.out \o u \in Seq(Item) BY <1>1, <1>13, Fields, ItemSeqs, TypedConcat
  <2>3. x = t.out \o u BY <2>1, <2>2, ConcatEmptySeq DEF u
  <2>4. Sent(t.out, m, b, g, sp) BY <1>1, <1>4, <1>5, <1>6
  <2>5. \A i \in DOMAIN (t.out \o u) : (t.out \o u)[i] > 0
    BY <1>6, <1>13, <2>1, <2>4, SendingHtml, Zenon
  <2> QED BY <2>3, <2>5
<1> QED BY <1>4, <1>5, <1>6, <1>8, <1>15, <1>16

LEMMA TextStillOpen ==
  ASSUME page \in Pages, NEW a, NEW v, NEW t, NEW lt, NEW sp \in BOOLEAN, Good(a, v, t, lt, sp),
         t.stream = "open", t.mode = "on",
         NEW k \in (t.read + 1)..a.rendered, NEW tp \in BOOLEAN, sp => tp, ~tp => page[k] # "</body>",
         ~Together(Text(t.leftover, t.read, k)), t.closing = <<>>
  PROVE  BodyOpen(k, tp)
<1> DEFINE s == Text(t.leftover, t.read, k)
<1>1. Working(a, v, t, lt, sp) /\ SentTo(t) \in Nat BY SentSoFar
<1>2. GoesOn(s, t.leftover, t.closing, SentTo(t), k) BY TextRead
<1> HIDE DEF s
<1>3. s \in Html /\ Follow(s, SentTo(t)) /\ k = SentTo(t) + Len(s) BY <1>2 DEF GoesOn
<1>4. BodyOpen(SentTo(t), sp) BY <1>1 DEF Working
<1>5. ~Together(s) BY DEF s
<1>6. PICK m \in Nat : m = SentTo(t) BY <1>1
<1>7. PICK z \in Nat : z = Len(s) BY <1>3, LenProperties DEF Html
<1>8. ASSUME ~tp, NEW p \in 1..k, page[p] = "</body>" PROVE FALSE
  <2>1. p \in Nat /\ p >= 1 /\ p <= k /\ k = m + z BY <1>3, <1>6, <1>7
  <2>2. ~(p \in 1..m) BY <1>4, <1>6, <1>8 DEF BodyOpen
  <2>3. p \in (m + 1)..(m + Len(s)) BY <1>7, <2>1, <2>2
  <2>4. page[m + Len(s)] # "</body>" BY <1>3, <1>6, <1>8
  <2>5. page[p] # "</body>" BY <1>3, <1>5, <1>6, <2>3, <2>4, BodyStillOpen
  <2> QED BY <1>8, <2>5
<1> QED BY <1>8 DEF BodyOpen

\* No closing tags: the text up to the last tag is sent, with the scripts, and
\* the rest held back.
LEMMA ReadText ==
  ASSUME page \in Pages, NEW a, NEW v, NEW t, NEW lt, NEW sp \in BOOLEAN, Good(a, v, t, lt, sp),
         t.stream = "open", t.mode = "on", t.closing = <<>>,
         NEW k \in (t.read + 1)..a.rendered,
         NEW tp \in BOOLEAN, sp => tp,
         NEW s, s = Text(t.leftover, t.read, k),
         BodyOpen(k, tp),
         NEW n, n = LastTagEnd(s), NEW r, r = SubSeq(s, n + 1, Len(s)),
         NEW x, x = IF n > 0 THEN (t.out \o SubSeq(s, 1, n)) \o t.pending ELSE t.out,
         NEW y, y = IF n > 0 THEN <<>> ELSE t.pending,
         NEW g, g = IF n > 0 THEN Given(v, t) + Len(t.pending) ELSE Given(v, t)
  PROVE  Turned(a, v, t, tp, k, x \o SubSeq(r, 1, Excess(r)), y,
                SubSeq(r, Excess(r) + 1, Len(r)), <<>>, SentTo(t) + n + Excess(r), g)
<1>1. /\ Typed(a, v, t) /\ Working(a, v, t, lt, sp)
      /\ Len(a.inBar) \in Nat /\ Len(a.inBar) <= Given(v, t)
      /\ SentTo(t) \in Nat
      /\ Given(v, t) \in Nat /\ v.produced = Given(v, t) + Len(t.pending) + Len(v.queue)
      /\ Sent(t.out, SentTo(t), Len(a.inBar), Given(v, t), sp)
      /\ Follow(Negative(t.pending), Given(v, t))
  BY SentSoFar
<1>2. GoesOn(s, t.leftover, t.closing, SentTo(t), k) BY TextRead
<1>3. /\ s \in Html /\ Follow(s, SentTo(t)) /\ k = SentTo(t) + Len(s) BY <1>2 DEF GoesOn
<1>4. PICK m \in Nat : m = SentTo(t) BY <1>1
<1>5. PICK f \in Nat : f = Given(v, t) BY <1>1
<1>6. PICK b \in Nat : b = Len(a.inBar) /\ b <= f BY <1>1, <1>5
<1>7. t.pending \in Injected /\ t.pending \in Seq(Int) BY <1>1, Fields
<1>8. PICK p \in Nat : p = Len(t.pending) BY <1>7, LenProperties
<1>9. PICK q \in Nat : q = Len(v.queue) BY <1>1, Fields
<1>10. n \in 0..Len(s) /\ \A i \in 1..Len(s) : TagEnd(s, i) => i <= n BY <1>3, LastTag
<1>11. n \in Nat /\ Len(s) \in Nat BY <1>3, <1>10, LenProperties DEF Html
<1>12. Follow(s, m) BY <1>3, <1>4
<1>13. sp => tp OBVIOUS
<1>15. /\ g \in Nat /\ b <= g /\ v.produced = g + Len(y) + q
       /\ y \in Injected /\ Follow(Negative(y), g)
       /\ Sent(x, m + n, b, g, tp)
       /\ t.pending = <<>> => y = <<>> /\ ((\A i \in DOMAIN t.out : t.out[i] > 0)
                                          => \A i \in DOMAIN x : x[i] > 0)
  <2>1. CASE n > 0
    <3>1. g = f + p /\ y = <<>> /\ x = (t.out \o SubSeq(s, 1, n)) \o t.pending
      BY <1>5, <1>8, <2>1
    <3>2. n \in Nat \ {0} BY <1>11, <2>1
    <3>a. /\ k \in (t.read + 1)..a.rendered /\ s = Text(t.leftover, t.read, k)
          /\ n = LastTagEnd(s)
      OBVIOUS
    <3>3. /\ Sent(x, SentTo(t) + n, Len(a.inBar), Given(v, t) + Len(t.pending), tp)
          /\ t.pending = <<>> /\ (\A i \in DOMAIN t.out : t.out[i] > 0)
               => \A i \in DOMAIN x : x[i] > 0
      <4>1. Sent(x, SentTo(t) + n, Len(a.inBar), Given(v, t) + Len(t.pending), tp)
        BY <1>13, <3>1, <3>a, <3>2, SentToTag, ZenonT(40)
      <4>2. t.pending = <<>> /\ (\A i \in DOMAIN t.out : t.out[i] > 0)
               => \A i \in DOMAIN x : x[i] > 0
        BY <1>13, <3>1, <3>a, <3>2, SentToTag, ZenonT(40)
      <4> QED BY <4>1, <4>2
    <3>4. Sent(x, m + n, b, g, tp) BY <1>4, <1>5, <1>6, <1>8, <3>1, <3>3
    <3>5. g \in Nat /\ b <= g
      <4>1. \A i, j, h \in Nat : h <= i => i + j \in Nat /\ h <= i + j OBVIOUS
      <4>2. f + p \in Nat /\ b <= f + p BY <1>6, <4>1
      <4> QED BY <3>1, <4>2
    <3>6. v.produced = g + Len(y) + q
      <4>1. v.produced = f + p + q BY <1>1, <1>5, <1>8, <1>9
      <4>2. Len(y) = 0 BY <3>1
      <4>3. \A i, j, h \in Nat : i + j + h = (i + j) + 0 + h OBVIOUS
      <4> QED BY <3>1, <4>1, <4>2, <4>3
    <3>7. y \in Injected /\ Follow(Negative(y), g) BY <3>1, <3>5, NothingFollows
    <3> QED BY <3>1, <3>3, <3>4, <3>5, <3>6, <3>7
  <2>2. CASE n = 0
    <3>1. g = f /\ y = t.pending /\ x = t.out /\ m + n = m BY <1>5, <2>2
    <3>2. v.produced = g + Len(y) + q BY <1>1, <1>5, <1>9, <3>1
    <3>3. Sent(x, m, b, g, sp) BY <1>1, <1>4, <1>5, <1>6, <3>1
    <3>4. Sent(x, m, b, g, tp) BY <1>13, <3>3, SentWider
    <3>5. Follow(Negative(y), g) BY <1>1, <1>5, <3>1
    <3> QED BY <1>6, <1>7, <3>1, <3>2, <3>4, <3>5
  <2>3. n > 0 \/ n = 0 BY <1>11
  <2> QED BY <2>1, <2>2, <2>3, Zenon
<1>16. Held(x, s, m, n, b, g, tp)
  BY <1>3, <1>10, <1>12, <1>15, HoldingBack, Zenon
<1> DEFINE e == Excess(r)
           l == SubSeq(r, e + 1, Len(r))
           w == x \o SubSeq(r, 1, e)
<1>17. /\ l \in Html /\ Len(l) <= MaxLeftover /\ Follow(l, m + n + e)
       /\ e \in Nat /\ m + Len(s) = m + n + e + Len(l)
       /\ Sent(w, m + n + e, b, g, tp)
       /\ (\A i \in DOMAIN x : x[i] > 0) => \A i \in DOMAIN w : w[i] > 0
       /\ \A i \in DOMAIN l :
            /\ page[l[i]] \notin {"</body>", "</html>"}
            /\ i > 1 /\ page[l[i]] = ">" => page[l[i - 1]] # "</"
  <2>1. /\ SubSeq(s, n + 1, Len(s)) = r
        /\ SubSeq(r, Excess(r) + 1, Len(r)) = l /\ Excess(r) = e
        /\ x \o SubSeq(r, 1, Excess(r)) = w
    OBVIOUS
  <2>2. /\ l \in Html /\ Len(l) <= MaxLeftover /\ Follow(l, m + n + Excess(r))
        /\ Excess(r) \in Nat /\ m + Len(s) = m + n + Excess(r) + Len(l)
        /\ Sent(w, m + n + Excess(r), b, g, tp)
        /\ (\A i \in DOMAIN x : x[i] > 0) => \A i \in DOMAIN w : w[i] > 0
        /\ \A i \in DOMAIN l :
             /\ page[l[i]] \notin {"</body>", "</html>"}
             /\ i > 1 /\ page[l[i]] = ">" => page[l[i - 1]] # "</"
    <3> HIDE DEF w, l, e
    <3> QED BY <1>16, <2>1, ZenonT(90) DEF Held
  <2> QED BY <2>2
<1> HIDE DEF w, l, e
<1>18. /\ Len(l) \in Nat /\ m + n + e \in Nat /\ k = (m + n + e) + Len(l) + 0 /\ m + n + e <= k
       /\ k \in Nat
  <2>1. Len(l) \in Nat BY <1>17, LenProperties DEF Html
  <2>2. m + n + e \in Nat
    <3>1. \A i, j, h \in Nat : i + j + h \in Nat OBVIOUS
    <3> QED BY <1>11, <1>17, <3>1
  <2>3. k = (m + n + e) + Len(l) BY <1>3, <1>4, <1>17
  <2>4. \A i, j \in Nat : i + j = i + j + 0 /\ i <= i + j /\ i + j \in Nat OBVIOUS
  <2>5. /\ (m + n + e) + Len(l) = (m + n + e) + Len(l) + 0
        /\ m + n + e <= (m + n + e) + Len(l) /\ (m + n + e) + Len(l) \in Nat
    BY <2>1, <2>2, <2>4
  <2> QED BY <2>1, <2>2, <2>3, <2>5
<1>19. BodyOpen(m + n + e, tp) BY <1>18, BodyOpenBefore
<1>20. <<>> \in Html /\ Len(<<>>) = 0 /\ Follow(<<>>, m + n + e) BY <1>18, NothingFollows
<1>21. v.produced = g + Len(y) + Len(v.queue) BY <1>9, <1>15
<1>22. Turned(a, v, t, tp, k, w, y, l, <<>>, m + n + e, g)
  BY <1>6, <1>15, <1>17, <1>18, <1>19, <1>20, <1>21 DEF Turned
<1> QED BY <1>4, <1>22 DEF w, l, e

-----------------------------------------------------------------------------
(* The steps. *)

LEMMA Stays ==
  ASSUME Inv, page' = page, late' \in BOOLEAN, split' \in BOOLEAN,
         Good(app', ssr', tr', late', split')
  PROVE  Inv'
<1>1. Good(app, ssr, tr, late, split)' BY SamePage
<1>2. page' \in Pages BY DEF Inv
<1> QED BY <1>1, <1>2 DEF Inv

LEMMA SerializeStep == ASSUME Inv, Serialize PROVE Inv'
<1>1. page \in Pages /\ Good(app, ssr, tr, late, split) BY DEF Inv
<1>2. ssr.produced \in 1..Scripts /\ ssr.produced < Scripts - 1
  <2>1. Typed(app, ssr, tr) BY <1>1 DEF Good
  <2> QED BY <1>1, <2>1, Fields DEF Serialize
<1>3. ssr.produced < Scripts BY <1>2, StreamAssumption
<1>4. ssr' = Enqueue(ssr) BY DEF Serialize
<1>5. Good(app, ssr', tr, late, split) BY <1>1, <1>3, <1>4, EnqueueGood, Zenon
<1> QED BY <1>5, Stays DEF Serialize, Inv

\* What Inject gives is a pair again.
LEMMA InjectPair ==
  ASSUME NEW v \in SsrType, NEW t \in TrType, NEW i, i = Inject([ssr |-> v, tr |-> t])
  PROVE  i = [ssr |-> i.ssr, tr |-> i.tr]
<1> DEFINE w == [ssr |-> v, tr |-> t]
<1>1. w.ssr = v /\ w.tr = t OBVIOUS
<1>2. CASE ~v.live \/ v.queue = <<>>
  <2>1. i = [w EXCEPT !.ssr.microtask = "none"] BY <1>1, <1>2 DEF Inject
  <2>2. i = [ssr |-> [v EXCEPT !.microtask = "none"], tr |-> t] BY <2>1
  <2> QED BY <2>2
<1>3. CASE v.live /\ v.queue # <<>>
  <2>1. PICK x, y : i = [ssr |-> x, tr |-> y] BY <1>1, <1>3 DEF Inject
  <2> QED BY <2>1
<1> QED BY <1>2, <1>3 DEF SsrType

LEMMA SerializeDoneStep == ASSUME Inv, SerializeDone PROVE Inv'
<1>1. page \in Pages /\ Good(app, ssr, tr, late, split) BY DEF Inv
<1>2. Typed(app, ssr, tr) BY <1>1 DEF Good
<1>3. ssr.produced \in 1..Scripts /\ ssr.produced = Scripts - 1 /\ ssr.produced < Scripts
  BY <1>1, <1>2, Fields, StreamAssumption DEF SerializeDone
<1> DEFINE e == Enqueue(ssr)
           w == [ssr |-> e, tr |-> tr]
           i == IF e.lifted THEN Inject(w) ELSE w
<1>4. Good(app, e, tr, late, split) /\ e.produced = ssr.produced + 1
  <2>1. PICK z : z = Enqueue(ssr) OBVIOUS
  <2>2. Good(app, z, tr, late, split) /\ z.produced = ssr.produced + 1
    BY <1>1, <1>3, <2>1, EnqueueGood
  <2> QED BY <2>1, <2>2
<1>5. e.produced = Scripts BY <1>3, <1>4, StreamAssumption
<1>6. e \in SsrType /\ tr \in TrType BY <1>4 DEF Good, Typed
<1>7. ssr' = Signal(i).ssr /\ tr' = Signal(i).tr
  <2>1. w.ssr = e OBVIOUS
  <2> QED BY <2>1 DEF SerializeDone, Becomes
<1> HIDE DEF e
<1>8. /\ Good(app, i.ssr, i.tr, late, split) /\ i.ssr.produced = Scripts
      /\ i.ssr.live /\ i.ssr.lifted => i.ssr.queue = <<>>
      /\ i = [ssr |-> i.ssr, tr |-> i.tr]
  <2>1. CASE e.lifted
    <3>1. i = Inject([ssr |-> e, tr |-> tr]) BY <2>1
    <3> HIDE DEF i
    <3>2. /\ Good(app, i.ssr, i.tr, late, split)
          /\ e.live => i.ssr.queue = <<>>
          /\ i.ssr.produced = e.produced /\ i.ssr.live = e.live
      <4>1. e.lifted \/ e.microtask # "none" BY <2>1
      <4> QED BY <1>1, <1>4, <3>1, <4>1, InjectGood
    <3>3. i = [ssr |-> i.ssr, tr |-> i.tr] BY <1>6, <3>1, InjectPair
    <3> QED BY <1>5, <3>2, <3>3
  <2>2. CASE ~e.lifted
    <3>1. i = [ssr |-> e, tr |-> tr] BY <2>2
    <3>2. i.ssr = e /\ i.tr = tr BY <3>1
    <3> QED BY <1>4, <1>5, <2>2, <3>1, <3>2
  <2> QED BY <2>1, <2>2
<1> HIDE DEF i
<1>9. Good(app, Signal(i).ssr, Signal(i).tr, late, split)
  <2>1. i.ssr.failed \/ i.ssr.produced = Scripts BY <1>8
  <2>2. i.ssr.live /\ i.ssr.lifted => i.ssr.failed \/ i.ssr.queue = <<>> BY <1>8
  <2>3. PICK o : o = Signal([ssr |-> i.ssr, tr |-> i.tr]) OBVIOUS
  <2>4. Good(app, o.ssr, o.tr, late, split)
    BY <1>1, <1>8, <2>1, <2>2, <2>3, SignalGood
  <2> QED BY <1>8, <2>3, <2>4
<1>10. Good(app, ssr', tr', late, split) BY <1>7, <1>9
<1> QED BY <1>10, Stays DEF SerializeDone, Inv

\* That serialization failed may be known before it is signalled.
LEMMA FailedGood ==
  ASSUME page \in Pages, NEW a, NEW v, NEW t, NEW lt, NEW sp, Good(a, v, t, lt, sp),
         NEW f, f = [v EXCEPT !.failed = TRUE]
  PROVE  Good(a, f, t, lt, sp) /\ f.failed
<1>1. Typed(a, v, t) BY DEF Good
<1>2. /\ f \in SsrType /\ f.failed /\ f.queue = v.queue /\ f.produced = v.produced
      /\ f.live = v.live /\ f.lifted = v.lifted /\ f.microtask = v.microtask
      /\ f.finished = v.finished
  BY <1>1 DEF Typed, SsrType
<1>3. Typed(a, f, t) BY <1>1, <1>2 DEF Typed
<1>4. ASSUME t.stream = "open" PROVE Working(a, f, t, lt, sp)
  <2>1. Working(a, v, t, lt, sp) BY <1>4 DEF Good
  <2>2. Given(f, t) = Given(v, t) BY <1>2 DEF Given
  <2>3. ScriptsInPlace(a.inBar, f, t) BY <1>2, <2>1, <2>2 DEF Working, ScriptsInPlace
  <2>4. Lifted(f, t) BY <1>2, <2>1 DEF Working, Lifted
  <2>5. Flushed(f) BY <1>2 DEF Flushed
  <2>6. Lateness(a, f, t, lt) BY <1>2, <2>1 DEF Working, Lateness
  <2> QED BY <1>2, <2>1, <2>3, <2>4, <2>5, <2>6 DEF Working
<1>5. t.stream = "closed" => Complete(a.inBar, lt \/ f.failed, t.out)
  BY <1>2 DEF Good, Complete
<1> QED BY <1>2, <1>3, <1>4, <1>5 DEF Good

LEMMA SerializeErrorStep == ASSUME Inv, SerializeError PROVE Inv'
<1>1. page \in Pages /\ Good(app, ssr, tr, late, split) BY DEF Inv
<1> DEFINE f == [ssr EXCEPT !.failed = TRUE]
<1>2. [Now EXCEPT !.ssr.failed = TRUE] = [ssr |-> f, tr |-> tr]
  <2> DEFINE w == [ssr |-> ssr, tr |-> tr]
  <2>1. w.ssr = ssr /\ w.tr = tr OBVIOUS
  <2>2. ssr \in SsrType BY <1>1 DEF Good, Typed
  <2> HIDE DEF w
  <2>3. [w EXCEPT !.ssr.failed = TRUE] = [w EXCEPT !.ssr = [w.ssr EXCEPT !.failed = TRUE]]
    OBVIOUS
  <2>4. [w EXCEPT !.ssr = f] = [ssr |-> f, tr |-> tr]
    <3>1. \A x, y, z : [[ssr |-> x, tr |-> y] EXCEPT !.ssr = z] = [ssr |-> z, tr |-> y]
      OBVIOUS
    <3> HIDE DEF f
    <3> QED BY <3>1 DEF w
  <2>5. [w EXCEPT !.ssr.failed = TRUE] = [ssr |-> f, tr |-> tr] BY <2>1, <2>3, <2>4
  <2> QED BY <2>5 DEF Now, w
<1>3. PICK o : o = Signal([ssr |-> f, tr |-> tr]) OBVIOUS
<1>4. ssr' = o.ssr /\ tr' = o.tr BY <1>2, <1>3 DEF SerializeError, Becomes
<1>5. Good(app, f, tr, late, split) /\ f.failed BY <1>1, FailedGood
<1> HIDE DEF f
<1>6. Good(app, o.ssr, o.tr, late, split) BY <1>1, <1>3, <1>5, SignalGood
<1>7. Good(app, ssr', tr', late, split) BY <1>4, <1>6
<1> QED BY <1>7, Stays DEF SerializeError, Inv

LEMMA MicrotaskStep == ASSUME Inv, Microtask PROVE Inv'
<1>1. page \in Pages /\ Good(app, ssr, tr, late, split) BY DEF Inv
<1>2. PICK i : i = Inject([ssr |-> ssr, tr |-> tr]) OBVIOUS
<1>3. ssr' = i.ssr /\ tr' = i.tr BY <1>2 DEF Microtask, Becomes, Now
<1>4. ssr.lifted \/ ssr.microtask # "none" BY DEF Microtask
<1>5. Good(app, i.ssr, i.tr, late, split) BY <1>1, <1>2, <1>4, InjectGood
<1>6. Good(app, ssr', tr', late, split) BY <1>3, <1>5
<1> QED BY <1>6, Stays DEF Microtask, Inv

\* The application renders, but not the element of <Scripts>.
LEMMA AppGood ==
  ASSUME page \in Pages, NEW a, NEW v, NEW t, NEW lt, NEW sp, Good(a, v, t, lt, sp),
         NEW b \in AppType, b.inBar = a.inBar, a.rendered <= b.rendered,
         b.state = "ended" => b.rendered = Len(page),
         v.live => (Bar <= b.rendered <=> Bar <= a.rendered)
  PROVE  Good(b, v, t, lt, sp)
<1>1. Typed(a, v, t) BY DEF Good
<1>2. Typed(b, v, t)
  <2>1. t.read \in Nat /\ a.rendered \in Nat /\ t.read <= a.rendered
    <3>1. t.read \in Nat /\ a.rendered \in 0..Len(page) BY <1>1, Fields
    <3> QED BY <1>1, <3>1, PageOK DEF Typed
  <2>2. b.rendered \in Nat BY PageOK DEF AppType
  <2>3. t.read <= b.rendered BY <2>1, <2>2
  <2> QED BY <1>1, <2>3 DEF Typed
<1>3. ASSUME t.stream = "open" PROVE Working(b, v, t, lt, sp)
  <2>1. Working(a, v, t, lt, sp) BY <1>3 DEF Good
  <2>2. Bar <= b.rendered <=> Bar <= a.rendered BY <2>1 DEF Working
  <2>3. b.rendered < Bar <=> a.rendered < Bar
    <3>1. b.rendered \in Nat /\ a.rendered \in Nat /\ Bar \in Nat
      BY <1>1, <1>2, Fields, PageOK
    <3> QED BY <2>2, <3>1
  <2>4. Lateness(b, v, t, lt) BY <2>1, <2>2 DEF Working, Lateness
  <2> QED BY <2>1, <2>3, <2>4 DEF Working
<1> QED BY <1>2, <1>3 DEF Good

\* The element of <Scripts> takes every script there is.
LEMMA BarGood ==
  ASSUME page \in Pages, NEW a, NEW v, NEW t, NEW lt, NEW sp, Good(a, v, t, lt, sp),
         v.live, a.rendered + 1 = Bar, a.state = "rendering",
         NEW b, b = [a EXCEPT !.rendered = @ + 1, !.inBar = v.queue],
         NEW e, e = [v EXCEPT !.queue = <<>>]
  PROVE  Good(b, e, t, lt, sp)
<1>1. t.stream = "open" BY DEF Good
<1>2. /\ Typed(a, v, t) /\ Working(a, v, t, lt, sp) /\ SentTo(t) \in Nat
      /\ Given(v, t) \in Nat /\ v.produced = Given(v, t) + Len(t.pending) + Len(v.queue)
      /\ Sent(t.out, SentTo(t), Len(a.inBar), Given(v, t), sp)
  BY <1>1, SentSoFar
<1>3. /\ a.rendered \in Nat /\ t.read \in Nat /\ t.read <= a.rendered /\ Bar \in 1..Len(page)
      /\ Len(page) \in Nat
  BY <1>2, Fields, PageOK DEF Typed
<1>4. a.inBar = <<>> BY <1>2, <1>3 DEF Working
<1>5. ~v.lifted
  <2>1. ~(Bar <= t.read) BY <1>3
  <2> QED BY <1>2, <2>1 DEF Working, Lifted
<1>6. t.pending = <<>> /\ v.microtask = "none" /\ \A i \in DOMAIN t.out : t.out[i] > 0
  BY <1>2, <1>5 DEF Working, Lifted
<1>7. t.out \in Seq(Int) /\ v.queue \in Injected /\ v.queue \in Seq(Int)
  BY <1>2, Fields
<1>8. PICK q \in Nat : q = Len(v.queue) BY <1>7, LenProperties
<1>9. /\ Negative(t.out) \in Seq(Int)
      /\ \A i \in DOMAIN Negative(t.out) : Negative(t.out)[i] < 0
  <2>1. /\ Negative(t.out) \in Seq(Int) /\ DOMAIN Negative(t.out) = DOMAIN t.out
        /\ \A i \in DOMAIN t.out : Negative(t.out)[i] = -t.out[i] /\ t.out[i] \in Int
    BY <1>7, NegativeSeq DEF Negative
  <2> QED BY <1>6, <2>1
<1>10. Given(v, t) = 0
  <2>1. Lists(Negative(t.out), 0, Given(v, t)) BY <1>2, <1>4 DEF Sent
  <2>2. ASSUME Given(v, t) > 0 PROVE FALSE
    <3>1. Given(v, t) \in (0 + 1)..Given(v, t) BY <1>2, <2>2
    <3>2. PICK i \in DOMAIN Negative(t.out) : Negative(t.out)[i] = Given(v, t)
      BY <2>1, <3>1 DEF Lists
    <3>3. Negative(t.out)[i] < 0 BY <1>9
    <3> QED BY <1>2, <3>2, <3>3
  <2> QED BY <1>2, <2>2
<1>11. v.produced = q /\ Follow(Negative(v.queue), 0)
  <2>1. Len(t.pending) = 0 /\ 0 + 0 = 0 BY <1>6
  <2>2. Follow(Negative(v.queue), Given(v, t) + Len(t.pending))
    BY <1>2 DEF Working, ScriptsInPlace
  <2> QED BY <1>2, <1>8, <1>10, <2>1, <2>2
<1>12. Lists(Negative(t.out), q, q)
  <2>1. \A i \in DOMAIN Negative(t.out) : Negative(t.out)[i] <= 0
    <3>1. \A i \in DOMAIN Negative(t.out) : Negative(t.out)[i] \in Int
      BY <1>9, ElementOfSeq
    <3> QED BY <1>9, <3>1
  <2>2. q <= q OBVIOUS
  <2> QED BY <1>9, <2>1, <2>2, OthersLists
<1>13. /\ b \in AppType /\ b.rendered = Bar /\ b.inBar = v.queue /\ b.state = "rendering"
  <2>1. a \in AppType /\ Bar \in 0..Len(page) BY <1>2, <1>3 DEF Typed
  <2> QED BY <1>7, <2>1 DEF AppType
<1>14. <<>> \in Injected /\ Len(<<>>) = 0 /\ Follow(Negative(<<>>), q) BY NothingFollows
<1>15. /\ e \in SsrType /\ e.queue = <<>> /\ e.produced = v.produced /\ e.live /\ ~e.lifted
       /\ e.microtask = v.microtask /\ e.finished = v.finished /\ e.failed = v.failed
  BY <1>2, <1>5, <1>14 DEF Typed, SsrType
<1>16. Typed(b, e, t)
  <2>1. t.read <= Bar BY <1>3
  <2> QED BY <1>2, <1>13, <1>15, <2>1 DEF Typed
<1>17. Given(e, t) = q
  <2>1. Len(e.queue) = 0 /\ Len(t.pending) = 0 /\ q - 0 - 0 = q BY <1>6, <1>15
  <2> QED BY <1>11, <1>15, <2>1 DEF Given
<1>18. ScriptsInPlace(b.inBar, e, t)
  <2>1. q <= q /\ Len(t.pending) = 0 /\ q + 0 = q BY <1>6
  <2> QED BY <1>6, <1>8, <1>11, <1>12, <1>13, <1>14, <1>15, <1>17, <2>1 DEF ScriptsInPlace
<1>19. Lifted(e, t) BY <1>2, <1>5, <1>6, <1>15 DEF Working, Lifted
<1>20. Flushed(e) BY <1>15 DEF Flushed
<1>21. Lateness(b, e, t, lt) BY <1>2, <1>15 DEF Working, Lateness
<1>22. ~(b.rendered < Bar) BY <1>3, <1>13
<1>23. Working(b, e, t, lt, sp)
  BY <1>2, <1>13, <1>15, <1>18, <1>19, <1>20, <1>21, <1>22 DEF Working
<1> QED BY <1>1, <1>15, <1>16, <1>23 DEF Good

LEMMA RenderStep == ASSUME Inv, Render PROVE Inv'
<1>1. page \in Pages /\ Good(app, ssr, tr, late, split) BY DEF Inv
<1>2. Typed(app, ssr, tr) BY <1>1 DEF Good
<1>3. /\ app \in AppType /\ app.state = "rendering" /\ app.rendered \in Nat
      /\ app.rendered < Len(page) /\ Len(page) \in Nat /\ Bar \in 1..Len(page)
      /\ page[Bar] = "bar" /\ \A i \in 1..Len(page) : page[i] = "bar" => i = Bar
  BY <1>1, <1>2, Fields, PageOK DEF Render
<1>4. app.rendered + 1 \in 1..Len(page) BY <1>3
<1> DEFINE bar == page[app.rendered + 1] = "bar" /\ ssr.live
<1>5. CASE bar
  <2>1. app.rendered + 1 = Bar BY <1>3, <1>4, <1>5
  <2>2. /\ app' = [app EXCEPT !.rendered = @ + 1, !.inBar = ssr.queue]
        /\ ssr' = [ssr EXCEPT !.queue = <<>>]
    BY <1>5 DEF Render
  <2>3. Good(app', ssr', tr, late, split) BY <1>1, <1>3, <1>5, <2>1, <2>2, BarGood
  <2> QED BY <2>3, Stays DEF Render, Inv
<1>6. CASE ~bar
  <2>1. app' = [app EXCEPT !.rendered = @ + 1, !.inBar = @] /\ ssr' = ssr BY <1>6 DEF Render
  <2>2. /\ app' \in AppType /\ app'.inBar = app.inBar /\ app'.rendered = app.rendered + 1
        /\ app'.state = "rendering"
    <3>1. app.rendered + 1 \in 0..Len(page) BY <1>3, <1>4
    <3> QED BY <1>3, <2>1, <3>1 DEF AppType
  <2>3. ssr.live => app.rendered + 1 # Bar BY <1>3, <1>6
  <2>4. /\ app.rendered <= app'.rendered
        /\ ssr.live => (Bar <= app'.rendered <=> Bar <= app.rendered)
    BY <1>3, <2>2, <2>3
  <2>5. Good(app', ssr, tr, late, split) BY <1>1, <2>2, <2>4, AppGood
  <2>6. Good(app', ssr', tr, late, split) BY <2>1, <2>5
  <2> QED BY <2>6, Stays DEF Render, Inv
<1> QED BY <1>5, <1>6

LEMMA RenderEndStep == ASSUME Inv, RenderEnd PROVE Inv'
<1>1. page \in Pages /\ Good(app, ssr, tr, late, split) BY DEF Inv
<1>2. Typed(app, ssr, tr) BY <1>1 DEF Good
<1>3. app \in AppType /\ app.rendered \in Nat BY <1>1, <1>2, Fields, PageOK
<1>4. /\ app' \in AppType /\ app'.inBar = app.inBar /\ app'.rendered = app.rendered
      /\ app'.state = "ended" => app'.rendered = Len(page)
  BY <1>3 DEF RenderEnd, AppType
<1>5. app.rendered <= app'.rendered BY <1>3, <1>4
<1>6. Good(app', ssr, tr, late, split) BY <1>1, <1>4, <1>5, AppGood
<1> QED BY <1>6, Stays DEF RenderEnd, Inv

LEMMA AttachGood ==
  ASSUME page \in Pages, NEW a, NEW v, NEW t, NEW lt, NEW sp, Good(a, v, t, lt, sp),
         t.mode = "none",
         NEW o, o = [t EXCEPT !.mode = IF v.finished THEN "passthrough" ELSE "on",
                              !.pending = <<>>, !.finished = v.finished,
                              !.listening = ~v.finished],
         NEW m, ~m /\ v.finished /\ Bar <= a.rendered => v.queue = <<>>
  PROVE  Good(a, v, o, m, sp)
<1>1. t.stream = "open" /\ Typed(a, v, t) /\ Working(a, v, t, lt, sp) BY DEF Good
<1>2. /\ t.read = 0 /\ t.out = <<>> /\ t.rendering /\ t.leftover = <<>> /\ t.closing = <<>>
      /\ t.pending = <<>> /\ ~t.barrier
  BY <1>1 DEF Working, Attached
<1>3. /\ o \in TrType /\ o.mode = (IF v.finished THEN "passthrough" ELSE "on")
      /\ o.pending = t.pending /\ o.finished = v.finished /\ o.listening = ~v.finished
      /\ o.read = t.read /\ o.out = t.out /\ o.leftover = t.leftover /\ o.closing = t.closing
      /\ o.rendering = t.rendering /\ o.barrier = t.barrier /\ o.stream = t.stream
  BY <1>1, <1>2 DEF Typed, TrType, SsrType
<1>4. SentTo(o) = SentTo(t) /\ Given(v, o) = Given(v, t) BY <1>3 DEF SentTo, Given
<1>5. SentTo(t) = 0
  <2>1. SentTo(t) \in Nat /\ t.read = SentTo(t) + Len(t.leftover) + Len(t.closing)
    BY <1>1, SentSoFar
  <2>2. Len(t.leftover) = 0 /\ Len(t.closing) = 0 BY <1>2
  <2> QED BY <1>2, <2>1, <2>2
<1>6. HtmlInPlace(o) BY <1>1, <1>3, <1>4 DEF Working, HtmlInPlace
<1>7. ScriptsInPlace(a.inBar, v, o) BY <1>1, <1>3, <1>4 DEF Working, ScriptsInPlace
<1>8. HeldBack(o) BY <1>1, <1>3 DEF Working, HeldBack
<1>9. BodyOpen(SentTo(o), sp) BY <1>4, <1>5 DEF BodyOpen
<1>10. Attached(o)
  <2>1. CASE v.finished
    <3>1. o.mode = "passthrough" BY <1>3, <2>1
    <3>2. ~o.listening
      <4>1. o.listening = FALSE BY <1>3, <2>1
      <4> QED BY <4>1
    <3> QED BY <1>2, <1>3, <3>1, <3>2 DEF Attached
  <2>2. CASE ~v.finished BY <1>2, <1>3, <2>2 DEF Attached
  <2> QED BY <2>1, <2>2
<1>11. Lifted(v, o)
  <2>1. ~v.lifted BY <1>1 DEF Working, Lifted
  <2>2. ~(Bar <= o.read) BY <1>2, <1>3, PageOK
  <2> QED BY <1>1, <1>2, <1>3, <2>1, <2>2 DEF Working, Lifted
<1>12. Lateness(a, v, o, m) BY <1>3 DEF Lateness
<1>13. o.finished => v.finished BY <1>3
<1>14. Working(a, v, o, m, sp)
  BY <1>1, <1>6, <1>7, <1>8, <1>9, <1>10, <1>11, <1>12, <1>13 DEF Working
<1>15. Typed(a, v, o) BY <1>1, <1>3 DEF Typed
<1> QED BY <1>1, <1>3, <1>14, <1>15 DEF Good

LEMMA AttachStep == ASSUME Inv, Attach PROVE Inv'
<1>1. page \in Pages /\ Good(app, ssr, tr, late, split) BY DEF Inv
<1>2. Typed(app, ssr, tr) BY <1>1 DEF Good
<1>3. ssr \in SsrType /\ ssr.buffered = <<>> BY <1>1, <1>2, Fields
<1>4. ssr' = ssr BY <1>3 DEF Attach, SsrType
<1>5. tr.mode = "none" BY DEF Attach
<1>6. tr' = [tr EXCEPT !.mode = IF ssr.finished THEN "passthrough" ELSE "on",
                       !.pending = <<>>, !.finished = ssr.finished,
                       !.listening = ~ssr.finished]
  BY <1>3 DEF Attach
<1>7. late' = (ssr.finished /\ ssr.queue # <<>> /\ \E p \in 1..app.rendered : page[p] = "bar")
  BY <1>3 DEF Attach
<1>8. ~late' /\ ssr.finished /\ Bar <= app.rendered => ssr.queue = <<>>
  <2>1. SUFFICES ASSUME ~late', ssr.finished, Bar <= app.rendered PROVE ssr.queue = <<>>
    OBVIOUS
  <2>2. app.rendered \in 0..Len(page) BY <1>1, <1>2, Fields
  <2>3. Bar \in 1..Len(page) /\ page[Bar] = "bar" /\ Len(page) \in Nat BY <1>1, PageOK
  <2>4. Bar \in 1..app.rendered BY <2>1, <2>2, <2>3
  <2> QED BY <1>7, <2>1, <2>3, <2>4
<1>9. Good(app, ssr, tr', late', split) BY <1>1, <1>5, <1>6, <1>8, AttachGood
<1>10. Good(app, ssr', tr', late', split) BY <1>4, <1>9
<1>11. late' \in BOOLEAN BY <1>7
<1> QED BY <1>10, <1>11, Stays DEF Attach, Inv

LEMMA LiftTyped ==
  ASSUME NEW v \in SsrType, NEW e, e = Lift(v)
  PROVE  /\ e \in SsrType /\ e.produced = v.produced /\ e.queue = v.queue
         /\ e.live = v.live /\ e.finished = v.finished /\ e.failed = v.failed
         /\ v.lifted => e = v
BY DEF Lift, SsrType

LEMMA AppErrorStep == ASSUME Inv, AppError PROVE Inv'
<1>1. page \in Pages /\ Good(app, ssr, tr, late, split) BY DEF Inv
<1>2. Typed(app, ssr, tr) BY <1>1 DEF Good
<1>3. PICK e : e = Lift(ssr) OBVIOUS
<1>4. PICK t : t = [tr EXCEPT !.rendering = FALSE] OBVIOUS
<1>5. PICK o : o = Over([ssr |-> e, tr |-> t], "errored") OBVIOUS
<1>6. ssr' = o.ssr /\ tr' = o.tr BY <1>3, <1>4, <1>5 DEF AppError, Becomes
<1>7. e \in SsrType /\ e.produced = ssr.produced /\ e.finished = ssr.finished /\ e.failed = ssr.failed
  BY <1>2, <1>3, LiftTyped DEF Typed
<1>8. /\ t \in TrType /\ t.read = tr.read /\ t.leftover = tr.leftover /\ t.out = tr.out
      /\ t.mode = tr.mode
  BY <1>2, <1>4 DEF Typed, TrType
<1>9. Typed(app, e, t) BY <1>2, <1>7, <1>8 DEF Typed
<1>10. tr.mode # "none" BY DEF AppError
<1>11. e.finished /\ ~e.failed => e.produced = Scripts BY <1>1, <1>7 DEF Good
<1>12. Placed(t.out, split) BY <1>1, <1>8 DEF Good
<1>13. Good(app, o.ssr, o.tr, late, split)
  BY <1>1, <1>5, <1>8, <1>9, <1>10, <1>11, <1>12, OverGood
<1>14. Good(app, ssr', tr', late, split) BY <1>6, <1>13
<1> QED BY <1>14, Stays DEF AppError, Inv

\* The response is given up.
LEMMA GivenUp ==
  ASSUME Inv, NEW how \in {"errored", "cancelled"}, tr.mode # "none",
         Becomes(Over(Now, how)), UNCHANGED <<page, app, late, split>>
  PROVE  Inv'
<1>1. page \in Pages /\ Good(app, ssr, tr, late, split) BY DEF Inv
<1>2. PICK o : o = Over([ssr |-> ssr, tr |-> tr], how) OBVIOUS
<1>3. ssr' = o.ssr /\ tr' = o.tr BY <1>2 DEF Becomes, Now
<1>4. /\ Typed(app, ssr, tr) /\ (ssr.finished /\ ~ssr.failed => ssr.produced = Scripts)
      /\ Placed(tr.out, split)
  BY <1>1 DEF Good
<1>5. how \in {"closed", "errored", "cancelled"} /\ how # "closed" OBVIOUS
<1>6. Good(app, o.ssr, o.tr, late, split) BY <1>1, <1>2, <1>4, <1>5, OverGood
<1>7. Good(app, ssr', tr', late, split) BY <1>3, <1>6
<1> QED BY <1>7, Stays DEF Inv

LEMMA TimeoutStep == ASSUME Inv, SerializationTimeout PROVE Inv'
<1>1. tr.mode # "none" BY DEF Inv, Good, SerializationTimeout
<1> QED BY <1>1, GivenUp DEF SerializationTimeout

LEMMA AbandonStep == ASSUME Inv, Abandon PROVE Inv'
BY GivenUp DEF Abandon

LEMMA TextGoesOn ==
  ASSUME NEW s, NEW l, NEW c, NEW n, NEW k, GoesOn(s, l, c, n, k)
  PROVE  s \in Html /\ (c = <<>> => Follow(s, n))
BY DEF GoesOn

\* What the assignments of a turn amount to.
TurnRead(t, k, bar) == [t EXCEPT !.read = k, !.barrier = @ \/ bar]
Kept(u, l, c) == [u EXCEPT !.closing = c, !.leftover = l]
HeldLast(u, x, l) == [u EXCEPT !.out = x, !.leftover = l]

LEMMA TurnKept ==
  ASSUME NEW t \in TrType, NEW k, NEW bar, NEW c, NEW l
  PROVE  Kept(TurnRead(t, k, bar), l, c) = Turn(t, k, bar, t.out, t.pending, l, c)
BY DEF Kept, Turn, TurnRead, TrType

LEMMA TurnHeld ==
  ASSUME NEW t \in TrType, NEW k, NEW bar, NEW x, NEW l
  PROVE  HeldLast(TurnRead(t, k, bar), x, l) = Turn(t, k, bar, x, t.pending, l, t.closing)
BY DEF HeldLast, Turn, TurnRead, TrType

LEMMA TurnSent ==
  ASSUME NEW t \in TrType, NEW k, NEW bar, NEW x, NEW c
  PROVE  Kept(Turn(t, k, bar, x, <<>>, t.leftover, t.closing), <<>>, c)
         = Turn(t, k, bar, x, <<>>, <<>>, c)
BY DEF Kept, Turn, TrType

\* One turn of the read loop.
LEMMA ReceivedGood ==
  ASSUME page \in Pages, NEW a, NEW v, NEW t, NEW lt, NEW sp \in BOOLEAN, NEW tp \in BOOLEAN,
         Good(a, v, t, lt, sp),
         t.stream = "open", t.mode = "on", t.rendering,
         NEW k \in (t.read + 1)..a.rendered,
         sp => tp, ~tp => page[k] # "</body>",
         NEW bar \in BOOLEAN, bar <=> t.read < Bar /\ Bar <= k,
         NEW u, u = TurnRead(t, k, bar),
         NEW s, s = Text(t.leftover, t.read, k), NEW o, o = Received(u, s),
         NEW e, e = IF bar THEN Lift(v) ELSE v
  PROVE  Good(a, e, o, lt, tp)
<1>1. ASSUME NEW x, NEW y, NEW l, NEW c, NEW n, NEW g,
             Turned(a, v, t, tp, k, x, y, l, c, n, g), o = Turn(t, k, bar, x, y, l, c)
      PROVE  Good(a, e, o, lt, tp)
  BY <1>1, TurnGood, Zenon
<1>2. Typed(a, v, t) /\ SentTo(t) \in Nat BY SentSoFar
<1>3. t \in TrType BY <1>2 DEF Typed
<1>4. s \in Html /\ (t.closing = <<>> => Follow(s, SentTo(t))) /\ Len(s) \in Nat
  <2>1. GoesOn(s, t.leftover, t.closing, SentTo(t), k) BY TextRead
  <2>2. s \in Html /\ (t.closing = <<>> => Follow(s, SentTo(t)))
    BY <2>1, TextGoesOn, Zenon
  <2> QED BY <2>2, LenProperties DEF Html
<1>5. u.out = t.out /\ u.pending = t.pending /\ u.closing = t.closing BY <1>3 DEF TurnRead, TrType
<1>6. CASE t.closing # <<>>
  <2>1. o = [u EXCEPT !.closing = u.closing \o s, !.leftover = <<>>]
    BY <1>5, <1>6 DEF Received
  <2>2. o = Turn(t, k, bar, t.out, t.pending, <<>>, t.closing \o s)
    <3>1. PICK c : c = t.closing \o s OBVIOUS
    <3>2. o = Kept(u, <<>>, c) BY <1>5, <2>1, <3>1 DEF Kept
    <3>3. o = Turn(t, k, bar, t.out, t.pending, <<>>, c)
      BY <1>3, <3>2, TurnKept
    <3> QED BY <3>1, <3>3
  <2>3. Turned(a, v, t, tp, k, t.out, t.pending, <<>>, t.closing \o s, SentTo(t), Given(v, t))
    BY <1>6, ReadBehind, Zenon
  <2> QED BY <1>1, <2>2, <2>3
<1>7. CASE t.closing = <<>> /\ Together(s)
  <2>1. PICK n : n = IndexOf(s, "</body>") OBVIOUS
  <2>2. n \in Nat \ {0}
    <3>1. n \in 0..Len(s) BY <1>2, <1>4, <1>7, <2>1, FirstTag
    <3> QED BY <1>4, <1>7, <2>1, <3>1 DEF Together
  <2>3. PICK x : x = (t.out \o SubSeq(s, 1, n - 1)) \o t.pending OBVIOUS
  <2>4. PICK c : c = SubSeq(s, n, Len(s)) OBVIOUS
  <2>5. o = Kept(SendTo(u, s, n - 1), <<>>, c)
    BY <1>5, <1>7, <2>1, <2>4 DEF Received, Together, Kept
  <2>6. SendTo(u, s, n - 1) = [u EXCEPT !.out = x, !.pending = <<>>]
    BY <1>5, <2>3 DEF SendTo
  <2>7. SendTo(u, s, n - 1) = Turn(t, k, bar, x, <<>>, t.leftover, t.closing)
    BY <1>3, <2>6, ZenonT(60) DEF Turn, TurnRead, TrType
  <2>8. o = Turn(t, k, bar, x, <<>>, <<>>, c)
    BY <1>3, <2>5, <2>7, TurnSent
  <2>9. Turned(a, v, t, tp, k, x, <<>>, <<>>, c, SentTo(t) + (n - 1), Given(v, t) + Len(t.pending))
    <3>1. Turned(a, v, t, tp, k, x, <<>>, <<>>, SubSeq(s, n, Len(s)),
                 SentTo(t) + (n - 1), Given(v, t) + Len(t.pending))
      BY <1>7, <2>1, <2>2, <2>3, ReadClosing, ZenonT(30)
    <3> QED BY <2>4, <3>1
  <2> QED BY <1>1, <2>8, <2>9
<1>8. CASE t.closing = <<>> /\ ~Together(s)
  <2>1. PICK n : n = LastTagEnd(s) OBVIOUS
  <2>2. PICK r : r = SubSeq(s, n + 1, Len(s)) OBVIOUS
  <2>3. PICK x : x = IF n > 0 THEN (t.out \o SubSeq(s, 1, n)) \o t.pending ELSE t.out OBVIOUS
  <2>4. PICK y : y = IF n > 0 THEN <<>> ELSE t.pending OBVIOUS
  <2>5. PICK g : g = IF n > 0 THEN Given(v, t) + Len(t.pending) ELSE Given(v, t) OBVIOUS
  <2>6. PICK w : w = IF n > 0 THEN SendTo(u, s, n) ELSE u OBVIOUS
  <2>7. o = HoldBack(w, r) BY <1>5, <1>8, <2>1, <2>2, <2>6 DEF Received, Together
  <2>8. PICK l : l = SubSeq(r, Excess(r) + 1, Len(r)) OBVIOUS
  <2>9. o = [w EXCEPT !.out = w.out \o SubSeq(r, 1, Excess(r)), !.leftover = l]
    BY <2>7, <2>8 DEF HoldBack, Excess
  <2>10. w.out = x /\ o = Turn(t, k, bar, x \o SubSeq(r, 1, Excess(r)), y, l, t.closing)
    <3>1. CASE n > 0
      <4>1. w = [u EXCEPT !.out = x, !.pending = <<>>] BY <1>5, <2>3, <2>6, <3>1 DEF SendTo
      <4>2. w = Turn(t, k, bar, x, <<>>, t.leftover, t.closing) BY <1>3, <4>1 DEF Turn, TurnRead, TrType
      <4>3. w.out = x BY <1>3, <4>2 DEF Turn, TurnRead, TrType
      <4>4. o = Turn(t, k, bar, x \o SubSeq(r, 1, Excess(r)), <<>>, l, t.closing)
        BY <1>3, <2>9, <4>2, <4>3 DEF Turn, TurnRead, TrType
      <4> QED BY <2>4, <3>1, <4>3, <4>4
    <3>2. CASE ~(n > 0)
      <4>1. w = u /\ x = t.out /\ y = t.pending BY <2>3, <2>4, <2>6, <3>2
      <4>2. PICK z : z = x \o SubSeq(r, 1, Excess(r)) OBVIOUS
      <4>3. w.out = x /\ o = HeldLast(u, z, l) BY <1>5, <2>9, <4>1, <4>2 DEF HeldLast
      <4>4. o = Turn(t, k, bar, z, t.pending, l, t.closing)
        BY <1>3, <4>3, TurnHeld
      <4> QED BY <4>1, <4>2, <4>3, <4>4
    <3> QED BY <3>1, <3>2
  <2>11. BodyOpen(k, tp) BY <1>8, TextStillOpen
  <2>12. Turned(a, v, t, tp, k, x \o SubSeq(r, 1, Excess(r)), y,
                SubSeq(r, Excess(r) + 1, Len(r)), <<>>, SentTo(t) + n + Excess(r), g)
    BY <1>8, <2>1, <2>2, <2>3, <2>4, <2>5, <2>11, ReadText, ZenonT(90)
  <2>13. Turned(a, v, t, tp, k, x \o SubSeq(r, 1, Excess(r)), y, l, <<>>,
                SentTo(t) + n + Excess(r), g)
    BY <2>8, <2>12
  <2>14. o = Turn(t, k, bar, x \o SubSeq(r, 1, Excess(r)), y, l, <<>>) BY <1>8, <2>10
  <2> QED BY <1>1, <2>13, <2>14
<1> QED BY <1>6, <1>7, <1>8

LEMMA StillPositive ==
  ASSUME page \in Pages, NEW out \in Seq(Item), NEW html \in Html,
         \A i \in DOMAIN out : out[i] > 0
  PROVE  \A i \in DOMAIN (out \o html) : (out \o html)[i] > 0
<1> DEFINE w == out \o html
<1>1. html \in Seq(Item) BY ItemSeqs
<1>2. /\ w \in Seq(Item) /\ Len(w) = Len(out) + Len(html)
      /\ Len(out) \in Nat /\ Len(html) \in Nat
      /\ \A i \in 1..Len(out) : w[i] = out[i]
      /\ \A i \in 1..Len(html) : w[Len(out) + i] = html[i]
  BY <1>1, ItemConcat
<1>3. \A i \in 1..Len(html) : html[i] \in 1..Len(page) BY ElementOfSeq DEF Html
<1> HIDE DEF w
<1>4. ASSUME NEW i \in 1..Len(w) PROVE w[i] > 0
  <2>1. CASE i <= Len(out) BY <1>2, <2>1
  <2>2. CASE i > Len(out)
    <3>1. i - Len(out) \in 1..Len(html) /\ i = Len(out) + (i - Len(out)) BY <1>2, <2>2
    <3>2. w[i] = html[i - Len(out)] BY <1>2, <3>1
    <3> QED BY <1>3, <3>1, <3>2, PageOK
  <2> QED BY <1>2, <2>1, <2>2
<1>5. DOMAIN w = 1..Len(w) BY <1>2
<1> QED BY <1>4, <1>5 DEF w

\* A response that is passed on unchanged.
LEMMA PassedOn ==
  ASSUME page \in Pages, NEW a, NEW v, NEW t, NEW lt, NEW sp \in BOOLEAN, Good(a, v, t, lt, sp),
         t.stream = "open", t.mode = "passthrough", NEW tp \in BOOLEAN, sp => tp,
         NEW k \in (t.read + 1)..a.rendered,
         NEW chunk, chunk = [i \in 1..(k - t.read) |-> t.read + i],
         NEW o, o = [t EXCEPT !.read = k, !.out = @ \o chunk]
  PROVE  Good(a, v, o, lt, tp)
<1>1. /\ Typed(a, v, t) /\ Working(a, v, t, lt, sp)
      /\ Len(a.inBar) \in Nat /\ Len(a.inBar) <= Given(v, t)
      /\ SentTo(t) \in Nat /\ t.read = SentTo(t) + Len(t.leftover) + Len(t.closing)
      /\ Given(v, t) \in Nat
      /\ Sent(t.out, SentTo(t), Len(a.inBar), Given(v, t), sp)
  BY SentSoFar
<1>2. /\ t.leftover = <<>> /\ t.closing = <<>> /\ t.pending = <<>> /\ t.rendering
      /\ ~t.listening /\ ~t.barrier
  BY <1>1 DEF Working, Attached
<1>3. /\ t.read \in Nat /\ a.rendered \in 0..Len(page) /\ Len(page) \in Nat
      /\ t \in TrType /\ t.out \in Seq(Item)
  BY <1>1, Fields, PageOK
<1>4. k \in Nat /\ t.read < k /\ k <= a.rendered /\ k <= Len(page) /\ t.read + (k - t.read) = k
  BY <1>3
<1>5. SentTo(t) = t.read
  <2>1. Len(t.leftover) = 0 /\ Len(t.closing) = 0 BY <1>2
  <2> QED BY <1>1, <2>1
<1>6. PICK x : x = t.out \o chunk OBVIOUS
<1>7. chunk \in Html /\ Len(chunk) = k - t.read /\ Follow(chunk, t.read) BY <1>3, <1>4, Chunk
<1>8. Sent(x, k, Len(a.inBar), Given(v, t), tp)
      /\ ((\A i \in DOMAIN t.out : t.out[i] > 0) => \A i \in DOMAIN x : x[i] > 0)
  <2>1. PICK b \in Nat : b = Len(a.inBar) BY <1>1
  <2>2. PICK g \in Nat : g = Given(v, t) /\ b <= g BY <1>1, <2>1
  <2>3. PICK r \in Nat : r = t.read BY <1>3
  <2>4. Sent(t.out, r, b, g, sp) /\ Follow(chunk, r) BY <1>1, <1>5, <1>7, <2>1, <2>2, <2>3
  <2>5. Sent(x, r + Len(chunk), b, g, tp)
    BY <1>6, <1>7, <2>2, <2>4, SendingHtml, ZenonT(30)
  <2>6. ASSUME \A i \in DOMAIN t.out : t.out[i] > 0 PROVE \A i \in DOMAIN x : x[i] > 0
    <3>1. \A i \in DOMAIN (t.out \o chunk) : (t.out \o chunk)[i] > 0
      BY <1>3, <1>7, <2>6, StillPositive
    <3> QED BY <1>6, <3>1
  <2>7. r + Len(chunk) = k BY <1>4, <1>7, <2>3
  <2> QED BY <2>1, <2>2, <2>5, <2>6, <2>7
<1>9. x \in Seq(Item) /\ Placed(x, tp) /\ Lists(x, 0, k)
      /\ Lists(Negative(x), Len(a.inBar), Given(v, t))
  BY <1>8 DEF Sent
<1>10. /\ o \in TrType /\ o.read = k /\ o.out = x
       /\ o.mode = t.mode /\ o.pending = t.pending /\ o.leftover = t.leftover
       /\ o.closing = t.closing /\ o.rendering = t.rendering /\ o.barrier = t.barrier
       /\ o.finished = t.finished /\ o.listening = t.listening /\ o.timer = t.timer
       /\ o.stream = t.stream
  <2>1. k \in 0..Len(page) BY <1>3, <1>4
  <2>2. o = [t EXCEPT !.read = k, !.out = x] BY <1>6
  <2> QED BY <1>3, <1>9, <2>1, <2>2 DEF TrType
<1>11. SentTo(o) = k
  <2>1. Len(o.leftover) = 0 /\ Len(o.closing) = 0 /\ k - 0 - 0 = k BY <1>2, <1>4, <1>10
  <2> QED BY <1>10, <2>1 DEF SentTo
<1>12. Given(v, o) = Given(v, t) BY <1>10 DEF Given
<1>13. HtmlInPlace(o)
  <2>1. k >= 0 BY <1>4
  <2>2. Follow(<<>>, k) BY <1>4, NothingFollows
  <2> QED BY <1>2, <1>9, <1>10, <1>11, <2>1, <2>2 DEF HtmlInPlace
<1>14. ScriptsInPlace(a.inBar, v, o)
  BY <1>1, <1>9, <1>10, <1>12 DEF Working, ScriptsInPlace
<1>15. HeldBack(o) BY <1>1, <1>10 DEF Working, HeldBack
<1>16. Attached(o) BY <1>2, <1>10 DEF Attached
<1>17. Lifted(v, o) BY <1>1, <1>8, <1>10 DEF Working, Lifted
<1>18. Lateness(a, v, o, lt) BY <1>1, <1>10 DEF Working, Lateness
<1>19. Working(a, v, o, lt, tp)
  BY <1>1, <1>10, <1>13, <1>14, <1>15, <1>16, <1>17, <1>18 DEF Working
<1>20. Typed(a, v, o) BY <1>1, <1>4, <1>10 DEF Typed
<1> QED BY <1>9, <1>10, <1>19, <1>20 DEF Good

LEMMA ReadChunkStep == ASSUME Inv, ReadChunk PROVE Inv'
<1>1. /\ page \in Pages /\ Good(app, ssr, tr, late, split)
      /\ split \in BOOLEAN /\ late \in BOOLEAN
  BY DEF Inv
<1>2. /\ tr.mode # "none" /\ tr.stream = "open" /\ tr.rendering
      /\ UNCHANGED <<page, app, late>>
  BY DEF ReadChunk, Open
<1>3. PICK k \in (tr.read + 1)..app.rendered :
       /\ split' = (split \/ page[k] = "</body>")
       /\ LET chunk == [i \in 1..(k - tr.read) |-> tr.read + i]
              s == tr.leftover \o chunk
              bar == ~tr.barrier /\ \E i \in DOMAIN s : page[s[i]] = "bar"
          IN  IF tr.mode = "passthrough"
              THEN /\ tr' = [tr EXCEPT !.read = k, !.out = @ \o chunk]
                   /\ ssr' = ssr
              ELSE /\ tr' = Received([tr EXCEPT !.read = k, !.barrier = @ \/ bar], s)
                   /\ ssr' = IF bar THEN Lift(ssr) ELSE ssr
  BY DEF ReadChunk
<1>4. PICK tp \in BOOLEAN : tp = split' BY <1>3
<1>5. (split => tp) /\ (~tp => page[k] # "</body>") BY <1>3, <1>4
<1>6. CASE tr.mode = "passthrough"
  <2>1. PICK chunk : chunk = [i \in 1..(k - tr.read) |-> tr.read + i] OBVIOUS
  <2>2. tr' = [tr EXCEPT !.read = k, !.out = @ \o chunk] /\ ssr' = ssr BY <1>3, <1>6, <2>1
  <2>3. Good(app, ssr, tr', late, tp) BY <1>1, <1>2, <1>5, <1>6, <2>1, <2>2, PassedOn, ZenonT(90)
  <2>4. Good(app', ssr', tr', late', split') BY <1>2, <1>4, <2>2, <2>3
  <2> QED BY <1>1, <1>2, <1>4, <2>4, Stays
<1>7. CASE tr.mode # "passthrough"
  <2>1. Typed(app, ssr, tr) BY <1>1 DEF Good
  <2>2. tr.mode = "on" BY <1>2, <1>7, <2>1 DEF Typed, TrType
  <2>3. PICK s : s = Text(tr.leftover, tr.read, k) OBVIOUS
  <2>4. PICK bar \in BOOLEAN : bar = (~tr.barrier /\ \E i \in DOMAIN s : page[s[i]] = "bar")
    OBVIOUS
  <2>5. bar <=> tr.read < Bar /\ Bar <= k
    <3>1. (~tr.barrier /\ \E i \in DOMAIN s : page[s[i]] = "bar") <=> tr.read < Bar /\ Bar <= k
      BY <1>1, <1>2, <2>2, <2>3, BarRead
    <3> QED BY <2>4, <3>1
  <2>6. PICK u : u = TurnRead(tr, k, bar) OBVIOUS
  <2>7. tr' = Received(u, s) /\ ssr' = IF bar THEN Lift(ssr) ELSE ssr
    BY <1>3, <1>7, <2>3, <2>4, <2>6 DEF Text, TurnRead
  <2>8. Good(app, ssr', tr', late, tp)
    BY <1>1, <1>2, <1>5, <2>2, <2>3, <2>5, <2>6, <2>7, ReceivedGood
  <2>9. Good(app', ssr', tr', late', split') BY <1>2, <1>4, <2>8
  <2> QED BY <1>1, <1>2, <1>4, <2>9, Stays
<1> QED BY <1>6, <1>7

\* The application's stream is over.
LEMMA RenderedGood ==
  ASSUME page \in Pages, NEW a, NEW v, NEW t, NEW lt, NEW sp, Good(a, v, t, lt, sp),
         t.stream = "open", t.mode = "on", t.read = Len(page), NEW timer \in BOOLEAN,
         NEW o, o = [t EXCEPT !.rendering = FALSE, !.timer = timer]
  PROVE  Good(a, v, o, lt, sp) /\ o.mode = "on" /\ o.finished = t.finished
<1>1. Typed(a, v, t) /\ Working(a, v, t, lt, sp) BY DEF Good
<1>2. /\ o \in TrType /\ o.read = t.read /\ o.out = t.out /\ ~o.rendering
      /\ o.mode = t.mode /\ o.pending = t.pending /\ o.leftover = t.leftover
      /\ o.closing = t.closing /\ o.barrier = t.barrier
      /\ o.finished = t.finished /\ o.listening = t.listening /\ o.stream = t.stream
  BY <1>1 DEF Typed, TrType
<1>3. SentTo(o) = SentTo(t) /\ Given(v, o) = Given(v, t) BY <1>2 DEF SentTo, Given
<1>4. HtmlInPlace(o) BY <1>1, <1>2, <1>3 DEF Working, HtmlInPlace
<1>5. ScriptsInPlace(a.inBar, v, o) BY <1>1, <1>2, <1>3 DEF Working, ScriptsInPlace
<1>6. HeldBack(o) BY <1>1, <1>2 DEF Working, HeldBack
<1>7. Attached(o) BY <1>1, <1>2 DEF Working, Attached
<1>8. Lifted(v, o) BY <1>1, <1>2 DEF Working, Lifted
<1>9. Lateness(a, v, o, lt) BY <1>1, <1>2 DEF Working, Lateness
<1>10. Working(a, v, o, lt, sp)
  BY <1>1, <1>2, <1>3, <1>4, <1>5, <1>6, <1>7, <1>8, <1>9 DEF Working
<1>11. Typed(a, v, o) BY <1>1, <1>2 DEF Typed
<1> QED BY <1>2, <1>10, <1>11 DEF Good

\* A response that was passed on is complete.
LEMMA PassedComplete ==
  ASSUME page \in Pages, NEW a, NEW v, NEW t, NEW lt, NEW sp, Good(a, v, t, lt, sp),
         t.stream = "open", t.mode = "passthrough", t.read = Len(page)
  PROVE  Complete(a.inBar, lt \/ v.failed, t.out)
<1>1. /\ Typed(a, v, t) /\ Working(a, v, t, lt, sp)
      /\ Len(a.inBar) \in Nat /\ Len(a.inBar) <= Given(v, t)
      /\ SentTo(t) \in Nat /\ t.read = SentTo(t) + Len(t.leftover) + Len(t.closing)
      /\ Given(v, t) \in Nat /\ v.produced = Given(v, t) + Len(t.pending) + Len(v.queue)
      /\ Sent(t.out, SentTo(t), Len(a.inBar), Given(v, t), sp)
  BY SentSoFar
<1>2. t.leftover = <<>> /\ t.closing = <<>> /\ t.pending = <<>>
  BY <1>1 DEF Working, Attached
<1>3. Len(t.leftover) = 0 /\ Len(t.closing) = 0 /\ Len(t.pending) = 0 BY <1>2
<1>4. SentTo(t) = Len(page) BY <1>1, <1>3
<1>5. t.out \in Seq(Item) /\ Lists(t.out, 0, Len(page))
      /\ Lists(Negative(t.out), Len(a.inBar), Given(v, t))
  BY <1>1, <1>4 DEF Sent
<1>6. ASSUME ~lt, ~v.failed PROVE Lists(Negative(a.inBar \o t.out), 0, Scripts)
  <2>1. Bar <= a.rendered
    <3>1. t.read <= a.rendered /\ a.rendered \in 0..Len(page) BY <1>1, Fields DEF Typed
    <3> QED BY <3>1, PageOK
  <2>2. v.finished /\ v.queue = <<>> BY <1>1, <1>6, <2>1 DEF Working, Lateness
  <2>3. v.produced = Scripts BY <1>6, <2>2 DEF Good
  <2>4. Given(v, t) = Scripts
    <3>1. Len(v.queue) = 0 BY <2>2
    <3> QED BY <1>1, <1>3, <2>3, <3>1
  <2>5. a.inBar \in Injected BY <1>1, Fields
  <2>6. Follow(Negative(a.inBar), 0) BY <1>1 DEF Working, ScriptsInPlace
  <2> QED BY <1>1, <1>5, <2>4, <2>5, <2>6, BarFirst
<1> QED BY <1>5, <1>6 DEF Complete

LEMMA AppDoneStep == ASSUME Inv, AppDone PROVE Inv'
<1>1. page \in Pages /\ Good(app, ssr, tr, late, split) BY DEF Inv
<1>2. /\ tr.mode # "none" /\ tr.stream = "open" /\ ssr.microtask # "lift"
      /\ tr.read = Len(page)
  BY DEF AppDone, Open
<1>3. Typed(app, ssr, tr) /\ Working(app, ssr, tr, late, split) BY <1>1, <1>2 DEF Good
<1>4. ssr \in SsrType /\ tr \in TrType BY <1>3 DEF Typed
<1>5. PICK e : e = Lift(ssr) OBVIOUS
<1>6. PICK t : t = [tr EXCEPT !.rendering = FALSE] OBVIOUS
<1>7. PICK w : w = [ssr |-> e, tr |-> t] OBVIOUS
<1>8. Becomes(IF tr.mode = "passthrough" THEN Over(w, "closed")
              ELSE IF tr.finished THEN TryFinish(w)
              ELSE [w EXCEPT !.tr.timer = TRUE])
  BY <1>5, <1>6, <1>7 DEF AppDone
<1>9. CASE tr.mode = "passthrough"
  <2>1. PICK o : o = Over([ssr |-> e, tr |-> t], "closed") OBVIOUS
  <2>2. ssr' = o.ssr /\ tr' = o.tr BY <1>7, <1>8, <1>9, <2>1 DEF Becomes
  <2>3. /\ e \in SsrType /\ e.produced = ssr.produced /\ e.finished = ssr.finished
        /\ e.failed = ssr.failed
    BY <1>4, <1>5, LiftTyped
  <2>4. /\ t \in TrType /\ t.read = tr.read /\ t.leftover = tr.leftover /\ t.out = tr.out
        /\ t.mode = tr.mode
    BY <1>4, <1>6 DEF TrType
  <2>5. Typed(app, e, t) BY <1>3, <2>3, <2>4 DEF Typed
  <2>6. e.finished /\ ~e.failed => e.produced = Scripts BY <1>1, <2>3 DEF Good
  <2>7. Placed(t.out, split) BY <1>1, <2>4 DEF Good
  <2>8. Complete(app.inBar, late \/ e.failed, t.out)
    <3>1. Complete(app.inBar, late \/ ssr.failed, tr.out)
      BY <1>1, <1>2, <1>9, PassedComplete
    <3> QED BY <2>3, <2>4, <3>1
  <2>9. Good(app, o.ssr, o.tr, late, split)
    BY <1>1, <1>2, <2>1, <2>4, <2>5, <2>6, <2>7, <2>8, OverGood
  <2>10. Good(app, ssr', tr', late, split) BY <2>2, <2>9
  <2> QED BY <2>10, Stays DEF AppDone, Inv
<1>10. CASE tr.mode # "passthrough"
  <2>1. tr.mode = "on" BY <1>2, <1>4, <1>10 DEF TrType
  <2>2. ssr.lifted
    <3>1. Bar <= tr.read BY <1>1, <1>2, PageOK
    <3> QED BY <1>3, <2>1, <3>1 DEF Working, Lifted
  <2>3. e = ssr BY <1>4, <1>5, <2>2, LiftTyped
  <2>4. CASE tr.finished
    <3>2. PICK timer \in BOOLEAN : timer = tr.timer BY <1>4 DEF TrType
    <3>1. t = [tr EXCEPT !.rendering = FALSE, !.timer = timer] BY <1>4, <1>6, <3>2 DEF TrType
    <3>3. Good(app, ssr, t, late, split) /\ t.mode = "on" /\ t.finished = tr.finished
      <4>1. Good(app, ssr, t, late, split)
        BY <1>1, <1>2, <2>1, <3>1, <3>2, RenderedGood, Zenon
      <4>2. t.mode = tr.mode /\ t.finished = tr.finished BY <1>4, <1>6 DEF TrType
      <4> QED BY <2>1, <4>1, <4>2
    <3>4. ssr.failed \/ ssr.queue = <<>>
      <4>1. ssr.finished BY <1>3, <2>4 DEF Working
      <4> QED BY <1>2, <1>3, <2>2, <4>1 DEF Working, Flushed
    <3>5. PICK o : o = TryFinish([ssr |-> ssr, tr |-> t]) OBVIOUS
    <3>6. Good(app, o.ssr, o.tr, late, split) BY <1>1, <3>3, <3>4, <3>5, TryFinishGood
    <3>7. ssr' = o.ssr /\ tr' = o.tr BY <1>7, <1>8, <1>10, <2>3, <2>4, <3>5 DEF Becomes
    <3>8. Good(app, ssr', tr', late, split) BY <3>6, <3>7
    <3> QED BY <3>8, Stays DEF AppDone, Inv
  <2>5. CASE ~tr.finished
    <3>1. PICK o : o = [tr EXCEPT !.rendering = FALSE, !.timer = TRUE] OBVIOUS
    <3>2. Good(app, ssr, o, late, split) BY <1>1, <1>2, <2>1, <3>1, RenderedGood
    <3>3. ssr' = ssr /\ tr' = o
      <4>1. w.ssr = ssr /\ w.tr = t BY <1>7, <2>3
      <4>2. [w EXCEPT !.tr.timer = TRUE] = [w EXCEPT !.tr = [w.tr EXCEPT !.timer = TRUE]]
        OBVIOUS
      <4>3. [t EXCEPT !.timer = TRUE] = o BY <1>4, <1>6, <3>1 DEF TrType
      <4>4. \A x, y, z : [[ssr |-> x, tr |-> y] EXCEPT !.tr = z] = [ssr |-> x, tr |-> z]
        OBVIOUS
      <4>5. [w EXCEPT !.tr.timer = TRUE] = [ssr |-> ssr, tr |-> o]
        <5>1. [w EXCEPT !.tr.timer = TRUE] = [w EXCEPT !.tr = o] BY <4>1, <4>2, <4>3
        <5>2. w = [ssr |-> ssr, tr |-> t] BY <1>7, <2>3
        <5>3. [[ssr |-> ssr, tr |-> t] EXCEPT !.tr = o] = [ssr |-> ssr, tr |-> o] BY <4>4
        <5> QED BY <5>1, <5>2, <5>3
      <4> QED BY <1>8, <1>10, <2>5, <4>5 DEF Becomes
    <3>4. Good(app, ssr', tr', late, split) BY <3>2, <3>3
    <3> QED BY <3>4, Stays DEF AppDone, Inv
  <2> QED BY <2>4, <2>5
<1> QED BY <1>9, <1>10

\* Scripts that follow those of a text.
LEMMA ScriptsFollow ==
  ASSUME NEW s \in Seq(Int), NEW u \in Seq(Int), NEW g \in Nat,
         Lists(Negative(s), 0, g), Follow(Negative(u), g)
  PROVE  s \o u \in Seq(Int) /\ Lists(Negative(s \o u), 0, g + Len(u))
<1>1. /\ Negative(s) \in Seq(Int) /\ Negative(u) \in Seq(Int) /\ Len(Negative(u)) = Len(u)
      /\ Len(u) \in Nat
  BY NegativeSeq, LenProperties
<1>2. Lists(Negative(u), g, g + Len(Negative(u))) BY <1>1, FollowLists
<1>3. PICK n \in Nat : n = g + Len(u) /\ g <= n /\ 0 <= g BY <1>1
<1>4. Lists(Negative(u), g, n) BY <1>1, <1>2, <1>3
<1>5. Lists(Negative(s) \o Negative(u), 0, n) BY <1>1, <1>3, <1>4, ListsConcat
<1>6. Negative(s \o u) = Negative(s) \o Negative(u) BY NegativeConcat
<1>7. s \o u \in Seq(Int) OBVIOUS
<1> QED BY <1>3, <1>5, <1>6, <1>7

LEMMA InitInv == Init => Inv
<1> SUFFICES ASSUME Init PROVE Inv OBVIOUS
<1>1. /\ page \in Pages /\ late = FALSE /\ split = FALSE
      /\ app = [rendered |-> 0, state |-> "rendering", inBar |-> <<>>]
      /\ ssr = [queue |-> <<-1>>, produced |-> 1, lifted |-> FALSE, microtask |-> "none",
                buffered |-> <<>>, finished |-> FALSE, failed |-> FALSE, live |-> TRUE]
      /\ tr = [mode |-> "none", read |-> 0, out |-> <<>>, pending |-> <<>>,
               leftover |-> <<>>, closing |-> <<>>, rendering |-> TRUE, barrier |-> FALSE,
               finished |-> FALSE, listening |-> FALSE, timer |-> FALSE, stream |-> "open"]
  BY DEF Init
<1>2. /\ <<>> \in Html /\ <<>> \in Injected /\ <<>> \in Seq(Item) /\ Len(<<>>) = 0
      /\ Follow(<<>>, 0) /\ Follow(Negative(<<>>), 0)
  BY NothingFollows
<1>3. 0 \in 0..Len(page) /\ Bar \in 1..Len(page) /\ Len(page) \in Nat BY <1>1, PageOK
<1>4. <<-1>> \in Injected /\ <<-1>> \in Seq(Int) /\ Len(<<-1>>) = 1 /\ 1 \in 1..Scripts
  <2>1. -1 \in -Scripts..-1 /\ 1 \in 1..Scripts BY StreamAssumption
  <2> QED BY <2>1 DEF Injected
<1>5. app \in AppType BY <1>1, <1>2, <1>3 DEF AppType
<1>6. ssr \in SsrType BY <1>1, <1>4 DEF SsrType
<1>7. tr \in TrType BY <1>1, <1>2, <1>3 DEF TrType
<1>8. Typed(app, ssr, tr)
  <2>1. tr.read = 0 /\ app.rendered = 0 /\ Len(tr.leftover) = 0 BY <1>1
  <2>2. 0 <= 0 /\ 0 <= MaxLeftover BY StreamAssumption
  <2> QED BY <1>5, <1>6, <1>7, <2>1, <2>2 DEF Typed
<1>9. /\ tr.read = 0 /\ tr.out = <<>> /\ tr.pending = <<>> /\ tr.leftover = <<>>
      /\ tr.closing = <<>> /\ tr.rendering /\ ~tr.barrier /\ ~tr.finished /\ ~tr.listening
      /\ ~tr.timer /\ tr.stream = "open" /\ tr.mode = "none"
      /\ ssr.queue = <<-1>> /\ ssr.produced = 1 /\ ~ssr.lifted /\ ssr.microtask = "none"
      /\ ~ssr.finished /\ ~ssr.failed /\ ssr.live
      /\ app.rendered = 0 /\ app.state = "rendering" /\ app.inBar = <<>>
  BY <1>1
<1>10. SentTo(tr) = 0
  <2>1. Len(tr.leftover) = 0 /\ Len(tr.closing) = 0 /\ 0 - 0 - 0 = 0 BY <1>9
  <2> QED BY <1>9, <2>1 DEF SentTo
<1>11. Given(ssr, tr) = 0
  <2>1. Len(ssr.queue) = 1 /\ Len(tr.pending) = 0 /\ 1 - 1 - 0 = 0 BY <1>4, <1>9
  <2> QED BY <1>9, <2>1 DEF Given
<1>12. Lists(<<>>, 0, 0) /\ Lists(Negative(<<>>), 0, 0)
  <2>1. <<>> \in Seq(Int) OBVIOUS
  <2>2. /\ Negative(<<>>) \in Seq(Int) /\ Len(Negative(<<>>)) = 0 BY <2>1, NegativeSeq
  <2>3. \A s \in Seq(Int) : Len(s) = 0 => \A i \in DOMAIN s : s[i] <= 0 OBVIOUS
  <2>4. Lists(<<>>, 0, 0) BY <2>1, <2>3, OthersLists
  <2>5. Lists(Negative(<<>>), 0, 0) BY <2>2, <2>3, OthersLists
  <2> QED BY <2>4, <2>5
<1>13. Follow(Negative(<<-1>>), 0 + 0)
  <2>1. /\ DOMAIN Negative(<<-1>>) = 1..1 /\ Negative(<<-1>>)[1] = -(-1) BY DEF Negative
  <2> QED BY <2>1 DEF Follow
<1>14. HtmlInPlace(tr) BY <1>2, <1>9, <1>10, <1>12 DEF HtmlInPlace
<1>15. ScriptsInPlace(app.inBar, ssr, tr)
  <2>1. Len(app.inBar) = 0 /\ Len(tr.pending) = 0 /\ 0 <= 0 BY <1>9
  <2> QED BY <1>2, <1>9, <1>11, <1>12, <1>13, <2>1 DEF ScriptsInPlace
<1>16. HeldBack(tr)
  <2>1. \A i \in DOMAIN tr.leftover : FALSE BY <1>9
  <2> QED BY <1>9, <2>1 DEF HeldBack
<1>17. Attached(tr) BY <1>9 DEF Attached
<1>18. Lifted(ssr, tr)
  <2>1. \A i \in DOMAIN tr.out : tr.out[i] > 0 BY <1>9
  <2> QED BY <1>9, <2>1 DEF Lifted
<1>19. Flushed(ssr) /\ Lateness(app, ssr, tr, late) BY <1>9 DEF Flushed, Lateness
<1>20. Working(app, ssr, tr, late, split)
  BY <1>9, <1>14, <1>15, <1>16, <1>17, <1>18, <1>19 DEF Working
<1>21. Placed(tr.out, split)
  <2>1. \A i \in DOMAIN tr.out : FALSE BY <1>9
  <2> QED BY <2>1 DEF Placed
<1>22. Good(app, ssr, tr, late, split) BY <1>8, <1>9, <1>20, <1>21 DEF Good
<1> QED BY <1>1, <1>22 DEF Inv

LEMMA InvStep == Inv /\ [Next]_vars => Inv'
<1> SUFFICES ASSUME Inv, [Next]_vars PROVE Inv' OBVIOUS
<1>1. CASE Serialize BY <1>1, SerializeStep
<1>2. CASE SerializeDone BY <1>2, SerializeDoneStep
<1>3. CASE SerializeError BY <1>3, SerializeErrorStep
<1>4. CASE Microtask BY <1>4, MicrotaskStep
<1>5. CASE Render BY <1>5, RenderStep
<1>6. CASE RenderEnd BY <1>6, RenderEndStep
<1>7. CASE Attach BY <1>7, AttachStep
<1>8. CASE ReadChunk BY <1>8, ReadChunkStep
<1>9. CASE AppDone BY <1>9, AppDoneStep
<1>10. CASE AppError BY <1>10, AppErrorStep
<1>11. CASE SerializationTimeout BY <1>11, TimeoutStep
<1>12. CASE Abandon BY <1>12, AbandonStep
<1>13. CASE UNCHANGED vars BY <1>13, Stays DEF Inv, vars
<1> QED
  BY <1>1, <1>2, <1>3, <1>4, <1>5, <1>6, <1>7, <1>8, <1>9, <1>10, <1>11, <1>12, <1>13 DEF Next

LEMMA SpecInv == Spec => []Inv
BY InitInv, InvStep, PTL DEF Spec

-----------------------------------------------------------------------------
(* The properties. *)

\* Every variable has its type, and the text held back, leftover, never
\* outgrows MAX_LEFTOVER_CHARS, however the chunks end.
THEOREM StreamTyped == Spec => []TypeOK
<1>1. Inv => TypeOK
  <2> SUFFICES ASSUME Inv PROVE TypeOK OBVIOUS
  <2>1. page \in Pages /\ Typed(app, ssr, tr) /\ late \in BOOLEAN /\ split \in BOOLEAN
    BY DEF Inv, Good
  <2>2. /\ app.rendered \in 0..Len(page) /\ app.state \in {"rendering", "ended", "failed"}
        /\ ssr.microtask \in {"none", "lift", "enqueue"}
        /\ tr.stream \in {"open", "closed", "errored", "cancelled"}
        /\ app.inBar \in Injected /\ ssr.queue \in Injected /\ tr.pending \in Injected
        /\ tr.leftover \in Html /\ tr.closing \in Html /\ tr.out \in Seq(Item)
        /\ ssr.buffered = <<>>
    BY <2>1 DEF Typed, AppType, SsrType, TrType
  <2>3. ssr.buffered \in Injected BY <2>2, NothingFollows
  <2>4. tr.read \in 0..app.rendered
    <3>1. tr.read \in Nat /\ app.rendered \in Nat /\ tr.read <= app.rendered
      <4>1. tr.read \in Nat /\ app.rendered \in 0..Len(page) BY <2>1, Fields
      <4>2. Len(page) \in Nat BY <2>1, PageOK
      <4> QED BY <2>1, <4>1, <4>2 DEF Typed
    <3> QED BY <3>1
  <2>5. tr.out \in Seq((1..Len(page)) \cup (-Scripts..-1)) BY <2>2 DEF Item
  <2>6. Len(tr.leftover) <= MaxLeftover BY <2>1 DEF Typed
  <2> QED BY <2>1, <2>2, <2>3, <2>4, <2>5, <2>6 DEF TypeOK
<1> QED BY <1>1, SpecInv, PTL

\* No script is lost, doubled or overtaken on its way from the serializer
\* through ScriptBuffer, injectHtml and pendingRouterHtml to the response.
THEOREM ScriptsInOrder == Spec => []ScriptsAddUp
<1>1. Inv => ScriptsAddUp
  <2> SUFFICES ASSUME Inv, tr.stream = "open" PROVE ScriptsAddUp BY DEF ScriptsAddUp, Open
  <2>1. page \in Pages /\ Good(app, ssr, tr, late, split) BY DEF Inv
  <2>2. /\ Typed(app, ssr, tr) /\ Working(app, ssr, tr, late, split)
        /\ Len(app.inBar) <= Given(ssr, tr) /\ Given(ssr, tr) \in Nat
        /\ ssr.produced = Given(ssr, tr) + Len(tr.pending) + Len(ssr.queue)
        /\ Follow(Negative(tr.pending), Given(ssr, tr))
    BY <2>1, SentSoFar
  <2>3. /\ app.inBar \in Injected /\ tr.out \in Seq(Item) /\ tr.pending \in Seq(Int)
        /\ ssr.queue \in Seq(Int) /\ ssr.buffered = <<>> /\ app.inBar \in Seq(Int)
        /\ tr.out \in Seq(Int)
    BY <2>1, <2>2, Fields
  <2>4. /\ Follow(Negative(app.inBar), 0)
        /\ Lists(Negative(tr.out), Len(app.inBar), Given(ssr, tr))
        /\ Follow(Negative(ssr.queue), Given(ssr, tr) + Len(tr.pending))
    BY <2>2 DEF Working, ScriptsInPlace
  <2>5. Lists(Negative(app.inBar \o tr.out), 0, Given(ssr, tr))
    BY <2>1, <2>2, <2>3, <2>4, BarFirst
  <2>6. PICK s \in Seq(Int) : s = app.inBar \o tr.out
    <3>1. app.inBar \o tr.out \in Seq(Int) BY <2>3, TypedConcat
    <3> QED BY <3>1
  <2>7. PICK u : u = s \o tr.pending OBVIOUS
  <2>8. PICK g \in Nat : g = Given(ssr, tr) + Len(tr.pending)
    <3>1. Len(tr.pending) \in Nat BY <2>3
    <3> QED BY <2>2, <3>1
  <2>9. u \in Seq(Int) /\ Lists(Negative(u), 0, g)
    BY <2>2, <2>3, <2>5, <2>6, <2>7, <2>8, ScriptsFollow
  <2>10. Lists(Negative(u \o ssr.queue), 0, g + Len(ssr.queue))
    BY <2>3, <2>4, <2>8, <2>9, ScriptsFollow
  <2>11. u \o ssr.buffered = u BY <2>3, <2>9
  <2>12. g + Len(ssr.queue) = ssr.produced BY <2>2, <2>8
  <2> QED BY <2>6, <2>7, <2>10, <2>11, <2>12 DEF ScriptsAddUp
<1> QED BY <1>1, SpecInv, PTL

\* No HTML of the application is lost, doubled or reordered on its way through
\* leftover and pendingClosingTags, wherever the chunks end.
THEOREM HtmlInOrder == Spec => []HtmlAddsUp
<1>1. Inv => HtmlAddsUp
  <2> SUFFICES ASSUME Inv, tr.stream = "open" PROVE HtmlAddsUp BY DEF HtmlAddsUp, Open
  <2>1. page \in Pages /\ Good(app, ssr, tr, late, split) BY DEF Inv
  <2>2. /\ Typed(app, ssr, tr) /\ Working(app, ssr, tr, late, split)
        /\ SentTo(tr) \in Nat
        /\ tr.read = SentTo(tr) + Len(tr.leftover) + Len(tr.closing)
        /\ Follow(tr.leftover, SentTo(tr)) /\ Follow(tr.closing, SentTo(tr))
    BY <2>1, SentSoFar
  <2>3. /\ tr.out \in Seq(Int) /\ tr.leftover \in Seq(Int) /\ tr.closing \in Seq(Int)
        /\ Len(tr.leftover) \in Nat /\ Len(tr.closing) \in Nat
    BY <2>1, <2>2, Fields
  <2>4. Lists(tr.out, 0, SentTo(tr)) /\ (tr.leftover = <<>> \/ tr.closing = <<>>)
    BY <2>2 DEF Working, HtmlInPlace
  <2>5. PICK n \in Nat : n = SentTo(tr) BY <2>2
  <2>6. ASSUME NEW s \in Seq(Int), Follow(s, n), tr.read = n + Len(s)
        PROVE  Lists(tr.out \o s, 0, tr.read)
    <3>1. Lists(s, n, n + Len(s)) BY <2>6, FollowLists
    <3>2. tr.read \in Nat /\ n <= tr.read /\ 0 <= n BY <2>6, LenProperties
    <3>3. Lists(s, n, tr.read) BY <2>6, <3>1
    <3> QED BY <2>3, <2>4, <2>5, <3>2, <3>3, ListsConcat
  <2>7. CASE tr.closing = <<>>
    <3>1. tr.read = n + Len(tr.leftover)
      <4>1. Len(tr.closing) = 0 BY <2>7
      <4> QED BY <2>2, <2>3, <2>5, <4>1
    <3>2. Lists(tr.out \o tr.leftover, 0, tr.read) BY <2>2, <2>3, <2>5, <2>6, <3>1
    <3>3. (tr.out \o tr.leftover) \o tr.closing = tr.out \o tr.leftover BY <2>3, <2>7
    <3> QED BY <3>2, <3>3 DEF HtmlAddsUp
  <2>8. CASE tr.leftover = <<>>
    <3>1. tr.read = n + Len(tr.closing)
      <4>1. Len(tr.leftover) = 0 BY <2>8
      <4> QED BY <2>2, <2>3, <2>5, <4>1
    <3>2. Lists(tr.out \o tr.closing, 0, tr.read) BY <2>2, <2>3, <2>5, <2>6, <3>1
    <3>3. tr.out \o tr.leftover = tr.out BY <2>3, <2>8
    <3> QED BY <3>2, <3>3 DEF HtmlAddsUp
  <2> QED BY <2>4, <2>7, <2>8
<1> QED BY <1>1, SpecInv, PTL

\* A script never splits the markup: it follows the barrier element, and comes
\* after a closing tag, at the end of the HTML or right before </body>.
THEOREM ScriptsWellPlaced == Spec => []ScriptsBetweenTags
<1>1. Inv => ScriptsBetweenTags
  <2> SUFFICES ASSUME Inv, NEW i \in DOMAIN tr.out, tr.out[i] < 0
               PROVE  /\ \E p \in SentBefore(i) : page[p] = "bar"
                      /\ split \/ \A p \in SentBefore(i) : page[p] # "</body>"
                      /\ \E last \in SentBefore(i) :
                           /\ \A p \in SentBefore(i) : p <= last
                           /\ \/ page[last] \in {">", "</body>", "</html>"}
                              \/ last = Len(page)
                              \/ page[last + 1] = "</body>"
    BY DEF ScriptsBetweenTags
  <2>1. page \in Pages /\ Placed(tr.out, split) BY DEF Inv, Good
  <2>2. SentBefore(i) = Before(tr.out, i) BY DEF SentBefore, Before
  <2>3. PICK n \in Before(tr.out, i) : Before(tr.out, i) = 1..n /\ MayFollow(n, split)
    BY <2>1 DEF Placed
  <2>4. Bar \in 1..Len(page) /\ page[Bar] = "bar" /\ Len(page) \in Nat BY <2>1, PageOK
  <2>5. n \in Nat /\ Bar <= n BY <2>3, <2>4 DEF Before, MayFollow
  <2>6. Bar \in SentBefore(i) BY <2>2, <2>3, <2>4, <2>5
  <2>7. split \/ \A p \in SentBefore(i) : page[p] # "</body>"
    BY <2>2, <2>3 DEF MayFollow, BodyOpen
  <2>8. \A p \in SentBefore(i) : p <= n BY <2>2, <2>3, <2>5
  <2>9. \/ page[n] \in {">", "</body>", "</html>"}
        \/ n = Len(page)
        \/ page[n + 1] = "</body>"
    BY <2>3 DEF MayFollow
  <2> QED BY <2>2, <2>3, <2>4, <2>6, <2>7, <2>8, <2>9
<1> QED BY <1>1, SpecInv, PTL

\* tryFinish and the end of a stream that is passed on never close a response
\* that lacks HTML, or a script that was serialized in time.
THEOREM NothingLacking == Spec => []CompleteWhenClosed
<1>1. Inv => CompleteWhenClosed
  BY DEF Inv, Good, Complete, CompleteWhenClosed
<1> QED BY <1>1, SpecInv, PTL
=============================================================================
