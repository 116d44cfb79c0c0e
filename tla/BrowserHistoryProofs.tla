------------------------- MODULE BrowserHistoryProofs -------------------------
(***************************************************************************)
(* Safety of BrowserHistory, for any hrefs, blockers and number of events: *)
(* types, and that with nothing under way the application and the browser  *)
(* agree unless a pop has been refused.                                    *)
(***************************************************************************)
EXTENDS BrowserHistory, SequenceTheorems, TLAPS

\* The roll-back location is there exactly while an update is queued.
RollbackIsQueued == next = None <=> rollbackLocation = None

Inv == TypeOK /\ RollbackIsQueued

-----------------------------------------------------------------------------
(* Sequences *)

LEMMA Removed ==
  ASSUME NEW S, NEW s \in Seq(S), NEW i \in 1..Len(s)
  PROVE  /\ RemoveAt(s, i) \in Seq(S)
         /\ \A j \in 1..Len(s) : j # i => \E k \in 1..Len(RemoveAt(s, i)) : RemoveAt(s, i)[k] = s[j]
<1> DEFINE a == SubSeq(s, 1, i - 1)
           b == SubSeq(s, i + 1, Len(s))
<1>1. RemoveAt(s, i) = a \o b BY DEF RemoveAt
<1>2. /\ a \in Seq(S) /\ Len(a) = i - 1
      /\ \A k \in 1..(i - 1) : a[k] = s[k]
  OBVIOUS
<1>3. /\ b \in Seq(S) /\ Len(b) = Len(s) - i
      /\ \A k \in 1..(Len(s) - i) : b[k] = s[i + k]
  OBVIOUS
<1> HIDE DEF a, b
<1>4. /\ a \o b \in Seq(S) /\ Len(a \o b) = Len(s) - 1
      /\ \A k \in 1..(i - 1) : (a \o b)[k] = s[k]
      /\ \A k \in i..(Len(s) - 1) : (a \o b)[k] = s[k + 1]
  <2>1. /\ a \o b \in Seq(S) /\ Len(a \o b) = Len(a) + Len(b)
        /\ \A k \in 1..(Len(a) + Len(b)) : (a \o b)[k] = IF k <= Len(a) THEN a[k] ELSE b[k - Len(a)]
    BY <1>2, <1>3, ConcatProperties
  <2>2. Len(a) + Len(b) = Len(s) - 1 BY <1>2, <1>3
  <2>3. \A k \in 1..(i - 1) : (a \o b)[k] = s[k] BY <1>2, <2>1, <2>2
  <2>4. ASSUME NEW k \in i..(Len(s) - 1) PROVE (a \o b)[k] = s[k + 1]
    <3>1. k - Len(a) \in 1..(Len(s) - i) /\ ~(k <= Len(a)) /\ k \in 1..(Len(a) + Len(b))
      BY <1>2, <2>2
    <3>2. b[k - Len(a)] = s[i + (k - Len(a))] BY <1>3, <3>1
    <3>3. i + (k - Len(a)) = k + 1 BY <1>2
    <3> QED BY <2>1, <3>1, <3>2, <3>3
  <2> QED BY <2>1, <2>2, <2>3, <2>4
<1>5. ASSUME NEW j \in 1..Len(s), j # i
      PROVE  \E k \in 1..Len(a \o b) : (a \o b)[k] = s[j]
  <2>1. CASE j < i BY <2>1, <1>4
  <2>2. CASE j > i
    <3>1. (j - 1) \in i..(Len(s) - 1) /\ (j - 1) \in 1..Len(a \o b) BY <2>2, <1>4
    <3>2. (a \o b)[j - 1] = s[j] BY <3>1, <1>4
    <3> QED BY <3>1, <3>2
  <2> QED BY <2>1, <2>2, <1>5
<1> QED BY <1>1, <1>4, <1>5

LEMMA Pushed ==
  ASSUME NEW e \in Entry, entries \in Seq(Entry), pos \in 1..Len(entries)
  PROVE  LET s == Append(SubSeq(entries, 1, pos), e)
         IN  /\ s \in Seq(Entry) /\ pos + 1 \in 1..Len(s) /\ s[pos + 1] = e
OBVIOUS

LEMMA Replaced ==
  ASSUME NEW S, NEW s \in Seq(S), NEW i \in 1..Len(s), NEW e \in S
  PROVE  /\ [s EXCEPT ![i] = e] \in Seq(S) /\ Len([s EXCEPT ![i] = e]) = Len(s)
         /\ \A j \in 1..Len(s) : [s EXCEPT ![i] = e][j] = IF j = i THEN e ELSE s[j]
BY ExceptSeq

-----------------------------------------------------------------------------
(* Types *)

LEMMA Initially == Init => Inv
<1> SUFFICES ASSUME Init PROVE Inv OBVIOUS
<1>1. PICK h \in Href : entries = <<[href |-> h, index |-> 0]>> BY DEF Init
<1>2. [href |-> h, index |-> 0] \in Entry BY DEF Entry
<1>3. entries \in Seq(Entry) /\ Len(entries) = 1 /\ entries[1] \in Entry BY <1>1, <1>2
<1>4. pos \in 1..Len(entries) /\ location \in Entry /\ currentLocation \in Entry
  BY <1>3 DEF Init
<1>5. moves \in Seq(Int) /\ asks \in Seq(Ask) BY DEF Init
<1>6. blockers \in 0..MaxBlockers /\ budget \in [Act -> Nat]
  BY HistoryAssumption DEF Init
<1>7. TypeOK BY <1>3, <1>4, <1>5, <1>6 DEF Init, TypeOK
<1> QED BY <1>7 DEF Init, Inv, RollbackIsQueued

LEMMA QueueTyped ==
  ASSUME Inv, NEW type \in {"PUSH", "REPLACE"}, NEW to \in Entry, QueueHistoryAction(type, to)
  PROVE  /\ rollbackLocation' \in Entry /\ currentLocation' \in Entry /\ location' \in Entry
         /\ next' \in QueuedUpdate /\ next' # None /\ rollbackLocation' # None
         /\ next'.to = location' /\ location' = to
<1>1. Update(type, to) \in QueuedUpdate /\ Update(type, to).to = to
  BY DEF Update, QueuedUpdate, Inv, TypeOK
<1>2. rollbackLocation' \in Entry
  BY DEF QueueHistoryAction, Inv, TypeOK, RollbackIsQueued
<1> QED BY <1>1, <1>2, HistoryAssumption DEF QueueHistoryAction

LEMMA Budgeted == ASSUME Inv, NEW b \in Act, Spend(b) PROVE budget' \in [Act -> Nat]
BY DEF Spend, Inv, TypeOK

LEMMA FlushPreserves == ASSUME Inv, Flush PROVE Inv'
<1>1. next \in QueuedUpdate /\ next.to \in Entry
  BY DEF Flush, Inv, TypeOK, QueuedUpdate
<1>2. entries' \in Seq(Entry) /\ pos' \in 1..Len(entries')
  <2>1. CASE next.isPush BY <2>1, <1>1, Pushed DEF Flush, Inv, TypeOK
  <2>2. CASE ~next.isPush
    <3>1. entries' = [entries EXCEPT ![pos] = next.to] /\ pos' = pos BY <2>2 DEF Flush
    <3>2. entries \in Seq(Entry) /\ pos \in 1..Len(entries) BY DEF Inv, TypeOK
    <3> QED BY <1>1, <3>1, <3>2, Replaced
  <2> QED BY <2>1, <2>2
<1> QED BY <1>2 DEF Flush, Inv, TypeOK, RollbackIsQueued, flags

LEMMA NavigatePreserves ==
  ASSUME Inv, NEW type \in {"PUSH", "REPLACE"}, NEW h \in Href, NEW i \in BOOLEAN,
         Navigate(type, h, i)
  PROVE  Inv'
<1> DEFINE to == [href |-> h,
                  index |-> location.index + IF type = "PUSH" THEN 1 ELSE 0]
<1>1. to \in Entry BY DEF Inv, TypeOK, Entry
<1>2. budget' \in [Act -> Nat] BY Budgeted DEF Navigate, Act
<1>3. [type |-> type, to |-> to, left |-> blockers] \in Ask
  BY <1>1 DEF Ask, Type, Inv, TypeOK
<1> HIDE DEF to
<1>4. CASE QueueHistoryAction(type, to) /\ UNCHANGED asks
  BY <1>1, <1>2, <1>4, QueueTyped
  DEF Navigate, Inv, TypeOK, RollbackIsQueued, window, flags
<1>5. CASE /\ asks' = Append(asks, [type |-> type, to |-> to, left |-> blockers])
           /\ UNCHANGED <<rollbackLocation, currentLocation, next, location>>
  BY <1>2, <1>3, <1>5 DEF Navigate, Inv, TypeOK, RollbackIsQueued, window, flags, Ask
<1> QED BY <1>4, <1>5 DEF Navigate, to

LEMMA TraversePreserves ==
  ASSUME Inv, NEW n \in Int, NEW g \in BOOLEAN, NEW i \in BOOLEAN, Traverse(n, g, i)
  PROVE  Inv'
<1>1. budget' \in [Act -> Nat] BY Budgeted DEF Traverse, Act
<1> QED BY <1>1 DEF Traverse, Inv, TypeOK, RollbackIsQueued, window

LEMMA ButtonPreserves == ASSUME Inv, NEW n \in Int, Button(n) PROVE Inv'
<1>1. budget' \in [Act -> Nat] BY Budgeted DEF Button, Act
<1> QED BY <1>1 DEF Button, Inv, TypeOK, RollbackIsQueued, window, flags

LEMMA OutsidePreserves ==
  ASSUME Inv, NEW p \in BOOLEAN, NEW h \in Href, Outside(p, h)
  PROVE  Inv'
<1> DEFINE e == [href |-> h, index |-> 0]
<1>1. e \in Entry BY DEF Entry
<1>2. budget' \in [Act -> Nat] BY Budgeted DEF Outside, Act
<1> HIDE DEF e
<1>3. entries' \in Seq(Entry) /\ pos' \in 1..Len(entries')
  <2>1. CASE p BY <2>1, <1>1, Pushed DEF Outside, Inv, TypeOK, e
  <2>2. CASE ~p
    <3>1. entries' = [entries EXCEPT ![pos] = e] /\ pos' = pos BY <2>2 DEF Outside, e
    <3>2. entries \in Seq(Entry) /\ pos \in 1..Len(entries) BY DEF Inv, TypeOK
    <3> QED BY <1>1, <3>1, <3>2, Replaced
  <2> QED BY <2>1, <2>2
<1> QED BY <1>1, <1>2, <1>3 DEF Outside, Inv, TypeOK, RollbackIsQueued, flags, e

LEMMA PopPreserves == ASSUME Inv, PopState PROVE Inv'
<1> DEFINE to == pos + Head(moves)
<1>1. moves' \in Seq(Int) /\ Head(moves) \in Int BY DEF PopState, Inv, TypeOK
<1>2. CASE to \in 1..Len(entries)
  <2>1. entries[to] \in Entry BY <1>2 DEF Inv, TypeOK
  <2>2. pos' = to /\ OnPop(entries[to]) BY <1>2 DEF PopState
  <2>3. [type |-> PopType(entries[to]), to |-> entries[to], left |-> blockers] \in Ask
    BY <2>1 DEF PopType, Type, Ask, Inv, TypeOK
  <2>0. asks' = asks \/ asks' \in Seq(Ask)
    <3> DEFINE ask == [type |-> PopType(entries[to]), to |-> entries[to], left |-> blockers]
    <3>1. asks' = asks \/ asks' = Append(asks, ask) BY <2>2 DEF OnPop
    <3>2. asks \in Seq(Ask) BY DEF Inv, TypeOK
    <3>3. ask \in Ask BY <2>3
    <3> HIDE DEF ask
    <3> QED BY <3>1, <3>2, <3>3
  <2>4. /\ location' \in Entry /\ currentLocation' \in Entry /\ asks' \in Seq(Ask)
        /\ <<ignoreNextPop', skipBlockerNextPop', nextPopIsGo'>> \in BOOLEAN \X BOOLEAN \X BOOLEAN
    BY <2>0, <2>1, <2>2 DEF OnPop, TakeOver, Inv, TypeOK
  <2> QED BY <1>1, <1>2, <2>2, <2>4 DEF PopState, Inv, TypeOK, RollbackIsQueued, Ask
<1>3. CASE to \notin 1..Len(entries)
  BY <1>1, <1>3 DEF PopState, Inv, TypeOK, RollbackIsQueued, flags
<1> QED BY <1>2, <1>3

LEMMA RefusePreserves == ASSUME Inv, NEW i \in 1..Len(asks), Refuse(i) PROVE Inv'
<1>1. asks \in Seq(Ask) BY DEF Inv, TypeOK
<1>2. asks' \in Seq(Ask) BY <1>1, Removed DEF Refuse
<1>3. CASE IsPop(asks[i])
  <2>1. moves \in Seq(Int) /\ moves' = Append(moves, 1) BY <1>3 DEF Refuse, Inv, TypeOK
  <2>2. moves' \in Seq(Int) BY <2>1
  <2>3. /\ ignoreNextPop' = TRUE /\ location' = currentLocation
        /\ UNCHANGED <<entries, pos, currentLocation, rollbackLocation, next,
                       skipBlockerNextPop, nextPopIsGo, blockers, budget>>
    BY <1>3 DEF Refuse, window
  <2> QED BY <1>2, <2>2, <2>3 DEF Inv, TypeOK, RollbackIsQueued
<1>4. CASE ~IsPop(asks[i])
  <2>1. RolledBack \in Entry BY DEF RolledBack, Inv, TypeOK
  <2> QED BY <1>2, <1>4, <2>1 DEF Refuse, Inv, TypeOK, RollbackIsQueued, window, Ask
<1> QED BY <1>3, <1>4

LEMMA AllowPreserves == ASSUME Inv, NEW i \in 1..Len(asks), Allow(i) PROVE Inv'
<1>1. asks \in Seq(Ask) /\ asks[i] \in Ask BY DEF Inv, TypeOK
<1>2. CASE asks[i].left > 1
  <2>1. [asks[i] EXCEPT !.left = @ - 1] \in Ask BY <1>1, <1>2 DEF Ask
  <2>2. asks' = [asks EXCEPT ![i] = [asks[i] EXCEPT !.left = @ - 1]] BY <1>2 DEF Allow
  <2>3. asks' \in Seq(Ask) BY <1>1, <2>1, <2>2, Replaced
  <2> QED BY <1>2, <2>3 DEF Allow, Inv, TypeOK, RollbackIsQueued, window, flags, Ask
<1>3. CASE ~(asks[i].left > 1)
  <2>1. asks' \in Seq(Ask) BY <1>1, <1>3, Removed DEF Allow
  <2>2. CASE IsPop(asks[i])
    <3>1. parseLocation \in Entry BY DEF parseLocation, Inv, TypeOK
    <3> QED BY <1>3, <2>1, <2>2, <3>1
        DEF Allow, TakeOver, Landed, Inv, TypeOK, RollbackIsQueued, window, flags, Ask
  <2>3. CASE ~IsPop(asks[i])
    <3>1. asks[i].type \in {"PUSH", "REPLACE"} /\ asks[i].to \in Entry
      BY <1>1, <2>3 DEF IsPop, Ask, Type
    <3>2. QueueHistoryAction(asks[i].type, asks[i].to) BY <1>3, <2>3 DEF Allow
    <3> QED BY <1>3, <2>1, <3>1, <3>2, QueueTyped
        DEF Allow, Inv, TypeOK, RollbackIsQueued, window, flags, Ask
  <2> QED BY <2>2, <2>3
<1> QED BY <1>2, <1>3

LEMMA BlockPreserves == ASSUME Inv, Block PROVE Inv'
<1>1. budget' \in [Act -> Nat] BY Budgeted DEF Block, Act
<1> QED BY <1>1 DEF Block, Inv, TypeOK, RollbackIsQueued, window, flags

LEMMA NextPreserves == Inv /\ [Next]_vars => Inv'
<1> SUFFICES ASSUME Inv, [Next]_vars PROVE Inv' OBVIOUS
<1>1. ASSUME NEW h \in Href, NEW i \in BOOLEAN,
             Navigate("PUSH", h, i) \/ Navigate("REPLACE", h, i)
      PROVE  Inv'
  BY <1>1, NavigatePreserves
<1>2. ASSUME NEW n \in Int, NEW g \in BOOLEAN, NEW i \in BOOLEAN, Traverse(n, g, i)
      PROVE  Inv'
  BY <1>2, TraversePreserves
<1>3. ASSUME NEW n \in Int, Button(n) PROVE Inv' BY <1>3, ButtonPreserves
<1>4. ASSUME NEW p \in BOOLEAN, NEW h \in Href, Outside(p, h) PROVE Inv'
  BY <1>4, OutsidePreserves
<1>5. ASSUME NEW i \in 1..Len(asks), Allow(i) \/ Refuse(i) PROVE Inv'
  BY <1>5, AllowPreserves, RefusePreserves
<1>6. CASE Block \/ Flush \/ PopState
  BY <1>6, BlockPreserves, FlushPreserves, PopPreserves
<1>7. CASE UNCHANGED vars
  BY <1>7 DEF vars, flags, Inv, TypeOK, RollbackIsQueued
<1>8. CASE Next
  <2>1. {-2, -1, 1} \subseteq Int OBVIOUS
  <2> QED BY <1>1, <1>2, <1>3, <1>4, <1>5, <1>6, <1>8, <2>1 DEF Next
<1> QED BY <1>7, <1>8

\* The types hold whatever the order of navigations, pops and answers; in
\* particular a refused push finds a location to go back to.
THEOREM TypeCorrectness == Spec => []TypeOK
<1>1. Inv => TypeOK BY DEF Inv
<1> QED BY Initially, NextPreserves, <1>1, PTL DEF Spec

-----------------------------------------------------------------------------
(* Where everything agrees *)

\* What has been queued is the copy in memory as well.
Together == /\ next # None => next.to = location /\ currentLocation = location
            /\ Agree

LEMMA PushAsked ==
  ASSUME Inv, NEW ask \in Ask, asks' = Append(asks, ask)
  PROVE  PopAsked \/ IsPop(ask) => PopAsked'
<1>1. asks \in Seq(Ask) BY DEF Inv, TypeOK
<1>2. /\ Len(asks') = Len(asks) + 1 /\ asks'[Len(asks) + 1] = ask
      /\ \A j \in 1..Len(asks) : asks'[j] = asks[j]
  BY <1>1
<1> QED BY <1>1, <1>2 DEF PopAsked, IsPop

LEMMA PushAnswered ==
  ASSUME Inv, NEW i \in 1..Len(asks), ~IsPop(asks[i]), asks' = RemoveAt(asks, i)
  PROVE  PopAsked => PopAsked'
<1>1. asks \in Seq(Ask) BY DEF Inv, TypeOK
<1> SUFFICES ASSUME NEW j \in 1..Len(asks), IsPop(asks[j]) PROVE PopAsked' BY DEF PopAsked
<1>2. j # i OBVIOUS
<1>3. PICK k \in 1..Len(RemoveAt(asks, i)) : RemoveAt(asks, i)[k] = asks[j]
  BY <1>1, <1>2, Removed
<1> QED BY <1>3 DEF PopAsked, IsPop

LEMMA StayTogether ==
  ASSUME SameTick = FALSE, Inv, Inv', Together, [Next]_vars,
         ~ignoreNextPop, ~ignoreNextPop'
  PROVE  Together'
<1>1. ASSUME next' # None, next'.to = location', currentLocation' = location'
      PROVE  Together'
  BY <1>1 DEF Together, Agree
<1>2. ASSUME UNCHANGED <<next, location, currentLocation, entries, pos>>, PopAsked => PopAsked'
      PROVE  Together'
  BY <1>2 DEF Together, Agree, parseLocation
<1>3. ASSUME next' = None, location' = entries'[pos'], currentLocation' = entries'[pos']
      PROVE  Together'
  BY <1>3 DEF Together, Agree, parseLocation
<1>4. ASSUME NEW type \in {"PUSH", "REPLACE"}, NEW to \in Entry, QueueHistoryAction(type, to)
      PROVE  Together'
  <2>1. currentLocation' = location' BY <1>4 DEF QueueHistoryAction
  <2> QED BY <1>1, <1>4, <2>1, QueueTyped
<1>5. ASSUME NEW type \in {"PUSH", "REPLACE"}, NEW h \in Href, NEW i \in BOOLEAN,
             Navigate(type, h, i)
      PROVE  Together'
  <2> DEFINE to == [href |-> h,
                    index |-> location.index + IF type = "PUSH" THEN 1 ELSE 0]
             ask == [type |-> type, to |-> to, left |-> blockers]
  <2>0. location.index \in Nat /\ blockers \in Nat BY DEF Inv, TypeOK, Entry
  <2>1. to \in Entry BY <2>0 DEF Entry
  <2>2. ask \in Ask BY <2>0, <2>1 DEF Ask, Type
  <2> HIDE DEF to
  <2>3. CASE QueueHistoryAction(type, to) BY <2>1, <2>3, <1>4
  <2>4. CASE /\ asks' = Append(asks, ask)
             /\ UNCHANGED <<rollbackLocation, currentLocation, next, location>>
    <3>1. UNCHANGED <<entries, pos>> BY <1>5 DEF Navigate, window
    <3> HIDE DEF ask
    <3>2. PopAsked => PopAsked' BY <2>2, <2>4, PushAsked
    <3> QED BY <1>2, <2>4, <3>1, <3>2
  <2> QED BY <1>5, <2>3, <2>4 DEF Navigate, to
<1>6. ASSUME NEW n, NEW g, NEW i, Traverse(n, g, i) PROVE Together'
  <2>1. /\ next = None /\ next' = None /\ location' = currentLocation
        /\ UNCHANGED <<currentLocation, entries, pos, asks>>
    BY <1>6 DEF Traverse, OwnTick, window
  <2> QED BY <2>1 DEF Together, Agree, PopAsked, IsPop, parseLocation
<1>7. ASSUME UNCHANGED <<next, location, currentLocation, entries, pos, asks>>
      PROVE  Together'
  BY <1>7 DEF Together, Agree, PopAsked, IsPop, parseLocation
<1>8. ASSUME NEW n, Button(n) PROVE Together' BY <1>7, <1>8 DEF Button, window
<1>9. ASSUME NEW p \in BOOLEAN, NEW h \in Href, Outside(p, h) PROVE Together'
  <2> DEFINE e == [href |-> h, index |-> 0]
  <2>1. e \in Entry BY DEF Entry
  <2> HIDE DEF e
  <2>2. next' = None /\ location' = e /\ currentLocation' = e BY <1>9 DEF Outside, e
  <2>3. entries \in Seq(Entry) /\ pos \in 1..Len(entries) BY DEF Inv, TypeOK
  <2>4. entries'[pos'] = e
    <3>1. CASE p BY <1>9, <2>1, <2>3, <3>1, Pushed DEF Outside, e
    <3>2. CASE ~p
      <4>1. entries' = [entries EXCEPT ![pos] = e] /\ pos' = pos
        BY <1>9, <3>2 DEF Outside, e
      <4> QED BY <2>1, <2>3, <4>1, Replaced
    <3> QED BY <3>1, <3>2
  <2> QED BY <1>3, <2>2, <2>4
<1>10. ASSUME NEW i \in 1..Len(asks), Refuse(i) PROVE Together'
  <2>1. next = None BY <1>10 DEF Refuse, OwnTick
  <2>2. ~IsPop(asks[i]) BY <1>10 DEF Refuse
  <2>3. rollbackLocation = None BY <2>1 DEF Inv, RollbackIsQueued
  <2>4. UNCHANGED <<next, location, currentLocation, entries, pos>>
    BY <1>10, <2>2, <2>3 DEF Refuse, RolledBack, window
  <2>5. PopAsked => PopAsked' BY <1>10, <2>2, PushAnswered DEF Refuse
  <2> QED BY <1>2, <2>4, <2>5
<1>11. ASSUME NEW i \in 1..Len(asks), Allow(i) PROVE Together'
  <2>0. asks \in Seq(Ask) /\ asks[i] \in Ask BY DEF Inv, TypeOK
  <2>1. UNCHANGED <<entries, pos>> BY <1>11 DEF Allow, window
  <2>2. CASE asks[i].left > 1
    <3>1. UNCHANGED <<next, location, currentLocation>> BY <1>11, <2>2 DEF Allow
    <3>2. asks' = [asks EXCEPT ![i] = [asks[i] EXCEPT !.left = @ - 1]]
      BY <1>11, <2>2 DEF Allow
    <3>3. [asks[i] EXCEPT !.left = @ - 1] \in Ask BY <2>0, <2>2 DEF Ask
    <3>4. /\ Len(asks') = Len(asks)
          /\ \A j \in 1..Len(asks) :
               asks'[j] = IF j = i THEN [asks[i] EXCEPT !.left = @ - 1] ELSE asks[j]
      BY <2>0, <3>2, <3>3, Replaced
    <3>5. \A j \in 1..Len(asks) : asks'[j].type = asks[j].type
      BY <2>0, <3>4 DEF Ask
    <3>6. PopAsked => PopAsked' BY <3>4, <3>5 DEF PopAsked, IsPop
    <3> QED BY <1>2, <2>1, <3>1, <3>6
  <2>3. CASE ~(asks[i].left > 1) /\ IsPop(asks[i])
    <3>1. /\ next = None /\ next' = None
          /\ location' = parseLocation /\ currentLocation' = parseLocation
      BY <1>11, <2>3 DEF Allow, OwnTick, TakeOver, Landed
    <3> QED BY <1>3, <2>1, <3>1 DEF parseLocation
  <2>4. CASE ~(asks[i].left > 1) /\ ~IsPop(asks[i])
    <3>1. asks[i].type \in {"PUSH", "REPLACE"} /\ asks[i].to \in Entry
      BY <2>0, <2>4 DEF IsPop, Ask, Type
    <3>2. QueueHistoryAction(asks[i].type, asks[i].to) BY <1>11, <2>4 DEF Allow
    <3> QED BY <1>4, <3>1, <3>2
  <2> QED BY <2>2, <2>3, <2>4
<1>12. CASE Block BY <1>7, <1>12 DEF Block, window
<1>13. CASE Flush
  <2>1. next # None /\ next' = None /\ UNCHANGED <<location, currentLocation>>
    BY <1>13 DEF Flush
  <2>2. next \in QueuedUpdate /\ next.to \in Entry /\ next.to = location
        /\ currentLocation = location
    BY <2>1 DEF Inv, TypeOK, QueuedUpdate, Together
  <2>3. entries \in Seq(Entry) /\ pos \in 1..Len(entries) BY DEF Inv, TypeOK
  <2>4. entries'[pos'] = next.to
    <3>1. CASE next.isPush BY <1>13, <2>2, <2>3, <3>1, Pushed DEF Flush
    <3>2. CASE ~next.isPush
      <4>1. entries' = [entries EXCEPT ![pos] = next.to] /\ pos' = pos
        BY <1>13, <3>2 DEF Flush
      <4> QED BY <2>2, <2>3, <4>1, Replaced
    <3> QED BY <3>1, <3>2
  <2> QED BY <1>3, <2>1, <2>2, <2>4
<1>14. CASE PopState
  <2> DEFINE to == pos + Head(moves)
  <2>0. next = None /\ next' = None /\ UNCHANGED entries BY <1>14 DEF PopState
  <2>1. CASE to \notin 1..Len(entries)
    <3>1. UNCHANGED <<pos, location, currentLocation, asks>> BY <1>14, <2>1 DEF PopState
    <3> QED BY <1>7, <2>0, <3>1
  <2>2. CASE to \in 1..Len(entries)
    <3>1. pos' = to /\ OnPop(entries[to]) BY <1>14, <2>2 DEF PopState
    <3>2. CASE TakeOver(entries[to])
      BY <1>3, <2>0, <3>1, <3>2 DEF TakeOver
    <3>3. CASE asks' = Append(asks, [type |-> PopType(entries[to]), to |-> entries[to],
                                     left |-> blockers])
      <4> DEFINE ask == [type |-> PopType(entries[to]), to |-> entries[to],
                         left |-> blockers]
      <4>1. entries[to] \in Entry /\ blockers \in Nat BY <2>2 DEF Inv, TypeOK
      <4>2. PopType(entries[to]) \in {"GO", "FORWARD", "BACK"} BY DEF PopType
      <4>3. ask \in Ask /\ IsPop(ask) BY <4>1, <4>2 DEF Ask, Type, IsPop
      <4>4. asks' = Append(asks, ask) BY <3>3
      <4> HIDE DEF ask
      <4>5. PopAsked' BY <4>3, <4>4, PushAsked
      <4> QED BY <2>0, <4>5 DEF Together, Agree
    <3> QED BY <3>1, <3>2, <3>3 DEF OnPop
  <2> QED BY <2>1, <2>2
<1>15. CASE UNCHANGED vars BY <1>7, <1>15 DEF vars
<1> QED BY <1>5, <1>6, <1>8, <1>9, <1>10, <1>11, <1>12, <1>13, <1>14, <1>15 DEF Next

\* Unless a pop has been refused, the application, the copy in memory and the
\* browser agree whenever no update is queued and no pop is being asked about.
THEOREM AgreementUnlessRefused == ASSUME SameTick = FALSE PROVE Spec => AgreesUnlessRefused
<1>1. Init => Inv /\ Together
  BY Initially DEF Init, Together, Agree, parseLocation
<1>2. Inv /\ [Next]_vars => Inv' BY NextPreserves
<1>3. Inv /\ Together /\ [Next]_vars /\ ~ignoreNextPop /\ (~ignoreNextPop)' => Together'
  BY NextPreserves, StayTogether
<1>4. Together => Agree BY DEF Together
<1> QED BY <1>1, <1>2, <1>3, <1>4, PTL DEF Spec, AgreesUnlessRefused
=============================================================================
