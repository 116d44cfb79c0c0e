---------------------------- MODULE BrowserHistory ----------------------------
(***************************************************************************)
(* createHistory and createBrowserHistory of packages/history over         *)
(* window.history.  Three copies of the current location are kept: the one *)
(* the application sees (location), the one written at once and flushed to *)
(* the browser in a microtask (currentLocation), and the browser's own     *)
(* entry.  Traversals are asynchronous and end in a popstate event;        *)
(* blockers answer asynchronously, before a push or a replace and after a  *)
(* traversal.                                                              *)
(***************************************************************************)
EXTENDS Integers, Sequences, SequencesExt

CONSTANTS Href, None,
          MaxBlockers,
          Budget,       \* how often the application and the user act
          Refuses,      \* the types of action blockers may refuse
          SameTick      \* may a blocker answer, or a traversal be asked for,
                        \* in a tick that has navigated already?

VARIABLES entries, pos,       \* window.history
          moves,              \* traversals asked for and not done
          location, currentLocation, rollbackLocation,
          next,               \* the update that flush will write
          ignoreNextPop, skipBlockerNextPop, nextPopIsGo,
          blockers,           \* how many are installed
          asks,               \* navigations awaiting blockerFn
          budget

window == <<entries, pos>>
flags == <<ignoreNextPop, skipBlockerNextPop, nextPopIsGo>>
vars == <<entries, pos, moves, location, currentLocation, rollbackLocation,
          next, flags, blockers, asks, budget>>

Entry == [href : Href, index : Nat]
Act == {"navigate", "traverse", "outside", "block"}
Type == {"PUSH", "REPLACE", "BACK", "FORWARD", "GO"}
QueuedUpdate == [to : Entry, isPush : BOOLEAN]
Ask == [type : Type, to : Entry, left : Nat]

ASSUME HistoryAssumption ==
  /\ None \notin Entry /\ None \notin QueuedUpdate
  /\ MaxBlockers \in Nat /\ Budget \in [Act -> Nat] /\ SameTick \in BOOLEAN

Init == /\ \E h \in Href : entries = <<[href |-> h, index |-> 0]>>
        /\ pos = 1
        /\ moves = <<>>
        /\ location = entries[1] /\ currentLocation = entries[1]
        /\ rollbackLocation = None /\ next = None
        /\ ignoreNextPop = FALSE
        /\ skipBlockerNextPop = FALSE
        /\ nextPopIsGo = FALSE
        /\ blockers = 0
        /\ asks = <<>>
        /\ budget = Budget

parseLocation == entries[pos]
OwnTick == SameTick \/ next = None

Spend(b) == budget[b] > 0 /\ budget' = [budget EXCEPT ![b] = @ - 1]

-----------------------------------------------------------------------------
\* Updates of one tick are merged into one, which pushes if any of them did.
Update(type, to) == [to |-> to,
                     isPush |-> \/ next # None /\ next.isPush
                                \/ type = "PUSH"]

\* queueHistoryAction and the notify after it.
QueueHistoryAction(type, to) ==
  /\ rollbackLocation' = IF next = None THEN currentLocation
                                        ELSE rollbackLocation
  /\ currentLocation' = to
  /\ next' = Update(type, to)
  /\ location' = to

\* flush, from the scheduled microtask or called.
Flush ==
  /\ next # None
  /\ IF next.isPush
     THEN /\ entries' = Append(SubSeq(entries, 1, pos), next.to)
          /\ pos' = pos + 1
     ELSE /\ entries' = [entries EXCEPT ![pos] = next.to]
          /\ UNCHANGED pos
  /\ next' = None /\ rollbackLocation' = None
  /\ UNCHANGED <<moves, location, currentLocation, flags, blockers, asks, budget>>

\* push and replace: the index of the new entry is taken when they are
\* called; with blockers the rest waits for their answers.
Navigate(type, h, ignoreBlocker) ==
  LET to == [href |-> h,
             index |-> location.index + IF type = "PUSH" THEN 1 ELSE 0]
  IN  /\ Spend("navigate")
      /\ IF ignoreBlocker \/ blockers = 0
         THEN QueueHistoryAction(type, to) /\ UNCHANGED asks
         ELSE /\ asks' = Append(asks, [type |-> type, to |-> to, left |-> blockers])
              /\ UNCHANGED <<rollbackLocation, currentLocation, next, location>>
      /\ UNCHANGED <<window, moves, flags, blockers>>

\* back, forward and go ask the browser to move; popstate tells the rest.
Traverse(n, isGo, ignoreBlocker) ==
  /\ Spend("traverse") /\ OwnTick
  /\ moves' = Append(moves, n)
  /\ skipBlockerNextPop' = (skipBlockerNextPop \/ (ignoreBlocker /\ ~isGo))
  /\ nextPopIsGo' = (nextPopIsGo \/ isGo)
  /\ location' = currentLocation
  /\ UNCHANGED <<window, currentLocation, rollbackLocation, next, ignoreNextPop,
                 blockers, asks>>

\* The browser's own buttons.
Button(n) ==
  /\ Spend("traverse")
  /\ moves' = Append(moves, n)
  /\ UNCHANGED <<window, location, currentLocation, rollbackLocation, next, flags,
                 blockers, asks>>

\* Other code calls the patched pushState or replaceState, in a task of its
\* own; parseHref gives a null state the index 0.
Outside(isPush, h) ==
  LET e == [href |-> h, index |-> 0]
  IN  /\ Spend("outside") /\ next = None
      /\ IF isPush
         THEN /\ entries' = Append(SubSeq(entries, 1, pos), e)
              /\ pos' = pos + 1
         ELSE entries' = [entries EXCEPT ![pos] = e] /\ UNCHANGED pos
      /\ currentLocation' = e /\ location' = e
      /\ UNCHANGED <<moves, rollbackLocation, next, flags, blockers, asks>>

-----------------------------------------------------------------------------
\* Mutant: the copy in memory is forgotten.
ShowOnly(l) == location' = l /\ UNCHANGED currentLocation

\* The location of a pop that nobody blocks is taken over.
TakeOver(l) == currentLocation' = l /\ location' = l

PopType(to) ==
  LET delta == to.index - currentLocation.index
  IN  IF nextPopIsGo \/ delta \notin {1, -1} THEN "GO"
      ELSE IF delta = 1 THEN "FORWARD" ELSE "BACK"

\* onPushPopEvent up to its first await.
OnPop(to) ==
  IF ignoreNextPop
  THEN /\ ignoreNextPop' = FALSE
       /\ UNCHANGED <<location, currentLocation, skipBlockerNextPop, nextPopIsGo, asks>>
  ELSE /\ nextPopIsGo' = FALSE
       /\ skipBlockerNextPop' = FALSE
       /\ IF skipBlockerNextPop \/ blockers = 0
          THEN TakeOver(to) /\ UNCHANGED asks
          ELSE /\ asks' = Append(asks, [type |-> PopType(to), to |-> to, left |-> blockers])
               /\ UNCHANGED <<location, currentLocation>>
       /\ UNCHANGED ignoreNextPop

\* The browser does a traversal, in a task of its own: the microtask of a
\* flush comes first.  Past either end of the stack nothing happens.
PopState ==
  /\ moves # <<>> /\ next = None
  /\ moves' = Tail(moves)
  /\ LET to == pos + Head(moves)
     IN  IF to \in 1..Len(entries)
         THEN pos' = to /\ OnPop(entries[to])
         ELSE UNCHANGED <<pos, location, currentLocation, flags, asks>>
  /\ UNCHANGED <<entries, rollbackLocation, next, blockers, budget>>

IsPop(ask) == ask.type \notin {"PUSH", "REPLACE"}

\* onBlocked: nothing to take back once the flush is done.
RolledBackBlindly == rollbackLocation
RolledBack == IF rollbackLocation # None THEN rollbackLocation ELSE currentLocation

\* A blocker refuses: a push or replace takes back what the tick has queued
\* in memory, a pop moves the browser again.
Refuse(i) ==
  LET ask == asks[i]
  IN  /\ ask.type \in Refuses /\ OwnTick
      /\ asks' = RemoveAt(asks, i)
      /\ IF IsPop(ask)
         THEN
              /\ moves' = Append(moves, 1)
              /\ ignoreNextPop' = TRUE
              /\ location' = currentLocation
              /\ UNCHANGED currentLocation
         ELSE /\ currentLocation' = RolledBack
              /\ UNCHANGED <<moves, ignoreNextPop, location>>
      /\ UNCHANGED <<window, rollbackLocation, next, skipBlockerNextPop, nextPopIsGo,
                     blockers, budget>>

\* Where an allowed pop has led: the browser may have moved on meanwhile.
WhereAsked(ask) == ask.to
Landed(ask) == parseLocation

\* A blocker allows the navigation: the next one is asked, or it is done.
Allow(i) ==
  LET ask == asks[i]
  IN  /\ IF ask.left > 1
         THEN /\ asks' = [asks EXCEPT ![i].left = @ - 1]
              /\ UNCHANGED <<location, currentLocation, rollbackLocation, next>>
         ELSE /\ asks' = RemoveAt(asks, i)
              /\ IF IsPop(ask)
                 THEN /\ OwnTick
                      /\ TakeOver(Landed(ask))
                      /\ UNCHANGED <<rollbackLocation, next>>
                 ELSE QueueHistoryAction(ask.type, ask.to)
      /\ UNCHANGED <<window, moves, flags, blockers, budget>>

\* block and the function it returns.
Block == /\ Spend("block")
         /\ blockers' \in {blockers + 1, blockers - 1} \cap 0..MaxBlockers
         /\ UNCHANGED <<window, moves, location, currentLocation, rollbackLocation,
                        next, flags, asks>>

Next ==
  \/ \E h \in Href, i \in BOOLEAN : Navigate("PUSH", h, i) \/ Navigate("REPLACE", h, i)
  \/ \E n \in {-1, 1}, i \in BOOLEAN : Traverse(n, FALSE, i)
  \/ \E n \in {-2, -1, 1} : Traverse(n, TRUE, FALSE)
  \/ \E n \in {-1, 1} : Button(n)
  \/ \E h \in Href, p \in BOOLEAN : Outside(p, h)
  \/ Block
  \/ Flush
  \/ PopState
  \/ \E i \in 1..Len(asks) : Allow(i) \/ Refuse(i)

Fairness == WF_vars(Flush) /\ WF_vars(PopState)
            /\ WF_vars(\E i \in 1..Len(asks) : Allow(i) \/ Refuse(i))
Spec == Init /\ [][Next]_vars /\ Fairness

-----------------------------------------------------------------------------
TypeOK ==
  /\ entries \in Seq(Entry) /\ pos \in 1..Len(entries)
  /\ moves \in Seq(Int)
  /\ location \in Entry /\ currentLocation \in Entry
  /\ rollbackLocation \in Entry \cup {None}
  /\ next \in QueuedUpdate \cup {None}
  /\ <<ignoreNextPop, skipBlockerNextPop, nextPopIsGo>> \in BOOLEAN \X BOOLEAN \X BOOLEAN
  /\ blockers \in 0..MaxBlockers
  /\ asks \in Seq(Ask)
  /\ budget \in [Act -> Nat]

\* "your application state will *eventually* match the browser state"
\* (index.ts:272): whatever the order of navigations, pops and answers, the
\* location the application sees ends as the browser's entry.
EventuallyMatches == []<>(location = parseLocation)

\* The same as long as no pop has been refused (only that sets
\* ignoreNextPop); refused pushes and replaces do no harm.
MatchesUnlessRefused == []~ignoreNextPop => EventuallyMatches

\* With nothing under way, no flush and no blocker of a pop to answer, the
\* application, the copy in memory and the browser are at one location, as
\* long as no pop has been refused.
PopAsked == \E i \in 1..Len(asks) : IsPop(asks[i])
Agree == next = None /\ ~PopAsked =>
           location = parseLocation /\ currentLocation = parseLocation
AgreesUnlessRefused == []~ignoreNextPop => []Agree
=============================================================================
