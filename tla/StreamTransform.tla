-------------------------- MODULE StreamTransform --------------------------
(***************************************************************************)
(* The response of a server render: transformStreamWithRouter of           *)
(* ssr/transformStreamWithRouter.ts, which merges the HTML chunks of the   *)
(* application with the scripts the router serializes, and the part of     *)
(* router.serverSsr (ssr/ssr-server.ts) that hands it those scripts: the   *)
(* ScriptBuffer, injectHtml and the end of crossSerializeStream.           *)
(*                                                                         *)
(* A page is a sequence of kinds of text: "bar" opens the element that     *)
(* <Scripts> renders with the scripts buffered so far (its id is the       *)
(* barrier), "</" and ">" are the two halves of a closing tag, "txt" is    *)
(* anything else.  The text sent, held back or kept for the end is a       *)
(* sequence of integers: p > 0 is position p of the page, -i is script i.  *)
(* Script 1 is the bootstrap with the first serialization, script Scripts  *)
(* the call that ends the stream on the client.                            *)
(***************************************************************************)
EXTENDS Integers, Sequences

CONSTANTS Pages,        \* the pages an application may render
          Scripts,      \* number of scripts serialized for a request
          MaxLeftover   \* MAX_LEFTOVER_CHARS, counted in positions

\* A page has one element of <Scripts>, in the body, and ends the body, if it
\* does, together with the document.
WellFormed(p) ==
  /\ p \in Seq({"txt", "bar", "</", ">", "</body>", "</html>"})
  /\ \E bar \in DOMAIN p :
       /\ p[bar] = "bar"
       /\ \A i \in DOMAIN p : /\ p[i] = "bar" => i = bar
                              /\ p[i] = "</body>" => bar < i
  /\ \A i \in DOMAIN p : /\ p[i] = "</body>" => i < Len(p) /\ p[i + 1] = "</html>"
                         /\ p[i] = "</html>" => i > 1 /\ p[i - 1] = "</body>"
  /\ \A i, j \in DOMAIN p : p[i] = "</body>" /\ p[j] = "</body>" => i = j

ASSUME StreamAssumption ==
  /\ \A p \in Pages : WellFormed(p)
  /\ Scripts \in Nat \ {0, 1}
  /\ MaxLeftover \in Nat \ {0}

VARIABLES page,   \* the page being rendered
          app,    \* the application's stream
          ssr,    \* router.serverSsr with its ScriptBuffer
          tr,     \* the closure of transformStreamWithRouter
          late,   \* attached when serialization was over and scripts were left
          split   \* a chunk ended between </body> and </html>

vars == <<page, app, ssr, tr, late, split>>

Open == tr.stream = "open"

-----------------------------------------------------------------------------
\* ScriptBuffer of ssr-server.ts, on v, a value of ssr.

Lift(v) ==
  IF v.lifted \/ ~v.live THEN v
  ELSE [v EXCEPT !.lifted = TRUE,
                 !.microtask = IF @ = "none" /\ v.queue # <<>> THEN "lift" ELSE @]

Enqueue(v) ==
  LET script == v.produced + 1 IN
  IF ~v.live THEN [v EXCEPT !.produced = script]
  ELSE [v EXCEPT !.produced = script,
                 !.queue = Append(@, -script),
                 !.microtask = IF @ = "none" /\ v.lifted THEN "enqueue" ELSE @]

-----------------------------------------------------------------------------
\* transformStreamWithRouter, on t, a value of tr, and w = [ssr, tr].

\* cleanup() of the transform, which calls that of serverSsr.
Over(w, how) ==
  [ssr |-> [w.ssr EXCEPT !.live = FALSE, !.queue = <<>>, !.buffered = <<>>],
   tr  |-> [w.tr EXCEPT !.stream = how, !.timer = FALSE,
                        !.pending = <<>>, !.leftover = <<>>, !.closing = <<>>]]

\* Mutant: a script is written without those that wait before it.
ListenDirectly(t, html) ==
  IF t.rendering \/ t.leftover # <<>> \/ t.closing # <<>>
  THEN [t EXCEPT !.pending = @ \o html]
  ELSE [t EXCEPT !.out = @ \o html]

\* The listener of onInjectedHtml.
Listen(t, html) ==
  IF t.rendering \/ t.leftover # <<>> \/ t.closing # <<>>
  THEN [t EXCEPT !.pending = @ \o html]
  ELSE [t EXCEPT !.out = @ \o t.pending \o html, !.pending = <<>>]

\* takeAll, injectScript, injectHtml and the listener, if there is one.
Inject(w) ==
  LET html == w.ssr.buffered \o w.ssr.queue
      taken == [w.ssr EXCEPT !.microtask = "none", !.queue = <<>>,
                             !.buffered = IF w.tr.listening THEN <<>> ELSE html]
  IN  IF ~w.ssr.live \/ w.ssr.queue = <<>>
      THEN [w EXCEPT !.ssr.microtask = "none"]
      ELSE [ssr |-> taken,
            tr  |-> IF w.tr.listening THEN Listen(w.tr, html) ELSE w.tr]

TryFinish(w) ==
  IF w.tr.rendering \/ ~w.tr.finished \/ w.tr.stream # "open" THEN w
  ELSE Over([w EXCEPT !.tr.out = @ \o w.tr.leftover \o w.tr.pending \o w.tr.closing],
            "closed")

\* findLastClosingTagEnd, zero for none.
LastTagEnd(s) ==
  LET Ends == {i \in 2..Len(s) : page[s[i]] = ">" /\ page[s[i - 1]] = "</"}
              \cup {i \in 1..Len(s) : page[s[i]] \in {"</body>", "</html>"}}
  IN  IF Ends = {} THEN 0 ELSE CHOOSE i \in Ends : \A j \in Ends : j <= i

\* Mutants: the whole text is held back; what exceeds the cap is dropped.
HoldBackAll(t, s) == [t EXCEPT !.leftover = s]
HoldBackLast(t, s) ==
  LET n == IF Len(s) > MaxLeftover THEN Len(s) - MaxLeftover ELSE 0
  IN  [t EXCEPT !.leftover = SubSeq(s, n + 1, Len(s))]

\* The tail of the text that may hold the start of a tag is held back.
HoldBack(t, s) ==
  LET n == IF Len(s) > MaxLeftover THEN Len(s) - MaxLeftover ELSE 0
  IN  [t EXCEPT !.out = @ \o SubSeq(s, 1, n), !.leftover = SubSeq(s, n + 1, Len(s))]

\* Mutant: the scripts go before the text that ends with the closing tag.
SendAfter(t, s, n) ==
  [t EXCEPT !.out = @ \o t.pending \o SubSeq(s, 1, n), !.pending = <<>>]

SendTo(t, s, n) ==
  [t EXCEPT !.out = @ \o SubSeq(s, 1, n) \o t.pending, !.pending = <<>>]

\* Of the first such tag in a text, zero for none.
IndexOf(s, tag) ==
  IF \A i \in DOMAIN s : page[s[i]] # tag THEN 0
  ELSE CHOOSE i \in DOMAIN s : page[s[i]] = tag /\ \A j \in 1..(i - 1) : page[s[j]] # tag

\* One turn of the read loop, s being the text held back and the new chunk.
Received(t, s) ==
  LET body == IndexOf(s, "</body>")
  IN  IF t.closing # <<>>
      THEN [t EXCEPT !.closing = @ \o s, !.leftover = <<>>]
      ELSE IF 0 < body /\ body < IndexOf(s, "</html>")
      THEN [SendTo(t, s, body - 1) EXCEPT !.closing = SubSeq(s, body, Len(s)),
                                          !.leftover = <<>>]
      ELSE LET n == LastTagEnd(s)
           IN  HoldBack(IF n > 0 THEN SendTo(t, s, n) ELSE t,
                        SubSeq(s, n + 1, Len(s)))

Becomes(w) == ssr' = w.ssr /\ tr' = w.tr
Now == [ssr |-> ssr, tr |-> tr]

-----------------------------------------------------------------------------
Init ==
  /\ page \in Pages
  /\ app = [rendered |-> 0, state |-> "rendering", inBar |-> <<>>]
  /\ ssr = [queue |-> <<-1>>, produced |-> 1, lifted |-> FALSE, microtask |-> "none",
            buffered |-> <<>>, finished |-> FALSE, failed |-> FALSE, live |-> TRUE]
  /\ tr = [mode |-> "none", read |-> 0, out |-> <<>>, pending |-> <<>>,
           leftover |-> <<>>, closing |-> <<>>, rendering |-> TRUE, barrier |-> FALSE,
           finished |-> FALSE, listening |-> FALSE, timer |-> FALSE, stream |-> "open"]
  /\ late = FALSE /\ split = FALSE

\* onSerialize: a deferred value was serialized.
Serialize ==
  /\ ssr.produced < Scripts - 1
  /\ ssr' = Enqueue(ssr)
  /\ UNCHANGED <<page, app, tr, late, split>>

\* signalSerializationComplete and the listener of onSerializationFinished.
Signal(w) ==
  LET done == [w EXCEPT !.ssr.finished = TRUE]
  IN  IF w.tr.listening /\ w.tr.stream = "open"
      THEN TryFinish([done EXCEPT !.tr.finished = TRUE]) ELSE done

\* Mutant: completion is signalled before the buffer is flushed.
SerializeDoneUnflushed ==
  /\ ssr.produced = Scripts - 1
  /\ Becomes(Signal([ssr |-> Enqueue(ssr), tr |-> tr]))
  /\ UNCHANGED <<page, app, late, split>>

\* onDone: enqueue the last script, flush, signal.
SerializeDone ==
  /\ ssr.produced = Scripts - 1
  /\ LET w == [ssr |-> Enqueue(ssr), tr |-> tr]
     IN  Becomes(Signal(IF w.ssr.lifted THEN Inject(w) ELSE w))
  /\ UNCHANGED <<page, app, late, split>>

\* onError: signal without a flush.  The serializer may still go on.
SerializeError ==
  /\ ssr.produced < Scripts /\ ~ssr.failed
  /\ Becomes(Signal([Now EXCEPT !.ssr.failed = TRUE]))
  /\ UNCHANGED <<page, app, late, split>>

\* The microtask of enqueue or liftBarrier: injectBufferedScripts.
Microtask ==
  /\ ssr.microtask # "none"
  /\ Becomes(Inject(Now))
  /\ UNCHANGED <<page, app, late, split>>

\* The application renders the next position; <Scripts> takes the scripts.
Render ==
  /\ app.state = "rendering" /\ app.rendered < Len(page)
  /\ LET bar == page[app.rendered + 1] = "bar" /\ ssr.live
     IN  /\ app' = [app EXCEPT !.rendered = @ + 1,
                               !.inBar = IF bar THEN ssr.queue ELSE @]
         /\ ssr' = IF bar THEN [ssr EXCEPT !.queue = <<>>] ELSE ssr
  /\ UNCHANGED <<page, tr, late, split>>

RenderEnd ==
  /\ app.state = "rendering"
  /\ \/ app.rendered = Len(page) /\ app' = [app EXCEPT !.state = "ended"]
     \/ app' = [app EXCEPT !.state = "failed"]
  /\ UNCHANGED <<page, ssr, tr, late, split>>

\* The call of transformStreamWithRouter.
Attach ==
  /\ tr.mode = "none"
  /\ LET passthrough == ssr.finished /\ ssr.buffered = <<>>
     IN  /\ tr' = [tr EXCEPT !.mode = IF passthrough THEN "passthrough" ELSE "on",
                             !.pending = ssr.buffered,
                             !.finished = ssr.finished,
                             !.listening = ~ssr.finished]
         /\ late' = (passthrough /\ ssr.queue # <<>>
                     /\ \E p \in 1..app.rendered : page[p] = "bar")
  /\ ssr' = [ssr EXCEPT !.buffered = <<>>]
  /\ UNCHANGED <<page, app, split>>

\* A chunk ends anywhere.
ReadChunk ==
  /\ tr.mode # "none" /\ Open /\ tr.rendering
  /\ ssr.microtask # "lift" /\ app.state # "failed"
  /\ \E k \in (tr.read + 1)..app.rendered :
       /\ split' = (split \/ page[k] = "</body>")
       /\ LET chunk == [i \in 1..(k - tr.read) |-> tr.read + i]
              s == tr.leftover \o chunk
              bar == ~tr.barrier /\ \E i \in DOMAIN s : page[s[i]] = "bar"
          IN  IF tr.mode = "passthrough"
              THEN /\ tr' = [tr EXCEPT !.read = k, !.out = @ \o chunk]
                   /\ ssr' = ssr
              ELSE /\ tr' = Received([tr EXCEPT !.read = k, !.barrier = @ \/ bar], s)
                   /\ ssr' = IF bar THEN Lift(ssr) ELSE ssr
  /\ UNCHANGED <<page, app, late>>

\* Mutant: no timeout is armed while serialization is still running.
AppDoneUntimed ==
  /\ tr.mode # "none" /\ Open /\ tr.rendering /\ ssr.microtask # "lift"
  /\ app.state = "ended" /\ tr.read = Len(page)
  /\ LET w == [ssr |-> Lift(ssr), tr |-> [tr EXCEPT !.rendering = FALSE]]
     IN  Becomes(IF tr.mode = "passthrough" THEN Over(w, "closed")
                 ELSE IF tr.finished THEN TryFinish(w) ELSE w)
  /\ UNCHANGED <<page, app, late, split>>

\* The read loop ends: setRenderFinished, then finish or wait.
AppDone ==
  /\ tr.mode # "none" /\ Open /\ tr.rendering /\ ssr.microtask # "lift"
  /\ app.state = "ended" /\ tr.read = Len(page)
  /\ LET w == [ssr |-> Lift(ssr), tr |-> [tr EXCEPT !.rendering = FALSE]]
     IN  Becomes(IF tr.mode = "passthrough" THEN Over(w, "closed")
                 ELSE IF tr.finished THEN TryFinish(w)
                 ELSE [w EXCEPT !.tr.timer = TRUE])
  /\ UNCHANGED <<page, app, late, split>>

\* The read rejects.
AppError ==
  /\ tr.mode # "none" /\ Open /\ tr.rendering /\ app.state = "failed"
  /\ Becomes(Over([ssr |-> Lift(ssr), tr |-> [tr EXCEPT !.rendering = FALSE]], "errored"))
  /\ UNCHANGED <<page, app, late, split>>

SerializationTimeout ==
  /\ tr.timer /\ Open
  /\ Becomes(Over(Now, "errored"))
  /\ UNCHANGED <<page, app, late, split>>

\* The lifetime is over, or the consumer cancels.
Abandon ==
  /\ tr.mode # "none" /\ Open
  /\ \/ Becomes(Over(Now, "errored"))
     \/ Becomes(Over(Now, "cancelled"))
  /\ UNCHANGED <<page, app, late, split>>

Next ==
  \/ Serialize \/ SerializeDone \/ SerializeError \/ Microtask
  \/ Render \/ RenderEnd
  \/ Attach \/ ReadChunk \/ AppDone \/ AppError
  \/ SerializationTimeout \/ Abandon

\* Microtasks, reads and the serialization timer run; neither the deferred
\* values nor the renderer need ever finish.
Fairness ==
  /\ WF_vars(Microtask) /\ WF_vars(ReadChunk)
  /\ WF_vars(AppDone) /\ WF_vars(AppError) /\ WF_vars(SerializationTimeout)

Spec == Init /\ [][Next]_vars /\ Fairness

-----------------------------------------------------------------------------
\* The positive numbers in s are m + 1, .., n, in this order.
Lists(s, m, n) ==
  /\ \A p \in (m + 1)..n : \E i \in DOMAIN s : s[i] = p
  /\ \A i \in DOMAIN s : s[i] > 0 => m < s[i] /\ s[i] <= n
  /\ \A i, j \in DOMAIN s : i < j /\ s[i] > 0 /\ s[j] > 0 => s[i] < s[j]

\* With scripts in the place of positions.
Negative(s) == [i \in DOMAIN s |-> -s[i]]

Html == Seq(1..Len(page))
Injected == Seq(-Scripts..-1)

\* Every variable has its type, and the text held back never outgrows the cap
\* that bounds the memory of a response.
TypeOK ==
  /\ page \in Pages /\ {late, split} \subseteq BOOLEAN
  /\ app.rendered \in 0..Len(page) /\ app.state \in {"rendering", "ended", "failed"}
  /\ {app.inBar, ssr.queue, ssr.buffered, tr.pending} \subseteq Injected
  /\ {tr.leftover, tr.closing} \subseteq Html
  /\ tr.out \in Seq((1..Len(page)) \cup (-Scripts..-1))
  /\ ssr.microtask \in {"none", "lift", "enqueue"}
  /\ tr.read \in 0..app.rendered /\ Len(tr.leftover) <= MaxLeftover
  /\ tr.stream \in {"open", "closed", "errored", "cancelled"}

\* While the response is open every serialized script is in exactly one place,
\* and the places hold them in the order of serialization: the barrier
\* element, the text sent, pendingRouterHtml, the injected HTML nobody took,
\* the ScriptBuffer.
ScriptsAddUp ==
  Open => Lists(Negative(app.inBar \o tr.out \o tr.pending \o ssr.buffered \o ssr.queue),
                0, ssr.produced)

\* The application's HTML is neither lost, doubled nor reordered: what was read
\* is what was sent, what is held back and the closing tags kept for the end.
HtmlAddsUp == Open => Lists(tr.out \o tr.leftover \o tr.closing, 0, tr.read)

\* A script is written after the barrier element, whose scripts must run
\* first, never inside an element's closing tag, but just after one or where
\* the application's HTML ends; and it is written before </body>, unless a
\* chunk ended between </body> and </html>, which are then taken for any tags.
SentBefore(i) == {p \in 1..Len(page) : \E j \in 1..i : tr.out[j] = p}
ScriptsBetweenTags ==
  \A i \in DOMAIN tr.out :
    tr.out[i] < 0 =>
      /\ \E p \in SentBefore(i) : page[p] = "bar"
      /\ split \/ \A p \in SentBefore(i) : page[p] # "</body>"
      /\ \E last \in SentBefore(i) :
           /\ \A p \in SentBefore(i) : p <= last
           /\ \/ page[last] \in {">", "</body>", "</html>"}
              \/ last = Len(page)
              \/ page[last + 1] = "</body>"

\* A response that closes without an error holds the whole page and every
\* script the router serialized, unless serialization failed or was over
\* before the transform was attached, with scripts left that the barrier
\* element did not take.
CompleteWhenClosed ==
  tr.stream = "closed" =>
    /\ Lists(tr.out, 0, Len(page))
    /\ \/ late \/ ssr.failed
       \/ Lists(Negative(app.inBar \o tr.out), 0, Scripts)

\* Once the application's stream is over, the response ends, also when a
\* deferred value never resolves.
ResponseEnds == (tr.mode # "none" /\ app.state # "rendering") ~> (tr.stream # "open")
=============================================================================
