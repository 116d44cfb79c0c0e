# TanStack Router: a TLA+ model

The router decides what a web application shows. On the client, navigations,
preloads, reloads and back buttons overlap, each runs user functions that take
any time and end in any way, and all of them read and write one set of *route
matches*. Around this core stand parts with hard problems of their own: the
browser history with its blockers, the merge of HTML and scripts on the server,
the framed response of a server function, the generator of the route tree, the
search for the route of a path. This directory models the core and these five,
checks them with TLC and proves, with TLAPS, the main invariants of the core, that its
locks belong to runs at work, that it comes to rest on the latest page and keeps the
promise of its navigations, the invariants of the history, that the generator's tree
follows the files, that the streams of a framed response are separate, everything
that is safety of the stream transform, and that the route matcher finds a route exactly
when the path fits one, a most specific one, with the right params.

Paths below are relative to `src/packages/`.

## 1. The system

### 1.1 Components

| component | state it keeps | operations | interacts with | status |
|---|---|---|---|---|
| match pools (`router-core/src/stores.ts`, `Matches.ts`) | three pools of match records: active (rendered), pending, cached; per match one mutable `_nonReactive` object | `getMatch`, `updateMatch`, `setMatches`/`setPending`/`setCached` | read and written by everything | partly |
| `loadMatches` (`router-core/src/load-matches.ts`) | per call an `InnerLoadContext`; promises and timers in `_nonReactive` | beforeLoads one after the other, then one loader task per match, then `onReady` | the pools, user functions, lazy chunks; called by `load` and `preloadRoute` | partly |
| router core (`router-core/src/router.ts`) | `latestLocation`, `latestLoadPromise`, `commitLocationPromise`, `status`, `resolvedLocation`, `isLoading` | `navigate`, `load`, `invalidate`, `preloadRoute`, `clearCache`, `startViewTransition` | history calls `load`; `load` calls `loadMatches`, which calls back `onReady` | partly |
| `Transitioner` (`react-router/src/Transitioner.tsx`) | what was pending in the last render | subscribes `load` to history, resolves `status` and `resolvedLocation` | watches `isLoading` and `hasPending` | partly |
| history (`history/src/index.ts`) | what the application sees, what is written at once, the queued URL update, blockers, flags for the next popstate | push, replace, go, back, forward, block, flush, popstate | notifies `load`; awaits blockers; the browser's own history | partly |
| framed responses (`start-server-core/src/frame-protocol.ts`, `start-client-core/src/client-rpc/frame-decoder.ts`) | pumps of the server; buffered bytes and streams by id of the client | multiplex, decode, cancel | server function calls at both ends | modelled |
| stream transform (`router-core/src/ssr/transformStreamWithRouter.ts`) | text held back, scripts waiting, closing tags, timers | merge, finish, time out, cancel | the renderer's stream, `serverSsr` | modelled |
| server render (`router-core/src/ssr/ssr-server.ts`) | the `ScriptBuffer`, injected HTML | dehydrate, enqueue, lift the barrier, flush | serializer, stream transform, `<Scripts>` | partly |
| route matching (`router-core/src/new-process-route-tree.ts`) | a segment tree, LRU caches | build, find | used by `getMatchedRoutes` | partly |
| router generator (`router-generator/src/generator.ts`) | a queue of file events, a running promise, three caches | run, process events | file watcher, editors | partly |
| Start: server function calls (`serverFnFetcher.ts`, `server-functions-handler.ts`) | raw streams found while serializing | serialize, read lines | framed responses | partly |
| Start: middleware, request handler | per request | chains of user functions | server functions | no |
| paths, search, links, redirect and notFound values | none | string conversions, constructors | used by `navigate` | no |
| LRU cache, deferred data, scroll restoration | small maps | get/set, one promise, save and restore of positions | route matching, components, navigation events | no |
| hydration (`ssr/ssr-client.ts`) | dehydrated matches | hydrate | `loadMatches` | no |
| React, Solid and Vue bindings; React server components | what a component renders or suspends on; a replayable stream | render, replay | subscribe to the pools | no |
| bundler plugins, CLI, devtools, query adapters | - | transform code at build time | - | no |

### 1.2 What is hard

JavaScript is single threaded: what happens between two awaits is atomic. But:

* **Overlap.** Any number of loads and preloads are suspended at awaits of the
  same matches. A new load does not stop the older ones; it aborts their signals
  and goes on.
* **Sharing through `_nonReactive`.** Records are copied, `_nonReactive` is not.
  `loaderPromise` and `beforeLoadPromise` in it are the locks by which runs wait
  for each other. A path that drops one unresolved strands the waiters.
* **Stale references.** A run holds match ids across awaits. Meanwhile the match
  may have moved between pools, been dropped, or been made again with a new
  `_nonReactive` object.
* **Late results.** The loader of an outdated load writes into the newest record.
* **Late commits.** `onReady` commits whatever is pending then; it is called at the
  end of a load, by a `pendingMs` timer, or later by a view transition.
* **Failure.** Every user function may return, throw, redirect, throw a notFound
  or be aborted; every lazy chunk may fail.

The other parts:

* **History.** Three copies of the location may differ. A push is visible at once,
  written in a microtask, and perhaps asked about first; a traversal happens first
  and is asked about afterwards; the answers come when other navigations have
  happened.
* **Framed responses.** Frames of several streams are cut into pieces anywhere; a
  stream may be found by its first frame or by the value that refers to it; it may
  be cancelled before either; the connection may break.
* **Stream transform.** HTML is cut into chunks anywhere, scripts become ready at
  any time, and the application, the serialization, two timers and the client end
  in any order.
* **Generator.** Files change while it reads, transforms and writes them, and what
  it writes is reported to it as a change again.
* **Route matching.** Sequential, but a search with pruning and a positional
  encoding of specificity whose result depends on all routes at once.

`PROJECT.json` lists these hazards one by one, at the line where each bites, with
the properties that watch it.

### 1.3 What makes each component correct

* Pools: a match is in the cache or on the page, never in both; the pools hold
  whole locations; a match that stays keeps its promises.
* `loadMatches`: one loader call per match at a time; a waiter is always woken;
  after everything has ended no lock is left and nothing is stuck.
* Router: only the latest location is shown, in the end it is; its promises are
  kept, by the right load.
* Transitioner: `resolvedLocation` is what the page shows.
* History: what the application sees ends as what the browser shows.
* Framed response: each stream behaves as if it had the connection to itself, and
  comes to an end.
* Stream transform: nothing is lost, doubled or reordered; scripts stand between
  tags; the response ends.
* Generator: the route tree ends up with the routes that are there.
* Route matching: the most specific route, whatever the order of declaration, with
  the params it was matched by.

## 2. The modules

| module | models | notes |
|---|---|---|
| `MatchPools` | match records, pools, `_nonReactive`, and the functions on them | operators only: each maps a memory to a memory |
| `LoadMatches` | `load-matches.ts` for any number of concurrent calls | one action per stretch between awaits |
| `RouterCore` | `router.ts` and `Transitioner.tsx`, and all properties | composes `LoadMatches`; `Spec` |
| `Navigation` | what an application is promised | abstract; refined by `RouterCore` |
| `BrowserHistory` | `createHistory` with `createBrowserHistory` over `window.history` | `Spec` with the browser and the blockers as environment |
| `FrameProtocol` | the encoder, `createMultiplexedStream`, and the serializer that feeds it | server half |
| `FrameDecoder` | the decoder, `createFrameDecoder`, and the reader of its JSON lines | client half; extends the server half for the wire |
| `FramedResponse` | the two composed | `Spec` |
| `Channels` | what a framed response promises of each stream | abstract; refined by `FramedResponse` |
| `StreamTransform` | `transformStreamWithRouter` and the `ScriptBuffer` of `ssr-server.ts` | `Spec` with renderer and serializer as environment |
| `Generator` | `run`, `generatorInternal`, `processRouteNodeFile` | `Spec` with editors and watcher as environment |
| `RouteMatcher` | `parseSegments`, `sortTreeNodes`, `getNodeMatch`, `extractParams`; and a definition of the best match | the search is a state machine, a frame per step |
| `MCBrowserHistory`, `MCFramedResponse`, `MCStreamTransform`, `MCRouteMatcher` | instances | for TLC |
| `BrowserHistoryProofs`, `FrameProofs`, `GeneratorProofs`, `RouteMatcherProofs`, `StreamTransformProofs` | invariants and theorems | TLAPS |
| `MCRouterCore` | routes, locations and budgets of user actions | for TLC |
| `LoadMatchesProofs` | what the operators of `MatchPools` and the steps of `LoadMatches` do to pools, promises and runs | lemmas |
| `RouterCoreProofs` | the invariant, the theorems on the pools | extends `LoadMatchesProofs` |
| `LockProofs` | which run holds the promises of a match; what the latest load has done before it ends | extends `RouterCoreProofs` |

### 2.1 State of the core

| here | in the code |
|---|---|
| `mem.active`, `mem.pending`, `mem.cached` | `stores.matchStores`, `pendingMatchStores`, `cachedMatchStores` |
| `mem.bag[m][o]` | the `_nonReactive` object of match `m` made by the `matchRoutes` of run `o` (0: before the model starts) |
| `mem.resolved` | the controlled promises resolved so far; a promise is named by the match and the run that created it |
| `mem.aborted` | the abort controllers aborted so far |
| `mem.lazy` | `_lazyPromise` of each route |
| `mem.isLoading`, `mem.commits` | `stores.isLoading`; view transitions whose update has not been called |
| `run[r]` | the `InnerLoadContext` of a call of `loadMatches`, with the position of its beforeLoad loop (`pc`, `idx`), of the task of each match (`fg`) and of background reloads (`bg`) |
| `cpu` | the run inside a synchronous stretch |
| `latest`, `resolved`, `status` | `latestLocation`, `resolvedLocation`, `stores.status` |
| `latestLoad`, `commitP` | `latestLoadPromise` (its run), `commitLocationPromise` is unresolved |

A match record keeps its status, `isFetching`, `invalid`, `preload`, error kind,
`globalNotFound`, cause, controller, and whether there is loader data.

### 2.2 Steps of the core

The stretch of a run from one await to the next is a chain of actions during which
`cpu` is the run, so nothing else interferes. When `cpu = 0`:

* a *continuation* whose promise is resolved may be taken, in any order among
  runs (`Continuation`, `RouterStep`);
* a *user function* may return (`UserResult`), with any outcome the configuration
  allows; with `EagerResults` between any two continuations, else only when none is
  ready;
* clicks, timers, chunks, view transitions and the Transitioner's effect come from
  the task queue, so only when no continuation is ready (`Drained`).

The order in which promise reactions are queued is thus over-approximated, and
that of macrotasks is free. In one place the order matters and is kept: when a
background reload has thrown a redirect before its run has committed, the `navigate` of
that redirect comes before the end of the load, which takes two more microtasks
(`Outrun`); otherwise the outdated load would resolve the promise of its navigation.

`Load` is `load` up to its first await: cancel, match, ingest as pending. A
navigation, a popstate, an invalidate and a followed redirect all end in it. The
commit in `Commit` includes the caching of exiting matches and the sweep of the
expired ones, as the batch in `onReady` does.

### 2.3 Abstractions of the core

* A route has one match id here (`RouteOf` allows more).
* `staleTime` and `gcTime` are choices: a reload may find its match stale or
  not; with `Expiry` any cached match may be past its `gcTime`.
* Loader data is a flag. Contexts, params, search and heads are left out.
* User functions are asynchronous. A synchronous one is the case where the
  result arrives before anything else happens.
* `NotFoundRoutes` have a `notFoundComponent`; a thrown notFound bubbles to the
  nearest one. `notFound({routeId})` and notFounds of route matching are left out.
* A redirect goes to the fixed `RedirectTo`; at most `MaxRedirects` are thrown.
* The component chunks of a route are one with its lazy chunk.
* `shouldReload`, `minPendingMs`, masks, `reloadDocument` and the server branches
  (`isServer`, `ssr`, `dehydrated`) are left out.
* React's batching is reduced to: effects run when the microtask queue is empty.

### 2.4 History

| here | in the code |
|---|---|
| `entries`, `pos` | `window.history`; an entry is an href and the index kept in its state |
| `moves` | `history.go` calls the browser has not carried out |
| `location` | what `createHistory` shows to the application |
| `currentLocation`, `rollbackLocation`, `next` | of the same names; `next` is set while a flush is scheduled |
| `ignoreNextPop`, `skipBlockerNextPop`, `nextPopIsGo` | of the same names |
| `asks` | calls of `tryNavigation` or `onPushPopEvent` suspended at a `blockerFn`, with how many blockers are left |

`Navigate` is a push or a replace up to its first await, `Allow` and `Refuse` an
answer of a blocker with all that follows, `PopState` the browser's traversal with
the handler up to its first await, `Flush` the scheduled microtask. `Outside` is
other code calling the patched `pushState`. A suspended call asks the blockers that
were installed when it began; `left` counts those still to answer. With
`SameTick = FALSE` nobody asks for a traversal, no blocker refuses and none allows a
pop in a tick that has navigated and not flushed yet; both runs and the theorem on
agreement assume it, so that none of them says anything about such a tick. (There a
refused push puts back `currentLocation`, but not the update that is queued, and the
flush writes what was given up.)
`beforeunload`, `destroy`, and the hash and memory histories are left out.

### 2.5 Framed responses

`serialized`, `pumped`, `spawned` and `source` are the progress of the serializer and
the pumps, `wire` the bytes under way, `bufferList`, `totalLength`, `frameCount`,
`streams`, `streamControllers` and `cancelledStreamIds` the decoder's variables,
`state` and `got` what its readers see, `linesRead` how many JSON lines have been
processed, `reading` that a `read()` for the next is outstanding. Two header bytes stand for nine:
the type with the stream id, and the length, so that a piece may end within a
header. `Request`, `ReadLine` and `CancelJSON` are the reader of
`processFramedResponse`: a line that comes while a `read()` is outstanding is its
answer and will be processed whatever becomes of the decoder, one that comes before
the next `read()` is lost if the decoder fails first. The
loop of the decoder over the frames of one piece is synchronous, so nothing but
`Parse` happens while `pc = "parse"`. Seroval, which makes and reads the lines, is
external: a line refers to one raw stream or to none. `Drop` is `extractFlattened` by its
result: the pieces that lie wholly in what is taken are gone, the next is cut.

### 2.6 Stream transform

`app` is the renderer (how much of `page` is rendered, whether it ended, what the
barrier element took), `ssr` the `ScriptBuffer` and the serialization, `tr` the
closure of `transformStreamWithRouter`: `leftover`, `pending`
(`pendingRouterHtml`), `closing` (`pendingClosingTags`), `out` (what has been
enqueued), its flags and timer. A page is a sequence of kinds of text, cut
anywhere; closing tags have two halves, so that a chunk may end inside one, while
`</body>` and `</html>` are not cut. `WellFormed` says what pages there are: one with the
element that `<Scripts>` renders, and `</html>` right behind `</body>`, if they are
rendered at all. `late` and `split` record two orders that the properties exempt (3.2).
`setRenderFinished` lifts the barrier by a microtask of its own; `AppDone` and
`ReadChunk` wait for the one that `Lift` has queued, as a read does in the code.

### 2.7 Generator

`disk` and `tree` are the route files and the tree file, with modification times
from one `clock`, which gives no time twice; `fileEventQueue`, the two node caches
and the tree cache are those of the code, `job[f]` the progress of
`processRouteNodeFile`. Files are processed side by side. `safeFileWrite` is three
steps, as others may write between any two: the check of the modification time (the last
part of `Transform` and `BuildTree`), the rename (`Rename`, `RenameTree`) and the stat
that takes the time to be cached (`StatFile`, `StatTree`). Otherwise there is at most one
access to the disk per step, except that `ReadFile` and `ReadTree` take the time and the
content of a file at once; the code takes the time first, and a save in between only makes
it older than the content, so that the file is looked at again. `overlooked` is a
history variable: the files, or the tree, for which a `stat` found somebody else's version
and cached its time for the generator's own, until they change again. The content of the
tree is the set of its routes. A file is empty, not yet transformed, right, or no route.

### 2.8 Route matching

`tree` is built by `TreeOf` from the declared routes one after the other, as
`parseSegments` does (`Orders` has the applications: which routes of the catalogue they
declare, in which order); `stack`, `bestMatch` and `bestFuzzy` are those of
`getNodeMatch`, and each turn of its loop is one action. A param needs a part of the
path that is not empty, an optional param does not. `Candidates` is the reference: all
ways to lay a path on a branch, by the set of the optional segments it skips, that every
guard accepts. `FindsWhatFits` says that the search ends with a candidate exactly if there
is one, `FindsMostSpecific` that no candidate outranks it: of the parts matched by static
names, by params and by optional params, in this order, the earliest part that one of the
two matched so and the other did not decides. The code adds up powers of two instead
(`SegmentScore`). Suffixes, case sensitivity, the caches, masks and decoding errors are
left out. A route declared as a pathless layout has children, as the file-based routes
do.

## 3. What is checked

The core runs use `MCRouterCore`: three nested routes (`root`, `a` in it, `b` in
`a`), the locations `/`, `/a`, `/a/b` (two of them where noted). Nesting matters: a
beforeLoad that fails hides what is below, and parents stay while children come
and go. Three overlapping runs are the smallest number in which a run waits for
another while a third drops its match; with two user actions a redirect makes the
third. `Budgets` bounds the actions of the user, `MaxRuns` loads and preloads,
`MaxRedirects` redirects. `CHECK_DEADLOCK` is off everywhere: when the budget is
spent and everything has ended the system rests.

### 3.1 Passing runs

| run | instance | shows |
|---|---|---|
| `navigations` | three navigations, or one with a back button or an invalidate (any flags); one blocking route | `NoLostWaiter`, `Settled`, `SupersededAborted`, `ResolvedAfterCommit`, `SyncWaits` |
| `failures` | one navigation and a clearing of the cache; all outcomes, lazy chunks of which one may fail, view transitions, a pending component, expiry, eager results | `TypeOK`, `PathPools`, `PageSettled`, `Settled` |
| `preloads` | navigation and preload, errors, redirects, notFounds of beforeLoads, expiry, one `preload: false` route | `PoolsDisjoint`, `LocksAreHeld`, `SingleFlight`, `NoLostWaiter` |
| `implements_navigation` | two navigations with errors, redirects and notFounds, of loaders and of beforeLoads | `ImplementsNavigation` (refinement with liveness), `SameBag`, `DataShown`, `ResolvedRendered` |
| `history` | two hrefs, two navigations, two traversals, one foreign update, blockers installed and removed twice (two at most), any answers | `TypeOK`, `MatchesUnlessRefused`, `AgreesUnlessRefused` |
| `framed_response` | two raw streams of one chunk (of two bytes and one), two lines, pieces of three bytes, three sets of limits, failures of the serializer, a source and the connection | `BufferAddsUp`, `ImplementsChannels` (refinement), `StreamsEnd` |
| `generator` | two files, two edits of any kind, the tree file edited | `UpToDateUnlessLeftOver`, `KnownIsRoute`, `RegeneratesUnlessForgotten` |
| `stream` | four pages (with and without `</body>`, with text after it, without a last tag), four scripts, one position held back at most | `TypeOK`, `ScriptsAddUp`, `HtmlAddsUp`, `ScriptsBetweenTags`, `CompleteWhenClosed`, `ResponseEnds` |
| `route_matching` | all sets of up to five of seventeen routes, in two orders of declaration, ten paths, fuzzy or not | `FindsMostSpecific`, `FindsWhatFits`, `FavoursLongerPrefix`, `ParamsAreMatched` |

`AtRest` of the core (no run under way, no view transition queued) is reached in each
of the runs whose properties start from it. Each property is broken by a plausible
bug of one definition; these mutants stand before the definitions they alter and are
listed in `PROJECT.json`.

Why the bounds are enough: pieces of three bytes meet frames of two, three and four,
so that pieces end in headers, in payloads and between frames; with a limit of one
stream the second is refused by the decoder and by the reader of the lines; a piece that
comes while three bytes of the longest frame are held exceeds the limit of five. In
`history`, two entries and a traversal between them with two asks under way give every
order of answers, pops and flushes. Two edits suffice for a file that is saved while it
is transformed and again while the error of that is handled. Positions of a page are
cut in all ways. In `route_matching` every pair of kinds of segments competes for one
part of a path, with a third route below one of them.

### 3.2 Where the code and its documentation part

Each of these runs ends in a counterexample to one property, which restates a
sentence of the documentation or a comment (quoted in `PROJECT.json`).

| run | property | what happens |
|---|---|---|
| `invalidation_lost` | `RevalidationNotLost` | the second of two `invalidate()` calls aborts the background reload of the first, and starts none because it sees that reload under way; when the aborted loader rejects, the page stays marked invalid |
| `forward_refused` | `EventuallyMatches` | a blocker refuses a forward button; the handler undoes it by `history.go(1)`, which moves on, or nowhere and leaves `ignoreNextPop` set |
| `guard_dropped` | `GuardsHold` | a pathless layout below a route with `params.parse` ends on its parent's node and clears the parse function there |

Other places where the model shows the code to do what it hardly means, each listed
as a hazard with its line. The properties exempt them by a condition, or the
instances leave them out:

* core: a failing lazy chunk drops the `loaderPromise` others wait for (`Settled`
  exempts it, only `failures` has such chunks); a preload that waited together with a
  navigation may mark the rendered match `redirected`; a rendered match made pending
  again has no `loadPromise`; the loader of a preload, or of a superseded load, may clear
  the error that the latest beforeLoad has left on the match (no property is about it);
* core, waiting: when a third load has removed a match by the time the loader of the first
  returns, `loadRouteMatch` throws before it resolves `loaderPromise` (load-matches.ts:938-940),
  and the second load, which waits for it, never ends; `/a`, `/a`, `/` is enough.
  `NoLostWaiter` says of each step by which a run abandons another that it is this one
  (the task has state `crash`), so that there is no other way in the instances;
* core, notFound: the beforeLoad of an outdated load throws a notFound after its match has
  gone; the error then names no route, and without a `notFoundComponent` above that
  match the root is the boundary (`gone`, `BeforeBoundary`). It is marked
  `globalNotFound`, though by then it may be rendered for a newer location (`implements_navigation` has it; no property is about it);
* core, with three runs or more: of two runs that have waited for a third both call the
  loader (`SingleFlight` is of one load and one preload); with lazy routes a superseded
  load that awaits a chunk after its loader marks a match successful that a third
  navigation has made anew without data (`DataShown`); several beforeLoads that fail on
  one match may leave it `redirected`, or a loader unaborted (`Settled`
  and `SupersededAborted` are of instances where functions do not fail or few runs
  overlap);
* generator: an event queued while a round finds out that it has nothing to do is
  forgotten until the next one (`NothingForgotten`); a round that fails leaves its
  entries in `routeNodeShadowCache`, where a later round takes them for its own and does
  not notice that one of those routes is gone (`NoLeftOver`; it takes three edits); a
  tree file that was deleted is not written again if the cached content is what would be
  written, though the code calls this case `force` (the run only edits it); a save
  between a rename and its stat has its time cached for the generator's content, its
  event is then taken for known, and it is missed until the file changes again
  (`overlooked`, exempt in all three properties); a save between the check of the time
  and the rename is overwritten (no property is about what editors have saved);
* framed response: a `read()` that was answered before the decoder failed is not revoked;
  if its line refers to a stream, the decoder makes one that nobody ends. `StreamsEnd`
  exempts streams that are open when everything is over and were made so (`Running`);
* stream: scripts serialized before the transform is attached and not taken by
  `<Scripts>` are lost when serialization is over by then (`late`); after a chunk that
  ends between `</body>` and `</html>` scripts follow `</body>` (`split`);
* route matching: three prefixes of which one pair is unrelated may be tried in the
  wrong order; of `/{-$a}/{-$b}/$x` with a guard on `a` and `/{-$a}/{-$b}/$y` without, the
  path `/1/2` finds the second if the guard refuses `1` for `a`, though it accepts the path with
  `a` skipped, which is as specific (both are against `FavoursLongerPrefix` and in no
  instance); an index route below a place that already has one replaces the node of the
  first together with its guard (`PlainIndices`); beyond 32 segments the mask of skipped
  ones wraps around (`Shallow`); when `params.parse` of `/$x/b` sits on a node that a route
  `/$y/b/c` shares, the value is extracted for it under the name `x`, and the second walk,
  which goes on from there, does not give it to the route below as `y` (`WellNamed`); for the
  path `/` an index at the root is returned at once, and its `params.parse` not asked
  (new-process-route-tree.ts:1011; guards here accept a param that is absent, so no run
  shows it).

### 3.3 Fairness

All of it is weak.

* Core: the steps of the runs (`LoadMatchesStep(r)`, `RouterStep(r)`),
  `EnvironmentStep` and `Resolve` together: something happens as long as something can.
  The user actions are bounded and every run is finite, so that each of them gets its
  turn. The JavaScript engine runs every ready continuation and the browser fires every
  timer and calls back every view transition; that user functions return and chunks arrive (or fail) is an assumption
  on the application, without which no liveness holds.
* History: a scheduled flush runs, the browser carries out traversals, blockers
  answer.
* Framed responses: both event loops run; the sources end or fail. Faults and
  cancellation need not happen.
* Stream: microtasks, reads of what was rendered and the serialization timer; not the
  renderer, nor the serializer, which may hang: `ResponseEnds` says that the response
  ends all the same.
* Generator: the watcher reports what it saw, and the run goes on.
* Users, editors and applications need not act.

Route matching terminates within its own bound and needs no fairness: its properties
are about its results.

## 4. What is proved

For all values of the constants and any number of runs, files, hrefs, events, scripts,
streams, chunks and limits:

| module | theorem | says |
|---|---|---|
| `RouterCoreProofs` | `TypeCorrectness` | `Spec => []TypeOK` |
| | `CacheIsDisjoint` | `Spec => []PoolsDisjoint` |
| | `PoolsFollowTheLocation` | `Spec => []PathPools` |
| | `StayingMatchesShareTheirPromises` | `Spec => []SameBag` |
| | `ResolvedFollowsThePage` | `Spec => ResolvedRendered` |
| | `ImplementsNavigationSafety` | `Spec` implies the initial predicate and the next-state relation of `Navigation` |
| `LockProofs` | `LocksBelongToTheirRuns` | `Spec => []LocksAreHeld` |
| | `NoLockOutlivesItsRun` | when no run is left, no match of any pool has a `beforeLoadPromise` or `loaderPromise` |
| | `RestsOnTheLatestPage` | `Spec => []PageSettled`, without failing chunks |
| | `NavigationsEndOnThePage` | `Spec => ResolvedAfterCommit`, without view transitions and failing chunks |
| `BrowserHistoryProofs` | `TypeCorrectness` | `Spec => []TypeOK` |
| | `AgreementUnlessRefused` | `Spec => AgreesUnlessRefused`, if `SameTick = FALSE` |
| `GeneratorProofs` | `CachesKnowRoutes` | `Spec => []KnownIsRoute` |
| | `TreeFollowsFiles` | `Spec => UpToDateUnlessLeftOver`, if the tree file is not deleted |
| `StreamTransformProofs` | `StreamTyped` | `Spec => []TypeOK` |
| | `ScriptsInOrder` | `Spec => []ScriptsAddUp` |
| | `HtmlInOrder` | `Spec => []HtmlAddsUp` |
| | `ScriptsWellPlaced` | `Spec => []ScriptsBetweenTags` |
| | `NothingLacking` | `Spec => []CompleteWhenClosed` |
| `FrameProofs` | `StreamsAreSeparate` | `Spec => ImplementsChannels`, the whole refinement |
| | `BufferIsCounted` | `Spec => []BufferAddsUp` |
| `RouteMatcherProofs` | `WhatIsFoundFits` | the path fits the route that is found, its guards included, if the tree is `WellNamed` and `Shallow` |
| | `ParamsAreThoseMatched` | `Spec => []ParamsAreMatched`, if it is `WellNamed` and `Shallow` |
| | `WhatFitsIsFound` | `Spec => []FindsWhatFits`, if it is `PlainIndices` as well |
| | `WhatIsFoundIsMostSpecific` | `Spec => []FindsMostSpecific`, if it is `PlainWildcards` too |

Assumptions. Core: `PathAssumption` (the matches of a path are distinct) and
`RouterAssumption` (every location has a path, the start and the redirect target are
locations); `OutcomeAssumption` is not needed. History: `HistoryAssumption` (the bounds
are numbers, `None` is neither an entry nor an update). Generator: `FileAssumption`
(finitely many files, of which the tree file is none). Stream: `StreamAssumption` (pages
are well-formed, there are at least the first script and the last, the cap is positive).
Frames: `ChannelAssumption` (ids are positive numbers, chunks are sequences of bytes, there
is a first line, lines refer to streams) and `DecoderAssumption` (a piece has a byte).
Nothing is assumed of the limits. Routes: `MatcherAssumption` (a parent stands before its
children in the catalogue) and `OrderAssumption` (parents are parsed before their
children).
The conditions of the theorems themselves are those under which the properties hold of
the code (3.2): with a view transition the promise of a navigation is resolved before
the browser calls back the commit, and a load that cannot get the chunk of its
`errorComponent` or `notFoundComponent` ends without a commit. The conditions on the tree
hold for every application that `route_matching` searches: no route has a name twice, those
that share a guarded node name its segments alike, no branch has 32 nodes, no two
routes end in an index at one place, and a wildcard is the last of its branch. The code lets
applications declare trees that they exclude, and there the conclusions may be false: one
that the last excludes has an index below a wildcard, which can be discarded together
with the wildcard though it ranks higher.

### 4.1 The core

None of these is inductive alone. `Inv` is the conjunction of

* `LoadOK`: the types, and that the positions a run remembers lie in its path;
* `Sound(mem, latest)`: pools disjoint, objects shared, `isLoading` exactly when
  something is pending, pending (or else active) the path of `latest`, active the
  path of some location;
* `isLoading` only while `status` is `pending`.

A step of `loadMatches` may call any chain of updates. The lemmas classify the
chains: `Tame(s, t)` says that `t` has the same matches in the same pools with the
same objects, and every update helper is tame, even for a run that is outdated,
since `updateMatch` writes to a match where it is or not at all. The only
other change is `Commit`. So each of the actions of `LoadMatches` is tame or
commits (`LoadStep`), and either preserves `Sound`; the router's own actions are
treated one by one. The same case distinction gives the refinement: a tame step is
a stutter of `Navigation`, a commit is `Show` or a stutter.

`SameBag` is why `PoolsDisjoint` has to be in the invariant: a match found in the
cache by `getMatch` but active elsewhere would get a second object.

*Locks.* A `beforeLoadPromise` or `loaderPromise` whose run has gone is a match that can
never be loaded again: everybody who comes later waits. `LocksAreHeld` says of each
promise which run it belongs to and what that run is doing. A step may break it in three
ways, and each has its lemmas. The memory may change: `Keeps(s, t)` says that `t` has no
promise that `s` has not (every helper but the two that lock), `Frees` that those of one
run are gone, and a match that is made anew or changes pools has the promises of its old
record or none, which needs `SameBag`. The run may move on: `Passes(s, t, r, y)` says that
with `y` as the record of run `r` its promises still have somebody at work, and is shown
for each action of `LoadMatches`. And a run may start, or launch a task, over a record
that is still in use: `Stages` excludes that. It says of every run which tasks it may have at which
point (`Stage`): none before the loaders, none at the positions the loop has not
reached, only ended ones in the foreground after they were settled.

*Commits.* Each step of a run is classified once (`Advance`: the serial phase, the launch
of a task, the work of a task, the end of the tasks, `onReady`), and what follows is shown
for the classes. The router is `Waiting` while matches are pending and no view transition is
queued that will commit them. `Owns(latestLoad)` says that it is a load of the latest
location, that it has not run into a match nobody knows, and that, if it has called
`onReady` or ended and the router is waiting nevertheless, a redirect that it has not
followed yet is the reason. `OwnerInv` adds that without such a load nothing waits and no
navigation promise is left. It is inductive with view transitions and without, and gives
`PageSettled` at rest; without them `commits` is 0, and the load that resolves a navigation
promise has committed. `Outrun` (2.2) is what the proof demanded: without it the load that
commits nothing could end first.

### 4.2 The history

Types are inductive with one addition: `rollbackLocation` is there exactly while an
update is queued. Without it a refused push could set `currentLocation` to nothing.
Agreement needs `Together`: what is queued is shown and in `currentLocation`, and
`Agree`. It is kept by every step with `ignoreNextPop` false before and after, which is why the
theorem is the implication `[]~ignoreNextPop => []Agree`: a refused pop moves the
browser and promises that the handler will do nothing about it. The lemmas on
`RemoveAt` and the asks serve `PopAsked`: while a pop is asked about, the browser is
ahead.

### 4.3 The generator

`KnownIsRoute` (a remembered file whose time is that on disk is a route) would be
broken by a save that gets a remembered time, or by remembering the time of a file
that has been saved since it was read. So `Inv` adds `Past` (no time on disk, read or
remembered is later than the clock), `NoneIsEmpty` (only a missing file has the time
0) and `SeenIsCurrent` (if the times agree, what was read is what is there). An edit
and a rename take a time later than all of those. `Transform` remembers the time of what
it read; `StatFile` remembers the time of what it finds, which is a route or else the file
joins `overlooked`. All other actions leave the files alone, or swap the caches, of
which both satisfy the invariant.

`TreeFollowsFiles` is about the whole round. `Sound` adds to `Inv` that everything that is
not as it should be has been told: between rounds the caches agree with the files and
the tree file, or some event that will not be taken for known is on its way; while files
are processed each is where its job has left it, or an event tells of a later change
(`InProcess`), and a file that makes the round fail leaves a delete event; the cached tree
has the routes of the cache, unless it has been read anew to be written (`TreeCached`).
A file in `overlooked` counts as told; the proof shows that this one cached time leaves
the entries of all other files, and the routes of the tree for them, as they should be.
`OtherFiles`, by which the code decides to write nothing, compares the sizes of two
caches and then the keys of one, which is equality for finite sets. The proof fails
without `NoLeftOver`, which is how that fault was found.

### 4.4 The stream transform

What a page becomes is a sequence put together by eight handlers that call each other, so
the invariant is stated of values, `Good(app, ssr, tr, late, split)`, and each handler
(`Enqueue`, `Inject`, `Signal`, `TryFinish`, `Received`, `Over`) has a lemma of its own; a
step combines them. It says where everything is:

* `HtmlInPlace`: the positions up to some number are in the text sent, those after it are
  held back, then kept for the end, in order;
* `ScriptsInPlace`: the first scripts are in the barrier element, the next in the text
  sent, the others wait in `pending`, `buffered` and `queue`, in order;
* `Placed`: what has been sent has scripts only where they belong. To keep that, the
  invariant has to know why the code may write at all: no closing tag ends in the text
  held back (`HeldBack`), no `</body>` has been sent (`BodyOpen`), nothing is injected
  before the barrier element has been read (`Lifted`);
* `Flushed` and `Lateness`: a serializer that has ended has handed over its scripts,
  unless the transform was attached late; and `Complete` of a closed response.

`Lists(s, m, n)`, by which the properties say that the positions in `s` are those from
`m + 1` to `n` in order, is first order, so that the provers need no fold. The largest
closing tag of a text exists by `WFMin` of the library.

### 4.5 The framed response

Neither the buffer nor the connection knows where a frame begins; the decoder finds out
again from the bytes. The invariant (`InPipe`) says that what is buffered, followed by
what is under way, is the code of some sequence of frames `F`. Each frame has in the proof
a number that is not in its code, its place among those of its stream, and `Numbered` says
that the frames of a stream in `F` are those between what its reader has taken and what
its pump has sent, each once and in order. A pump appends to `F` (`PipeGrows`), a piece
that arrives only moves the border between buffer and connection, and the decoder takes
the first of `F`: `ParsedFrame` shows that `Header`, `FrameSize` and `Payload` are those of
that frame, wherever pieces end, and that `Drop` leaves the code of the others. What a
frame says of its source (`Content`) stays true while it is under way. That the reader of a
stream which ends normally has all of it follows from the number of the END frame, or,
when the input is over and the buffer is empty, from there being no frame left
(`AllArrived`).

Streams that nobody can deliver to any more (ended, cancelled, or after the JSON stream
was cancelled) are left out of the count (`Live`): what comes for them is thrown away. That
no frame makes an ended stream anew is the part of `ClientInv` about `Creates`, that is,
why the decoder keeps `cancelledStreamIds`.

The lemmas of the first section are about lists of pieces and of use elsewhere:
`FlatAppend`, `FlatConcat`, `Dropped`. The recursive function in `FlattenSeq` is followed
by induction on the set of lengths up to which a statement is true (`SetInduction`, from
`WFMin`). `Drop` is stated by the number of pieces that lie wholly in what is taken, since
a recursive function over two arguments cannot be followed so.

### 4.6 The route matcher

The declared routes become a tree, the tree is searched with a stack of frames, and a
frame is nothing but a node, some counters and a mask of bits. What it stands for is in
the tree.

`TrieOK` and `Nested` say what is: each node ends its own branch, and a branch without its last
node is that of another; the names on the branch of a node are read from the route found
there. `TreeOfOK` shows it for every order of declaration, along the recursive
functions of `parseSegments`: a node is made at the end of the tree or shared.

A frame whose branch can still lead to a route is right (`FrameOK`) when its `index` is the part of
the path at which the reference (`PartAt`) stands behind the branch with the same optional
segments skipped, each node of the branch has found its part (`Lies`), each guard above has
accepted (`Passed`), and the params and the mark left by earlier calls of `extractParams`
are what a walk of the nodes up to there gives (`Resumes`). The last is the heart of it: one
walk per guard, each going on where the last one stopped, by three counters of which one
counts parts, one nodes and one segments, has to give the values of one definition that
looks at the whole branch (`ExtractOK`; `GuardAsks` for what a guard sees). Every way to go
on keeps a frame right (`GoesOK`). So what is found fits (`WhatIsFoundFits`).

The converse needs what is still to come. For a candidate, a frame is on its way
(`Towards`) when its branch begins that of the candidate and it has skipped the same
optional segments so far. `SeekInv` says that while the search goes on, there is for each
candidate a frame on the stack that is on its way, or a match has been found; at the end the
stack is empty. `SeekValid` shows that no guard drops such a frame, `SeekTurn` that a turn of
the loop pushes the next one, or ends at the candidate, in which case it is taken or another
one is there; and a wildcard that is not tried because it cannot win is not tried because
something has won. `PlainIndices` is needed because the loop tries the index below a node
without pushing it.

That a most specific one is found (`WhatIsFoundIsMostSpecific`) needs more than that the
best match is replaced by better ones only: the search prunes, returns early, and
compares numbers where the definition compares sets of parts. The numbers first: the score
of a set of parts is the number of sets that it leads (`Score`); it is larger for a set
that leads another (`ScoreMore`), and a further part i of N adds `2^(N - i)` to it
(`ScoreAdd`), which is what `SegmentScore` adds. So the counters of a frame stand for the
sets of its rank (`Scored`, a part of `FrameOK`; `SumNext` for a step), and to compare them
is to compare ranks (`RankOver`). Then the search: `SeekInv` says of each candidate that is
no longer on its way that it does not surpass the best match (`Held`). A best match is
only replaced by one that is not surpassed by more (`Improves`); a candidate that is
reached and not taken does not surpass what stood in its way (`Covers`, `NotImproved`);
nor does a wildcard that is not tried, since it ends its branch, so that the frame is the
candidate itself; and nothing surpasses an index whose parts are all static
(`NothingOver`), with which the code returns at once. `PlainWildcards` is needed for the
wildcards: those "cannot have children", says a comment of the code. All four hypotheses
hold in every state of `route_matching`.

### 4.7 Only model-checked

* Core: the fairness of `Navigation` within `ImplementsNavigation`, and `NoLostWaiter`,
  `Settled`, `SingleFlight`, `DataShown`, `SupersededAborted` and `SyncWaits`.
  All of these six are true only of instances like those they are checked on
  (3.2), so that there is no general theorem to prove: the code breaks them with more
  runs or failures than the instances have. What holds of them always is proved: the
  part of `Settled` about promises by `NoLockOutlivesItsRun`, and of `NoLostWaiter` that a
  promise which is still in its match has its run at work (`LocksBelongToTheirRuns`).
* History: `MatchesUnlessRefused`.
* Framed responses: `StreamsEnd`.
* Generator: `RegeneratesUnlessForgotten`. Stream: `ResponseEnds`.
* Route matching: `FavoursLongerPrefix`, which of two equally specific routes is found. It
  is another that holds of the instance only (3.2).

Liveness under fairness and `ENABLED` are beyond the prover. So is most induction over
data, what a fold or a recursive function computes for every input: the induction
theorems of the library take an operator as parameter, and only those on sets
(`WFMin`) can be used, as in 4.4 to 4.6.

## 5. Plan

Proofs next, of the core: `SupersededAborted` for loads whose beforeLoads do not fail,
and `NoLostWaiter` of loads whose functions do not fail; of the route matcher, `FavoursLongerPrefix` for
trees without optional segments in which any two prefixes are comparable.

Models, if they are extended: hydration composed with `LoadMatches` (it hands over
matches that are pending or display only); the hash and memory histories; the
replayable stream of server components; the middleware chain; scroll restoration; the
LRU cache as a refinement of a bounded map; deferred data; pages without `<Scripts>`.

## 6. Not modelled, and why

* String conversions (paths, search, links, rewrites, decoding) are sequential and
  covered by unit tests. `redirect` and `notFound` construct values.
* The bindings only render; Solid's and Vue's are the same core under another reactive
  library. What a component suspends on is in the model as the promises of a match.
* Bundler plugins, the CLI and the transforms of source code are compilers without
  state that outlives a call. They, the type-level code, the bindings and their tests
  are most of the lines of the repository, so that the modelled share of all lines is
  small although the stateful parts of the router are here.
* Devtools and query adapters observe.
* The server side of `load` runs one request at a time with a router of its own.
* The LRU cache, deferred data, scroll restoration, hydration, the replayable stream
  and the middleware chain are planned (5).

