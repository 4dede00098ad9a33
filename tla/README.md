# A verification project for FastQL

FastQL is an async GraphQL engine for Python (`src/fastql`). This directory holds TLA+ models of what
happens to a request from the framework adapter to the last chunk of its response, of the objects its
parts share, and of the algorithms in between; the TLC runs that check them on small instances; and
proofs that TLAPS checks for every value of the constants. Everything is translated from the code; a
line of the form `dataloader.py:94` names a file below `src/fastql`.

Run a check with `tlc -config <run>.cfg <module>` and the proofs with `tlapm <module>Proofs.tla`
(for `Resolver`, `Objects`, `TransportWS`, `Delivery`, `Executor`, `Exchange`, `SchemaBuilder`, `Documents`). `PROJECT.json` lists the runs, the map from
definitions to lines, the hazards, and for each property a mutant: a plausible mistake (an operator
`Bug...` in the module) that TLC finds with it.

## 1. Inventory

| Component | State | Operations | Talks to |
|---|---|---|---|
| Framework and ASGI adapters (`integrations/*.py`, `server.py`) | the response or websocket under way | routes, normalising a request, sending start, chunks and end, accepting a socket | HTTP and websocket handlers |
| HTTP handler (`integrations/http.py`) | none between requests | request rules, GET safety, single, stream, batch | execute(), subscribe(), execute_incremental() |
| Multipart uploads (`integrations/multipart.py`) | the operations under change | read parts, place files | HTTP handler |
| graphql-transport-ws (`integrations/websocket.py`) | operations by id, acknowledged flag | receive loop, operation tasks, done callbacks | adapter, subscribe() |
| Pipeline and extensions (`execute.py:96-289`, `extensions.py`) | finalisers of the entered hooks | enter and leave a phase, bind a context, parse, validate, execute | HTTP handler, executor |
| Parser and printer (`language/parser.py`, `printer.py`) | position in the tokens | text to definitions and back | pipeline |
| Validation (`validation/rules.py`) | errors of a pass, visited fragments | one rule after the other | pipeline, schema |
| Field collection, coercion (`collect_fields.py`, `values.py`) | none | group selections, coerce values | executor, validation |
| Executor (`execution/execute.py`) | error list, coroutines joined by gathers | complete fields, lists and leaves, subscription events | resolvers, transports |
| Incremental delivery, subscriptions (`execute.py:386-611`, `integrations/streaming.py`) | queues of deferred and streamed jobs; the source | one payload per job or event, encoding, closing | executor, adapters |
| Dependency injection (`execute.py:931-990`) | memo of provider values and root containers | inject into a resolver or container | concurrent fields |
| DataLoader (`dataloader.py`) | cache of futures, queue, dispatch flag, batch tasks | load, load_many, clear, clear_all, prime, dispatch | resolvers, event loop |
| Relay, federation (`relay.py`, `federation/schema.py`) | registry of reference resolvers | slice a list, resolve entities | executor |
| Schema construction (`schema_builder.py`, `types/schema.py`) | types by identity, by name and by class | resolve references, make generic types, collect the type map | declarations, start-up |
| Lexer, decorators, introspection, SDL, CLI | none at run time | text to tokens, declarations to types, printing | start-up |

What is hard, and what makes each component correct:

* **Executor.** Siblings end in any order; errors become nulls that travel up through gathers that
  wait and gathers that do not. Correct: the null rule of GraphQL whatever the order, one error for
  each fault and none without, serial mutations, nothing of one event in the next.
* **Incremental delivery and streams.** Three generators around each other, job queues that grow while
  they are emptied, a client that may vanish and a server that may cancel at any await. Correct: each
  piece of work delivered once, in its place, with its own errors; an honest end; everything closed.
* **DataLoader, dependency injection.** Objects that concurrent callers share under failures and
  timeouts. Correct: made once, lost never, everyone with the right value, every await ending.
* **graphql-transport-ws.** One receive loop and a task per operation. Correct: sources closed,
  one terminal message and nothing after it, no end in silence.
* **Extensions, HTTP, adapters.** Nested resources whose entering and leaving may fail, instances shared
  between requests, sequences with partial failures, one request judged in two places. Correct: hooks
  resumed in order, contexts not mixed, safe GETs, whole batches, every request answered.
* **Parser, validation, collection, coercion.** Recursive algorithms that must agree with each other.
  Correct: what is validated is what is executed, and inputs are what their types say.
* **Relay, federation, uploads, schema construction.** Boundary cases, positions and names that must not
  shift or be taken for others.

## 2. The modules

```
Adapters > HTTPHandler > Pipeline           composed in Exchange
Documents > Validation > FieldCollection > Coercion > Ast
Delivery > Incremental, Subscription        implements JobStream
DataLoader                                  implements KeyedMemo
Objects > Relay, Federation, Uploads
Texts > Parser > Ast
Standalone > Objects, SchemaBuilder, Texts  a behaviour of one of the three
Executor, Injection, TransportWS
```

Each `MC` module only gives constants their values (`Samples` are documents that two of them share). Twelve
runs: eight check forty properties, four show one disagreement each (section 4). `Standalone` puts the
components that meet no other one into one run; it adds nothing to them.

### DataLoader and KeyedMemo

`KeyedMemo` is an abstract memo: fetches are asked for, end once with their own result, and are
forgotten by the user or by a failure. It knows no queue, batch or task.

In `DataLoader` everything between two awaits is one step, as asyncio runs it: `load` is `LoadCached` or
`LoadNew`, `clear`, `clear_all` and `prime` are actions, `Dispatch` is the callback `load` scheduled
(with `_dispatch_batch`, which creates a task for each of the `Chunks`), and a batch task is split at
its only await: `BatchReturns`, `BatchFails` (with all of `_fail_pending`) and `BatchAborts` (a
`BaseException`, which `except Exception` lets through). `Cancel` is a caller that is cancelled while
it waits, which asyncio passes on to the futures it waits for. Results are compared by key only: the
batch function is trusted to return the result of key *i* at position *i*; the cache key function is any.

Run `DataLoader`: 2 callers, 3 keys of which 2 share a cache key, limits none, 1 and 2, cache on and
off, 2 futures (`MaxFutures`): enough for callers to share a future, to replace it, and for a full
chunk and a rest. Fairness: the loop runs the scheduled dispatch and wakes tasks whose await is over,
and batch functions end, well or not. `TypeOK`, `DispatchIsScheduled` and `BatchWithinLimit` are proved
(section 3), which says more than a run of them would.

### Executor

A node is a response position: the root object, a field, a list item. Each runs as a coroutine;
`out[e][n]` is what it hands to the gather around it: a value, null, the `_NullBubble` signal, an
exception or a `CancelledError`. `Resolve` is `_execute_field` up to the point where a value is complete
or its children start. `JoinObject` is the gather of `_execute_fields` (which waits for all), `JoinList`
and `ListRaises` that of `_complete_list` (which does not). `JoinQuery`, `SerialStep` and `JoinEvent` are
the three ways a root ends, `NextEvent` the next event of a subscription on the same executor.
`NullByRule` states the null rule of the GraphQL specification without propagation; `NullsPropagate`
compares it with what the coroutines did in every order. `void[e]` and `response[e]` are history variables.

Run `Executor`: `{ a { x } b }`, `a` a list of two objects, all operation types, every choice of
NonNull with non-null lists of non-null items, two events. The tree has each shape below each other
one that matters, two items so that one can outlive the other, and two root fields so that mutations
have an order. `ExecutorNullableLists` allows nullable lists of non-null items as well. `NullsAreExplained`
leaves out leaves that serialise to `None`; `MutationsAreSerial` and `LeaksAreOrphans` name the one
exception the code has, list items left behind by an exception (`Orphan`). Fairness: some coroutine
goes on while one can.

### TransportWS

One connection: the receive loop of `handle()` and one task for each accepted operation. `loop` and
`pc[t]` say at which await each is. A send can be delivered or raise, a source yields, ends, fails or
aborts with `CancelledError`, the client may complete an operation or vanish, and the server may cancel
the handler, at every await. `CancelTasks` is `task.cancel()`; `Reap` is the done callback.

Run `TransportWS`: two ids and two operations, enough for a reused id, a duplicate one, and one operation
that goes on while another is stopped. Fairness: tasks whose await is over are resumed, `aclose()` and
the adapter's sends end (each may raise). Nothing is assumed of the client or of the sources.

### Injection

`dependency_values` and `root_instances` hold a task first and a value later. `Plan[c]` is the order in
which `_invoke` or `_create_root_instance` supplies the parameters of the field or container `c`. `CallSync`
is a provider that is no coroutine; `StartTask`, `JoinTask`, `TakeValue` and `EndAwait` are the four ways
through `_dependency_value` and `_root_instance`; `Use` is the resolver or the class that gets the values.
`TimeOut` is an extension that wraps a field with a timeout: asyncio cancels the task the field awaits,
through the container's task to the provider's if that is where it waits (`Awaited`).

Run `Injection`: a container with two methods, two plain fields, one asynchronous and one synchronous
dependency, one field with a timeout: a task can be started by one field, found running by a second and
found over by a third, directly and through the container, while `lone` shares nothing that is awaited.
A synchronous provider that raises is called again by the next field, so `MadeOnce` is about
asynchronous providers and the container; `SameValue` shows that the repeated calls never give two
fields different values. Fairness: the loop runs every coroutine that can go on, and providers end.

### Incremental, Subscription, Delivery and JobStream

`JobStream` promises that pieces of work are found, each is delivered in one payload of its own, `hasNext`
tells whether any is left at the time, and the stream ends by itself only when none is.

`Incremental` is `run_incremental`: `StartData`, `StartDeferred` and `StartItem` execute a unit of work, in
the order of the two queues; while it runs, the coroutines of its positions register the fragments and
lists they find (`CompletePosition`, `Started`, `Register`); `YieldPayload` is the payload with the error
list of the moment; `LeaveBehind` is a list item that raises and leaves its siblings to themselves
(`loose`), which go on while later units run. `Subscription` is `_map_source_to_response`, up to the
`finally` that closes the source. `Delivery` puts either of them (or the one result of a subscription
that did not start) below an encoder of `streaming.py` and the loop of an adapter: `PullResults` and
`Encode` are one turn of the loops, `SendStart`, `SendChunk` and `SendEnd` the sends, `EncoderCloses` and
`CloseStream` the closing on the way out. The client may vanish at any time, after which a send raises or is
swallowed; the server may cancel the request once, at any await but those of the closing. A client that
is gone is noticed at the next send only, so a quiet source stays open until then: nothing is
assumed of sources.

Run `Delivery`: a fragment with another one and a streamed list in it, an object with a fragment below
an item of a plain list, a streamed list of two with a fragment in the first item, `initialCount` 0 and 1,
two events, three pairs of encoder and adapter: both queues hold something at the same time, each is
refilled while the other is emptied, and a coroutine left behind finds work after the last payload.
Fairness: coroutines of a unit, `aclose()` and sends end. `FalseHasNextIsLast` and `PayloadErrorsAreOwn`
name the exception the code has: payloads after a list item that raised (`abandoned`). `BegunStreamsAreClosed`
leaves out a stream whose response start could not be sent (section 4).

### Pipeline, HTTPHandler, Adapters and Exchange

`Pipeline` is `execute()` with the hooks of the extensions around its four phases. A hook of an
extension is absent or over at once, a generator to resume later (`tokens`), or raises; hooks may await,
so that calls of concurrent requests interleave between them. `EnterHook`, `RunBody` and `LeaveHook` are
the steps of a phase, `Collect` is `collect_results`. `subscribe()` and `execute_incremental()` run no
phases (`Prelude`). `HTTPHandler` is `handle()`: a request becomes a page, a document, an error, a call, a
stream or a batch of calls; a document is reduced to its operations, whether it parses and validates
and whether it uses `@defer` or `@stream`; a body to whether it is the JSON or form it says it is. `Adapters`
is a table of what each integration registers, how it normalises a request, what it does with each kind of
response body, and how it takes a WebSocket; what the frameworks do by themselves is external.

Run `Exchange`: two extensions, one registered as an instance and one as a class; every kind of request
alone (methods, routes, content types, bodies, operation names, batches up to one over `maxBatch` = 2), the
introspection route with a body of its own, the other routes and a streamed subscription through every adapter, WebSocket handshakes, and a query at the
same time as another query or a subscription, which is what the instances are shared between. Fairness:
hooks, factories and resolvers end, and the loop runs every request (Flask gives each a loop of its
own, `run_sync`).

### Ast, Parser and Texts

`Ast` has the nodes of `ast.py` as records. `Parser` reads tokens as `parser.py` does and prints them back as
`printer.py`; `Texts` is a text that is printed, or written by somebody else, and then parsed.

Run `Standalone` (text part): the samples with a set of fragments each, a document with everything the grammar
knows, and that document with one token left out, doubled or exchanged with the next. `TextIsKept` relates
parser and printer: nothing is lost on the way, in either direction.

### Coercion, FieldCollection, Validation and Documents

`Validation` has one operator for each rule of `rules.py`, `FieldCollection` is `collect_fields.py` in its order,
`Coercion` has `CoerceInput` (JSON), `ValueFromAst` (literals), defaults, input objects, and `ParseScalar`. Numbers
and strings are members of small sets that tell apart what the scalars do: `wide` is an integer beyond 32 bits.

What the code does by recursion is told here so that it can be reasoned about. A recursion that only looks is a
sequence of sets: the selection sets of a document (`SetsAt`), the walks down the spreads (`WalksAt`), the levels of
field merging (`LevelsAt`), each with what the one before leads to. A recursion that goes through a selection set in
order and into fragments on its way is a loop with the selections in front of it: `CollectSelection` is one step of
`_collect` for the executor, `MergeSelection` one of `_fields_by_response_key` for the validator, with its own
rules for what was visited. A recursion over a value is a function of how deep it may still go (`InputValue`,
`LiteralValue`). `MaxDepth` is Python's recursion limit: a validator that goes deeper raises (`TooDeep`), a coercion
that goes deeper is refused. `MaxSteps` bounds the selections on one level of merging in the same way.

`Documents` takes a parsed document through `execute()`: `GetOperation`, `ValidateDocument`, `StartOperation` (which
coerces the variables), and then `Collect`, one selection at a time, on the root and wherever the executor gets from
there: to any field whose value is an object of any type the schema allows (`Descend`), and to deferred fragments
(`Resume`).

Run `Documents`: 4825 inputs over a schema with an interface, a union, an enum, an input
object and every kind of argument: pairs of twelve selections at two levels, directly and through three
fragments that may spread each other, with and without variables, several operations and fragments of one name; every
literal and JSON value for every argument type. `MaxDepth` = 6 and `MaxSteps` = 24 are enough:
with 7 and 30, or 6 and 40, TLC finds exactly the same 38941 states, since only fragments that form a cycle
reach the bounds, and those reach any bound.
`MergedFieldsAgree` and `ValidExecutes` relate the validator, which never runs the document, to what is collected when
it runs; `InputsConform` relates the two ways a value can take. `DocumentsCycles` and `DocumentsCrossed` show where
the validator falls short (section 4), the latter over a schema where a field leads to another type on an object than
on its interface.

### Relay, Federation, Uploads and Objects

`Relay` is `connection_from_list` with a client that follows its cursors, forward or backward, while the
list grows and shrinks at its end. Elements have an identity, so that one that takes the place of another is not taken
for it. The client begins at any cursor and may send another one with every request; a cursor is the offset it encodes,
which may be negative or behind the list, and is something else than no cursor. `PagesCoverTheList` says that it gets
nothing twice, everything in the order of the list and, once the page info announces the end, every element it asked
for that was there all the time; of the appended ones it gets all but those that came to a place it was past already
(section 4). `Federation` is `_entities` with awaits between representations, during
which code of the process registers and clears resolvers. `Uploads` is `parse_multipart_request`: parts, map
and the placement of files by paths whose segments may spell one list index in several ways. `Objects`
is a behaviour of one of the three; they share no state.

Run `Standalone` (objects part): lists up to four elements, to which two more are appended one at a time, with pages of
one to three, so that a page can end before, at and after the end of the list and an element be replaced at any stage;
cursors before the list, at and within it and behind it; three representations of two types, one unknown, and four resolvers of every
signature; two file fields and ten paths, alone and in pairs and triples.

### SchemaBuilder

The recursion of `_resolve_named` is a stack of tasks (`Task`): `Visit` puts a type's interfaces and fields on it
(`TypeTasks`), `ResolveSimple` and `ResolveGeneric` replace one reference in place (`holds`), by identity or through the
tables by name and by class, and leave its arguments and then the type itself to do (`Remaining`), which `Enqueue`
visits. A type made from a template keeps the merged fields of its interfaces and its own (`Concrete`). `Assemble`
checks the interfaces and starts the second walk, of `Schema`, whose steps `CollectType` and `CollectField` fill
`typeMap`. A type object is known by its identity, apart from its name and its class, which several may share.
NonNull and List around a reference are left out: both walks keep them.

Run `Standalone` (schema part): 2476 programs of eight types (four objects, an interface, a union, an input, a scalar) and two
generic templates that refer to each other by object, by class name, through a template and not at all; types that
share a name or a class, registered or not, one named as a generic type would be; a type that was never registered;
two orders of registration and two sets of roots. `SchemaIsWhole` is about all of them. `ReferencesKeepTheirMeaning`
is about programs whose names are distinct (`NamesAreDistinct`: a generic type has neither the name of a type or of a
class that is referred to, nor that of a generic type for something else), because of what section 4 says of the
others; types that share a name otherwise are not excluded.

## 3. What is proved

`ResolverProofs` is about what concurrent resolvers share: first the `DataLoader`, then the dependencies of
`Injection`. It proves, for any keys, cache key function, callers, batch limits and number of
futures, from `KeysAssumption` and `ConfigAssumption`:

| Theorem | Statement |
|---|---|
| `TypeCorrect`, `NoLostWakeUp`, `NoLoadLost`, `NoLoadTwice`, `LimitKept`, `OwnResults` | `Spec => []P` for `TypeOK`, `DispatchIsScheduled`, `EveryLoadAccounted`, `OnePlaceEach`, `BatchWithinLimit`, `ResultsAreOwn` |
| `Refinement` | `Spec => ImplementsMemo`: the loader implements `KeyedMemo` |

The properties are not inductive by themselves. `IInv` adds `EntriesAreOwn` (a queued or dispatched
pair names an existing future, under the key it was created for: without it a new future could be in
a batch already, and the result zipped to a future could be another key's) and `FuturesAreKnown` (an
existing future has a key, the cache holds existing futures only). There is one lemma for each action; the
actions that only end things share `EndingPreserves`, those that only drop cache entries `DropPreserves`.
The arithmetic of `range(0, len(queue), size)` is in `LastMultiple` and `MultiplesApart`, from which follow
`ChunkShape`, `ChunksCover` and `ChunksDisjoint`. For the refinement each action has a lemma that names
the step of the memo it is, and the rest stutters.

and, for any fields, dependencies, plans and choice of asynchronous providers, from `InjectionAssumption`:
`CalledOnce`, `SharedValue`, `SharedAborts`, `RecordedFailures` and `InjectionTypeCorrect`, that is
`InjectionSpec => []P` for `MadeOnce`, `SameValue`, `AbortsAreShared`, `FailuresAreRecorded` and `InjectionTypeOK`.
Its `InjectionIInv` adds
`StartedIsFiled` (a started task is in its dict, so nobody starts a second one), `MissingIsUnmade`,
`GivenIsCurrent` (everyone has what the last call made), `PathIsOfFailed` and `CancelsAreTimeouts` (a cancelled
task is one a timed-out field needs: the link that may go through the container).

`ObjectsProofs` proves, for lists, page sizes and cursors of any size, from `RelayAssumption`, that paging keeps
`PagesCoverTheList` (`PagesCover`), and, for any representations and resolvers, from
`FederationAssumption`, that entities keep their slots (`EntitiesInOrder`). The property says nothing
of a client that is not done yet, so `PagingInv` adds where it is. `ListInv`: the list is in the order its elements
came. `EdgesAreTrue` and `Ordered`: an edge that still has its place in the list has its element, edges go by offset and
by element. `PlaceOfCursor`: the cursor is the one the client began with, or that of its outermost edge. `NothingLeftOut`:
of what it asked for it got all up to its cursor, going forward, or from it on, going backward, but for appended
elements it was past. `AllThere`: the end was announced with nothing left beyond the cursor. `EntityInv` says of every slot,
and of the one whose resolver is awaited, that its entity is right for its representation (`RightFor`), how
many slots there are at each point, and that a resolver is registered for its own type only. `PageBounds`, `ForwardPage`,
`BackwardPage` and `PageIs` say what the arithmetic of `connection_from_list` gives, `PageIsTrue` and `PageIsNew` how a
page relates to the list and to the edges before, `Joined` and `Shortened` what a sequence is that gets longer or shorter. `FilesArePlaced` is about `Uploads`: for any
operations, any files and any map, from `UploadsAssumption` (the names of files are not those of other values; an
entry is a file and a path). `PlacedAreNulls` says that every placed entry took a null of the request for itself
alone, `ChangesArePlaces` that nothing else changed; `WalkExists` shows, by induction over the length of a path,
that the loop of `_path_value` is a walk, which leads to the same place as long as the containers are the same.

`TransportWSProofs` proves, for any ids, operations and number of tasks, from `TransportAssumption`:

| Theorem | Statement |
|---|---|
| `TypeCorrect`, `NothingLeft`, `EndsAreExplained` | `Spec => []P` for `TypeOK`, `NothingLeftAtClose`, `NoSilentEnd` |
| `Silence` | `Spec => SilentAfterVerdict`, an action property |

What makes it inductive is who can still close what: `NotLost` (a task that was created is filed under its id, or is
the one whose end the loop waits for, until its callback ran), `FiledIsOwn`, `StoppingIsUnfiled`, `OpenIsOwned` (an open
stream has a task that will close it), and `OverForClient`, which ties a verdict to the `finally` that is left.

`DeliveryProofs` proves, for any positions, fragments and lists of any length, from `IncrementalAssumption` (a
fragment is deferred in one place):

| Theorem | Statement |
|---|---|
| `HasNextIsTrue`, `ItemsComeInOrder`, `ErrorsAreOwn` | `Spec => []P` for `FalseHasNextIsLast`, `ItemsInPlace`, `PayloadErrorsAreOwn` |
| `DeliveryImplementsJobStream` | `Spec => ImplementsJobStream`, step by step |
| `WireHonest` | `Spec => []WireIsHonest`, with encoder, adapter and closing |

The difficult part is that nothing is found twice. `WorkIsATree` says it without naming what was started: there
is a set of started positions such that everything queued, running or delivered comes from a value above it, once;
each step gives the next such set. `ListsAreTails` says that what is queued of a list is its end, `LastIsLast` that
a payload that claims to be the last leaves nothing to do. `WireInv` relates the sends to the encoder.

`ExecutorProofs` proves, for any tree of fields, from `TreeAssumption` (a finite path from every position to the root
and at least one root field), all operation types and any number of events:

| Theorem | Statement |
|---|---|
| `TypeCorrect`, `FaultsAreReportedOnce`, `FieldsOfMutationsAreSerial`, `OnlyOrphansLeak`, `RefusedNullsAreExplained` | `Spec => []P` for `TypeOK`, `OneErrorPerFault`, `MutationsAreSerial`, `LeaksAreOrphans`, `NullsAreExplained` |
| `NullsFollowTheRule` | `Spec => []NullsPropagate`, where `StrictLists` holds: lists of non-null items are non-null |

Ancestors are what every set of positions has that is closed under parents, so that no recursion is needed; the rule
itself (`NullByRule`) is the condition that a chain of non-null positions leads down to a fault. `ExecInv` says that
parents start first (`ParentsFirst`), that a position that is over has no child at work unless it passed an
exception on (`KidsAreOver`), that a position with a value has no failed child (`ValuesAreSound`), whose turn it is
(`FieldsTakeTurns`) and whose errors are on record (`ErrorsOfNow`). `StrictLists` cannot be dropped: without it
the run `ExecutorNullableLists` shows the violation.

`ExchangeProofs` proves, for any requests, any number of them at a time, any documents, extensions and options of the
handler, from `PipelineAssumption`, `HandlerAssumption` (the introspection document selects a query) and
`TrafficAssumption` (payloads come in a list, adapters are those of the table):

| Theorem | Statement |
|---|---|
| `GetsAreSafe`, `BatchesAreWhole`, `ContextsAreOwn` | `Spec => []P` for `GetIsSafe`, `BatchIsWhole`, `ContextIsOwn` |
| `HooksAreAllResumed` | `Spec => HooksAreResumed`, an action property |

`PipeInv` says where a call may have hooks suspended, that an abandoned hook means an exception on its way
out, and that an instance of a class is bound to its call for as long as its phases last. `StageInv` says what the
handler found a request to be and how far it is, `PayloadInv` that the operation under way is the one of its place and
of a kind its method allows, `RunsInv` that the history of executions is what was answered, in order, and maybe
one more. `ProceedAdvances` collects what any step of a call does, `StartIsFresh` what starting one does; there is
a lemma for each action of the handler, and `OthersKeep` for all requests that take no part. `SameOperation` is the
fact that GET safety rests on: the handler's look at the document and the pipeline's selection agree.

`SchemaBuilderProofs` proves, for any types, fields, templates and order of registration, from `ProgramsAssumption`
(`WellDeclared`: what is referred to was declared, and no type leaves a parameter open, which is what the decorators
hand over):

| Theorem | Statement |
|---|---|
| `BuilderInvariant` | `BuilderSpec => [](WalkInv /\ ReachInv)`, both walks at once |
| `SchemasAreWhole`, `MeaningsAreKept` | `BuilderSpec => []P` for `SchemaIsWhole`, `ReferencesKeepTheirMeaning` |

`Ground` says that types, names and references fit together whatever was made so far: a type that is made shares fields
with the interfaces it inherits from, and its own come under a name no type had. `WalkInv` is the frontier of a
depth-first walk (`Explored`): what a visited type leads to was visited, or waits on the stack, or is the type of a
reference whose own task is still there (`Covered`, `Handled`, `Settled`). A reference may be replaced while others
wait, by a type of the same name; hence the frontier is about types and `ReachInv` about names: every set of names that has
the roots' and is closed under what its types lead to has all that was visited, which says reachable without
recursion. With `Complete` (no reference leads out of the first walk) the second walk can neither miss a type nor find
another one. `MeaningInv` is about what references stand for: as long as no generic name is taken (`Ambiguous`), each is as it was
written or became what it was written for (`HeldAsWritten`), every made type was made for some reference
(`MadeAsWritten`), and a reference that no longer waits is done (`Turned`); resolving it again for another field that
shares it changes nothing (`SimpleKeeps`).

`DocumentsProofs` proves, for any schema, documents, variables, values and bounds, from `SchemaAssumption` (roots and
members are objects, fields and arguments have types of their kind, an object has the fields of its interfaces, of
whatever types: `_validate_interfaces` of the builder compares names only), `SelectionsAssumption`, `InputsAssumption`
(documents are made of selections; the default of a variable contains no variable, `parser.py:98`),
`ValuesAssumption`, `InputTypesAssumption` (defaults of input fields are values of their types), `DepthAssumption` and
`StepsAssumption`:

| Theorem | Statement |
|---|---|
| `DocumentsStaged` | `Spec => []Staged`: what each stage finds, and that only selections of the document are collected |
| `DocumentsInputsConform` | `Spec => []InputsConform` |
| `DocumentsInvariance` | `Spec => [](Staged /\ Placed)`, where `OneTypePerField` holds |
| `DocumentsMergedFieldsAgree`, `DocumentsValidExecutes` | `Spec => []P` for `MergedFieldsAgree`, `ValidExecutes`, where `OneTypePerField` holds |

The validator and the executor go through a document in different ways: the one level by level over all types
at once, the other down one path of objects with the fragments that apply and the fields that are included. The
proof finds the one in the other. A verdict of "valid" gives `Checked` (every selection that a validated set leads to is
checked on the type of its set), `Acyclic` and `Merged`. For a level of field merging `MergeInv` is the invariant of the
loop and `LevelInv` what a complete level met: a set of entries closed under fragments, each field of which is
filed under its key. `Given` are the selections of a level that stand where the object at hand may be; they are closed
under the fragments that apply to it (`GivenIsClosed`), so the executor collects nothing else, and since all of a
group were on one level, they agree. `Placed` says that the executor is on a level at any time; going down keeps it
there because the next level is made of the same group. That needs all fields of the group to lead to the type the
validator takes, that of the first: this is `OneTypePerField`, which says of a schema that a field several types have
leads to the same type of objects on all of them. It cannot be dropped: the run `DocumentsCrossed` violates
`MergedFieldsAgree` without it, and an ASSUME of `MCDocuments` has TLC check that the schema of the run `Documents` has it and the
other one has not. That a fragment does not reach itself (`NoneReachesItself`) is about the least closed set
(`Reached`), found by following the walk of the cycle rule.

For coercion, every part of a value that a resolver gets was `Sent` some way: coerced from JSON, evaluated from
a literal without variables, or part of a default; what is below it was sent as well, one level down, and what
was sent fits its type, so it conforms at all levels. A literal and its JSON are `Matched` as far as they go, and by
induction over the depth the two coercions agree (`SameValue` of literal and JSON, where neither is refused).
The functions of depth are recursive, so each has a lemma that it exists (`InputAre`, `LiteralAre`, `SetsAre`,
`LevelsAre`, ...), by the least depth at which it would not.

Only model-checked:

* the liveness properties (`CallersResume`, `EveryEventAnswered`, `LoopGoesOn`, `EveryFieldEnds`,
  `BegunStreamsAreClosed`, `EveryRequestAnswered`), which need fairness and ENABLED;
* `TextIsKept`: parser and printer are operators that call each other with parsers as arguments, declared
  RECURSIVE, and what they compute for every text is an induction over data; both are out of the provers' reach.

## 4. Where the code and its documents part

Shown by a run:

| Run | The code | The document |
|---|---|---|
| `ExecutorNullableLists` | an item's bubble skips a nullable list (`execute.py:805`) | nearest nullable parent |
| `DocumentsCycles` | field merging descends into a cyclic fragment without end (`rules.py:511`) | cycles are reported, `validate` never raises |
| `DocumentsCrossed` | field merging takes the type of a group's first field for the fields below all of them (`rules.py:536`) | fields that cannot be merged are rejected |
| `SchemaBuilderCollisions` | a type replaces another of its name without an error (`schema_builder.py:267`) | an error reports the duplicated name |

Met while modelling, modelled as the code is, without a run of their own:

* A caller that is cancelled cancels the future it shares (`dataloader.py:94`), and a failing batch drops
  whatever the cache holds for its keys (`dataloader.py:193`): `KeyedMemo` allows both.
* A list item left behind by an exception records its error into the next event or payload
  (`execute.py:794`), may register a deferral after `hasNext: false` was sent (`execute.py:401`;
  `docs/protocol/incremental-delivery.mdx:22-24` "ending with `hasNext: false`"), and runs beside the
  next mutation field.
* A leaf that serialises to `None` bubbles without an error (`execute.py:713`), and a non-null root field of
  a subscription that bubbles gives `{key: null}` (`execute.py:604`).
* The timeout of one field cancels the task others await (`execute.py:961`), and a shared error keeps the
  path of its first field (`execute.py:995`).
* The response start is sent before the `try` that closes the stream (`asgi.py:80-91`):
  a client that is gone by then leaves the source open, where `docs/protocol/subscriptions.mdx:30` says
  that `aclose()` "is guaranteed on disconnect or cancellation". Django sends a stream as text, Flask and
  `server.py` fail on one; the page says every HTTP adapter supports streams.
* A hook that fails to enter leaves the ones entered before it suspended (`extensions.py:148`); hooks that
  raise make `execute()` raise, which becomes a 500. `docs/data/schema-extensions.mdx:8` offers instances
  or classes alike, but concurrent requests share an instance and its `execution_context`.
* An exception in one operation of a batch discards the results before it (`http.py:293`), where
  `docs/protocol/uploads-and-batching.mdx:31` says "per-operation errors isolated". A GET with a syntax
  error is answered with 405.
* Adapters differ where `openspec/specs/http-integration-contract` asks for equivalent behaviour: aiohttp
  answers OPTIONS on the secondary routes with 405; aiohttp and Quart accept a WebSocket without the
  subprotocol and close it with 4406, which others refuse.
* A reference to a class that is no GraphQL type passes the build (`schema_builder.py:271-292`);
  `Page[list[User]]` and `Page[User]` are one type, and a declared `UserPage` takes the place of the
  synthesized one (`schema_builder.py:299-304`). Where `UserPage` is the name of a class that is only referred
  to, or of a type that was not registered, the type it gets depends on which field is resolved first
  (`schema_builder.py:276-287`).
* `_validate_interfaces` asks only that an object has the field names of its interfaces, not their types
  (`schema_builder.py:378-386`); the schema of `DocumentsCrossed` would be legal even if it asked for covariance.
* A cursor is a place and not an element: when the last element, which a client going forward got already, is replaced,
  the new one is behind its cursor, and the page info announces the end without it (`relay.py:201-204`, `220`). So
  `PagesCoverTheList` exempts appended elements at a place the client is past.
* The page flags compare with the other cursor even if it is outside the list (`relay.py:216-220`): after `before` was
  given an offset behind a list of three, `first: 2, after:` its last place gives no edges and `hasNextPage` true, and
  `last` with an `after` below -1 gives `hasPreviousPage` true at the first place.
  `openspec/specs/relay-pagination/spec.md:43` asks for "`hasNextPage` set correctly". A client that carries such a cursor
  is never told that it is done, and `PagesCoverTheList` says of it only what it got.
* The validator refuses a literal list for an argument that is a list of scalars (`rules.py:401-413`), and does
  not compare the declared types of variables with the arguments they are used for, the subselections
  of introspection fields, or the names of fragments with each other. `InputsConform` is therefore about
  variables and literals, and not about arguments that contain variables.

## 5. Not modelled

* The lexer, source locations and string escaping: characters, which no property here tells apart.
* The decorators, the naming convention, the merging of several roots, applied directives,
  introspection, SDL and federation's SDL: sequential translations at start-up, without state that is
  read while they run. The result of root merging and naming is the `program` of `SchemaBuilder`.
* Global ids, the playground, the command line, the test client, OpenTelemetry and Apollo tracing:
  encodings, static text, clients and time stamps.
* `get_loader` (`dataloader.py:201-226`): an attribute of the user's context object; garbage collection of
  batch tasks (`dataloader.py:157`).
* The client's side of the WebSocket protocol: what a client makes of the error that refuses a
  duplicate id under the id of the running operation (`websocket.py:81`).
* Uploaded file objects: a file whose path is named twice is one stream read by two resolvers.

What would come next: root merging and naming in front of `SchemaBuilder`; an abstract response for
`Executor` that it implements, and `Documents` as what its positions are made of.
