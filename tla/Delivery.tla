------------------------------ MODULE Delivery ------------------------------
(***************************************************************************)
(* The delivery of one streaming response: the generator of results        *)
(* (Incremental, Subscription or single_result_stream), the encoder of     *)
(* fastql/integrations/streaming.py around it, and the loop of the adapter *)
(* that sends its chunks (integrations/asgi.py, aiohttp.py, sanic.py; a    *)
(* framework's own streaming response does what the last two do).          *)
(*                                                                         *)
(* The generators call each other: a send that is over asks the encoder,   *)
(* which asks the results.  The client may vanish at any time; a later send*)
(* may raise or be swallowed by the server.  The server may cancel the     *)
(* request once, at any await but those of the closing.                    *)
(***************************************************************************)
EXTENDS Incremental, Subscription

CONSTANT Setups  \* the pairs of an encoder and an adapter

VARIABLES
  kind,    \* which generator produces the results
  encoder, \* "sse" or "multipart"
  adapter, \* "asgi": closes the stream in a finally; "loop": does not
  stage,   \* where the adapter is
  enc,     \* where the encoder is
  taken,   \* results the encoder has taken
  wire,    \* what was handed to the server before the client vanished
  client,  \* "here" or "gone"
  canceled \* the server has cancelled the request

setupVars == <<kind, encoder, adapter>>
sendVars == <<stage, enc, taken, wire, client, canceled>>
vars == <<incrementalVars, subscriptionVars, setupVars, sendVars>>

Kinds == {"incremental", "subscription", "single"}

Init ==
  /\ IncrementalInit /\ SubscriptionInit
  /\ kind \in Kinds
  /\ \E how \in Setups : encoder = how.encoder /\ adapter = how.adapter
  /\ stage = "start" /\ enc = "new" /\ taken = 0 /\ wire = <<>>
  /\ client = "here" /\ canceled = FALSE
  /\ kind # "incremental" => initialCount = CHOOSE c \in InitialCounts : TRUE

-----------------------------------------------------------------------------
\* What the encoder sees of the results.
Produced == IF kind = "incremental" THEN Len(sent) ELSE results
Fresh == Produced > taken
Suspended ==
  IF kind = "incremental" THEN gen \in {"new", "yielded"} ELSE sub \in {"new", "yielded", "failed"}
Exhausted == IF kind = "incremental" THEN gen = "ended" ELSE sub = "ended"
Failed == IF kind = "incremental" THEN gen = "raised" ELSE sub = "raised"
Over == Exhausted \/ Failed \/ (kind = "incremental" /\ gen = "closed")

\* single_result_stream: the one result of a subscription that did not start.
AskSingle ==
  /\ \/ sub = "new" /\ sub' = "yielded" /\ results' = 1
     \/ sub = "yielded" /\ sub' = "ended" /\ UNCHANGED results
  /\ UNCHANGED <<source, failing>>

CloseSingle == sub' = "ended" /\ UNCHANGED <<source, results, failing>>

PullResults ==
  /\ stage = "pull" /\ enc \in {"new", "open"}
  /\ Suspended /\ ~Fresh
  /\ CASE kind = "incremental" -> Pull /\ UNCHANGED subscriptionVars
       [] kind = "subscription" -> AskSource /\ UNCHANGED incrementalVars
       [] OTHER -> AskSingle /\ UNCHANGED incrementalVars
  /\ enc' = "open"
  /\ UNCHANGED <<setupVars, stage, taken, wire, client, canceled>>

ResultsWork ==
  /\ \/ kind = "incremental" /\ Execute /\ UNCHANGED subscriptionVars
     \/ kind = "subscription" /\ SubscriptionWorks /\ UNCHANGED incrementalVars
  /\ UNCHANGED <<setupVars, sendVars>>

LooseWork ==
  /\ kind = "incremental" /\ ExecuteLoose
  /\ UNCHANGED <<subscriptionVars, setupVars, sendVars>>

CloseResults ==
  CASE kind = "incremental" -> CloseGenerator /\ UNCHANGED subscriptionVars
    [] kind = "subscription" -> CloseSubscription /\ UNCHANGED incrementalVars
    [] OTHER -> CloseSingle /\ UNCHANGED incrementalVars

-----------------------------------------------------------------------------
\* The adapter leaves its loop: through the finally of GraphQLASGI, or with
\* nothing but the event loop's hook for generators that are dropped.
Leave == IF adapter = "asgi" THEN "closing" ELSE "dropped"

\* async for result in results: a result becomes a chunk, unless it cannot be
\* turned into JSON: then the finally closes the results.
Encode ==
  /\ stage = "pull" /\ enc = "open" /\ Fresh
  /\ \/ stage' = "chunk" /\ taken' = taken + 1 /\ UNCHANGED enc
     \/ enc' = "closing" /\ UNCHANGED <<stage, taken>>
  /\ UNCHANGED <<incrementalVars, subscriptionVars, setupVars, wire, client, canceled>>

\* The results are over: multipart_stream yields its last marker; a failure
\* leaves the encoder and the adapter's loop.
BugMarkerOnFailure == Over
ResultsEnded == Exhausted
EncodeEnd ==
  /\ stage = "pull" /\ enc = "open" /\ ~Fresh /\ Over
  /\ IF ~ResultsEnded THEN enc' = "over" /\ stage' = Leave
     ELSE IF encoder = "multipart" THEN enc' = "marker" /\ stage' = "chunk"
     ELSE enc' = "over" /\ stage' = "finale"
  /\ UNCHANGED <<incrementalVars, subscriptionVars, setupVars, taken, wire, client, canceled>>

EncoderReturns ==
  /\ stage = "pull" /\ enc = "marker"
  /\ enc' = "over" /\ stage' = "finale"
  /\ UNCHANGED <<incrementalVars, subscriptionVars, setupVars, taken, wire, client, canceled>>

\* finally: await _close(results).  The results' own closing may take awaits.
BugForgetsResults == FALSE
ClosesResults == ~Over
EncoderCloses ==
  /\ enc = "closing"
  /\ IF ClosesResults
     THEN /\ Suspended /\ CloseResults /\ UNCHANGED <<enc, stage>>
     ELSE /\ enc' = "over"
          /\ stage' = IF stage = "pull" THEN Leave ELSE stage
          /\ UNCHANGED <<incrementalVars, subscriptionVars>>
  /\ UNCHANGED <<setupVars, taken, wire, client, canceled>>

-----------------------------------------------------------------------------
\* A send is over: delivered, swallowed after the client vanished, or raised.
Sent(chunk) == wire' = IF client = "here" THEN Append(wire, chunk) ELSE wire
Chunk == IF enc = "marker" THEN "marker" ELSE "result"

\* http.response.start is outside the try of GraphQLASGI.
SendStart ==
  /\ stage = "start"
  /\ \/ Sent("start") /\ stage' = "pull"
     \/ client = "gone" /\ stage' = "failed" /\ UNCHANGED wire
  /\ UNCHANGED <<incrementalVars, subscriptionVars, setupVars, enc, taken, client, canceled>>

SendChunk ==
  /\ stage = "chunk"
  /\ \/ Sent(Chunk) /\ stage' = "pull"
     \/ client = "gone" /\ stage' = Leave /\ UNCHANGED wire
  /\ UNCHANGED <<incrementalVars, subscriptionVars, setupVars, enc, taken, client, canceled>>

SendEnd ==
  /\ stage = "finale"
  /\ \/ Sent("end")
     \/ client = "gone" /\ UNCHANGED wire
  /\ stage' = Leave
  /\ UNCHANGED <<incrementalVars, subscriptionVars, setupVars, enc, taken, client, canceled>>

\* finally: await close(); the hook closes a dropped generator that has started
\* in the same way.  An encoder that never ran has no finally.
CloseStream ==
  /\ stage \in {"closing", "dropped"}
  /\ \/ enc \in {"open", "marker"} /\ enc' = "closing" /\ UNCHANGED stage
     \/ enc \in {"new", "over"} /\ enc' = "over" /\ stage' = "done"
  /\ UNCHANGED <<incrementalVars, subscriptionVars, setupVars, taken, wire, client, canceled>>

Vanish ==
  /\ client = "here" /\ client' = "gone"
  /\ UNCHANGED <<incrementalVars, subscriptionVars, setupVars, stage, enc, taken, wire, canceled>>

\* The CancelledError surfaces at the await the request is at: in a send, or in
\* the results the adapter waits for, whose finally clauses it runs on its way.
Cancel ==
  /\ ~canceled /\ canceled' = TRUE
  /\ stage \in {"start", "pull", "chunk", "finale"} /\ enc # "closing"
  /\ IF stage = "pull"
     THEN /\ enc = "open" /\ ~Suspended /\ ~Over
          /\ sub # "closing"
          /\ CloseResults /\ enc' = "closing" /\ UNCHANGED stage
     ELSE /\ stage' = IF stage = "start" THEN "failed" ELSE Leave
          /\ UNCHANGED <<incrementalVars, subscriptionVars, enc>>
  /\ UNCHANGED <<setupVars, taken, wire, client>>

Server ==
  \/ PullResults \/ Encode \/ EncodeEnd \/ EncoderReturns \/ EncoderCloses
  \/ SendStart \/ SendChunk \/ SendEnd \/ CloseStream

Next == Server \/ ResultsWork \/ LooseWork \/ Vanish \/ Cancel

Spec == Init /\ [][Next]_vars

\* The coroutines of a unit end, the executor answers an event, aclose() ends, and
\* so does every send.  Nothing is assumed of the source: it may stay quiet.
FairSpec ==
  /\ Spec
  /\ WF_vars(Server)
  /\ WF_vars(kind = "incremental" /\ ResultsWork)
  /\ WF_vars((ExecuteEvent \/ CloseSource) /\ ResultsWork)
  /\ WF_vars(LooseWork)

-----------------------------------------------------------------------------
Queued == {deferred[i] : i \in DOMAIN deferred}
          \cup UNION {{Item(streamed[i].list, n) : n \in {streamed[i].items[k] : k \in DOMAIN streamed[i].items}} :
                        i \in DOMAIN streamed}
Delivered == {sent[i].job : i \in DOMAIN sent}

\* execute_incremental delivers every fragment and every item it finds exactly
\* once, tells with hasNext whether more is queued at the time, and ends by itself
\* only when nothing is.
Stream == INSTANCE JobStream WITH
  First <- Data,
  pending <- Queued \cup (IF gen = "new" \/ unit \notin Delivered THEN {unit} ELSE {}),
  delivered <- Delivered,
  hasNext <- IF sent = <<>> THEN TRUE ELSE sent[Len(sent)].hasNext,
  open <- gen \notin {"ended", "raised", "closed"}
ImplementsJobStream == Stream!Spec

\* The client may rely on hasNext: false marks the last payload, unless a list
\* item that raised left coroutines behind which found work after that.
FalseHasNextIsLast ==
  \A i \in DOMAIN sent : i < Len(sent) /\ ~sent[i].hasNext => sent[i].abandoned

\* The items of a streamed list arrive in the list's order, each under its own
\* index, whatever other work is delivered between them.
ItemsInPlace ==
  /\ \A i \in DOMAIN sent : sent[i].job.kind = "item" => sent[i].at = sent[i].job.number - 1
  /\ \A i, j \in DOMAIN sent :
       /\ i < j /\ sent[i].job.kind = "item" /\ sent[j].job.kind = "item"
       /\ sent[i].job.list = sent[j].job.list
       => sent[i].job.number < sent[j].job.number

\* A payload carries the errors of its own unit of work and of no other, but for
\* those of coroutines that an earlier unit left behind.
PayloadErrorsAreOwn ==
  \A i \in DOMAIN sent : \A u \in sent[i].errors :
    u = sent[i].job \/ \E j \in 1..i : sent[j].job = u /\ sent[j].abandoned

\* On the wire the results are unbroken, and the closing marker of multipart/mixed
\* and the end of the body are sent only after a stream that ended by itself: a
\* response cut short by a failure cannot be taken for a complete one.
WireIsHonest ==
  /\ \A i \in DOMAIN wire :
       /\ wire[i] = "start" <=> i = 1
       /\ wire[i] = "marker" => encoder = "multipart" /\ i > 1
       /\ wire[i] \in {"marker", "end"} => Exhausted /\ i > taken + 1
  /\ Cardinality({i \in DOMAIN wire : wire[i] = "result"}) <= taken

GeneratorsOver == Over /\ (kind = "subscription" => source = "closed")

\* Once the adapter leaves the loop over a response that has begun, by the end
\* of the stream, a failure, a client that is gone or a cancellation, the generators
\* are closed and the resolver's source with them.
BegunStreamsAreClosed ==
  (stage \in {"closing", "dropped"} /\ enc # "new") ~> (stage = "done" /\ GeneratorsOver)
=============================================================================
