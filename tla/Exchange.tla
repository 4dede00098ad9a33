------------------------------ MODULE Exchange ------------------------------
(***************************************************************************)
(* HTTP requests from the framework to the response: Adapters around the   *)
(* HTTPHandler around the Pipeline, several requests at a time on one      *)
(* schema.                                                                 *)
(***************************************************************************)
EXTENDS Adapters, SequencesExt

CONSTANT Traffic  \* what may arrive: for each request, the adapter and the request

ASSUME TrafficAssumption ==
  \A traffic \in Traffic : \A r \in Calls :
    LET q == traffic[r].request IN
    /\ traffic[r].via \in AdapterNames
    /\ DOMAIN q = {"method", "route", "accept", "body", "batch", "payloads", "query"}
    /\ q.payloads \in Seq({q.payloads[i] : i \in DOMAIN q.payloads})

VARIABLES
  via,      \* via[r]: the adapter
  out,      \* out[r]: what the adapter put out for the response
  executed  \* history: the operations the executor ran: request, position and type

vars == <<pipelineVars, handlerVars, via, out, executed>>

Init ==
  /\ HandlerInit
  /\ \E traffic \in Traffic :
       /\ via = [r \in Calls |-> traffic[r].via]
       /\ request = [r \in Calls |-> Normalised(traffic[r].via, traffic[r].request)]
  /\ out = [r \in Calls |-> "none"]
  /\ executed = <<>>

PutOut(r) ==
  out' = IF stage'[r] = "answered" /\ stage[r] # "answered"
         THEN [out EXCEPT ![r] = Sends(via[r], response'[r].body)] ELSE out

\* The adapter takes a WebSocket, or closes it; no call of the schema is made.
Handshake(r) ==
  /\ stage[r] = "new" /\ request[r].method = "WEBSOCKET"
  /\ Answer(r, HandshakeReply(via[r], request[r]))
  /\ UNCHANGED <<pipelineVars, request, answers, via, executed>>
  /\ PutOut(r)

\* The framework's router answers by itself, or calls the handler.
Route(r) ==
  /\ stage[r] = "new" /\ request[r].method # "WEBSOCKET"
  /\ RouterRefuses(via[r], request[r])
  /\ Answer(r, RouterReply(request[r]))
  /\ UNCHANGED <<pipelineVars, request, answers, via, executed>>
  /\ PutOut(r)

\* The body of on_execute, and the root field of subscribe(), run an operation.
Runs(r) ==
  IF Executes(r)
  THEN executed' = Append(executed, [request |-> r, position |-> Len(answers[r]) + 1,
                                     type |-> SelectedOperation(payload[r])])
  ELSE UNCHANGED executed

Serve(r) ==
  /\ request[r].method # "WEBSOCKET" /\ ~RouterRefuses(via[r], request[r])
  /\ HandlerStep(r)
  /\ UNCHANGED via
  /\ Runs(r) /\ PutOut(r)

Next == \E r \in Calls : Handshake(r) \/ Route(r) \/ Serve(r)

Spec == Init /\ [][Next]_vars

\* Hooks, factories and resolvers end, and the event loop runs every request.
FairSpec == Spec /\ \A r \in Calls : WF_vars(Handshake(r) \/ Route(r) \/ Serve(r))

-----------------------------------------------------------------------------
Answered(r) == stage[r] = "answered"
RunsOf(r) == {i \in DOMAIN executed : executed[i].request = r}

\* "a mutation over GET ... does not invoke the mutation resolver", although the
\* handler looks at the document by itself and the pipeline selects the operation
\* again: what a GET executes is a query, or a subscription that is streamed.
GetIsSafe ==
  \A r \in Calls : request[r].method # "POST" =>
    \A i \in RunsOf(r) :
      \/ executed[i].type = "query"
      \/ executed[i].type = "subscription" /\ entry[r] = "subscribe"

\* A request refused with a client error ran nothing, and a batch runs its
\* operations one after the other, each at most once, up to the answer: one entry
\* for each operation in its place, or no entry at all.
BatchIsWhole ==
  \A r \in Calls :
    /\ Answered(r) /\ response[r].status \in 400..499 => RunsOf(r) = {}
    /\ \A i, j \in RunsOf(r) : i < j => executed[i].position < executed[j].position
    /\ request[r].route = "main" /\ request[r].payloads # <<>> => \A i \in RunsOf(r) :
         executed[i].type = SelectedOperation(request[r].payloads[executed[i].position])
    /\ Answered(r) /\ response[r].body = "list" =>
         /\ Len(answers[r]) = Len(request[r].payloads)
         /\ \A n \in DOMAIN answers[r] :
              answers[r][n] = "result" <=> \E i \in RunsOf(r) : executed[i].position = n

\* phase() of extensions.py: a hook that yielded is resumed after its phase, the
\* last one entered first, and on_operation only when the phases within it are
\* over; a hook is left suspended only by a call that ends in an exception.
Suspended(r, p) == tokens[r][p]
HooksAreResumed ==
  [][\A r \in Calls :
       /\ \A p \in Phases : Suspended(r, p)' # Suspended(r, p) =>
            /\ IsPrefix(Suspended(r, p), Suspended(r, p)') \/ IsPrefix(Suspended(r, p)', Suspended(r, p))
            /\ p = "on_operation" => \A inner \in Phases \ {p} : Suspended(r, inner) = <<>>
       /\ at'[r] = Done => tokens'[r] = NoTokens
       /\ at'[r] = Done /\ abandoned'[r] # {} => raised'[r]]_vars

\* An extension registered as a class sees the execution_context of its own call
\* in every hook, whatever requests run at the same time.
ContextIsOwn == \A r \in Calls : mixed[r] \subseteq Shared

\* Every request is answered, or ends in an exception that leaves the handler.
EveryRequestAnswered == \A r \in Calls : <>(Answered(r) /\ out[r] # "none")
=============================================================================
