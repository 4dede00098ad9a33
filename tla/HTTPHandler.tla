----------------------------- MODULE HTTPHandler -----------------------------
(***************************************************************************)
(* fastql/integrations/http.py: GraphQLHTTPHandler.handle, from a          *)
(* normalised request to a response, over the entry points of Pipeline.    *)
(*                                                                         *)
(* A request runs one call after the other, so that a request is its own   *)
(* call in Pipeline.  What a document contains, and whether a body is the  *)
(* JSON or the multipart form it says it is, are fields of the request.    *)
(***************************************************************************)
EXTENDS Pipeline

CONSTANT Config  \* the options of the handler

\* introspection_query(), which the handler runs for the introspection route.
ASSUME HandlerAssumption ==
  SelectedOperation([document |-> Config.introspectionDocument, name |-> "null"]) = "query"

VARIABLES
  request,  \* request[r]: what arrived
  stage,    \* stage[r]: "new", "values", "running", "introspecting" or "answered"
  answers,  \* answers[r]: what the operations of the request ended with, in order
  response  \* response[r]: the status and the kind of the body

handlerVars == <<request, stage, answers, response>>

NoResponse == [status |-> 0, body |-> "none"]
Reply(status, body) == [status |-> status, body |-> body]
Error(status) == Reply(status, "error")

HandlerInit ==
  /\ PipelineInit
  /\ stage = [r \in Calls |-> "new"]
  /\ answers = [r \in Calls |-> <<>>]
  /\ response = [r \in Calls |-> NoResponse]

\* The operation of a request that is no batch.
First(q) ==
  IF q.payloads # <<>> THEN q.payloads[1]
  ELSE [document |-> [parses |-> FALSE, operations |-> <<>>, incremental |-> FALSE], name |-> "null"]

-----------------------------------------------------------------------------
\* EndpointConfig.routes
Routes ==
  {"main"} \cup (IF Config.graphiql = "own" THEN {"graphiql"} ELSE {})
  \cup (IF Config.schema THEN {"schema"} ELSE {})
  \cup (IF Config.introspection THEN {"introspection"} ELSE {})

\* _request_payload with _validate_payload: a GET takes its parameters, a POST its
\* body by media type; anything malformed refuses the request, a whole batch too, and
\* so does an operation without a query.
BodyRules(q) ==
  IF q.method = "POST" /\ q.body = "unknowntype" THEN Error(415)
  ELSE IF \/ q.body \in {"notjson", "badfield"} \/ (q.method = "POST" /\ q.body = "unmapped")
          \/ ~q.batch /\ q.payloads = <<>>
  THEN Error(400)
  ELSE Reply(0, "ok")

\* _operation_type: parsed for itself, before and apart from the pipeline.
BugTypeOfFirst(pay) ==
  IF pay.document.operations = <<>> THEN "none" ELSE pay.document.operations[1].type
OperationType(pay) ==
  LET ops == pay.document.operations
      hits == {i \in DOMAIN ops : ops[i].name = pay.name /\ pay.name # ""}
  IN IF ~pay.document.parses THEN "false"
     ELSE IF pay.name = "null" /\ Len(ops) = 1 THEN ops[1].type
     ELSE IF pay.name # "null" /\ hits # {} THEN ops[CHOOSE i \in hits : \A j \in hits : i <= j].type
     ELSE "none"

\* _stream_media_type and _uses_incremental
StreamAccepted(q) == q.accept \in {"sse", "multipart"}
StreamedSubscription(q) == OperationType(First(q)) = "subscription" /\ StreamAccepted(q)
StreamedQuery(q) ==
  OperationType(First(q)) = "query" /\ StreamAccepted(q) /\ First(q).document.incremental

\* The refusals of _batch; none of its operations has run by then.
HasSubscription(q) == \E i \in DOMAIN q.payloads : OperationType(q.payloads[i]) = "subscription"
BatchRules(q) ==
  IF q.method # "POST" THEN Error(405)
  ELSE IF \/ ~Config.batching
          \/ q.payloads = <<>> \/ Len(q.payloads) > Config.maxBatch
          \/ HasSubscription(q)
  THEN Error(400)
  ELSE Reply(0, "run")

\* The refusal of _single.
SingleRules(q) ==
  IF q.method = "GET" /\ OperationType(First(q)) # "query" /\ ~StreamedSubscription(q)
  THEN Error(405)
  ELSE Reply(0, "run")

\* _graphql
GraphQLRules(q) ==
  IF q.method \notin {"GET", "POST"} THEN Error(405)
  ELSE IF BodyRules(q).status # 0 THEN BodyRules(q)
  ELSE IF q.batch THEN BatchRules(q)
  ELSE SingleRules(q)

Page(q) ==
  \/ q.route = "graphiql"
  \/ q.route = "main" /\ Config.graphiql = "main" /\ q.accept = "html"

\* handle(), up to the point where an operation is to be executed.
Decide(q) ==
  IF q.route \notin Routes THEN Error(404)
  ELSE IF q.method = "OPTIONS" THEN Reply(204, "empty")
  ELSE IF q.route \in {"schema", "introspection"} /\ q.method # "GET" THEN Error(405)
  ELSE IF q.route = "schema" THEN Reply(200, "sdl")
  ELSE IF q.route = "introspection" THEN Reply(0, "introspect")
  ELSE IF Page(q) /\ q.method = "GET" /\ ~q.query THEN Reply(200, "page")
  ELSE IF q.route = "graphiql" THEN IF q.method # "GET" THEN Error(405) ELSE Error(404)
  ELSE GraphQLRules(q)

-----------------------------------------------------------------------------
Answer(r, reply) ==
  /\ stage' = [stage EXCEPT ![r] = "answered"]
  /\ response' = [response EXCEPT ![r] = reply]

Handle(r) ==
  LET reply == Decide(request[r]) IN
  /\ stage[r] = "new"
  /\ IF reply.status # 0
     THEN Answer(r, reply) /\ UNCHANGED pipelineVars
     ELSE IF reply.body = "introspect"
     THEN /\ stage' = [stage EXCEPT ![r] = "introspecting"]
          /\ StartCall(r, "execute", [document |-> Config.introspectionDocument, name |-> "null"])
          /\ UNCHANGED response
     ELSE /\ stage' = [stage EXCEPT ![r] = "values"]
          /\ UNCHANGED <<pipelineVars, response>>
  /\ UNCHANGED <<request, answers>>

\* execution_values: the context factory and the root value may await and raise.
\* All operations of a batch share what they return.
MakeValues(r) ==
  LET q == request[r]  first == First(q) IN
  /\ stage[r] = "values"
  /\ \/ Answer(r, Error(500)) /\ UNCHANGED pipelineVars
     \/ /\ ~q.batch /\ StreamedQuery(q)
        /\ StartCall(r, "incremental", first)
        /\ Answer(r, Reply(200, "stream"))
     \/ /\ q.batch \/ ~StreamedQuery(q)
        /\ StartCall(r, IF ~q.batch /\ StreamedSubscription(q) THEN "subscribe" ELSE "execute", first)
        /\ stage' = [stage EXCEPT ![r] = "running"]
        /\ UNCHANGED response
  /\ UNCHANGED <<request, answers>>

\* A call of the request is over.  An exception, of the call or of the JSON of its
\* results, answers 500 for the request: the results of a batch go with it.
BugSkipsRaised(r) ==
  /\ answers' = [answers EXCEPT ![r] = Append(@, result[r])]
  /\ UNCHANGED <<pipelineVars, stage, response>>
CallRaised(r) == Answer(r, Error(500)) /\ UNCHANGED <<pipelineVars, answers>>

NextOperation(r) == Len(answers[r]) + 2
CallOver(r) ==
  LET q == request[r]  n == NextOperation(r) IN
  /\ stage[r] = "running" /\ at[r] = Done
  /\ \/ raised[r] /\ CallRaised(r)
     \/ ~raised[r] /\ CallRaised(r)
     \/ /\ ~raised[r]
        /\ answers' = [answers EXCEPT ![r] = Append(@, result[r])]
        /\ IF q.batch /\ n <= Len(q.payloads)
           THEN StartCall(r, "execute", q.payloads[n]) /\ UNCHANGED <<stage, response>>
           ELSE /\ Answer(r, Reply(200, IF StreamAccepted(q) /\ entry[r] = "subscribe" THEN "stream"
                                        ELSE IF q.batch THEN "list" ELSE "result"))
                /\ UNCHANGED pipelineVars
  /\ UNCHANGED request

\* _introspection_document has no try: what execute() raises leaves handle().
IntrospectionOver(r) ==
  /\ stage[r] = "introspecting" /\ at[r] = Done
  /\ Answer(r, IF raised[r] THEN Reply(0, "raised") ELSE Reply(200, "result"))
  /\ UNCHANGED <<pipelineVars, request, answers>>

Work(r) == Proceed(r) /\ UNCHANGED handlerVars
HandlerStep(r) == Handle(r) \/ MakeValues(r) \/ CallOver(r) \/ IntrospectionOver(r) \/ Work(r)
=============================================================================
