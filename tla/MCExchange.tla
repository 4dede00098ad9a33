----------------------------- MODULE MCExchange -----------------------------
(***************************************************************************)
(* The instance TLC checks: two extensions, an instance and a class; every *)
(* kind of request alone, through every adapter, and a query at the same   *)
(* time as another one or a subscription.                                  *)
(***************************************************************************)
EXTENDS Exchange, TLC

CONSTANTS r1, r2

Op(name, type) == [name |-> name, type |-> type]
Doc(ops, valid, incremental) ==
  [parses |-> TRUE, operations |-> ops, valid |-> valid, incremental |-> incremental]
Query == Doc(<<Op("", "query")>>, TRUE, FALSE)
Deferring == Doc(<<Op("", "query")>>, TRUE, TRUE)
Mutation == Doc(<<Op("", "mutation")>>, TRUE, FALSE)
Subscribing == Doc(<<Op("", "subscription")>>, TRUE, FALSE)
Both == Doc(<<Op("q", "query"), Op("m", "mutation")>>, TRUE, FALSE)
Twice == Doc(<<Op("q", "query"), Op("q", "mutation")>>, FALSE, FALSE)
NoOperation == Doc(<<>>, TRUE, FALSE)
Broken == [parses |-> FALSE, operations |-> <<>>, valid |-> FALSE, incremental |-> FALSE]

Payload(d, name) == [document |-> d, name |-> name]
Payloads ==
  {Payload(d, "null") : d \in {Query, Deferring, Mutation, Subscribing, Both, NoOperation, Broken}}
  \cup {Payload(Both, n) : n \in {"q", "m", "x", ""}} \cup {Payload(Twice, "q")}
Plain == Payload(Query, "null")

Request(method, route, accept, body, batch, payloads) ==
  [method |-> method, route |-> route, accept |-> accept, body |-> body, batch |-> batch,
   payloads |-> payloads, query |-> payloads # <<>>]

Post(payloads) == Request("POST", "main", "any", "ok", Len(payloads) > 1, payloads)
Batch(payloads) == Request("POST", "main", "any", "ok", TRUE, payloads)

Singles ==
  {Request(m, "main", "any", "ok", FALSE, <<p>>) : m \in {"GET", "POST"}, p \in Payloads}
  \cup {Request(m, "main", "sse", "ok", FALSE, <<Payload(d, "null")>>) :
           m \in {"GET", "POST"}, d \in {Query, Deferring, Mutation, Subscribing}}
  \cup {Request("GET", "introspection", "any", "ok", FALSE, <<Payload(Mutation, "null")>>)}
Malformed == {Request(m, "main", "any", b, FALSE, <<Plain>>) :
                m \in {"GET", "POST"}, b \in {"notjson", "unknowntype", "unmapped", "badfield"}}
Batches == {Batch(<<>>), Batch(<<Plain, Plain, Plain>>)}
           \cup {Batch(<<Plain, Payload(d, "null")>>) : d \in {Mutation, Subscribing, Broken}}
Others == {Request(m, route, a, "ok", FALSE, <<>>) : m \in {"GET", "POST", "OPTIONS", "PUT"}, a \in {"any", "html"},
             route \in {"main", "graphiql", "schema", "introspection", "unknown"}}

Through(adapter, q) == [via |-> adapter, request |-> q]
Together(first, second) == (r1 :> first) @@ (r2 :> second)
Alone(q, adapter) == Together(Through(adapter, q), Through("asgi", Request("PUT", "main", "any", "ok", FALSE, <<>>)))
Streaming == Request("POST", "main", "sse", "ok", FALSE, <<Payload(Subscribing, "null")>>)
MCTraffic ==
  {Alone(q, "asgi") : q \in Singles \cup Malformed \cup Batches}
  \cup {Alone(q, a) : q \in Others \cup {Streaming}, a \in AdapterNames}
  \cup {Together(Through("asgi", q), Through("asgi", Post(<<Plain>>))) :
          q \in {Post(<<Plain>>), Streaming}}
  \cup {Alone(Request("WEBSOCKET", route, a, "ok", FALSE, <<>>), adapter) :
          route \in {"main", "unknown"}, a \in {"any", "graphql-transport-ws"},
          adapter \in {n \in AdapterNames : AdapterOf[n].socket # "none"}}

MCConfig == [graphiql |-> "own", schema |-> TRUE, introspection |-> TRUE, batching |-> TRUE,
             maxBatch |-> 2, introspectionDocument |-> Query]
MCExtensions == <<"instance", "class">>
=============================================================================
