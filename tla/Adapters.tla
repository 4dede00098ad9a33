------------------------------ MODULE Adapters ------------------------------
(***************************************************************************)
(* fastql/integrations/*.py and server.py: what each adapter registers with*)
(* its framework, how it normalises a request, what it does with the       *)
(* response of the handler, and how it accepts a WebSocket.  The frameworks*)
(* are known by what the adapters use of them.                             *)
(***************************************************************************)
EXTENDS HTTPHandler

\* An adapter: the methods it registers for the main route and for the others (a
\* framework's router refuses the rest; Everything leaves routing to the handler),
\* what becomes of an asynchronous iterator as a body, and how it takes a WebSocket:
\* only with the graphql-transport-ws subprotocol, whatever is offered, or not at all.
Everything == {"GET", "POST", "OPTIONS", "PUT"}
Adapter(main, others, stream, socket) ==
  [main |-> main, others |-> others, stream |-> stream, socket |-> socket]
Three == {"GET", "POST", "OPTIONS"}
Two == {"GET", "OPTIONS"}

Asgi == Adapter(Everything, Everything, "chunks", "offered")
Litestar == Asgi
Channels == Adapter(Everything, Everything, "chunks", "offered")
Starlette == Adapter(Three, Two, "chunks", "offered")
Fastapi == Adapter(Three, Two, "chunks", "offered")
Quart == Adapter(Three, Two, "chunks", "any")
Aiohttp == Adapter(Three, {"GET"}, "chunks", "any")
Sanic == Adapter(Three, Two, "chunks", "none")
\* Flask iterates the asynchronous iterator as if it were synchronous, HttpResponse
\* of Django takes its text, and the development server decodes it as bytes.
Flask == Adapter(Three, Two, "failure", "none")
Django == Adapter(Three, Three, "text", "none")
Server == Adapter(Everything, Everything, "failure", "none")

AdapterOf ==
  [asgi |-> Asgi, litestar |-> Litestar, channels |-> Channels, starlette |-> Starlette,
   fastapi |-> Fastapi, quart |-> Quart, aiohttp |-> Aiohttp, sanic |-> Sanic, flask |-> Flask,
   django |-> Django, server |-> Server]
AdapterNames == DOMAIN AdapterOf

\* The framework's own answer: a route that is not registered, or a method.
RouterRefuses(adapter, q) ==
  /\ AdapterOf[adapter].main # Everything
  /\ \/ q.route \notin Routes
     \/ q.method \notin (IF q.route = "main" THEN AdapterOf[adapter].main ELSE AdapterOf[adapter].others)
RouterReply(q) == IF q.route \notin Routes THEN Reply(404, "router") ELSE Reply(405, "router")

\* The dispatcher of the development server passes no header on but the content
\* type, which it takes for JSON: JSON under another type is welcome, a form is not.
Normalised(adapter, q) ==
  IF adapter # "server" THEN q
  ELSE [q EXCEPT !.accept = "any",
                 !.body = CASE @ = "unknowntype" -> "ok" [] @ = "unmapped" -> "notjson" [] OTHER -> @]

\* What goes out for a response.
Sends(adapter, body) == IF body = "stream" THEN AdapterOf[adapter].stream ELSE "bytes"

\* A WebSocket handshake, and the close codes of GraphQLASGI: TransportWS is what
\* follows an accepted one.  accept stands for the subprotocols offered.
HandshakeReply(adapter, q) ==
  IF q.route # "main"
  THEN IF adapter \in {"asgi", "litestar"} THEN Reply(4404, "closed") ELSE Reply(404, "router")
  ELSE IF AdapterOf[adapter].socket = "offered" /\ q.accept # "graphql-transport-ws" THEN Reply(4406, "closed")
  ELSE Reply(101, "socket")
=============================================================================
