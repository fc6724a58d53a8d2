--------------------------- MODULE MCRequestExchange ---------------------------
\* Clients that read a stream, of either era, that do not, and one of HTTP/1.0.
EXTENDS RequestExchange

AKind(carries, sse, modern, required, http_1_1) ==
  [carries |-> carries, accepts_sse |-> sse, modern |-> modern,
   required |-> required, http_1_1 |-> http_1_1]

SmallKinds == {AKind("request", TRUE, FALSE, FALSE, TRUE),
               AKind("request", TRUE, TRUE, TRUE, TRUE),
               AKind("request", TRUE, FALSE, TRUE, TRUE),
               AKind("request", TRUE, FALSE, FALSE, FALSE),
               AKind("request", FALSE, FALSE, FALSE, TRUE),
               AKind("notification", TRUE, FALSE, FALSE, TRUE)}

AWorld(pipelining, async, gate) == [pipelining |-> pipelining, async |-> async, gate |-> gate]

PipelinedWorlds == {AWorld(TRUE, TRUE, TRUE)}
AllWorlds == PipelinedWorlds
  \cup {AWorld(FALSE, TRUE, TRUE), AWorld(TRUE, FALSE, TRUE), AWorld(FALSE, TRUE, FALSE)}
================================================================================
