----------------------------- MODULE ProxyRelay -----------------------------
(* The refinement mapping from the proxy's state to the abstract relay.      *)
EXTENDS Proxy

\* A query is pending while some client on the list was created for it.
Status(q) ==
  IF q \in unsent THEN "unsent"
  ELSE IF q \in inq THEN "queued"
  ELSE IF \E c \in clis : cell[c].cli = q THEN "pending"
  ELSE IF answers[q] # <<>> THEN "answered"
  ELSE "lost"

R == INSTANCE Relay WITH status <- [q \in Query |-> Status(q)]

\* The proxy implements the relay: a query is taken up once, and answered at
\* most once, with every call but the list allocation free to fail and handlers
\* called through freed blocks, which may answer a query that was given up
\* (net.c: read_from_client, handle_dns_response, check_timeout).
ImplementsRelay == R!Spec
=============================================================================
