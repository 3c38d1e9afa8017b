--------------------------- MODULE MCRequestPool ----------------------------
(* An instance of RequestPool: two handlers, a probe and a scrape on two   *)
(* threads and one connection.                                             *)
EXTENDS RequestPool

CONSTANTS h1, h2, probe, scrape

MCPath == [r \in Requests |->
             IF r = probe THEN "ready" ELSE IF r = scrape THEN "metrics" ELSE "handler"]
=============================================================================
