----------------------------- MODULE MCRegistry -----------------------------
(* Model values for Registry: two providers, one of which publishes a      *)
(* second version of its listing, and two queries, one that widens the     *)
(* search by description and weighs latency.                               *)
EXTENDS Registry

CONSTANTS v1, v2, usdc, tables, text, in1, in2, base, wallet, one, two, parse, pdf, p1, p2

MCProvider == {v1, v2}
MCCurrency == {usdc}
MCTaxonomy == {tables, text}
MCSchemaRef == {in1, in2}
MCRail == {base, wallet}
MCVersion == {one, two}
MCToken == {parse, pdf}
MCProc == {p1, p2}

Words(a, b) == [t \in MCToken |-> IF t = parse THEN a ELSE b]

First == [id |-> None, provider |-> v1, version |-> one, status |-> "active",
          taxonomy |-> tables, description |-> Words(1, 0), input |-> in1, output |-> in1,
          price |-> 2, currency |-> usdc, rails |-> <<base, wallet>>, p95 |-> 4,
          retained |-> FALSE, stake |-> 1, slashable |-> TRUE, expires |-> 2, genuine |-> TRUE]
Second == [First EXCEPT !.id = 1, !.version = two, !.price = 3, !.p95 = 2, !.rails = <<wallet>>]
Rival == [First EXCEPT !.provider = v2, !.taxonomy = text, !.price = 2, !.p95 = 2,
                       !.description = Words(1, 1), !.output = in2, !.expires = 1]
Taken == [Rival EXCEPT !.id = 1]
MCSubmission == {First, Second, Rival, Taken, [First EXCEPT !.genuine = FALSE]}

Exact == [taxonomy |-> tables, description |-> None, semantic |-> FALSE,
          input |-> in1, output |-> None, validated |-> TRUE,
          ceiling |-> [amount |-> 3, currency |-> usdc], target |-> None, private |-> TRUE,
          minTrust |-> 50, minJobs |-> None, max |-> 1, genuine |-> TRUE,
          weights |-> [price |-> 40, latency |-> 20, trust |-> 40, schema |-> 15, stake |-> 15]]
Semantic == [Exact EXCEPT !.description = Words(1, 0), !.semantic = TRUE, !.target = 4,
                          !.minTrust = None, !.minJobs = 1, !.validated = FALSE,
                          !.weights = [price |-> 0, latency |-> 90, trust |-> 0, schema |-> 10,
                                       stake |-> 0], !.max = 2]
MCQuery == {Exact, Semantic}

MCReputations == {[trust |-> 80, jobs |-> 3, settled |-> 0], [trust |-> 30, jobs |-> 0, settled |-> None]}
=============================================================================
