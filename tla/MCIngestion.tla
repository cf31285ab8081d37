----------------------------- MODULE MCIngestion -----------------------------
(* Ingestion for TLC: one source that offers one article, under a headline the newsroom may use too. *)
EXTENDS Ingestion
CONSTANTS wire, flood, report
MCFeed   == [s \in Sources |-> <<report>>]
MCTitleOf == [a \in Articles |-> flood]
MCOrder  == <<wire>>
=============================================================================
