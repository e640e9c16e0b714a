---------------------------- MODULE MCAppLayerTx ----------------------------
EXTENDS AppLayerTx

\* One logger is written when the request is complete, the one with a
\* condition when the parser has the response.
MCLogProgress == [l \in Loggers |-> IF l \in Conditional THEN {"tc"} ELSE {"ts"}]
MCRuleSets == <<[d \in Dir |-> "rules"], [d \in Dir |-> IF d = "ts" THEN "rules" ELSE "none"]>>
=============================================================================
