----------------------------- MODULE MCRefData -----------------------------
EXTENDS RefData, TLC
CONSTANTS x1, x2, r1
Symmetric == Permutations({x1, x2})
\* A whole download, a later one with other gaps, and a truncated one.
MCUpstream == [t \in Tables |->
    IF t = "aircraft_db" THEN { (x1 :> r1 @@ x2 :> None), (x1 :> None @@ x2 :> r1), <<>> }
    ELSE { ("LOT" :> "LOT Polish Airlines" @@ "DLH" :> "Lufthansa"), <<>> }]
=============================================================================
