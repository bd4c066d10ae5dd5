---- MODULE MCBookViews ----
EXTENDS BookViews
MCRank == [s \in Symbols |-> IF s = "ADA" THEN 1 ELSE 2]
====
