---- MODULE MCGatedBook ----
EXTENDS GatedBook
MCQtys == {0, 1, 2, 3}
====
