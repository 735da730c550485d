---------------------------- MODULE MCProfileReview ----------------------------
EXTENDS ProfileReview, TLC
CONSTANTS e1, e2, p1, p2, v1, v2, i1, i2
Sym == Permutations({e1, e2}) \cup Permutations({p1, p2})
       \cup Permutations({v1, v2}) \cup Permutations({i1, i2})
=============================================================================
