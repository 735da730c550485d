------------------------------- MODULE MCSignIn -------------------------------
EXTENDS SignIn, TLC
CONSTANTS r1, r2, a1, a2, a3, l1, l2, l3, t1, t2
Sym == Permutations({r1, r2}) \cup Permutations({a1, a2, a3})
       \cup Permutations({l1, l2, l3}) \cup Permutations({t1, t2})
=============================================================================
