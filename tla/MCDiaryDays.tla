----------------------------- MODULE MCDiaryDays -----------------------------
EXTENDS DiaryDays, TLC
Sym == Permutations(Ticks)
=============================================================================
