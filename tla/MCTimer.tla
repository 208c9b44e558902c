------------------------------ MODULE MCTimer ------------------------------
EXTENDS Timer

CONSTANTS t1, t2, c1

TwoTimers == {t1, t2}
Second == {t2}
OneCaller == {c1}
OneOnly == {1}
=============================================================================
