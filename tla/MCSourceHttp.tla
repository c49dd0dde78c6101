--------------------------- MODULE MCSourceHttp ---------------------------
EXTENDS SourceHttp, TLC

CONSTANTS c1, c2, s1

MCSourceOf == c1 :> s1 @@ c2 :> s1
===========================================================================
