---------------------------- MODULE MCEmbedCycle ----------------------------
EXTENDS EmbedCycle
CONSTANTS p1, p2
TwoPapers == <<p1, p2>>
=============================================================================
