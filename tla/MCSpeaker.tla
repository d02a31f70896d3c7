----------------------------- MODULE MCSpeaker -----------------------------
\* Speaker with a client that makes every call on the streams and one that plays
\* beside it and ends the loop.
EXTENDS Speaker

CONSTANTS c1, c2, t1, s1, s2

MCCalls == [c \in Clients |-> IF c = c1 THEN {"Play", "Pause", "Resume", "Cancel"} ELSE {"Play", "ExitLoop"}]
=============================================================================
