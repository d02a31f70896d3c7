---------------------------- MODULE MCTimerRace ----------------------------
\* TimerRace on the wheels of two slots of MCTimerManager.
EXTENDS TimerRace, TLC

RaceCounts == {1}
RaceIntervals == {0, 1, 3}
RaceElapsed == {3}

Symmetric == Permutations(Events)
=============================================================================
