---------------------------- MODULE MC_AdvTimeline ----------------------------
EXTENDS AdvTimeline

\* A 30 ms duration, a 2-event budget and a 20 ms advertising interval.
MC_Durations == {0, 3}
MC_MaxEvs == {0, 2}
MC_Intervals == {32}
=============================================================================
