----------------------------- MODULE MCStompbox -----------------------------
EXTENDS AudioPath

\* Three detents, and readings at, near and far from their middles.
MCDetents == <<0, 8, 16>>
MCReadings == {3, 5, 8, 11, 12, 13}

\* Interrupts are late only while the ADC does not answer: with readings to
\* take, neither channel goes on before the interrupt has returned.
MCPunctual == ready /\ (raised # {} \/ handler # "idle") => UNCHANGED <<rx, tx>>
=============================================================================
