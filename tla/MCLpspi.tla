------------------------------- MODULE MCLpspi -------------------------------
(* Instance of Lpspi for TLC.  One byte value is enough: the device never    *)
(* branches on data.                                                         *)
EXTENDS Lpspi

MCByte == {0}

MCAnswer(word) == {word}

MCSrWrite == {{"TDF", "RDF"}, Flags}

\* Each flag that reaches the interrupt line is enabled without the other, and
\* together with flags that do not reach it.
MCIerWrite == {{}, {"TDF", "TCF"}, {"RDF", "TEF", "REF"}}
=============================================================================
