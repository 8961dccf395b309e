--------------------------- MODULE MCPureFunctions ---------------------------
(* Bounded inputs for PureFunctions.                                       *)
EXTENDS PureFunctions

CONSTANTS mm, bigM, sk, zero, space, open, close, redacted

MCBytes == [c \in Chars |-> 1]

\* to_lowercase changes one of the code points.
MCLower == [c \in Chars |-> IF c = bigM THEN mm ELSE c]
MCMarkers == {<<mm, mm>>}
MCLeakKinds == {<<sk>>}
MCLeakLength == [p \in MCLeakKinds |-> 2]
MCNoPatterns == {}

MCByteStrings == SeqOf(Byte, 2)

\* A marker in either case, hidden or not; a token of the leak scanner in any
\* place, shorter than its evidence, as long, and longer.
MCTexts == SeqOf({mm, bigM, sk, zero, space, redacted}, 4)
MCReadTexts == SeqOf({mm, zero, space, close}, 2)
=============================================================================
