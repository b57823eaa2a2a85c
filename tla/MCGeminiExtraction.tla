------------------------- MODULE MCGeminiExtraction -------------------------
(***************************************************************************)
(* GeminiExtraction with two requests, four models and one listing, which  *)
(* may break off anywhere.                                                 *)
(***************************************************************************)
EXTENDS GeminiExtraction

CONSTANTS r1, r2, flash, lite, pro, tts

\* "flash" is built in and listed, "lite" is configured, "pro" is only listed, "tts" is
\* a flash model that cannot read images.
MCStable == <<flash>>
MCConfigured == <<lite>>
MCListings == {<<pro, tts, flash>>}
=============================================================================
