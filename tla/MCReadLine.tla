----------------------------- MODULE MCReadLine -----------------------------
(* A buffer of five characters, two lines of history.                      *)
EXTENDS ReadLine

CONSTANTS a, b

MCHistory == <<<<a, b, a>>, <<b>>>>
MCPrompt == <<b, a>>
=============================================================================
