-------------------------- MODULE MCPrefillSched --------------------------
(* A decoding request, a long prompt and two short ones for TLC.           *)
EXTENDS PrefillSched

Four == 1 .. 4
MCPrompt == <<1, 5, 2, 2>>
MCCached == <<0, 3, 0, 0>>
MCMaxTokens == <<6, 3, 2, 1>>
===========================================================================
