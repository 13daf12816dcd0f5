---------------------------- MODULE MCPdoStream -----------------------------
(* Small instances of the process data stream.                              *)
EXTENDS PdoStream, TLC

CONSTANTS s1, s2, st1, st2

\* Two signals of different width: inserting one moves the other.
MCWidthOf == (s1 :> 0) @@ (s2 :> 1)

\* One signal only.
MCWidthOfOne == (s1 :> 0)
=============================================================================
