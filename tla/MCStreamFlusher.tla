-------------------------- MODULE MCStreamFlusher ---------------------------
EXTENDS StreamFlusher

(* A new delta, and one that is coalesced with the one before.             *)
MCText == <<"thinking", "text", "text">>
=============================================================================
