----------------------------- MODULE MCPalInput -----------------------------
(* Two direction keys, in the order of keycode_hash, and a key the game does *)
(* not know.                                                               *)
EXTENDS PalInput

MCKeyOrder == <<"up", "left">>
=============================================================================
