---------------------------- MODULE MCGlyphPuzzle ----------------------------
(* Constants of GlyphPuzzle for TLC: three glyphs, a sequence of two and one  *)
(* of all.                                                                    *)
EXTENDS GlyphPuzzle

ThreeGlyphs == <<"eye", "sun", "key">>
TwoThenAll == <<2, 3>>

(* Swapping long since due, just begun, and almost never.                     *)
Uninitialised == {-2, 0, 9}
=============================================================================
