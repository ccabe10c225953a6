--------------------------- MODULE MCMessageChunks ---------------------------
(* Model-checking instance of MessageChunks: texts with blank lines, too. *)
EXTENDS MessageChunks

CONSTANT MaxRunes   \* bound: runes of the one text of a message

\* Every text of at most MaxRunes runes.
TextMessages == {<<TextSeg(t)>> : t \in UNION {[1..k -> Runes] : k \in 0..MaxRunes}}
=============================================================================
