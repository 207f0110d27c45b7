--------------------------- MODULE MCPatchString ---------------------------
(* Files of up to three lines over two texts, and every diff of up to three  *)
(* lines: long enough for a line that repeats, an added line before, between *)
(* and after context lines, a removed line that is followed by another.      *)
EXTENDS PatchString

CONSTANTS a, b

MCTexts    == {a, b}
AllOps     == {" ", "+", "-", "", "@"}
InsertOps  == {" ", "+"}
ReplaceOps == {" ", "+", "-"}
=============================================================================
