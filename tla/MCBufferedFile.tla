--------------------------- MODULE MCBufferedFile --------------------------
(* BufferedFile on a buffer of two cells, writes of up to three (so that   *)
(* the direct path past the buffer is taken) and files of up to four.      *)
EXTENDS BufferedFile
=============================================================================
