--------------------------- MODULE PositionedFile --------------------------
(***************************************************************************)
(* What the callers of BufferedFile (create and writeEntries in create.go, *)
(* extractFile in extract.go) rely on: an output file with a write         *)
(* position.  A write takes effect at once and whole, a seek moves the     *)
(* position, and a close that succeeds leaves the contents on the device.  *)
(* A file on which some operation failed is "broken": nothing is promised  *)
(* about its contents, except that closing it never succeeds.              *)
(***************************************************************************)
EXTENDS FileImage

CONSTANT Chunk       \* the sequences of cells one write can be given

VARIABLES noFlush,   \* -noflush: a close need not reach the device
          content,   \* the file as its writer sees it
          pos,       \* the offset of the next write
          saved,     \* the contents known to be on the device
          status     \* "open", "closed" (successfully) or "broken"

vars == <<noFlush, content, pos, saved, status>>

Init ==
  /\ noFlush \in BOOLEAN
  /\ content = << >>
  /\ pos = 0
  /\ saved = << >>
  /\ status = "open"

Write(cells) ==
  /\ status = "open"
  /\ content' = WriteAt(content, pos, cells)
  /\ pos' = pos + Len(cells)
  /\ UNCHANGED <<noFlush, saved, status>>

Seek(off) ==
  /\ status = "open"
  /\ pos' = off
  /\ UNCHANGED <<noFlush, content, saved, status>>

Sync ==
  /\ status = "open"
  /\ saved' = content
  /\ UNCHANGED <<noFlush, content, pos, status>>

Close ==
  /\ status = "open"
  /\ status' = "closed"
  /\ saved' = IF noFlush THEN saved ELSE content
  /\ UNCHANGED <<noFlush, content, pos>>

(* Some operation fails; the writer no longer knows what the file holds.   *)
Break ==
  /\ status = "open"
  /\ status' = "broken"
  /\ content' = << >>
  /\ pos' = 0
  /\ saved' = << >>
  /\ UNCHANGED noFlush

Next ==
  \/ \E cells \in Chunk : Write(cells)
  \/ \E off \in 0 .. Len(content) : Seek(off)
  \/ Sync
  \/ Close
  \/ Break

Spec == Init /\ [][Next]_vars
=============================================================================
