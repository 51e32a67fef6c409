---------------------------- MODULE MCExtractor ----------------------------
(* Extractor on three entries, a pool of two and files of up to two        *)
(* blocks.  The archives put next to a file of two blocks, good or with a  *)
(* wrong checksum, a second entry that may share its path, be empty, a     *)
(* bomb or not wanted, and a third that may be a link, a device, damaged   *)
(* or bound for outside the destination, or a link in place of the first.  *)
EXTENDS Extractor

Plain == [kind |-> "file", path |-> "p", legal |-> TRUE, blocks |-> 1,
          damage |-> "none", bomb |-> FALSE, selected |-> TRUE]

First == {[Plain EXCEPT !.blocks = 2, !.damage = d] : d \in {"none", "sum"}}
Second == {Plain,
           [Plain EXCEPT !.path = "q"],
           [Plain EXCEPT !.path = "q", !.bomb = TRUE],
           [Plain EXCEPT !.path = "q", !.blocks = 0],
           [Plain EXCEPT !.path = "q", !.selected = FALSE]}
Third == {[Plain EXCEPT !.path = "r", !.damage = "block"],
          [Plain EXCEPT !.path = "r", !.legal = FALSE],
          [Plain EXCEPT !.path = "r", !.kind = "link"],
          [Plain EXCEPT !.kind = "link"],
          [Plain EXCEPT !.path = "r", !.kind = "other"]}

(* Something of every kind next to the first: a second, or, next to a good *)
(* first and a second of its own, a third.                                 *)
MCArchives == {<<a, b, [Plain EXCEPT !.path = "r"]>> : a \in First, b \in Second}
              \cup {<<[Plain EXCEPT !.blocks = 2], [Plain EXCEPT !.path = "q"], c>> : c \in Third}

Flag(c, n, f) == [checksums |-> c, noCompress |-> n, force |-> f]
MCFlags == {Flag(TRUE, FALSE, FALSE), Flag(TRUE, FALSE, TRUE),
            Flag(FALSE, FALSE, FALSE), Flag(TRUE, TRUE, TRUE)}

(* Nothing there, or a longer file in the way of the first entry.          *)
MCPaths == {"p", "q", "r"}
MCBefores == {[p \in MCPaths |-> Absent],
              [p \in MCPaths |-> IF p = "p" THEN <<<<0, 1>>, <<0, 2>>, <<0, 3>>>> ELSE Absent]}

(* One archive of two files and an empty one, nothing special about it,    *)
(* extracted without -f.                                                   *)
ThreeFiles == {<<Plain, [Plain EXCEPT !.path = "q", !.blocks = 0], [Plain EXCEPT !.path = "r"]>>}
NoForce == {Flag(TRUE, FALSE, FALSE)}
NothingThere == {[p \in MCPaths |-> Absent]}
=============================================================================
