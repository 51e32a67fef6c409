----------------------------- MODULE MCWalkTree -----------------------------
(* WalkTree on a tree of two directories: a holds a file, a directory with *)
(* a file in it, a hidden file, a hidden directory and a symlink; b holds  *)
(* a file, a hidden file and a device, or less.  One node may come or go   *)
(* while the tree is walked.                                               *)
EXTENDS TarArchive

MCName == STRING \ {Up}
MCCwd == <<"h", "w">>
Dot(parts) == MCCwd \o parts
Directories == {<< >>, <<"h">>, MCCwd, Dot(<<"a">>), Dot(<<"b">>), Dot(<<"a", "d">>),
                Dot(<<"a", ".c">>)}
Files == {Dot(<<"a", "f">>), Dot(<<"a", "d", "f">>), Dot(<<"a", ".e">>),
          Dot(<<"a", ".c", "f">>), Dot(<<"b", "f">>), Dot(<<"b", ".e">>), <<"h", "f">>}
Links == {Dot(<<"a", "s">>)}
Devices == {Dot(<<"b", "n">>)}
All == Directories \cup Files \cup Links \cup Devices
MCTree == [n \in All |->
             CASE n \in Directories -> "dir" [] n \in Files -> "file"
               [] n \in Links -> "symlink" [] n \in Devices -> "device"]

(* Everything; in b a hidden file only, and no file right in a; nothing in *)
(* a/d, and in b a hidden file and a device.                               *)
MCInitials == {All,
               All \ {Dot(<<"b", "f">>), Dot(<<"b", "n">>), Dot(<<"a", "f">>), Dot(<<"a", "s">>)},
               All \ {Dot(<<"b", "f">>), Dot(<<"a", "d", "f">>)}}

Rel(parts) == Path(FALSE, parts)
MCArgLists == {<<Rel(<<"a">>)>>,
               <<Rel(<< >>)>>,
               <<Rel(<<"b">>), Rel(<<"a">>)>>,
               <<Rel(<<"a">>), Rel(<<"b", "..", "a", "d">>)>>,
               <<Rel(<<"a">>), Rel(<<"a">>)>>,
               <<Rel(<<"..", "w", "a", "f">>), Rel(<<"b", "f">>)>>,
               <<Rel(<<"a", ".c">>), Rel(<<"a", ".e">>)>>,
               <<Rel(<<"..">>)>>,
               <<Path(TRUE, << >>)>>,
               <<Path(TRUE, << >>), Path(TRUE, <<"h">>)>>,
               <<Rel(<< >>), Rel(<<"..", "f">>)>>,
               <<Path(TRUE, Dot(<<"b">>))>>}

Flag(a, i, s) == [absolute |-> a, invis |-> i, special |-> s]
MCFlags == {Flag(a, i, s) : a \in BOOLEAN, i \in BOOLEAN, s \in BOOLEAN}
MCDest == Path(TRUE, <<"out">>)

(* A directory and a file that are read-only, and four ways to archive.    *)
MCLocked == {Dot(<<"a", "d">>), Dot(<<"b", "f">>)}
Option(k, p, s) == [kept |-> k, perms |-> p, special |-> s]
MCOptioned == {Option(TRUE, TRUE, TRUE), Option(FALSE, TRUE, TRUE), Option(TRUE, FALSE, FALSE),
               Option(FALSE, FALSE, TRUE)}
=============================================================================
