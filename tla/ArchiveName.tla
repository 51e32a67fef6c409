---------------------------- MODULE ArchiveName ----------------------------
(***************************************************************************)
(* What the program reads out of the name of an archive and what it adds   *)
(* to it (util.go, main.go).  A name is the sequence of what stands        *)
(* between its dots, the base name first: "backup.tar.gz" is               *)
(* <<"backup", "tar", "gz">>.  Upper and lower case are the same.          *)
(***************************************************************************)
EXTENDS Naturals, Sequences

Encodings == {"b32", "b64"}

(* What may stand between two dots: any string, those the program itself   *)
(* puts there among them.                                                  *)
Part == STRING \cup {"goxa", "tar", "gz", "xz"}

(* strings.HasSuffix, for a suffix that begins with a dot.                 *)
HasSuffix(name, suffix) ==
  /\ Len(name) > Len(suffix)
  /\ SubSeq(name, Len(name) - Len(suffix) + 1, Len(name)) = suffix
Without(name, n) == SubSeq(name, 1, Len(name) - n)

(* Mutant of detectEncodingFromExt: any last extension is an encoding.     *)
EncodingOfAny(name) == [name |-> Without(name, 1), encode |-> name[Len(name)]]

detectEncodingFromExt(name) ==
  IF \E e \in Encodings : HasSuffix(name, <<e>>)
  THEN [name |-> Without(name, 1), encode |-> name[Len(name)]]
  ELSE [name |-> name, encode |-> ""]

(* The archive extensions, and the one that is left once that of the      *)
(* encoding is off, << >> if it is none of them.                           *)
Extensions == {<<"tar", "gz">>, <<"tar", "xz">>, <<"tar">>, <<"goxaf">>, <<"goxa">>}
Extension(name) ==
  LET stem == detectEncodingFromExt(name).name
      known == {ext \in Extensions : HasSuffix(stem, ext)}
  IN IF known = {} THEN << >> ELSE CHOOSE ext \in known : TRUE
hasKnownArchiveExt(name) == Extension(name) # << >>

FormatOf(ext) == IF ext = << >> THEN "" ELSE IF ext[1] = "tar" THEN "tar" ELSE "goxa"

(* Besides its results the function sets the package variables encode and  *)
(* tarUseXz.  ".goxaf" takes the place of an encoding detected before.     *)
detectFormatFromExt(name) ==
  LET ext == Extension(name)
  IN [format   |-> FormatOf(ext),
      noComp   |-> ext = <<"tar">>,
      tarUseXz |-> ext = <<"tar", "xz">>,
      encode   |-> IF ext = <<"goxaf">> THEN "fec" ELSE detectEncodingFromExt(name).encode]

(* The archive to create, with an extension if it has none.  One that says *)
(* how it is encoded is no archive extension and stays in the middle.      *)
ensureArchiveExtension(name, format, noComp, tarUseXz) ==
  IF hasKnownArchiveExt(name) THEN name
  ELSE name \o (IF format # "tar" THEN <<"goxa">>
                ELSE IF noComp THEN <<"tar">>
                ELSE IF tarUseXz THEN <<"tar", "xz">> ELSE <<"tar", "gz">>)

(* The directory an archive is extracted to when none is given.            *)
stripArchiveExt(name) == Without(detectEncodingFromExt(name).name, Len(Extension(name)))
=============================================================================
