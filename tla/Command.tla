------------------------------ MODULE Command ------------------------------
(***************************************************************************)
(* The program from its command line to its exit, run several times in one *)
(* directory: main and what it decides from mode, options, the name of the *)
(* archive and its first bytes (main.go, util.go); what create does around *)
(* the archive it writes, with temporary files, encodings and stdout       *)
(* (create.go, fec.go); createTar and extractTar as a whole (tar.go); what *)
(* extract does before it restores (extract.go); and the goroutine that    *)
(* draws the progress line (progress.go), started and stopped by each.     *)
(*                                                                         *)
(* What happens to an archive's contents is told by ArchiveWriter and      *)
(* Extractor.  Here a file is what there is to know from outside: which    *)
(* archive it is, in which format, compressed and encoded how, and whether *)
(* it is all there.  Anything may end the program in the middle, a step    *)
(* may fail, and a user renames archives; a shard may go bad.              *)
(***************************************************************************)
EXTENDS ArchiveName, FecFile, FiniteSets

CONSTANTS Commands,    \* the command lines to consider, for each run
          Names,       \* the names a user gives archives
          DefaultName, \* defaultArchiveName
          None,        \* no file
          MaxRuns,     \* bound of the model: runs of the program
          MaxFaults,   \* bound of the model: crashes and failing steps
          MaxMoves     \* bound of the model: renamings and bad shards

Modes == {"c", "l", "j", "x", "other"}
CommandType ==
  [mode : Modes, arc : Names, format : {"goxa", "tar"},
   comp : {"xz", "none", "any"},      \* "any" stands for the other compressions
   valid : BOOLEAN,                   \* no option has an unknown value
   force : BOOLEAN, progress : BOOLEAN,
   stdout : {"no", "pipe", "file"},   \* -stdout, and what stdout is
   dest : {"none", "here", "there"},  \* the destination: none, ".", another directory
   absolute : BOOLEAN,
   size : Nat \ {0},                  \* of the archive it would make
   data : Nat, parity : Nat, level : {""} \cup DOMAIN Presets]

(* What there is to know of a file: its format and compression, how it is  *)
(* encoded, how much of it is there, what a tar archive holds (no entry at *)
(* all, no other than ".", or more), the run that made it, and with error  *)
(* correction the numbers of its shards and those that went bad.           *)
Compressions == {"none", "gzip", "xz"}
States == {"part", "short", "whole", "damaged"}
Holdings == {"nothing", "root", "more"}
FileType ==
  [format : {"goxa", "tar"}, comp : Compressions, encode : {"", "fec"} \cup Encodings,
   state : States, holds : Holdings, by : 1 .. MaxRuns, size : Nat,
   data : Nat, parity : Nat, bad : SUBSET Nat]

ASSUME CommandsAssumption ==
  DOMAIN Commands = 1 .. MaxRuns /\ \A k \in 1 .. MaxRuns : Commands[k] \subseteq CommandType
ASSUME NamesAssumption == Names \subseteq Seq(Part) /\ DefaultName \in Seq(Part)
ASSUME NoneAssumption == None \notin FileType
ASSUME BoundsAssumption == MaxRuns \in Nat \ {0} /\ MaxFaults \in Nat /\ MaxMoves \in Nat

VARIABLES
  disk,     \* the files of the directory, by name
  temp,     \* the temporary file of the run, or None
  out,      \* what was written to stdout, or None
  cmd,      \* the command line
  opt,      \* the package variables that follow from it
  pc,       \* "shell" between two runs, or the place in the program
  after,    \* where it goes on when a goroutine it waits for has ended
  tickers,  \* the goroutines of progressTicker, the last one started last
  status,   \* of the run: "running", "ok", "fatal", "killed"; "past" if files moved since
  failed,   \* decoding failed
  trouble,  \* "failed": a step of this run failed; "dropped": and nobody looked
  got,      \* the archive that was restored, by the run that made it, or 0
  runs, faults, moves

files == <<disk, temp, out>>
marks == <<failed, trouble, got>>
bounds == <<runs, faults, moves>>
vars == <<files, cmd, opt, pc, after, tickers, status, marks, bounds>>

-----------------------------------------------------------------------------
(* Where the program goes next.                                            *)
Goto(p) == pc' = p /\ UNCHANGED <<after, tickers, status>>
Exit(s) == pc' = "shell" /\ status' = s /\ after' = "" /\ tickers' = << >>

Quiet == cmd.stdout # "no" \/ cmd.mode = "j"

(* Mutant of Launched: finished is left open when nothing is to be drawn.  *)
LaunchedOpen == Append(tickers, IF cmd.progress /\ ~Quiet THEN "runs" ELSE "open")

(* progressTicker: without a display finished is closed right away.        *)
Launched == Append(tickers, IF cmd.progress /\ ~Quiet THEN "runs" ELSE "ended")
Launch(p) == pc' = p /\ tickers' = Launched /\ UNCHANGED <<after, status>>

(* close(done), and <-finished before the program goes on with p.          *)
Told == [tickers EXCEPT ![Len(tickers)] = IF @ = "runs" THEN "told" ELSE @]
Tell(p) == pc' = "wait" /\ tickers' = Told /\ after' = p /\ UNCHANGED status

(* The goroutine sees that done is closed.                                 *)
TickerEnds ==
  /\ \E k \in DOMAIN tickers :
       tickers[k] = "told" /\ tickers' = [tickers EXCEPT ![k] = "ended"]
  /\ UNCHANGED <<files, cmd, opt, pc, after, status, marks, bounds>>

(* A failed decoding has its temporary file removed.                       *)
Waited ==
  /\ pc = "wait"
  /\ tickers[Len(tickers)] = "ended"
  /\ Goto(after)
  /\ temp' = IF failed THEN None ELSE temp
  /\ UNCHANGED <<disk, out, cmd, opt, marks, bounds>>

(* Mutant of Return: the removal of the temporary file is not deferred.    *)
ReturnOnly ==
  /\ pc = "return"
  /\ Exit("ok")
  /\ UNCHANGED <<files, cmd, opt, marks, bounds>>

(* The program returns, deferred removals included.                        *)
Return ==
  /\ pc = "return"
  /\ Exit("ok")
  /\ temp' = None
  /\ UNCHANGED <<disk, out, cmd, opt, marks, bounds>>

(* log.Fatal runs no deferred call.                                        *)
Die ==
  /\ pc = "fatal"
  /\ Exit("fatal")
  /\ UNCHANGED <<files, cmd, opt, marks, bounds>>

-----------------------------------------------------------------------------
(* Files.                                                                  *)
Exists(name) == name \in DOMAIN disk
FileAt(name) == IF Exists(name) THEN disk[name] ELSE None
Whole(file) == IF file.state = "whole" THEN file.by ELSE 0
CompressionOf(o) == IF o.noComp THEN "none" ELSE IF o.tarUseXz THEN "xz" ELSE "gzip"
Compression == CompressionOf(opt)
Written(state) ==
  [format |-> opt.format,
   comp |-> IF opt.format = "tar" THEN Compression ELSE "none",
   encode |-> "", state |-> state, holds |-> "more", by |-> runs, size |-> cmd.size,
   data |-> 0, parity |-> 0, bad |-> {}]
Tarred(state, holds) == [Written(state) EXCEPT !.holds = holds]

(* The number of shards.  A preset comes before the numbers.               *)
Shards == IF cmd.level = "" THEN <<cmd.data, cmd.parity>> ELSE Presets[cmd.level]
Encoded(state) ==
  [Written(state) EXCEPT !.encode = opt.encode,
     !.data = IF opt.encode = "fec" THEN Shards[1] ELSE 0,
     !.parity = IF opt.encode = "fec" THEN Shards[2] ELSE 0]

-----------------------------------------------------------------------------
(* main: what to do.                                                       *)
Init ==
  /\ disk = << >> /\ temp = None /\ out = None
  /\ cmd \in Commands[1]
  /\ opt = [arc |-> cmd.arc, format |-> cmd.format, encode |-> "", noComp |-> FALSE,
            tarUseXz |-> FALSE]
  /\ pc = "main" /\ after = "" /\ tickers = << >> /\ status = "running"
  /\ failed = FALSE /\ trouble = "none" /\ got = 0
  /\ runs = 1 /\ faults = 0 /\ moves = 0

Start(c) ==
  /\ pc = "shell"
  /\ cmd' = c
  /\ opt' = [arc |-> c.arc, format |-> c.format, encode |-> "", noComp |-> FALSE,
             tarUseXz |-> FALSE]
  /\ pc' = "main" /\ after' = "" /\ tickers' = << >> /\ status' = "running"
  /\ temp' = None /\ out' = None
  /\ failed' = FALSE /\ trouble' = "none" /\ got' = 0
  /\ runs' = runs + 1
  /\ UNCHANGED <<disk, faults, moves>>

(* An unknown mode, or -version: nothing is done.                          *)
Inform ==
  /\ pc = "main"
  /\ cmd.mode = "other"
  /\ Goto("return")
  /\ UNCHANGED <<files, cmd, opt, marks, bounds>>

Detected == [name \in Names |-> detectFormatFromExt(name)]

DetectByName ==
  /\ pc = "main"
  /\ cmd.mode # "other"
  /\ LET found == Detected[cmd.arc] IN
       /\ opt' = [opt EXCEPT !.format = IF found.format = "" THEN @ ELSE found.format,
                             !.noComp = found.noComp,
                             !.tarUseXz = found.tarUseXz,
                             !.encode = found.encode]
       /\ pc' = IF cmd.mode = "c" THEN "configure"
                ELSE IF found.encode = "" THEN "header" ELSE "decode"
  /\ after' = "header"
  /\ UNCHANGED <<files, cmd, tickers, status, marks, bounds>>

(* detectFormatFromHeader: the first bytes of a file, as far as they are   *)
(* there.  A tar archive without entries has no header to tell it by; what *)
(* begins a file with error correction begins with the magic of goxa.      *)
(* gzip leaves tarUseXz as the name set it.                                *)
Seen(file) ==
  IF file = None \/ file.encode \in Encodings \/ file.holds = "nothing" THEN {None}
  ELSE IF file.state \in {"part", "damaged"} THEN {None, file} ELSE {file}

(* Mutant of DetectByHeader: tarUseXz is left as the name set it.          *)
DetectByHeaderNoXz ==
  /\ pc = "header"
  /\ \E file \in Seen(IF opt.encode = "" THEN FileAt(opt.arc) ELSE temp) :
       opt' = IF file = None THEN opt
              ELSE [opt EXCEPT !.format = file.format,
                      !.noComp = IF file.format = "tar" THEN file.comp = "none" ELSE @]
  /\ failed' = FALSE
  /\ temp' = None
  /\ Goto("configure")
  /\ UNCHANGED <<disk, out, cmd, trouble, got, bounds>>

(* What a failed decoding leaves is no file either.                        *)
DetectByHeader ==
  /\ pc = "header"
  /\ \E file \in Seen(IF opt.encode = "" THEN FileAt(opt.arc) ELSE temp) :
       opt' = IF file = None THEN opt
              ELSE [opt EXCEPT !.format = file.format,
                      !.noComp = IF file.format = "tar" THEN file.comp = "none" ELSE @,
                      !.tarUseXz = @ \/ file.comp = "xz"]
  /\ failed' = FALSE
  /\ temp' = None
  /\ Goto("configure")
  /\ UNCHANGED <<disk, out, cmd, trouble, got, bounds>>

(* Mode letters and options come after what was detected, and -comp xz     *)
(* can only add to it.                                                     *)
Configure ==
  LET noComp == opt.noComp \/ cmd.comp = "none"
      tarUseXz == opt.tarUseXz \/ (cmd.comp = "xz" /\ opt.format = "tar")
  IN
  /\ pc = "configure"
  /\ opt' = [opt EXCEPT !.noComp = noComp, !.tarUseXz = tarUseXz,
               !.arc = IF cmd.mode = "c"
                       THEN ensureArchiveExtension(@, opt.format, noComp, tarUseXz)
                       ELSE @]
  /\ Goto(IF cmd.valid THEN "run" ELSE "fatal")
  /\ UNCHANGED <<files, cmd, marks, bounds>>

(* runMode.                                                                *)
Refused ==
  \/ cmd.mode \in {"l", "j"} /\ opt.format = "tar"
  \/ cmd.mode = "x" /\ (opt.arc = DefaultName \/ (cmd.dest # "none" /\ cmd.absolute))

Run ==
  /\ pc = "run"
  /\ pc' = IF Refused THEN "fatal"
           ELSE IF opt.format = "tar" THEN IF cmd.mode = "c" THEN "tar" ELSE "untar"
           ELSE IF cmd.mode = "c" THEN "output"
           ELSE IF opt.encode = "" THEN "open"
           ELSE IF opt.encode = "fec" THEN "fec" ELSE "decode"
  /\ after' = "open"
  /\ UNCHANGED <<files, cmd, opt, tickers, status, marks, bounds>>

-----------------------------------------------------------------------------
(* Decoding, for detectFormatFromHeader and for extract; after says who    *)
(* asked.                                                                  *)
DecodeMissing ==
  /\ pc \in {"decode", "fec"}
  /\ ~Exists(opt.arc)
  /\ failed' = TRUE
  /\ Goto(after)
  /\ UNCHANGED <<files, cmd, opt, trouble, got, bounds>>

(* decodeIfNeeded opens the file, a temporary one, and starts the display. *)
DecodeText ==
  /\ pc = "decode"
  /\ opt.encode # "fec"
  /\ Exists(opt.arc)
  /\ temp' = Written("part")
  /\ Launch("copy")
  /\ UNCHANGED <<disk, out, cmd, opt, marks, bounds>>

(* Mutant of Copy: an error returns before the display is stopped.         *)
CopyLeaves ==
  /\ pc = "copy"
  /\ LET file == disk[opt.arc] IN
     \/ /\ file.encode = opt.encode
        /\ temp' = [file EXCEPT !.encode = ""]
        /\ failed' = FALSE
        /\ Tell(after)
     \/ /\ file.encode # opt.encode \/ file.state = "part"
        /\ temp' = None
        /\ failed' = TRUE
        /\ Goto(after)
  /\ UNCHANGED <<disk, out, cmd, opt, trouble, got, bounds>>

(* What is not so encoded has a letter that does not belong there; the     *)
(* beginning of an encoded file may decode, to the beginning of it.        *)
Copy ==
  /\ pc = "copy"
  /\ LET file == disk[opt.arc] IN
     \/ /\ file.encode = opt.encode
        /\ temp' = [file EXCEPT !.encode = ""]
        /\ failed' = FALSE
     \/ /\ file.encode # opt.encode \/ file.state = "part"
        /\ temp' = None
        /\ failed' = TRUE
  /\ Tell(after)
  /\ UNCHANGED <<disk, out, cmd, opt, trouble, got, bounds>>

(* Its branch for FEC removes the temporary file, leaves the display on,   *)
(* and begins again in decodeWithFEC.                                      *)
DecodeFec ==
  /\ pc = "decode"
  /\ opt.encode = "fec"
  /\ Exists(opt.arc)
  /\ Launch("fec")
  /\ UNCHANGED <<files, cmd, opt, marks, bounds>>

(* decodeWithFEC.  Verify needs every shard to be there; what it says of   *)
(* them is not used.                                                       *)
FecComplete(file) ==
  /\ file.encode = "fec" /\ file.state = "whole"
  /\ LET hdr == Header(file.size, file.data, file.parity) IN NewStream(hdr.data, hdr.parity)

FecRefuses ==
  /\ pc = "fec"
  /\ Exists(opt.arc)
  /\ ~FecComplete(disk[opt.arc])
  /\ failed' = TRUE
  /\ Goto(after)
  /\ UNCHANGED <<files, cmd, opt, trouble, got, bounds>>

FecOpens ==
  /\ pc = "fec"
  /\ Exists(opt.arc)
  /\ FecComplete(disk[opt.arc])
  /\ temp' = Written("part")
  /\ failed' = FALSE
  /\ Launch("join")
  /\ UNCHANGED <<disk, out, cmd, opt, trouble, got, bounds>>

(* What a file with error correction decodes to: the data shards joined,   *)
(* as they lie behind the header, bad ones as they are.                    *)
DataIntact(file) == file.bad \cap 0 .. file.data - 1 = {}
Joined(file) ==
  [file EXCEPT !.encode = "", !.bad = {}, !.data = 0, !.parity = 0,
     !.state = IF DataIntact(file) /\ Decodes(file.size, file.data, file.parity)
               THEN "whole" ELSE "damaged"]

Join ==
  /\ pc = "join"
  /\ LET file == disk[opt.arc] IN
     IF Joins(file.size, file.data, file.parity)
     THEN temp' = Joined(file) /\ failed' = FALSE
     ELSE temp' = temp /\ failed' = TRUE
  /\ Tell(after)
  /\ UNCHANGED <<disk, out, cmd, opt, trouble, got, bounds>>

-----------------------------------------------------------------------------
(* extract, around what Extractor does.                                    *)
Archive == IF failed THEN None ELSE IF opt.encode = "" THEN FileAt(opt.arc) ELSE temp

(* Mutant of Sound: the size in the header is not compared.                *)
SoundAnySize(file) == file # None /\ file.format = "goxa" /\ file.encode = ""

(* The beginning of a goxa archive with all that its header counts.        *)
Sound(file) ==
  file # None /\ file.format = "goxa" /\ file.encode = "" /\ file.state = "whole"

(* Magic, version and size are compared before anything is restored.  They *)
(* may be what is bad in a damaged archive, or may not.                    *)
Open ==
  /\ pc = "open"
  /\ \/ /\ Sound(Archive) \/ (Archive # None /\ Archive.state = "damaged")
        /\ IF cmd.mode = "x" THEN Launch("restore") ELSE Goto("return")
     \/ ~Sound(Archive) /\ Goto("fatal")
  /\ UNCHANGED <<files, cmd, opt, marks, bounds>>

(* Without a destination it is the archive's name without its extension,   *)
(* which must not be a file.                                               *)
Place == cmd.dest = "none" => ~Exists(stripArchiveExt(opt.arc))

(* safeJoin refuses every path below ".", which -f passes over; an archive *)
(* that needs no such path, of special files alone, is restored there too. *)
Restore ==
  /\ pc = "restore"
  /\ \/ Place /\ Tell("return") /\ got' = Whole(Archive)
     \/ ~Place /\ Goto("fatal") /\ UNCHANGED got
     \/ /\ cmd.dest = "here"
        /\ IF cmd.force THEN Tell("return") ELSE Goto("fatal")
        /\ UNCHANGED got
  /\ UNCHANGED <<files, cmd, opt, failed, trouble, bounds>>

-----------------------------------------------------------------------------
(* create, around what ArchiveWriter does.                                 *)
Output == IF opt.encode # "" THEN "temp" ELSE IF cmd.stdout # "no" THEN "stdout" ELSE "archive"

Stored(name, file) ==
  [n \in DOMAIN disk \cup {name} |-> IF n = name THEN file ELSE disk[n]]

(* What is in the file that is written.                                    *)
Put(where, file) ==
  /\ temp' = IF where = "temp" THEN file ELSE temp
  /\ out' = IF where = "stdout" THEN file ELSE out
  /\ disk' = IF where = "archive" THEN Stored(opt.arc, file) ELSE disk

(* Mutant of OpenOutput: it never asks whether the archive is there.       *)
OpenOutputAnyway ==
  /\ pc = "output"
  /\ Put(Output, Written("part"))
  /\ Goto("walk")
  /\ UNCHANGED <<cmd, opt, marks, bounds>>

OpenOutput ==
  /\ pc = "output"
  /\ IF Output = "archive" /\ ~cmd.force /\ Exists(opt.arc)
     THEN Goto("fatal") /\ UNCHANGED files
     ELSE Put(Output, Written("part")) /\ Goto("walk")
  /\ UNCHANGED <<cmd, opt, marks, bounds>>

Walk ==
  /\ pc = "walk"
  /\ Launch("entries")
  /\ UNCHANGED <<files, cmd, opt, marks, bounds>>

(* writeEntries, and its deferred stop of the display.                     *)
Entries ==
  /\ pc = "entries"
  /\ Tell("close")
  /\ UNCHANGED <<files, cmd, opt, marks, bounds>>

(* Mutant of Close: the seek back to the header is not checked.            *)
CloseAnyway ==
  /\ pc = "close"
  /\ Goto(IF opt.encode = "" THEN "return" ELSE IF opt.encode = "fec" THEN "shards" ELSE "encode")
  /\ IF Output = "stdout" /\ cmd.stdout = "pipe" THEN UNCHANGED files
     ELSE Put(Output, Written("whole"))
  /\ UNCHANGED <<cmd, opt, marks, bounds>>

(* The final header goes to the beginning; a pipe cannot be taken back.    *)
Close ==
  /\ pc = "close"
  /\ IF Output = "stdout" /\ cmd.stdout = "pipe"
     THEN Goto("fatal") /\ UNCHANGED files
     ELSE /\ Put(Output, Written("whole"))
          /\ Goto(IF opt.encode = "" THEN "return"
                  ELSE IF opt.encode = "fec" THEN "shards" ELSE "encode")
  /\ UNCHANGED <<cmd, opt, marks, bounds>>

(* The second pass: Base32 and Base64.                                     *)
Target == IF cmd.stdout # "no" THEN "stdout" ELSE "archive"

EncodeText ==
  /\ pc = "encode"
  /\ Put(Target, Encoded("part"))
  /\ Launch("encoding")
  /\ UNCHANGED <<cmd, opt, marks, bounds>>

EncodeTextEnds ==
  /\ pc = "encoding"
  /\ Put(Target, Encoded("whole"))
  /\ Tell("return")
  /\ UNCHANGED <<cmd, opt, marks, bounds>>

(* encodeWithFEC.  The archive is created once the numbers are accepted.   *)
EncodeFec ==
  /\ pc = "shards"
  /\ IF cmd.stdout # "no" \/ ~NewStream(Shards[1], Shards[2])
     THEN Goto("fatal") /\ UNCHANGED files
     ELSE Put("archive", Encoded("part")) /\ Launch("split")
  /\ UNCHANGED <<cmd, opt, marks, bounds>>

EncodeFecEnds ==
  /\ pc = "split"
  /\ IF Encodes(cmd.size, Shards[1], Shards[2])
     THEN Put("archive", Encoded("whole")) /\ Tell("return")
     ELSE UNCHANGED files /\ Tell("fatal")
  /\ UNCHANGED <<cmd, opt, marks, bounds>>

-----------------------------------------------------------------------------
(* createTar: what is there is written over.                               *)
CreateTar ==
  /\ pc = "tar"
  /\ Put("archive", Written("part"))
  /\ Goto("tar walk")
  /\ UNCHANGED <<cmd, opt, marks, bounds>>

(* The deferred closes write the end of the archive and of the compressed  *)
(* stream.  A root that is passed over leaves an archive without entries.  *)
CreateTarEnds ==
  /\ pc = "tar walk"
  /\ \E holds \in Holdings : Put("archive", Tarred("whole", holds))
  /\ Goto("return")
  /\ UNCHANGED <<cmd, opt, marks, bounds>>

(* extractTar reads the file as it is, whatever its encoding, as the       *)
(* compression says that was found out.  Nothing but "." itself can be put *)
(* into "." and into an empty destination.  What has only begun to be      *)
(* written is refused by the readers of compressed archives; without       *)
(* compression it may end where an entry ends, or before the first.        *)
Barred(file) == file.holds = "more" /\ cmd.dest # "there" /\ ~cmd.absolute
Unpacks(file) ==
  /\ file # None /\ file.state # "part" /\ file.encode = ""
  /\ file.format = "tar" /\ file.comp = Compression
  /\ ~Barred(file)

Untar ==
  LET file == FileAt(opt.arc)
      begun == file # None /\ file.state = "part" /\ Compression = "none"
  IN
  /\ pc = "untar"
  /\ \/ /\ begun \/ Unpacks(file)
        /\ got' = Whole(file)
        /\ Goto("return")
     \/ /\ ~Unpacks(file)
        /\ got' = got
        /\ Goto("fatal")
  /\ UNCHANGED <<files, cmd, opt, failed, trouble, bounds>>

-----------------------------------------------------------------------------
(* A step fails.                                                           *)
Fails(how) == faults < MaxFaults /\ faults' = faults + 1 /\ trouble' = how

(* walkPaths: create returns the error, and runMode drops it.  Nothing     *)
(* removes the temporary file.                                             *)
WalkFails ==
  /\ pc = "walk"
  /\ Fails("dropped")
  /\ Exit("ok")
  /\ UNCHANGED <<files, cmd, opt, failed, got, runs, moves>>

(* Too little space; an entry, the header or the flush of the output, or   *)
(* the restoration of an entry fails: log.Fatal at once.  extractTar ends  *)
(* at any entry that it cannot create, for want of a place, of a mode that *)
(* lets it or of space.                                                    *)
Aborts ==
  /\ pc \in {"walk", "entries", "close", "restore", "untar"}
  /\ Fails("failed")
  /\ Goto("fatal")
  /\ UNCHANGED <<files, cmd, opt, failed, got, runs, moves>>

(* The second pass fails; the beginning of the archive stays.              *)
EncodingFails ==
  /\ pc \in {"encoding", "split"}
  /\ Fails("failed")
  /\ Tell("fatal")
  /\ UNCHANGED <<files, cmd, opt, failed, got, runs, moves>>

(* encW.Close writes what is left of the encoded archive; nobody asks.     *)
EncodingEndLost ==
  /\ pc = "encoding"
  /\ Fails("dropped")
  /\ Tell("return")
  /\ UNCHANGED <<files, cmd, opt, failed, got, runs, moves>>

(* The temporary file cannot be written.                                   *)
DecodingFails ==
  /\ pc \in {"copy", "join"}
  /\ Fails("failed")
  /\ failed' = TRUE
  /\ temp' = IF pc = "copy" THEN None ELSE temp
  /\ Tell(after)
  /\ UNCHANGED <<disk, out, cmd, opt, got, runs, moves>>

(* createTar: the deferred closes complete the archive as far as it is.    *)
CreateTarFails ==
  /\ pc = "tar walk"
  /\ Fails("failed")
  /\ \E state \in {"part", "short"}, holds \in Holdings :
       Put("archive", Tarred(state, holds))
  /\ Goto("fatal")
  /\ UNCHANGED <<cmd, opt, failed, got, runs, moves>>

(* The deferred closes fail; nobody asks.                                  *)
CreateTarEndLost ==
  /\ pc = "tar walk"
  /\ Fails("dropped")
  /\ Goto("return")
  /\ UNCHANGED <<files, cmd, opt, failed, got, runs, moves>>

(* The program is killed, and its goroutines with it.                      *)
Crash ==
  /\ pc # "shell"
  /\ Fails("failed")
  /\ Exit("killed")
  /\ UNCHANGED <<files, cmd, opt, failed, got, runs, moves>>

-----------------------------------------------------------------------------
(* The user, between two runs.                                             *)
Move(now) ==
  /\ pc = "shell"
  /\ runs < MaxRuns /\ moves < MaxMoves
  /\ disk' = now
  /\ status' = "past"
  /\ moves' = moves + 1
  /\ UNCHANGED <<temp, out, cmd, opt, pc, after, tickers, marks, runs, faults>>

Rename(from, to) ==
  /\ from # to
  /\ Move([n \in (DOMAIN disk \ {from}) \cup {to} |-> IF n = to THEN disk[from] ELSE disk[n]])

(* A shard goes bad: a data shard or a parity shard.                       *)
GoBad(name) ==
  /\ disk[name].encode = "fec" /\ disk[name].state = "whole"
  /\ \E shard \in {0, disk[name].data + disk[name].parity - 1} :
       Move([disk EXCEPT ![name].bad = @ \cup {shard}])

-----------------------------------------------------------------------------
Main == Inform \/ DetectByName \/ DetectByHeader \/ Configure \/ Run \/ Waited \/ Return \/ Die
Decode == DecodeMissing \/ DecodeText \/ Copy \/ DecodeFec \/ FecRefuses \/ FecOpens \/ Join
Extract == Open \/ Restore \/ Untar
Create ==
  \/ OpenOutput \/ Walk \/ Entries \/ Close
  \/ EncodeText \/ EncodeTextEnds \/ EncodeFec \/ EncodeFecEnds
  \/ CreateTar \/ CreateTarEnds
Program == pc # "shell" /\ (Main \/ Decode \/ Extract \/ Create)

Troubles ==
  \/ WalkFails \/ Aborts \/ EncodingFails \/ EncodingEndLost \/ DecodingFails
  \/ CreateTarFails \/ CreateTarEndLost \/ Crash

User ==
  \/ runs < MaxRuns /\ \E c \in Commands[runs + 1] : Start(c)
  \/ \E from \in DOMAIN disk, to \in Names : Rename(from, to)
  \/ \E name \in DOMAIN disk : GoBad(name)

Ended == pc = "shell" /\ UNCHANGED vars

Next == Program \/ TickerEnds \/ Troubles \/ User \/ Ended

Spec == Init /\ [][Next]_vars

(* The program and its goroutine go on; nobody has to start it, no step    *)
(* has to fail.                                                            *)
FairSpec == Spec /\ WF_vars(Program) /\ WF_vars(TickerEnds)

-----------------------------------------------------------------------------
TypeOK ==
  /\ DOMAIN disk \subseteq Seq(Part)
  /\ \A n \in DOMAIN disk : disk[n] \in FileType
  /\ temp \in FileType \cup {None} /\ out \in FileType \cup {None}
  /\ cmd \in Commands[runs]
  /\ opt \in [arc : Seq(Part), format : {"goxa", "tar"}, encode : {"", "fec"} \cup Encodings,
              noComp : BOOLEAN, tarUseXz : BOOLEAN]
  /\ tickers \in Seq({"runs", "told", "ended"})
  /\ status \in {"running", "ok", "fatal", "killed", "past"}
  /\ (pc = "shell") = (status # "running")
  /\ failed \in BOOLEAN /\ trouble \in {"none", "failed", "dropped"}
  /\ got \in 0 .. MaxRuns
  /\ runs \in 1 .. MaxRuns /\ faults \in 0 .. MaxFaults /\ moves \in 0 .. MaxMoves

(* The run that has just ended: how, and whether every step of it went     *)
(* well.                                                                   *)
Done(s) == pc = "shell" /\ status = s
Smooth == trouble = "none"

(* Status 0 after create means that the archive is there and whole, under  *)
(* the name announced or on stdout, unless an error was dropped.  In       *)
(* particular it cannot be had for an archive written into a pipe.         *)
SuccessMeansWritten ==
  Done("ok") /\ cmd.mode = "c" /\ trouble # "dropped" =>
    LET file == IF cmd.stdout # "no" /\ opt.format # "tar" THEN out ELSE FileAt(opt.arc)
    IN /\ file # None /\ file.by = runs /\ file.state = "whole"
       /\ opt.format = "goxa" => file.encode = opt.encode

(* Every complete archive on the disk with error correction can be decoded *)
(* if its shards fit the widths of the header, and what decodeWithFEC then *)
(* writes into the temporary file is the archive that was encoded, byte    *)
(* for byte, unless a data shard went bad; bad parity shards do no harm.   *)
(* A bad data shard is not repaired (MendsShards).                         *)
Fit(file) ==
  file.data < CountRange /\ file.parity < CountRange /\ PerShard(file.size, file.data) < SizeRange
FecDecodes ==
  \A n \in DOMAIN disk :
    LET f == disk[n] IN
    f.encode = "fec" /\ f.state = "whole" =>
      /\ Fit(f) => Joins(f.size, f.data, f.parity)
      /\ Joins(f.size, f.data, f.parity) /\ DataIntact(f) => Whole(Joined(f)) = f.by

(* What extract should be able to read: a whole archive, if its name says  *)
(* how it is encoded and no option about compression contradicts it.  A    *)
(* goxa archive has to be told from the default one, and its destination   *)
(* must be neither a file nor ".".  A tar archive can only be extracted,   *)
(* and what it holds needs a destination other than "." or absolute paths; *)
(* under ".tar.xz" it must not be gzip, and if it holds nothing its name   *)
(* has to say everything.                                                  *)
Said == detectFormatFromExt(opt.arc)
NamedFormat == IF Said.format = "" THEN cmd.format ELSE Said.format
Readable(file) ==
  /\ file # None /\ file.state = "whole" /\ file.encode = Said.encode
  /\ cmd.valid /\ ~Refused
  /\ file.format = "goxa" =>
       /\ cmd.mode = "x" => Place /\ cmd.dest # "here"
       /\ file.encode = "fec" => Fit(file)
  /\ file.format = "tar" =>
       /\ cmd.mode = "x" /\ cmd.comp = "any" /\ ~Barred(file)
       /\ ~(Said.tarUseXz /\ file.comp = "gzip")
       /\ file.holds = "nothing" => NamedFormat = "tar" /\ file.comp = CompressionOf(Said)

(* What can be read is read, and is the archive that was last written      *)
(* there, whatever the name says of its format: the first bytes decide.    *)
(* The data shards have to be good; parity shards need not be.             *)
IsRead(file) == status = "ok" /\ (cmd.mode = "x" => got = file.by)
ReadsWhatIsThere ==
  cmd.mode \in {"l", "j", "x"} /\ Smooth /\ (Done("ok") \/ Done("fatal")) =>
    LET file == FileAt(opt.arc) IN
    Readable(file) /\ DataIntact(file) => IsRead(file)

(* The promise of README.md, goxa.1 and PURPOSE.md: as many shards as      *)
(* there are parity shards may go bad, and the archive is still read.      *)
MendsShards ==
  cmd.mode \in {"l", "j", "x"} /\ Smooth /\ (Done("ok") \/ Done("fatal")) =>
    LET file == FileAt(opt.arc) IN
    Readable(file) /\ Cardinality(file.bad) <= file.parity => IsRead(file)

(* What is not all there is not taken for an archive: after a crash, or an *)
(* error nobody noticed, the next run says so.  What is read as a tar      *)
(* archive without compression has nothing by which to tell.               *)
PartIsNoticed ==
  cmd.mode \in {"l", "j", "x"} /\ Done("ok") =>
    LET file == FileAt(opt.arc) IN
    /\ file # None
    /\ file.state = "part" => opt.format = "tar" /\ opt.noComp

(* An archive is only ever changed by create, and one that was made by     *)
(* another run only with -f; the encodings and tar do not ask.             *)
KeepsArchives ==
  [][pc # "shell" => \A n \in DOMAIN disk :
       /\ n \in DOMAIN disk'
       /\ \/ disk'[n] = disk[n]
          \/ /\ cmd.mode = "c" /\ n = opt.arc
             /\ \/ disk[n].by = runs
                \/ cmd.force \/ opt.encode # "" \/ opt.format = "tar"]_vars

(* A run that ends with status 0 leaves no temporary file, unless an error *)
(* was dropped in it: a failed walk leaves the one it had begun.  What ends *)
(* in log.Fatal or is killed may leave one too.                            *)
NoTempLeft == Done("ok") /\ trouble # "dropped" => temp = None

(* No two goroutines draw the progress line.  decodeIfNeeded leaves one on *)
(* in front of decodeWithFEC, which starts another.                        *)
OneDrawer ==
  opt.encode # "fec" =>
    \A j, k \in DOMAIN tickers : tickers[j] # "ended" /\ tickers[k] # "ended" => j = k

(* Every run comes to an end: whoever waits for a goroutine has told it.   *)
Terminates == pc # "shell" ~> pc = "shell"
=============================================================================
