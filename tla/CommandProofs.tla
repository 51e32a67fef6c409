--------------------------- MODULE CommandProofs ---------------------------
(***************************************************************************)
(* What Command keeps to in any number of runs on any archives, with any   *)
(* command lines, crashes, failing steps and renamings: the types; that    *)
(* status 0 means what it says, for an archive that was made and for one   *)
(* that was read; that no archive is changed that should not be; that no   *)
(* temporary file is left and no two goroutines draw.                      *)
(***************************************************************************)
EXTENDS Command, SequenceTheorems, TLAPS

-----------------------------------------------------------------------------
(* What the archive with forward error correction holds, for any size of   *)
(* the archive and any numbers of shards, whatever the widths of its       *)
(* header: if the shards fit them the decoder can join it, and what it     *)
(* joins is the archive that was encoded.                                  *)

LEMMA Quotient ==
  ASSUME NEW a \in Nat, NEW d \in Nat \ {0}
  PROVE  a \div d \in Nat /\ (a \div d) * d <= a /\ a < (a \div d) * d + d
BY SMT

LEMMA Remainder ==
  ASSUME NEW a \in Nat, NEW d \in Nat \ {0}
  PROVE  a % d \in Nat /\ a % d <= a /\ (a < d => a % d = a)
BY SMT

LEMMA Product ==
  ASSUME NEW a \in Nat, NEW b \in Nat, NEW c \in Nat, a <= b
  PROVE  a * c \in Nat /\ a * c <= b * c /\ c * a <= c * b /\ a * c = c * a
BY SMT

(* Split: the shards hold the archive, and shorter ones would not.         *)
LEMMA ShardLength ==
  ASSUME NEW size \in Nat, NEW data \in Nat \ {0}
  PROVE  /\ PerShard(size, data) \in Nat
         /\ size <= PerShard(size, data) * data
         /\ \A p \in Nat : size <= p * data => PerShard(size, data) <= p
<1> DEFINE q == PerShard(size, data)
<1>1. q \in Nat /\ q * data <= size + data - 1 /\ size + data - 1 < q * data + data
  <2>1. size + data - 1 \in Nat
    OBVIOUS
  <2> QED
    BY <2>1, Quotient DEF PerShard
<1> HIDE DEF q
<1>2. q * data \in Nat
  BY <1>1, Product
<1>3. size <= q * data
  BY <1>1, <1>2
<1>4. ASSUME NEW p \in Nat, size <= p * data PROVE q <= p
  <2> SUFFICES ASSUME p + 1 <= q PROVE FALSE
    BY <1>1
  <2>1. (p + 1) * data <= q * data
    BY <1>1, Product
  <2>2. (p + 1) * data = p * data + data /\ p * data \in Nat
    BY SMT
  <2> QED
    BY <1>1, <1>2, <1>4, <2>1, <2>2
<1> QED
  BY <1>1, <1>3, <1>4 DEF q

(* encodeWithFEC and decodeWithFEC agree as long as nothing is cut off in  *)
(* the header: every archive whose shards fit it can be joined.            *)
THEOREM FittingJoins ==
  ASSUME NEW size \in Nat, NEW data \in Nat, NEW parity \in Nat,
         NewStream(data, parity),
         data < CountRange, parity < CountRange, PerShard(size, data) < SizeRange
  PROVE  Joins(size, data, parity)
<1>1. data \in Nat \ {0}
  BY DEF NewStream
<1>2. PerShard(size, data) \in Nat /\ size <= PerShard(size, data) * data
  BY <1>1, ShardLength
<1>3. /\ data % CountRange = data /\ parity % CountRange = parity
      /\ PerShard(size, data) % SizeRange = PerShard(size, data)
  BY <1>2, Remainder, RangesAssumption
<1>4. data * PerShard(size, data) >= size
  BY <1>1, <1>2, Product
<1> QED
  BY <1>3, <1>4 DEF Joins, Header

(* decodeWithFEC never joins a file to something else than what was        *)
(* encoded: when the length of a shard was cut off in the header, the      *)
(* shards it finds are too short for the size of the archive.              *)
THEOREM JoinedIsArchive ==
  ASSUME NEW size \in Nat, NEW data \in Nat \ {0}, NEW parity \in Nat,
         Joins(size, data, parity)
  PROVE  Decodes(size, data, parity)
<1> DEFINE q == PerShard(size, data)
           apart == q % SizeRange
<1>1. /\ q \in Nat
      /\ \A p \in Nat : size <= p * data => q <= p
  BY ShardLength
<1>2. Header(size, data, parity).shardSize = apart
  BY DEF Header
<1> HIDE DEF q
<1>3. apart \in Nat /\ apart <= q
  BY <1>1, Remainder, RangesAssumption
<1>4. apart = q
  <2>1. (data % CountRange) * apart >= size
    BY DEF Joins, Header, q
  <2>2. data % CountRange \in Nat /\ data % CountRange <= data
    BY Remainder, RangesAssumption
  <2> HIDE DEF apart
  <2>3. (data % CountRange) * apart <= data * apart /\ data * apart = apart * data
        /\ apart * data \in Nat /\ (data % CountRange) * apart \in Nat
    BY <1>3, <2>2, Product
  <2>4. size <= apart * data
    BY <2>1, <2>3
  <2> QED
    BY <1>1, <1>3, <2>4
<1>5. ASSUME NEW k \in 0 .. size - 1 PROVE ByteAt(size, data, parity, k) = k
  <2> DEFINE shard == IF k \div apart < data THEN k \div apart ELSE data - 1
  <2>1. ByteAt(size, data, parity, k) = shard * q + (k - shard * apart)
    BY <1>2 DEF ByteAt, q
  <2>2. q # 0
    <3>1. size <= q * data
      BY ShardLength DEF q
    <3>2. size >= 1 /\ 0 * data = 0
      OBVIOUS
    <3> QED
      BY <3>1, <3>2
  <2>3. shard \in Nat
    BY <1>1, <1>4, <2>2, Quotient
  <2> HIDE DEF shard, apart
  <2>4. shard * q \in Nat
    BY <1>1, <2>3, Product
  <2> QED
    BY <1>4, <2>1, <2>4
<1> QED
  BY <1>5 DEF Decodes

-----------------------------------------------------------------------------
(* The inductive invariant.                                                *)

(* Where the program is, or goes on once a goroutine has ended.            *)
At == IF pc = "wait" THEN after ELSE pc

Asking == {"l", "j", "x"}
InHand == {"header", "decode", "fec", "copy", "join", "open", "restore", "untar"}
Packing == {"output", "walk", "entries", "close", "encode", "encoding", "shards", "split"}
Taring == {"tar", "tar walk"}
Texts == {"encode", "encoding"}
Stages == {"shell", "main", "configure", "run", "return", "fatal"} \cup InHand \cup Packing \cup Taring
Drawn == {"copy", "join", "entries", "encoding", "split", "restore"}

(* The way the program takes follows from its mode and from what it read   *)
(* out of the name and the first bytes.                                    *)
Course ==
  /\ At \in Stages
  /\ pc = "wait" => after \in {"header", "open", "close", "return", "fatal"}
  /\ pc \in {"decode", "fec", "copy", "join"} => after \in {"header", "open"}
  /\ At \in InHand => cmd.mode \in Asking
  /\ At \in {"configure", "run"} => cmd.mode \in Asking \cup {"c"}
  /\ At \in Packing \cup Taring => cmd.mode = "c"
  /\ At \in Packing => opt.format = "goxa"
  /\ At \in Taring \cup {"untar"} => opt.format = "tar"
  /\ At \in Texts => opt.encode \in Encodings
  /\ At \in {"shards", "split"} => opt.encode = "fec"
  /\ pc = "split" => cmd.stdout = "no"
  /\ pc = "copy" => Exists(opt.arc)
  /\ pc = "join" => Exists(opt.arc) /\ disk[opt.arc].state = "whole"
  /\ pc = "restore" => Archive # None

(* The goroutines that draw: there is one where the program may tell it to *)
(* stop, and it is only started when the one before it has ended.          *)
Drawing ==
  /\ tickers \in Seq({"runs", "told", "ended"})
  /\ pc = "main" => tickers = << >>
  /\ pc \in Drawn \cup {"wait"} => tickers # << >>
  /\ opt.encode # "fec" =>
       /\ \A k \in 1 .. Len(tickers) - 1 : tickers[k] = "ended"
       /\ pc \notin Drawn \cup {"wait", "fatal"} =>
            \A k \in 1 .. Len(tickers) : tickers[k] = "ended"

(* A complete archive with error correction was accepted by the encoder.   *)
FecSound ==
  \A n \in DOMAIN disk :
    disk[n].encode = "fec" /\ disk[n].state = "whole" =>
      NewStream(disk[n].data, disk[n].parity)

(* The archive create is writing is its own.                               *)
Own ==
  At \in {"walk", "entries", "close"} /\ Output = "archive" =>
    Exists(opt.arc) /\ disk[opt.arc].by = runs

(* What create has made when it is about to return, and when it has.       *)
Made ==
  LET file == IF cmd.stdout # "no" /\ opt.format # "tar" THEN out ELSE FileAt(opt.arc)
  IN /\ file # None /\ file.by = runs /\ file.state = "whole"
     /\ opt.format = "goxa" => file.encode = opt.encode
Delivered ==
  (At = "return" \/ Done("ok")) /\ cmd.mode = "c" /\ trouble # "dropped" => Made

(* What a run that reads has found when it is about to return, and when it *)
(* has; on the way there, what it has decoded.                             *)
Complete ==
  Exists(opt.arc) /\ (disk[opt.arc].state = "part" => opt.format = "tar" /\ opt.noComp)
Noticing ==
  /\ (At \in {"return", "restore"} \/ Done("ok")) /\ cmd.mode \in Asking => Complete
  /\ At = "open" /\ opt.encode # "" /\ ~failed =>
       /\ Exists(opt.arc) /\ temp # None
       /\ temp.state \in {"whole", "damaged"} => disk[opt.arc].state # "part"

IInv ==
  TypeOK /\ Course /\ Drawing /\ FecSound /\ Own /\ Delivered /\ Noticing /\ NoTempLeft

-----------------------------------------------------------------------------
(* The type invariant in parts.                                            *)
FilesOK ==
  /\ DOMAIN disk \subseteq Seq(Part)
  /\ \A n \in DOMAIN disk : disk[n] \in FileType
  /\ temp \in FileType \cup {None} /\ out \in FileType \cup {None}
OptType == [arc : Seq(Part), format : {"goxa", "tar"}, encode : {"", "fec"} \cup Encodings,
            noComp : BOOLEAN, tarUseXz : BOOLEAN]
ChoicesOK == cmd \in Commands[runs] /\ opt \in OptType /\ runs \in 1 .. MaxRuns
MarksOK ==
  /\ status \in {"running", "ok", "fatal", "killed", "past"}
  /\ (pc = "shell") = (status # "running")
  /\ failed \in BOOLEAN /\ trouble \in {"none", "failed", "dropped"}
  /\ got \in 0 .. MaxRuns
  /\ faults \in 0 .. MaxFaults /\ moves \in 0 .. MaxMoves

LEMMA TypeParts ==
  TypeOK <=> /\ FilesOK /\ ChoicesOK /\ MarksOK
             /\ tickers \in Seq({"runs", "told", "ended"})
BY DEF TypeOK, FilesOK, ChoicesOK, OptType, MarksOK

LEMMA Bounds == MaxRuns \in Nat \ {0} /\ MaxFaults \in Nat /\ MaxMoves \in Nat
BY BoundsAssumption

LEMMA CommandKnown == ASSUME TypeOK PROVE cmd \in CommandType
BY Bounds, CommandsAssumption DEF TypeOK

(* What is read out of a name, and what is made of it.                     *)
LEMMA DetectedType ==
  ASSUME NEW name \in Seq(Part)
  PROVE  /\ detectFormatFromExt(name).format \in {"", "goxa", "tar"}
         /\ detectFormatFromExt(name).noComp \in BOOLEAN
         /\ detectFormatFromExt(name).tarUseXz \in BOOLEAN
         /\ detectFormatFromExt(name).encode \in {"", "fec"} \cup Encodings
<1>1. detectEncodingFromExt(name).encode \in {""} \cup Encodings
  <2>1. CASE \E e \in Encodings : HasSuffix(name, <<e>>)
    <3>1. PICK e \in Encodings : HasSuffix(name, <<e>>)
      BY <2>1
    <3>2. Len(name) \in Nat /\ Len(<<e>>) = 1 /\ Len(name) > 1
      BY <3>1 DEF HasSuffix
    <3>3. SubSeq(name, Len(name), Len(name)) = <<e>>
      BY <3>1, <3>2 DEF HasSuffix
    <3>4. SubSeq(name, Len(name), Len(name))[1] = name[Len(name)]
      BY <3>2
    <3>5. name[Len(name)] = e
      BY <3>3, <3>4
    <3> QED
      BY <2>1, <3>5 DEF detectEncodingFromExt
  <2>2. CASE ~\E e \in Encodings : HasSuffix(name, <<e>>)
    BY <2>2 DEF detectEncodingFromExt
  <2> QED
    BY <2>1, <2>2
<1> QED
  BY <1>1 DEF detectFormatFromExt, FormatOf

LEMMA EnsuredType ==
  ASSUME NEW name \in Seq(Part), NEW format, NEW noComp, NEW tarUseXz
  PROVE  ensureArchiveExtension(name, format, noComp, tarUseXz) \in Seq(Part)
<1>1. "goxa" \in Part /\ "tar" \in Part /\ "xz" \in Part /\ "gz" \in Part
  BY DEF Part
<1>2. ASSUME NEW a \in Part, NEW b \in Part
      PROVE  <<a>> \in Seq(Part) /\ <<a, b>> \in Seq(Part)
  OBVIOUS
<1> DEFINE ext == IF format # "tar" THEN <<"goxa">>
                  ELSE IF noComp THEN <<"tar">>
                  ELSE IF tarUseXz THEN <<"tar", "xz">> ELSE <<"tar", "gz">>
<1>3. ext \in Seq(Part)
  BY <1>1, <1>2
<1>4. \/ ensureArchiveExtension(name, format, noComp, tarUseXz) = name
      \/ ensureArchiveExtension(name, format, noComp, tarUseXz) = name \o ext
  BY DEF ensureArchiveExtension
<1> HIDE DEF ext
<1> QED
  BY <1>3, <1>4, ConcatProperties

(* The files the program makes.                                            *)
LEMMA ShardsType ==
  ASSUME TypeOK PROVE Shards[1] \in Nat /\ Shards[2] \in Nat
<1>1. cmd.data \in Nat /\ cmd.parity \in Nat /\ cmd.level \in {""} \cup DOMAIN Presets
  BY CommandKnown DEF CommandType
<1>2. CASE cmd.level = ""
  BY <1>1, <1>2 DEF Shards
<1>3. CASE cmd.level # ""
  <2>1. cmd.level \in {"low", "medium", "high"}
    BY <1>1, <1>3 DEF Presets
  <2>2. Shards = Presets[cmd.level]
    BY <1>3 DEF Shards
  <2> QED
    BY <2>1, <2>2 DEF Presets
<1> QED
  BY <1>2, <1>3

LEMMA WrittenType ==
  ASSUME TypeOK, NEW state \in States
  PROVE  /\ Written(state) \in FileType
         /\ Encoded(state) \in FileType
         /\ \A holds \in Holdings : Tarred(state, holds) \in FileType
<1>1. cmd.size \in Nat
  BY CommandKnown DEF CommandType
<1>2. runs \in 1 .. MaxRuns /\ opt \in OptType
  BY DEF TypeOK, OptType
<1>3. Written(state) \in FileType
  <2>1. Compression \in Compressions
    BY DEF Compression, CompressionOf, Compressions
  <2> HIDE DEF Compression
  <2> QED
    BY <1>1, <1>2, <2>1 DEF Written, FileType, Compressions, OptType, Holdings
<1>4. Encoded(state) = [Written(state) EXCEPT !.encode = opt.encode,
        !.data = IF opt.encode = "fec" THEN Shards[1] ELSE 0,
        !.parity = IF opt.encode = "fec" THEN Shards[2] ELSE 0]
  BY DEF Encoded
<1>5. /\ (IF opt.encode = "fec" THEN Shards[1] ELSE 0) \in Nat
      /\ (IF opt.encode = "fec" THEN Shards[2] ELSE 0) \in Nat
      /\ opt.encode \in {"", "fec"} \cup Encodings
  BY <1>2, ShardsType DEF OptType
<1>6. Encoded(state) \in FileType
  BY <1>3, <1>4, <1>5 DEF FileType
<1>7. \A holds \in Holdings : Tarred(state, holds) \in FileType
  BY <1>3 DEF FileType, Tarred
<1> QED
  BY <1>3, <1>6, <1>7

LEMMA PutType ==
  ASSUME TypeOK, NEW where, NEW file \in FileType, Put(where, file)
  PROVE  FilesOK'
<1>1. opt.arc \in Seq(Part)
  BY DEF TypeOK
<1>2. FilesOK
  BY TypeParts
<1>3. temp' \in FileType \cup {None} /\ out' \in FileType \cup {None}
  BY <1>2 DEF Put, FilesOK
<1>4. CASE where = "archive"
  <2>1. disk' = [n \in DOMAIN disk \cup {opt.arc} |-> IF n = opt.arc THEN file ELSE disk[n]]
    BY <1>4 DEF Put, Stored
  <2> QED
    BY <1>1, <1>2, <1>3, <2>1 DEF FilesOK
<1>5. CASE where # "archive"
  BY <1>2, <1>3, <1>5 DEF Put, FilesOK
<1> QED
  BY <1>4, <1>5

(* What a file is decoded to, and what extract finds.                      *)
LEMMA DecodedType ==
  ASSUME NEW file \in FileType
  PROVE  [file EXCEPT !.encode = ""] \in FileType /\ Joined(file) \in FileType
BY DEF FileType, Joined, States

LEMMA ArchiveType ==
  ASSUME TypeOK
  PROVE  /\ \A n : FileAt(n) \in FileType \cup {None}
         /\ Archive \in FileType \cup {None}
BY DEF TypeOK, FileAt, Exists, Archive

LEMMA WholeType ==
  ASSUME NEW file \in FileType PROVE Whole(file) \in 0 .. MaxRuns
<1>1. file.by \in 1 .. MaxRuns
  BY DEF FileType
<1> QED
  BY <1>1, Bounds DEF Whole

-----------------------------------------------------------------------------
(* Every step keeps the files what they are.                               *)

(* The steps that write a file, and the one that forgets the temporary     *)
(* file and stdout of the run before.                                      *)
LEMMA FilesStep ==
  ASSUME TypeOK, Course, FecSound, [Next]_vars
  PROVE  FilesOK'
<1>0. FilesOK
  BY TypeParts
<1>1. CASE UNCHANGED files
  BY <1>0, <1>1 DEF FilesOK, files
<1>2. ASSUME UNCHANGED <<disk, out>>, temp' \in FileType \cup {None}
      PROVE  FilesOK'
  BY <1>0, <1>2 DEF FilesOK
<1>3. CASE Waited \/ Return \/ DetectByHeader \/ DecodingFails
  <2>1. UNCHANGED <<disk, out>> /\ temp' \in {temp, None}
    BY <1>3 DEF Waited, Return, DetectByHeader, DecodingFails, files
  <2> QED
    BY <1>0, <1>2, <2>1 DEF FilesOK
<1>4. CASE DecodeText \/ FecOpens
  <2>1. UNCHANGED <<disk, out>> /\ temp' = Written("part")
    BY <1>4 DEF DecodeText, FecOpens
  <2>2. Written("part") \in FileType
    BY WrittenType DEF States
  <2> QED
    BY <1>2, <2>1, <2>2
<1>5. CASE Copy \/ Join
  <2>1. disk[opt.arc] \in FileType
    BY <1>0, <1>5 DEF FilesOK, Course, Exists, Copy, Join
  <2>2. UNCHANGED <<disk, out>>
    BY <1>5 DEF Copy, Join
  <2>3. temp' \in {[disk[opt.arc] EXCEPT !.encode = ""], Joined(disk[opt.arc]), temp, None}
    BY <1>5 DEF Copy, Join
  <2> QED
    BY <1>0, <1>2, <2>1, <2>2, <2>3, DecodedType DEF FilesOK
<1>6. ASSUME NEW state \in States, NEW where,
             \/ Put(where, Written(state)) \/ Put(where, Encoded(state))
             \/ \E holds \in Holdings : Put(where, Tarred(state, holds))
      PROVE  FilesOK'
  BY <1>6, WrittenType, PutType
<1>7. CASE OpenOutput \/ Close
  <2>1. UNCHANGED files \/ Put(Output, Written("part")) \/ Put(Output, Written("whole"))
    BY <1>7 DEF OpenOutput, Close
  <2> QED
    BY <1>1, <1>6, <2>1 DEF States
<1>8. CASE EncodeText \/ EncodeTextEnds
  <2>1. Put(Target, Encoded("part")) \/ Put(Target, Encoded("whole"))
    BY <1>8 DEF EncodeText, EncodeTextEnds
  <2> QED
    BY <1>6, <2>1 DEF States
<1>9. CASE EncodeFec \/ EncodeFecEnds
  <2>1. UNCHANGED files \/ Put("archive", Encoded("part")) \/ Put("archive", Encoded("whole"))
    BY <1>9 DEF EncodeFec, EncodeFecEnds
  <2> QED
    BY <1>1, <1>6, <2>1 DEF States
<1>10. CASE CreateTar \/ CreateTarEnds
  <2>1. \/ Put("archive", Written("part"))
        \/ \E holds \in Holdings : Put("archive", Tarred("whole", holds))
    BY <1>10 DEF CreateTar, CreateTarEnds
  <2> QED
    BY <1>6, <2>1 DEF States
<1>11. CASE CreateTarFails
  <2>1. PICK state \in {"part", "short"} :
          \E holds \in Holdings : Put("archive", Tarred(state, holds))
    BY <1>11 DEF CreateTarFails
  <2> QED
    BY <1>6, <2>1 DEF States
<1>12. ASSUME NEW c, Start(c) PROVE FilesOK'
  BY <1>0, <1>12 DEF Start, FilesOK
<1>13. ASSUME NEW from \in DOMAIN disk, NEW to \in Names, Rename(from, to)
       PROVE  FilesOK'
  <2>1. /\ disk' = [n \in (DOMAIN disk \ {from}) \cup {to} |-> IF n = to THEN disk[from] ELSE disk[n]]
        /\ UNCHANGED <<temp, out>>
    BY <1>13 DEF Rename, Move
  <2> QED
    BY <1>0, <2>1, NamesAssumption DEF FilesOK
<1>14. ASSUME NEW name \in DOMAIN disk, GoBad(name)
       PROVE  FilesOK'
  <2>1. PICK shard \in {0, disk[name].data + disk[name].parity - 1} :
           Move([disk EXCEPT ![name].bad = @ \cup {shard}])
    BY <1>14 DEF GoBad
  <2>2. disk[name] \in FileType /\ disk[name].encode = "fec" /\ disk[name].state = "whole"
    BY <1>0, <1>14 DEF FilesOK, GoBad
  <2>3. NewStream(disk[name].data, disk[name].parity)
    BY <2>2 DEF FecSound
  <2>4. shard \in Nat
    <3>1. disk[name].data \in Nat /\ disk[name].parity \in Nat
      BY <2>2 DEF FileType
    <3> QED
      BY <2>3, <3>1 DEF NewStream
  <2>5. [disk[name] EXCEPT !.bad = @ \cup {shard}] \in FileType
    BY <2>2, <2>4 DEF FileType
  <2>6. /\ disk' = [disk EXCEPT ![name] = [disk[name] EXCEPT !.bad = @ \cup {shard}]]
        /\ UNCHANGED <<temp, out>>
    BY <2>1 DEF Move
  <2>7. DOMAIN disk' = DOMAIN disk
        /\ \A n \in DOMAIN disk : disk'[n] = IF n = name THEN [disk[name] EXCEPT !.bad = @ \cup {shard}]
                                             ELSE disk[n]
    BY <2>6
  <2> QED
    BY <1>0, <2>5, <2>6, <2>7 DEF FilesOK
<1>15. CASE Inform \/ DetectByName \/ Configure \/ Run \/ Die
         \/ DecodeMissing \/ DecodeFec \/ FecRefuses \/ Extract \/ Walk \/ Entries
         \/ TickerEnds \/ WalkFails \/ Aborts \/ EncodingFails \/ EncodingEndLost
         \/ CreateTarEndLost \/ Crash \/ Ended \/ UNCHANGED vars
  <2>1. UNCHANGED files
    BY <1>15 DEF Inform, DetectByName, Configure, Run, Die, DecodeMissing, DecodeFec,
       FecRefuses, Extract, Open, Restore, Untar, Walk, Entries, TickerEnds, WalkFails,
       Aborts, EncodingFails, EncodingEndLost, CreateTarEndLost, Crash, Ended, vars
  <2> QED
    BY <1>1, <2>1
<1> QED
  BY <1>3, <1>4, <1>5, <1>7, <1>8, <1>9, <1>10, <1>11, <1>12, <1>13, <1>14, <1>15
  DEF Next, Program, Main, Decode, Create, Troubles, User

-----------------------------------------------------------------------------
(* The command line and the package variables.                             *)
LEMMA ChoicesStep ==
  ASSUME TypeOK, [Next]_vars
  PROVE  ChoicesOK'
<1>0. ChoicesOK /\ opt \in OptType /\ cmd \in CommandType
  BY TypeParts, CommandKnown DEF ChoicesOK
<1>1. CASE UNCHANGED <<cmd, opt, runs>>
  BY <1>0, <1>1 DEF ChoicesOK
<1>2. ASSUME NEW c \in Commands[runs + 1], runs < MaxRuns, Start(c)
      PROVE  ChoicesOK'
  <2>1. runs + 1 \in 1 .. MaxRuns
    BY <1>0, <1>2, Bounds DEF ChoicesOK
  <2>2. c \in CommandType
    BY <1>2, <2>1, CommandsAssumption
  <2>3. c.arc \in Seq(Part) /\ c.format \in {"goxa", "tar"}
    BY <2>2, NamesAssumption DEF CommandType
  <2> QED
    BY <1>2, <2>1, <2>3 DEF Start, ChoicesOK, OptType
<1>3. CASE DetectByName
  <2> DEFINE found == Detected[cmd.arc]
  <2>1. /\ opt' = [opt EXCEPT !.format = IF found.format = "" THEN @ ELSE found.format,
                              !.noComp = found.noComp,
                              !.tarUseXz = found.tarUseXz,
                              !.encode = found.encode]
        /\ UNCHANGED <<cmd, runs>>
    BY <1>3 DEF DetectByName, bounds
  <2>2. cmd.arc \in Names
    BY <1>0 DEF CommandType
  <2>3. found = detectFormatFromExt(cmd.arc) /\ cmd.arc \in Seq(Part)
    BY <2>2, NamesAssumption DEF Detected
  <2> HIDE DEF found
  <2>4. /\ found.format \in {"", "goxa", "tar"} /\ found.noComp \in BOOLEAN
        /\ found.tarUseXz \in BOOLEAN /\ found.encode \in {"", "fec"} \cup Encodings
    BY <2>3, DetectedType
  <2> QED
    BY <1>0, <2>1, <2>4 DEF ChoicesOK, OptType
<1>4. CASE DetectByHeader
  <2>1. PICK file \in Seen(IF opt.encode = "" THEN FileAt(opt.arc) ELSE temp) :
          opt' = IF file = None THEN opt
                 ELSE [opt EXCEPT !.format = file.format,
                         !.noComp = IF file.format = "tar" THEN file.comp = "none" ELSE @,
                         !.tarUseXz = @ \/ file.comp = "xz"]
    BY <1>4 DEF DetectByHeader
  <2>2. file \in FileType \cup {None}
    BY ArchiveType DEF Seen, TypeOK
  <2>3. UNCHANGED <<cmd, runs>>
    BY <1>4 DEF DetectByHeader, bounds
  <2>4. CASE file = None
    BY <1>1, <2>1, <2>3, <2>4
  <2>5. CASE file # None
    <3>1. file.format \in {"goxa", "tar"}
      BY <2>2, <2>5 DEF FileType
    <3> QED
      BY <1>0, <2>1, <2>3, <2>5, <3>1 DEF ChoicesOK, OptType
  <2> QED
    BY <2>4, <2>5
<1>5. CASE Configure
  <2> DEFINE noComp == opt.noComp \/ cmd.comp = "none"
             tarUseXz == opt.tarUseXz \/ (cmd.comp = "xz" /\ opt.format = "tar")
             arc == IF cmd.mode = "c"
                    THEN ensureArchiveExtension(opt.arc, opt.format, noComp, tarUseXz)
                    ELSE opt.arc
  <2>1. /\ opt' = [opt EXCEPT !.noComp = noComp, !.tarUseXz = tarUseXz, !.arc = arc]
        /\ UNCHANGED <<cmd, runs>>
    BY <1>5 DEF Configure, bounds
  <2>2. noComp \in BOOLEAN /\ tarUseXz \in BOOLEAN
    OBVIOUS
  <2>3. arc \in Seq(Part)
    BY <1>0, EnsuredType DEF OptType
  <2> HIDE DEF noComp, tarUseXz, arc
  <2> QED
    BY <1>0, <2>1, <2>2, <2>3 DEF ChoicesOK, OptType
<1>6. CASE UNCHANGED vars \/ Ended \/ TickerEnds \/ Inform \/ Run \/ Waited \/ Return \/ Die
        \/ Decode \/ Extract \/ Create \/ Troubles
        \/ (\E from \in DOMAIN disk, to \in Names : Rename(from, to))
        \/ (\E name \in DOMAIN disk : GoBad(name))
  <2>1. UNCHANGED <<cmd, opt, runs>>
    BY <1>6 DEF vars, Ended, TickerEnds, Inform, Run, Waited, Return, Die, Decode,
       DecodeMissing, DecodeText, Copy, DecodeFec, FecRefuses, FecOpens, Join, Extract, Open,
       Restore, Untar, Create, OpenOutput, Walk, Entries, Close, EncodeText, EncodeTextEnds,
       EncodeFec, EncodeFecEnds, CreateTar, CreateTarEnds, Troubles, WalkFails, Aborts,
       EncodingFails, EncodingEndLost, DecodingFails, CreateTarFails, CreateTarEndLost, Crash,
       Rename, GoBad, Move, bounds
  <2> QED
    BY <1>1, <2>1
<1> QED
  BY <1>2, <1>3, <1>4, <1>5, <1>6 DEF Next, Program, Main, User

-----------------------------------------------------------------------------
(* How the run goes and ended.                                             *)
LEMMA MarksStep ==
  ASSUME TypeOK, Course, [Next]_vars
  PROVE  MarksOK'
<1>0. MarksOK /\ FilesOK
  BY TypeParts
<1>1. CASE UNCHANGED vars \/ Ended \/ TickerEnds
  BY <1>0, <1>1 DEF vars, Ended, TickerEnds, MarksOK, marks, bounds
<1>2. ASSUME UNCHANGED <<status, faults, moves>>, pc # "shell", pc' # "shell",
             failed' \in BOOLEAN, trouble' = trouble, got' \in 0 .. MaxRuns
      PROVE  MarksOK'
  BY <1>0, <1>2 DEF MarksOK
<1>3. CASE Inform \/ DetectByName \/ DetectByHeader \/ Configure \/ Run
  <2>1. pc # "shell" /\ pc' # "shell" /\ UNCHANGED <<status, faults, moves, trouble, got>>
        /\ failed' \in {FALSE, failed}
    BY <1>3 DEF Inform, DetectByName, DetectByHeader, Configure, Run, Goto, marks, bounds
  <2> QED
    BY <1>0, <1>2, <2>1 DEF MarksOK
<1>4. CASE Waited
  <2>1. pc = "wait" /\ pc' = after /\ UNCHANGED <<status, marks, faults, moves>>
    BY <1>4 DEF Waited, Goto, bounds
  <2>2. after # "shell"
    BY <2>1, <1>4 DEF Course, At
  <2> QED
    BY <1>0, <1>2, <2>1, <2>2 DEF MarksOK, marks
<1>5. CASE Return \/ Die
  BY <1>0, <1>5 DEF Return, Die, Exit, MarksOK, marks, bounds
<1>6. CASE Decode
  <2>1. pc # "shell" /\ pc' # "shell" /\ UNCHANGED <<status, faults, moves, trouble, got>>
        /\ failed' \in {FALSE, TRUE, failed}
    BY <1>6 DEF Decode, DecodeMissing, DecodeText, Copy, DecodeFec, FecRefuses, FecOpens, Join,
       Goto, Launch, Tell, Course, marks, bounds
  <2> QED
    BY <1>0, <1>2, <2>1 DEF MarksOK
<1>7. CASE Extract
  <2>1. pc # "shell" /\ pc' # "shell" /\ UNCHANGED <<status, faults, moves, trouble, failed>>
    BY <1>7 DEF Extract, Open, Restore, Untar, Goto, Launch, Tell, marks, bounds
  <2>2. got' \in 0 .. MaxRuns
    <3>1. CASE got' = got
      BY <1>0, <3>1 DEF MarksOK
    <3>2. CASE Restore /\ got' # got
      <4>1. got' = Whole(Archive) /\ Archive \in FileType
        BY <3>2, ArchiveType DEF Restore, Course
      <4> QED
        BY <4>1, WholeType
    <3>3. CASE Untar /\ got' # got
      <4>1. got' = Whole(FileAt(opt.arc)) /\ FileAt(opt.arc) \in FileType
        BY <3>3, ArchiveType DEF Untar, Unpacks
      <4> QED
        BY <4>1, WholeType
    <3> QED
      BY <1>7, <3>1, <3>2, <3>3 DEF Extract, Open, marks
  <2> QED
    BY <1>0, <1>2, <2>1, <2>2 DEF MarksOK
<1>8. CASE Create
  <2>1. pc # "shell" /\ pc' # "shell" /\ UNCHANGED <<status, faults, moves, marks>>
    BY <1>8 DEF Create, OpenOutput, Walk, Entries, Close, EncodeText, EncodeTextEnds,
       EncodeFec, EncodeFecEnds, CreateTar, CreateTarEnds, Goto, Launch, Tell, bounds
  <2> QED
    BY <1>0, <1>2, <2>1 DEF MarksOK, marks
<1>9. CASE Troubles
  <2>1. /\ faults < MaxFaults /\ faults' = faults + 1 /\ UNCHANGED <<got, moves>>
        /\ trouble' \in {"failed", "dropped"} /\ failed' \in {TRUE, failed}
    BY <1>9 DEF Troubles, WalkFails, Aborts, EncodingFails, EncodingEndLost, DecodingFails,
       CreateTarFails, CreateTarEndLost, Crash, Fails
  <2>2. \/ pc # "shell" /\ pc' # "shell" /\ status' = status
        \/ pc' = "shell" /\ status' \in {"ok", "killed"}
    BY <1>9 DEF Troubles, WalkFails, Aborts, EncodingFails, EncodingEndLost, DecodingFails,
       CreateTarFails, CreateTarEndLost, Crash, Goto, Tell, Exit
  <2>3. faults' \in 0 .. MaxFaults
    BY <1>0, <2>1, Bounds DEF MarksOK
  <2> QED
    BY <1>0, <2>1, <2>2, <2>3 DEF MarksOK
<1>10. CASE User
  <2>1. CASE \E c : Start(c)
    <3>1. /\ pc' = "main" /\ status' = "running" /\ failed' = FALSE /\ trouble' = "none"
          /\ got' = 0 /\ UNCHANGED <<faults, moves>>
      BY <2>1 DEF Start
    <3>2. 0 \in 0 .. MaxRuns
      BY Bounds
    <3>3. (pc' = "shell") = (status' # "running")
      BY <3>1
    <3> QED
      BY <1>0, <3>1, <3>2, <3>3 DEF MarksOK
  <2>2. CASE \E now : Move(now)
    <3>1. moves' \in 0 .. MaxMoves
      BY <1>0, <2>2, Bounds DEF Move, MarksOK
    <3> QED
      BY <1>0, <2>2, <3>1 DEF Move, MarksOK, marks
  <2> QED
    BY <1>10, <2>1, <2>2 DEF User, Rename, GoBad
<1> QED
  BY <1>1, <1>3, <1>4, <1>5, <1>6, <1>7, <1>8, <1>9, <1>10 DEF Next, Program, Main

-----------------------------------------------------------------------------
(* The goroutines that draw.                                               *)
TickerStates == {"runs", "told", "ended"}
Quieted == \A k \in 1 .. Len(tickers) : tickers[k] = "ended"
LastOnly == \A k \in 1 .. Len(tickers) - 1 : tickers[k] = "ended"

LEMMA TickersLaunched ==
  ASSUME tickers \in Seq(TickerStates), tickers' = Launched
  PROVE  /\ tickers' \in Seq(TickerStates) /\ tickers' # << >>
         /\ Quieted => LastOnly'
<1> DEFINE new == IF cmd.progress /\ ~Quiet THEN "runs" ELSE "ended"
<1>1. new \in TickerStates /\ tickers' = Append(tickers, new)
  BY DEF Launched, TickerStates
<1> HIDE DEF new
<1>2. /\ Len(tickers) \in Nat /\ Len(tickers') = Len(tickers) + 1
      /\ tickers' \in Seq(TickerStates)
      /\ \A k \in 1 .. Len(tickers) : tickers'[k] = tickers[k]
  BY <1>1, AppendProperties, LenProperties
<1>3. tickers' # << >>
  BY <1>2, EmptySeq
<1>4. Quieted => LastOnly'
  BY <1>2 DEF Quieted, LastOnly
<1> QED
  BY <1>2, <1>3, <1>4

LEMMA TickersTold ==
  ASSUME tickers \in Seq(TickerStates), tickers # << >>, tickers' = Told
  PROVE  /\ tickers' \in Seq(TickerStates) /\ tickers' # << >>
         /\ LastOnly => LastOnly'
<1>1. /\ Len(tickers) \in 1 .. Len(tickers) /\ Len(tickers) \in Nat
      /\ DOMAIN tickers = 1 .. Len(tickers) /\ tickers[Len(tickers)] \in TickerStates
  BY EmptySeq, LenProperties
<1> DEFINE new == IF tickers[Len(tickers)] = "runs" THEN "told" ELSE tickers[Len(tickers)]
<1>2. tickers' = [tickers EXCEPT ![Len(tickers)] = new]
  BY DEF Told
<1>3. new \in TickerStates
  BY <1>1 DEF TickerStates
<1> HIDE DEF new
<1>4. /\ tickers' \in Seq(TickerStates) /\ Len(tickers') = Len(tickers)
      /\ \A k \in 1 .. Len(tickers) : tickers'[k] = IF k = Len(tickers) THEN new ELSE tickers[k]
  <2> DEFINE n == Len(tickers)
  <2>1. n \in 1 .. Len(tickers) /\ tickers' = [tickers EXCEPT ![n] = new]
    BY <1>1, <1>2
  <2> HIDE DEF n
  <2>2. /\ tickers' \in Seq(TickerStates) /\ Len(tickers') = Len(tickers)
        /\ \A k \in 1 .. Len(tickers) : tickers'[k] = IF k = n THEN new ELSE tickers[k]
    BY <1>3, <2>1, ExceptSeq
  <2> QED
    BY <2>2 DEF n
<1>5. tickers' # << >>
  BY <1>1, <1>4, EmptySeq
<1>6. ASSUME LastOnly, NEW k \in 1 .. Len(tickers') - 1 PROVE tickers'[k] = "ended"
  <2>0. Len(tickers') = Len(tickers) /\ Len(tickers) \in Nat
    BY <1>1, <1>4
  <2>1. k \in 1 .. Len(tickers) - 1 /\ k \in 1 .. Len(tickers) /\ k # Len(tickers)
    BY <2>0
  <2>2. tickers[k] = "ended"
    BY <1>6, <2>1 DEF LastOnly
  <2> QED
    BY <1>4, <2>1, <2>2
<1> QED
  BY <1>4, <1>5, <1>6 DEF LastOnly

LEMMA TickersEnd ==
  ASSUME tickers \in Seq(TickerStates), TickerEnds
  PROVE  /\ tickers' \in Seq(TickerStates) /\ tickers # << >> /\ tickers' # << >>
         /\ LastOnly => LastOnly'
         /\ ~Quieted
<1>1. PICK j \in DOMAIN tickers : tickers[j] = "told" /\ tickers' = [tickers EXCEPT ![j] = "ended"]
  BY DEF TickerEnds
<1>2. j \in 1 .. Len(tickers) /\ Len(tickers) \in Nat
  BY <1>1, LenProperties
<1>3. /\ tickers' \in Seq(TickerStates) /\ Len(tickers') = Len(tickers)
      /\ \A k \in 1 .. Len(tickers) : tickers'[k] = IF k = j THEN "ended" ELSE tickers[k]
  BY <1>1, <1>2, ExceptSeq DEF TickerStates
<1>4. tickers # << >> /\ tickers' # << >>
  BY <1>2, <1>3, EmptySeq
<1>5. ~Quieted
  BY <1>1, <1>2 DEF Quieted
<1> QED
  BY <1>2, <1>3, <1>4, <1>5 DEF LastOnly

LEMMA DrawingStep ==
  ASSUME TypeOK, Course, Drawing, [Next]_vars
  PROVE  tickers' \in Seq(TickerStates) /\ Drawing'
<1>0. tickers \in Seq(TickerStates) /\ << >> \in Seq(TickerStates) /\ Len(<< >>) = 0
  BY EmptySeq DEF Drawing, TickerStates
<1>1. CASE UNCHANGED vars \/ Ended
  BY <1>0, <1>1 DEF vars, Ended, Drawing
<1>2. CASE tickers' = << >> /\ pc' \in {"main", "shell"}
  BY <1>0, <1>2 DEF Drawing, Drawn, TickerStates
<1>3. CASE TickerEnds
  BY <1>0, <1>3, TickersEnd DEF TickerEnds, Drawing, TickerStates, LastOnly, Quieted
(* The program goes on, and nobody draws before or after.                  *)
<1>4. ASSUME UNCHANGED tickers, pc \notin Drawn \cup {"wait", "fatal"},
             pc' \notin Drawn \cup {"wait", "main"},
             opt'.encode # "fec" => opt.encode # "fec" \/ tickers = << >>
      PROVE  tickers' \in Seq(TickerStates) /\ Drawing'
  BY <1>0, <1>4 DEF Drawing, TickerStates
(* It starts one to draw.                                                  *)
<1>5. ASSUME tickers' = Launched, UNCHANGED opt, pc \notin Drawn \cup {"wait", "fatal"},
             pc' \in Drawn \/ (opt.encode = "fec" /\ pc' # "main")
      PROVE  tickers' \in Seq(TickerStates) /\ Drawing'
  <2>1. /\ tickers' \in Seq(TickerStates) /\ tickers' # << >>
        /\ Quieted => LastOnly'
    BY <1>0, <1>5, TickersLaunched
  <2> QED
    BY <1>5, <2>1 DEF Drawing, Drawn, Quieted, LastOnly, TickerStates
(* It tells it to stop.                                                    *)
<1>6. ASSUME tickers' = Told, UNCHANGED opt, pc \in Drawn, pc' = "wait"
      PROVE  tickers' \in Seq(TickerStates) /\ Drawing'
  <2>1. tickers # << >>
    BY <1>6 DEF Drawing
  <2>2. /\ tickers' \in Seq(TickerStates) /\ tickers' # << >>
        /\ LastOnly => LastOnly'
    BY <1>0, <1>6, <2>1, TickersTold
  <2> QED
    BY <1>6, <2>2 DEF Drawing, Drawn, LastOnly, TickerStates
(* It ends with one still drawing.                                         *)
<1>7. ASSUME UNCHANGED <<tickers, opt>>, pc' = "fatal"
      PROVE  tickers' \in Seq(TickerStates) /\ Drawing'
  BY <1>0, <1>7 DEF Drawing, Drawn, TickerStates
<1>8. CASE DetectByName
  <2>1. /\ pc = "main" /\ pc' \in {"configure", "header", "decode"} /\ UNCHANGED tickers
    BY <1>8 DEF DetectByName
  <2> QED
    BY <1>4, <2>1 DEF Drawing, Drawn
<1>9. CASE Inform \/ DetectByHeader \/ Configure \/ Run \/ DecodeMissing \/ FecRefuses \/ Untar
  <2>1. /\ UNCHANGED tickers /\ opt'.encode = opt.encode
        /\ pc \in {"main", "header", "configure", "run", "decode", "fec", "untar"}
        /\ pc' \notin Drawn \cup {"wait", "main"}
    <3>1. CASE DetectByHeader
      <4>1. opt'.encode = opt.encode
        <5>1. opt \in OptType
          BY TypeParts DEF ChoicesOK
        <5> QED
          BY <3>1, <5>1 DEF DetectByHeader, OptType
      <4> QED
        BY <3>1, <4>1 DEF DetectByHeader, Goto, Drawn
    <3>2. CASE Configure
      <4>1. opt'.encode = opt.encode
        <5>1. opt \in OptType
          BY TypeParts DEF ChoicesOK
        <5> QED
          BY <3>2, <5>1 DEF Configure, OptType
      <4> QED
        BY <3>2, <4>1 DEF Configure, Goto, Drawn
    <3> QED
      BY <1>9, <3>1, <3>2 DEF Inform, Run, DecodeMissing, FecRefuses, Untar, Goto, Drawn, Course
  <2> QED
    BY <1>4, <2>1 DEF Drawn
<1>10. CASE Waited
  <2>1. pc = "wait" /\ pc' = after /\ UNCHANGED <<tickers, opt>> /\ tickers[Len(tickers)] = "ended"
    BY <1>10 DEF Waited, Goto
  <2>2. pc' \notin Drawn \cup {"wait", "main"}
    BY <2>1 DEF Course, Drawn
  <2>3. Len(tickers) \in Nat \ {0}
    BY <1>0, <2>1, EmptySeq DEF Drawing
  <2>4. LastOnly => Quieted
    BY <2>1, <2>3 DEF LastOnly, Quieted
  <2> QED
    BY <1>0, <2>1, <2>2, <2>4 DEF Drawing, LastOnly, Quieted, TickerStates
<1>11. CASE Return \/ Die \/ WalkFails \/ Crash \/ \E c : Start(c)
  <2>1. tickers' = << >> /\ pc' \in {"main", "shell"}
    BY <1>11 DEF Return, Die, WalkFails, Crash, Start, Exit
  <2> QED
    BY <1>2, <2>1
<1>12. CASE DecodeText \/ DecodeFec \/ FecOpens \/ Walk \/ EncodeText
  <2>1. tickers' = Launched /\ UNCHANGED opt /\ pc \notin Drawn \cup {"wait", "fatal"}
        /\ (pc' \in Drawn \/ (opt.encode = "fec" /\ pc' # "main"))
    BY <1>12 DEF DecodeText, DecodeFec, FecOpens, Walk, EncodeText, Launch, Drawn
  <2> QED
    BY <1>5, <2>1
<1>13. CASE Copy \/ Join \/ Entries \/ EncodeTextEnds \/ EncodeFecEnds \/ EncodingFails
         \/ EncodingEndLost \/ DecodingFails
  <2>1. tickers' = Told /\ UNCHANGED opt /\ pc \in Drawn /\ pc' = "wait"
    BY <1>13 DEF Copy, Join, Entries, EncodeTextEnds, EncodeFecEnds, EncodingFails,
       EncodingEndLost, DecodingFails, Tell, Drawn
  <2> QED
    BY <1>6, <2>1
<1>14. CASE Open
  <2>1. \/ tickers' = Launched /\ pc' = "restore"
        \/ UNCHANGED tickers /\ pc' \in {"return", "fatal"}
    BY <1>14 DEF Open, Launch, Goto
  <2>2. UNCHANGED opt /\ pc = "open"
    BY <1>14 DEF Open
  <2> QED
    BY <1>4, <1>5, <2>1, <2>2 DEF Drawn
<1>15. CASE Restore
  <2>1. \/ tickers' = Told /\ pc' = "wait"
        \/ UNCHANGED tickers /\ pc' = "fatal"
    BY <1>15 DEF Restore, Tell, Goto
  <2>2. UNCHANGED opt /\ pc = "restore"
    BY <1>15 DEF Restore
  <2> QED
    BY <1>6, <1>7, <2>1, <2>2 DEF Drawn
<1>16. CASE OpenOutput \/ Close \/ CreateTar \/ CreateTarEnds \/ CreateTarFails \/ CreateTarEndLost
  <2>1. /\ UNCHANGED <<tickers, opt>> /\ pc \in {"output", "close", "tar", "tar walk"}
        /\ pc' \in {"walk", "fatal", "return", "shards", "encode", "tar walk"}
    BY <1>16 DEF OpenOutput, Close, CreateTar, CreateTarEnds, CreateTarFails, CreateTarEndLost, Goto
  <2> QED
    BY <1>4, <2>1 DEF Drawn
<1>17. CASE EncodeFec
  <2>1. \/ tickers' = Launched /\ pc' = "split"
        \/ UNCHANGED tickers /\ pc' = "fatal"
    BY <1>17 DEF EncodeFec, Launch, Goto
  <2>2. UNCHANGED opt /\ pc = "shards"
    BY <1>17 DEF EncodeFec
  <2> QED
    BY <1>5, <1>7, <2>1, <2>2 DEF Drawn
<1>18. CASE Aborts
  BY <1>7, <1>18 DEF Aborts, Goto
<1>19. CASE \E now : Move(now)
  BY <1>0, <1>19 DEF Move, Drawing, TickerStates
<1> QED
  BY <1>1, <1>3, <1>8, <1>9, <1>10, <1>11, <1>12, <1>13, <1>14, <1>15, <1>16, <1>17, <1>18, <1>19
  DEF Next, Program, Main, Decode, Extract, Create, Troubles, User, Rename, GoBad

-----------------------------------------------------------------------------
(* The way the program takes.                                              *)
LEMMA CourseStep ==
  ASSUME TypeOK, Course, [Next]_vars
  PROVE  Course'
<1>0. opt \in OptType /\ cmd \in CommandType /\ MarksOK
  BY TypeParts, CommandKnown DEF ChoicesOK
<1>1. CASE UNCHANGED vars \/ Ended \/ TickerEnds
  <2>1. UNCHANGED <<pc, after, cmd, opt, disk, temp, failed>>
    BY <1>1 DEF vars, Ended, TickerEnds, files, marks
  <2> QED
    BY <2>1 DEF Course, At, Exists, Archive, FileAt
<1>2. CASE pc' \in {"shell", "main", "return", "fatal"}
  BY <1>2 DEF Course, At, Stages, InHand, Packing, Taring, Texts
(* What the mode and the name decide.                                      *)
<1>3. CASE DetectByName \/ DetectByHeader
  <2>1. UNCHANGED cmd
    BY <1>3 DEF DetectByName, DetectByHeader
  <2>2. \/ pc' = "configure" /\ cmd.mode \in Asking \cup {"c"}
        \/ pc' \in {"header", "decode"} /\ after' = "header" /\ cmd.mode \in Asking
    <3>1. CASE DetectByName
      <4>1. cmd.mode \in Asking \cup {"c"}
        BY <1>0, <3>1 DEF DetectByName, CommandType, Modes, Asking
      <4> QED
        BY <3>1, <4>1 DEF DetectByName, Asking
    <3>2. CASE DetectByHeader
      BY <3>2 DEF DetectByHeader, Goto, Course, At, InHand, Asking
    <3> QED
      BY <1>3, <3>1, <3>2
  <2> QED
    BY <2>1, <2>2 DEF Course, At, Stages, InHand, Packing, Taring, Texts, Asking
<1>4. CASE Configure
  <2>1. /\ pc = "configure" /\ pc' \in {"run", "fatal"} /\ UNCHANGED cmd
    BY <1>4 DEF Configure, Goto
  <2>2. cmd.mode \in Asking \cup {"c"}
    BY <2>1 DEF Course, At
  <2> QED
    BY <2>1, <2>2 DEF Course, At, Stages, InHand, Packing, Taring, Texts, Asking
<1>5. CASE Run
  <2>1. pc = "run" /\ cmd.mode \in Asking \cup {"c"} /\ UNCHANGED <<cmd, opt>> /\ after' = "open"
    BY <1>5 DEF Run, Course, At
  <2>2. \/ pc' = "fatal"
        \/ pc' = "tar" /\ cmd.mode = "c" /\ opt.format = "tar"
        \/ pc' = "untar" /\ cmd.mode \in Asking /\ opt.format = "tar"
        \/ pc' = "output" /\ cmd.mode = "c" /\ opt.format = "goxa"
        \/ pc' \in {"open", "fec", "decode"} /\ cmd.mode \in Asking
    BY <1>0, <1>5, <2>1 DEF Run, OptType, Asking
  <2> QED
    BY <2>1, <2>2 DEF Course, At, Stages, InHand, Packing, Taring, Texts, Asking
<1>6. CASE Waited
  <2>1. /\ pc = "wait" /\ pc' = after /\ after \in {"header", "open", "close", "return", "fatal"}
        /\ At' = At /\ UNCHANGED <<cmd, opt>>
    BY <1>6 DEF Waited, Goto, Course, At
  <2> QED
    BY <2>1 DEF Course, Stages, InHand, Packing, Taring, Texts
(* Decoding.                                                               *)
<1>7. CASE DecodeMissing \/ FecRefuses
  <2>1. /\ pc \in {"decode", "fec"} /\ pc' = after /\ after \in {"header", "open"}
        /\ UNCHANGED <<cmd, opt>>
    BY <1>7 DEF DecodeMissing, FecRefuses, Goto, Course
  <2>2. cmd.mode \in Asking
    BY <2>1 DEF Course, At, InHand
  <2> QED
    BY <2>1, <2>2 DEF Course, At, Stages, InHand, Packing, Taring, Texts
<1>8. CASE DecodeText \/ DecodeFec \/ FecOpens
  <2>1. /\ pc \in {"decode", "fec"} /\ UNCHANGED <<cmd, opt, disk, after>>
        /\ \/ pc' = "copy" /\ Exists(opt.arc)
           \/ pc' = "fec"
           \/ pc' = "join" /\ Exists(opt.arc) /\ disk[opt.arc].state = "whole"
    BY <1>8 DEF DecodeText, DecodeFec, FecOpens, FecComplete, Launch, files
  <2>2. cmd.mode \in Asking /\ after \in {"header", "open"}
    BY <2>1 DEF Course, At, InHand
  <2> QED
    BY <2>1, <2>2 DEF Course, At, Stages, InHand, Packing, Taring, Texts, Exists
<1>9. CASE Copy \/ Join \/ DecodingFails
  <2>1. /\ pc \in {"copy", "join"} /\ pc' = "wait" /\ after' = after /\ UNCHANGED <<cmd, opt>>
    BY <1>9 DEF Copy, Join, DecodingFails, Tell
  <2>2. cmd.mode \in Asking /\ after \in {"header", "open"}
    BY <2>1 DEF Course, At, InHand
  <2> QED
    BY <2>1, <2>2 DEF Course, At, Stages, InHand, Packing, Taring, Texts
(* Extraction.                                                             *)
<1>10. CASE Open
  <2>1. /\ pc = "open" /\ UNCHANGED <<cmd, opt, disk, temp, failed>>
        /\ \/ pc' = "restore" /\ Archive # None
           \/ pc' \in {"return", "fatal"}
    BY <1>10 DEF Open, Sound, Launch, Goto, files, marks
  <2>2. cmd.mode \in Asking
    BY <2>1 DEF Course, At, InHand
  <2> QED
    BY <1>2, <2>1, <2>2
    DEF Course, At, Stages, InHand, Packing, Taring, Texts, Archive, FileAt, Exists
<1>11. CASE Restore \/ EncodeTextEnds \/ EncodeFecEnds \/ EncodingFails \/ EncodingEndLost
  <2>1. (pc' = "wait" /\ after' \in {"return", "fatal"}) \/ pc' = "fatal"
    BY <1>11 DEF Restore, EncodeTextEnds, EncodeFecEnds, EncodingFails, EncodingEndLost, Tell, Goto
  <2> QED
    BY <2>1 DEF Course, At, Stages, InHand, Packing, Taring, Texts
<1>12. CASE Untar \/ CreateTarEnds \/ Inform \/ Return \/ Die \/ WalkFails \/ Aborts
         \/ CreateTarFails \/ CreateTarEndLost \/ Crash \/ User
  <2>1. pc' \in {"shell", "main", "return", "fatal"}
    BY <1>12 DEF Untar, CreateTarEnds, Inform, Return, Die, WalkFails, Aborts,
       CreateTarFails, CreateTarEndLost, Crash, User, Start, Rename, GoBad, Move, Goto, Exit
  <2> QED
    BY <1>2, <2>1
(* Creation.                                                               *)
<1>13. CASE OpenOutput \/ Walk \/ Entries
  <2>1. /\ pc \in {"output", "walk", "entries"} /\ UNCHANGED <<cmd, opt>>
        /\ \/ pc' \in {"walk", "entries", "fatal"}
           \/ pc' = "wait" /\ after' = "close"
    BY <1>13 DEF OpenOutput, Walk, Entries, Goto, Launch, Tell
  <2>2. cmd.mode = "c" /\ opt.format = "goxa"
    BY <2>1 DEF Course, At, Packing
  <2> QED
    BY <2>1, <2>2 DEF Course, At, Stages, InHand, Packing, Taring, Texts
<1>14. CASE Close
  <2>1. /\ pc = "close" /\ UNCHANGED <<cmd, opt>>
        /\ \/ pc' \in {"fatal", "return"}
           \/ pc' = "shards" /\ opt.encode = "fec"
           \/ pc' = "encode" /\ opt.encode \notin {"", "fec"}
    BY <1>14 DEF Close, Goto
  <2>2. cmd.mode = "c" /\ opt.format = "goxa" /\ opt.encode \in {"", "fec"} \cup Encodings
    BY <1>0, <2>1 DEF Course, At, Packing, OptType
  <2> QED
    BY <2>1, <2>2 DEF Course, At, Stages, InHand, Packing, Taring, Texts
<1>15. CASE EncodeText
  <2>1. pc = "encode" /\ pc' = "encoding" /\ UNCHANGED <<cmd, opt>>
    BY <1>15 DEF EncodeText, Launch
  <2> QED
    BY <2>1 DEF Course, At, Stages, InHand, Packing, Taring, Texts
<1>16. CASE EncodeFec
  <2>1. /\ pc = "shards" /\ UNCHANGED <<cmd, opt>>
        /\ \/ pc' = "fatal"
           \/ pc' = "split" /\ cmd.stdout = "no"
    BY <1>16 DEF EncodeFec, Goto, Launch
  <2> QED
    BY <2>1 DEF Course, At, Stages, InHand, Packing, Taring, Texts
<1>17. CASE CreateTar
  <2>1. pc = "tar" /\ pc' = "tar walk" /\ UNCHANGED <<cmd, opt>>
    BY <1>17 DEF CreateTar, Goto
  <2> QED
    BY <2>1 DEF Course, At, Stages, InHand, Packing, Taring, Texts
<1> QED
  BY <1>1, <1>3, <1>4, <1>5, <1>6, <1>7, <1>8, <1>9, <1>10, <1>11, <1>12, <1>13, <1>14,
     <1>15, <1>16, <1>17
  DEF Next, Program, Main, Decode, Extract, Create, Troubles

-----------------------------------------------------------------------------
(* What happens to the directory.                                          *)
LEMMA StoredIs ==
  ASSUME NEW file, disk' = Stored(opt.arc, file)
  PROVE  /\ DOMAIN disk' = DOMAIN disk \cup {opt.arc}
         /\ \A n \in DOMAIN disk' : disk'[n] = IF n = opt.arc THEN file ELSE disk[n]
BY DEF Stored

LEMMA WrittenIs ==
  ASSUME NEW state
  PROVE  /\ Written(state).encode = "" /\ Written(state).by = runs /\ Written(state).state = state
         /\ Encoded(state).encode = opt.encode /\ Encoded(state).by = runs
         /\ Encoded(state).state = state
         /\ opt.encode = "fec" =>
              Encoded(state).data = Shards[1] /\ Encoded(state).parity = Shards[2]
         /\ Written(state).format = opt.format /\ Encoded(state).format = opt.format
         /\ Written(state).holds = "more" /\ Encoded(state).holds = "more"
BY DEF Written, Encoded

(* A tar archive, whatever it holds.                                       *)
LEMMA HoldingIs ==
  ASSUME NEW state, NEW holds
  PROVE  /\ Tarred(state, holds).encode = "" /\ Tarred(state, holds).by = runs
         /\ Tarred(state, holds).state = state /\ Tarred(state, holds).format = opt.format
BY DEF Written, Tarred

(* The steps of create and createTar that write the archive itself.        *)
Packs ==
  /\ cmd.mode = "c" /\ pc # "shell" /\ UNCHANGED <<cmd, opt, runs>>
  /\ \E state \in States :
       \/ /\ disk' = Stored(opt.arc, Written(state))
          /\ \/ pc = "output" /\ (cmd.force \/ ~Exists(opt.arc))
             \/ pc = "close" /\ Output = "archive"
             \/ opt.format = "tar"
       \/ /\ \E holds \in Holdings : disk' = Stored(opt.arc, Tarred(state, holds))
          /\ opt.format = "tar"
       \/ /\ disk' = Stored(opt.arc, Encoded(state))
          /\ opt.encode # "" /\ opt.format = "goxa"
          /\ opt.encode = "fec" /\ state = "whole" => NewStream(Shards[1], Shards[2])

LEMMA DirectoryStep ==
  ASSUME TypeOK, Course, [Next]_vars
  PROVE  \/ disk' = disk
         \/ Packs
         \/ \E from \in DOMAIN disk, to \in Names : Rename(from, to)
         \/ \E name \in DOMAIN disk : GoBad(name)
<1>1. CASE OpenOutput
  <2>1. pc = "output" /\ cmd.mode = "c" /\ UNCHANGED <<cmd, opt, runs>>
    BY <1>1 DEF OpenOutput, bounds, Course, At, Packing
  <2>2. disk' = disk \/ /\ disk' = Stored(opt.arc, Written("part"))
                        /\ cmd.force \/ ~Exists(opt.arc)
    BY <1>1 DEF OpenOutput, Put, files
  <2> QED
    BY <2>1, <2>2 DEF Packs, States
<1>2. CASE Close
  <2>1. pc = "close" /\ cmd.mode = "c" /\ UNCHANGED <<cmd, opt, runs>>
    BY <1>2 DEF Close, bounds, Course, At, Packing
  <2>2. \/ disk' = disk
        \/ disk' = Stored(opt.arc, Written("whole")) /\ Output = "archive"
    BY <1>2 DEF Close, Put, files
  <2> QED
    BY <2>1, <2>2 DEF Packs, States
<1>3. CASE EncodeText \/ EncodeTextEnds
  <2>1. pc \in Texts /\ UNCHANGED <<cmd, opt, runs>>
    BY <1>3 DEF EncodeText, EncodeTextEnds, bounds, Texts
  <2>2. cmd.mode = "c" /\ opt.encode \notin {"", "fec"} /\ opt.format = "goxa"
    BY <2>1 DEF Course, At, Packing, Texts, Encodings
  <2>3. disk' = disk \/ \E state \in {"part", "whole"} : disk' = Stored(opt.arc, Encoded(state))
    BY <1>3 DEF EncodeText, EncodeTextEnds, Put
  <2> QED
    BY <2>1, <2>2, <2>3 DEF Packs, States, Texts
<1>4. CASE EncodeFec \/ EncodeFecEnds
  <2>1. pc \in {"shards", "split"} /\ UNCHANGED <<cmd, opt, runs>>
    BY <1>4 DEF EncodeFec, EncodeFecEnds, bounds
  <2>2. cmd.mode = "c" /\ opt.encode = "fec" /\ opt.format = "goxa"
    BY <2>1 DEF Course, At, Packing
  <2>3. \/ disk' = disk
        \/ disk' = Stored(opt.arc, Encoded("part"))
        \/ disk' = Stored(opt.arc, Encoded("whole")) /\ NewStream(Shards[1], Shards[2])
    BY <1>4 DEF EncodeFec, EncodeFecEnds, Put, files, Encodes
  <2> QED
    BY <2>1, <2>2, <2>3 DEF Packs, States
<1>5. CASE CreateTar \/ CreateTarEnds \/ CreateTarFails
  <2>1. pc \in Taring /\ UNCHANGED <<cmd, opt, runs>>
    BY <1>5 DEF CreateTar, CreateTarEnds, CreateTarFails, bounds, Taring
  <2>2. cmd.mode = "c" /\ opt.format = "tar"
    BY <2>1 DEF Course, At, Taring
  <2>3. \E state \in States :
          \/ disk' = Stored(opt.arc, Written(state))
          \/ \E holds \in Holdings : disk' = Stored(opt.arc, Tarred(state, holds))
    BY <1>5 DEF CreateTar, CreateTarEnds, CreateTarFails, Put, States
  <2> QED
    BY <2>1, <2>2, <2>3 DEF Packs, Taring
<1>6. CASE UNCHANGED vars \/ Ended \/ TickerEnds \/ Main \/ Decode \/ Extract \/ Walk \/ Entries
        \/ WalkFails \/ Aborts \/ EncodingFails \/ EncodingEndLost \/ DecodingFails
        \/ CreateTarEndLost \/ Crash \/ \E c : Start(c)
  BY <1>6 DEF vars, Ended, TickerEnds, Main, Inform, DetectByName, DetectByHeader, Configure,
     Run, Waited, Return, Die, Decode, DecodeMissing, DecodeText, Copy, DecodeFec, FecRefuses,
     FecOpens, Join, Extract, Open, Restore, Untar, Walk, Entries, WalkFails, Aborts,
     EncodingFails, EncodingEndLost, DecodingFails, CreateTarEndLost, Crash, Start, files
<1> QED
  BY <1>1, <1>2, <1>3, <1>4, <1>5, <1>6 DEF Next, Program, Create, Troubles, User

LEMMA FecSoundStep ==
  ASSUME TypeOK, Course, FecSound, [Next]_vars
  PROVE  FecSound'
<1>1. CASE disk' = disk
  BY <1>1 DEF FecSound
<1>2. CASE Packs
  <2>1. PICK state \in States :
          \/ disk' = Stored(opt.arc, Written(state))
          \/ \E holds \in Holdings : disk' = Stored(opt.arc, Tarred(state, holds))
          \/ /\ disk' = Stored(opt.arc, Encoded(state))
             /\ opt.encode = "fec" /\ state = "whole" => NewStream(Shards[1], Shards[2])
    BY <1>2 DEF Packs
  <2>2. CASE disk' = Stored(opt.arc, Written(state))
    <3>1. Written(state).encode # "fec"
      BY WrittenIs
    <3> QED
      BY <2>2, <3>1, StoredIs DEF FecSound
  <2>3. CASE /\ disk' = Stored(opt.arc, Encoded(state))
             /\ opt.encode = "fec" /\ state = "whole" => NewStream(Shards[1], Shards[2])
    <3>1. Encoded(state).encode = "fec" /\ Encoded(state).state = "whole" =>
            NewStream(Encoded(state).data, Encoded(state).parity)
      <4>1. /\ Encoded(state).encode = opt.encode /\ Encoded(state).state = state
            /\ opt.encode = "fec" =>
                 Encoded(state).data = Shards[1] /\ Encoded(state).parity = Shards[2]
        BY WrittenIs
      <4> QED
        BY <2>3, <4>1
    <3> QED
      BY <2>3, <3>1, StoredIs DEF FecSound
  <2>4. ASSUME NEW holds \in Holdings, disk' = Stored(opt.arc, Tarred(state, holds))
        PROVE  FecSound'
    <3>1. Tarred(state, holds).encode # "fec"
      BY HoldingIs
    <3> QED
      BY <2>4, <3>1, StoredIs DEF FecSound
  <2> QED
    BY <2>1, <2>2, <2>3, <2>4
<1>3. ASSUME NEW from \in DOMAIN disk, NEW to \in Names, Rename(from, to)
      PROVE  FecSound'
  <2>1. disk' = [n \in (DOMAIN disk \ {from}) \cup {to} |-> IF n = to THEN disk[from] ELSE disk[n]]
    BY <1>3 DEF Rename, Move
  <2> QED
    BY <2>1 DEF FecSound
<1>4. ASSUME NEW name \in DOMAIN disk, GoBad(name)
      PROVE  FecSound'
  <2>1. PICK shard : disk' = [disk EXCEPT ![name].bad = @ \cup {shard}]
    BY <1>4 DEF GoBad, Move
  <2>2. disk[name] \in FileType
    BY DEF TypeOK
  <2>3. /\ DOMAIN disk' = DOMAIN disk
        /\ \A n \in DOMAIN disk : n # name => disk'[n] = disk[n]
        /\ disk'[name] = [disk[name] EXCEPT !.bad = @ \cup {shard}]
    BY <2>1
  <2>4. /\ disk'[name].encode = disk[name].encode /\ disk'[name].state = disk[name].state
        /\ disk'[name].data = disk[name].data /\ disk'[name].parity = disk[name].parity
    BY <2>2, <2>3 DEF FileType
  <2> QED
    BY <2>3, <2>4 DEF FecSound
<1> QED
  BY <1>1, <1>2, <1>3, <1>4, DirectoryStep

LEMMA OwnStep ==
  ASSUME TypeOK, Course, Own, [Next]_vars
  PROVE  Own'
<1>1. ASSUME UNCHANGED <<disk, cmd, opt, runs>>,
             At' \in {"walk", "entries", "close"} => At \in {"walk", "entries", "close"}
      PROVE  Own'
  BY <1>1 DEF Own, Output, Exists
<1>2. ASSUME At' \notin {"walk", "entries", "close"}
      PROVE  Own'
  BY <1>2 DEF Own
<1>3. CASE UNCHANGED vars \/ Ended \/ TickerEnds \/ Waited \/ Walk \/ Entries
  <2>1. /\ UNCHANGED <<disk, cmd, opt, runs>>
        /\ At' \in {"walk", "entries", "close"} => At \in {"walk", "entries", "close"}
    BY <1>3 DEF vars, Ended, TickerEnds, Waited, Walk, Entries, Goto, Launch, Tell, Course, At,
       files, bounds
  <2> QED
    BY <1>1, <2>1
<1>4. CASE OpenOutput
  <2>1. CASE pc' = "fatal"
    BY <1>2, <2>1 DEF At
  <2>2. CASE pc' # "fatal"
    <3>1. Put(Output, Written("part")) /\ UNCHANGED <<cmd, opt, runs>>
      BY <1>4, <2>2 DEF OpenOutput, Goto, bounds
    <3>2. CASE Output = "archive"
      <4>1. disk' = Stored(opt.arc, Written("part"))
        BY <3>1, <3>2 DEF Put
      <4>2. opt.arc \in DOMAIN disk' /\ disk'[opt.arc] = Written("part")
        BY <4>1, StoredIs
      <4>3. Written("part").by = runs
        BY WrittenIs
      <4> QED
        BY <3>1, <4>2, <4>3 DEF Own, Exists
    <3>3. CASE Output # "archive"
      BY <3>1, <3>3 DEF Own, Output
    <3> QED
      BY <3>2, <3>3
  <2> QED
    BY <2>1, <2>2
<1>5. CASE Inform \/ DetectByName \/ DetectByHeader \/ Configure \/ Run \/ Return \/ Die
        \/ Decode \/ Extract
  BY <1>2, <1>5 DEF Inform, DetectByName, DetectByHeader, Configure, Run, Return, Die,
     Decode, DecodeMissing, DecodeText, Copy, DecodeFec, FecRefuses, FecOpens, Join, Extract,
     Open, Restore, Untar, Goto, Launch, Tell, Exit, Course, At
<1>6. CASE Close \/ EncodeText \/ EncodeTextEnds \/ EncodeFec \/ EncodeFecEnds
        \/ CreateTar \/ CreateTarEnds
  BY <1>2, <1>6 DEF Close, EncodeText, EncodeTextEnds, EncodeFec, EncodeFecEnds, CreateTar,
     CreateTarEnds, Goto, Launch, Tell, At
<1>7. CASE Troubles \/ User
  BY <1>2, <1>7 DEF Troubles, WalkFails, Aborts, EncodingFails, EncodingEndLost,
     DecodingFails, CreateTarFails, CreateTarEndLost, Crash, User, Start, Rename, GoBad, Move,
     Goto, Tell, Exit, Course, At
<1> QED
  BY <1>3, <1>4, <1>5, <1>6, <1>7 DEF Next, Program, Main, Create

-----------------------------------------------------------------------------
(* What create has made.                                                   *)
LEMMA PutMade ==
  ASSUME UNCHANGED <<cmd, opt, runs>>, NEW file \in FileType, file.by = runs, file.state = "whole",
         opt.format = "goxa" => file.encode = opt.encode,
         NEW where, where = IF cmd.stdout # "no" /\ opt.format # "tar" THEN "stdout" ELSE "archive",
         Put(where, file)
  PROVE  Made'
<1>1. file # None
  BY NoneAssumption
<1>2. CASE cmd.stdout # "no" /\ opt.format # "tar"
  <2>1. out' = file
    BY <1>2 DEF Put
  <2> QED
    BY <1>1, <1>2, <2>1 DEF Made
<1>3. CASE ~(cmd.stdout # "no" /\ opt.format # "tar")
  <2>1. disk' = Stored(opt.arc, file)
    BY <1>3 DEF Put
  <2>2. opt.arc \in DOMAIN disk' /\ disk'[opt.arc] = file
    BY <2>1, StoredIs
  <2> QED
    BY <1>1, <1>3, <2>2 DEF Made, FileAt, Exists
<1> QED
  BY <1>2, <1>3

LEMMA DeliveredStep ==
  ASSUME TypeOK, Course, Delivered, [Next]_vars
  PROVE  Delivered'
<1>0. UNCHANGED <<cmd, opt, runs>> /\ Made' => Delivered'
  BY DEF Delivered
<1>1. ASSUME UNCHANGED <<disk, out, cmd, opt, runs, trouble>>,
             At' = "return" \/ Done("ok")' => At = "return" \/ Done("ok")
      PROVE  Delivered'
  BY <1>1 DEF Delivered, Made, FileAt, Exists
<1>2. ASSUME At' # "return", pc' = "shell" => status' # "ok"
      PROVE  Delivered'
  BY <1>2 DEF Delivered, Done
<1>3. ASSUME UNCHANGED cmd, cmd.mode # "c"
      PROVE  Delivered'
  BY <1>3 DEF Delivered
<1>4. ASSUME trouble' = "dropped"
      PROVE  Delivered'
  BY <1>4 DEF Delivered
<1>5. CASE UNCHANGED vars \/ Ended \/ TickerEnds \/ Waited \/ Return
  <2>1. UNCHANGED <<disk, out, cmd, opt, runs, trouble>>
    BY <1>5 DEF vars, Ended, TickerEnds, Waited, Return, files, marks, bounds
  <2>2. At' = "return" \/ Done("ok")' => At = "return" \/ Done("ok")
    BY <1>5 DEF vars, Ended, TickerEnds, Waited, Return, Goto, Exit, At, Done, Course
  <2> QED
    BY <1>1, <2>1, <2>2
<1>6. CASE Close
  <2>1. /\ pc = "close" /\ opt.format = "goxa" /\ UNCHANGED <<cmd, opt, runs>>
    BY <1>6 DEF Close, bounds, Course, At, Packing
  <2>2. CASE pc' # "return"
    <3>1. pc' \in {"fatal", "shards", "encode"}
      BY <1>6, <2>2 DEF Close, Goto
    <3> QED
      BY <1>2, <3>1 DEF At
  <2>3. CASE pc' = "return"
    <3>1. opt.encode = "" /\ Put(Output, Written("whole"))
      BY <1>6, <2>3 DEF Close, Goto
    <3>2. /\ Written("whole") \in FileType /\ Written("whole").by = runs
          /\ Written("whole").state = "whole" /\ Written("whole").encode = opt.encode
      BY <3>1, WrittenType, WrittenIs DEF States
    <3>3. Output = IF cmd.stdout # "no" /\ opt.format # "tar" THEN "stdout" ELSE "archive"
      BY <2>1, <3>1 DEF Output
    <3> QED
      BY <1>0, <2>1, <3>1, <3>2, <3>3, PutMade
  <2> QED
    BY <2>2, <2>3
<1>7. CASE EncodeTextEnds
  <2>1. /\ opt.format = "goxa" /\ UNCHANGED <<cmd, opt, runs>> /\ Put(Target, Encoded("whole"))
    BY <1>7 DEF EncodeTextEnds, bounds, Course, At, Packing
  <2>2. /\ Encoded("whole") \in FileType /\ Encoded("whole").by = runs
        /\ Encoded("whole").state = "whole" /\ Encoded("whole").encode = opt.encode
    BY WrittenType, WrittenIs DEF States
  <2>3. Target = IF cmd.stdout # "no" /\ opt.format # "tar" THEN "stdout" ELSE "archive"
    BY <2>1 DEF Target
  <2> QED
    BY <1>0, <2>1, <2>2, <2>3, PutMade
<1>8. CASE EncodeFecEnds
  <2>1. CASE ~Encodes(cmd.size, Shards[1], Shards[2])
    BY <1>2, <1>8, <2>1 DEF EncodeFecEnds, Tell, At
  <2>2. CASE Encodes(cmd.size, Shards[1], Shards[2])
    <3>1. /\ cmd.stdout = "no" /\ UNCHANGED <<cmd, opt, runs>> /\ Put("archive", Encoded("whole"))
      BY <1>8, <2>2 DEF EncodeFecEnds, bounds, Course
    <3>2. /\ Encoded("whole") \in FileType /\ Encoded("whole").by = runs
          /\ Encoded("whole").state = "whole" /\ Encoded("whole").encode = opt.encode
      BY WrittenType, WrittenIs DEF States
    <3>3. "archive" = IF cmd.stdout # "no" /\ opt.format # "tar" THEN "stdout" ELSE "archive"
      BY <3>1
    <3> QED
      BY <1>0, <3>1, <3>2, <3>3, PutMade
  <2> QED
    BY <2>1, <2>2
<1>9. CASE CreateTarEnds
  <2>1. /\ opt.format = "tar" /\ UNCHANGED <<cmd, opt, runs>>
        /\ \E holds \in Holdings : Put("archive", Tarred("whole", holds))
    BY <1>9 DEF CreateTarEnds, bounds, Course, At, Taring
  <2>2. PICK file \in FileType :
          file.by = runs /\ file.state = "whole" /\ Put("archive", file)
    <3>1. PICK holds \in Holdings : Put("archive", Tarred("whole", holds))
      BY <2>1
    <3>2. Tarred("whole", holds) \in FileType
      BY WrittenType DEF States
    <3>3. Tarred("whole", holds).by = runs /\ Tarred("whole", holds).state = "whole"
      BY HoldingIs
    <3> QED
      BY <3>1, <3>2, <3>3
  <2>3. "archive" = IF cmd.stdout # "no" /\ opt.format # "tar" THEN "stdout" ELSE "archive"
    BY <2>1
  <2> QED
    BY <1>0, <2>1, <2>2, <2>3, PutMade
<1>10. CASE Inform \/ Decode \/ Extract
  <2>1. UNCHANGED cmd /\ cmd.mode # "c"
    BY <1>10 DEF Inform, Decode, DecodeMissing, DecodeText, Copy, DecodeFec, FecRefuses,
       FecOpens, Join, Extract, Open, Restore, Untar, Course, At, InHand, Asking
  <2> QED
    BY <1>3, <2>1
<1>11. CASE DetectByName \/ DetectByHeader \/ Configure \/ Run \/ Die
         \/ OpenOutput \/ Walk \/ Entries \/ EncodeText \/ EncodeFec \/ CreateTar
         \/ Aborts \/ EncodingFails \/ DecodingFails \/ CreateTarFails \/ Crash \/ User
  <2>1. At' # "return"
    BY <1>11 DEF DetectByName, DetectByHeader, Configure, Run, Die, OpenOutput, Walk, Entries,
       EncodeText, EncodeFec, CreateTar, Aborts, EncodingFails, DecodingFails, CreateTarFails,
       Crash, User, Start, Rename, GoBad, Move, Goto, Launch, Tell, Exit, Course, At
  <2>2. pc' = "shell" => status' # "ok"
    BY <1>11 DEF DetectByName, DetectByHeader, Configure, Run, Die, OpenOutput, Walk, Entries,
       EncodeText, EncodeFec, CreateTar, Aborts, EncodingFails, DecodingFails, CreateTarFails,
       Crash, User, Start, Rename, GoBad, Move, Goto, Launch, Tell, Exit
  <2> QED
    BY <1>2, <2>1, <2>2
<1>12. CASE WalkFails \/ EncodingEndLost \/ CreateTarEndLost
  BY <1>4, <1>12 DEF WalkFails, EncodingEndLost, CreateTarEndLost, Fails
<1> QED
  BY <1>5, <1>6, <1>7, <1>8, <1>9, <1>10, <1>11, <1>12 DEF Next, Program, Main, Create, Troubles

(* A run that ends well has removed its temporary file.                    *)
LEMMA NoTempStep ==
  ASSUME TypeOK, NoTempLeft, [Next]_vars
  PROVE  NoTempLeft'
<1>1. CASE UNCHANGED vars \/ Ended \/ TickerEnds
  BY <1>1 DEF vars, Ended, TickerEnds, files, marks, NoTempLeft, Done
<1>2. CASE Return \/ WalkFails
  BY <1>2 DEF Return, WalkFails, Fails, NoTempLeft
<1>3. ASSUME status' # "ok" PROVE NoTempLeft'
  BY <1>3 DEF NoTempLeft, Done
<1>4. CASE Program /\ ~Return
  <2>1. status = "running"
    BY <1>4 DEF Program, TypeOK
  <2>2. status' # "ok"
    BY <1>4, <2>1 DEF Program, Main, Inform, DetectByName, DetectByHeader, Configure, Run, Waited,
       Die, Decode, DecodeMissing, DecodeText, Copy, DecodeFec, FecRefuses, FecOpens, Join,
       Extract, Open, Restore, Untar, Create, OpenOutput, Walk, Entries, Close, EncodeText,
       EncodeTextEnds, EncodeFec, EncodeFecEnds, CreateTar, CreateTarEnds, Goto, Launch, Tell,
       Exit
  <2> QED
    BY <1>3, <2>2
<1>5. CASE Troubles /\ ~WalkFails
  <2>1. pc # "shell"
    BY <1>5 DEF Troubles, Aborts, EncodingFails, EncodingEndLost, DecodingFails,
       CreateTarFails, CreateTarEndLost, Crash
  <2>2. status = "running"
    BY <2>1 DEF TypeOK
  <2>3. status' # "ok"
    BY <1>5, <2>2 DEF Troubles, Aborts, EncodingFails, EncodingEndLost, DecodingFails,
       CreateTarFails, CreateTarEndLost, Crash, Goto, Tell, Exit
  <2> QED
    BY <1>3, <2>3
<1>6. CASE User
  <2>1. status' # "ok"
    BY <1>6 DEF User, Start, Rename, GoBad, Move
  <2> QED
    BY <1>3, <2>1
<1> QED
  BY <1>1, <1>2, <1>4, <1>5, <1>6 DEF Next

-----------------------------------------------------------------------------
(* What a run that reads has found.                                        *)
LEMMA NoticingStep ==
  ASSUME TypeOK, Course, Noticing, [Next]_vars
  PROVE  Noticing'
<1>0. opt \in OptType /\ FilesOK
  BY TypeParts DEF ChoicesOK
<1> DEFINE Back == At \in {"return", "restore"} \/ Done("ok")
(* The two halves of it, and when each is kept.                            *)
           Found == Back /\ cmd.mode \in Asking => Complete
           Ready == At = "open" /\ opt.encode # "" /\ ~failed =>
                      /\ Exists(opt.arc) /\ temp # None
                      /\ temp.state \in {"whole", "damaged"} => disk[opt.arc].state # "part"
<1>1. Found /\ Ready /\ (Found' /\ Ready' => Noticing')
  BY DEF Noticing
<1>2. ASSUME UNCHANGED <<cmd, opt, disk>>, Back' => Back
      PROVE  Found'
  BY <1>1, <1>2 DEF Complete, Exists
<1>3. ASSUME UNCHANGED <<opt, disk, temp, failed>>, At' = "open" => At = "open"
      PROVE  Ready'
  BY <1>1, <1>3 DEF Exists
<1>4. ASSUME UNCHANGED cmd, cmd.mode \notin Asking
      PROVE  Found'
  BY <1>4
<1>5. CASE UNCHANGED vars \/ Ended \/ TickerEnds
  <2>1. UNCHANGED <<cmd, opt, disk, temp, failed, pc, after, status>>
    BY <1>5 DEF vars, Ended, TickerEnds, files, marks
  <2>2. At' = At /\ (Back' => Back)
    BY <2>1 DEF At, Done
  <2> QED
    BY <1>1, <1>2, <1>3, <2>1, <2>2
<1>6. CASE Waited
  <2>1. /\ UNCHANGED <<cmd, opt, disk, failed, status>> /\ At' = At
        /\ temp' = IF failed THEN None ELSE temp
    BY <1>6 DEF Waited, Goto, Course, At, marks
  <2>2. Back' => Back
    BY <2>1, <1>6 DEF Done, Waited, Goto, Course
  <2>3. Found'
    BY <1>2, <2>1, <2>2
  <2>4. Ready'
    BY <1>1, <2>1 DEF Exists
  <2> QED
    BY <1>1, <2>3, <2>4
<1>7. CASE Return
  <2>1. /\ UNCHANGED <<cmd, opt, disk>> /\ At = "return" /\ At' = "shell"
    BY <1>7 DEF Return, Exit, At
  <2> QED
    BY <1>1, <1>2, <2>1
<1>8. CASE Create \/ WalkFails \/ EncodingFails \/ EncodingEndLost \/ CreateTarFails \/ CreateTarEndLost
  <2>1. UNCHANGED cmd /\ cmd.mode \notin Asking
    BY <1>8 DEF Create, OpenOutput, Walk, Entries, Close, EncodeText, EncodeTextEnds,
       EncodeFec, EncodeFecEnds, CreateTar, CreateTarEnds, WalkFails, EncodingFails,
       EncodingEndLost, CreateTarFails, CreateTarEndLost, Course, At, Packing, Taring, Asking
  <2>2. At' # "open"
    BY <1>8 DEF Create, OpenOutput, Walk, Entries, Close, EncodeText, EncodeTextEnds,
       EncodeFec, EncodeFecEnds, CreateTar, CreateTarEnds, WalkFails, EncodingFails,
       EncodingEndLost, CreateTarFails, CreateTarEndLost, At, Goto, Launch, Tell, Exit
  <2> QED
    BY <1>1, <1>4, <2>1, <2>2
<1>9. CASE Inform
  <2>1. UNCHANGED cmd /\ cmd.mode \notin Asking /\ At' # "open"
    BY <1>9 DEF Inform, Goto, Asking, At
  <2> QED
    BY <1>1, <1>4, <2>1
<1>10. ASSUME ~Back', At' # "open" PROVE Noticing'
  BY <1>1, <1>10
<1>11. CASE DetectByName \/ DetectByHeader \/ Configure \/ Die \/ DecodeText \/ DecodeFec
         \/ FecOpens \/ Aborts \/ Crash \/ User
  <2>1. At' \notin {"return", "restore", "open"}
    BY <1>11 DEF DetectByName, DetectByHeader, Configure, Die, DecodeText, DecodeFec, FecOpens,
       Aborts, Crash, User, Start, Rename, GoBad, Move, Goto, Launch, Exit, At
  <2>2. ~Done("ok")'
    BY <1>11 DEF DetectByName, DetectByHeader, Configure, Die, DecodeText, DecodeFec, FecOpens,
       Aborts, Crash, User, Start, Rename, GoBad, Move, Goto, Launch, Exit, Done
  <2> QED
    BY <1>10, <2>1, <2>2
<1>12. CASE Run
  <2>1. At' = "open" => opt.encode = ""
    BY <1>12 DEF Run, At
  <2>2. UNCHANGED opt /\ ~Back'
    BY <1>12 DEF Run, At, Done
  <2> QED
    BY <1>1, <2>1, <2>2
(* Decoding.                                                               *)
<1>13. ASSUME UNCHANGED status, pc # "shell", pc' = "wait" \/ pc' = after,
              pc \in {"decode", "fec", "copy", "join"}, after' = after
       PROVE  ~Back'
  <2>1. At' = after /\ after \in {"header", "open"} /\ pc' # "shell"
    BY <1>13 DEF At, Course
  <2> QED
    BY <2>1 DEF Done
<1>14. CASE DecodeMissing \/ FecRefuses \/ DecodingFails
  <2>1. /\ UNCHANGED <<status, after>>
        /\ pc' = "wait" \/ pc' = after
        /\ pc # "shell" /\ pc \in {"decode", "fec", "copy", "join"}
        /\ failed' = TRUE
    BY <1>14 DEF DecodeMissing, FecRefuses, DecodingFails, Goto, Tell
  <2> QED
    BY <1>1, <1>13, <2>1
<1>15. CASE Copy
  <2>1. UNCHANGED <<status, opt, disk>> /\ after' = after /\ pc' = "wait" /\ pc = "copy"
    BY <1>15 DEF Copy, Tell
  <2>2. ~Back'
    BY <1>13, <2>1
  <2>3. Exists(opt.arc) /\ disk[opt.arc] \in FileType
    BY <1>0, <2>1 DEF Course, Exists, FilesOK
  <2>4. CASE temp' = [disk[opt.arc] EXCEPT !.encode = ""]
    <3>1. temp' # None
      BY <2>3, <2>4, DecodedType, NoneAssumption
    <3>2. temp'.state = disk[opt.arc].state
      BY <2>3, <2>4 DEF FileType
    <3>3. Ready'
      BY <2>1, <2>3, <3>1, <3>2 DEF Exists
    <3> QED
      BY <1>1, <2>2, <3>3
  <2>5. CASE failed' = TRUE
    BY <1>1, <2>2, <2>5
  <2> QED
    BY <1>15, <2>4, <2>5 DEF Copy
<1>16. CASE Join
  <2>1. UNCHANGED <<status, opt, disk>> /\ after' = after /\ pc' = "wait" /\ pc = "join"
    BY <1>16 DEF Join, Tell
  <2>2. ~Back'
    BY <1>13, <2>1
  <2>3. Exists(opt.arc) /\ disk[opt.arc] \in FileType /\ disk[opt.arc].state = "whole"
    BY <1>0, <2>1 DEF Course, Exists, FilesOK
  <2>4. CASE temp' = Joined(disk[opt.arc])
    <3>1. temp' # None
      BY <2>3, <2>4, DecodedType, NoneAssumption
    <3>2. Ready'
      BY <2>1, <2>3, <3>1 DEF Exists
    <3> QED
      BY <1>1, <2>2, <3>2
  <2>5. CASE failed' = TRUE
    BY <1>1, <2>2, <2>5
  <2> QED
    BY <1>16, <2>4, <2>5 DEF Join
(* Extraction.                                                             *)
<1>17. CASE Open
  <2>1. /\ UNCHANGED <<opt, disk, cmd>> /\ pc = "open"
        /\ pc' \in {"restore", "return", "fatal"}
    BY <1>17 DEF Open, Launch, Goto, files
  <2>2. CASE pc' = "fatal"
    BY <1>10, <2>2 DEF At, Done
  <2>3. CASE pc' # "fatal"
    <3>1. Archive # None /\ Archive.state \in {"whole", "damaged"}
      BY <1>17, <2>3 DEF Open, Sound, Goto
    <3>2. ~failed
      BY <3>1 DEF Archive
    <3>3. Exists(opt.arc) /\ disk[opt.arc].state # "part"
      <4>1. CASE opt.encode = ""
        BY <3>1, <3>2, <4>1 DEF Archive, FileAt
      <4>2. CASE opt.encode # ""
        <5>1. At = "open" /\ Archive = temp
          BY <2>1, <3>2, <4>2 DEF At, Archive
        <5> QED
          BY <1>1, <3>1, <3>2, <4>2, <5>1
      <4> QED
        BY <4>1, <4>2
    <3>4. Complete'
      BY <2>1, <3>3 DEF Complete, Exists
    <3>5. At' # "open"
      BY <2>1 DEF At
    <3> QED
      BY <1>1, <3>4, <3>5
  <2> QED
    BY <2>2, <2>3
<1>18. CASE Restore
  <2>1. /\ UNCHANGED <<opt, disk, cmd>> /\ pc = "restore" /\ At = "restore" /\ At' # "open"
    BY <1>18 DEF Restore, Tell, Goto, At, files
  <2> QED
    BY <1>1, <1>2, <2>1
<1>19. CASE Untar
  <2>1. UNCHANGED <<opt, disk, cmd>> /\ pc = "untar" /\ pc' \in {"return", "fatal"}
    BY <1>19 DEF Untar, Goto, files
  <2>2. CASE pc' = "fatal"
    BY <1>10, <2>2 DEF At, Done
  <2>3. CASE pc' # "fatal"
    <3>1. /\ FileAt(opt.arc) # None
          /\ FileAt(opt.arc).state # "part" \/ Compression = "none"
      BY <1>19, <2>3 DEF Untar, Unpacks, Goto
    <3>2. Compression = "none" => opt.noComp
      BY DEF Compression, CompressionOf
    <3>4. opt.format = "tar"
      BY <2>1 DEF Course, At
    <3>5. Complete'
      BY <2>1, <3>1, <3>2, <3>4 DEF Complete, Exists, FileAt
    <3>3. At' # "open"
      BY <2>1 DEF At
    <3> QED
      BY <1>1, <3>3, <3>5
  <2> QED
    BY <2>2, <2>3
<1> QED
  BY <1>5, <1>6, <1>7, <1>8, <1>9, <1>11, <1>12, <1>14, <1>15, <1>16, <1>17, <1>18, <1>19
  DEF Next, Program, Main, Decode, Extract, Troubles

-----------------------------------------------------------------------------
(* The invariant, and what follows from it.                                *)
LEMMA InvariantInit == Init => IInv
<1> SUFFICES ASSUME Init PROVE IInv
  OBVIOUS
<1>0. 0 \in 0 .. MaxRuns /\ 0 \in 0 .. MaxFaults /\ 0 \in 0 .. MaxMoves /\ 1 \in 1 .. MaxRuns
  BY Bounds
<1>1. cmd \in Commands[1] /\ runs = 1 /\ runs \in 1 .. MaxRuns
  <2>1. cmd \in Commands[1] /\ runs = 1
    BY DEF Init
  <2> QED
    BY <1>0, <2>1
<1>2. cmd \in CommandType
  BY <1>1, CommandsAssumption
<1>3. cmd.arc \in Seq(Part) /\ cmd.format \in {"goxa", "tar"}
  BY <1>2, NamesAssumption DEF CommandType
<1>4. opt = [arc |-> cmd.arc, format |-> cmd.format, encode |-> "", noComp |-> FALSE,
             tarUseXz |-> FALSE]
  BY DEF Init
<1>5. ChoicesOK
  BY <1>1, <1>3, <1>4 DEF ChoicesOK, OptType
<1>6. FilesOK
  <2>1. disk = << >> /\ temp = None /\ out = None
    BY DEF Init
  <2>2. DOMAIN disk = {}
    BY <2>1
  <2> QED
    BY <2>1, <2>2 DEF FilesOK
<1>7. MarksOK
  <2>1. /\ pc = "main" /\ status = "running" /\ failed = FALSE /\ trouble = "none"
        /\ got = 0 /\ faults = 0 /\ moves = 0
    BY DEF Init
  <2>2. (pc = "shell") = (status # "running")
    BY <2>1
  <2> QED
    BY <1>0, <2>1, <2>2 DEF MarksOK
<1>8. tickers = << >> /\ << >> \in Seq(TickerStates) /\ Len(<< >>) = 0
  BY EmptySeq DEF Init
<1>9. TypeOK
  BY <1>5, <1>6, <1>7, <1>8, TypeParts DEF TickerStates
<1>10. pc = "main" /\ disk = << >> /\ status = "running"
  BY DEF Init
<1>11. Course /\ Own /\ Delivered /\ Noticing /\ NoTempLeft
  BY <1>10 DEF Course, At, Stages, InHand, Packing, Taring, Texts, Own, Delivered, Done,
     Noticing, NoTempLeft
<1>12. Drawing
  BY <1>8, <1>10 DEF Drawing, Drawn, TickerStates
<1>13. FecSound
  BY <1>10 DEF FecSound
<1> QED
  BY <1>9, <1>11, <1>12, <1>13 DEF IInv

LEMMA InvariantStep == IInv /\ [Next]_vars => IInv'
<1> SUFFICES ASSUME IInv, [Next]_vars PROVE IInv'
  OBVIOUS
<1>0. TypeOK /\ Course /\ Drawing /\ FecSound /\ Own /\ Delivered /\ Noticing /\ NoTempLeft
  BY DEF IInv
<1>1. FilesOK' /\ ChoicesOK' /\ MarksOK'
  BY <1>0, FilesStep, ChoicesStep, MarksStep
<1>2. tickers' \in Seq({"runs", "told", "ended"}) /\ Drawing'
  BY <1>0, DrawingStep DEF TickerStates
<1>3. TypeOK'
  <2>1. (FilesOK /\ ChoicesOK /\ MarksOK /\ tickers \in Seq({"runs", "told", "ended"}) => TypeOK)'
    BY TypeParts, PTL
  <2> QED
    BY <1>1, <1>2, <2>1
<1> QED
  BY <1>0, <1>2, <1>3, CourseStep, FecSoundStep, OwnStep, DeliveredStep, NoticingStep,
     NoTempStep DEF IInv

(* The inductive invariant: what every state of the program satisfies, in  *)
(* each of its runs.                                                       *)
THEOREM Invariant == Spec => []IInv
BY InvariantInit, InvariantStep, PTL DEF Spec

(* Every variable of the program keeps its type, through any number of     *)
(* runs: what the name of an archive, its first bytes or an option says    *)
(* never leads main to a combination nobody thought of.                    *)
THEOREM TypeCorrect == Spec => []TypeOK
<1>1. IInv => TypeOK
  BY DEF IInv
<1> QED
  BY <1>1, Invariant, PTL

(* Status 0 after create means that the archive is there, whole and under  *)
(* the name announced or on stdout, unless an error was dropped.           *)
THEOREM SuccessIsWritten == Spec => []SuccessMeansWritten
<1>1. IInv => SuccessMeansWritten
  BY DEF IInv, Delivered, Made, SuccessMeansWritten
<1> QED
  BY <1>1, Invariant, PTL

(* Status 0 after extract or list means that what was read was no          *)
(* beginning of an archive that a crash or a failing step has left.        *)
THEOREM PartsAreNoticed == Spec => []PartIsNoticed
<1>1. IInv => PartIsNoticed
  <2> SUFFICES ASSUME IInv, cmd.mode \in Asking, Done("ok")
               PROVE  /\ FileAt(opt.arc) # None
                      /\ FileAt(opt.arc).state = "part" => opt.format = "tar" /\ opt.noComp
    BY DEF PartIsNoticed, Asking
  <2>1. Complete
    BY DEF IInv, Noticing
  <2>2. FileAt(opt.arc) = disk[opt.arc] /\ disk[opt.arc] \in FileType
    BY <2>1 DEF Complete, FileAt, Exists, IInv, TypeOK
  <2> QED
    BY <2>1, <2>2, NoneAssumption DEF Complete
<1> QED
  BY <1>1, Invariant, PTL

(* Every complete archive with error correction in the directory can be    *)
(* joined if its shards fit the header, and unless one of its data shards  *)
(* went bad what decodeWithFEC joins is the archive that was encoded,      *)
(* whatever the widths of the header and whichever parity shards are bad.  *)
THEOREM FecFilesDecode == Spec => []FecDecodes
<1>1. IInv => FecDecodes
  <2> SUFFICES ASSUME IInv, NEW n \in DOMAIN disk, disk[n].encode = "fec", disk[n].state = "whole"
               PROVE  LET f == disk[n] IN
                      /\ Fit(f) => Joins(f.size, f.data, f.parity)
                      /\ Joins(f.size, f.data, f.parity) /\ DataIntact(f) => Whole(Joined(f)) = f.by
    BY DEF FecDecodes
  <2> DEFINE f == disk[n]
  <2>1. f \in FileType
    BY DEF IInv, TypeOK
  <2>2. NewStream(f.data, f.parity)
    BY DEF IInv, FecSound
  <2> HIDE DEF f
  <2>3. f.size \in Nat /\ f.data \in Nat /\ f.parity \in Nat
    BY <2>1 DEF FileType
  <2>4. f.data \in Nat \ {0}
    BY <2>2, <2>3 DEF NewStream
  <2>5. Fit(f) => Joins(f.size, f.data, f.parity)
    BY <2>2, <2>3, FittingJoins DEF Fit
  <2>6. ASSUME Joins(f.size, f.data, f.parity), DataIntact(f)
        PROVE  Whole(Joined(f)) = f.by
    <3>1. Decodes(f.size, f.data, f.parity)
      BY <2>3, <2>4, <2>6, JoinedIsArchive
    <3>2. Joined(f).state = "whole" /\ Joined(f).by = f.by
      BY <2>1, <2>6, <3>1 DEF Joined, FileType
    <3> QED
      BY <3>2 DEF Whole
  <2> QED
    BY <2>5, <2>6 DEF f
<1> QED
  BY <1>1, Invariant, PTL

(* A run that ends with status 0 has removed its temporary file, unless an *)
(* error was dropped in it.                                                *)
THEOREM NoTemporaryLeft == Spec => []NoTempLeft
<1>1. IInv => NoTempLeft
  BY DEF IInv
<1> QED
  BY <1>1, Invariant, PTL

(* No two goroutines draw the progress line at the same time, outside of   *)
(* decodeIfNeeded with error correction.                                   *)
THEOREM OneDrawsAtATime == Spec => []OneDrawer
<1>1. IInv => OneDrawer
  <2> SUFFICES ASSUME IInv, opt.encode # "fec", NEW j \in DOMAIN tickers, NEW k \in DOMAIN tickers,
                      tickers[j] # "ended", tickers[k] # "ended"
               PROVE  j = k
    BY DEF OneDrawer
  <2>1. tickers \in Seq(TickerStates)
    BY DEF IInv, TypeOK, TickerStates
  <2>2. DOMAIN tickers = 1 .. Len(tickers) /\ Len(tickers) \in Nat
    BY <2>1, LenProperties
  <2>3. j \notin 1 .. Len(tickers) - 1 /\ k \notin 1 .. Len(tickers) - 1
    BY DEF IInv, Drawing
  <2> QED
    BY <2>2, <2>3
<1> QED
  BY <1>1, Invariant, PTL

(* An archive of another run is only written over by create, under the     *)
(* name it announces, and only with -f, an encoding or tar.                *)
THEOREM ArchivesKept == Spec => KeepsArchives
<1>1. IInv /\ [Next]_vars =>
        [pc # "shell" => \A n \in DOMAIN disk :
           /\ n \in DOMAIN disk'
           /\ \/ disk'[n] = disk[n]
              \/ /\ cmd.mode = "c" /\ n = opt.arc
                 /\ \/ disk[n].by = runs
                    \/ cmd.force \/ opt.encode # "" \/ opt.format = "tar"]_vars
  <2> SUFFICES ASSUME IInv, [Next]_vars, pc # "shell", NEW n \in DOMAIN disk
               PROVE  /\ n \in DOMAIN disk'
                      /\ \/ disk'[n] = disk[n]
                         \/ /\ cmd.mode = "c" /\ n = opt.arc
                            /\ \/ disk[n].by = runs
                               \/ cmd.force \/ opt.encode # "" \/ opt.format = "tar"
    OBVIOUS
  <2>1. TypeOK /\ Course /\ Own
    BY DEF IInv
  <2>2. disk' = disk \/ Packs
    BY <2>1, DirectoryStep DEF Rename, GoBad, Move
  <2>3. CASE Packs
    <3>1. PICK file : disk' = Stored(opt.arc, file)
      BY <2>3 DEF Packs
    <3>2. n \in DOMAIN disk' /\ (n # opt.arc => disk'[n] = disk[n])
      BY <3>1, StoredIs
    <3>3. \/ cmd.force \/ ~Exists(opt.arc) \/ opt.format = "tar" \/ opt.encode # ""
          \/ pc = "close" /\ Output = "archive"
      BY <2>3 DEF Packs
    <3>4. CASE pc = "close" /\ Output = "archive"
      BY <2>1, <2>3, <3>2, <3>4 DEF Own, At, Packs
    <3> QED
      BY <2>3, <3>2, <3>3, <3>4 DEF Packs, Exists
  <2> QED
    BY <2>2, <2>3
<1> QED
  BY <1>1, Invariant, PTL DEF Spec, KeepsArchives

-----------------------------------------------------------------------------
(* What a run that reads finds in the archive it is given, from the name   *)
(* and the first bytes to the exit: what can be read is read, whatever the *)
(* name says of its format, and what is restored is what was written last. *)

(* The inductive invariant.                                                *)
Decoding == {"decode", "fec", "copy", "join"}

(* More about the way of a run that reads: which format and encoding take  *)
(* it where.                                                               *)
Route ==
  /\ pc = "fec" => opt.encode = "fec"
  /\ pc = "join" => disk[opt.arc].encode = "fec"
  /\ pc = "restore" => cmd.mode = "x"
  /\ At \in {"open", "restore"} => opt.format = "goxa"
  /\ pc \in Decoding /\ after = "open" => opt.format = "goxa"

(* Only goxa archives are encoded, and they always begin with a header.    *)
EncodedGoxa ==
  \A n \in DOMAIN disk :
    /\ disk[n].encode # "" => disk[n].format = "goxa"
    /\ disk[n].format = "goxa" => disk[n].holds = "more"

(* The archive named on the command line is there to be read, and encoded  *)
(* as its name says; without a header its name says everything.            *)
Good ==
  /\ Exists(opt.arc)
  /\ LET f == disk[opt.arc] IN
     /\ f.state = "whole" /\ f.encode = Said.encode
     /\ f.encode = "fec" => Fit(f) /\ DataIntact(f)
     /\ f.format = "tar" /\ f.holds = "nothing" =>
          NamedFormat = "tar" /\ cmd.comp = "any" /\ f.comp = CompressionOf(Said)

(* What extract should be able to read, its data shards as they were.      *)
Wanted(file) == Readable(file) /\ DataIntact(file)

(* The same archive, decoded.                                              *)
Plain(file, f) ==
  /\ file # None /\ file.state = "whole" /\ file.encode = ""
  /\ file.format = f.format /\ file.comp = f.comp /\ file.by = f.by /\ file.holds = f.holds

(* Format and compression are what the first bytes say.                    *)
Recognised(f) ==
  /\ opt.format = f.format
  /\ f.format = "tar" /\ cmd.comp = "any" =>
       /\ opt.noComp <=> f.comp = "none"
       /\ opt.tarUseXz <=> Said.tarUseXz \/ f.comp = "xz"

(* Before the first bytes have been looked at, and after.                  *)
Early == At = "header" \/ (pc \in Decoding /\ after = "header")
Late ==
  \/ At \in {"configure", "run", "open", "restore", "untar", "return", "fatal", "shell"}
  \/ pc \in Decoding /\ after = "open"

(* What is known of a good archive on the way: what was detected, that it  *)
(* was decoded without loss, and that what is restored is it.              *)
Detecting ==
  /\ opt.encode = Said.encode
  /\ Good /\ Early =>
       /\ opt.tarUseXz <=> Said.tarUseXz
       /\ opt.noComp <=> Said.noComp
       /\ opt.format = NamedFormat
  /\ Good /\ Late => Recognised(disk[opt.arc])
Holding ==
  /\ At \in {"configure", "run"} => ~failed
  /\ Good /\ At = "open" => ~failed
  /\ Good /\ At \in {"header", "open"} /\ opt.encode # "" =>
       ~failed /\ Plain(temp, disk[opt.arc])
Restoring ==
  Good /\ pc = "restore" => Archive.state = "whole" /\ Archive.by = disk[opt.arc].by

(* How the run ends: not in an error if the archive is readable, and with  *)
(* that archive restored.                                                  *)
Refusing == At = "fatal" \/ Done("fatal") => ~Wanted(FileAt(opt.arc))
Getting ==
  (At = "return" \/ Done("ok")) /\ cmd.mode = "x" /\ Wanted(FileAt(opt.arc)) =>
    got = disk[opt.arc].by

(* A run that reads and of which no step has failed, until files move.     *)
Reading ==
  cmd.mode \in Asking /\ Smooth /\ pc # "main" /\ (pc = "shell" => status \in {"ok", "fatal"})
Followed ==
  /\ pc = "main" => opt.arc = cmd.arc /\ opt.format = cmd.format
  /\ Reading => Detecting /\ Holding /\ Restoring /\ Refusing /\ Getting

RInv == IInv /\ Route /\ EncodedGoxa /\ Followed

-----------------------------------------------------------------------------
(* The way of a run that reads.                                            *)
LEMMA RouteStep ==
  ASSUME TypeOK, Course, Route, [Next]_vars
  PROVE  Route'
<1>0. opt \in OptType
  BY TypeParts DEF ChoicesOK
<1>1. CASE UNCHANGED vars \/ Ended \/ TickerEnds
  <2>1. UNCHANGED <<pc, after, cmd, opt, disk>>
    BY <1>1 DEF vars, Ended, TickerEnds, files
  <2> QED
    BY <2>1 DEF Route, At
<1>2. ASSUME At' \notin Decoding \cup {"open", "restore", "untar"}
      PROVE  Route'
  BY <1>2 DEF Route, At, Decoding
<1>3. CASE DetectByName
  <2>1. pc' \in {"configure", "header", "decode"} /\ after' = "header"
    BY <1>3 DEF DetectByName
  <2> QED
    BY <2>1 DEF Route, At
<1>4. CASE Run
  <2>1. UNCHANGED <<cmd, opt>> /\ after' = "open"
    BY <1>4 DEF Run
  <2>2. \/ pc' \in {"fatal", "tar", "output"}
        \/ pc' = "untar" /\ opt.format = "tar"
        \/ pc' \in {"open", "decode"} /\ opt.format = "goxa"
        \/ pc' = "fec" /\ opt.encode = "fec" /\ opt.format = "goxa"
    BY <1>0, <1>4 DEF Run, OptType
  <2> QED
    BY <2>1, <2>2 DEF Route, At, Decoding
<1>5. CASE Waited
  <2>1. pc = "wait" /\ pc' = after /\ At' = At /\ UNCHANGED <<cmd, opt>>
        /\ after \in {"header", "open", "close", "return", "fatal"}
    BY <1>5 DEF Waited, Goto, Course, At
  <2> QED
    BY <2>1 DEF Route, At, Decoding
<1>6. CASE DecodeMissing \/ FecRefuses
  <2>1. pc \in Decoding /\ pc' = after /\ after \in {"header", "open"} /\ UNCHANGED <<cmd, opt>>
    BY <1>6 DEF DecodeMissing, FecRefuses, Goto, Course, Decoding
  <2> QED
    BY <2>1 DEF Route, At, Decoding
<1>7. CASE Copy \/ Join \/ DecodingFails
  <2>1. /\ pc \in Decoding /\ pc' = "wait" /\ after' = after /\ after \in {"header", "open"}
        /\ UNCHANGED <<cmd, opt>>
    BY <1>7 DEF Copy, Join, DecodingFails, Tell, Course, Decoding
  <2> QED
    BY <2>1 DEF Route, At, Decoding
<1>8. CASE DecodeText \/ DecodeFec \/ FecOpens
  <2>1. /\ pc \in Decoding /\ UNCHANGED <<cmd, opt, disk, after>>
        /\ \/ pc' = "copy"
           \/ pc' = "fec" /\ opt.encode = "fec"
           \/ pc' = "join" /\ disk[opt.arc].encode = "fec"
    BY <1>8 DEF DecodeText, DecodeFec, FecOpens, FecComplete, Launch, files, Decoding
  <2> QED
    BY <2>1 DEF Route, At, Decoding
<1>9. CASE Open
  <2>1. /\ pc = "open" /\ UNCHANGED <<cmd, opt>>
        /\ \/ pc' = "restore" /\ cmd.mode = "x"
           \/ pc' \in {"return", "fatal"}
    BY <1>9 DEF Open, Launch, Goto
  <2> QED
    BY <2>1 DEF Route, At, Decoding
<1>10. CASE Inform \/ DetectByHeader \/ Configure \/ Return \/ Die \/ Restore \/ Untar
  <2>1. At' \in {"return", "configure", "run", "fatal", "shell"}
    BY <1>10 DEF Inform, DetectByHeader, Configure, Return, Die, Restore, Untar, Goto, Tell,
       Exit, At
  <2> QED
    BY <1>2, <2>1 DEF Decoding
<1>11. CASE Create
  <2>1. At' \in {"fatal", "walk", "entries", "close", "return", "shards", "encode", "encoding",
                 "split", "tar walk"}
    BY <1>11 DEF Create, OpenOutput, Walk, Entries, Close, EncodeText, EncodeTextEnds,
       EncodeFec, EncodeFecEnds, CreateTar, CreateTarEnds, Goto, Launch, Tell, At
  <2> QED
    BY <1>2, <2>1 DEF Decoding
<1>12. CASE WalkFails \/ Aborts \/ EncodingFails \/ EncodingEndLost \/ CreateTarFails
         \/ CreateTarEndLost \/ Crash \/ User
  <2>1. At' \in {"fatal", "return", "shell", "main"}
    BY <1>12 DEF WalkFails, Aborts, EncodingFails, EncodingEndLost, CreateTarFails,
       CreateTarEndLost, Crash, User, Start, Rename, GoBad, Move, Goto, Tell, Exit, At
  <2> QED
    BY <1>2, <2>1 DEF Decoding
<1> QED
  BY <1>1, <1>3, <1>4, <1>5, <1>6, <1>7, <1>8, <1>9, <1>10, <1>11, <1>12
  DEF Next, Program, Main, Decode, Extract, Troubles

(* What is encoded is a goxa archive.                                      *)
LEMMA EncodedGoxaStep ==
  ASSUME TypeOK, Course, EncodedGoxa, [Next]_vars
  PROVE  EncodedGoxa'
<1>1. CASE disk' = disk
  BY <1>1 DEF EncodedGoxa
<1>2. CASE Packs
  <2>1. PICK state \in States :
          \/ disk' = Stored(opt.arc, Written(state))
          \/ \E holds \in Holdings :
               disk' = Stored(opt.arc, Tarred(state, holds)) /\ opt.format = "tar"
          \/ disk' = Stored(opt.arc, Encoded(state)) /\ opt.format = "goxa"
    BY <1>2 DEF Packs
  <2>2. /\ Written(state).encode = "" /\ Encoded(state).format = opt.format
        /\ Written(state).holds = "more" /\ Encoded(state).holds = "more"
    BY WrittenIs
  <2>3. PICK file : /\ file.encode # "" => file.format = "goxa"
                    /\ file.format = "goxa" => file.holds = "more"
                    /\ disk' = Stored(opt.arc, file)
    <3>1. CASE disk' = Stored(opt.arc, Written(state))
      BY <2>2, <3>1
    <3>2. CASE disk' = Stored(opt.arc, Encoded(state)) /\ opt.format = "goxa"
      BY <2>2, <3>2
    <3>3. ASSUME NEW holds \in Holdings, opt.format = "tar",
                 disk' = Stored(opt.arc, Tarred(state, holds))
          PROVE  \E file : /\ file.encode # "" => file.format = "goxa"
                           /\ file.format = "goxa" => file.holds = "more"
                           /\ disk' = Stored(opt.arc, file)
      <4>1. Tarred(state, holds).encode = "" /\ Tarred(state, holds).format = "tar"
        BY <3>3, HoldingIs
      <4> QED
        BY <3>3, <4>1
    <3> QED
      BY <2>1, <3>1, <3>2, <3>3
  <2>4. /\ DOMAIN disk' = DOMAIN disk \cup {opt.arc}
        /\ \A n \in DOMAIN disk' : disk'[n] = IF n = opt.arc THEN file ELSE disk[n]
    BY <2>3, StoredIs
  <2> QED
    BY <2>3, <2>4 DEF EncodedGoxa
<1>3. ASSUME NEW from \in DOMAIN disk, NEW to \in Names, Rename(from, to)
      PROVE  EncodedGoxa'
  <2>1. disk' = [n \in (DOMAIN disk \ {from}) \cup {to} |-> IF n = to THEN disk[from] ELSE disk[n]]
    BY <1>3 DEF Rename, Move
  <2> QED
    BY <2>1 DEF EncodedGoxa
<1>4. ASSUME NEW name \in DOMAIN disk, GoBad(name)
      PROVE  EncodedGoxa'
  <2>1. PICK shard : disk' = [disk EXCEPT ![name].bad = @ \cup {shard}]
    BY <1>4 DEF GoBad, Move
  <2>2. disk[name] \in FileType
    BY DEF TypeOK
  <2>3. /\ DOMAIN disk' = DOMAIN disk
        /\ \A n \in DOMAIN disk : n # name => disk'[n] = disk[n]
        /\ disk'[name] = [disk[name] EXCEPT !.bad = @ \cup {shard}]
    BY <2>1
  <2>4. disk'[name].encode = disk[name].encode /\ disk'[name].format = disk[name].format
        /\ disk'[name].holds = disk[name].holds
    BY <2>2, <2>3 DEF FileType
  <2>5. \A n \in DOMAIN disk :
          /\ disk'[n].encode = disk[n].encode /\ disk'[n].format = disk[n].format
          /\ disk'[n].holds = disk[n].holds
    BY <2>3, <2>4
  <2>6. DOMAIN disk' = DOMAIN disk
    BY <2>3
  <2> QED
    BY <2>5, <2>6 DEF EncodedGoxa
<1> QED
  BY <1>1, <1>2, <1>3, <1>4, DirectoryStep

-----------------------------------------------------------------------------
(* What is known of the archive does not change on the way.                *)

(* The steps a run that reads takes, or rests with, if none has failed.    *)
Asks ==
  \/ UNCHANGED vars \/ TickerEnds \/ Waited \/ Return \/ Die
  \/ DetectByName \/ DetectByHeader \/ Configure \/ Run \/ Decode \/ Extract

LEMMA AskingSteps ==
  ASSUME TypeOK, Course, [Next]_vars, Reading'
  PROVE  Asks
<1>1. ASSUME cmd.mode \notin Asking, UNCHANGED cmd
      PROVE  FALSE
  BY <1>1 DEF Reading
<1>2. CASE Inform
  BY <1>1, <1>2 DEF Inform, Asking
<1>3. CASE Create
  <2>1. cmd.mode = "c" /\ UNCHANGED cmd
    BY <1>3 DEF Create, OpenOutput, Walk, Entries, Close, EncodeText, EncodeTextEnds,
       EncodeFec, EncodeFecEnds, CreateTar, CreateTarEnds, Course, At, Packing, Taring
  <2> QED
    BY <1>1, <2>1 DEF Asking
<1>4. CASE Troubles
  <2>1. trouble' # "none"
    BY <1>4 DEF Troubles, WalkFails, Aborts, EncodingFails, EncodingEndLost, DecodingFails,
       CreateTarFails, CreateTarEndLost, Crash, Fails
  <2> QED
    BY <2>1 DEF Reading, Smooth
<1>5. CASE User
  <2>1. pc' = "main" \/ (pc' = "shell" /\ status' = "past")
    BY <1>5 DEF User, Start, Rename, GoBad, Move
  <2> QED
    BY <2>1 DEF Reading
<1> QED
  BY <1>2, <1>3, <1>4, <1>5 DEF Next, Program, Main, Ended, Asks

LEMMA ArchiveStays ==
  ASSUME TypeOK, Course, Asks, Reading'
  PROVE  /\ UNCHANGED <<disk, cmd, trouble, opt.arc>>
         /\ pc # "main" => Reading
<1>1. opt \in OptType
  BY TypeParts DEF ChoicesOK
<1>2. UNCHANGED <<disk, cmd, trouble>>
  BY DEF Asks, vars, TickerEnds, Waited, Return, Die, DetectByName, DetectByHeader, Configure,
     Run, Decode, DecodeMissing, DecodeText, Copy, DecodeFec, FecRefuses, FecOpens, Join,
     Extract, Open, Restore, Untar, files, marks
<1>3. cmd.mode \in Asking /\ trouble = "none"
  BY <1>2 DEF Reading, Smooth
<1>4. opt'.arc = opt.arc
  <2>1. CASE DetectByName \/ DetectByHeader
    BY <1>1, <2>1 DEF DetectByName, DetectByHeader, OptType
  <2>2. CASE Configure
    BY <1>1, <1>3, <2>2 DEF Configure, OptType, Asking
  <2>3. CASE ~(DetectByName \/ DetectByHeader \/ Configure)
    <3>1. UNCHANGED opt
      BY <2>3 DEF Asks, vars, TickerEnds, Waited, Return, Die, Run, Decode, DecodeMissing,
         DecodeText, Copy, DecodeFec, FecRefuses, FecOpens, Join, Extract, Open, Restore, Untar
    <3> QED
      BY <3>1
  <2> QED
    BY <2>1, <2>2, <2>3
<1>5. pc = "shell" => status \in {"ok", "fatal"}
  <2>1. CASE UNCHANGED vars \/ TickerEnds
    BY <2>1 DEF vars, TickerEnds, Reading
  <2>2. CASE ~(UNCHANGED vars \/ TickerEnds)
    BY <2>2 DEF Asks, Waited, Return, Die, DetectByName, DetectByHeader, Configure,
       Run, Decode, DecodeMissing, DecodeText, Copy, DecodeFec, FecRefuses, FecOpens, Join,
       Extract, Open, Restore, Untar
  <2> QED
    BY <2>1, <2>2
<1> QED
  BY <1>2, <1>3, <1>4, <1>5 DEF Reading, Smooth

LEMMA GoodStays ==
  ASSUME UNCHANGED <<disk, cmd, opt.arc>>
  PROVE  /\ Said' = Said /\ NamedFormat' = NamedFormat /\ (Good' <=> Good)
         /\ FileAt(opt.arc)' = FileAt(opt.arc) /\ disk'[opt'.arc] = disk[opt.arc]
         /\ UNCHANGED opt => (Wanted(FileAt(opt.arc))' <=> Wanted(FileAt(opt.arc)))
<1>1. opt'.arc = opt.arc /\ disk' = disk
  OBVIOUS
<1>2. Said' = Said /\ NamedFormat' = NamedFormat
  BY <1>1 DEF Said, NamedFormat
<1>3. Good' <=> Good
  BY <1>1, <1>2 DEF Good, Exists
<1>4. FileAt(opt.arc)' = FileAt(opt.arc)
  BY <1>1 DEF FileAt, Exists
<1>5. ASSUME UNCHANGED opt
      PROVE  Wanted(FileAt(opt.arc))' <=> Wanted(FileAt(opt.arc))
  <2>1. PICK file : file = FileAt(opt.arc)
    OBVIOUS
  <2>2. (Refused' <=> Refused) /\ (Place' <=> Place) /\ (Barred(file)' <=> Barred(file))
    BY <1>1, <1>5 DEF Refused, Place, Exists, Barred
  <2>3. Readable(file)' <=> Readable(file)
    BY <1>2, <1>5, <2>2 DEF Readable
  <2> QED
    BY <1>4, <2>1, <2>3 DEF Wanted, Readable
<1> QED
  BY <1>1, <1>2, <1>3, <1>4, <1>5

(* A readable archive is good, and fits what follows.                      *)
LEMMA ReadableIsGood ==
  ASSUME EncodedGoxa, Wanted(FileAt(opt.arc))
  PROVE  Good /\ FileAt(opt.arc) = disk[opt.arc]
<1>1. FileAt(opt.arc) # None
  BY DEF Wanted, Readable
<1>2. Exists(opt.arc) /\ FileAt(opt.arc) = disk[opt.arc]
  BY <1>1 DEF FileAt
<1>3. disk[opt.arc].encode = "fec" => disk[opt.arc].format = "goxa"
  BY <1>2 DEF EncodedGoxa, Exists
<1>4. /\ disk[opt.arc].state = "whole" /\ disk[opt.arc].encode = Said.encode
      /\ disk[opt.arc].encode = "fec" => Fit(disk[opt.arc]) /\ DataIntact(disk[opt.arc])
      /\ disk[opt.arc].format = "tar" /\ disk[opt.arc].holds = "nothing" =>
           /\ NamedFormat = "tar" /\ cmd.comp = "any"
           /\ disk[opt.arc].comp = CompressionOf(Said)
  BY <1>2, <1>3 DEF Wanted, Readable
<1> QED
  BY <1>2, <1>4 DEF Good

(* What fits the header is decoded.                                        *)
LEMMA GoodJoins ==
  ASSUME TypeOK, FecSound, Good, disk[opt.arc].encode = "fec"
  PROVE  /\ Joins(disk[opt.arc].size, disk[opt.arc].data, disk[opt.arc].parity)
         /\ Decodes(disk[opt.arc].size, disk[opt.arc].data, disk[opt.arc].parity)
         /\ FecComplete(disk[opt.arc])
<1> DEFINE f == disk[opt.arc]
<1>1. f \in FileType /\ f.state = "whole" /\ Fit(f) /\ NewStream(f.data, f.parity)
  BY DEF TypeOK, Good, Exists, FecSound
<1>2. f.size \in Nat /\ f.data \in Nat /\ f.parity \in Nat
  BY <1>1 DEF FileType
<1> HIDE DEF f
<1>3. Joins(f.size, f.data, f.parity)
  BY <1>1, <1>2, FittingJoins DEF Fit
<1>4. NewStream(Header(f.size, f.data, f.parity).data, Header(f.size, f.data, f.parity).parity)
  BY <1>3 DEF Joins
<1>5. f.encode = "fec"
  BY DEF f
<1>6. FecComplete(f)
  BY <1>1, <1>4, <1>5 DEF FecComplete
<1>7. Decodes(f.size, f.data, f.parity)
  BY <1>1, <1>2, <1>3, JoinedIsArchive DEF NewStream
<1> QED
  BY <1>3, <1>6, <1>7 DEF f

-----------------------------------------------------------------------------
(* What is known of it on the way, and how the run ends.                   *)
LEMMA DetectingStep ==
  ASSUME TypeOK, Course, EncodedGoxa, Followed, Asks, Reading'
  PROVE  Detecting'
<1>0. /\ opt \in OptType /\ cmd \in CommandType
      /\ UNCHANGED <<disk, cmd, opt.arc>> /\ (pc # "main" => Detecting /\ Holding)
      /\ Said' = Said /\ NamedFormat' = NamedFormat
      /\ (Good' <=> Good) /\ disk'[opt'.arc] = disk[opt.arc]
  BY TypeParts, CommandKnown, ArchiveStays, GoodStays DEF ChoicesOK, Followed
<1>1. ASSUME UNCHANGED opt, pc # "main", Early' => Early, Late' => Late
      PROVE  Detecting'
  <2>1. Recognised(disk[opt.arc]) => Recognised(disk[opt.arc])'
    BY <1>0, <1>1 DEF Recognised
  <2> QED
    BY <1>0, <1>1, <2>1 DEF Detecting
<1>2. CASE UNCHANGED vars \/ TickerEnds
  <2>1. UNCHANGED <<opt, pc, after>> /\ pc # "main"
    BY <1>2 DEF vars, TickerEnds, Reading
  <2> QED
    BY <1>1, <2>1 DEF Early, Late, At
<1>3. CASE Waited
  <2>1. /\ UNCHANGED <<opt, after>> /\ pc = "wait" /\ pc' = after
        /\ after \in {"header", "open", "close", "return", "fatal"}
    BY <1>3 DEF Waited, Goto, Course
  <2> QED
    BY <1>1, <2>1 DEF Early, Late, At, Decoding
<1>4. CASE Return \/ Die
  <2>1. UNCHANGED opt /\ pc \in {"return", "fatal"} /\ pc' = "shell"
    BY <1>4 DEF Return, Die, Exit
  <2> QED
    BY <1>1, <2>1 DEF Early, Late, At, Decoding
<1>5. CASE Run
  <2>1. UNCHANGED opt /\ pc = "run" /\ after' = "open" /\ pc' \notin {"header", "wait"}
    BY <1>5 DEF Run
  <2> QED
    BY <1>1, <2>1 DEF Early, Late, At, Decoding
<1>6. CASE DecodeMissing \/ FecRefuses
  <2>1. /\ UNCHANGED <<opt, after>> /\ pc \in Decoding /\ pc' = after /\ after \in {"header", "open"}
    BY <1>6 DEF DecodeMissing, FecRefuses, Goto, Course, Decoding
  <2> QED
    BY <1>1, <2>1 DEF Early, Late, At, Decoding
<1>7. CASE DecodeText \/ DecodeFec \/ FecOpens
  <2>1. UNCHANGED <<opt, after>> /\ pc \in Decoding /\ pc' \in Decoding
    BY <1>7 DEF DecodeText, DecodeFec, FecOpens, Launch, Decoding
  <2> QED
    BY <1>1, <2>1 DEF Early, Late, At, Decoding
<1>8. CASE Copy \/ Join
  <2>1. /\ UNCHANGED opt /\ pc \in Decoding /\ pc' = "wait" /\ after' = after
        /\ after \in {"header", "open"}
    BY <1>8 DEF Copy, Join, Tell, Course, Decoding
  <2> QED
    BY <1>1, <2>1 DEF Early, Late, At, Decoding
<1>9. CASE Extract
  <2>1. /\ UNCHANGED opt /\ pc \in {"open", "restore", "untar"}
        /\ pc' \in {"restore", "return", "fatal"} \/ (pc' = "wait" /\ after' = "return")
    BY <1>9 DEF Extract, Open, Restore, Untar, Goto, Launch, Tell
  <2> QED
    BY <1>1, <2>1 DEF Early, Late, At, Decoding
(* The name.                                                               *)
<1>10. CASE DetectByName
  <2>1. pc = "main" /\ opt.arc = cmd.arc /\ cmd.arc \in Names /\ opt.format = cmd.format
    BY <1>0, <1>10 DEF DetectByName, Followed, CommandType
  <2>2. Detected[cmd.arc] = Said
    BY <2>1 DEF Detected, Said
  <2>3. /\ opt'.encode = Said.encode /\ opt'.tarUseXz = Said.tarUseXz
        /\ opt'.noComp = Said.noComp /\ opt'.format = NamedFormat
    BY <1>0, <1>10, <2>1, <2>2 DEF DetectByName, OptType, NamedFormat
  <2>4. pc' \in {"configure", "header", "decode"} /\ after' = "header" /\ cmd'.mode # "c"
    BY <1>10 DEF DetectByName, Reading, Asking
  <2>5. pc' # "configure"
    BY <1>0, <1>10, <2>4 DEF DetectByName
  <2>6. ~Late'
    BY <2>4, <2>5 DEF Late, At
  <2> QED
    BY <1>0, <2>3, <2>6 DEF Detecting
(* The first bytes.                                                        *)
<1>11. CASE DetectByHeader
  <2>1. pc = "header" /\ pc' = "configure" /\ Detecting /\ Holding
    BY <1>0, <1>11 DEF DetectByHeader, Goto
  <2>2. PICK file \in Seen(IF opt.encode = "" THEN FileAt(opt.arc) ELSE temp) :
          opt' = IF file = None THEN opt
                 ELSE [opt EXCEPT !.format = file.format,
                         !.noComp = IF file.format = "tar" THEN file.comp = "none" ELSE @,
                         !.tarUseXz = @ \/ file.comp = "xz"]
    BY <1>11 DEF DetectByHeader
  <2>3. opt'.encode = opt.encode
    BY <1>0, <2>2 DEF OptType
  <2>4. ASSUME Good
        PROVE  Recognised(disk[opt.arc])'
    <3> DEFINE f == disk[opt.arc]
    <3>1. f \in FileType /\ f.state = "whole" /\ f.encode = opt.encode
      BY <2>1, <2>4 DEF TypeOK, Good, Exists, Detecting
    <3>2. /\ opt.tarUseXz <=> Said.tarUseXz
          /\ opt.noComp <=> Said.noComp
          /\ opt.format = NamedFormat
      BY <2>1, <2>4 DEF Detecting, Early, At
    <3>3. disk'[opt'.arc] = f
      BY <1>0
    <3>4. /\ f.encode # "" => f.format = "goxa"
          /\ f.format = "goxa" => f.holds = "more"
      BY <2>4 DEF EncodedGoxa, Good, Exists
    <3>5. CASE f.holds # "nothing"
      <4>1. file # None /\ file.format = f.format /\ file.comp = f.comp
        <5>1. CASE opt.encode = ""
          <6>1. FileAt(opt.arc) = f /\ f # None
            BY <2>4, <3>1, NoneAssumption DEF FileAt, Good
          <6>2. Seen(f) = {f}
            BY <3>1, <3>5, <5>1, <6>1 DEF Seen, Encodings
          <6> QED
            BY <2>2, <5>1, <6>1, <6>2
        <5>2. CASE opt.encode # ""
          <6>1. Plain(temp, f)
            BY <2>1, <2>4, <5>2 DEF Holding, At
          <6>2. Seen(temp) = {temp}
            BY <3>5, <6>1 DEF Seen, Plain, Encodings
          <6> QED
            BY <2>2, <5>2, <6>1, <6>2 DEF Plain
        <5> QED
          BY <5>1, <5>2
      <4> HIDE DEF f
      <4>2. /\ opt'.format = f.format
            /\ f.format = "tar" => (opt'.noComp <=> f.comp = "none")
            /\ opt'.tarUseXz <=> opt.tarUseXz \/ f.comp = "xz"
        BY <1>0, <2>2, <4>1 DEF OptType
      <4> QED
        BY <1>0, <3>2, <3>3, <4>2 DEF Recognised
    <3>6. CASE f.holds = "nothing"
      <4>1. f.format = "tar" /\ f.encode = ""
        BY <3>1, <3>4, <3>6 DEF FileType
      <4>2. NamedFormat = "tar" /\ f.comp = CompressionOf(Said)
        BY <2>4, <3>6, <4>1 DEF Good
      <4>3. FileAt(opt.arc) = f /\ opt.encode = ""
        BY <2>4, <3>1, <4>1 DEF FileAt, Good
      <4>4. Seen(f) = {None}
        BY <3>6 DEF Seen
      <4>5. opt' = opt
        BY <2>2, <4>3, <4>4
      <4> HIDE DEF f
      <4>6. /\ opt.noComp <=> f.comp = "none"
            /\ opt.tarUseXz <=> Said.tarUseXz \/ f.comp = "xz"
        BY <3>2, <4>2 DEF CompressionOf
      <4> QED
        BY <1>0, <3>2, <3>3, <4>1, <4>2, <4>5, <4>6 DEF Recognised
    <3> QED
      BY <3>5, <3>6
  <2>5. ~Early'
    BY <2>1 DEF Early, At, Decoding
  <2> QED
    BY <1>0, <2>1, <2>3, <2>4, <2>5 DEF Detecting
(* The options.                                                            *)
<1>12. CASE Configure
  <2>1. pc = "configure" /\ pc' \in {"run", "fatal"} /\ Detecting
    BY <1>0, <1>12 DEF Configure, Goto
  <2>2. /\ opt'.encode = opt.encode /\ opt'.format = opt.format
        /\ opt'.noComp <=> opt.noComp \/ cmd.comp = "none"
        /\ opt'.tarUseXz <=> opt.tarUseXz \/ (cmd.comp = "xz" /\ opt.format = "tar")
    BY <1>0, <1>12 DEF Configure, OptType
  <2>3. Recognised(disk[opt.arc]) => Recognised(disk[opt.arc])'
    BY <1>0, <2>2 DEF Recognised
  <2>4. ~Early' /\ Late
    BY <2>1 DEF Early, Late, At, Decoding
  <2> QED
    BY <1>0, <2>1, <2>2, <2>3, <2>4 DEF Detecting
<1> QED
  BY <1>2, <1>3, <1>4, <1>5, <1>6, <1>7, <1>8, <1>9, <1>10, <1>11, <1>12 DEF Asks, Decode

LEMMA HoldingStep ==
  ASSUME TypeOK, Course, Route, FecSound, Followed, Asks, Reading'
  PROVE  Holding'
<1>0. /\ UNCHANGED <<disk, cmd, opt.arc>> /\ (pc # "main" => Detecting /\ Holding)
      /\ Said' = Said /\ (Good' <=> Good) /\ disk'[opt'.arc] = disk[opt.arc]
  BY ArchiveStays, GoodStays DEF Followed
<1>1. ASSUME UNCHANGED <<opt, failed>>, pc # "main", At' = At,
             ~failed => UNCHANGED temp
      PROVE  Holding'
  <2>1. Plain(temp, disk[opt.arc]) /\ ~failed => Plain(temp, disk[opt.arc])'
    BY <1>0, <1>1 DEF Plain
  <2> QED
    BY <1>0, <1>1, <2>1 DEF Holding
<1>2. ASSUME At' \notin {"configure", "run", "header", "open"}
      PROVE  Holding'
  BY <1>2 DEF Holding
<1>3. ASSUME At' \in {"header", "open"}, ~Good
      PROVE  Holding'
  BY <1>0, <1>3 DEF Holding
<1>4. CASE UNCHANGED vars \/ TickerEnds
  <2>1. UNCHANGED <<opt, pc, after, failed, temp>> /\ pc # "main"
    BY <1>4 DEF vars, TickerEnds, Reading, files, marks
  <2> QED
    BY <1>1, <2>1 DEF At
<1>5. CASE Waited
  <2>1. /\ UNCHANGED <<opt, failed>> /\ pc = "wait" /\ pc' = after
        /\ after \in {"header", "open", "close", "return", "fatal"}
        /\ temp' = IF failed THEN None ELSE temp
    BY <1>5 DEF Waited, Goto, Course, marks
  <2> QED
    BY <1>1, <2>1 DEF At
<1>6. CASE Return \/ Die \/ DecodeText \/ DecodeFec \/ FecOpens \/ Extract
  <2>1. At' \in {"shell", "copy", "fec", "join", "restore", "return", "fatal"}
    BY <1>6 DEF Return, Die, DecodeText, DecodeFec, FecOpens, Extract, Open, Restore, Untar,
       Exit, Launch, Tell, Goto, At
  <2> QED
    BY <1>2, <2>1
<1>7. CASE Run
  <2>1. /\ UNCHANGED <<opt, failed>> /\ ~failed
    BY <1>0, <1>7 DEF Run, marks, Holding, At
  <2>2. pc' \notin {"configure", "run", "header", "wait"} /\ (pc' = "open" => opt.encode = "")
    BY <1>7 DEF Run
  <2> QED
    BY <2>1, <2>2 DEF Holding, At
<1>8. CASE DetectByName
  <2>1. pc' = "header" => opt'.encode = ""
    <3>1. opt \in OptType
      BY TypeParts DEF ChoicesOK
    <3>2. cmd.mode # "c"
      BY <1>0 DEF Reading, Asking
    <3> QED
      BY <1>8, <3>1, <3>2 DEF DetectByName, OptType
  <2>2. pc' \in {"header", "decode"}
    BY <1>0, <1>8 DEF DetectByName, Reading, Asking
  <2> QED
    BY <2>1, <2>2 DEF Holding, At
<1>9. CASE DetectByHeader
  <2>1. pc' = "configure" /\ failed' = FALSE
    BY <1>9 DEF DetectByHeader, Goto
  <2> QED
    BY <2>1 DEF Holding, At
<1>10. CASE Configure
  <2>1. pc' \in {"run", "fatal"} /\ ~failed /\ UNCHANGED failed
    BY <1>0, <1>10 DEF Configure, Goto, marks, Holding, At
  <2> QED
    BY <2>1 DEF Holding, At
(* Decoding.                                                               *)
<1>11. CASE DecodeMissing
  <2>1. pc' = after /\ after \in {"header", "open"} /\ ~Good
    BY <1>11 DEF DecodeMissing, Goto, Course, Good
  <2> QED
    BY <1>3, <2>1 DEF At
<1>12. CASE FecRefuses
  <2>1. pc = "fec" /\ pc' = after /\ after \in {"header", "open"} /\ opt.encode = "fec"
        /\ ~FecComplete(disk[opt.arc])
    BY <1>12 DEF FecRefuses, Goto, Course, Route
  <2>2. Good => disk[opt.arc].encode = "fec"
    BY <1>0, <2>1 DEF Good, Detecting
  <2>3. ~Good
    BY <2>1, <2>2, GoodJoins
  <2> QED
    BY <1>3, <2>1, <2>3 DEF At
<1>13. CASE Copy
  <2>1. /\ pc = "copy" /\ pc' = "wait" /\ after' = after /\ after \in {"header", "open"}
        /\ UNCHANGED opt /\ Exists(opt.arc)
    BY <1>13 DEF Copy, Tell, Course
  <2>2. ASSUME Good
        PROVE  failed' = FALSE /\ Plain(temp, disk[opt.arc])'
    <3> DEFINE f == disk[opt.arc]
    <3>1. f \in FileType /\ f.state = "whole" /\ f.encode = opt.encode
      BY <1>0, <2>1, <2>2 DEF TypeOK, Good, Exists, Detecting
    <3>2. temp' = [f EXCEPT !.encode = ""] /\ failed' = FALSE
      BY <1>13, <3>1 DEF Copy
    <3>3. temp' \in FileType
      BY <3>1, <3>2, DecodedType
    <3>4. temp' # None
      BY <3>3, NoneAssumption
    <3>5. /\ temp'.state = "whole" /\ temp'.encode = "" /\ temp'.format = f.format
          /\ temp'.comp = f.comp /\ temp'.by = f.by /\ temp'.holds = f.holds
      BY <3>1, <3>2 DEF FileType
    <3>6. disk'[opt'.arc] = f
      BY <1>0
    <3> HIDE DEF f
    <3> QED
      BY <3>2, <3>4, <3>5, <3>6 DEF Plain
  <2> QED
    BY <1>0, <2>1, <2>2 DEF Holding, At
<1>14. CASE Join
  <2>1. /\ pc = "join" /\ pc' = "wait" /\ after' = after /\ after \in {"header", "open"}
        /\ UNCHANGED opt /\ Exists(opt.arc) /\ disk[opt.arc].encode = "fec"
    BY <1>14 DEF Join, Tell, Course, Route
  <2>2. ASSUME Good
        PROVE  failed' = FALSE /\ Plain(temp, disk[opt.arc])'
    <3> DEFINE f == disk[opt.arc]
    <3>1. f \in FileType /\ DataIntact(f)
      BY <2>1, <2>2 DEF TypeOK, Good, Exists
    <3>2. Joins(f.size, f.data, f.parity) /\ Decodes(f.size, f.data, f.parity)
      BY <2>1, <2>2, GoodJoins
    <3>3. temp' = Joined(f) /\ failed' = FALSE
      BY <1>14, <3>2 DEF Join
    <3>4. temp' \in FileType
      BY <3>1, <3>3, DecodedType
    <3>5. temp' # None
      BY <3>4, NoneAssumption
    <3>6. disk'[opt'.arc] = f
      BY <1>0
    <3> HIDE DEF f
    <3>7. /\ temp'.state = "whole" /\ temp'.encode = "" /\ temp'.format = f.format
          /\ temp'.comp = f.comp /\ temp'.by = f.by /\ temp'.holds = f.holds
      BY <3>1, <3>2, <3>3 DEF FileType, Joined
    <3> QED
      BY <3>3, <3>5, <3>6, <3>7 DEF Plain
  <2> QED
    BY <1>0, <2>1, <2>2 DEF Holding, At
<1> QED
  BY <1>4, <1>5, <1>6, <1>7, <1>8, <1>9, <1>10, <1>11, <1>12, <1>13, <1>14 DEF Asks, Decode

(* What extract finds when it opens the archive.                           *)
LEMMA GoodIsFound ==
  ASSUME TypeOK, Detecting, Holding, Good, At = "open"
  PROVE  /\ Archive # None /\ Archive.encode = "" /\ Archive.state = "whole"
         /\ Archive.format = disk[opt.arc].format /\ Archive.by = disk[opt.arc].by
<1>1. ~failed /\ disk[opt.arc].encode = opt.encode /\ disk[opt.arc].state = "whole"
  BY DEF Holding, Detecting, Good
<1>2. CASE opt.encode = ""
  <2>1. Archive = disk[opt.arc] /\ disk[opt.arc] \in FileType
    BY <1>1, <1>2 DEF Archive, FileAt, Good, TypeOK, Exists
  <2> QED
    BY <1>1, <1>2, <2>1, NoneAssumption
<1>3. CASE opt.encode # ""
  <2>1. Archive = temp /\ Plain(temp, disk[opt.arc])
    BY <1>1, <1>3 DEF Archive, Holding
  <2> QED
    BY <2>1 DEF Plain
<1> QED
  BY <1>2, <1>3

LEMMA RestoringStep ==
  ASSUME TypeOK, Course, Followed, Asks, Reading'
  PROVE  Restoring'
<1>0. /\ UNCHANGED <<disk, cmd, opt.arc>> /\ (pc # "main" => Detecting /\ Holding /\ Restoring)
      /\ (Good' <=> Good) /\ disk'[opt'.arc] = disk[opt.arc]
      /\ FileAt(opt.arc)' = FileAt(opt.arc)
  BY ArchiveStays, GoodStays DEF Followed
<1>1. ASSUME pc' # "restore"
      PROVE  Restoring'
  BY <1>1 DEF Restoring
<1>2. CASE UNCHANGED vars \/ TickerEnds
  <2>1. UNCHANGED <<opt, pc, failed, temp>> /\ pc # "main"
    BY <1>2 DEF vars, TickerEnds, Reading, files, marks
  <2>2. Archive' = Archive
    BY <1>0, <2>1 DEF Archive
  <2> QED
    BY <1>0, <2>1, <2>2 DEF Restoring
<1>3. CASE Open
  <2>1. pc = "open" /\ UNCHANGED <<opt, failed, temp>>
    BY <1>3 DEF Open, files, marks
  <2>2. Archive' = Archive
    BY <1>0, <2>1 DEF Archive
  <2>3. Good => Archive.state = "whole" /\ Archive.by = disk[opt.arc].by
    BY <1>0, <2>1, GoodIsFound DEF At
  <2> QED
    BY <1>0, <2>2, <2>3 DEF Restoring
<1>4. CASE Asks /\ ~(UNCHANGED vars \/ TickerEnds \/ Open)
  <2>1. pc' # "restore"
    BY <1>4 DEF Asks, Waited, Return, Die, DetectByName, DetectByHeader, Configure, Run,
       Decode, DecodeMissing, DecodeText, Copy, DecodeFec, FecRefuses, FecOpens, Join,
       Extract, Restore, Untar, Goto, Launch, Tell, Exit, Course
  <2> QED
    BY <1>1, <2>1
<1> QED
  BY <1>2, <1>3, <1>4

LEMMA RefusingStep ==
  ASSUME TypeOK, Course, Route, EncodedGoxa, Followed, Asks, Reading'
  PROVE  Refusing'
<1>0. /\ opt \in OptType
      /\ UNCHANGED <<disk, cmd, opt.arc>> /\ (pc # "main" => Detecting /\ Holding /\ Refusing)
      /\ FileAt(opt.arc)' = FileAt(opt.arc)
      /\ UNCHANGED opt => (Wanted(FileAt(opt.arc))' <=> Wanted(FileAt(opt.arc)))
  <2>1. UNCHANGED <<disk, cmd, opt.arc>> /\ (pc # "main" => Detecting /\ Holding /\ Refusing)
    BY ArchiveStays DEF Followed
  <2> QED
    BY <2>1, GoodStays, TypeParts DEF ChoicesOK
<1>1. ASSUME At' # "fatal", ~Done("fatal")'
      PROVE  Refusing'
  BY <1>1 DEF Refusing
<1>2. ASSUME UNCHANGED opt, pc # "main", At = "fatal" \/ Done("fatal")
      PROVE  Refusing'
  BY <1>0, <1>2 DEF Refusing
<1>3. ASSUME UNCHANGED opt, ~Wanted(FileAt(opt.arc))
      PROVE  Refusing'
  BY <1>0, <1>3 DEF Refusing
<1>4. CASE UNCHANGED vars \/ TickerEnds
  <2>1. UNCHANGED <<opt, pc, after, status>> /\ pc # "main"
    BY <1>4 DEF vars, TickerEnds, Reading
  <2> QED
    BY <1>1, <1>2, <2>1 DEF At, Done
<1>5. CASE Waited
  <2>1. UNCHANGED opt /\ pc = "wait" /\ pc' = after /\ after # "shell" /\ after # "wait"
    BY <1>5 DEF Waited, Goto, Course
  <2> QED
    BY <1>1, <1>2, <2>1 DEF At, Done
<1>6. CASE Die
  <2>1. UNCHANGED opt /\ pc = "fatal"
    BY <1>6 DEF Die
  <2> QED
    BY <1>2, <2>1 DEF At
<1>7. CASE Return \/ DetectByName \/ DetectByHeader \/ Decode
  <2>1. At' # "fatal"
    BY <1>7 DEF Return, DetectByName, DetectByHeader, Decode, DecodeMissing, DecodeText, Copy,
       DecodeFec, FecRefuses, FecOpens, Join, Goto, Launch, Tell, Exit, Course, At
  <2>2. ~Done("fatal")'
    BY <1>7 DEF Return, DetectByName, DetectByHeader, Decode, DecodeMissing, DecodeText, Copy,
       DecodeFec, FecRefuses, FecOpens, Join, Goto, Launch, Tell, Exit, Course, Done
  <2> QED
    BY <1>1, <2>1, <2>2
<1>8. CASE Configure
  <2>1. pc' = "run" \/ (pc' = "fatal" /\ ~cmd'.valid)
    BY <1>0, <1>8 DEF Configure, Goto
  <2>2. ~cmd'.valid => ~Wanted(FileAt(opt.arc))'
    BY DEF Wanted, Readable
  <2> QED
    BY <2>1, <2>2 DEF Refusing, At, Done
<1>9. CASE Run
  <2>1. UNCHANGED opt /\ pc' \notin {"shell", "wait"} /\ (pc' = "fatal" => Refused)
    BY <1>0, <1>9 DEF Run, OptType
  <2>2. Refused => ~Wanted(FileAt(opt.arc))
    BY DEF Wanted, Readable
  <2> QED
    BY <1>1, <1>3, <2>1, <2>2 DEF At, Done
(* A readable archive is opened and restored.                              *)
<1>10. CASE Open
  <2>1. /\ pc = "open" /\ UNCHANGED opt /\ opt.format = "goxa"
        /\ pc' \in {"restore", "return", "fatal"} /\ (pc' = "fatal" => ~Sound(Archive))
    BY <1>10 DEF Open, Launch, Goto, Route, At
  <2>2. Good => Sound(Archive)
    <3>1. Good => Recognised(disk[opt.arc])
      BY <1>0, <2>1 DEF Detecting, Late, At
    <3>2. Good => disk[opt.arc].format = "goxa"
      BY <2>1, <3>1 DEF Recognised
    <3> QED
      BY <1>0, <2>1, <3>2, GoodIsFound DEF Sound, At
  <2>3. ~Sound(Archive) => ~Wanted(FileAt(opt.arc))
    BY <2>2, ReadableIsGood
  <2> QED
    BY <1>1, <1>3, <2>1, <2>3 DEF At, Done
<1>11. CASE Restore
  <2>1. /\ pc = "restore" /\ UNCHANGED opt /\ opt.format = "goxa" /\ cmd.mode = "x"
        /\ \/ pc' = "wait" /\ after' = "return"
           \/ pc' = "fatal" /\ (~Place \/ cmd.dest = "here")
    BY <1>11 DEF Restore, Tell, Goto, Route, At
  <2>2. Good => disk[opt.arc].format = "goxa"
    BY <1>0, <2>1 DEF Detecting, Late, At, Recognised
  <2>3. ~Place \/ cmd.dest = "here" => ~Wanted(FileAt(opt.arc))
    <3>1. Wanted(FileAt(opt.arc)) => FileAt(opt.arc).format = "goxa"
      BY <2>2, ReadableIsGood
    <3> QED
      BY <2>1, <3>1 DEF Wanted, Readable
  <2> QED
    BY <1>1, <1>3, <2>1, <2>3 DEF At, Done
<1>12. CASE Untar
  <2> DEFINE file == FileAt(opt.arc)
  <2>1. /\ pc = "untar" /\ UNCHANGED opt /\ opt.format = "tar"
        /\ pc' = "return" \/ (pc' = "fatal" /\ ~Unpacks(file))
    BY <1>12 DEF Untar, Goto, Course, At
  <2>2. ASSUME Wanted(file)
        PROVE  Unpacks(file)
    <3>1. Good /\ file = disk[opt.arc]
      BY <2>2, ReadableIsGood
    <3>2. Recognised(file)
      BY <1>0, <2>1, <3>1 DEF Detecting, Late, At
    <3>3. file.format = "tar"
      BY <2>1, <3>2 DEF Recognised
    <3>4. /\ file # None /\ file.state = "whole" /\ cmd.comp = "any" /\ ~Barred(file)
          /\ ~(Said.tarUseXz /\ file.comp = "gzip")
      BY <2>2, <3>3 DEF Wanted, Readable
    <3>5. file.encode = ""
      BY <3>1, <3>3 DEF EncodedGoxa, Good, Exists
    <3>6. file.comp \in {"none", "gzip", "xz"}
      BY <3>1 DEF TypeOK, Good, Exists, FileType, Compressions
    <3>7. /\ opt.noComp <=> file.comp = "none"
          /\ opt.tarUseXz <=> Said.tarUseXz \/ file.comp = "xz"
      BY <3>2, <3>3, <3>4 DEF Recognised
    <3> HIDE DEF file
    <3>8. file.comp = Compression
      BY <3>4, <3>6, <3>7 DEF Compression, CompressionOf
    <3> QED
      BY <3>3, <3>4, <3>5, <3>8 DEF Unpacks
  <2> QED
    BY <1>1, <1>3, <2>1, <2>2 DEF At, Done
<1> QED
  BY <1>4, <1>5, <1>6, <1>7, <1>8, <1>9, <1>10, <1>11, <1>12 DEF Asks, Extract

LEMMA GettingStep ==
  ASSUME TypeOK, Course, Route, EncodedGoxa, Followed, Asks, Reading'
  PROVE  Getting'
<1>0. /\ UNCHANGED <<disk, cmd, opt.arc>>
      /\ (pc # "main" => Detecting /\ Restoring /\ Getting)
      /\ disk'[opt'.arc] = disk[opt.arc]
      /\ UNCHANGED opt => (Wanted(FileAt(opt.arc))' <=> Wanted(FileAt(opt.arc)))
  <2>1. /\ UNCHANGED <<disk, cmd, opt.arc>>
        /\ (pc # "main" => Detecting /\ Restoring /\ Getting)
    BY ArchiveStays DEF Followed
  <2> QED
    BY <2>1, GoodStays
<1>1. ASSUME At' # "return", ~Done("ok")'
      PROVE  Getting'
  BY <1>1 DEF Getting
<1>2. ASSUME UNCHANGED <<opt, got>>, pc # "main", At = "return" \/ Done("ok")
      PROVE  Getting'
  BY <1>0, <1>2 DEF Getting
<1>3. ASSUME UNCHANGED opt, Wanted(FileAt(opt.arc)) => got' = disk[opt.arc].by
      PROVE  Getting'
  BY <1>0, <1>3 DEF Getting
<1>4. CASE UNCHANGED vars \/ TickerEnds
  <2>1. UNCHANGED <<opt, pc, after, status, got>> /\ pc # "main"
    BY <1>4 DEF vars, TickerEnds, Reading, marks
  <2> QED
    BY <1>1, <1>2, <2>1 DEF At, Done
<1>5. CASE Waited
  <2>1. UNCHANGED <<opt, got>> /\ pc = "wait" /\ pc' = after /\ after # "shell" /\ after # "wait"
    BY <1>5 DEF Waited, Goto, Course, marks
  <2> QED
    BY <1>1, <1>2, <2>1 DEF At, Done
<1>6. CASE Return
  <2>1. UNCHANGED <<opt, got>> /\ pc = "return"
    BY <1>6 DEF Return, marks
  <2> QED
    BY <1>2, <2>1 DEF At
<1>7. CASE Die \/ DetectByName \/ DetectByHeader \/ Configure \/ Run \/ Decode
  <2>1. At' # "return"
    BY <1>7 DEF Die, DetectByName, DetectByHeader, Configure, Run, Decode, DecodeMissing,
       DecodeText, Copy, DecodeFec, FecRefuses, FecOpens, Join, Goto, Launch, Tell, Exit,
       Course, At
  <2>2. ~Done("ok")'
    BY <1>7 DEF Die, DetectByName, DetectByHeader, Configure, Run, Decode, DecodeMissing,
       DecodeText, Copy, DecodeFec, FecRefuses, FecOpens, Join, Goto, Launch, Tell, Exit,
       Course, Done
  <2> QED
    BY <1>1, <2>1, <2>2
<1>8. CASE Open
  <2>1. /\ pc' = "return" => cmd.mode # "x"
        /\ pc' \in {"restore", "return", "fatal"}
    BY <1>8 DEF Open, Launch, Goto
  <2> QED
    BY <1>0, <2>1 DEF Getting, At, Done
<1>9. CASE Restore
  <2>1. CASE pc' = "fatal"
    BY <1>1, <2>1 DEF At, Done
  <2>2. CASE pc' # "fatal"
    <3>1. /\ pc = "restore" /\ UNCHANGED opt /\ opt.format = "goxa" /\ cmd.mode = "x"
          /\ got' = Whole(Archive) \/ cmd.dest = "here"
      BY <1>9, <2>2 DEF Restore, Goto, Route, At
    <3>2. Good => Whole(Archive) = disk[opt.arc].by /\ disk[opt.arc].format = "goxa"
      BY <1>0, <3>1 DEF Restoring, Whole, Detecting, Late, At, Recognised
    <3>3. Wanted(FileAt(opt.arc)) /\ FileAt(opt.arc).format = "goxa" => cmd.dest # "here"
      BY <3>1 DEF Wanted, Readable
    <3> QED
      BY <1>3, <3>1, <3>2, <3>3, ReadableIsGood
  <2> QED
    BY <2>1, <2>2
<1>10. CASE Untar
  <2>1. CASE pc' = "fatal"
    BY <1>1, <2>1 DEF At, Done
  <2>2. CASE pc' # "fatal"
    <3>1. UNCHANGED opt /\ got' = Whole(FileAt(opt.arc))
      BY <1>10, <2>2 DEF Untar, Goto
    <3>2. Wanted(FileAt(opt.arc)) => FileAt(opt.arc) = disk[opt.arc] /\ Good
      BY ReadableIsGood
    <3>3. Good => disk[opt.arc].state = "whole"
      BY DEF Good
    <3> QED
      BY <1>3, <3>1, <3>2, <3>3 DEF Whole
  <2> QED
    BY <2>1, <2>2
<1> QED
  BY <1>4, <1>5, <1>6, <1>7, <1>8, <1>9, <1>10 DEF Asks, Extract

-----------------------------------------------------------------------------
LEMMA FollowedStep ==
  ASSUME TypeOK, Course, Route, FecSound, EncodedGoxa, Followed, [Next]_vars
  PROVE  Followed'
<1>1. pc' = "main" => opt'.arc = cmd'.arc /\ opt'.format = cmd'.format
  <2>1. ASSUME pc' = "main"
        PROVE  UNCHANGED vars \/ TickerEnds \/ \E c : Start(c)
    BY <2>1 DEF Next, Program, Main, Inform, DetectByName, DetectByHeader, Configure, Run, Waited,
       Return, Die, Decode, DecodeMissing, DecodeText, Copy, DecodeFec, FecRefuses, FecOpens,
       Join, Extract, Open, Restore, Untar, Create, OpenOutput, Walk, Entries, Close, EncodeText,
       EncodeTextEnds, EncodeFec, EncodeFecEnds, CreateTar, CreateTarEnds, Troubles, WalkFails,
       Aborts, EncodingFails, EncodingEndLost, DecodingFails, CreateTarFails, CreateTarEndLost,
       Crash, User, Rename, GoBad, Move, Ended, Goto, Launch, Tell, Exit, Course
  <2>2. CASE UNCHANGED vars \/ TickerEnds
    <3>1. UNCHANGED <<pc, cmd, opt>>
      BY <2>2 DEF vars, TickerEnds
    <3>2. pc = "main" => opt.arc = cmd.arc /\ opt.format = cmd.format
      BY DEF Followed
    <3> QED
      BY <3>1, <3>2
  <2>3. ASSUME NEW c, Start(c)
        PROVE  opt'.arc = cmd'.arc /\ opt'.format = cmd'.format
    <3>1. /\ cmd' = c
          /\ opt' = [arc |-> c.arc, format |-> c.format, encode |-> "", noComp |-> FALSE,
                     tarUseXz |-> FALSE]
      BY <2>3 DEF Start
    <3> QED
      BY <3>1
  <2> QED
    BY <2>1, <2>2, <2>3
<1>2. Reading' => Asks
  BY AskingSteps
<1>3. Reading' => (Detecting /\ Holding /\ Restoring /\ Refusing /\ Getting)'
  BY <1>2, DetectingStep, HoldingStep, RestoringStep, RefusingStep, GettingStep
<1> QED
  BY <1>1, <1>3 DEF Followed

LEMMA RInvInit == Init => RInv
<1> SUFFICES ASSUME Init
             PROVE  RInv
  OBVIOUS
<1>1. Route
  BY DEF Init, Route, At, Decoding
<1>2. EncodedGoxa
  <2>1. disk = << >>
    BY DEF Init
  <2>2. DOMAIN disk = {}
    BY <2>1
  <2> QED
    BY <2>2 DEF EncodedGoxa
<1>3. Followed
  BY DEF Init, Followed, Reading
<1> QED
  BY <1>1, <1>2, <1>3, InvariantInit DEF RInv

LEMMA RInvStep == RInv /\ [Next]_vars => RInv'
<1> SUFFICES ASSUME RInv, [Next]_vars
             PROVE  RInv'
  OBVIOUS
<1>1. TypeOK /\ Course /\ FecSound
  BY DEF RInv, IInv
<1> QED
  BY <1>1, InvariantStep, RouteStep, EncodedGoxaStep, FollowedStep DEF RInv

(* The inductive invariant of a run that reads: what it knows of a good    *)
(* archive at each place, and that it does not end in an error on one.     *)
THEOREM ReadingInvariant == Spec => []RInv
BY RInvInit, RInvStep, PTL DEF Spec

(* Whatever an archive is named and however it came there: if it is        *)
(* readable, a run that reads succeeds unless a step of it fails, and      *)
(* restores the archive that is there.                                     *)
THEOREM ReadableIsRead == Spec => []ReadsWhatIsThere
<1>1. ASSUME RInv
      PROVE  ReadsWhatIsThere
  <2> SUFFICES ASSUME cmd.mode \in {"l", "j", "x"}, Smooth, Done("ok") \/ Done("fatal"),
                      Wanted(FileAt(opt.arc))
               PROVE  status = "ok" /\ (cmd.mode = "x" => got = FileAt(opt.arc).by)
    BY DEF ReadsWhatIsThere, Wanted, IsRead
  <2>1. Refusing /\ Getting
    BY <1>1 DEF RInv, Followed, Reading, Asking, Done
  <2>2. Done("ok")
    BY <2>1 DEF Refusing
  <2>3. FileAt(opt.arc) = disk[opt.arc]
    BY <1>1, ReadableIsGood DEF RInv
  <2> QED
    BY <2>1, <2>2, <2>3 DEF Getting, Done
<1> QED
  BY <1>1, ReadingInvariant, PTL
=============================================================================
