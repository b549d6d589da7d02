----------------------- MODULE FirmwareDownloadProofs -----------------------
(* Proofs about FirmwareDownload, for any contents of the file, any width of *)
(* the offset and any number of replacements.                              *)
EXTENDS FirmwareDownload, SequenceTheorems, TLAPS

-----------------------------------------------------------------------------
(* Types *)

Kinds == {"none", "first", "rest", "whole"}
Reqs == [kind : Kinds, off : 0..(Word - 1)]
Reads == [open : BOOLEAN, src : Version \cup {NoFile}, linked : BOOLEAN, n : Nat,
          got : Bytes, torn : BOOLEAN]
AnswersSent == [kind : Kinds, t_size : Nat, crc : Crcs, data : Bytes, torn : BOOLEAN]
Stations == [how : {"parts", "whole"}, pc : {"ask", "wait", "ask1", "wait1", "done"},
             t_size : Nat, crc : Crcs, data : Bytes, torn : BOOLEAN]

(* The type invariant in these terms.                                      *)
LEMMA Types ==
    DownloadTypeOK <=>
      /\ file \in Version \cup {NoFile} /\ req \in Reqs /\ size \in Int
      /\ rd \in Reads /\ Len(rd.got) <= rd.n
      /\ answer \in AnswersSent /\ st \in Stations
      /\ since \subseteq Version /\ replaced \in 0..MaxReplace
BY DEF DownloadTypeOK, Reqs, AnswersSent, Stations, Kinds, Reads

(* The same of the next state.                                             *)
LEMMA TypesNext ==
    DownloadTypeOK' <=>
      /\ file' \in Version \cup {NoFile} /\ req' \in Reqs /\ size' \in Int
      /\ rd' \in Reads /\ Len(rd'.got) <= rd'.n
      /\ answer' \in AnswersSent /\ st' \in Stations
      /\ since' \subseteq Version /\ replaced' \in 0..MaxReplace
BY DEF DownloadTypeOK, Reqs, AnswersSent, Stations, Kinds, Reads

(* The values with which requests, answers and downloads begin.             *)
LEMMA StartTypes ==
    /\ NoReq \in Reqs
    /\ NoRead \in Reads /\ Len(NoRead.got) <= NoRead.n
    /\ NoAnswer \in AnswersSent
    /\ \A how \in {"parts", "whole"} : Fresh(how) \in Stations
    /\ \A data \in Bytes : Crc32(data) \in Crcs
<1>1. <<>> \in Bytes
  BY EmptySeq DEF Bytes
<1>2. NoCrc \in Crcs
  BY <1>1 DEF NoCrc, Crcs
<1>3. NoReq \in Reqs
  BY WordPositive DEF NoReq, Reqs, Kinds
<1>4. NoAnswer \in AnswersSent
  BY <1>1, <1>2 DEF NoAnswer, AnswersSent, Kinds
<1>5. \A how \in {"parts", "whole"} : Fresh(how) \in Stations
  BY <1>1, <1>2 DEF Fresh, Stations
<1>6. \A data \in Bytes : Crc32(data) \in Crcs
  BY DEF Crc32, Crcs
<1>7. NoRead \in Reads /\ Len(NoRead.got) <= NoRead.n
  BY <1>1, EmptySeq DEF NoRead, Reads
<1>. QED BY <1>3, <1>4, <1>5, <1>6, <1>7

(* The bytes of a file are bytes, and its length a number.                 *)
LEMMA ContentBytes ==
    ASSUME NEW v \in Version
    PROVE  Content[v] \in Bytes /\ Len(Content[v]) \in Nat
BY ContentType, LenProperties DEF Bytes

(* The buffer holds bytes.                                                 *)
LEMMA BufferBytes ==
    ASSUME NEW k \in Nat, NEW old \in [1..k -> Byte], NEW got \in Bytes
    PROVE  got \o old \in Bytes
<1>1. old \in Seq(Byte)
  OBVIOUS
<1>. QED BY <1>1, ConcatProperties DEF Bytes

(* As many bytes as there is room for.                                     *)
LEMMA BufferLength ==
    ASSUME rd.got \in Bytes, Room \in Nat, Len(rd.got) <= Room, NEW buf \in Buffers
    PROVE  Len(buf) = Room
<1>1. PICK old \in [1..(Room - Len(rd.got)) -> Byte] : buf = rd.got \o old
  BY DEF Buffers
<1>2. Len(rd.got) \in Nat
  BY LenProperties DEF Bytes
<1>3. PICK k \in Nat : k = Room - Len(rd.got)
  <2>1. Room - Len(rd.got) \in Nat
    BY <1>2
  <2>. QED BY <2>1, Zenon
<1>4. old \in [1..k -> Byte]
  BY <1>1, <1>3
<1>5. old \in Seq(Byte) /\ Len(old) = k
  BY <1>4
<1>6. Len(rd.got \o old) = Len(rd.got) + k
  BY <1>5, ConcatProperties DEF Bytes
<1>. QED BY <1>1, <1>2, <1>3, <1>6

(* Every step of the server keeps the types: opening the file,             *)
LEMMA TypeOpen ==
    ASSUME DownloadTypeOK, OpenFile
    PROVE  DownloadTypeOK'
<1>1. Asked \in Nat
  <2>1. req.off \in Nat /\ size \in Int
    BY Types, WordPositive DEF Reqs
  <2>. QED BY <2>1 DEF OpenFile, Room, Asked, RestSize
<1>2. BytesReported(Asked) \in Nat
  BY <1>1, Types, ContentBytes DEF BytesReported
<1>3. rd' \in Reads /\ rd'.got = <<>> /\ rd'.n \in Nat
  BY <1>2, Types, EmptySeq DEF OpenFile, Reads, Bytes
<1>4. Len(rd'.got) <= rd'.n
  BY <1>3, EmptySeq
<1>. QED BY <1>3, <1>4, Types, TypesNext DEF OpenFile

(* reading it,                                                             *)
LEMMA TypeRead ==
    ASSUME DownloadTypeOK, ReadByte
    PROVE  DownloadTypeOK'
<1>1. rd.src \in Version /\ rd.got \in Seq(Byte) /\ rd.n \in Nat /\ Len(rd.got) \in Nat
  BY Types, LenProperties DEF ReadByte, More, Reads, Bytes
<1>2. Start \in Nat
  BY Types, WordPositive DEF Start, Reqs
<1>3. Start + Len(rd.got) + 1 \in 1..Len(Content[rd.src])
  BY <1>1, <1>2, ContentBytes DEF ReadByte, More
<1>4. PICK b : b = Content[rd.src][Start + Len(rd.got) + 1]
  OBVIOUS
<1>5. b \in Byte
  BY <1>1, <1>3, <1>4, ContentBytes, ElementOfSeq DEF Bytes
<1>6. Append(rd.got, b) \in Bytes /\ Len(Append(rd.got, b)) = Len(rd.got) + 1
  BY <1>1, <1>5, AppendProperties DEF Bytes
<1>7. rd' = [rd EXCEPT !.got = Append(rd.got, b)]
  BY <1>4, Types DEF ReadByte, Reads
<1>8. rd' \in Reads /\ rd'.got = Append(rd.got, b) /\ rd'.n = rd.n
  BY <1>6, <1>7, Types DEF Reads
<1>9. Len(rd'.got) <= rd'.n
  BY <1>1, <1>6, <1>8 DEF ReadByte, More
<1>. QED BY <1>8, <1>9, Types, TypesNext DEF ReadByte

(* the ends of the handler,                                                *)
LEMMA TypeEnd ==
    ASSUME DownloadTypeOK, HandlerEnds, answer' \in AnswersSent, st' \in Stations
    PROVE  DownloadTypeOK'
BY Types, TypesNext, StartTypes DEF HandlerEnds

(* its answers,                                                            *)
LEMMA TypeAnswer ==
    ASSUME DownloadTypeOK, AnswerWhole \/ AnswerRest \/ NoRest
    PROVE  DownloadTypeOK'
<1>0. answer \in AnswersSent /\ st \in Stations /\ Fresh(st.how) \in Stations
  BY Types, StartTypes DEF Stations
<1>1. /\ rd.got \in Bytes /\ Len(rd.got) \in Nat /\ rd.n \in Nat /\ Len(rd.got) <= rd.n
      /\ rd.torn \in BOOLEAN /\ size \in Int
  BY Types, LenProperties DEF Reads, Bytes
<1>2. ASSUME rd.n = Room, NEW buf \in Buffers
      PROVE  buf \in Bytes
  <2>1. Room - Len(rd.got) \in Nat
    BY <1>1, <1>2
  <2>. QED BY <1>1, <2>1, <1>2, BufferBytes DEF Buffers
<1>3. HandlerEnds
  BY DEF AnswerWhole, AnswerRest, NoRest
<1>4. ASSUME AnswerWhole, SizesAgree, NEW buf \in Buffers
      PROVE  FirstPart(buf) \in AnswersSent /\ WholeFile(buf) \in AnswersSent
  <2>1. rd.n = Room /\ size \in Nat
    BY <1>1, <1>4 DEF AnswerWhole, SizesAgree, Room
  <2>2. buf \in Bytes /\ Crc32(buf) \in Crcs /\ NoCrc \in Crcs
    BY <1>2, <1>4, <2>1, StartTypes, EmptySeq DEF NoCrc, Crcs, Bytes
  <2>3. Len(buf) = size
    <3>1. Room = size
      BY <1>4 DEF AnswerWhole, Room
    <3>. QED BY <1>1, <1>4, <2>1, <3>1, BufferLength
  <2>4. SubSeq(buf, 1, size \div 2) \in Bytes
    <3>1. \A i \in 1..(size \div 2) : buf[i] \in Byte
      BY <2>1, <2>2, <2>3, ElementOfSeq DEF Bytes
    <3>. QED BY <2>1, <3>1, SubSeqProperties DEF Bytes
  <2>. QED BY <1>1, <2>1, <2>2, <2>4 DEF FirstPart, WholeFile, AnswersSent, Kinds
<1>5. ASSUME AnswerRest, rd.n = RestSize(req.off), NEW buf \in Buffers
      PROVE  Rest(buf) \in AnswersSent
  <2>1. rd.n = Room
    BY <1>5 DEF AnswerRest, Room
  <2>2. buf \in Bytes /\ Crc32(buf) \in Crcs
    BY <1>2, <1>5, <2>1, StartTypes
  <2>. QED BY <1>1, <1>5, <2>2 DEF Rest, AnswersSent, Kinds
<1>6. answer' \in AnswersSent /\ st' \in Stations
  <2>1. CASE AnswerWhole
    BY <1>0, <1>4, <2>1 DEF AnswerWhole, Answers, NoneSent, Overrun, Fails
  <2>2. CASE AnswerRest
    BY <1>0, <1>5, <2>2 DEF AnswerRest, Answers, NoneSent, Overrun, Fails
  <2>3. CASE NoRest
    BY <1>0, <2>3 DEF NoRest, NoneSent, Fails
  <2>. QED BY <2>1, <2>2, <2>3
<1>. QED BY <1>3, <1>6, TypeEnd

(* and taking the size.                                                    *)
LEMMA TypeSize ==
    ASSUME DownloadTypeOK, TakeSize
    PROVE  DownloadTypeOK'
<1>1. SizeOfFile \in Int
  BY Types, ContentBytes DEF SizeOfFile
<1>. QED BY <1>1, Types, TypesNext, StartTypes DEF TakeSize

(* So does every other step.                                               *)
LEMMA TypeStep ==
    ASSUME DownloadTypeOK, [Next]_vars
    PROVE  DownloadTypeOK'
<1>0. /\ file \in Version \cup {NoFile} /\ req \in Reqs /\ size \in Int
      /\ rd \in Reads /\ Len(rd.got) <= rd.n
      /\ answer \in AnswersSent /\ st \in Stations
      /\ since \subseteq Version /\ replaced \in 0..MaxReplace
  BY Types
<1>1. Fresh(st.how) \in Stations
  BY <1>0, StartTypes DEF Stations
<1>2. \A kind \in Kinds, off \in Nat : Request(kind, off) \in Reqs
  BY WordPositive DEF Request, Offset, Reqs
<1>3. CASE Ask
  <2>1. req' \in Reqs
    BY <1>2, <1>3 DEF Ask, Kinds
  <2>2. st' \in Stations
    BY <1>1, <1>3 DEF Ask, Stations
  <2>. QED BY <1>0, <1>3, <2>1, <2>2, TypesNext DEF Ask
<1>4. CASE AskRest
  <2>1. Len(st.data) \in Nat
    BY <1>0, LenProperties DEF Stations, Bytes
  <2>2. req' \in Reqs
    BY <1>2, <1>4, <2>1 DEF AskRest, Kinds
  <2>3. st' \in Stations
    BY <1>0, <1>4 DEF AskRest, Stations
  <2>. QED BY <1>0, <1>4, <2>2, <2>3, TypesNext DEF AskRest
<1>5. CASE Receive
  <2>1. st.data \o answer.data \in Bytes
    BY <1>0, ConcatProperties DEF Stations, AnswersSent, Bytes
  <2>2. ASSUME answer.kind = "first" PROVE st' \in Stations
    BY <1>0, <1>5, <2>2 DEF Receive, Stations, AnswersSent
  <2>3. ASSUME answer.kind = "rest" PROVE st' \in Stations
    <3>1. st' = [st EXCEPT !.pc = "done", !.data = st.data \o answer.data]
             \/ st' = Fresh(st.how)
      BY <1>0, <1>5, <2>3 DEF Receive, Stations
    <3>. QED BY <1>0, <1>1, <2>1, <3>1 DEF Stations
  <2>4. ASSUME answer.kind = "whole" PROVE st' \in Stations
    BY <1>0, <1>5, <2>4 DEF Receive, Stations, AnswersSent
  <2>5. st' \in Stations
    BY <1>0, <1>5, <2>2, <2>3, <2>4 DEF Receive, AnswersSent, Kinds
  <2>. QED BY <1>0, <1>5, <2>5, StartTypes, TypesNext DEF Receive
<1>6. CASE GiveUp \/ Disconnect
  BY <1>0, <1>1, <1>6, StartTypes, TypesNext DEF GiveUp, Disconnect
<1>7. ASSUME NEW v \in Version \cup {NoFile}, ReplaceFile(v) \/ (v # NoFile /\ OverwriteFile(v))
      PROVE  DownloadTypeOK'
  <2>1. rd' \in Reads /\ rd'.got = rd.got /\ rd'.n = rd.n
    BY <1>0, <1>7 DEF ReplaceFile, OverwriteFile, Reads
  <2>2. Changes(v)
    BY <1>7 DEF ReplaceFile, OverwriteFile
  <2>. QED BY <1>0, <2>1, <2>2, ReplaceBound, TypesNext DEF Changes
<1>8. CASE UNCHANGED vars
  BY <1>8 DEF vars, DownloadTypeOK
<1>. QED BY <1>3, <1>4, <1>5, <1>6, <1>7, <1>8, TypeSize, TypeOpen, TypeRead, TypeAnswer, NoFileNew
     DEF Next, Station, Server

(* The download is well typed.                                             *)
THEOREM DownloadTypeCorrect == Spec => []DownloadTypeOK
<1>1. Init => DownloadTypeOK
  <2>. SUFFICES ASSUME Init PROVE DownloadTypeOK
    OBVIOUS
  <2>1. file \in Version \cup {NoFile} /\ since \subseteq Version /\ replaced \in 0..MaxReplace
    BY ReplaceBound DEF Init
  <2>2. /\ req \in Reqs /\ size \in Int /\ answer \in AnswersSent /\ st \in Stations
        /\ rd \in Reads /\ Len(rd.got) <= rd.n
    BY StartTypes DEF Init
  <2>. QED BY <2>1, <2>2, Types
<1>. QED BY <1>1, TypeStep, PTL DEF Spec

-----------------------------------------------------------------------------
(* The image.  What is read from a file that is not written meanwhile is a  *)
(* beginning of one version; what the station checks against is then the    *)
(* crc of one version, which the path held during this download; and an     *)
(* answer is only ever that to the question the station waits for.         *)

FileCounted == file # NoFile => file \in since

InTurn ==
    /\ req.kind # "none" => answer.kind = "none"
    /\ {req.kind, answer.kind} \cap {"first", "whole"} # {} => st.pc = "wait"
    /\ "rest" \in {req.kind, answer.kind} => st.pc = "wait1"
    /\ rd.open => req.kind # "none" /\ size > 0

OneVersionRead ==
    rd.open /\ ~rd.torn /\ req.kind \in {"first", "whole"} =>
        IF rd.src = NoFile THEN rd.n = 0
        ELSE /\ rd.src \in since
             /\ rd.n = Len(Content[rd.src])
             /\ \A i \in 1..Len(rd.got) : rd.got[i] = Content[rd.src][i]

IsCrcOf(crc) == \E v \in since : crc = Crc32(Content[v])
IsFile(data) == \E v \in since : data = Content[v]

HeadersTrue ==
    /\ answer.kind = "first" /\ ~answer.torn => IsCrcOf(answer.crc)
    /\ st.pc \in {"ask1", "wait1"} /\ ~st.torn => IsCrcOf(st.crc)
    /\ answer.kind = "whole" /\ ~answer.torn => IsFile(answer.data)

ImageInv == FileCounted /\ InTurn /\ OneVersionRead /\ HeadersTrue /\ ImageIsOneFile

(* The crc tells contents apart.                                           *)
LEMMA CrcTellsApart ==
    ASSUME NEW d, NEW e, Crc32(d) = Crc32(e)
    PROVE  d = e
BY DEF Crc32

(* A read that was not torn and whose sizes agree has filled the buffer     *)
(* with one version.                                                       *)
LEMMA BufferIsOneFile ==
    ASSUME DownloadTypeOK, ImageInv, AnswerWhole, SizesAgree, ~rd.torn, NEW buf \in Buffers
    PROVE  IsFile(buf)
<1>1. rd.got \in Seq(Byte) /\ Len(rd.got) \in Nat /\ rd.n \in Nat /\ Len(rd.got) <= rd.n
  BY Types, LenProperties DEF Reads, Bytes
<1>2. rd.n = size /\ size > 0 /\ Room = size /\ Start = 0
  BY DEF SizesAgree, ImageInv, InTurn, AnswerWhole, Room, Start
<1>3. /\ rd.src \in since /\ rd.n = Len(Content[rd.src])
      /\ \A i \in 1..Len(rd.got) : rd.got[i] = Content[rd.src][i]
  BY <1>1, <1>2 DEF ImageInv, OneVersionRead, AnswerWhole
<1>4. rd.src \in Version /\ rd.src # NoFile
  BY <1>3, Types, NoFileNew
<1>5. Len(rd.got) = rd.n
  BY <1>1, <1>2, <1>3, <1>4 DEF AnswerWhole, More
<1>6. rd.got = Content[rd.src]
  BY <1>1, <1>3, <1>4, <1>5, ContentBytes, SeqEqual DEF Bytes
<1>7. Len(buf) = Len(rd.got)
  BY <1>1, <1>2, <1>5, BufferLength DEF Bytes
<1>8. PICK old \in [1..(Room - Len(rd.got)) -> Byte] : buf = rd.got \o old
  BY DEF Buffers
<1>9. Room - Len(rd.got) = 0
  BY <1>1, <1>2, <1>5
<1>10. old \in Seq(Byte) /\ Len(old) = 0
  BY <1>8, <1>9
<1>11. buf = rd.got
  BY <1>1, <1>8, <1>10, EmptySeq, ConcatEmptySeq
<1>. QED BY <1>3, <1>6, <1>11 DEF IsFile

(* The steps before the answer read one version, unless it is written.     *)
LEMMA ImageRead ==
    ASSUME DownloadTypeOK, ImageInv, TakeSize \/ OpenFile \/ ReadByte
    PROVE  ImageInv'
<1>1. UNCHANGED <<file, answer, st, since>> /\ req' \in {req, NoReq} /\ req.kind # "none"
  BY DEF TakeSize, OpenFile, ReadByte, More, ImageInv, InTurn
<1>2. FileCounted' /\ HeadersTrue' /\ ImageIsOneFile'
  BY <1>1 DEF ImageInv, FileCounted, HeadersTrue, ImageIsOneFile, IsCrcOf, IsFile
<1>3. CASE TakeSize
  <2>1. UNCHANGED rd /\ ~rd.open
    BY <1>3, Types DEF TakeSize, ImageInv, InTurn
  <2>. QED BY <1>1, <1>2, <2>1 DEF ImageInv, InTurn, OneVersionRead, NoReq
<1>4. CASE OpenFile
  <2>1. InTurn'
    BY <1>1, <1>4 DEF OpenFile, ImageInv, InTurn
  <2>2. OneVersionRead'
    <3>1. SUFFICES ASSUME req.kind \in {"first", "whole"}
                   PROVE  OneVersionRead'
      BY <1>4 DEF OpenFile, OneVersionRead
    <3>2. /\ rd'.src = file /\ rd'.got = <<>>
          /\ rd'.n = IF file = NoFile THEN 0 ELSE Len(Content[file])
      BY <1>4, <3>1 DEF OpenFile, Asked, BytesReported
    <3>3. file # NoFile => file \in since
      BY DEF ImageInv, FileCounted
    <3>. QED BY <1>1, <3>2, <3>3, EmptySeq DEF OneVersionRead
  <2>. QED BY <1>2, <2>1, <2>2 DEF ImageInv
<1>5. CASE ReadByte
  <2>1. UNCHANGED <<req, size>> /\ rd.open /\ rd.src # NoFile /\ rd.got \in Seq(Byte)
        /\ Len(rd.got) \in Nat /\ rd \in Reads
    BY <1>5, Types, LenProperties DEF ReadByte, More, Reads, Bytes
  <2>2. PICK b : b = Content[rd.src][Start + Len(rd.got) + 1]
    OBVIOUS
  <2>3. rd' = [rd EXCEPT !.got = Append(rd.got, b)]
    BY <1>5, <2>1, <2>2 DEF ReadByte, Reads
  <2>4. InTurn'
    BY <1>1, <2>1, <2>3 DEF ImageInv, InTurn, Reads
  <2>5. OneVersionRead'
    <3>1. SUFFICES ASSUME ~rd.torn, req.kind \in {"first", "whole"}
                   PROVE  OneVersionRead'
      BY <2>1, <2>3 DEF OneVersionRead, Reads
    <3>2. /\ rd.src \in since /\ rd.n = Len(Content[rd.src])
          /\ \A i \in 1..Len(rd.got) : rd.got[i] = Content[rd.src][i]
      BY <2>1, <3>1 DEF ImageInv, OneVersionRead
    <3>3. b = Content[rd.src][Len(rd.got) + 1]
      BY <2>1, <2>2, <3>1 DEF Start
    <3>4. rd.src \in Version
      BY <3>2, Types
    <3>5. b \in Byte
      <4>1. Len(rd.got) + 1 \in 1..Len(Content[rd.src])
        BY <1>5, <2>1, <3>1, <3>4, ContentBytes DEF ReadByte, More, Start
      <4>. QED BY <3>3, <3>4, <4>1, ContentBytes, ElementOfSeq DEF Bytes
    <3>6. /\ Len(Append(rd.got, b)) = Len(rd.got) + 1
          /\ \A i \in 1..(Len(rd.got) + 1) : Append(rd.got, b)[i] = Content[rd.src][i]
      BY <2>1, <3>2, <3>3, <3>5, AppendProperties
    <3>7. rd'.src = rd.src /\ rd'.n = rd.n /\ rd'.got = Append(rd.got, b)
      BY <2>1, <2>3 DEF Reads
    <3>. QED BY <1>1, <2>1, <3>2, <3>6, <3>7 DEF OneVersionRead
  <2>. QED BY <1>2, <2>4, <2>5 DEF ImageInv
<1>. QED BY <1>3, <1>4, <1>5

(* The answers are true to it.                                             *)
LEMMA ImageAnswer ==
    ASSUME DownloadTypeOK, ImageInv, AnswerWhole \/ AnswerRest \/ NoRest
    PROVE  ImageInv'
<1>1. /\ UNCHANGED <<file, since>> /\ req.kind # "none" /\ req'.kind = "none" /\ ~rd'.open
  BY DEF AnswerWhole, AnswerRest, NoRest, HandlerEnds, NoReq, NoRead
<1>2. FileCounted' /\ OneVersionRead'
  BY <1>1 DEF ImageInv, FileCounted, OneVersionRead
<1>3. answer.kind = "none"
  BY <1>1 DEF ImageInv, InTurn
<1>4. CASE NoneSent
  BY <1>1, <1>2, <1>3, <1>4
     DEF NoneSent, ImageInv, InTurn, HeadersTrue, ImageIsOneFile, IsCrcOf, IsFile
<1>5. CASE Fails
  BY <1>1, <1>2, <1>3, <1>5
     DEF Fails, Fresh, ImageInv, InTurn, HeadersTrue, ImageIsOneFile, IsCrcOf, IsFile
<1>6. ASSUME AnswerWhole, SizesAgree, NEW buf \in Buffers,
             Answers(IF req.kind = "first" THEN FirstPart(buf) ELSE WholeFile(buf))
      PROVE  ImageInv'
  <2>1. ~rd.torn => IsFile(buf)
    BY <1>6, BufferIsOneFile
  <2>2. /\ UNCHANGED st /\ answer'.torn = rd.torn
        /\ \/ answer'.kind = "first" /\ answer'.crc = Crc32(buf)
           \/ answer'.kind = "whole" /\ answer'.data = buf
    BY <1>6 DEF Answers, FirstPart, WholeFile
  <2>3. st.pc = "wait"
    BY <1>6 DEF AnswerWhole, ImageInv, InTurn
  <2>4. HeadersTrue'
    BY <1>1, <2>1, <2>2, <2>3 DEF HeadersTrue, IsCrcOf, IsFile
  <2>. QED BY <1>1, <1>2, <2>2, <2>3, <2>4 DEF ImageInv, InTurn, ImageIsOneFile
<1>7. ASSUME AnswerRest, NEW buf, Answers(Rest(buf))
      PROVE  ImageInv'
  <2>1. answer'.kind = "rest" /\ UNCHANGED st
    BY <1>7 DEF Answers, Rest
  <2>2. st.pc = "wait1"
    BY <1>7 DEF AnswerRest, ImageInv, InTurn
  <2>. QED BY <1>1, <1>2, <2>1, <2>2
       DEF ImageInv, InTurn, HeadersTrue, ImageIsOneFile, IsCrcOf, IsFile
<1>. QED BY <1>4, <1>5, <1>6, <1>7 DEF AnswerWhole, AnswerRest, NoRest, Overrun

(* Every step keeps the invariant of the image.                             *)
LEMMA ImageStep ==
    ASSUME DownloadTypeOK, ImageInv, [Next]_vars
    PROVE  ImageInv'
<1>1. CASE Ask
  <2>1. answer.kind = "none" /\ ~rd.open
    BY <1>1 DEF Ask, ImageInv, InTurn, DownloadTypeOK
  <2>2. st'.pc = "wait" /\ req'.kind \in {"first", "whole"}
    BY <1>1 DEF Ask, Fresh, Request
  <2>. QED BY <1>1, <2>1, <2>2
       DEF Ask, ImageInv, FileCounted, InTurn, OneVersionRead, HeadersTrue, ImageIsOneFile,
           IsCrcOf, IsFile
<1>2. CASE AskRest
  <2>1. answer.kind = "none" /\ ~rd.open
    BY <1>2 DEF AskRest, ImageInv, InTurn, DownloadTypeOK
  <2>2. /\ st'.pc = "wait1" /\ req'.kind = "rest" /\ st'.crc = st.crc /\ st'.torn = st.torn
        /\ ~st.torn => IsCrcOf(st.crc)
    BY <1>2 DEF AskRest, Request, DownloadTypeOK, ImageInv, HeadersTrue
  <2>. QED BY <1>2, <2>1, <2>2
       DEF AskRest, ImageInv, FileCounted, InTurn, OneVersionRead, HeadersTrue, ImageIsOneFile,
           IsCrcOf, IsFile
<1>3. CASE Receive
  <2>1. /\ UNCHANGED <<file, since>> /\ req'.kind = "none" /\ answer'.kind = "none" /\ ~rd'.open
    BY <1>3 DEF Receive, NoAnswer, ImageInv, InTurn, DownloadTypeOK
  <2>2. \/ st'.pc = "ask"
        \/ st'.pc = "ask1" /\ (~st'.torn => IsCrcOf(st'.crc))
        \/ st'.pc = "done" /\ (~st'.torn => IsFile(st'.data))
    <3>1. CASE answer.kind = "first"
      BY <1>3, <3>1 DEF Receive, DownloadTypeOK, ImageInv, HeadersTrue
    <3>2. CASE answer.kind = "rest"
      <4>1. ~st.torn => IsCrcOf(st.crc)
        BY <3>2 DEF ImageInv, InTurn, HeadersTrue
      <4>2. CASE Verified(st.data \o answer.data)
        <5>1. ASSUME ~st.torn PROVE IsFile(st.data \o answer.data)
          <6>1. PICK v \in since : Crc32(st.data \o answer.data) = Crc32(Content[v])
            BY <4>1, <4>2, <5>1 DEF Verified, IsCrcOf
          <6>2. st.data \o answer.data = Content[v]
            BY <6>1, CrcTellsApart
          <6>. QED BY <6>2 DEF IsFile
        <5>2. st'.pc = "done" /\ st'.data = st.data \o answer.data /\ st'.torn = st.torn
          BY <1>3, <3>2, <4>2 DEF Receive, DownloadTypeOK
        <5>. QED BY <5>1, <5>2
      <4>3. CASE ~Verified(st.data \o answer.data)
        BY <1>3, <3>2, <4>3 DEF Receive, Fresh
      <4>. QED BY <4>2, <4>3
    <3>3. CASE answer.kind = "whole"
      BY <1>3, <3>3 DEF Receive, DownloadTypeOK, ImageInv, HeadersTrue
    <3>. QED BY <1>3, <3>1, <3>2, <3>3 DEF Receive, DownloadTypeOK
  <2>. QED BY <2>1, <2>2
       DEF ImageInv, FileCounted, InTurn, OneVersionRead, HeadersTrue, ImageIsOneFile, IsCrcOf, IsFile
<1>4. CASE GiveUp \/ Disconnect
  <2>1. /\ UNCHANGED <<file, since>> /\ req'.kind = "none" /\ answer'.kind = "none"
        /\ st'.pc = "ask" /\ ~rd'.open
    BY <1>4 DEF GiveUp, Disconnect, NoReq, NoAnswer, NoRead, Fresh, ImageInv, InTurn
  <2>. QED BY <2>1
       DEF ImageInv, FileCounted, InTurn, OneVersionRead, HeadersTrue, ImageIsOneFile, IsCrcOf, IsFile
<1>5. ASSUME NEW v \in Version \cup {NoFile}, ReplaceFile(v) \/ OverwriteFile(v)
      PROVE  ImageInv'
  <2>1. /\ UNCHANGED <<req, size, answer, st>> /\ file' = v /\ since \subseteq since'
        /\ since' = since \cup ({v} \ {NoFile})
    BY <1>5 DEF ReplaceFile, OverwriteFile, Changes
  <2>2. /\ rd'.open = rd.open
        /\ \/ rd'.torn
           \/ rd'.torn = rd.torn /\ rd'.src = rd.src /\ rd'.n = rd.n /\ rd'.got = rd.got
    BY <1>5, Types DEF ReplaceFile, OverwriteFile, Reads
  <2>3. OneVersionRead'
    BY <2>1, <2>2 DEF ImageInv, OneVersionRead
  <2>4. HeadersTrue' /\ ImageIsOneFile' /\ FileCounted'
    BY <2>1 DEF ImageInv, FileCounted, HeadersTrue, ImageIsOneFile, IsCrcOf, IsFile
  <2>. QED BY <2>1, <2>2, <2>3, <2>4 DEF ImageInv, InTurn
<1>6. CASE UNCHANGED vars
  BY <1>6 DEF vars, ImageInv, FileCounted, InTurn, OneVersionRead, HeadersTrue,
              ImageIsOneFile, IsCrcOf, IsFile
<1>. QED BY <1>1, <1>2, <1>3, <1>4, <1>5, <1>6, ImageRead, ImageAnswer
     DEF Next, Station, Server

(* An image that a station keeps is one that the path held, as a whole,     *)
(* during the download: however the file is replaced between the steps of   *)
(* the server and the two requests of the station, provided that it was not *)
(* written in place while the first header, or the whole image, was read.   *)
THEOREM ImagesAreWhole == Spec => []ImageIsOneFile
<1>1. Init => ImageInv
  BY DEF Init, NoReq, NoRead, NoAnswer, Fresh, ImageInv, FileCounted, InTurn,
         OneVersionRead, HeadersTrue,
         ImageIsOneFile, IsCrcOf, IsFile
<1>2. ImageInv => ImageIsOneFile
  BY DEF ImageInv
<1>. QED BY <1>1, <1>2, ImageStep, DownloadTypeCorrect, PTL DEF Spec
=============================================================================
