-------------------------- MODULE FirmwareDownload --------------------------
(***************************************************************************)
(* The firmware download.  A station fetches grizzle.bin in two binary      *)
(* messages over its web socket (on_message of telemetry_server.cpp), or    *)
(* the whole ESP32 image over HTTP (process_fw_request of                   *)
(* mkr_server_no_ssl.cpp).                                                 *)
(*                                                                         *)
(* A request carries a sequence number and the low word of an offset.  The  *)
(* answer to number 0 is the size and the crc of the whole file and its     *)
(* first half; the answer to number 1 is the size and the crc of what       *)
(* follows the offset, and these bytes.  The handler takes the size of the  *)
(* file, opens it, reads it byte after byte and compares the sizes, each in *)
(* a step of its own; at any time the file may be replaced (a new file at   *)
(* the path, or none) or overwritten in place.                             *)
(*                                                                         *)
(* The station is external and is modelled from what the header offers: it  *)
(* asks for the first part, then for the rest, and keeps the image if it    *)
(* has the size and the crc of the first header; otherwise it starts again. *)
(***************************************************************************)
EXTENDS Integers, Sequences, FiniteSets

CONSTANTS
    Byte,         \* values of a byte
    Version,      \* contents that the file has had, half-copied ones included
    Content,      \* the bytes of each of them
    NoFile,       \* the file is not there
    Word,         \* 2^16, the values of the offset field
    MaxReplace    \* bound on the replacements of the file

ASSUME ContentType == Content \in [Version -> Seq(Byte)]
ASSUME NoFileNew == NoFile \notin Version
ASSUME WordPositive == Word \in Nat \ {0}
ASSUME ReplaceBound == MaxReplace \in Nat

VARIABLES
    file,       \* the version at the path, or NoFile
    req,        \* the request under way or being handled
    size,       \* the handler's size of the file, -1 before it has taken it
    rd,         \* the handler's read of the file
    answer,     \* the answer under way
    st,         \* the station
    since,      \* history: what the path held since this download began
    replaced    \* occurrences of the bounded event

vars == <<file, req, size, rd, answer, st, since, replaced>>

NoCrc == <<"none", <<>>>>
NoReq == [kind |-> "none", off |-> 0]

(* An open file: what is being read and whether it is still at the path,    *)
(* the number of bytes to read, those read so far and, a history, whether   *)
(* the file was written since it was opened.                               *)
NoRead ==
    [open |-> FALSE, src |-> NoFile, linked |-> FALSE, n |-> 0, got |-> <<>>, torn |-> FALSE]

(* torn is a history: the crc, or the image, comes from a torn read.        *)
NoAnswer ==
    [kind |-> "none", t_size |-> 0, crc |-> NoCrc, data |-> <<>>, torn |-> FALSE]
Fresh(how) ==
    [how |-> how, pc |-> "ask", t_size |-> 0, crc |-> NoCrc, data |-> <<>>, torn |-> FALSE]

Bytes == Seq(Byte)
Crcs == {"crc", "none"} \X Bytes

DownloadTypeOK ==
    /\ file \in Version \cup {NoFile}
    /\ req \in [kind : {"none", "first", "rest", "whole"}, off : 0..(Word - 1)]
    /\ size \in Int
    /\ answer \in [kind : {"none", "first", "rest", "whole"}, t_size : Nat,
                   crc : Crcs, data : Bytes, torn : BOOLEAN]
    /\ rd \in [open : BOOLEAN, src : Version \cup {NoFile}, linked : BOOLEAN, n : Nat,
               got : Bytes, torn : BOOLEAN]
    /\ Len(rd.got) <= rd.n
    /\ st \in [how : {"parts", "whole"}, pc : {"ask", "wait", "ask1", "wait1", "done"},
               t_size : Nat, crc : Crcs, data : Bytes, torn : BOOLEAN]
    /\ since \subseteq Version
    /\ replaced \in 0..MaxReplace

Init ==
    /\ file \in Version \cup {NoFile}
    /\ req = NoReq
    /\ size = -1
    /\ rd = NoRead
    /\ answer = NoAnswer
    /\ \E how \in {"parts", "whole"} : st = Fresh(how)
    /\ since = {file} \ {NoFile}
    /\ replaced = 0

(* crc32 is taken to tell any two contents apart.                           *)
Crc32(data) == <<"crc", data>>

-----------------------------------------------------------------------------
(* The server *)

(* getSizeOfFile: -1 without a file.                                        *)
SizeOfFile == IF file = NoFile THEN -1 ELSE Len(Content[file])

(* Without a file, or with an empty one, the web socket gets no answer and  *)
(* HTTP gets status 500; neither brings the station anything.              *)
TakeSize ==
    /\ req.kind # "none"
    /\ size = -1
    /\ IF SizeOfFile <= 0
       THEN req' = NoReq /\ UNCHANGED size
       ELSE size' = SizeOfFile /\ UNCHANGED req
    /\ UNCHANGED <<file, rd, answer, st, since, replaced>>

(* A request has one word for the offset: tmp & 0xffff.                     *)
OffsetUnmasked(off) == off                                          \* mutant
Offset(off) == off % Word

HalfAgain(off) == size \div 2                                       \* mutant
RestSize(off) == size - off

(* The room in the buffer, and where and how much of the file is read into  *)
(* it; 0 stands for the whole file.                                        *)
Room == IF req.kind = "rest" THEN RestSize(req.off) ELSE size
Start == IF req.kind = "rest" THEN req.off ELSE 0
Asked == IF req.kind = "rest" THEN RestSize(req.off) ELSE 0

(* read_bin_file_to_buf returns the number of bytes that it set out to      *)
(* read, however many there were: the file's size when it was opened, if it *)
(* was asked for 0, and 0 without a file.                                  *)
BytesReported(n) ==
    IF file = NoFile THEN 0
    ELSE IF n = 0 THEN Len(Content[file])
    ELSE n

OpenFile ==
    /\ req.kind # "none"
    /\ size > 0
    /\ ~rd.open
    /\ Room >= 0
    /\ rd' = [open |-> TRUE, src |-> file, linked |-> file # NoFile,
              n |-> BytesReported(Asked), got |-> <<>>, torn |-> FALSE]
    /\ UNCHANGED <<file, req, size, answer, st, since, replaced>>

(* file.read stops at the end that the file has by then.                   *)
More ==
    /\ rd.open
    /\ rd.src # NoFile
    /\ Len(rd.got) < rd.n
    /\ Start + Len(rd.got) < Len(Content[rd.src])

ReadByte ==
    /\ More
    /\ rd' = [rd EXCEPT !.got = Append(@, Content[rd.src][Start + Len(rd.got) + 1])]
    /\ UNCHANGED <<file, req, size, answer, st, since, replaced>>

(* Bytes that were not read are what was in the buffer before.             *)
Buffers == {rd.got \o old : old \in [1..(Room - Len(rd.got)) -> Byte]}

(* The first half, under the size and the crc of all the buffer.           *)
FirstPart(buf) ==
    [kind |-> "first", t_size |-> size, crc |-> Crc32(buf),
     data |-> SubSeq(buf, 1, size \div 2), torn |-> rd.torn]

WholeFile(buf) ==
    [kind |-> "whole", t_size |-> size, crc |-> NoCrc, data |-> buf, torn |-> rd.torn]

Rest(buf) ==
    [kind |-> "rest", t_size |-> RestSize(req.off), crc |-> Crc32(buf), data |-> buf,
     torn |-> FALSE]

Answers(a) == answer' = a /\ UNCHANGED st

NoneSent == UNCHANGED <<answer, st>>

(* The process fails and is started again; the connection is gone.         *)
Fails ==
    /\ st' = Fresh(st.how)
    /\ UNCHANGED answer

HandlerEnds ==
    /\ req' = NoReq
    /\ size' = -1
    /\ rd' = NoRead
    /\ UNCHANGED <<file, since, replaced>>

(* More was read than there was room for: the bytes after the buffer are    *)
(* lost, which may go unnoticed.                                           *)
Overrun == Len(rd.got) > Room /\ Fails

NotCompared == TRUE                                                 \* mutant
SizesAgree == rd.n = size

(* seq_num 0, and the HTTP request: the file is read into a buffer of the   *)
(* size taken before, and only then are the sizes compared.                *)
AnswerWhole ==
    /\ req.kind \in {"first", "whole"}
    /\ rd.open
    /\ ~More
    /\ \/ /\ SizesAgree
          /\ \E buf \in Buffers :
                Answers(IF req.kind = "first" THEN FirstPart(buf) ELSE WholeFile(buf))
       \/ ~SizesAgree /\ NoneSent
       \/ Overrun
    /\ HandlerEnds

(* seq_num 1.  Nothing to send is read as a request for the whole file, for *)
(* which there is no room; without any bytes in it the answer is empty.    *)
AnswerRest ==
    /\ req.kind = "rest"
    /\ rd.open
    /\ ~More
    /\ \/ /\ rd.n = RestSize(req.off)
          /\ \E buf \in Buffers : Answers(Rest(buf))
       \/ rd.n # RestSize(req.off) /\ NoneSent
       \/ Overrun
    /\ HandlerEnds

HeaderSize == 8

(* A file that has become shorter than the offset leaves a negative size,   *)
(* for which no buffer can be made, or one that does not hold the header:   *)
(* the station gets a part of a header, if that, and cannot use it.        *)
NoRest ==
    /\ req.kind = "rest"
    /\ size > 0
    /\ RestSize(req.off) < 0
    /\ \/ Fails
       \/ RestSize(req.off) >= -HeaderSize /\ NoneSent
    /\ HandlerEnds

Server == TakeSize \/ OpenFile \/ ReadByte \/ AnswerWhole \/ AnswerRest \/ NoRest

-----------------------------------------------------------------------------
(* The station and the files (external) *)

Request(kind, off) == [kind |-> kind, off |-> Offset(off)]

Ask ==
    /\ st.pc = "ask"
    /\ req' = Request(IF st.how = "parts" THEN "first" ELSE "whole", 0)
    /\ st' = [Fresh(st.how) EXCEPT !.pc = "wait"]
    /\ since' = {file} \ {NoFile}
    /\ UNCHANGED <<file, size, rd, answer, replaced>>

AskRest ==
    /\ st.pc = "ask1"
    /\ req' = Request("rest", Len(st.data))
    /\ st' = [st EXCEPT !.pc = "wait1"]
    /\ UNCHANGED <<file, size, rd, answer, since, replaced>>

Verified(image) == Len(image) = st.t_size /\ Crc32(image) = st.crc

Receive ==
    /\ answer.kind # "none"
    /\ CASE answer.kind = "first" ->
              st' = [st EXCEPT !.pc = "ask1", !.t_size = answer.t_size,
                               !.crc = answer.crc, !.data = answer.data,
                               !.torn = answer.torn]
         [] answer.kind = "rest" ->
              st' = IF Verified(st.data \o answer.data)
                    THEN [st EXCEPT !.pc = "done", !.data = @ \o answer.data]
                    ELSE Fresh(st.how)
         [] answer.kind = "whole" ->
              st' = [st EXCEPT !.pc = "done", !.data = answer.data, !.torn = answer.torn]
    /\ answer' = NoAnswer
    /\ UNCHANGED <<file, req, size, rd, since, replaced>>

(* A request without an answer is given up and the download begins again.   *)
GiveUp ==
    /\ st.pc \in {"wait", "wait1"}
    /\ req = NoReq
    /\ answer = NoAnswer
    /\ st' = Fresh(st.how)
    /\ UNCHANGED <<file, req, size, rd, answer, since, replaced>>

Station == Ask \/ AskRest \/ Receive \/ GiveUp

(* The connection breaks: what is under way on it is lost.                  *)
Disconnect ==
    /\ st.pc \in {"wait", "ask1", "wait1"}
    /\ st' = Fresh(st.how)
    /\ req' = NoReq
    /\ size' = -1
    /\ rd' = NoRead
    /\ answer' = NoAnswer
    /\ UNCHANGED <<file, since, replaced>>

Changes(v) ==
    /\ replaced < MaxReplace
    /\ v # file
    /\ file' = v
    /\ since' = since \cup ({v} \ {NoFile})
    /\ replaced' = replaced + 1
    /\ UNCHANGED <<req, size, answer, st>>

(* By a rename or a removal: an open file stays what it was.               *)
ReplaceFile(v) ==
    /\ Changes(v)
    /\ rd' = [rd EXCEPT !.linked = FALSE]

(* In place, as a copy onto it does: an open file changes with it.         *)
OverwriteFile(v) ==
    /\ file # NoFile
    /\ Changes(v)
    /\ rd' = IF rd.linked THEN [rd EXCEPT !.src = v, !.torn = TRUE] ELSE rd

Next ==
    \/ Server
    \/ Station
    \/ Disconnect
    \/ \E v \in Version \cup {NoFile} : ReplaceFile(v)
    \/ \E v \in Version : OverwriteFile(v)

Spec == Init /\ [][Next]_vars

(* The server handles what it receives, and the station asks again.         *)
FairSpec == Spec /\ WF_vars(Server) /\ WF_vars(Station)

-----------------------------------------------------------------------------
(* Properties *)

(* An image that the station keeps is what the file was, as a whole, at     *)
(* some moment of this download: parts of two versions, bytes that were     *)
(* never read, and parts from a wrong offset do not pass, unless the file   *)
(* was written in place between the open and the end of the read from which *)
(* the first header's crc, or the whole image, is taken.  It rests on the   *)
(* size that read_bin_file_to_buf finds at the open being compared with     *)
(* that of stat, and on the crc being of the bytes of which the first half  *)
(* is sent.                                                                *)
ImageIsOneFile ==
    st.pc = "done" /\ ~st.torn => \E v \in since : st.data = Content[v]

(* "WORD offset": half of the file must fit the offset field.               *)
Served(v) ==
    /\ v # NoFile
    /\ Content[v] # <<>>
    /\ st.how = "parts" => Len(Content[v]) \div 2 < Word

(* If from some point on the file stays and no connection breaks, a station *)
(* gets its image, unless there is no file, or an empty one, or, for a      *)
(* download in parts, the offset of the second half does not fit its field. *)
DownloadCompletes ==
    <>[][Server \/ Station]_vars =>
        <>(st.pc = "done" \/ ~Served(file))
=============================================================================
