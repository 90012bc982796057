------------------------------ MODULE Transfer ------------------------------
(***************************************************************************)
(* One client and its ServiceProvider after the login: the command loop of *)
(* ServiceProvider.run, the one of Client.main, uploads and downloads.     *)
(*                                                                         *)
(* Commands and replies are serialized objects, file contents are raw      *)
(* bytes, and both travel over the same two TCP streams, with nothing that *)
(* marks where raw bytes begin and end: each side knows it from how many   *)
(* reads it has counted.  TCP keeps the bytes' order and may hand a chunk  *)
(* over in parts, so a chunk is two units here and a read takes one or two.*)
(***************************************************************************)
EXTENDS Naturals, Sequences

CONSTANTS
  Files,        \* the files there are; a file is its length, in half chunks
  MaxCommands   \* bound: the commands the user types

ASSUME TransferAssumption == Files \subseteq Nat /\ MaxCommands \in Nat

VARIABLES
  client,     \* where Client.main stands
  provider,   \* where ServiceProvider.run stands
  up, down,   \* bytes on their way to the provider, to the client
  typed,      \* commands typed so far
  sending,    \* uploadfile (client): its file, what it has read, its buffer
  upload,     \* uploadFile (provider): its file, fileSize, count, buffer
  disk,       \* what the provider wrote to the upload's file
  fate,       \* of that file: none, being written, complete or deleted
  serving,    \* downloadFile (provider): the same
  download,   \* downloadFile (client): the same
  saved,      \* what the client wrote to the download's file
  buffered,   \* what this session put into Server.currentBufferSize
  mishaps     \* what has gone wrong so far; read by no action

provVars   == <<provider, upload, disk, fate, serving, buffered>>
clientVars == <<client, typed, sending, download, saved>>
vars == <<client, provider, up, down, typed, sending, upload, disk, fate,
          serving, download, saved, buffered, mishaps>>

(* torn: a read returned part of a chunk.  missized: a size that was       *)
(* announced has not as many chunks as the file.  ignored: a command the   *)
(* provider does not know, and does not answer.  malformed: one whose      *)
(* arguments make run throw.  disturbed: one that makes it throw because   *)
(* of another session, at a directory not made yet, at a file no longer    *)
(* there, or in a list that the other was changing.                        *)
Mishaps == {"torn", "missized", "ignored", "malformed", "disturbed"}

(* One unit of a stream: half a chunk of raw bytes, or a whole object,     *)
(* which is shorter than a chunk.  File f consists of units 1 to f.        *)
Unit(f, k)      == [word |-> "data", file |-> f, number |-> k]
Note(w)         == [word |-> w, file |-> 0, number |-> 0]
About(w, f, n)  == [word |-> w, file |-> f, number |-> n]
Zeros           == Note("zeros")
IsRaw(x)        == x.word \in {"data", "zeros"}
Content(f)      == [k \in 1..f |-> Unit(f, k)]

(* Faulty variant: the chunks of a file without the last, partial one.     *)
ChunksRoundedDown(n) == n \div 2

(* numberOfChunk: a last, partial chunk counts. *)
Chunks(n) == (n + 1) \div 2

Words == {"data", "zeros", "upload", "download", "other", "view", "logout", "unknown",
          "malformed", "complete", "unsuccessful", "parameter", "received", "completed",
          "cancelled", "starting", "missing", "done", "viewing", "messages", "loggedOut"}
Items == [word : Words, file : Nat, number : Nat]

ClientPCs == {"prompt", "reply", "chunk", "ack", "final", "intro", "blocks", "viewing", "gone"}
ProviderPCs == {"command", "chunks", "final", "blocks", "closed", "dead"}
Reader == [file : Nat, at : Nat, bytes : Seq(Items)]
Writer == [file : Nat, size : Nat, count : Nat, bytes : Seq(Items)]

TypeOK ==
  /\ client \in ClientPCs /\ provider \in ProviderPCs
  /\ up \in Seq(Items) /\ down \in Seq(Items)
  /\ typed \in 0..MaxCommands
  /\ sending \in Reader /\ serving \in Reader
  /\ upload \in Writer /\ download \in Writer
  /\ disk \in Seq(Items) /\ saved \in Seq(Items)
  /\ fate \in {"none", "writing", "complete", "deleted"}
  /\ buffered \in Nat
  /\ mishaps \subseteq Mishaps

(* A reader takes a file apart into chunks and a writer puts chunks into   *)
(* one; each has a buffer of one chunk, zeroed when it is allocated.       *)
NewReader(f)    == [file |-> f, at |-> 0, bytes |-> <<Zeros, Zeros>>]
NewWriter(f, n) == [file |-> f, size |-> n, count |-> 0, bytes |-> <<Zeros, Zeros>>]

(* login() has just returned true, and its welcome was the last reply.     *)
Init ==
  /\ client = "prompt" /\ provider = "command"
  /\ up = <<>> /\ down = <<>> /\ typed = 0
  /\ sending = NewReader(0) /\ serving = NewReader(0)
  /\ upload = NewWriter(0, 0) /\ disk = <<>> /\ fate = "none"
  /\ download = NewWriter(0, 0) /\ saved = <<>>
  /\ buffered = 0 /\ mishaps = {}

(* InputStream.read(bytes) returned the first k units: they overwrite the  *)
(* front of the buffer and leave what is behind them.                      *)
Filled(bytes, k, stream) == [i \in 1..2 |-> IF i <= k THEN stream[i] ELSE bytes[i]]
Rest(stream, k) == SubSeq(stream, k + 1, Len(stream))

(* FileInputStream.read(bytes): a chunk, or the half that is left.  The    *)
(* whole buffer is sent, so that a last half is followed by what the chunk *)
(* before it left there.                                                   *)
AtEnd(rd) == rd.at >= rd.file
Advance(rd) ==
  LET k == IF rd.file - rd.at >= 2 THEN 2 ELSE 1
  IN  [rd EXCEPT !.at = @ + k, !.bytes = Filled(@, k, Rest(Content(rd.file), rd.at))]

(* The writer's side: one read counts as one chunk, however much of a chunk*)
(* it returned, and the whole buffer is written to the file.               *)
Counted(wr, bytes) == [wr EXCEPT !.count = @ + 1, !.bytes = bytes]
AllCounted(wr)     == wr.count >= Chunks(wr.size)
Tears(stream, k)   == k = 1 /\ IsRaw(Head(stream)) /\ Head(stream).number % 2 = 1

-----------------------------------------------------------------------------
(* Client.main: the user types a command when the last reply was printed.  *)

Type(c) ==
  /\ client = "prompt" /\ typed < MaxCommands
  /\ typed' = typed + 1
  /\ up' = Append(up, c)
  /\ client' = "reply"
  /\ UNCHANGED <<provVars, down, sending, download, saved, mishaps>>

(* "upload-name-size-type": the size is what the user types it to be.      *)
Commands == {Note(w) : w \in {"other", "view", "logout", "unknown", "malformed", "download"}}
            \cup {About("upload", f, n) : f \in Files, n \in Files}

(* The next object of the provider's is taken for the reply to the last    *)
(* command, and its words decide what the client does next.  Raw bytes, or *)
(* the second message of a download where the first is expected, end main  *)
(* with an exception.                                                      *)
ReadReply ==
  LET r == Head(down)
  IN  /\ client = "reply" /\ down # <<>>
      /\ down' = Tail(down)
      /\ client' = CASE IsRaw(r) \/ r.word \in {"starting", "loggedOut"} -> "gone"
                     [] r.word = "parameter" -> "chunk"
                     [] r.word = "download"  -> "intro"
                     [] r.word = "viewing"   -> "viewing"
                     [] OTHER -> "prompt"
      /\ sending' = IF r.word = "parameter" THEN NewReader(r.file) ELSE sending
      /\ download' = IF r.word = "download" THEN NewWriter(r.file, r.number) ELSE download
      /\ UNCHANGED <<provVars, up, typed, saved, mishaps>>

(* viewMessage prints the object that follows. *)
ReadMessages ==
  /\ client = "viewing" /\ down # <<>>
  /\ down' = Tail(down)
  /\ client' = IF IsRaw(Head(down)) THEN "gone" ELSE "prompt"
  /\ UNCHANGED <<provVars, up, typed, sending, download, saved, mishaps>>

(* uploadfile: a chunk is written whole, the last one padded, and then an  *)
(* object is awaited; after the last one "transmission complete" is sent.  *)
SendChunk ==
  /\ client = "chunk"
  /\ IF AtEnd(sending)
       THEN /\ up' = Append(up, Note("complete"))
            /\ client' = "final"
            /\ UNCHANGED sending
       ELSE /\ sending' = Advance(sending)
            /\ up' = up \o sending'.bytes
            /\ client' = "ack"
  /\ UNCHANGED <<provVars, down, typed, download, saved, mishaps>>

(* Any object that mentions success lets the client go on. *)
Successful == {"received", "completed", "loggedOut"}

ReadAck ==
  LET r == Head(down)
  IN  /\ client = "ack" /\ down # <<>>
      /\ down' = Tail(down)
      /\ CASE IsRaw(r)              -> client' = "gone"   /\ UNCHANGED up
           [] r.word \in Successful  -> client' = "chunk"  /\ UNCHANGED up
           [] OTHER                  -> client' = "prompt" /\ up' = Append(up, Note("unsuccessful"))
      /\ UNCHANGED <<provVars, typed, sending, download, saved, mishaps>>

ReadFinal ==
  /\ client = "final" /\ down # <<>>
  /\ down' = Tail(down)
  /\ client' = IF IsRaw(Head(down)) THEN "gone" ELSE "prompt"
  /\ UNCHANGED <<provVars, up, typed, sending, download, saved, mishaps>>

(* Faulty variant: the file is opened for appending.                       *)
ReadIntroAppends ==
  LET r == Head(down)
  IN  /\ client = "intro" /\ down # <<>>
      /\ down' = Tail(down)
      /\ client' = CASE IsRaw(r) -> "gone"
                     [] r.word = "missing" \/ AllCounted(download) -> "prompt"
                     [] OTHER -> "blocks"
      /\ UNCHANGED <<provVars, saved, up, typed, sending, download, mishaps>>

(* downloadFile: the second message, and then as many reads as the size    *)
(* announced has blocks, however much each of them returns.                *)
ReadIntro ==
  LET r == Head(down)
  IN  /\ client = "intro" /\ down # <<>>
      /\ down' = Tail(down)
      /\ client' = CASE IsRaw(r) -> "gone"
                     [] r.word = "missing" \/ AllCounted(download) -> "prompt"
                     [] OTHER -> "blocks"
      /\ saved' = IF IsRaw(r) \/ r.word = "missing" THEN saved ELSE <<>>
      /\ UNCHANGED <<provVars, up, typed, sending, download, mishaps>>

ReadBlock(k) ==
  LET bytes == Filled(download.bytes, k, down)
  IN  /\ client = "blocks" /\ k <= Len(down)
      /\ down' = Rest(down, k)
      /\ saved' = saved \o bytes
      /\ download' = Counted(download, bytes)
      /\ client' = IF AllCounted(download') THEN "prompt" ELSE "blocks"
      /\ mishaps' = mishaps \cup (IF Tears(down, k) THEN {"torn"} ELSE {})
      /\ UNCHANGED <<provVars, up, typed, sending>>

(* The client's process ends: the user stops it, or the file of an upload  *)
(* cannot be opened.                                                       *)
Vanish ==
  /\ client # "gone"
  /\ client' = "gone"
  /\ UNCHANGED <<provVars, up, down, typed, sending, download, saved, mishaps>>

(* The provider closed the socket and everything it sent has been read.    *)
ClientEOF ==
  /\ provider = "closed" /\ down = <<>>
  /\ client \in {"reply", "viewing", "ack", "final", "intro"}
  /\ client' = "gone"
  /\ UNCHANGED <<provVars, up, down, typed, sending, download, saved, mishaps>>

-----------------------------------------------------------------------------
(* ServiceProvider.run: one object is read as the next command.            *)

ReadCommand(w) == provider = "command" /\ up # <<>> /\ Head(up).word = w /\ up' = Tail(up)
Send(replies) == down' = down \o replies

(* Faulty variant: run catches the exception inside its loop and goes on.  *)
ReadGarbageSkips ==
  /\ provider \in {"command", "final"} /\ up # <<>> /\ IsRaw(Head(up))
  /\ up' = Tail(up)
  /\ UNCHANGED <<clientVars, provider, down, upload, disk, fate, serving, buffered, mishaps>>

(* Raw bytes where an object is expected: readObject throws, run catches   *)
(* it, the thread ends, and nobody closes the socket or the upload's file. *)
ReadGarbage ==
  /\ provider \in {"command", "final"} /\ up # <<>> /\ IsRaw(Head(up))
  /\ up' = Tail(up)
  /\ provider' = "dead"
  /\ UNCHANGED <<clientVars, down, upload, disk, fate, serving, buffered, mishaps>>

(* The lookups, and "request": one object is sent back. *)
Other ==
  /\ ReadCommand("other")
  /\ Send(<<Note("done")>>)
  /\ UNCHANGED <<clientVars, provVars, mishaps>>

(* What another session does makes run throw: nobody closes the socket.    *)
Disturbed == provider' = "dead" /\ mishaps' = mishaps \cup {"disturbed"}

(* A lookup meets a null entry, or a directory that is not there and has   *)
(* no list, and nothing is sent; or the sender of a request, which has been*)
(* answered, fails to add to another's messages.                           *)
OtherThrows ==
  /\ ReadCommand("other") /\ Disturbed
  /\ UNCHANGED down \/ Send(<<Note("done")>>)
  /\ UNCHANGED <<clientVars, upload, disk, fate, serving, buffered>>

ViewMessage ==
  /\ ReadCommand("view")
  /\ Send(<<Note("viewing"), Note("messages")>>)
  /\ UNCHANGED <<clientVars, provVars, mishaps>>

(* No branch of run matches, and nothing is sent back.  The two messages   *)
(* that end an upload match none either, when they are read as commands.   *)
Unknown ==
  /\ \E w \in {"unknown", "complete", "unsuccessful"} : ReadCommand(w)
  /\ mishaps' = mishaps \cup {"ignored"}
  /\ UNCHANGED <<clientVars, provVars, down>>

(* Too few arguments, or a number that is none: run throws before it has   *)
(* answered.  A type other than public or private makes uploadFile throw,  *)
(* when the client has been told to start.                                 *)
Malformed ==
  /\ ReadCommand("malformed")
  /\ provider' = "dead"
  /\ mishaps' = mishaps \cup {"malformed"}
  /\ \/ UNCHANGED <<buffered, down>>
     \/ \E n \in Files : buffered' = buffered + n /\ UNCHANGED down
     \/ \E f \in Files, n \in Files :
          buffered' = buffered + n /\ Send(<<About("parameter", f, n)>>)
  /\ UNCHANGED <<clientVars, upload, disk, fate, serving>>

Logout ==
  /\ ReadCommand("logout")
  /\ Send(<<Note("loggedOut")>>)
  /\ provider' = "closed"
  /\ UNCHANGED <<clientVars, upload, disk, fate, serving, buffered, mishaps>>

(* The list of users online has an entry less than logout found in it.     *)
LogoutThrows ==
  /\ ReadCommand("logout") /\ Disturbed
  /\ UNCHANGED <<clientVars, down, upload, disk, fate, serving, buffered>>

(* Faulty variant: the size is not added to currentBufferSize.             *)
StartUploadUncounted ==
  LET c == Head(up)
  IN  /\ ReadCommand("upload")
      /\ Send(<<About("parameter", c.file, c.number)>>)
      /\ upload' = NewWriter(c.file, c.number)
      /\ disk' = <<>> /\ fate' = "writing"
      /\ provider' = IF AllCounted(upload') THEN "final" ELSE "chunks"
      /\ mishaps' = mishaps \cup (IF Chunks(c.number) # Chunks(c.file) THEN {"missized"} ELSE {})
      /\ UNCHANGED <<clientVars, serving, buffered>>

(* The size goes into currentBufferSize, the file's name back to the       *)
(* client, and the file is created (or emptied) before any of it arrives.  *)
StartUpload ==
  LET c == Head(up)
  IN  /\ ReadCommand("upload")
      /\ Send(<<About("parameter", c.file, c.number)>>)
      /\ buffered' = buffered + c.number
      /\ upload' = NewWriter(c.file, c.number)
      /\ disk' = <<>> /\ fate' = "writing"
      /\ provider' = IF AllCounted(upload') THEN "final" ELSE "chunks"
      /\ mishaps' = mishaps \cup (IF Chunks(c.number) # Chunks(c.file) THEN {"missized"} ELSE {})
      /\ UNCHANGED <<clientVars, serving>>

(* The same, but another login of the same user, to whom this session is a *)
(* returning one, has not made the directories yet: the file cannot be     *)
(* created, and the client has been told to start.                         *)
UploadThrows ==
  LET c == Head(up)
  IN  /\ ReadCommand("upload") /\ Disturbed
      /\ Send(<<About("parameter", c.file, c.number)>>)
      /\ buffered' = buffered + c.number
      /\ UNCHANGED <<clientVars, upload, disk, fate, serving>>

(* Faulty variant: only the last chunk is acknowledged.                    *)
ReadChunkAcksLast(k) ==
  LET bytes == Filled(upload.bytes, k, up)
  IN  /\ provider = "chunks" /\ k <= Len(up)
      /\ up' = Rest(up, k)
      /\ disk' = disk \o bytes
      /\ upload' = Counted(upload, bytes)
      /\ IF AllCounted(upload') THEN provider' = "final" /\ Send(<<Note("received")>>)
                               ELSE UNCHANGED <<provider, down>>
      /\ mishaps' = mishaps \cup (IF Tears(up, k) THEN {"torn"} ELSE {})
      /\ UNCHANGED <<clientVars, fate, serving, buffered>>

(* The loop of uploadFile: each read is acknowledged as a chunk. *)
ReadChunk(k) ==
  LET bytes == Filled(upload.bytes, k, up)
  IN  /\ provider = "chunks" /\ k <= Len(up)
      /\ up' = Rest(up, k)
      /\ Send(<<Note("received")>>)
      /\ disk' = disk \o bytes
      /\ upload' = Counted(upload, bytes)
      /\ provider' = IF AllCounted(upload') THEN "final" ELSE "chunks"
      /\ mishaps' = mishaps \cup (IF Tears(up, k) THEN {"torn"} ELSE {})
      /\ UNCHANGED <<clientVars, fate, serving, buffered>>

(* After the upload, kept or not, notifyRequestSender throws: the last     *)
(* argument of a "response" is not a request's number, or an addition to   *)
(* the messages of the user who asked fails.                               *)
AnswerThrows ==
  provider' = "dead" /\ \E m \in {"malformed", "disturbed"} : mishaps' = mishaps \cup {m}

(* The object after the last chunk decides: kept, or deleted. *)
EndUpload ==
  LET kept == Head(up).word = "complete" /\ upload.count = Chunks(upload.size)
  IN  /\ provider = "final" /\ up # <<>> /\ ~IsRaw(Head(up))
      /\ up' = Tail(up)
      /\ fate' = IF kept THEN "complete" ELSE "deleted"
      /\ Send(<<Note(IF kept THEN "completed" ELSE "cancelled")>>)
      /\ buffered' = buffered - upload.size
      /\ \/ provider' = "command" /\ UNCHANGED mishaps
         \/ AnswerThrows
      /\ UNCHANGED <<clientVars, upload, disk, serving>>

(* Faulty variant: a missing file is passed over in silence.               *)
NoSuchFileSilent ==
  /\ ReadCommand("download")
  /\ UNCHANGED <<clientVars, provVars, down, mishaps>>

(* "requested file does not exist" *)
NoSuchFile ==
  /\ ReadCommand("download")
  /\ Send(<<Note("missing")>>)
  /\ UNCHANGED <<clientVars, provVars, mishaps>>

(* A file is found, announced with n units, and opened with f: they differ *)
(* if another user uploads to that file in between.                        *)
StartDownload(f, n) ==
  /\ ReadCommand("download")
  /\ Send(<<About("download", f, n), Note("starting")>>)
  /\ buffered' = buffered + n
  /\ serving' = NewReader(f)
  /\ provider' = IF f = 0 THEN "command" ELSE "blocks"
  /\ mishaps' = mishaps \cup (IF Chunks(n) # Chunks(f) THEN {"missized"} ELSE {})
  /\ UNCHANGED <<clientVars, upload, disk, fate>>

(* The file has been found, and announced with n units, but an upload of   *)
(* another session that failed deletes it before it is opened.  If that is *)
(* before its length is asked for, n is 0.                                 *)
FileVanishes(n) ==
  /\ ReadCommand("download") /\ Disturbed
  /\ Send(<<About("download", n, n), Note("starting")>>)
  /\ buffered' = buffered + n
  /\ UNCHANGED <<clientVars, upload, disk, fate, serving>>

SendBlock ==
  /\ provider = "blocks"
  /\ serving' = Advance(serving)
  /\ Send(serving'.bytes)
  /\ provider' = IF AtEnd(serving') THEN "command" ELSE "blocks"
  /\ UNCHANGED <<clientVars, up, upload, disk, fate, buffered, mishaps>>

(* On a connection whose client is gone any read or write may throw.  When *)
(* it does not, read() in uploadFile returns -1 and the loop goes round.   *)
ConnectionLost ==
  /\ client = "gone" /\ provider \notin {"closed", "dead"}
  /\ provider' = "dead"
  /\ UNCHANGED <<clientVars, up, down, upload, disk, fate, serving, buffered, mishaps>>

-----------------------------------------------------------------------------
ClientStep ==
  \/ ReadReply \/ ReadMessages \/ SendChunk \/ ReadAck \/ ReadFinal \/ ReadIntro
  \/ \E k \in 1..2 : ReadBlock(k)
  \/ ClientEOF

ProviderStep ==
  \/ ReadGarbage \/ Other \/ ViewMessage \/ Unknown \/ Malformed \/ Logout
  \/ OtherThrows \/ LogoutThrows \/ UploadThrows \/ \E n \in Files : FileVanishes(n)
  \/ StartUpload \/ EndUpload \/ NoSuchFile \/ SendBlock
  \/ \E k \in 1..2 : ReadChunk(k)
  \/ \E f \in Files, n \in Files : StartDownload(f, n)

Next ==
  \/ \E c \in Commands : Type(c)
  \/ ClientStep \/ ProviderStep \/ ConnectionLost \/ Vanish

Spec == Init /\ [][Next]_vars

(* Both programs keep running: neither step waits for the user.            *)
FairSpec == Spec /\ WF_vars(ClientStep) /\ WF_vars(ProviderStep)

-----------------------------------------------------------------------------
(* Safety *)

(* An upload that was reported complete is on disk as the client's file    *)
(* has it, followed by the padding of the last chunk, also when reads were *)
(* torn, and also when sizes were wrong: either way the counts make the    *)
(* provider meet something else than the client's "transmission complete". *)
(* It takes both to deceive it: a torn upload of too great a size is       *)
(* acknowledged oftener than the client waits for, and it answers a later  *)
(* command with what was meant for an earlier one.                         *)
HoldsFile(written, f) ==
  /\ Len(written) = 2 * Chunks(f)
  /\ SubSeq(written, 1, f) = Content(f)

AckedIsExact ==
  fate = "complete" /\ ~({"torn", "missized"} \subseteq mishaps) => HoldsFile(disk, upload.file)

(* A download whose blocks were all counted is the file that was sent and  *)
(* padding, unless a read was torn or the file changed, or went, under it. *)
DownloadExact ==
  /\ client = "prompt" /\ AllCounted(download)
  /\ mishaps \cap {"torn", "missized", "disturbed"} = {}
  => HoldsFile(saved, download.file)

(* The two sides stay in step on what is object and what is raw: a provider*)
(* dies only of a torn read, a wrong size, a malformed command, another    *)
(* session's disturbance, or a lost client.                                *)
DiesOfMishaps ==
  provider = "dead" =>
    client = "gone" \/ mishaps \cap {"torn", "missized", "malformed", "disturbed"} # {}

(* Client and provider never wait for each other for good, unless a read   *)
(* was torn, a size wrong, a command unknown or malformed, or the session  *)
(* disturbed by another.                                                   *)
NoMutualWait ==
  /\ client \notin {"prompt", "chunk", "gone"} /\ down = <<>>
  /\ provider \in {"command", "chunks", "final", "dead"} /\ up = <<>>
  => mishaps # {}

(* What the commented-out log line of uploadFile says of a failed          *)
(* transmission: "transmission failure, file deleted".                     *)
FailureDeletes == provider = "dead" => fate # "writing"

-----------------------------------------------------------------------------
(* Liveness under FairSpec *)

(* As long as none of the mishaps has happened, the prompt comes back:     *)
(* commands are answered, uploads and downloads end.                       *)
PromptReturns == client # "prompt" ~> (client \in {"prompt", "gone"} \/ mishaps # {})

(* An upload ends, unless the client vanishes: then the loop of uploadFile *)
(* may turn for ever.                                                      *)
UploadEnds ==
  fate = "writing" ~> (fate # "writing" \/ client = "gone" \/ mishaps # {})
=============================================================================
