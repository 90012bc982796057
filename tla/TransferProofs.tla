--------------------------- MODULE TransferProofs ---------------------------
(***************************************************************************)
(* Proofs about Transfer, for files of any length and any number of        *)
(* commands.                                                               *)
(*                                                                         *)
(* Neither program can see where the other stands; the proofs rest on what *)
(* the two streams hold for each pair of places the two can be at, as long *)
(* as not both a read has been torn and a size has been wrong.  Then, up to*)
(* the end of an upload, the bytes under way are the next ones of the file,*)
(* and there are as many acknowledgements under way as chunks counted by   *)
(* the provider and not yet by the client; and no command is answered with *)
(* anything but the reply to it, or else what comes is raw and the client's*)
(* end.                                                                    *)
(***************************************************************************)
EXTENDS Transfer, SequenceTheorems, TLAPS

-----------------------------------------------------------------------------
(* Files cut into chunks. *)

(* The k-th unit sent of a file: after its last, what the buffer held.     *)
Padded(f, k) == IF k <= f THEN Unit(f, k) ELSE IF f = 1 THEN Zeros ELSE Unit(f, f - 1)

(* A reader that has sent a chunks of f. *)
ReaderAt(rd, f, a) ==
  /\ rd.file = f /\ a \in 0..Chunks(f)
  /\ rd.at = IF 2 * a <= f THEN 2 * a ELSE f
  /\ rd.bytes = IF a = 0 THEN <<Zeros, Zeros>> ELSE <<Padded(f, 2 * a - 1), Padded(f, 2 * a)>>

(* A stream that holds, after o objects, what is unread of a chunks of f   *)
(* when u units have been read.                                            *)
Holds(q, o, f, u, a) == \A i \in 1..(2 * a - u) : q[o + i] = Padded(f, u + i)

Wrote(written, f, c) ==
  Len(written) = 2 * c /\ \A i \in 1..(2 * c) : written[i] = Padded(f, i)

-----------------------------------------------------------------------------
(* Where the two stand. *)

Whole == "torn" \notin mishaps
Sized == "missized" \notin mishaps
Calm  == "disturbed" \notin mishaps

(* The client will take raw bytes for a reply, and end. *)
Doomed ==
  /\ client \in {"prompt", "reply"} /\ ~(Whole /\ Sized)
  /\ IF down = <<>> THEN provider = "blocks" ELSE IsRaw(Head(down))

Acks(n) == Len(down) = n /\ \A i \in 1..n : down[i] = Note("received")
Asked   == \E x \in Commands : up = <<x>>

(* An upload whose parameters have not reached the client.                 *)
Starting ==
  /\ up = <<>> /\ upload.count = 0 /\ disk = <<>>
  /\ client \in {"reply", "gone"}
  /\ client = "reply" => Doomed \/ down = <<About("parameter", upload.file, upload.size)>>

(* One of which the client has sent a chunks, and "complete" if e is 1, and*)
(* the provider has read u units.                                          *)
UnderWay(a, u, e) ==
  /\ ReaderAt(sending, upload.file, a)
  /\ u <= 2 * a /\ u <= 2 * upload.count
  /\ IF u = 2 * upload.count THEN Wrote(disk, upload.file, upload.count) ELSE ~Whole
  /\ Len(up) = 2 * a - u + e /\ Holds(up, 0, upload.file, u, a)
  /\ e = 1 => /\ a = Chunks(upload.file) /\ upload.count = a
              /\ up[Len(up)] = Note("complete")
  /\ client \in {"chunk", "ack", "final", "gone"}
  /\ client = "chunk" => e = 0 /\ a <= upload.count /\ Acks(upload.count - a)
  /\ client = "ack"   => e = 0 /\ a > 0 /\ a <= upload.count + 1 /\ Acks(upload.count + 1 - a)
  /\ client = "final" => e = 1 /\ Acks(0)

Transmitting == \E a \in Nat, u \in Nat, e \in 0..1 : UnderWay(a, u, e)

(* One that the client has ended, but not the provider, which was told too *)
(* great a size.                                                           *)
Over ==
  /\ ~Sized /\ (up = <<>> \/ Asked)
  /\ client \in {"final", "prompt", "reply", "gone"}
  /\ client = "final"  => up = <<>> /\ Acks(1)
  /\ client = "prompt" => up = <<>> /\ Acks(0)
  /\ client = "reply"  => IF up = <<>> THEN Acks(1) ELSE Acks(0)

Uploading ==
  /\ fate = "writing" /\ upload.count <= Chunks(upload.size)
  /\ provider = "chunks" <=> upload.count < Chunks(upload.size)
  /\ Sized => Chunks(upload.size) = Chunks(upload.file)
  /\ Starting \/ Transmitting \/ Over

(* The provider has sent b chunks of a file, and the client has read v     *)
(* units of them, which come after o objects.                              *)
BlocksSent(o, v, b) ==
  /\ ReaderAt(serving, serving.file, b) /\ v <= 2 * b
  /\ provider = IF b < Chunks(serving.file) THEN "blocks" ELSE "command"
  /\ Len(down) = o + (2 * b - v) /\ Holds(down, o, serving.file, v, b)
Blocks(o, v) == \E b \in Nat : BlocksSent(o, v, b)

SizeOf(n, f) == Sized => Chunks(n) = Chunks(f)

Announced ==
  /\ Blocks(2, 0) /\ down[2] = Note("starting")
  /\ \E n \in Nat : down[1] = About("download", serving.file, n) /\ SizeOf(n, serving.file)

Fetching(v) ==
  /\ Blocks(0, v) /\ download.file = serving.file
  /\ SizeOf(download.size, download.file)
  /\ download.count < Chunks(download.size) /\ v <= 2 * download.count
  /\ IF v = 2 * download.count THEN Wrote(saved, download.file, download.count) ELSE ~Whole

Replied ==
  /\ provider = "command" /\ up = <<>>
  /\ \/ \E w \in {"done", "missing", "cancelled"} : down = <<Note(w)>>
     \/ down = <<Note("viewing"), Note("messages")>>
     \/ down = <<>> /\ "ignored" \in mishaps

(* The client, as long as the provider is at no upload. *)
Between ==
  /\ up = <<>> \/ (Asked /\ client \in {"reply", "gone"})
  /\ client \in {"prompt", "reply", "viewing", "intro", "blocks", "final", "gone"}
  /\ client = "prompt" => Doomed \/ (provider = "command" /\ down = <<>>)
  /\ client = "reply" =>
       \/ Doomed
       \/ provider = "command" /\ up # <<>> /\ down = <<>>
       \/ Replied
       \/ up = <<>> /\ Announced
  /\ client = "viewing" => provider = "command" /\ down = <<Note("messages")>>
  /\ client = "intro" =>
       /\ Blocks(1, 0) /\ down[1] = Note("starting")
       /\ download = NewWriter(serving.file, download.size)
       /\ SizeOf(download.size, download.file)
  /\ client = "blocks" => \E v \in Nat : Fetching(v)
  /\ client = "final" => provider = "command" /\ down = <<Note("completed")>>

Closed ==
  /\ client \in {"reply", "gone"}
  /\ client = "reply" => Doomed \/ down = <<Note("loggedOut")>>

(* The client is left with a provider that has died of a command.          *)
Dead ==
  \/ client = "gone" \/ ~Whole \/ ~Sized \/ ~Calm
  \/ /\ "malformed" \in mishaps
     /\ client \in {"prompt", "reply", "chunk", "ack", "final"}
     /\ \/ down = <<>>
        \/ client = "reply" /\ Len(down) = 1 /\ down[1].word = "parameter"
        \/ client = "final" /\ Len(down) = 1

InStep ==
  /\ provider \in {"chunks", "final"}   => Uploading
  /\ provider \in {"command", "blocks"} => Between
  /\ provider = "closed" => Closed
  /\ provider = "dead"   => Dead

Stored == fate = "complete" => Wrote(disk, upload.file, Chunks(upload.file))
Fetched ==
  Whole /\ Sized /\ Calm /\ client \notin {"intro", "blocks", "gone"} /\ AllCounted(download)
    => Wrote(saved, download.file, Chunks(download.file))

(* An upload's size has been put on before it is taken off. *)
Credited == provider \in {"chunks", "final"} => buffered >= upload.size

(* What the types need: buffers of a chunk, a reader that is not at its    *)
(* end, and a buffered size that can be taken back.                        *)
TypeInv ==
  /\ TypeOK /\ Credited
  /\ Len(sending.bytes) = 2 /\ Len(serving.bytes) = 2
  /\ Len(upload.bytes) = 2 /\ Len(download.bytes) = 2
  /\ provider = "blocks" => ~AtEnd(serving)

Consistent  == InStep /\ Stored /\ Fetched
TransferInv == TypeInv /\ (Whole \/ Sized => Consistent)

-----------------------------------------------------------------------------
(* Facts about the operators of Transfer. *)

LEMMA ChunksHalf ==
  ASSUME NEW n \in Nat
  PROVE  Chunks(n) \in Nat /\ (2 * Chunks(n) = n \/ 2 * Chunks(n) = n + 1)
  BY DEF Chunks

LEMMA NewReaderAt ==
  ASSUME NEW f \in Nat
  PROVE  ReaderAt(NewReader(f), f, 0)
<1>1. Chunks(f) \in Nat BY ChunksHalf
<1> QED BY <1>1 DEF ReaderAt, NewReader

LEMMA ReaderEnds ==
  ASSUME NEW rd, NEW f \in Nat, NEW a \in Nat, ReaderAt(rd, f, a)
  PROVE  a <= Chunks(f) /\ (AtEnd(rd) <=> a = Chunks(f))
<1>1. Chunks(f) \in Nat /\ (2 * Chunks(f) = f \/ 2 * Chunks(f) = f + 1) BY ChunksHalf
<1>2. rd.file = f /\ a <= Chunks(f) /\ rd.at = IF 2 * a <= f THEN 2 * a ELSE f BY DEF ReaderAt
<1> QED BY <1>1, <1>2 DEF AtEnd

LEMMA ContentItems ==
  ASSUME NEW f \in Nat, NEW at \in Nat, at <= f
  PROVE  /\ Content(f) \in Seq(Items) /\ Len(Content(f)) = f
         /\ \A k \in 1..(f - at) : Rest(Content(f), at)[k] = Unit(f, at + k)
<1>1. \A k \in 1..f : Unit(f, k) \in Items BY DEF Unit, Items, Words
<1>2. Content(f) \in Seq(Items) /\ Len(Content(f)) = f BY <1>1 DEF Content
<1>3. \A k \in 1..(f - at) : Rest(Content(f), at)[k] = Content(f)[at + k]
  BY <1>2, SubSeqProperties DEF Rest
<1>4. \A k \in 1..(f - at) : at + k \in 1..f OBVIOUS
<1> QED BY <1>2, <1>3, <1>4 DEF Content

(* FileInputStream.read: the next chunk, and behind a last half what the   *)
(* buffer held.                                                            *)
LEMMA ReaderAdvances ==
  ASSUME NEW rd \in Reader, Len(rd.bytes) = 2,
         NEW f \in Nat, NEW a \in Nat, ReaderAt(rd, f, a), a < Chunks(f)
  PROVE  /\ ReaderAt(Advance(rd), f, a + 1)
         /\ Advance(rd).bytes = <<Padded(f, 2 * a + 1), Padded(f, 2 * a + 2)>>
<1> DEFINE k == IF rd.file - rd.at >= 2 THEN 2 ELSE 1
           new == Filled(rd.bytes, k, Rest(Content(rd.file), rd.at))
<1>1. rd.file = f /\ rd.at = 2 * a /\ 2 * a < f
  BY ChunksHalf DEF ReaderAt
<1>2. \A i \in 1..(f - 2 * a) : Rest(Content(f), 2 * a)[i] = Unit(f, 2 * a + i)
  BY <1>1, ContentItems
<1>3. new = [i \in 1..2 |-> IF i <= k THEN Rest(Content(f), 2 * a)[i] ELSE rd.bytes[i]]
  BY <1>1 DEF Filled
<1>4. new[1] = Unit(f, 2 * a + 1) BY <1>1, <1>2, <1>3
<1>5. new[2] = Padded(f, 2 * a + 2)
  <2>1. CASE f - 2 * a >= 2
    BY <1>1, <1>2, <1>3, <2>1 DEF Padded
  <2>2. CASE f - 2 * a < 2
    <3>1. f = 2 * a + 1 /\ new[2] = rd.bytes[2] BY <1>1, <1>3, <2>2
    <3>2. CASE a = 0 BY <3>1, <3>2 DEF ReaderAt, Padded
    <3>3. CASE a # 0
      <4>1. rd.bytes[2] = Padded(f, 2 * a) BY <3>3 DEF ReaderAt
      <4>2. Padded(f, 2 * a) = Unit(f, f - 1) /\ Padded(f, 2 * a + 2) = Unit(f, f - 1)
        BY <3>1, <3>3 DEF Padded
      <4> QED BY <3>1, <4>1, <4>2
    <3> QED BY <3>2, <3>3
  <2> QED BY <1>1, <2>1, <2>2
<1>6. new = <<Padded(f, 2 * a + 1), Padded(f, 2 * a + 2)>>
  BY <1>1, <1>3, <1>4, <1>5 DEF Padded
<1>7. Advance(rd) = [rd EXCEPT !.at = @ + k, !.bytes = new] BY DEF Advance
<1>8. /\ Advance(rd).file = f /\ Advance(rd).at = 2 * a + k /\ Advance(rd).bytes = new
  BY <1>1, <1>7 DEF Reader
<1>9. 2 * a + k = IF 2 * (a + 1) <= f THEN 2 * (a + 1) ELSE f BY <1>1
<1>10. a + 1 \in 0..Chunks(f) /\ a + 1 # 0 /\ 2 * (a + 1) - 1 = 2 * a + 1 /\ 2 * (a + 1) = 2 * a + 2
  BY ChunksHalf
<1> HIDE DEF new, k
<1> QED BY <1>6, <1>8, <1>9, <1>10 DEF ReaderAt

LEMMA RestItems ==
  ASSUME NEW S, NEW q \in Seq(S), NEW k \in Nat, k <= Len(q)
  PROVE  /\ Rest(q, k) \in Seq(S) /\ Len(q) \in Nat /\ Len(Rest(q, k)) = Len(q) - k
         /\ \A i \in 1..(Len(q) - k) : Rest(q, k)[i] = q[k + i]
  BY SubSeqProperties, LenProperties DEF Rest

LEMMA FilledItems ==
  ASSUME NEW bytes \in Seq(Items), Len(bytes) = 2, NEW k \in 1..2,
         NEW q, \A i \in 1..k : q[i] \in Items
  PROVE  /\ Filled(bytes, k, q) \in Seq(Items) /\ Len(Filled(bytes, k, q)) = 2
         /\ Filled(bytes, k, q)[1] = q[1]
         /\ Filled(bytes, k, q)[2] = IF k = 2 THEN q[2] ELSE bytes[2]
         /\ k = 2 => Filled(bytes, k, q) = <<q[1], q[2]>>
<1> DEFINE new == [i \in 1..2 |-> IF i <= k THEN q[i] ELSE bytes[i]]
<1>1. Filled(bytes, k, q) = new BY DEF Filled
<1>2. \A i \in 1..2 : bytes[i] \in Items OBVIOUS
<1>3. \A i \in 1..2 : new[i] \in Items BY <1>2
<1>4. new[1] = q[1] /\ new[2] = IF k = 2 THEN q[2] ELSE bytes[2] OBVIOUS
<1>5. new[1] \in Items /\ new[2] \in Items BY <1>3
<1>6. new = <<new[1], new[2]>> OBVIOUS
<1> HIDE DEF new
<1>7. <<new[1], new[2]>> \in Seq(Items) /\ Len(<<new[1], new[2]>>) = 2 BY <1>5
<1>8. new \in Seq(Items) /\ Len(new) = 2 BY <1>6, <1>7
<1> QED BY <1>1, <1>4, <1>6, <1>8

LEMMA TwoItems ==
  ASSUME NEW S, NEW q \in Seq(S), NEW r \in Seq(S), Len(r) = 2
  PROVE  /\ q \o r \in Seq(S) /\ Len(q) \in Nat /\ Len(q \o r) = Len(q) + 2
         /\ \A i \in 1..Len(q) : (q \o r)[i] = q[i]
         /\ (q \o r)[Len(q) + 1] = r[1] /\ (q \o r)[Len(q) + 2] = r[2]
<1>0. Len(q) \in Nat /\ q \o r \in Seq(S) /\ Len(q \o r) = Len(q) + Len(r)
  BY LenProperties, ConcatProperties
<1>1. Len(q) \in Nat /\ q \o r \in Seq(S) /\ Len(q \o r) = Len(q) + 2 BY <1>0
<1>2. \A i \in 1..(Len(q) + 2) : (q \o r)[i] = IF i <= Len(q) THEN q[i] ELSE r[i - Len(q)]
  BY <1>1, ConcatProperties
<1> QED BY <1>1, <1>2

(* A chunk more is under way. *)
LEMMA HoldsMore ==
  ASSUME NEW q \in Seq(Items), NEW r \in Seq(Items), NEW f \in Nat,
         NEW a \in Nat, NEW u \in Nat, NEW o \in Nat,
         u <= 2 * a, Len(q) = o + (2 * a - u), Holds(q, o, f, u, a),
         r = <<Padded(f, 2 * a + 1), Padded(f, 2 * a + 2)>>
  PROVE  /\ q \o r \in Seq(Items) /\ Len(q \o r) = o + (2 * (a + 1) - u)
         /\ Holds(q \o r, o, f, u, a + 1)
         /\ \A i \in 1..o : (q \o r)[i] = q[i]
<1>1. Len(r) = 2 /\ r[1] = Padded(f, 2 * a + 1) /\ r[2] = Padded(f, 2 * a + 2) OBVIOUS
<1>2. /\ q \o r \in Seq(Items) /\ Len(q) \in Nat /\ Len(q \o r) = Len(q) + 2
      /\ \A i \in 1..Len(q) : (q \o r)[i] = q[i]
      /\ (q \o r)[Len(q) + 1] = r[1] /\ (q \o r)[Len(q) + 2] = r[2]
  BY <1>1, TwoItems
<1>3. ASSUME NEW i \in 1..(2 * (a + 1) - u) PROVE (q \o r)[o + i] = Padded(f, u + i)
  <2>1. CASE i \in 1..(2 * a - u)
    <3>1. o + i \in 1..Len(q) BY <2>1
    <3> QED BY <1>2, <2>1, <3>1 DEF Holds
  <2>2. CASE i = 2 * a - u + 1
    <3>1. o + i = Len(q) + 1 /\ u + i = 2 * a + 1 BY <2>2
    <3> QED BY <1>1, <1>2, <3>1
  <2>3. CASE i = 2 * a - u + 2
    <3>1. o + i = Len(q) + 2 /\ u + i = 2 * a + 2 BY <2>3
    <3> QED BY <1>1, <1>2, <3>1
  <2>4. i \in 1..(2 * a - u) \/ i = 2 * a - u + 1 \/ i = 2 * a - u + 2
    <3>1. 2 * a - u \in Nat OBVIOUS
    <3>2. PICK n \in Nat : n = 2 * a - u BY <3>1
    <3>3. 2 * (a + 1) - u = n + 2 BY <3>2
    <3>4. i \in 1..(n + 2) BY <3>3
    <3>5. i \in 1..n \/ i = n + 1 \/ i = n + 2 BY <3>4
    <3> QED BY <3>2, <3>5
  <2> QED BY <2>1, <2>2, <2>3, <2>4
<1>4. Len(q \o r) = o + (2 * (a + 1) - u) BY <1>2
<1>5. \A i \in 1..o : i \in 1..Len(q) OBVIOUS
<1> QED BY <1>2, <1>3, <1>4, <1>5 DEF Holds

(* Some of it is read. *)
LEMMA HoldsLess ==
  ASSUME NEW q \in Seq(Items), NEW f \in Nat, NEW a \in Nat, NEW u \in Nat, NEW k \in Nat,
         u + k <= 2 * a, 2 * a - u <= Len(q), Holds(q, 0, f, u, a)
  PROVE  Holds(Rest(q, k), 0, f, u + k, a)
<1>1. Len(q) \in Nat /\ k <= Len(q) OBVIOUS
<1>2. \A i \in 1..(Len(q) - k) : Rest(q, k)[i] = q[k + i] BY <1>1, RestItems
<1>3. ASSUME NEW i \in 1..(2 * a - (u + k)) PROVE Rest(q, k)[i] = Padded(f, u + k + i)
  <2>1. i \in 1..(Len(q) - k) /\ k + i \in 1..(2 * a - u) /\ u + k + i = u + (k + i) BY <1>1
  <2>2. Rest(q, k)[i] = q[k + i] BY <1>2, <2>1
  <2>3. q[0 + (k + i)] = Padded(f, u + (k + i)) BY <2>1 DEF Holds
  <2>4. 0 + (k + i) = k + i BY <2>1
  <2> QED BY <2>1, <2>2, <2>3, <2>4
<1>4. \A i \in 1..(2 * a - (u + k)) : 0 + i = i OBVIOUS
<1> QED BY <1>3, <1>4 DEF Holds

LEMMA WroteMore ==
  ASSUME NEW q \in Seq(Items), NEW r \in Seq(Items), NEW f \in Nat, NEW c \in Nat, Wrote(q, f, c),
         r = <<Padded(f, 2 * c + 1), Padded(f, 2 * c + 2)>>
  PROVE  Wrote(q \o r, f, c + 1)
<1>1. r \in Seq(Items) /\ Len(r) = 2
  <2>1. \A k \in Nat \ {0} : Padded(f, k) \in Items BY DEF Padded, Unit, Zeros, Note, Items, Words
  <2>2. Padded(f, 2 * c + 1) \in Items /\ Padded(f, 2 * c + 2) \in Items BY <2>1
  <2> QED BY <2>2
<1>2. /\ Len(q) = 2 * c /\ Len(q \o r) = Len(q) + 2
      /\ \A i \in 1..Len(q) : (q \o r)[i] = q[i]
      /\ (q \o r)[Len(q) + 1] = r[1] /\ (q \o r)[Len(q) + 2] = r[2]
  BY <1>1, TwoItems DEF Wrote
<1>3. r[1] = Padded(f, 2 * c + 1) /\ r[2] = Padded(f, 2 * c + 2) OBVIOUS
<1>4. \A i \in 1..(2 * (c + 1)) : i \in 1..(2 * c) \/ i = 2 * c + 1 \/ i = 2 * c + 2 OBVIOUS
<1>5. \A i \in 1..(2 * (c + 1)) : (q \o r)[i] = Padded(f, i)
  <2> TAKE i \in 1..(2 * (c + 1))
  <2>1. CASE i \in 1..(2 * c) BY <1>2, <2>1 DEF Wrote
  <2>2. CASE i = 2 * c + 1 BY <1>2, <1>3, <2>2
  <2>3. CASE i = 2 * c + 2 BY <1>2, <1>3, <2>3
  <2> QED BY <1>4, <2>1, <2>2, <2>3
<1>6. Len(q \o r) = 2 * (c + 1) BY <1>2
<1> QED BY <1>5, <1>6 DEF Wrote

LEMMA WroteFile ==
  ASSUME NEW q \in Seq(Items), NEW f \in Nat, Wrote(q, f, Chunks(f))
  PROVE  HoldsFile(q, f)
<1>0. Chunks(f) \in Nat /\ (2 * Chunks(f) = f \/ 2 * Chunks(f) = f + 1) BY ChunksHalf
<1>1. Chunks(f) \in Nat /\ f <= 2 * Chunks(f) /\ Len(q) = 2 * Chunks(f)
  BY <1>0 DEF Wrote
<1>2. \A i \in 1..f : q[i] = Unit(f, i) BY <1>1 DEF Wrote, Padded
<1>3. SubSeq(q, 1, f) \in Seq(Items) /\ Len(SubSeq(q, 1, f)) = f
      /\ \A i \in 1..f : SubSeq(q, 1, f)[i] = q[i]
  BY <1>1, SubSeqProperties
<1>4. Content(f) \in Seq(Items) /\ Len(Content(f)) = f BY ContentItems
<1>5. \A i \in 1..f : Content(f)[i] = Unit(f, i) BY DEF Content
<1>6. SubSeq(q, 1, f) = Content(f) BY <1>2, <1>3, <1>4, <1>5
<1> QED BY <1>1, <1>6 DEF HoldsFile

-----------------------------------------------------------------------------
(* Types. *)

LEMMA Words21 ==
  /\ \A w \in Words : Note(w) \in Items /\ \A f, n \in Nat : About(w, f, n) \in Items
  /\ Zeros \in Items /\ \A f, k \in Nat : Unit(f, k) \in Items
  BY DEF Note, About, Zeros, Unit, Items, Words

LEMMA FilesAreNat == Files \subseteq Nat /\ MaxCommands \in Nat
  BY TransferAssumption

LEMMA CommandItems == Commands \subseteq Items
<1>1. {"other", "view", "logout", "unknown", "malformed", "download", "upload"} \subseteq Words
  BY DEF Words
<1> QED BY <1>1, Words21, FilesAreNat DEF Commands

LEMMA NewTyped ==
  ASSUME NEW f \in Nat, NEW n \in Nat
  PROVE  /\ NewReader(f) \in Reader /\ Len(NewReader(f).bytes) = 2
         /\ NewWriter(f, n) \in Writer /\ Len(NewWriter(f, n).bytes) = 2
<1>1. <<Zeros, Zeros>> \in Seq(Items) /\ Len(<<Zeros, Zeros>>) = 2 BY Words21
<1> QED BY <1>1 DEF NewReader, NewWriter, Reader, Writer

LEMMA AdvanceTyped ==
  ASSUME NEW rd \in Reader, Len(rd.bytes) = 2, ~AtEnd(rd)
  PROVE  /\ Advance(rd) \in Reader /\ Len(Advance(rd).bytes) = 2
         /\ Advance(rd).bytes \in Seq(Items)
<1> DEFINE k == IF rd.file - rd.at >= 2 THEN 2 ELSE 1
           new == Filled(rd.bytes, k, Rest(Content(rd.file), rd.at))
<1>1. rd.at \in Nat /\ rd.file \in Nat /\ rd.at < rd.file /\ rd.bytes \in Seq(Items)
  BY DEF Reader, AtEnd
<1>2. k \in 1..2 /\ k <= rd.file - rd.at BY <1>1
<1>3. \A i \in 1..k : Rest(Content(rd.file), rd.at)[i] \in Items
  <2>1. \A i \in 1..(rd.file - rd.at) : Rest(Content(rd.file), rd.at)[i] = Unit(rd.file, rd.at + i)
    <3> DEFINE f == rd.file  at == rd.at
    <3>1. f \in Nat /\ at \in Nat /\ at <= f BY <1>1
    <3> HIDE DEF f, at
    <3>2. \A i \in 1..(f - at) : Rest(Content(f), at)[i] = Unit(f, at + i) BY <3>1, ContentItems
    <3> QED BY <3>2 DEF f, at
  <2>2. \A i \in 1..k : i \in 1..(rd.file - rd.at) /\ rd.at + i \in Nat BY <1>1, <1>2
  <2> QED BY <1>1, <2>1, <2>2, Words21
<1>4. new \in Seq(Items) /\ Len(new) = 2
  <2> HIDE DEF k
  <2> QED BY <1>1, <1>2, <1>3, FilledItems
<1>5. Advance(rd) = [rd EXCEPT !.at = @ + k, !.bytes = new] BY DEF Advance
<1>6. rd = [file |-> rd.file, at |-> rd.at, bytes |-> rd.bytes] BY DEF Reader
<1> HIDE DEF k, new
<1>7. Advance(rd) = [file |-> rd.file, at |-> rd.at + k, bytes |-> new] BY <1>5, <1>6
<1>8. rd.at + k \in Nat BY <1>1, <1>2
<1> QED BY <1>1, <1>4, <1>7, <1>8 DEF Reader

LEMMA CountedTyped ==
  ASSUME NEW wr \in Writer, NEW bytes \in Seq(Items), Len(bytes) = 2
  PROVE  /\ Counted(wr, bytes) \in Writer /\ Counted(wr, bytes).bytes = bytes
         /\ Counted(wr, bytes).file = wr.file /\ Counted(wr, bytes).size = wr.size
         /\ Counted(wr, bytes).count = wr.count + 1
<1>1. wr.count + 1 \in Nat BY DEF Writer
<1>2. Counted(wr, bytes) \in Writer BY <1>1 DEF Counted, Writer
<1>3. Counted(wr, bytes).bytes = bytes BY DEF Counted, Writer
<1>4. Counted(wr, bytes).file = wr.file /\ Counted(wr, bytes).size = wr.size
  BY DEF Counted, Writer
<1>5. Counted(wr, bytes).count = wr.count + 1 BY DEF Counted, Writer
<1> QED BY <1>2, <1>3, <1>4, <1>5

(* A read of k units from a stream. *)
LEMMA ReadTyped ==
  ASSUME NEW wr \in Writer, Len(wr.bytes) = 2, NEW q \in Seq(Items), NEW k \in 1..2, k <= Len(q)
  PROVE  /\ Filled(wr.bytes, k, q) \in Seq(Items) /\ Len(Filled(wr.bytes, k, q)) = 2
         /\ Rest(q, k) \in Seq(Items)
<1>1. \A i \in 1..k : q[i] \in Items OBVIOUS
<1>2. wr.bytes \in Seq(Items) BY DEF Writer
<1>3. Rest(q, k) \in Seq(Items) BY RestItems
<1> DEFINE bytes == wr.bytes
<1>4. bytes \in Seq(Items) /\ Len(bytes) = 2 BY <1>2
<1> HIDE DEF bytes
<1>5. Filled(bytes, k, q) \in Seq(Items) /\ Len(Filled(bytes, k, q)) = 2
  BY <1>1, <1>4, FilledItems
<1> QED BY <1>3, <1>5 DEF bytes

LEMMA HeadTail ==
  ASSUME NEW q \in Seq(Items), q # <<>>
  PROVE  /\ Head(q) \in Items /\ Head(q) = q[1] /\ Tail(q) \in Seq(Items)
         /\ Len(q) \in Nat /\ Len(q) > 0 /\ Len(Tail(q)) = Len(q) - 1
         /\ \A i \in 1..(Len(q) - 1) : Tail(q)[i] = q[i + 1]
  BY HeadTailProperties, EmptySeq

LEMMA TypeInit == Init => TypeInv
<1> SUFFICES ASSUME Init PROVE TypeInv OBVIOUS
<1>1. <<>> \in Seq(Items) OBVIOUS
<1>2. \A f, n \in Nat : /\ NewReader(f) \in Reader /\ Len(NewReader(f).bytes) = 2
                        /\ NewWriter(f, n) \in Writer /\ Len(NewWriter(f, n).bytes) = 2
  BY NewTyped
<1>3. TypeOK BY <1>1, <1>2, FilesAreNat DEF Init, TypeOK, ClientPCs, ProviderPCs, Mishaps
<1>4. Credited BY DEF Init, Credited
<1> QED BY <1>2, <1>3, <1>4 DEF Init, TypeInv

(* What a step of the client's, or of the provider's, leaves alone. *)
LEMMA TypeStep ==
  ASSUME TypeInv, [Next]_vars
  PROVE  TypeInv'
<1> DEFINE ClientTypes ==
             /\ client \in ClientPCs /\ typed \in 0..MaxCommands
             /\ sending \in Reader /\ Len(sending.bytes) = 2
             /\ download \in Writer /\ Len(download.bytes) = 2 /\ saved \in Seq(Items)
           ProviderTypes ==
             /\ provider \in ProviderPCs
             /\ serving \in Reader /\ Len(serving.bytes) = 2
             /\ provider = "blocks" => ~AtEnd(serving)
             /\ upload \in Writer /\ Len(upload.bytes) = 2 /\ disk \in Seq(Items)
             /\ fate \in {"none", "writing", "complete", "deleted"}
             /\ buffered \in Nat /\ Credited
           StreamTypes ==
             /\ up \in Seq(Items) /\ down \in Seq(Items) /\ mishaps \subseteq Mishaps
<1>1. ClientTypes /\ ProviderTypes /\ StreamTypes BY DEF TypeInv, TypeOK
<1>2. ClientTypes' /\ ProviderTypes' /\ StreamTypes' => TypeInv' BY DEF TypeInv, TypeOK
<1>3. UNCHANGED provVars => ProviderTypes'
  BY <1>1 DEF provVars, Credited, AtEnd
<1>4. UNCHANGED clientVars => ClientTypes'
  BY <1>1 DEF clientVars
<1>5. UNCHANGED <<up, down, mishaps>> => StreamTypes' BY <1>1
<1>6. MaxCommands \in Nat BY FilesAreNat
<1>7. \A w \in Words : Note(w) \in Items /\ <<Note(w)>> \in Seq(Items) BY Words21
<1>8. \A q, r \in Seq(Items) : q \o r \in Seq(Items) BY ConcatProperties
<1>9. \A q \in Seq(Items), x \in Items : Append(q, x) \in Seq(Items) OBVIOUS
<1>10. \A q \in Seq(Items) : q # <<>> => Tail(q) \in Seq(Items) /\ Head(q) \in Items
  BY HeadTail
<1>11. \A x \in Items : x.file \in Nat /\ x.number \in Nat BY DEF Items
<1>12. ASSUME NEW c \in Commands, Type(c) PROVE TypeInv'
  <2>1. c \in Items BY CommandItems
  <2>2. StreamTypes' BY <1>1, <1>9, <1>12, <2>1 DEF Type
  <2>3. typed' \in 0..MaxCommands BY <1>1, <1>6, <1>12 DEF Type
  <2>4. ClientTypes' BY <1>1, <1>12, <2>3 DEF Type, ClientPCs
  <2> QED BY <1>2, <1>3, <1>12, <2>2, <2>4 DEF Type
<1>13. ASSUME ReadReply PROVE TypeInv'
  <2>1. StreamTypes' BY <1>1, <1>10, <1>13 DEF ReadReply
  <2>2. Head(down).file \in Nat /\ Head(down).number \in Nat
    BY <1>1, <1>10, <1>11, <1>13 DEF ReadReply
  <2>3. sending' \in Reader /\ Len(sending'.bytes) = 2
    BY <1>1, <1>13, <2>2, NewTyped DEF ReadReply
  <2>4. download' \in Writer /\ Len(download'.bytes) = 2
    BY <1>1, <1>13, <2>2, NewTyped DEF ReadReply
  <2>5. client' \in ClientPCs BY <1>13 DEF ReadReply, ClientPCs
  <2>6. ClientTypes' BY <1>1, <1>13, <2>3, <2>4, <2>5 DEF ReadReply
  <2> QED BY <1>2, <1>3, <1>13, <2>1, <2>6 DEF ReadReply
<1>14. ASSUME ReadMessages \/ ReadFinal PROVE TypeInv'
  <2>1. StreamTypes' BY <1>1, <1>10, <1>14 DEF ReadMessages, ReadFinal
  <2>2. ClientTypes' BY <1>1, <1>14 DEF ReadMessages, ReadFinal, ClientPCs
  <2> QED BY <1>2, <1>3, <1>14, <2>1, <2>2 DEF ReadMessages, ReadFinal
<1>15. ASSUME SendChunk PROVE TypeInv'
  <2>1. CASE AtEnd(sending)
    <3>1. Note("complete") \in Items BY <1>7 DEF Words
    <3>2. StreamTypes' BY <1>1, <1>9, <1>15, <2>1, <3>1 DEF SendChunk
    <3>3. ClientTypes' BY <1>1, <1>15, <2>1 DEF SendChunk, ClientPCs
    <3> QED BY <1>2, <1>3, <1>15, <3>2, <3>3 DEF SendChunk
  <2>2. CASE ~AtEnd(sending)
    <3>1. /\ sending' \in Reader /\ Len(sending'.bytes) = 2 /\ sending'.bytes \in Seq(Items)
      BY <1>1, <1>15, <2>2, AdvanceTyped DEF SendChunk
    <3>2. StreamTypes' BY <1>1, <1>8, <1>15, <2>2, <3>1 DEF SendChunk
    <3>3. ClientTypes' BY <1>1, <1>15, <2>2, <3>1 DEF SendChunk, ClientPCs
    <3> QED BY <1>2, <1>3, <1>15, <3>2, <3>3 DEF SendChunk
  <2> QED BY <2>1, <2>2
<1>16. ASSUME ReadAck PROVE TypeInv'
  <2>1. Note("unsuccessful") \in Items BY <1>7 DEF Words
  <2>2. up' \in Seq(Items) BY <1>1, <1>9, <1>16, <2>1 DEF ReadAck
  <2>3. StreamTypes' BY <1>1, <1>10, <1>16, <2>2 DEF ReadAck
  <2>4. ClientTypes' BY <1>1, <1>16 DEF ReadAck, ClientPCs
  <2> QED BY <1>2, <1>3, <1>16, <2>3, <2>4 DEF ReadAck
<1>17. ASSUME ReadIntro PROVE TypeInv'
  <2>1. StreamTypes' BY <1>1, <1>10, <1>17 DEF ReadIntro
  <2>2. saved' \in Seq(Items) BY <1>1, <1>17 DEF ReadIntro
  <2>3. ClientTypes' BY <1>1, <1>17, <2>2 DEF ReadIntro, ClientPCs
  <2> QED BY <1>2, <1>3, <1>17, <2>1, <2>3 DEF ReadIntro
<1>18. ASSUME NEW k \in 1..2, ReadBlock(k) PROVE TypeInv'
  <2> DEFINE bytes == Filled(download.bytes, k, down)
  <2>1. bytes \in Seq(Items) /\ Len(bytes) = 2 /\ down' \in Seq(Items)
    BY <1>1, <1>18, ReadTyped DEF ReadBlock
  <2>2. download' = Counted(download, bytes) /\ saved' = saved \o bytes BY <1>18 DEF ReadBlock
  <2> HIDE DEF bytes
  <2>3. download' \in Writer /\ Len(download'.bytes) = 2 BY <1>1, <2>1, <2>2, CountedTyped
  <2>4. saved' \in Seq(Items) BY <1>1, <1>8, <2>1, <2>2
  <2>5. ClientTypes' BY <1>1, <1>18, <2>3, <2>4 DEF ReadBlock, ClientPCs
  <2>6. StreamTypes' BY <1>1, <1>18, <2>1 DEF ReadBlock, Mishaps
  <2> QED BY <1>2, <1>3, <1>18, <2>5, <2>6 DEF ReadBlock
<1>19. ASSUME Vanish \/ ClientEOF PROVE TypeInv'
  <2>1. ClientTypes' BY <1>1, <1>19 DEF Vanish, ClientEOF, ClientPCs
  <2> QED BY <1>2, <1>3, <1>5, <1>19, <2>1 DEF Vanish, ClientEOF
<1>20. ASSUME ReadGarbage \/ ConnectionLost PROVE TypeInv'
  <2>1. StreamTypes' BY <1>1, <1>10, <1>20 DEF ReadGarbage, ConnectionLost
  <2>2. ProviderTypes'
    BY <1>1, <1>20 DEF ReadGarbage, ConnectionLost, ProviderPCs, Credited, AtEnd
  <2> QED BY <1>2, <1>4, <1>20, <2>1, <2>2 DEF ReadGarbage, ConnectionLost
<1>21. ASSUME Other \/ ViewMessage \/ NoSuchFile \/ Unknown PROVE TypeInv'
  <2>1. /\ <<Note("done")>> \in Seq(Items) /\ <<Note("missing")>> \in Seq(Items)
        /\ <<Note("viewing"), Note("messages")>> \in Seq(Items)
    BY <1>7 DEF Words
  <2>2. up' \in Seq(Items)
    BY <1>1, <1>10, <1>21 DEF Other, ViewMessage, NoSuchFile, Unknown, ReadCommand
  <2>3. down' \in Seq(Items)
    BY <1>1, <1>8, <1>21, <2>1 DEF Other, ViewMessage, NoSuchFile, Unknown, Send
  <2>4. StreamTypes'
    BY <1>1, <1>21, <2>2, <2>3 DEF Other, ViewMessage, NoSuchFile, Unknown, Mishaps
  <2> QED BY <1>2, <1>3, <1>4, <1>21, <2>4 DEF Other, ViewMessage, NoSuchFile, Unknown
<1>22. ASSUME Malformed PROVE TypeInv'
  <2>1. \A f, n \in Files : n \in Nat /\ <<About("parameter", f, n)>> \in Seq(Items)
    BY FilesAreNat, Words21 DEF Words
  <2>2. down' \in Seq(Items) BY <1>1, <1>8, <1>22, <2>1 DEF Malformed, Send
  <2>3. buffered' \in Nat
    <3>1. buffered' = buffered \/ \E n \in Files : buffered' = buffered + n
      BY <1>22 DEF Malformed
    <3>2. buffered \in Nat /\ Files \subseteq Nat BY <1>1, FilesAreNat
    <3> QED BY <3>1, <3>2
  <2>4. StreamTypes' BY <1>1, <1>10, <1>22, <2>2 DEF Malformed, ReadCommand, Mishaps
  <2>5. ProviderTypes'
    BY <1>1, <1>22, <2>3 DEF Malformed, ProviderPCs, Credited
  <2> QED BY <1>2, <1>4, <1>22, <2>4, <2>5 DEF Malformed
<1>23. ASSUME Logout PROVE TypeInv'
  <2>1. <<Note("loggedOut")>> \in Seq(Items) BY <1>7 DEF Words
  <2>2. StreamTypes' BY <1>1, <1>8, <1>10, <1>23, <2>1 DEF Logout, ReadCommand, Send
  <2>3. ProviderTypes' BY <1>1, <1>23 DEF Logout, ProviderPCs, Credited
  <2> QED BY <1>2, <1>4, <1>23, <2>2, <2>3 DEF Logout
<1>24. ASSUME StartUpload PROVE TypeInv'
  <2>1. Head(up) \in Items /\ Tail(up) \in Seq(Items)
    BY <1>1, <1>10, <1>24 DEF StartUpload, ReadCommand
  <2> DEFINE f == Head(up).file  n == Head(up).number
  <2>2. f \in Nat /\ n \in Nat BY <1>11, <2>1
  <2>3. /\ down' = down \o <<About("parameter", f, n)>> /\ up' = Tail(up)
        /\ upload' = NewWriter(f, n) /\ disk' = <<>> /\ fate' = "writing"
        /\ buffered' = buffered + n
        /\ UNCHANGED serving /\ UNCHANGED clientVars
        /\ provider' \in {"final", "chunks"}
        /\ mishaps' \subseteq mishaps \cup {"missized"}
    BY <1>24 DEF StartUpload, ReadCommand, Send
  <2> HIDE DEF f, n
  <2>4. <<About("parameter", f, n)>> \in Seq(Items) BY <2>2, Words21 DEF Words
  <2>5. StreamTypes' BY <1>1, <1>8, <2>1, <2>3, <2>4 DEF Mishaps
  <2>6. upload' \in Writer /\ Len(upload'.bytes) = 2 BY <2>2, <2>3, NewTyped
  <2>7. upload'.size = n BY <2>2, <2>3 DEF NewWriter
  <2>8. buffered' \in Nat /\ buffered' >= n BY <1>1, <2>2, <2>3
  <2>9. ProviderTypes'
    BY <1>1, <2>3, <2>6, <2>7, <2>8 DEF ProviderPCs, Credited
  <2> QED BY <1>2, <1>4, <2>3, <2>5, <2>9
<1>25. ASSUME NEW k \in 1..2, ReadChunk(k) PROVE TypeInv'
  <2> DEFINE bytes == Filled(upload.bytes, k, up)
  <2>1. bytes \in Seq(Items) /\ Len(bytes) = 2 /\ up' \in Seq(Items)
    BY <1>1, <1>25, ReadTyped DEF ReadChunk
  <2>2. /\ upload' = Counted(upload, bytes) /\ disk' = disk \o bytes
        /\ UNCHANGED <<fate, serving, buffered>>
        /\ provider = "chunks" /\ provider' \in {"final", "chunks"}
    BY <1>25 DEF ReadChunk
  <2> HIDE DEF bytes
  <2>3. upload' \in Writer /\ Len(upload'.bytes) = 2 /\ upload'.size = upload.size
    BY <1>1, <2>1, <2>2, CountedTyped
  <2>4. disk' \in Seq(Items) BY <1>1, <1>8, <2>1, <2>2
  <2>5. ProviderTypes' BY <1>1, <2>2, <2>3, <2>4 DEF ProviderPCs, Credited
  <2>6. <<Note("received")>> \in Seq(Items) BY <1>7 DEF Words
  <2>7. StreamTypes' BY <1>1, <1>8, <1>25, <2>1, <2>6 DEF ReadChunk, Send, Mishaps
  <2> QED BY <1>2, <1>4, <1>25, <2>5, <2>7 DEF ReadChunk
<1>26. ASSUME EndUpload PROVE TypeInv'
  <2>1. <<Note("completed")>> \in Seq(Items) /\ <<Note("cancelled")>> \in Seq(Items)
    BY <1>7 DEF Words
  <2>2. StreamTypes'
    BY <1>1, <1>8, <1>10, <1>26, <2>1 DEF EndUpload, AnswerThrows, Send, Mishaps
  <2>3. upload.size \in Nat BY <1>1 DEF Writer
  <2>4. buffered' \in Nat BY <1>1, <1>26, <2>3 DEF EndUpload, Credited
  <2>5. ProviderTypes'
    BY <1>1, <1>26, <2>4 DEF EndUpload, AnswerThrows, ProviderPCs, Credited
  <2> QED BY <1>2, <1>4, <1>26, <2>2, <2>5 DEF EndUpload
<1>30. ASSUME OtherThrows \/ LogoutThrows PROVE TypeInv'
  <2>1. <<Note("done")>> \in Seq(Items) BY <1>7 DEF Words
  <2>2. up' \in Seq(Items) BY <1>1, <1>10, <1>30 DEF OtherThrows, LogoutThrows, ReadCommand
  <2>3. down' \in Seq(Items) BY <1>1, <1>8, <1>30, <2>1 DEF OtherThrows, LogoutThrows, Send
  <2>4. StreamTypes'
    BY <1>1, <1>30, <2>2, <2>3 DEF OtherThrows, LogoutThrows, Disturbed, Mishaps
  <2>5. ProviderTypes'
    BY <1>1, <1>30 DEF OtherThrows, LogoutThrows, Disturbed, ProviderPCs, Credited
  <2> QED BY <1>2, <1>4, <1>30, <2>4, <2>5 DEF OtherThrows, LogoutThrows
<1>31. ASSUME NEW n \in Files, FileVanishes(n) PROVE TypeInv'
  <2>1. n \in Nat BY FilesAreNat
  <2>2. <<About("download", n, n), Note("starting")>> \in Seq(Items)
    BY <2>1, Words21 DEF Words
  <2>3. StreamTypes'
    BY <1>1, <1>8, <1>10, <1>31, <2>2 DEF FileVanishes, Disturbed, ReadCommand, Send, Mishaps
  <2>4. ProviderTypes'
    BY <1>1, <1>31, <2>1 DEF FileVanishes, Disturbed, ProviderPCs, Credited
  <2> QED BY <1>2, <1>4, <1>31, <2>3, <2>4 DEF FileVanishes
<1>32. ASSUME UploadThrows PROVE TypeInv'
  <2>1. Head(up) \in Items /\ Tail(up) \in Seq(Items)
    BY <1>1, <1>10, <1>32 DEF UploadThrows, ReadCommand
  <2>2. Head(up).file \in Nat /\ Head(up).number \in Nat BY <1>11, <2>1
  <2>3. <<About("parameter", Head(up).file, Head(up).number)>> \in Seq(Items)
    BY <2>2, Words21 DEF Words
  <2>4. StreamTypes'
    BY <1>1, <1>8, <1>32, <2>1, <2>3 DEF UploadThrows, Disturbed, ReadCommand, Send, Mishaps
  <2>5. ProviderTypes'
    BY <1>1, <1>32, <2>2 DEF UploadThrows, Disturbed, ProviderPCs, Credited
  <2> QED BY <1>2, <1>4, <1>32, <2>4, <2>5 DEF UploadThrows
<1>27. ASSUME SendBlock PROVE TypeInv'
  <2>1. /\ serving' \in Reader /\ Len(serving'.bytes) = 2 /\ serving'.bytes \in Seq(Items)
    BY <1>1, <1>27, AdvanceTyped DEF SendBlock
  <2>2. StreamTypes' BY <1>1, <1>8, <1>27, <2>1 DEF SendBlock, Send
  <2>3. ProviderTypes'
    BY <1>1, <1>27, <2>1 DEF SendBlock, ProviderPCs, Credited
  <2> QED BY <1>2, <1>4, <1>27, <2>2, <2>3 DEF SendBlock
<1>28. ASSUME NEW f \in Files, NEW n \in Files, StartDownload(f, n) PROVE TypeInv'
  <2>1. f \in Nat /\ n \in Nat BY FilesAreNat
  <2>2. <<About("download", f, n), Note("starting")>> \in Seq(Items)
    BY <2>1, Words21 DEF Words
  <2>3. serving' \in Reader /\ Len(serving'.bytes) = 2
    BY <1>28, <2>1, NewTyped DEF StartDownload
  <2>4. provider' = "blocks" => ~AtEnd(serving')
    BY <1>28, <2>1 DEF StartDownload, AtEnd, NewReader
  <2>5. StreamTypes'
    BY <1>1, <1>8, <1>10, <1>28, <2>2 DEF StartDownload, ReadCommand, Send, Mishaps
  <2>6. ProviderTypes'
    BY <1>1, <1>28, <2>1, <2>3, <2>4 DEF StartDownload, ProviderPCs, Credited
  <2> QED BY <1>2, <1>4, <1>28, <2>5, <2>6 DEF StartDownload
<1>29. ASSUME UNCHANGED vars PROVE TypeInv'
  <2>1. UNCHANGED provVars /\ UNCHANGED clientVars /\ UNCHANGED <<up, down, mishaps>>
    BY <1>29 DEF vars, provVars, clientVars
  <2> QED BY <1>2, <1>3, <1>4, <1>5, <2>1
<1> QED
  BY <1>12, <1>13, <1>14, <1>15, <1>16, <1>17, <1>18, <1>19, <1>20, <1>21, <1>22, <1>23,
     <1>24, <1>25, <1>26, <1>27, <1>28, <1>29, <1>30, <1>31, <1>32
     DEF Next, ClientStep, ProviderStep

(* Every variable keeps its type, whatever mishaps there are.              *)
THEOREM TransferTypeCorrect == Spec => []TypeOK
<1>1. Init => TypeInv BY TypeInit
<1>2. TypeInv /\ [Next]_vars => TypeInv' BY TypeStep
<1>3. TypeInv => TypeOK BY DEF TypeInv
<1> QED BY <1>1, <1>2, <1>3, PTL DEF Spec

-----------------------------------------------------------------------------
(* Facts about the streams. *)

LEMMA Lone ==
  /\ \A x \in Items : <<x>> \in Seq(Items) /\ Len(<<x>>) = 1 /\ <<x>> # <<>>
                      /\ Head(<<x>>) = x /\ Tail(<<x>>) = <<>>
  /\ \A x, y \in Items : <<x, y>> \in Seq(Items) /\ Len(<<x, y>>) = 2 /\ <<x, y>> # <<>>
                         /\ Head(<<x, y>>) = x /\ Tail(<<x, y>>) = <<y>>
<1>1. ASSUME NEW x \in Items PROVE <<x>> \in Seq(Items) /\ Len(<<x>>) = 1 /\ <<x>> # <<>>
                      /\ Head(<<x>>) = x /\ Tail(<<x>>) = <<>>
  OBVIOUS
<1>2. ASSUME NEW x \in Items, NEW y \in Items
      PROVE  <<x, y>> \in Seq(Items) /\ Len(<<x, y>>) = 2 /\ <<x, y>> # <<>>
                         /\ Head(<<x, y>>) = x /\ Tail(<<x, y>>) = <<y>>
  <2>1. <<x, y>> \in Seq(Items) /\ Len(<<x, y>>) = 2 OBVIOUS
  <2>2. /\ Tail(<<x, y>>) \in Seq(Items) /\ Len(Tail(<<x, y>>)) = 1
        /\ Tail(<<x, y>>)[1] = y
    BY <2>1, HeadTailProperties
  <2>3. Tail(<<x, y>>) = <<y>> BY <2>2
  <2> QED BY <2>1, <2>3
<1> QED BY <1>1, <1>2

LEMMA NothingThere ==
  ASSUME NEW q \in Seq(Items)
  PROVE  /\ Len(q) \in Nat /\ (Len(q) = 0 <=> q = <<>>)
         /\ <<>> \o q = q
         /\ q # <<>> => Len(q) >= 1 /\ Head(q) = q[1]
         /\ Len(q) = 1 => q = <<q[1]>>
<1>1. Len(q) \in Nat /\ (Len(q) = 0 <=> q = <<>>) BY LenProperties, EmptySeq
<1>2. <<>> \o q = q BY ConcatEmptySeq
<1>3. q # <<>> => Len(q) >= 1 /\ Head(q) = q[1] BY <1>1
<1>4. Len(q) = 1 => q = <<q[1]>> OBVIOUS
<1> QED BY <1>1, <1>2, <1>3, <1>4

LEMMA HeadStays ==
  ASSUME NEW q \in Seq(Items), NEW r \in Seq(Items), q # <<>>
  PROVE  q \o r # <<>> /\ Head(q \o r) = Head(q)
<1>1. Len(q) \in Nat /\ Len(q) >= 1 /\ Head(q) = q[1] BY NothingThere
<1>2. q \o r \in Seq(Items) /\ Len(q \o r) = Len(q) + Len(r) /\ (q \o r)[1] = q[1]
  BY <1>1, ConcatProperties
<1>3. Len(q \o r) > 0 BY <1>1, <1>2, LenProperties
<1> QED BY <1>1, <1>2, <1>3

(* What is sent after the last object read. *)
LEMMA RawUnits ==
  ASSUME NEW f \in Nat, NEW k \in 1..(2 * Chunks(f))
  PROVE  /\ Padded(f, k) \in Items /\ IsRaw(Padded(f, k))
         /\ Padded(f, k).number % 2 = k % 2
<1>1. 2 * Chunks(f) = f \/ 2 * Chunks(f) = f + 1 BY ChunksHalf
<1>2. CASE k <= f
  <2>1. Padded(f, k) = Unit(f, k) BY <1>2 DEF Padded
  <2>2. Unit(f, k) \in Items BY Words21
  <2> QED BY <2>1, <2>2 DEF Unit, IsRaw
<1>3. CASE k > f /\ f = 1
  <2>1. k = 2 /\ Padded(f, k) = Zeros BY <1>1, <1>3 DEF Padded
  <2> QED BY <2>1, Words21 DEF Zeros, Note, IsRaw
<1>4. CASE k > f /\ f # 1
  <2>1. k = f + 1 /\ f >= 1 /\ f % 2 = 1 /\ f - 1 \in Nat BY <1>1, <1>4, ChunksHalf
  <2>2. Padded(f, k) = Unit(f, f - 1) BY <1>4 DEF Padded
  <2>3. Unit(f, f - 1) \in Items BY <2>1, Words21
  <2>4. (f - 1) % 2 = (f + 1) % 2 BY <2>1
  <2> QED BY <2>1, <2>2, <2>3, <2>4 DEF Unit, IsRaw
<1> QED BY <1>2, <1>3, <1>4

(* A reader that is not at its end sends content, wherever it stands. *)
LEMMA AdvanceRaw ==
  ASSUME NEW rd \in Reader, Len(rd.bytes) = 2, ~AtEnd(rd)
  PROVE  IsRaw(Advance(rd).bytes[1])
<1> DEFINE k == IF rd.file - rd.at >= 2 THEN 2 ELSE 1
           f == rd.file
           at == rd.at
           new == [i \in 1..2 |-> IF i <= k THEN Rest(Content(f), at)[i] ELSE rd.bytes[i]]
<1>1. f \in Nat /\ at \in Nat /\ at <= f /\ f - at >= 1 BY DEF Reader, AtEnd
<1>2. Advance(rd).bytes = new BY DEF Advance, Filled, Reader
<1>3. k >= 1 OBVIOUS
<1> HIDE DEF f, at, k
<1>4. \A i \in 1..(f - at) : Rest(Content(f), at)[i] = Unit(f, at + i) BY <1>1, ContentItems
<1>5. new[1] = Unit(f, at + 1) BY <1>1, <1>3, <1>4
<1> HIDE DEF new
<1> QED BY <1>2, <1>5 DEF Unit, IsRaw

LEMMA CommandsAreObjects ==
  ASSUME NEW x \in Commands
  PROVE  /\ x \in Items /\ ~IsRaw(x) /\ x.word # "complete"
         /\ x.word = "upload" => x.file \in Files /\ x.number \in Files
<1>1. x \in Items BY CommandItems
<1> QED BY <1>1 DEF Commands, Note, About, IsRaw

(* An acknowledgement more, and one less. *)
LEMMA AcksMore ==
  ASSUME NEW n \in Nat, down \in Seq(Items), Acks(n), down' = down \o <<Note("received")>>
  PROVE  Acks(n + 1)'
<1>1. Note("received") \in Items BY Words21 DEF Words
<1> DEFINE r == <<Note("received")>>
<1>2. r \in Seq(Items) /\ Len(r) = 1 /\ r[1] = Note("received") BY <1>1
<1>3. Len(down) = n /\ \A i \in 1..n : down[i] = Note("received") BY DEF Acks
<1>4. down' = down \o r OBVIOUS
<1> HIDE DEF r
<1>5. /\ Len(down') = n + 1
      /\ \A i \in 1..(n + 1) : down'[i] = IF i <= n THEN down[i] ELSE r[i - n]
  BY <1>2, <1>3, <1>4, ConcatProperties
<1>6. \A i \in 1..(n + 1) : down'[i] = Note("received") BY <1>2, <1>3, <1>5
<1> QED BY <1>5, <1>6 DEF Acks

LEMMA AcksLess ==
  ASSUME NEW n \in Nat, down \in Seq(Items), down # <<>>, Acks(n), down' = Tail(down)
  PROVE  n >= 1 /\ Head(down) = Note("received") /\ Acks(n - 1)'
<1>1. Len(down) = n /\ \A i \in 1..n : down[i] = Note("received") BY DEF Acks
<1>2. /\ n > 0 /\ Head(down) = down[1] /\ Len(Tail(down)) = n - 1
      /\ \A i \in 1..(n - 1) : Tail(down)[i] = down[i + 1]
  BY <1>1, HeadTail
<1>3. \A i \in 1..(n - 1) : Tail(down)[i] = Note("received") BY <1>1, <1>2
<1> QED BY <1>1, <1>2, <1>3 DEF Acks

LEMMA NoAcks ==
  ASSUME down \in Seq(Items)
  PROVE  Acks(0) <=> down = <<>>
  BY NothingThere DEF Acks

(* What has gone wrong stays so. *)
LEMMA Worse ==
  ASSUME mishaps \subseteq mishaps'
  PROVE  (Whole' => Whole) /\ (Sized' => Sized)
  BY DEF Whole, Sized

LEMMA TypesKnown ==
  ASSUME TypeInv
  PROVE  /\ up \in Seq(Items) /\ down \in Seq(Items) /\ client \in ClientPCs
         /\ disk \in Seq(Items) /\ saved \in Seq(Items)
         /\ sending \in Reader /\ serving \in Reader /\ upload \in Writer /\ download \in Writer
         /\ Len(sending.bytes) = 2 /\ Len(serving.bytes) = 2
         /\ Len(upload.bytes) = 2 /\ Len(download.bytes) = 2
         /\ serving.file \in Nat
         /\ upload.file \in Nat /\ upload.size \in Nat /\ upload.count \in Nat
         /\ download.file \in Nat /\ download.size \in Nat /\ download.count \in Nat
         /\ Chunks(serving.file) \in Nat /\ Chunks(upload.file) \in Nat
         /\ Chunks(upload.size) \in Nat
         /\ Chunks(download.file) \in Nat /\ Chunks(download.size) \in Nat
<1>1. /\ up \in Seq(Items) /\ down \in Seq(Items) /\ client \in ClientPCs
      /\ disk \in Seq(Items) /\ saved \in Seq(Items)
      /\ sending \in Reader /\ serving \in Reader /\ upload \in Writer /\ download \in Writer
      /\ Len(sending.bytes) = 2 /\ Len(serving.bytes) = 2
      /\ Len(upload.bytes) = 2 /\ Len(download.bytes) = 2
  BY DEF TypeInv, TypeOK
<1>2. /\ serving.file \in Nat
      /\ upload.file \in Nat /\ upload.size \in Nat /\ upload.count \in Nat
      /\ download.file \in Nat /\ download.size \in Nat /\ download.count \in Nat
  BY <1>1 DEF Reader, Writer
<1>3. \A n \in Nat : Chunks(n) \in Nat BY ChunksHalf
<1> QED BY <1>1, <1>2, <1>3

(* A client that will end on raw bytes still will when more is sent. *)
LEMMA StaysDoomed ==
  ASSUME Doomed, down \in Seq(Items), mishaps \subseteq mishaps', UNCHANGED client,
         provider # "blocks", NEW r \in Seq(Items), down' = down \o r
  PROVE  Doomed' /\ down # <<>>
<1>1. down # <<>> /\ IsRaw(Head(down)) BY DEF Doomed
<1>2. down' # <<>> /\ Head(down') = Head(down) BY <1>1, HeadStays
<1>3. ~(Whole /\ Sized)' BY Worse DEF Doomed
<1>4. IsRaw(Head(down')) BY <1>1, <1>2
<1> QED BY <1>1, <1>2, <1>3, <1>4 DEF Doomed

(* Every chunk the provider has sent is raw. *)
LEMMA RestIsRaw ==
  ASSUME TypeInv, NEW v \in Nat, NEW b \in Nat, BlocksSent(0, v, b), down # <<>>
  PROVE  IsRaw(Head(down)) /\ v < 2 * b /\ down[1] = Padded(serving.file, v + 1)
<1> DEFINE f == serving.file
<1>1. f \in Nat /\ down \in Seq(Items) BY TypesKnown
<1>2. ReaderAt(serving, f, b) BY DEF BlocksSent
<1> HIDE DEF f
<1>3. b <= Chunks(f) /\ Chunks(f) \in Nat BY <1>1, <1>2, ReaderEnds, ChunksHalf
<1>4. Len(down) = 0 + (2 * b - v) /\ Holds(down, 0, f, v, b) /\ v <= 2 * b
  BY DEF BlocksSent, f
<1>5. Len(down) >= 1 /\ Head(down) = down[1] BY <1>1, NothingThere
<1>6. 1 \in 1..(2 * b - v) /\ v < 2 * b BY <1>4, <1>5
<1>7. down[0 + 1] = Padded(f, v + 1) BY <1>4, <1>6 DEF Holds
<1>8. v + 1 \in 1..(2 * Chunks(f)) BY <1>3, <1>6
<1> QED BY <1>1, <1>5, <1>6, <1>7, <1>8, RawUnits DEF f

(* When the client reads objects before them, they stay. *)
LEMMA BlocksNearer ==
  ASSUME TypeInv, NEW o \in Nat, NEW b \in Nat, BlocksSent(o + 1, 0, b),
         down' = Tail(down), UNCHANGED <<provider, serving>>
  PROVE  BlocksSent(o, 0, b)' /\ Head(down) = down[1] /\ \A i \in 1..o : down'[i] = down[i + 1]
<1> DEFINE f == serving.file
<1>1. f \in Nat /\ down \in Seq(Items) BY TypesKnown
<1>2. /\ ReaderAt(serving, f, b) /\ 0 <= 2 * b
      /\ Len(down) = (o + 1) + (2 * b - 0) /\ Holds(down, o + 1, f, 0, b)
  BY DEF BlocksSent
<1>3. down # <<>> BY <1>1, <1>2, NothingThere
<1>4. /\ Head(down) = down[1] /\ Len(down') = Len(down) - 1 /\ Len(down) \in Nat
      /\ \A i \in 1..(Len(down) - 1) : down'[i] = down[i + 1]
  BY <1>1, <1>3, HeadTail
<1>5. f = (serving.file)' BY DEF f
<1>6. ReaderAt(serving, f, b)' BY <1>2, <1>5 DEF ReaderAt
<1> HIDE DEF f
<1>7. Len(down') = o + (2 * b - 0) BY <1>2, <1>4
<1>8. ASSUME NEW i \in 1..(2 * b - 0) PROVE down'[o + i] = Padded(f, 0 + i)
  <2>1. o + i \in 1..(Len(down) - 1) /\ (o + i) + 1 = (o + 1) + i BY <1>2, <1>8
  <2>2. down'[o + i] = down[(o + 1) + i] BY <1>4, <2>1
  <2> QED BY <1>2, <2>2 DEF Holds
<1>9. \A i \in 1..o : down'[i] = down[i + 1]
  <2>1. \A i \in 1..o : i \in 1..(Len(down) - 1) BY <1>2, <1>4
  <2> QED BY <1>4, <2>1
<1>10. Holds(down', o, f, 0, b) BY <1>8 DEF Holds
<1>11. provider' = IF b < Chunks(f) THEN "blocks" ELSE "command" BY DEF BlocksSent, f
<1> QED BY <1>2, <1>4, <1>5, <1>6, <1>7, <1>9, <1>10, <1>11 DEF BlocksSent

(* When the provider sends one more, too. *)
LEMMA BlocksMore ==
  ASSUME TypeInv, NEW o \in Nat, NEW v \in Nat, NEW b \in Nat, BlocksSent(o, v, b), SendBlock
  PROVE  /\ BlocksSent(o, v, b + 1)' /\ serving'.file = serving.file
         /\ \A i \in 1..o : down'[i] = down[i]
<1> DEFINE f == serving.file
           r == serving'.bytes
<1>1. f \in Nat /\ down \in Seq(Items) /\ serving \in Reader /\ Len(serving.bytes) = 2
  BY TypesKnown
<1>2. /\ ReaderAt(serving, f, b) /\ v <= 2 * b
      /\ Len(down) = o + (2 * b - v) /\ Holds(down, o, f, v, b)
  BY DEF BlocksSent
<1>3. ~AtEnd(serving) /\ serving' = Advance(serving) /\ down' = down \o r
      /\ provider' = IF AtEnd(serving') THEN "command" ELSE "blocks"
  BY DEF SendBlock, TypeInv, Send
<1> HIDE DEF f
<1>4. b < Chunks(f) /\ Chunks(f) \in Nat
  BY <1>1, <1>2, <1>3, ReaderEnds, ChunksHalf
<1>5. /\ ReaderAt(serving', f, b + 1)
      /\ r = <<Padded(f, 2 * b + 1), Padded(f, 2 * b + 2)>>
  BY <1>1, <1>2, <1>3, <1>4, ReaderAdvances
<1>6. r \in Seq(Items)
  BY <1>1, <1>3, AdvanceTyped
<1> HIDE DEF r
<1>7. /\ Len(down') = o + (2 * (b + 1) - v) /\ Holds(down', o, f, v, b + 1)
      /\ \A i \in 1..o : down'[i] = down[i]
  <2> DEFINE q == down
  <2>1. q \in Seq(Items) /\ Len(q) = o + (2 * b - v) /\ Holds(q, o, f, v, b)
    BY <1>1, <1>2
  <2>2. down' = q \o r BY <1>3
  <2>3. v <= 2 * b /\ f \in Nat BY <1>1, <1>2
  <2> HIDE DEF q
  <2>4. r = <<Padded(f, 2 * b + 1), Padded(f, 2 * b + 2)>> BY <1>5
  <2>5. Len(q \o r) = o + (2 * (b + 1) - v)
    <3>1. Len(r) = 2 BY <2>4
    <3>2. Len(q \o r) = Len(q) + 2 BY <1>6, <2>1, <3>1, TwoItems
    <3> QED BY <2>1, <2>3, <3>2
  <2>6. Holds(q \o r, o, f, v, b + 1) BY <1>6, <2>1, <2>3, <2>4, HoldsMore
  <2>7. \A i \in 1..o : (q \o r)[i] = q[i] BY <1>6, <2>1, <2>3, <2>4, HoldsMore
  <2> QED BY <2>2, <2>5, <2>6, <2>7 DEF q
<1>8. serving'.file = f BY <1>5 DEF ReaderAt
<1>9. AtEnd(serving') <=> b + 1 = Chunks(f) BY <1>1, <1>5, ReaderEnds
<1>10. provider' = IF b + 1 < Chunks(f) THEN "blocks" ELSE "command" BY <1>3, <1>4, <1>9
<1>11. v <= 2 * (b + 1) BY <1>2
<1> QED BY <1>5, <1>7, <1>8, <1>10, <1>11 DEF BlocksSent, f

-----------------------------------------------------------------------------
(* The client's steps keep the two in step. *)

LEMMA StoredStays ==
  ASSUME Stored, UNCHANGED <<fate, disk, upload>>
  PROVE  Stored'
  BY DEF Stored, Wrote

LEMMA FetchedStays ==
  ASSUME Fetched, UNCHANGED <<download, saved>>, mishaps \subseteq mishaps',
         client' \notin {"intro", "blocks", "gone"} => client \notin {"intro", "blocks", "gone"}
  PROVE  Fetched'
<1>1. Whole' /\ Sized' => Whole /\ Sized BY Worse
<1>2. Calm' => Calm BY DEF Calm
<1> QED BY <1>1, <1>2 DEF Fetched, Wrote, AllCounted

LEMMA UploadingStays ==
  ASSUME Uploading, UNCHANGED <<fate, upload, provider, mishaps>>, (Starting \/ Transmitting \/ Over)'
  PROVE  Uploading'
  BY DEF Uploading, Sized

LEMMA TypeKeeps ==
  ASSUME TypeInv, Consistent, NEW c \in Commands, Type(c)
  PROVE  Consistent'
<1>1. /\ client = "prompt" /\ client' = "reply" /\ up' = Append(up, c)
      /\ UNCHANGED <<provider, upload, disk, fate, serving, down, download, saved, mishaps>>
  BY DEF Type, provVars
<1>2. up = <<>> => up' = <<c>> BY <1>1
<1>3. up = <<>> => Asked' /\ up' # <<>> BY <1>2 DEF Asked
<1>4. ASSUME Uploading PROVE Uploading'
  <2>1. Over /\ up = <<>> BY <1>1, <1>4 DEF Uploading, Starting, Transmitting, UnderWay, Over
  <2>2. Acks(0)' BY <1>1, <2>1 DEF Over, Acks
  <2>3. Over' BY <1>1, <1>3, <2>1, <2>2 DEF Over, Sized
  <2> QED BY <1>1, <1>4, <2>3, UploadingStays
<1>5. ASSUME Between PROVE Between'
  <2>1. up = <<>> /\ (Doomed \/ (provider = "command" /\ down = <<>>)) BY <1>1, <1>5 DEF Between
  <2>2. Doomed => Doomed' BY <1>1 DEF Doomed, Whole, Sized
  <2> QED BY <1>1, <1>3, <2>1, <2>2 DEF Between
<1>6. Closed => Closed' BY <1>1 DEF Closed
<1>7. Dead => Dead' BY <1>1 DEF Dead, Whole, Sized, Calm
<1>8. InStep' BY <1>1, <1>4, <1>5, <1>6, <1>7 DEF Consistent, InStep
<1>9. Stored' BY <1>1, StoredStays DEF Consistent
<1>10. Fetched' BY <1>1, FetchedStays DEF Consistent
<1> QED BY <1>8, <1>9, <1>10 DEF Consistent

LEMMA ReadReplyKeeps ==
  ASSUME TypeInv, Consistent, ReadReply
  PROVE  Consistent'
<1>1. /\ client = "reply" /\ down # <<>> /\ down' = Tail(down)
      /\ UNCHANGED <<provider, upload, disk, fate, serving, up, saved, mishaps>>
  BY DEF ReadReply, provVars
<1>2. /\ down \in Seq(Items) /\ upload.file \in Nat /\ serving.file \in Nat
      /\ disk \in Seq(Items) /\ Chunks(serving.file) \in Nat
  BY TypesKnown
<1>3. ASSUME IsRaw(Head(down)) PROVE client' = "gone"
  BY <1>3 DEF ReadReply, IsRaw
<1>4. /\ \A w \in Words : Note(w) \in Items
      /\ \A f, n \in Nat : About("parameter", f, n) \in Items
  BY Words21 DEF Words
<1>5. ASSUME Uploading PROVE Uploading'
  <2>1. CASE Starting
    <3>1. CASE Doomed
      <4>1. client' = "gone" BY <1>1, <1>3, <3>1 DEF Doomed
      <4>2. Starting' BY <1>1, <2>1, <4>1 DEF Starting
      <4> QED BY <1>1, <1>5, <4>2, UploadingStays
    <3>2. CASE ~Doomed
      <4> DEFINE f == upload.file
      <4>1. down = <<About("parameter", f, upload.size)>> /\ f \in Nat /\ upload.size \in Nat
        BY <1>1, <2>1, <3>2, TypesKnown DEF Starting
      <4>2. Head(down) = About("parameter", f, upload.size) /\ down' = <<>>
        BY <1>1, <1>4, <4>1, Lone
      <4>3. client' = "chunk" /\ sending' = NewReader(f)
        BY <4>2 DEF ReadReply, About, IsRaw
      <4>4. ReaderAt(sending', f, 0) BY <4>1, <4>3, NewReaderAt
      <4>5. Acks(0)' BY <4>2 DEF Acks
      <4>6. (upload.file)' = f /\ (upload.count)' = 0 /\ disk' = <<>> /\ up' = <<>>
        BY <1>1, <2>1 DEF Starting
      <4> HIDE DEF f
      <4>7. Wrote(disk', f, 0) BY <4>6 DEF Wrote
      <4>8. Holds(up', 0, f, 0, 0) /\ Len(up') = 0 BY <4>6 DEF Holds
      <4>9. UnderWay(0, 0, 0)'
        BY <4>3, <4>4, <4>5, <4>6, <4>7, <4>8 DEF UnderWay
      <4>10. Transmitting' BY <4>9 DEF Transmitting
      <4> QED BY <1>1, <1>5, <4>10, UploadingStays
    <3> QED BY <3>1, <3>2
  <2>2. CASE Over
    <3>1. up = <<>> /\ Acks(1) BY <1>1, <1>2, <2>2, NoAcks DEF Over
    <3>2. Head(down) = Note("received") /\ Acks(0)'
      <4>1. Head(down) = Note("received") /\ Acks(1 - 1)' BY <1>1, <1>2, <3>1, AcksLess
      <4>2. 1 - 1 = 0 OBVIOUS
      <4> QED BY <4>1, <4>2
    <3>3. client' = "prompt" BY <3>2 DEF ReadReply, Note, IsRaw
    <3>4. Over' BY <1>1, <2>2, <3>1, <3>2, <3>3 DEF Over, Sized
    <3> QED BY <1>1, <1>5, <3>4, UploadingStays
  <2>3. ~Transmitting BY <1>1 DEF Transmitting, UnderWay
  <2> QED BY <1>5, <2>1, <2>2, <2>3 DEF Uploading
<1>6. ASSUME Between PROVE Between'
  <2>1. CASE Doomed
    <3>1. client' = "gone" BY <1>1, <1>3, <2>1 DEF Doomed
    <3> QED BY <1>1, <1>6, <3>1 DEF Between, Asked
  <2>2. CASE Replied
    <3>1. ASSUME NEW w \in {"done", "missing", "cancelled"}, down = <<Note(w)>>
          PROVE  client' = "prompt" /\ down' = <<>>
      <4>1. w \in Words BY DEF Words
      <4>2. Head(down) = Note(w) /\ down' = <<>> BY <1>1, <1>4, <3>1, <4>1, Lone
      <4> QED BY <4>2 DEF ReadReply, Note, IsRaw
    <3>2. ASSUME down = <<Note("viewing"), Note("messages")>>
          PROVE  client' = "viewing" /\ down' = <<Note("messages")>>
      <4>1. Note("viewing") \in Items /\ Note("messages") \in Items BY <1>4 DEF Words
      <4>2. Head(down) = Note("viewing") /\ down' = <<Note("messages")>>
        BY <1>1, <3>2, <4>1, Lone
      <4>3. client' = "viewing" BY <4>2 DEF ReadReply, Note, IsRaw
      <4> QED BY <4>2, <4>3
    <3>3. \/ client' = "prompt" /\ down' = <<>>
          \/ client' = "viewing" /\ down' = <<Note("messages")>>
      BY <1>1, <2>2, <3>1, <3>2 DEF Replied
    <3>4. provider' = "command" /\ up' = <<>> BY <1>1, <2>2 DEF Replied
    <3> QED BY <3>3, <3>4 DEF Between
  <2>3. CASE up = <<>> /\ Announced
    <3> DEFINE f == serving.file
    <3>1. PICK b \in Nat : BlocksSent(2, 0, b) BY <2>3 DEF Announced, Blocks
    <3>2. PICK n \in Nat : down[1] = About("download", f, n) /\ SizeOf(n, f) BY <2>3 DEF Announced
    <3>3. BlocksSent(1, 0, b)' /\ Head(down) = down[1] /\ down'[1] = down[2]
      <4>1. 1 + 1 = 2 /\ 1 \in 1..1 OBVIOUS
      <4> QED BY <1>1, <3>1, <4>1, BlocksNearer
    <3>4. down'[1] = Note("starting") BY <2>3, <3>3 DEF Announced
    <3>5. client' = "intro" /\ download' = NewWriter(f, n)
      BY <3>2, <3>3 DEF ReadReply, About, IsRaw
    <3>6. download' = NewWriter(f, (download.size)') /\ (download.file)' = f /\ (download.size)' = n
      BY <3>5 DEF NewWriter
    <3>7. (serving.file)' = f BY <1>1
    <3> HIDE DEF f
    <3>8. Sized' => Chunks(n) = Chunks(f) BY <1>1, <3>2 DEF SizeOf, Sized
    <3>9. SizeOf(download.size, download.file)' BY <3>6, <3>8 DEF SizeOf
    <3>10. Blocks(1, 0)' BY <3>3 DEF Blocks
    <3> QED BY <1>1, <2>3, <3>4, <3>5, <3>6, <3>7, <3>9, <3>10 DEF Between
  <2> QED BY <1>1, <1>6, <2>1, <2>2, <2>3 DEF Between
<1>7. ASSUME Closed PROVE Closed'
  <2>1. Doomed => client' = "gone" BY <1>1, <1>3 DEF Doomed
  <2>2. ASSUME down = <<Note("loggedOut")>> PROVE client' = "gone"
    <3>1. Note("loggedOut") \in Items BY <1>4 DEF Words
    <3>2. Head(down) = Note("loggedOut") BY <2>2, <3>1, Lone
    <3> QED BY <3>2 DEF ReadReply, Note, IsRaw
  <2> QED BY <1>1, <1>7, <2>1, <2>2 DEF Closed
<1>8. ASSUME Dead PROVE Dead'
  <2>1. ASSUME Len(down) = 1, down[1].word = "parameter" PROVE client' = "chunk" /\ down' = <<>>
    <3>1. Head(down) = down[1] /\ Len(down') = 0 /\ down' \in Seq(Items)
      BY <1>1, <1>2, <2>1, HeadTail
    <3>2. down' = <<>> BY <3>1, NothingThere
    <3> QED BY <2>1, <3>1, <3>2 DEF ReadReply, IsRaw
  <2> QED BY <1>1, <1>8, <2>1 DEF Dead, Whole, Sized, Calm
<1>9. InStep' BY <1>1, <1>5, <1>6, <1>7, <1>8 DEF Consistent, InStep
<1>10. Stored' BY <1>1, StoredStays DEF Consistent
<1>11. Fetched'
  <2>1. CASE client' = "intro" BY <2>1 DEF Fetched
  <2>2. CASE client' # "intro"
    <3>1. download' = download BY <2>2 DEF ReadReply, IsRaw
    <3> QED BY <1>1, <3>1, FetchedStays DEF Consistent
  <2> QED BY <2>1, <2>2
<1> QED BY <1>9, <1>10, <1>11 DEF Consistent

LEMMA ReadMessagesKeeps ==
  ASSUME TypeInv, Consistent, ReadMessages
  PROVE  Consistent'
<1>1. /\ client = "viewing" /\ down # <<>> /\ down' = Tail(down)
      /\ client' = IF IsRaw(Head(down)) THEN "gone" ELSE "prompt"
      /\ UNCHANGED <<provider, upload, disk, fate, serving, up, download, saved, mishaps>>
  BY DEF ReadMessages, provVars
<1>2. ~Uploading BY <1>1 DEF Uploading, Starting, Transmitting, UnderWay, Over
<1>3. ASSUME Between PROVE Between'
  <2>1. provider = "command" /\ down = <<Note("messages")>> /\ up = <<>>
    BY <1>1, <1>3 DEF Between
  <2>2. Note("messages") \in Items BY Words21 DEF Words
  <2>3. Head(down) = Note("messages") /\ down' = <<>> BY <1>1, <2>1, <2>2, Lone
  <2>4. client' = "prompt" BY <1>1, <2>3 DEF Note, IsRaw
  <2> QED BY <1>1, <2>1, <2>3, <2>4 DEF Between
<1>4. ~Closed BY <1>1 DEF Closed
<1>5. Dead => Dead' BY <1>1 DEF Dead, Whole, Sized, Calm
<1>6. InStep' BY <1>1, <1>2, <1>3, <1>4, <1>5 DEF Consistent, InStep
<1>7. Stored' BY <1>1, StoredStays DEF Consistent
<1>8. Fetched' BY <1>1, FetchedStays DEF Consistent
<1> QED BY <1>6, <1>7, <1>8 DEF Consistent

LEMMA ReadFinalKeeps ==
  ASSUME TypeInv, Consistent, ReadFinal
  PROVE  Consistent'
<1>1. /\ client = "final" /\ down # <<>> /\ down' = Tail(down)
      /\ client' = IF IsRaw(Head(down)) THEN "gone" ELSE "prompt"
      /\ UNCHANGED <<provider, upload, disk, fate, serving, up, download, saved, mishaps>>
  BY DEF ReadFinal, provVars
<1>2. down \in Seq(Items) BY TypesKnown
<1>3. ASSUME Uploading PROVE Uploading'
  <2>1. ~Starting BY <1>1 DEF Starting
  <2>2. ~Transmitting BY <1>1, <1>2, NoAcks DEF Transmitting, UnderWay
  <2>3. Over /\ up = <<>> /\ Acks(1) BY <1>1, <1>3, <2>1, <2>2 DEF Uploading, Over
  <2>4. Head(down) = Note("received") /\ Acks(1 - 1)' BY <1>1, <1>2, <2>3, AcksLess
  <2>5. 1 - 1 = 0 OBVIOUS
  <2>6. client' = "prompt" /\ Acks(0)' BY <1>1, <2>4, <2>5 DEF Note, IsRaw
  <2>7. Over' BY <1>1, <2>3, <2>6 DEF Over, Sized
  <2> QED BY <1>1, <1>3, <2>7, UploadingStays
<1>4. ASSUME Between PROVE Between'
  <2>1. provider = "command" /\ down = <<Note("completed")>> /\ up = <<>>
    BY <1>1, <1>4 DEF Between
  <2>2. Note("completed") \in Items BY Words21 DEF Words
  <2>3. Head(down) = Note("completed") /\ down' = <<>> BY <1>1, <2>1, <2>2, Lone
  <2>4. client' = "prompt" BY <1>1, <2>3 DEF Note, IsRaw
  <2> QED BY <1>1, <2>1, <2>3, <2>4 DEF Between
<1>5. ~Closed BY <1>1 DEF Closed
<1>6. ASSUME Dead PROVE Dead'
  <2>1. Len(down) = 1 => Len(down') = 0 /\ down' \in Seq(Items) BY <1>1, <1>2, HeadTail
  <2>2. Len(down) = 1 => down' = <<>> BY <2>1, NothingThere
  <2> QED BY <1>1, <1>6, <2>2 DEF Dead, Whole, Sized, Calm
<1>7. InStep' BY <1>1, <1>3, <1>4, <1>5, <1>6 DEF Consistent, InStep
<1>8. Stored' BY <1>1, StoredStays DEF Consistent
<1>9. Fetched' BY <1>1, FetchedStays DEF Consistent
<1> QED BY <1>7, <1>8, <1>9 DEF Consistent

LEMMA ReadAckKeeps ==
  ASSUME TypeInv, Consistent, ReadAck
  PROVE  Consistent'
<1>1. /\ client = "ack" /\ down # <<>> /\ down' = Tail(down)
      /\ UNCHANGED <<provider, upload, disk, fate, serving, sending, download, saved, mishaps>>
  BY DEF ReadAck, provVars
<1>2. down \in Seq(Items) /\ upload.count \in Nat BY TypesKnown
<1>3. ASSUME Uploading PROVE Uploading'
  <2>1. ~Starting /\ ~Over BY <1>1 DEF Starting, Over
  <2>2. PICK a \in Nat, u \in Nat, e \in 0..1 : UnderWay(a, u, e)
    BY <1>3, <2>1 DEF Uploading, Transmitting
  <2>0. PICK c \in Nat : c = upload.count BY <1>2
  <2>3. c \in Nat /\ c = (upload.count)' /\ a > 0 /\ a <= c + 1 /\ Acks(c + 1 - a) /\ e = 0
    BY <1>1, <2>0, <2>2 DEF UnderWay
  <2> DEFINE n == c + 1 - a
  <2>4. n \in Nat /\ Acks(n) BY <2>3
  <2> HIDE DEF n
  <2>5. n >= 1 /\ Head(down) = Note("received") /\ Acks(n - 1)' BY <1>1, <1>2, <2>4, AcksLess
  <2>6. client' = "chunk" /\ up' = up BY <2>5 DEF ReadAck, Note, IsRaw, Successful
  <2>7. n - 1 = c - a /\ a <= c BY <2>3, <2>5 DEF n
  <2>8. Acks(c - a)' BY <2>5, <2>7
  <2>9. /\ ReaderAt(sending, upload.file, a)'
        /\ (IF u = 2 * upload.count THEN Wrote(disk, upload.file, upload.count) ELSE ~Whole)'
        /\ u <= 2 * a /\ (u <= 2 * upload.count)'
        /\ (Len(up) = 2 * a - u + e)' /\ Holds(up, 0, upload.file, u, a)'
    BY <1>1, <2>2, <2>6 DEF UnderWay, Whole
  <2>10. (a <= upload.count)' /\ Acks(upload.count - a)' BY <2>3, <2>7, <2>8
  <2>11. UnderWay(a, u, 0)' BY <2>3, <2>6, <2>9, <2>10 DEF UnderWay
  <2>12. Transmitting' BY <2>11 DEF Transmitting
  <2> QED BY <1>1, <1>3, <2>12, UploadingStays
<1>4. ~Between BY <1>1 DEF Between
<1>5. ~Closed BY <1>1 DEF Closed
<1>6. Dead => Dead' BY <1>1 DEF Dead, Whole, Sized, Calm
<1>7. InStep' BY <1>1, <1>3, <1>4, <1>5, <1>6 DEF Consistent, InStep
<1>8. Stored' BY <1>1, StoredStays DEF Consistent
<1>9. Fetched' BY <1>1, FetchedStays DEF Consistent
<1> QED BY <1>7, <1>8, <1>9 DEF Consistent

LEMMA SendChunkKeeps ==
  ASSUME TypeInv, Consistent, Whole \/ Sized, SendChunk
  PROVE  Consistent'
<1>1. /\ client = "chunk"
      /\ UNCHANGED <<provider, upload, disk, fate, serving, down, download, saved, mishaps>>
      /\ client' \in {"final", "ack"}
      /\ AtEnd(sending) =>
           client' = "final" /\ up' = Append(up, Note("complete")) /\ sending' = sending
      /\ ~AtEnd(sending) =>
           client' = "ack" /\ sending' = Advance(sending) /\ up' = up \o sending'.bytes
  BY DEF SendChunk, provVars
<1>2. /\ up \in Seq(Items) /\ down \in Seq(Items) /\ upload.count \in Nat /\ upload.file \in Nat
      /\ sending \in Reader /\ Len(sending.bytes) = 2
      /\ Chunks(upload.file) \in Nat /\ Chunks(upload.size) \in Nat
  BY TypesKnown
<1>3. ASSUME Uploading PROVE Uploading'
  <2>1. ~Starting /\ ~Over BY <1>1 DEF Starting, Over
  <2>2. PICK a \in Nat, u \in Nat, e \in 0..1 : UnderWay(a, u, e)
    BY <1>3, <2>1 DEF Uploading, Transmitting
  <2>0. PICK c \in Nat, f \in Nat : c = upload.count /\ f = upload.file BY <1>2
  <2>3. /\ c \in Nat /\ f \in Nat /\ c = (upload.count)' /\ f = (upload.file)'
        /\ e = 0 /\ a <= c /\ Acks(c - a)' /\ u <= 2 * a /\ u <= 2 * c
        /\ ReaderAt(sending, f, a)
        /\ Len(up) = 2 * a - u + e /\ Holds(up, 0, f, u, a)
    BY <1>1, <2>0, <2>2 DEF UnderWay, Acks
  <2>4. (IF u = 2 * upload.count THEN Wrote(disk, upload.file, upload.count) ELSE ~Whole)'
    BY <1>1, <2>2 DEF UnderWay, Whole
  <2>5. u # 2 * c => ~Whole BY <2>0, <2>2 DEF UnderWay
  <2>6. c <= Chunks(upload.size) /\ (Sized => Chunks(upload.size) = Chunks(f))
    BY <1>3, <2>0 DEF Uploading
  <2>7. Chunks(f) \in Nat BY ChunksHalf
  <2>8. CASE AtEnd(sending)
    <3>1. a = Chunks(f) BY <2>3, <2>8, ReaderEnds
    <3>2. c = a
      <4>1. CASE Sized BY <1>2, <2>3, <2>6, <3>1, <4>1
      <4>2. CASE Whole BY <2>3, <2>5, <4>2
      <4> QED BY <4>1, <4>2
    <3>3. Acks(0)'
      <4>1. c - a = 0 BY <2>3, <3>2
      <4> QED BY <2>3, <4>1
    <3> DEFINE q == up
               x == Note("complete")
    <3>4. x \in Items BY Words21 DEF Words
    <3>5. q \in Seq(Items) /\ Len(q) = 2 * a - u /\ Len(q) \in Nat BY <1>2, <2>3
    <3>6. up' = Append(q, x) BY <1>1, <2>8
    <3> HIDE DEF q, x
    <3>7. Len(up') = Len(q) + 1 /\ up'[Len(up')] = x /\ \A i \in 1..Len(q) : up'[i] = q[i]
      BY <3>4, <3>5, <3>6
    <3>8. Holds(up', 0, f, u, a)
      <4>1. \A i \in 1..(2 * a - u) : q[0 + i] = Padded(f, u + i) BY <2>3 DEF Holds, q
      <4>2. \A i \in 1..(2 * a - u) : 0 + i \in 1..Len(q) BY <2>3, <3>5
      <4>3. \A i \in 1..(2 * a - u) : up'[0 + i] = Padded(f, u + i) BY <3>7, <4>1, <4>2
      <4> QED BY <4>3 DEF Holds
    <3>9. ReaderAt(sending', f, a) /\ client' = "final" BY <1>1, <2>3, <2>8
    <3>10. Len(up') = 2 * a - u + 1 BY <3>5, <3>7
    <3>11. UnderWay(a, u, 1)'
      BY <2>3, <2>4, <3>1, <3>2, <3>3, <3>7, <3>8, <3>9, <3>10 DEF UnderWay, x
    <3>12. Transmitting' BY <3>11 DEF Transmitting
    <3> QED BY <1>1, <1>3, <3>12, UploadingStays
  <2>9. CASE ~AtEnd(sending)
    <3> DEFINE q == up
               r == sending'.bytes
    <3>1. a < Chunks(f) BY <2>3, <2>7, <2>9, ReaderEnds
    <3>2. /\ client' = "ack" /\ up' = q \o r /\ sending' = Advance(sending) BY <1>1, <2>9
    <3>3. ReaderAt(sending', f, a + 1) /\ r = <<Padded(f, 2 * a + 1), Padded(f, 2 * a + 2)>>
      BY <1>2, <2>3, <3>1, <3>2, ReaderAdvances
    <3>4. r \in Seq(Items) BY <1>2, <2>9, <3>2, AdvanceTyped
    <3>5. q \in Seq(Items) /\ Len(q) = 0 + (2 * a - u) /\ Holds(q, 0, f, u, a) BY <1>2, <2>3
    <3>6. u <= 2 * a BY <2>3
    <3> HIDE DEF q, r
    <3>7. r = <<Padded(f, 2 * a + 1), Padded(f, 2 * a + 2)>> BY <3>3
    <3>8. Holds(q \o r, 0, f, u, a + 1) BY <2>3, <3>4, <3>5, <3>6, <3>7, HoldsMore
    <3>9. Len(q \o r) = 2 * (a + 1) - u + 0
      <4>1. Len(r) = 2 BY <3>7
      <4>2. Len(q \o r) = Len(q) + 2 BY <3>4, <3>5, <4>1, TwoItems
      <4> QED BY <3>5, <3>6, <4>2
    <3>10. Acks(c + 1 - (a + 1))'
      <4>1. c + 1 - (a + 1) = c - a BY <2>3
      <4> QED BY <2>3, <4>1
    <3>11. /\ a + 1 \in Nat /\ a + 1 > 0 /\ a + 1 <= c + 1 /\ u <= 2 * (a + 1) /\ u <= 2 * c
      BY <2>3
    <3>12. UnderWay(a + 1, u, 0)'
      BY <2>3, <2>4, <3>2, <3>3, <3>8, <3>9, <3>10, <3>11 DEF UnderWay
    <3>13. Transmitting' BY <3>11, <3>12 DEF Transmitting
    <3> QED BY <1>1, <1>3, <3>13, UploadingStays
  <2> QED BY <2>8, <2>9
<1>4. ~Between BY <1>1 DEF Between
<1>5. ~Closed BY <1>1 DEF Closed
<1>6. Dead => Dead' BY <1>1 DEF Dead, Whole, Sized, Calm
<1>7. InStep' BY <1>1, <1>3, <1>4, <1>5, <1>6 DEF Consistent, InStep
<1>8. Stored' BY <1>1, StoredStays DEF Consistent
<1>9. Fetched' BY <1>1, FetchedStays DEF Consistent
<1> QED BY <1>7, <1>8, <1>9 DEF Consistent

(* All reads of a download are counted: what is left is raw, or on its way *)
(* and raw, or nothing.                                                    *)
RestExplained ==
  \A v, b \in Nat :
    /\ TypeInv /\ BlocksSent(0, v, b) /\ client = "prompt"
    /\ Whole /\ Sized => v = 2 * Chunks(serving.file)
    => Doomed \/ (provider = "command" /\ down = <<>>)

LEMMA LeftOver == RestExplained
<1> SUFFICES ASSUME TypeInv, NEW v \in Nat, NEW b \in Nat, BlocksSent(0, v, b),
                    client = "prompt", Whole /\ Sized => v = 2 * Chunks(serving.file)
             PROVE  Doomed \/ (provider = "command" /\ down = <<>>)
  BY DEF RestExplained
<1>1. down \in Seq(Items) /\ Chunks(serving.file) \in Nat /\ serving.file \in Nat
  BY TypesKnown
<1>2. /\ ReaderAt(serving, serving.file, b) /\ v <= 2 * b
      /\ provider = IF b < Chunks(serving.file) THEN "blocks" ELSE "command"
      /\ Len(down) = 0 + (2 * b - v)
  BY DEF BlocksSent
<1>3. b <= Chunks(serving.file) BY <1>1, <1>2 DEF ReaderAt
<1>4. CASE Whole /\ Sized
  <2>1. b = Chunks(serving.file) /\ Len(down) = 0 BY <1>1, <1>2, <1>3, <1>4
  <2> QED BY <1>1, <1>2, <2>1, NothingThere
<1>5. CASE ~(Whole /\ Sized) /\ down = <<>>
  BY <1>2, <1>5 DEF Doomed
<1>6. CASE ~(Whole /\ Sized) /\ down # <<>>
  <2>1. IsRaw(Head(down)) BY <1>6, RestIsRaw
  <2> QED BY <1>6, <2>1 DEF Doomed
<1> QED BY <1>4, <1>5, <1>6

LEMMA ReadIntroKeeps ==
  ASSUME TypeInv, TypeInv', Consistent, ReadIntro
  PROVE  Consistent'
<1>1. /\ client = "intro" /\ down # <<>> /\ down' = Tail(down)
      /\ UNCHANGED <<provider, upload, disk, fate, serving, up, download, mishaps>>
  BY DEF ReadIntro, provVars
<1>2. /\ serving.file \in Nat /\ download.file \in Nat /\ download.size \in Nat
      /\ Chunks(serving.file) \in Nat /\ Chunks(download.size) \in Nat
  BY TypesKnown
<1>3. ~Uploading BY <1>1 DEF Uploading, Starting, Transmitting, UnderWay, Over
<1>4. ASSUME Between
      PROVE  Between' /\ Fetched'
  <2>1. /\ Blocks(1, 0) /\ down[1] = Note("starting") /\ up = <<>>
        /\ download = NewWriter(serving.file, download.size)
        /\ SizeOf(download.size, download.file)
    BY <1>1, <1>4 DEF Between
  <2>2. PICK b \in Nat : BlocksSent(1, 0, b) BY <2>1 DEF Blocks
  <2>3. BlocksSent(0, 0, b)' /\ Head(down) = Note("starting")
    <3>1. 0 + 1 = 1 OBVIOUS
    <3> QED BY <1>1, <2>1, <2>2, <3>1, BlocksNearer
  <2>4. download.count = 0 /\ download.file = serving.file BY <2>1 DEF NewWriter
  <2>5. /\ client' = IF AllCounted(download) THEN "prompt" ELSE "blocks"
        /\ saved' = <<>>
    BY <2>3 DEF ReadIntro, Note, IsRaw
  <2>6. AllCounted(download) <=> Chunks(download.size) = 0 BY <1>2, <2>4 DEF AllCounted
  <2>7. \A f \in Nat : Wrote(<<>>, f, 0) BY DEF Wrote
  <2>8. Sized' => Chunks(download.size) = Chunks(serving.file)
    BY <1>1, <2>1, <2>4 DEF SizeOf, Sized
  <2>9. CASE AllCounted(download)
    <3>1. client' = "prompt" BY <2>5, <2>9
    <3>2. (Whole' /\ Sized') => 0 = 2 * Chunks(serving.file)
      BY <1>2, <2>6, <2>8, <2>9
    <3>3. (Doomed \/ (provider = "command" /\ down = <<>>))'
      <4>1. (Whole /\ Sized => 0 = 2 * Chunks(serving.file))' BY <1>1, <3>2
      <4>2. RestExplained' BY LeftOver, PTL
      <4> QED BY <2>3, <3>1, <4>1, <4>2 DEF RestExplained
    <3>4. Between' BY <1>1, <2>1, <3>1, <3>3 DEF Between
    <3>5. Whole' /\ Sized' => Chunks(download.file) = 0
      BY <1>2, <2>4, <2>6, <2>8, <2>9
    <3>6. Wrote(saved', download.file, 0) BY <1>2, <2>5, <2>7
    <3>7. Whole' /\ Sized' => Wrote(saved', download'.file, Chunks(download'.file))
      BY <1>1, <3>5, <3>6
    <3>8. Fetched' BY <3>7 DEF Fetched
    <3> QED BY <3>4, <3>8
  <2>10. CASE ~AllCounted(download)
    <3>1. client' = "blocks" BY <2>5, <2>10
    <3>2. Blocks(0, 0)' BY <2>3 DEF Blocks
    <3>3. SizeOf(download.size, download.file)' BY <1>1, <2>1 DEF SizeOf, Sized
    <3>4. (download.file = serving.file)' /\ (download.count)' = 0 BY <1>1, <2>4
    <3>5. (download.count < Chunks(download.size))' BY <1>1, <1>2, <2>4, <2>6, <2>10
    <3>6. Wrote(saved', download'.file, 0) BY <1>1, <1>2, <2>5, <2>7
    <3>7. Fetching(0)' BY <3>2, <3>3, <3>4, <3>5, <3>6 DEF Fetching
    <3>8. Between' BY <1>1, <2>1, <3>1, <3>7 DEF Between
    <3>9. Fetched' BY <3>1 DEF Fetched
    <3> QED BY <3>8, <3>9
  <2> QED BY <2>9, <2>10
<1>5. ~Closed BY <1>1 DEF Closed
<1>6. Dead => Dead' BY <1>1 DEF Dead, Whole, Sized, Calm
<1>7. provider \in ProviderPCs BY DEF TypeInv, TypeOK
<1>8. InStep' BY <1>1, <1>3, <1>4, <1>5, <1>6 DEF Consistent, InStep
<1>9. Stored' BY <1>1, StoredStays DEF Consistent
<1>10. Fetched'
  <2>1. CASE provider = "dead"
    <3>1. ~Whole \/ ~Sized \/ ~Calm BY <1>1, <2>1 DEF Consistent, InStep, Dead
    <3> QED BY <1>1, <3>1 DEF Fetched, Whole, Sized, Calm
  <2>2. CASE provider # "dead"
    BY <1>3, <1>4, <1>5, <1>7, <2>2 DEF Consistent, InStep, ProviderPCs
  <2> QED BY <2>1, <2>2
<1> QED BY <1>8, <1>9, <1>10 DEF Consistent

(* A read of one unit where a chunk begins tears it. *)
LEMMA Torn ==
  ASSUME NEW f \in Nat, NEW c \in Nat, 2 * c + 1 <= 2 * Chunks(f),
         NEW q \in Seq(Items), q # <<>>, q[1] = Padded(f, 2 * c + 1)
  PROVE  Tears(q, 1)
<1>1. Head(q) = Padded(f, 2 * c + 1) BY NothingThere
<1>2. Chunks(f) \in Nat BY ChunksHalf
<1>3. 2 * c + 1 \in 1..(2 * Chunks(f)) /\ (2 * c + 1) % 2 = 1 BY <1>2
<1>4. IsRaw(Padded(f, 2 * c + 1)) /\ Padded(f, 2 * c + 1).number % 2 = 1
  BY <1>3, RawUnits
<1> QED BY <1>1, <1>4 DEF Tears

(* What a read of k units does to the stream, the buffer and the file that *)
(* is written, unless it tears a chunk.                                    *)
LEMMA ReadMore ==
  ASSUME NEW f \in Nat, NEW a \in Nat, a <= Chunks(f), NEW u \in Nat, NEW c \in Nat,
         u <= 2 * c, NEW k \in 1..2, u + k <= 2 * a,
         NEW q \in Seq(Items), 2 * a - u <= Len(q), Holds(q, 0, f, u, a),
         NEW old \in Seq(Items), Len(old) = 2,
         NEW file \in Seq(Items), u = 2 * c => Wrote(file, f, c)
  PROVE  /\ Holds(Rest(q, k), 0, f, u + k, a)
         /\ Len(Rest(q, k)) = Len(q) - k /\ u + k <= 2 * (c + 1)
         /\ u + k = 2 * (c + 1) => Wrote(file \o Filled(old, k, q), f, c + 1)
         /\ u + k # 2 * (c + 1) => u # 2 * c \/ Tears(q, k)
<1>1. Len(q) \in Nat /\ k <= Len(q) OBVIOUS
<1>2. Holds(Rest(q, k), 0, f, u + k, a) BY <1>1, HoldsLess
<1>3. Len(Rest(q, k)) = Len(q) - k BY <1>1, RestItems
<1>4. ASSUME u + k = 2 * (c + 1) PROVE Wrote(file \o Filled(old, k, q), f, c + 1)
  <2>1. k = 2 /\ u = 2 * c BY <1>4
  <2>2. 1 \in 1..(2 * a - u) /\ 2 \in 1..(2 * a - u) BY <2>1
  <2>3. q[0 + 1] = Padded(f, u + 1) /\ q[0 + 2] = Padded(f, u + 2) BY <2>2 DEF Holds
  <2>4. q[1] = Padded(f, 2 * c + 1) /\ q[2] = Padded(f, 2 * c + 2) BY <2>1, <2>3
  <2>5. \A i \in 1..k : q[i] \in Items BY <1>1
  <2>6. Filled(old, k, q) = <<q[1], q[2]>> /\ Filled(old, k, q) \in Seq(Items)
    BY <2>1, <2>5, FilledItems
  <2>7. Wrote(file, f, c) BY <2>1
  <2> DEFINE r == Filled(old, k, q)
  <2>8. r = <<Padded(f, 2 * c + 1), Padded(f, 2 * c + 2)>> /\ r \in Seq(Items) BY <2>4, <2>6
  <2> HIDE DEF r
  <2>9. Wrote(file \o r, f, c + 1) BY <2>7, <2>8, WroteMore
  <2> QED BY <2>9 DEF r
<1>5. ASSUME u + k # 2 * (c + 1), u = 2 * c PROVE Tears(q, k)
  <2>1. k = 1 /\ 1 \in 1..(2 * a - u) BY <1>5
  <2>2. q[0 + 1] = Padded(f, u + 1) BY <2>1 DEF Holds
  <2>3. q[1] = Padded(f, 2 * c + 1) /\ q # <<>> BY <1>1, <1>5, <2>2
  <2>4. 2 * c + 1 <= 2 * Chunks(f)
    <3>1. Chunks(f) \in Nat BY ChunksHalf
    <3> QED BY <1>5, <2>1, <3>1
  <2> QED BY <2>1, <2>3, <2>4, Torn
<1>6. u + k <= 2 * (c + 1) OBVIOUS
<1> QED BY <1>2, <1>3, <1>4, <1>5, <1>6

LEMMA ReadBlockKeeps ==
  ASSUME TypeInv, TypeInv', Consistent, NEW k \in 1..2, ReadBlock(k)
  PROVE  Consistent'
<1> DEFINE bytes == Filled(download.bytes, k, down)
<1>1. /\ client = "blocks" /\ k <= Len(down) /\ down' = Rest(down, k)
      /\ saved' = saved \o bytes /\ download' = Counted(download, bytes)
      /\ client' = IF AllCounted(download') THEN "prompt" ELSE "blocks"
      /\ UNCHANGED <<provider, upload, disk, fate, serving, up>>
  BY DEF ReadBlock, provVars
<1>2. mishaps' = mishaps \cup (IF Tears(down, k) THEN {"torn"} ELSE {}) BY DEF ReadBlock
<1>3. /\ serving.file \in Nat /\ download.file \in Nat /\ download.size \in Nat
      /\ download.count \in Nat /\ download \in Writer /\ Len(download.bytes) = 2
      /\ down \in Seq(Items) /\ saved \in Seq(Items)
      /\ Chunks(serving.file) \in Nat /\ Chunks(download.size) \in Nat
  BY TypesKnown
<1>4. (Whole' => Whole) /\ (Sized' <=> Sized) /\ (Calm' => Calm)
  BY <1>2 DEF Whole, Sized, Calm
<1>5. ~Uploading BY <1>1 DEF Uploading, Starting, Transmitting, UnderWay, Over
<1>6. bytes \in Seq(Items) /\ Len(bytes) = 2 BY <1>1, <1>3, ReadTyped
<1>7. /\ (download.file)' = download.file /\ (download.size)' = download.size
      /\ (download.count)' = download.count + 1
  <2> HIDE DEF bytes
  <2> QED BY <1>1, <1>3, <1>6, CountedTyped
<1>8. ASSUME Between
      PROVE  Between' /\ Fetched'
  <2>1. PICK v \in Nat : Fetching(v) BY <1>1, <1>8 DEF Between
  <2>2. PICK b \in Nat : BlocksSent(0, v, b) BY <2>1 DEF Fetching, Blocks
  <2>3. PICK f \in Nat, c \in Nat, d \in Nat :
           f = serving.file /\ c = download.count /\ d = Chunks(download.size)
    BY <1>3
  <2>4. /\ download.file = f /\ c < d /\ v <= 2 * c
        /\ v = 2 * c => Wrote(saved, f, c)
        /\ v # 2 * c => ~Whole
        /\ Sized => d = Chunks(f)
    BY <2>1, <2>3 DEF Fetching, SizeOf
  <2>5. /\ ReaderAt(serving, f, b) /\ v <= 2 * b /\ Holds(down, 0, f, v, b)
        /\ provider = IF b < Chunks(f) THEN "blocks" ELSE "command"
        /\ Len(down) = 0 + (2 * b - v)
    BY <2>2, <2>3 DEF BlocksSent
  <2>6. b <= Chunks(f) /\ Chunks(f) \in Nat BY <2>5, ChunksHalf DEF ReaderAt
  <2>7. v + k <= 2 * b /\ 2 * b - v <= Len(down) BY <1>1, <2>5
  <2> DEFINE old == download.bytes
  <2>8. old \in Seq(Items) /\ Len(old) = 2 BY <1>3 DEF Writer
  <2>9. /\ Holds(down', 0, f, v + k, b) /\ Len(down') = Len(down) - k /\ v + k <= 2 * (c + 1)
        /\ v + k = 2 * (c + 1) => Wrote(saved', f, c + 1)
        /\ v + k # 2 * (c + 1) => v # 2 * c \/ Tears(down, k)
    <3> HIDE DEF old
    <3>0. /\ b <= Chunks(f) /\ v <= 2 * c /\ v + k <= 2 * b /\ 2 * b - v <= Len(down)
          /\ down \in Seq(Items) /\ saved \in Seq(Items) /\ Holds(down, 0, f, v, b)
          /\ v = 2 * c => Wrote(saved, f, c)
      BY <1>3, <2>4, <2>5, <2>6, <2>7
    <3>1. Holds(Rest(down, k), 0, f, v + k, b) BY <2>8, <3>0, ReadMore
    <3>2. Len(Rest(down, k)) = Len(down) - k BY <2>8, <3>0, ReadMore
    <3>3. v + k <= 2 * (c + 1) BY <3>0
    <3>4. v + k = 2 * (c + 1) => Wrote(saved \o Filled(old, k, down), f, c + 1)
      BY <2>8, <3>0, ReadMore
    <3>5. v + k # 2 * (c + 1) => v # 2 * c \/ Tears(down, k) BY <2>8, <3>0, ReadMore
    <3> QED BY <1>1, <3>1, <3>2, <3>3, <3>4, <3>5 DEF old
  <2>10. v + k # 2 * (c + 1) => ~Whole' BY <1>2, <1>4, <2>4, <2>9 DEF Whole
  <2>11. ReaderAt(serving', f, b) /\ f = serving'.file BY <1>1, <2>3, <2>5
  <2>12. v + k \in Nat /\ Len(down') = 0 + (2 * b - (v + k)) BY <2>5, <2>7, <2>9
  <2>13. BlocksSent(0, v + k, b)' BY <1>1, <2>5, <2>7, <2>9, <2>11, <2>12 DEF BlocksSent
  <2>14. AllCounted(download') <=> c + 1 >= d BY <1>7, <2>3 DEF AllCounted
  <2>15. up' = <<>> BY <1>1, <1>8 DEF Between
  <2>16. CASE AllCounted(download')
    <3>1. client' = "prompt" /\ c + 1 = d BY <1>1, <2>3, <2>4, <2>14, <2>16
    <3>2. Whole' /\ Sized' => d = Chunks(f) /\ v + k = 2 * Chunks(f)
      BY <1>4, <2>4, <2>10, <3>1
    <3>3. (Doomed \/ (provider = "command" /\ down = <<>>))'
      <4>1. (Whole /\ Sized => v + k = 2 * Chunks(serving.file))' BY <2>11, <3>2
      <4>2. RestExplained' BY LeftOver, PTL
      <4> QED BY <2>12, <2>13, <3>1, <4>1, <4>2 DEF RestExplained
    <3>4. Between' BY <2>15, <3>1, <3>3 DEF Between
    <3>5. Whole' /\ Sized' => Wrote(saved', f, Chunks(f)) BY <2>9, <2>10, <3>1, <3>2
    <3>6. Fetched' BY <1>7, <2>4, <3>5 DEF Fetched
    <3> QED BY <3>4, <3>6
  <2>17. CASE ~AllCounted(download')
    <3>1. client' = "blocks" /\ c + 1 < d BY <1>1, <2>3, <2>14, <2>17
    <3>2. Blocks(0, v + k)' BY <2>13 DEF Blocks
    <3>3. SizeOf(download.size, download.file)' BY <1>4, <1>7, <2>3, <2>4 DEF SizeOf
    <3>4. (download.file = serving.file)' BY <1>7, <2>4, <2>11
    <3>5. (download.count < Chunks(download.size))' /\ (v + k <= 2 * download.count)'
      BY <1>7, <2>3, <2>9, <3>1
    <3>6. (IF v + k = 2 * download.count THEN Wrote(saved, download.file, download.count)
                                         ELSE ~Whole)'
      BY <1>7, <2>3, <2>4, <2>9, <2>10
    <3>7. Fetching(v + k)' BY <3>2, <3>3, <3>4, <3>5, <3>6 DEF Fetching
    <3>8. Between' BY <2>12, <2>15, <3>1, <3>7 DEF Between
    <3>9. Fetched' BY <3>1 DEF Fetched
    <3> QED BY <3>8, <3>9
  <2> QED BY <2>16, <2>17
<1>9. ~Closed BY <1>1 DEF Closed
<1>10. Dead => Dead' BY <1>1, <1>4 DEF Dead
<1>11. provider \in ProviderPCs BY DEF TypeInv, TypeOK
<1>12. InStep' BY <1>1, <1>5, <1>8, <1>9, <1>10 DEF Consistent, InStep
<1>13. Stored' BY <1>1, StoredStays DEF Consistent
<1>14. Fetched'
  <2>1. CASE provider = "dead"
    <3>1. ~Whole \/ ~Sized \/ ~Calm BY <1>1, <2>1 DEF Consistent, InStep, Dead
    <3> QED BY <1>4, <3>1 DEF Fetched
  <2>2. CASE provider # "dead"
    BY <1>5, <1>8, <1>9, <1>11, <2>2 DEF Consistent, InStep, ProviderPCs
  <2> QED BY <2>1, <2>2
<1> QED BY <1>12, <1>13, <1>14 DEF Consistent

LEMMA LeavingKeeps ==
  ASSUME TypeInv, Consistent, Vanish \/ ClientEOF
  PROVE  Consistent'
<1>1. /\ client' = "gone"
      /\ UNCHANGED <<provider, upload, disk, fate, serving, up, down, sending, mishaps>>
  BY DEF Vanish, ClientEOF, provVars
<1>2. ASSUME Uploading PROVE Uploading'
  <2>1. Starting => Starting' BY <1>1 DEF Starting
  <2>2. ASSUME Transmitting PROVE Transmitting'
    <3>1. PICK a \in Nat, u \in Nat, e \in 0..1 : UnderWay(a, u, e) BY <2>2 DEF Transmitting
    <3>2. UnderWay(a, u, e)' BY <1>1, <3>1 DEF UnderWay, Whole
    <3> QED BY <3>2 DEF Transmitting
  <2>3. Over => Over' BY <1>1 DEF Over, Sized, Asked
  <2>4. (Starting \/ Transmitting \/ Over)' BY <1>2, <2>1, <2>2, <2>3 DEF Uploading
  <2> QED BY <1>1, <1>2, <2>4, UploadingStays
<1>3. Between => Between' BY <1>1 DEF Between, Asked
<1>4. Closed' BY <1>1 DEF Closed
<1>5. Dead' BY <1>1 DEF Dead
<1>6. InStep' BY <1>1, <1>2, <1>3, <1>4, <1>5 DEF Consistent, InStep
<1>7. Stored' BY <1>1, StoredStays DEF Consistent
<1>8. Fetched' BY <1>1 DEF Fetched
<1> QED BY <1>6, <1>7, <1>8 DEF Consistent

-----------------------------------------------------------------------------
(* The provider's steps keep the two in step.                              *)

(* A command is the only thing there is to read, and the client waits for  *)
(* the reply with nothing under way to it, or with raw bytes.              *)
LEMMA AtCommand ==
  ASSUME TypeInv, Consistent, NEW w \in Words, ReadCommand(w)
  PROVE  /\ Between /\ Head(up) \in Commands /\ up' = <<>>
         /\ client \in {"reply", "gone"}
         /\ client = "reply" => Doomed \/ down = <<>>
<1>1. provider = "command" /\ up # <<>> /\ up' = Tail(up) BY DEF ReadCommand
<1>2. Between BY <1>1 DEF Consistent, InStep
<1>3. Asked /\ client \in {"reply", "gone"} BY <1>1, <1>2 DEF Between
<1>4. Head(up) \in Commands /\ up' = <<>>
  <2>1. PICK x \in Commands : up = <<x>> BY <1>3 DEF Asked
  <2>2. x \in Items BY CommandItems
  <2> QED BY <1>1, <2>1, <2>2, Lone
<1>5. client = "reply" => Doomed \/ down = <<>> BY <1>1, <1>2 DEF Between, Replied
<1> QED BY <1>2, <1>3, <1>4, <1>5

(* The reply is sent, and the provider is at its next command. *)
LEMMA ReplyKeeps ==
  ASSUME TypeInv, Consistent, NEW w \in Words, ReadCommand(w), NEW r \in Seq(Items),
         down' = down \o r, mishaps \subseteq mishaps',
         UNCHANGED <<clientVars, upload, disk, fate>>,
         provider' \in {"command", "blocks"},
         down' = r => Replied' \/ Announced'
  PROVE  Consistent'
<1>1. /\ up' = <<>> /\ client \in {"reply", "gone"}
      /\ client = "reply" => Doomed \/ down = <<>>
  BY AtCommand
<1>2. /\ provider = "command" /\ client' = client /\ UNCHANGED <<download, saved>>
  BY DEF ReadCommand, clientVars
<1>3. down \in Seq(Items) BY TypesKnown
<1>4. client = "reply" => Doomed' \/ Replied' \/ Announced'
  <2>1. CASE Doomed BY <1>2, <1>3, <2>1, StaysDoomed
  <2>2. CASE down = <<>>
    <3>1. down' = r BY <2>2, NothingThere
    <3> QED BY <3>1
  <2> QED BY <1>1, <2>1, <2>2
<1>5. Between' BY <1>1, <1>2, <1>4 DEF Between
<1>6. InStep' BY <1>5 DEF InStep
<1>7. Stored' BY StoredStays DEF Consistent
<1>8. Fetched' BY <1>2, FetchedStays DEF Consistent
<1> QED BY <1>6, <1>7, <1>8 DEF Consistent

LEMMA RepliesKeep ==
  ASSUME TypeInv, Consistent, Other \/ ViewMessage \/ NoSuchFile \/ Unknown
  PROVE  Consistent'
<1>1. /\ UNCHANGED <<clientVars, provider, upload, disk, fate>>
      /\ mishaps \subseteq mishaps'
  BY DEF Other, ViewMessage, NoSuchFile, Unknown, provVars
<1>2. \A w \in Words : Note(w) \in Items /\ <<Note(w)>> \in Seq(Items) BY Words21
<1>3. /\ "other" \in Words /\ "view" \in Words /\ "download" \in Words /\ "unknown" \in Words
      /\ "complete" \in Words /\ "unsuccessful" \in Words
      /\ "done" \in Words /\ "missing" \in Words /\ "viewing" \in Words /\ "messages" \in Words
  BY DEF Words
<1>4. PICK w \in Words : ReadCommand(w)
  BY <1>3 DEF Other, ViewMessage, NoSuchFile, Unknown
<1>5. up' = <<>> /\ provider' = "command" BY <1>1, <1>4, AtCommand DEF ReadCommand
<1>6. down \in Seq(Items) BY TypesKnown
<1>7. CASE Other
  <2>1. down' = down \o <<Note("done")>> BY <1>7 DEF Other, Send
  <2>2. down' = <<Note("done")>> => Replied' BY <1>5 DEF Replied
  <2>3. <<Note("done")>> \in Seq(Items) BY <1>2, <1>3
  <2> QED BY <1>1, <1>4, <1>5, <2>1, <2>2, <2>3, ReplyKeeps
<1>8. CASE NoSuchFile
  <2>1. down' = down \o <<Note("missing")>> BY <1>8 DEF NoSuchFile, Send
  <2>2. down' = <<Note("missing")>> => Replied' BY <1>5 DEF Replied
  <2>3. <<Note("missing")>> \in Seq(Items) BY <1>2, <1>3
  <2> QED BY <1>1, <1>4, <1>5, <2>1, <2>2, <2>3, ReplyKeeps
<1>9. CASE ViewMessage
  <2> DEFINE r == <<Note("viewing"), Note("messages")>>
  <2>1. down' = down \o r BY <1>9 DEF ViewMessage, Send
  <2>2. down' = r => Replied' BY <1>5 DEF Replied
  <2>3. r \in Seq(Items) BY <1>2, <1>3
  <2> HIDE DEF r
  <2> QED BY <1>1, <1>4, <1>5, <2>1, <2>2, <2>3, ReplyKeeps
<1>10. CASE Unknown
  <2> DEFINE r == <<>>
  <2>1. down' = down /\ mishaps' = mishaps \cup {"ignored"} BY <1>10 DEF Unknown
  <2>2. down' = r => Replied' BY <1>5, <2>1 DEF Replied
  <2>3. r \in Seq(Items) /\ down' = down \o r BY <1>6, <2>1, ConcatEmptySeq
  <2> HIDE DEF r
  <2> QED BY <1>1, <1>4, <1>5, <2>2, <2>3, ReplyKeeps
<1> QED BY <1>7, <1>8, <1>9, <1>10

LEMMA LogoutKeeps ==
  ASSUME TypeInv, Consistent, Logout
  PROVE  Consistent'
<1>1. /\ UNCHANGED <<clientVars, upload, disk, fate, mishaps>>
      /\ down' = down \o <<Note("loggedOut")>> /\ provider' = "closed" /\ ReadCommand("logout")
  BY DEF Logout, Send
<1>2. /\ client \in {"reply", "gone"} /\ (client = "reply" => Doomed \/ down = <<>>)
      /\ provider # "blocks"
  <2>1. "logout" \in Words BY DEF Words
  <2> QED BY <1>1, <2>1, AtCommand DEF ReadCommand
<1>3. <<Note("loggedOut")>> \in Seq(Items) /\ down \in Seq(Items)
  BY Words21, TypesKnown DEF Words
<1>4. UNCHANGED <<client, download, saved>> BY <1>1 DEF clientVars
<1>5. Doomed => Doomed' BY <1>1, <1>2, <1>3, <1>4, StaysDoomed
<1>6. down = <<>> => down' = <<Note("loggedOut")>> BY <1>1, <1>3, NothingThere
<1>7. Closed' BY <1>2, <1>4, <1>5, <1>6 DEF Closed
<1>8. InStep' BY <1>1, <1>7 DEF InStep
<1>9. Stored' BY <1>1, StoredStays DEF Consistent
<1>10. Fetched' BY <1>1, <1>4, FetchedStays DEF Consistent
<1> QED BY <1>8, <1>9, <1>10 DEF Consistent

LEMMA MalformedKeeps ==
  ASSUME TypeInv, Consistent, Malformed
  PROVE  Consistent'
<1>1. /\ UNCHANGED <<clientVars, upload, disk, fate>>
      /\ mishaps' = mishaps \cup {"malformed"} /\ provider' = "dead" /\ ReadCommand("malformed")
  BY DEF Malformed
<1>2. \/ down' = down
      \/ \E f \in Files, n \in Files : down' = down \o <<About("parameter", f, n)>>
  BY DEF Malformed, Send
<1>3. client \in {"reply", "gone"} /\ (client = "reply" => Doomed \/ down = <<>>)
  <2>1. "malformed" \in Words BY DEF Words
  <2> QED BY <1>1, <2>1, AtCommand
<1>4. UNCHANGED <<client, download, saved>> BY <1>1 DEF clientVars
<1>5. Doomed => (~Whole \/ ~Sized)' BY <1>1 DEF Doomed, Whole, Sized
<1>6. ASSUME down = <<>>
      PROVE  (down = <<>> \/ (Len(down) = 1 /\ down[1].word = "parameter"))'
  <2>1. CASE down' = down BY <1>6, <2>1
  <2>2. ASSUME NEW f \in Files, NEW n \in Files, down' = down \o <<About("parameter", f, n)>>
        PROVE  (Len(down) = 1 /\ down[1].word = "parameter")'
    <3> DEFINE x == About("parameter", f, n)
    <3>1. x \in Items /\ x.word = "parameter" BY FilesAreNat, Words21 DEF Words, About
    <3> HIDE DEF x
    <3>2. <<x>> \in Seq(Items) BY <3>1
    <3>3. down' = <<x>> BY <1>6, <2>2, <3>2, NothingThere DEF x
    <3> QED BY <3>1, <3>3
  <2> QED BY <1>2, <2>1, <2>2
<1>7. Dead' BY <1>1, <1>3, <1>4, <1>5, <1>6 DEF Dead
<1>8. InStep' BY <1>1, <1>7 DEF InStep
<1>9. Stored' BY <1>1, StoredStays DEF Consistent
<1>10. Fetched' BY <1>1, <1>4, FetchedStays DEF Consistent
<1> QED BY <1>8, <1>9, <1>10 DEF Consistent

(* Another session's doing ends the provider. *)
LEMMA DisturbedKeeps ==
  ASSUME Consistent, Disturbed, UNCHANGED <<clientVars, upload, disk, fate>>
  PROVE  Consistent'
<1>1. provider' = "dead" /\ ~Calm' BY DEF Disturbed, Calm
<1>2. InStep' BY <1>1 DEF InStep, Dead
<1>3. Stored' BY StoredStays DEF Consistent
<1>4. Fetched' BY <1>1 DEF Fetched
<1> QED BY <1>2, <1>3, <1>4 DEF Consistent

LEMMA ConnectionLostKeeps ==
  ASSUME Consistent, ConnectionLost
  PROVE  Consistent'
<1>1. /\ client = "gone" /\ provider' = "dead"
      /\ UNCHANGED <<client, download, saved, upload, disk, fate, mishaps>>
  BY DEF ConnectionLost, clientVars
<1>2. InStep' BY <1>1 DEF InStep, Dead
<1>3. Stored' BY <1>1, StoredStays DEF Consistent
<1>4. Fetched' BY <1>1, FetchedStays DEF Consistent
<1> QED BY <1>2, <1>3, <1>4 DEF Consistent

LEMMA StartDownloadKeeps ==
  ASSUME TypeInv, Consistent, NEW f \in Files, NEW n \in Files, StartDownload(f, n)
  PROVE  Consistent'
<1> DEFINE r == <<About("download", f, n), Note("starting")>>
<1>1. /\ ReadCommand("download") /\ down' = down \o r
      /\ UNCHANGED <<clientVars, upload, disk, fate>> /\ serving' = NewReader(f)
      /\ provider' = IF f = 0 THEN "command" ELSE "blocks"
      /\ mishaps' = mishaps \cup (IF Chunks(n) # Chunks(f) THEN {"missized"} ELSE {})
  BY DEF StartDownload, Send
<1>2. f \in Nat /\ n \in Nat /\ "download" \in Words BY FilesAreNat DEF Words
<1>3. r \in Seq(Items) BY <1>2, Words21 DEF Words
<1>4. ASSUME down' = r PROVE Announced'
  <2>1. ReaderAt(serving', f, 0) BY <1>1, <1>2, NewReaderAt
  <2>2. serving'.file = f BY <2>1 DEF ReaderAt
  <2>3. f = 0 <=> ~(0 < Chunks(f)) BY <1>2, ChunksHalf
  <2>4. Len(down') = 2 + (2 * 0 - 0) /\ down'[1] = About("download", f, n)
        /\ down'[2] = Note("starting")
    BY <1>4
  <2>5. Holds(down', 2, f, 0, 0) BY DEF Holds
  <2>6. provider' = IF 0 < Chunks(f) THEN "blocks" ELSE "command" BY <1>1, <2>3
  <2>7. BlocksSent(2, 0, 0)' BY <2>1, <2>2, <2>4, <2>5, <2>6 DEF BlocksSent
  <2>8. SizeOf(n, serving.file)' BY <1>1, <2>2 DEF SizeOf, Sized
  <2>9. Blocks(2, 0)' BY <2>7 DEF Blocks
  <2> QED BY <1>2, <2>2, <2>4, <2>8, <2>9 DEF Announced
<1> HIDE DEF r
<1>5. provider' \in {"command", "blocks"} /\ mishaps \subseteq mishaps' BY <1>1
<1> QED BY <1>1, <1>2, <1>3, <1>4, <1>5, ReplyKeeps

LEMMA StartUploadKeeps ==
  ASSUME TypeInv, Consistent, StartUpload
  PROVE  Consistent'
<1>1. ReadCommand("upload") /\ "upload" \in Words BY DEF StartUpload, Words
<1>2. /\ Head(up) \in Commands /\ up' = <<>> /\ client \in {"reply", "gone"}
      /\ client = "reply" => Doomed \/ down = <<>>
      /\ provider # "blocks"
  BY <1>1, AtCommand DEF ReadCommand
<1>3. PICK f \in Nat, n \in Nat : f = Head(up).file /\ n = Head(up).number
  BY <1>2, CommandItems DEF Items
<1>4. /\ down' = down \o <<About("parameter", f, n)>>
      /\ upload' = NewWriter(f, n) /\ disk' = <<>> /\ fate' = "writing"
      /\ provider' = IF AllCounted(upload') THEN "final" ELSE "chunks"
      /\ mishaps' = mishaps \cup (IF Chunks(n) # Chunks(f) THEN {"missized"} ELSE {})
      /\ UNCHANGED <<client, download, saved>>
  BY <1>3 DEF StartUpload, Send, clientVars
<1>5. (upload.file)' = f /\ (upload.size)' = n /\ (upload.count)' = 0 BY <1>4 DEF NewWriter
<1>6. <<About("parameter", f, n)>> \in Seq(Items) /\ down \in Seq(Items)
  BY Words21, TypesKnown DEF Words
<1>7. Doomed => Doomed' BY <1>2, <1>4, <1>6, StaysDoomed
<1>8. down = <<>> => down' = <<About("parameter", f, n)>> BY <1>4, <1>6, NothingThere
<1>9. Starting' BY <1>2, <1>4, <1>5, <1>7, <1>8 DEF Starting
<1>10. Chunks(n) \in Nat BY ChunksHalf
<1>11. AllCounted(upload') <=> 0 >= Chunks(n) BY <1>5 DEF AllCounted
<1>12. (provider = "chunks" <=> upload.count < Chunks(upload.size))'
  BY <1>4, <1>5, <1>10, <1>11
<1>13. (Sized => Chunks(upload.size) = Chunks(upload.file))' BY <1>4, <1>5 DEF Sized
<1>14. (upload.count <= Chunks(upload.size))' BY <1>5, <1>10
<1>15. Uploading' BY <1>4, <1>9, <1>12, <1>13, <1>14 DEF Uploading
<1>16. InStep' BY <1>4, <1>15 DEF InStep
<1>17. Stored' BY <1>4 DEF Stored
<1>18. mishaps \subseteq mishaps' BY <1>4
<1>19. Fetched' BY <1>4, <1>18, FetchedStays DEF Consistent
<1> QED BY <1>16, <1>17, <1>19 DEF Consistent

LEMMA SendBlockKeeps ==
  ASSUME TypeInv, Consistent, SendBlock
  PROVE  Consistent'
<1> DEFINE r == serving'.bytes
<1>1. /\ provider = "blocks" /\ serving' = Advance(serving) /\ down' = down \o r
      /\ provider' \in {"command", "blocks"}
      /\ UNCHANGED <<client, download, saved, up, upload, disk, fate, mishaps>>
  BY DEF SendBlock, Send, clientVars
<1>2. Between BY <1>1 DEF Consistent, InStep
<1>3. serving \in Reader /\ Len(serving.bytes) = 2 /\ ~AtEnd(serving) /\ down \in Seq(Items)
  BY <1>1, TypesKnown DEF TypeInv
<1>4. r \in Seq(Items) /\ IsRaw(r[1]) /\ Len(r) = 2 BY <1>1, <1>3, AdvanceTyped, AdvanceRaw
<1> HIDE DEF r
<1>5. ASSUME Doomed PROVE Doomed'
  <2>1. down' # <<>> /\ IsRaw(Head(down'))
    <3>1. CASE down = <<>>
      <4>1. down' = r /\ r # <<>> /\ Head(r) = r[1] BY <1>1, <1>3, <1>4, <3>1, NothingThere
      <4> QED BY <1>4, <4>1
    <3>2. CASE down # <<>>
      <4>1. down' # <<>> /\ Head(down') = Head(down) BY <1>1, <1>3, <1>4, <3>2, HeadStays
      <4> QED BY <1>5, <3>2, <4>1 DEF Doomed
    <3> QED BY <3>1, <3>2
  <2> QED BY <1>1, <1>5, <2>1 DEF Doomed, Whole, Sized
<1>6. ASSUME NEW o \in Nat, NEW v \in Nat, Blocks(o, v)
      PROVE  Blocks(o, v)' /\ (serving.file)' = serving.file /\ \A i \in 1..o : down'[i] = down[i]
  <2>1. PICK b \in Nat : BlocksSent(o, v, b) BY <1>6 DEF Blocks
  <2>2. /\ BlocksSent(o, v, b + 1)' /\ serving'.file = serving.file
        /\ \A i \in 1..o : down'[i] = down[i]
    BY <2>1, BlocksMore
  <2>3. b + 1 \in Nat OBVIOUS
  <2>4. Blocks(o, v)' BY <2>2, <2>3 DEF Blocks
  <2> QED BY <2>2, <2>4
<1>7. Announced => Announced'
  <2> SUFFICES ASSUME Announced PROVE Announced' OBVIOUS
  <2>1. Blocks(2, 0)' /\ (serving.file)' = serving.file /\ \A i \in 1..2 : down'[i] = down[i]
    BY <1>6 DEF Announced
  <2>2. PICK n \in Nat : down[1] = About("download", serving.file, n) /\ SizeOf(n, serving.file)
    BY DEF Announced
  <2>3. SizeOf(n, serving.file)' BY <1>1, <2>1, <2>2 DEF SizeOf, Sized
  <2>4. down[2] = Note("starting") BY DEF Announced
  <2> QED BY <2>1, <2>2, <2>3, <2>4 DEF Announced
<1>8. ASSUME client = "intro"
      PROVE  (/\ Blocks(1, 0) /\ down[1] = Note("starting")
              /\ download = NewWriter(serving.file, download.size)
              /\ SizeOf(download.size, download.file))'
  <2>1. /\ Blocks(1, 0) /\ down[1] = Note("starting")
        /\ download = NewWriter(serving.file, download.size)
        /\ SizeOf(download.size, download.file)
    BY <1>2, <1>8 DEF Between
  <2>2. Blocks(1, 0)' /\ (serving.file)' = serving.file /\ \A i \in 1..1 : down'[i] = down[i]
    BY <1>6, <2>1
  <2>3. SizeOf(download.size, download.file)' BY <1>1, <2>1 DEF SizeOf, Sized
  <2>4. (down[1] = Note("starting"))'
    <3>1. 1 \in 1..1 OBVIOUS
    <3> QED BY <2>1, <2>2, <3>1
  <2>5. (download = NewWriter(serving.file, download.size))' BY <1>1, <2>1, <2>2
  <2> QED BY <2>2, <2>3, <2>4, <2>5
<1>9. ASSUME NEW v \in Nat, Fetching(v)
      PROVE  Fetching(v)'
  <2>1. Blocks(0, v)' /\ (serving.file)' = serving.file BY <1>6, <1>9 DEF Fetching
  <2> QED BY <1>1, <1>9, <2>1 DEF Fetching, SizeOf, Sized, Whole, Wrote
<1>10. client # "viewing" /\ client # "final" BY <1>1, <1>2 DEF Between
<1>11. client = "prompt" => Doomed' BY <1>1, <1>2, <1>5 DEF Between
<1>12. client = "reply" => Doomed' \/ (up' = <<>> /\ Announced')
  BY <1>1, <1>2, <1>5, <1>7 DEF Between, Replied
<1>13. client = "blocks" => \E v \in Nat : Fetching(v)' BY <1>2, <1>9 DEF Between
<1>14. up' = <<>> \/ (Asked' /\ client' \in {"reply", "gone"}) BY <1>1, <1>2 DEF Between, Asked
<1>15. client' \in {"prompt", "reply", "viewing", "intro", "blocks", "final", "gone"}
  BY <1>1, <1>2 DEF Between
<1>16. Between' BY <1>1, <1>8, <1>10, <1>11, <1>12, <1>13, <1>14, <1>15 DEF Between
<1>17. InStep' BY <1>1, <1>16 DEF InStep
<1>18. Stored' BY <1>1, StoredStays DEF Consistent
<1>19. Fetched' BY <1>1, FetchedStays DEF Consistent
<1> QED BY <1>17, <1>18, <1>19 DEF Consistent

(* What is next to be read of an upload under way. *)
LEMMA UnderWayNext ==
  ASSUME TypeInv, NEW a \in Nat, NEW u \in Nat, NEW e \in 0..1, UnderWay(a, u, e)
  PROVE  /\ a <= Chunks(upload.file)
         /\ u < 2 * a => up # <<>> /\ IsRaw(Head(up))
         /\ u = 2 * a /\ e = 1 => up = <<Note("complete")>>
         /\ u = 2 * a /\ e = 0 => up = <<>>
<1>1. PICK f \in Nat : f = upload.file BY TypesKnown
<1>2. /\ ReaderAt(sending, f, a) /\ u <= 2 * a
      /\ Len(up) = 2 * a - u + e /\ Holds(up, 0, f, u, a)
      /\ e = 1 => up[Len(up)] = Note("complete")
  BY <1>1 DEF UnderWay
<1>3. up \in Seq(Items) /\ Chunks(f) \in Nat BY TypesKnown, ChunksHalf
<1>4. a <= Chunks(f) BY <1>2 DEF ReaderAt
<1>5. ASSUME u < 2 * a PROVE up # <<>> /\ IsRaw(Head(up))
  <2>1. 1 \in 1..(2 * a - u) /\ Len(up) >= 1 /\ u + 1 \in 1..(2 * Chunks(f))
    BY <1>2, <1>3, <1>4, <1>5
  <2>2. up[0 + 1] = Padded(f, u + 1) BY <1>2, <2>1 DEF Holds
  <2>3. up # <<>> /\ Head(up) = up[1] BY <1>3, <2>1, NothingThere
  <2> QED BY <1>3, <2>1, <2>2, <2>3, RawUnits
<1>6. u = 2 * a /\ e = 1 => up = <<Note("complete")>>
  <2>1. u = 2 * a /\ e = 1 => Len(up) = 1 /\ up[Len(up)] = Note("complete") BY <1>2
  <2> QED BY <1>3, <2>1, NothingThere
<1>7. u = 2 * a /\ e = 0 => up = <<>> BY <1>2, <1>3, NothingThere
<1> QED BY <1>1, <1>4, <1>5, <1>6, <1>7

LEMMA ReadGarbageKeeps ==
  ASSUME TypeInv, Consistent, Whole \/ Sized, ReadGarbage
  PROVE  Consistent'
<1>1. /\ provider \in {"command", "final"} /\ up # <<>> /\ IsRaw(Head(up)) /\ provider' = "dead"
      /\ UNCHANGED <<client, download, saved, upload, disk, fate, mishaps>>
  BY DEF ReadGarbage, clientVars
<1>2. ASSUME Between PROVE FALSE
  <2>1. PICK x \in Commands : up = <<x>> BY <1>1, <1>2 DEF Between, Asked
  <2>2. x \in Items /\ ~IsRaw(x) BY CommandsAreObjects
  <2> QED BY <1>1, <2>1, <2>2, Lone
<1>3. ASSUME Uploading, provider = "final", Whole, Sized PROVE FALSE
  <2>1. ~Starting /\ ~Over BY <1>1, <1>3 DEF Starting, Over
  <2>2. PICK a \in Nat, u \in Nat, e \in 0..1 : UnderWay(a, u, e)
    BY <1>3, <2>1 DEF Uploading, Transmitting
  <2>3. /\ a <= Chunks(upload.file)
        /\ u = 2 * a /\ e = 1 => up = <<Note("complete")>>
        /\ u = 2 * a /\ e = 0 => up = <<>>
    BY <2>2, UnderWayNext
  <2>4. upload.count \in Nat /\ Chunks(upload.file) \in Nat /\ Chunks(upload.size) \in Nat
    BY TypesKnown
  <2>5. upload.count = Chunks(upload.file) BY <1>3, <2>4 DEF Uploading
  <2>6. u = 2 * a BY <1>3, <2>2, <2>3, <2>4, <2>5 DEF UnderWay
  <2>7. up = <<Note("complete")>> BY <1>1, <2>3, <2>6
  <2>8. Note("complete") \in Items BY Words21 DEF Words
  <2>9. Head(up) = Note("complete") BY <2>7, <2>8, Lone
  <2> QED BY <1>1, <2>9 DEF Note, IsRaw
<1>4. ~Whole \/ ~Sized BY <1>1, <1>2, <1>3 DEF Consistent, InStep
<1>5. InStep' BY <1>1, <1>4 DEF InStep, Dead, Whole, Sized
<1>6. Stored' BY <1>1, StoredStays DEF Consistent
<1>7. Fetched' BY <1>1, FetchedStays DEF Consistent
<1> QED BY <1>5, <1>6, <1>7 DEF Consistent

LEMMA EndUploadKeeps ==
  ASSUME TypeInv, Consistent, EndUpload
  PROVE  Consistent'
<1> DEFINE kept == Head(up).word = "complete" /\ upload.count = Chunks(upload.size)
           r == <<Note(IF kept THEN "completed" ELSE "cancelled")>>
<1>1. /\ provider = "final" /\ up # <<>> /\ ~IsRaw(Head(up)) /\ up' = Tail(up)
      /\ fate' = IF kept THEN "complete" ELSE "deleted"
      /\ down' = down \o r
      /\ UNCHANGED <<client, download, saved, upload, disk>>
  BY DEF EndUpload, Send, clientVars
<1>9. /\ mishaps \subseteq mishaps'
      /\ \/ provider' = "command" /\ mishaps' = mishaps
         \/ provider' = "dead" /\ ("malformed" \in mishaps' \/ ~Calm')
  BY DEF EndUpload, AnswerThrows, Calm
<1>2. Uploading BY <1>1 DEF Consistent, InStep
<1>3. /\ down \in Seq(Items) /\ up \in Seq(Items)
      /\ upload.count \in Nat /\ Chunks(upload.size) \in Nat /\ Chunks(upload.file) \in Nat
  BY TypesKnown
<1>4. r \in Seq(Items) BY Words21 DEF Words
<1>5. upload.count = Chunks(upload.size) BY <1>1, <1>2, <1>3 DEF Uploading
<1>6. ~Starting BY <1>1 DEF Starting
<1>7. ASSUME Transmitting PROVE Consistent'
  <2>1. PICK a \in Nat, u \in Nat, e \in 0..1 : UnderWay(a, u, e) BY <1>7 DEF Transmitting
  <2>2. /\ u < 2 * a => up # <<>> /\ IsRaw(Head(up))
        /\ u = 2 * a /\ e = 1 => up = <<Note("complete")>>
        /\ u = 2 * a /\ e = 0 => up = <<>>
    BY <2>1, UnderWayNext
  <2>3. u = 2 * a /\ e = 1 BY <1>1, <2>1, <2>2 DEF UnderWay
  <2>4. /\ upload.count = Chunks(upload.file) /\ Wrote(disk, upload.file, upload.count)
        /\ client \in {"final", "gone"} /\ (client = "final" => Acks(0))
    BY <2>1, <2>3 DEF UnderWay
  <2>5. Note("complete") \in Items BY Words21 DEF Words
  <2>6. Head(up) = Note("complete") /\ up' = <<>> BY <1>1, <2>2, <2>3, <2>5, Lone
  <2>7. kept BY <1>5, <2>6 DEF Note
  <2>8. r = <<Note("completed")>> BY <2>7
  <2> HIDE DEF kept, r
  <2>9. client = "final" => down' = <<Note("completed")>>
    BY <1>1, <1>3, <1>4, <2>4, <2>8, NoAcks, NothingThere
  <2>10. provider' = "command" => Between' BY <1>1, <2>4, <2>6, <2>9 DEF Between
  <2>14. provider' = "dead" => Dead' BY <1>1, <1>9, <2>4, <2>9 DEF Dead
  <2>11. InStep' BY <1>9, <2>10, <2>14 DEF InStep
  <2>12. Stored' BY <1>1, <2>4 DEF Stored, Wrote
  <2>13. Fetched' BY <1>1, <1>9, FetchedStays DEF Consistent
  <2> QED BY <2>11, <2>12, <2>13 DEF Consistent
<1>8. ASSUME Over PROVE Consistent'
  <2>1. PICK x \in Commands : up = <<x>> BY <1>1, <1>8 DEF Over, Asked
  <2>2. x \in Items /\ x.word # "complete" BY CommandsAreObjects
  <2>3. Head(up) = x /\ up' = <<>> BY <1>1, <2>1, <2>2, Lone
  <2>4. ~kept BY <2>2, <2>3
  <2>5. r = <<Note("cancelled")>> BY <2>4
  <2> HIDE DEF kept, r
  <2>6. client \in {"reply", "gone"} /\ (client = "reply" => Acks(0)) BY <1>1, <1>8 DEF Over
  <2>7. client = "reply" => down' = <<Note("cancelled")>>
    BY <1>1, <1>3, <1>4, <2>5, <2>6, NoAcks, NothingThere
  <2>8. provider' = "command" /\ client = "reply" => Replied' BY <1>1, <2>3, <2>7 DEF Replied
  <2>9. provider' = "command" => Between' BY <1>1, <2>3, <2>6, <2>8 DEF Between
  <2>13. Dead' BY <1>8, <1>9 DEF Over, Dead, Sized
  <2>10. InStep' BY <1>9, <2>9, <2>13 DEF InStep
  <2>11. Stored' BY <1>1, <2>4 DEF Stored
  <2>12. Fetched' BY <1>1, <1>9, FetchedStays DEF Consistent
  <2> QED BY <2>10, <2>11, <2>12 DEF Consistent
<1> QED BY <1>2, <1>6, <1>7, <1>8 DEF Uploading

LEMMA ReadChunkKeeps ==
  ASSUME TypeInv, Consistent, Whole \/ Sized, (Whole \/ Sized)', NEW k \in 1..2, ReadChunk(k)
  PROVE  Consistent'
<1> DEFINE bytes == Filled(upload.bytes, k, up)
<1>1. /\ provider = "chunks" /\ k <= Len(up) /\ up' = Rest(up, k)
      /\ down' = down \o <<Note("received")>>
      /\ disk' = disk \o bytes /\ upload' = Counted(upload, bytes)
      /\ provider' = IF AllCounted(upload') THEN "final" ELSE "chunks"
      /\ UNCHANGED <<client, sending, download, saved, fate, serving>>
  BY DEF ReadChunk, Send, clientVars
<1>2. mishaps' = mishaps \cup (IF Tears(up, k) THEN {"torn"} ELSE {}) BY DEF ReadChunk
<1>3. /\ up \in Seq(Items) /\ down \in Seq(Items) /\ disk \in Seq(Items)
      /\ upload \in Writer /\ Len(upload.bytes) = 2
  BY TypesKnown
<1>4. (Whole' => Whole) /\ (Sized' <=> Sized) /\ (Calm' => Calm)
  BY <1>2 DEF Whole, Sized, Calm
<1>5. Uploading BY <1>1 DEF Consistent, InStep
<1>6. bytes \in Seq(Items) /\ Len(bytes) = 2 BY <1>1, <1>3, ReadTyped
<1>7. /\ (upload.file)' = upload.file /\ (upload.size)' = upload.size
      /\ (upload.count)' = upload.count + 1
  <2> HIDE DEF bytes
  <2> QED BY <1>1, <1>3, <1>6, CountedTyped
<1>8. PICK f \in Nat, c \in Nat, d \in Nat :
         f = upload.file /\ c = upload.count /\ d = Chunks(upload.size)
  BY TypesKnown
<1>9. c < d /\ (Sized => d = Chunks(f)) /\ fate = "writing" BY <1>1, <1>5, <1>8 DEF Uploading
<1>10. (upload.file)' = f /\ (upload.count)' = c + 1 /\ (Chunks(upload.size))' = d
  BY <1>7, <1>8
<1>11. AllCounted(upload') <=> c + 1 >= d BY <1>10 DEF AllCounted
<1>12. ASSUME (Transmitting \/ Over)' PROVE Uploading'
  <2>1. (upload.count <= Chunks(upload.size))' BY <1>9, <1>10
  <2>2. (provider = "chunks" <=> upload.count < Chunks(upload.size))'
    BY <1>1, <1>9, <1>10, <1>11
  <2>3. (Sized => Chunks(upload.size) = Chunks(upload.file))' BY <1>4, <1>9, <1>10
  <2> QED BY <1>1, <1>9, <1>12, <2>1, <2>2, <2>3 DEF Uploading
<1>13. ASSUME NEW n \in Nat, Acks(n) PROVE Acks(n + 1)' BY <1>1, <1>3, <1>13, AcksMore
<1>14. up # <<>> BY <1>1, <1>3, NothingThere
<1>15. ASSUME Len(up) = 1 PROVE up' = <<>>
  <2>1. k = 1 BY <1>1, <1>15
  <2>2. up' \in Seq(Items) /\ Len(up') = Len(up) - k BY <1>1, <1>3, RestItems
  <2> QED BY <1>15, <2>1, <2>2, NothingThere
<1>16. ASSUME Over PROVE Over'
  <2>1. PICK x \in Commands : up = <<x>> BY <1>14, <1>16 DEF Over, Asked
  <2>2. Len(up) = 1 BY <2>1, CommandItems, Lone
  <2>3. up' = <<>> BY <1>15, <2>2
  <2>4. client \in {"reply", "gone"} /\ (client = "reply" => Acks(0)) BY <1>14, <1>16 DEF Over
  <2>5. client = "reply" => Acks(1)'
    <3>1. Acks(0) => Acks(0 + 1)' BY <1>13
    <3>2. 0 + 1 = 1 OBVIOUS
    <3> QED BY <2>4, <3>1, <3>2
  <2>6. ~Sized' BY <1>4, <1>16 DEF Over
  <2> QED BY <1>1, <2>3, <2>4, <2>5, <2>6 DEF Over
<1>17. ASSUME Transmitting PROVE (Transmitting \/ Over)'
  <2>1. PICK a \in Nat, u \in Nat, e \in 0..1 : UnderWay(a, u, e) BY <1>17 DEF Transmitting
  <2>2. /\ ReaderAt(sending, f, a) /\ u <= 2 * a /\ u <= 2 * c
        /\ u = 2 * c => Wrote(disk, f, c)
        /\ u # 2 * c => ~Whole
        /\ Len(up) = 2 * a - u + e /\ Holds(up, 0, f, u, a)
        /\ e = 1 => a = Chunks(f) /\ c = a
        /\ client \in {"chunk", "ack", "final", "gone"}
        /\ client = "chunk" => e = 0 /\ a <= c /\ Acks(c - a)
        /\ client = "ack"   => e = 0 /\ a > 0 /\ a <= c + 1 /\ Acks(c + 1 - a)
        /\ client = "final" => e = 1 /\ Acks(0)
    BY <1>8, <2>1 DEF UnderWay
  <2>3. CASE e = 1
    <3>1. ~Sized /\ Whole BY <1>9, <2>2, <2>3
    <3>2. Len(up) = 1 BY <2>2, <2>3, <3>1
    <3>3. up' = <<>> BY <1>15, <3>2
    <3>4. client = "final" => Acks(1)'
      <4>1. Acks(0) => Acks(0 + 1)' BY <1>13
      <4>2. 0 + 1 = 1 OBVIOUS
      <4> QED BY <2>2, <4>1, <4>2
    <3>5. client \in {"final", "gone"} BY <2>2, <2>3
    <3>6. Over' BY <1>1, <1>4, <3>1, <3>3, <3>4, <3>5 DEF Over
    <3> QED BY <3>6
  <2>4. CASE e = 0
    <3> DEFINE old == upload.bytes
    <3>1. old \in Seq(Items) /\ Len(old) = 2 BY <1>3 DEF Writer
    <3>2. /\ a <= Chunks(f) /\ u <= 2 * c /\ u + k <= 2 * a /\ 2 * a - u <= Len(up)
          /\ up \in Seq(Items) /\ disk \in Seq(Items) /\ Holds(up, 0, f, u, a)
          /\ u = 2 * c => Wrote(disk, f, c)
      BY <1>1, <1>3, <2>2, <2>4 DEF ReaderAt
    <3>3. disk' = disk \o Filled(old, k, up) BY <1>1
    <3> HIDE DEF old
    <3>4. Holds(Rest(up, k), 0, f, u + k, a) BY <3>1, <3>2, ReadMore
    <3>5. Len(Rest(up, k)) = Len(up) - k BY <3>1, <3>2, ReadMore
    <3>6. u + k <= 2 * (c + 1) BY <3>2
    <3>7. u + k = 2 * (c + 1) => Wrote(disk \o Filled(old, k, up), f, c + 1)
      BY <3>1, <3>2, ReadMore
    <3>8. u + k # 2 * (c + 1) => u # 2 * c \/ Tears(up, k) BY <3>1, <3>2, ReadMore
    <3>9. u + k # 2 * (c + 1) => ~Whole' BY <1>2, <1>4, <2>2, <3>8 DEF Whole
    <3>10. ASSUME client = "chunk" PROVE a <= c + 1 /\ Acks(c + 1 - a)'
      <4>1. c - a \in Nat /\ Acks(c - a) BY <2>2, <3>10
      <4>2. Acks((c - a) + 1)' BY <1>13, <4>1
      <4>3. (c - a) + 1 = c + 1 - a BY <2>2, <3>10
      <4> QED BY <2>2, <3>10, <4>2, <4>3
    <3>11. ASSUME client = "ack" PROVE a > 0 /\ a <= (c + 1) + 1 /\ Acks((c + 1) + 1 - a)'
      <4>1. c + 1 - a \in Nat /\ Acks(c + 1 - a) BY <2>2, <3>11
      <4>2. Acks((c + 1 - a) + 1)' BY <1>13, <4>1
      <4>3. (c + 1 - a) + 1 = (c + 1) + 1 - a BY <2>2, <3>11
      <4> QED BY <2>2, <3>11, <4>2, <4>3
    <3>12. client' \in {"chunk", "ack", "gone"} /\ client' = client BY <1>1, <2>2, <2>4
    <3>13. ReaderAt(sending', f, a) BY <1>1, <2>2
    <3>14. Len(up') = 2 * a - (u + k) + 0 /\ Holds(up', 0, f, u + k, a) /\ u + k \in Nat
      BY <1>1, <2>2, <2>4, <3>2, <3>4, <3>5
    <3>15. IF u + k = 2 * (c + 1) THEN Wrote(disk', f, c + 1) ELSE ~Whole'
      BY <3>3, <3>7, <3>9
    <3>16. (client = "chunk" => a <= upload.count /\ Acks(upload.count - a))'
      BY <1>10, <3>10, <3>12
    <3>17. (client = "ack" => a > 0 /\ a <= upload.count + 1 /\ Acks(upload.count + 1 - a))'
      BY <1>10, <3>11, <3>12
    <3>18. UnderWay(a, u + k, 0)'
      BY <1>10, <3>2, <3>6, <3>12, <3>13, <3>14, <3>15, <3>16, <3>17 DEF UnderWay
    <3>19. Transmitting' BY <3>14, <3>18 DEF Transmitting
    <3> QED BY <3>19
  <2> QED BY <2>3, <2>4
<1>18. ~Starting BY <1>14 DEF Starting
<1>19. Uploading' BY <1>5, <1>12, <1>16, <1>17, <1>18 DEF Uploading
<1>20. InStep' BY <1>1, <1>19 DEF InStep
<1>21. Stored' BY <1>1, <1>9 DEF Stored
<1>22. mishaps \subseteq mishaps' BY <1>2
<1>23. Fetched' BY <1>1, <1>22, FetchedStays DEF Consistent
<1> QED BY <1>20, <1>21, <1>23 DEF Consistent

-----------------------------------------------------------------------------
(* The invariant, and what follows from it. *)

LEMMA InStepInit == Init => TransferInv
<1> SUFFICES ASSUME Init PROVE TransferInv OBVIOUS
<1>1. TypeInv BY TypeInit
<1>2. Between BY DEF Init, Between
<1>3. Stored BY DEF Init, Stored
<1>4. Fetched
  <2>1. download = NewWriter(0, 0) /\ saved = <<>> BY DEF Init
  <2>2. download.file = 0 /\ Chunks(0) = 0 BY <2>1 DEF NewWriter, Chunks
  <2>3. Wrote(saved, download.file, Chunks(download.file)) BY <2>1, <2>2 DEF Wrote
  <2> QED BY <2>3 DEF Fetched
<1> QED BY <1>1, <1>2, <1>3, <1>4 DEF Init, TransferInv, Consistent, InStep

LEMMA MishapsGrow ==
  ASSUME [Next]_vars
  PROVE  mishaps \subseteq mishaps'
  BY DEF Next, ClientStep, ProviderStep, vars, Type, ReadReply, ReadMessages, SendChunk,
     ReadAck, ReadFinal, ReadIntro, ReadBlock, ClientEOF, Vanish, ReadGarbage, Other,
     ViewMessage, Unknown, Malformed, Logout, StartUpload, EndUpload, NoSuchFile, SendBlock,
     ReadChunk, StartDownload, ConnectionLost, OtherThrows, LogoutThrows, UploadThrows,
     FileVanishes,
     Disturbed, AnswerThrows

LEMMA InStepStep ==
  ASSUME TransferInv, [Next]_vars
  PROVE  TransferInv'
<1>1. TypeInv /\ TypeInv' BY TypeStep DEF TransferInv
<1>2. ASSUME (Whole \/ Sized)' PROVE Consistent'
  <2>1. Whole \/ Sized BY <1>2, MishapsGrow, Worse
  <2>2. Consistent BY <2>1 DEF TransferInv
  <2>3. ASSUME NEW c \in Commands, Type(c) PROVE Consistent' BY <1>1, <2>2, <2>3, TypeKeeps
  <2>4. ASSUME ReadReply PROVE Consistent' BY <1>1, <2>2, <2>4, ReadReplyKeeps
  <2>5. ASSUME ReadMessages PROVE Consistent' BY <1>1, <2>2, <2>5, ReadMessagesKeeps
  <2>6. ASSUME SendChunk PROVE Consistent' BY <1>1, <2>1, <2>2, <2>6, SendChunkKeeps
  <2>7. ASSUME ReadAck PROVE Consistent' BY <1>1, <2>2, <2>7, ReadAckKeeps
  <2>8. ASSUME ReadFinal PROVE Consistent' BY <1>1, <2>2, <2>8, ReadFinalKeeps
  <2>9. ASSUME ReadIntro PROVE Consistent' BY <1>1, <2>2, <2>9, ReadIntroKeeps
  <2>10. ASSUME NEW k \in 1..2, ReadBlock(k) PROVE Consistent'
    BY <1>1, <2>2, <2>10, ReadBlockKeeps
  <2>11. ASSUME Vanish \/ ClientEOF PROVE Consistent' BY <1>1, <2>2, <2>11, LeavingKeeps
  <2>12. ASSUME ReadGarbage PROVE Consistent' BY <1>1, <2>1, <2>2, <2>12, ReadGarbageKeeps
  <2>13. ASSUME Other \/ ViewMessage \/ NoSuchFile \/ Unknown PROVE Consistent'
    BY <1>1, <2>2, <2>13, RepliesKeep
  <2>14. ASSUME Malformed PROVE Consistent' BY <1>1, <2>2, <2>14, MalformedKeeps
  <2>15. ASSUME Logout PROVE Consistent' BY <1>1, <2>2, <2>15, LogoutKeeps
  <2>16. ASSUME StartUpload PROVE Consistent' BY <1>1, <2>2, <2>16, StartUploadKeeps
  <2>17. ASSUME EndUpload PROVE Consistent' BY <1>1, <2>2, <2>17, EndUploadKeeps
  <2>18. ASSUME SendBlock PROVE Consistent' BY <1>1, <2>2, <2>18, SendBlockKeeps
  <2>19. ASSUME NEW k \in 1..2, ReadChunk(k) PROVE Consistent'
    BY <1>1, <1>2, <2>1, <2>2, <2>19, ReadChunkKeeps
  <2>20. ASSUME NEW f \in Files, NEW n \in Files, StartDownload(f, n) PROVE Consistent'
    BY <1>1, <2>2, <2>20, StartDownloadKeeps
  <2>21. ASSUME ConnectionLost PROVE Consistent' BY <1>1, <2>2, <2>21, ConnectionLostKeeps
  <2>23. ASSUME OtherThrows \/ LogoutThrows \/ UploadThrows \/ \E n \in Files : FileVanishes(n)
         PROVE  Consistent'
    BY <2>2, <2>23, DisturbedKeeps
    DEF OtherThrows, LogoutThrows, UploadThrows, FileVanishes
  <2>22. ASSUME UNCHANGED vars PROVE Consistent'
    <3>1. InStep'
      <4>1. UNCHANGED <<client, provider, up, down, sending, upload, disk, fate, serving,
                        download, saved, mishaps>>
        BY <2>22 DEF vars
      <4>2. InStep BY <2>2 DEF Consistent
      <4>3. Doomed <=> Doomed' BY <4>1 DEF Doomed, Whole, Sized
      <4>4. Asked <=> Asked' BY <4>1 DEF Asked
      <4>5. Starting => Starting' BY <4>1, <4>3 DEF Starting
      <4>6. Transmitting => Transmitting'
        <5>1. ASSUME NEW a \in Nat, NEW u \in Nat, NEW e \in 0..1, UnderWay(a, u, e)
              PROVE  UnderWay(a, u, e)'
          BY <4>1, <5>1 DEF UnderWay, Whole, Acks
        <5> QED BY <5>1 DEF Transmitting
      <4>7. Over => Over' BY <4>1, <4>4 DEF Over, Sized, Acks
      <4>8. Uploading => Uploading'
        BY <4>1, <4>5, <4>6, <4>7, UploadingStays DEF Uploading
      <4>9. ASSUME NEW o \in Nat, NEW v \in Nat, Blocks(o, v) PROVE Blocks(o, v)'
        BY <4>1, <4>9 DEF Blocks, BlocksSent
      <4>10. \A v \in Nat : Fetching(v) => Fetching(v)'
        BY <4>1, <4>9 DEF Fetching, SizeOf, Sized, Whole
      <4>11. Announced => Announced' BY <4>1, <4>9 DEF Announced, SizeOf, Sized
      <4>12. Replied => Replied' BY <4>1 DEF Replied
      <4>13. Between => Between'
        BY <4>1, <4>3, <4>4, <4>9, <4>10, <4>11, <4>12 DEF Between, SizeOf, Sized
      <4>14. Closed => Closed' BY <4>1, <4>3 DEF Closed
      <4>15. Dead => Dead' BY <4>1 DEF Dead, Whole, Sized, Calm
      <4> QED BY <4>1, <4>2, <4>8, <4>13, <4>14, <4>15 DEF InStep
    <3>2. UNCHANGED <<fate, disk, upload, download, saved, client, mishaps>> BY <2>22 DEF vars
    <3>3. Stored' BY <2>2, <3>2, StoredStays DEF Consistent
    <3>4. Fetched' BY <2>2, <3>2, FetchedStays DEF Consistent
    <3> QED BY <3>1, <3>3, <3>4 DEF Consistent
  <2> QED
    BY <2>3, <2>4, <2>5, <2>6, <2>7, <2>8, <2>9, <2>10, <2>11, <2>12, <2>13, <2>14, <2>15,
       <2>16, <2>17, <2>18, <2>19, <2>20, <2>21, <2>22, <2>23
       DEF Next, ClientStep, ProviderStep
<1> QED BY <1>1, <1>2 DEF TransferInv

LEMMA TransferInvariant == Spec => []TransferInv
<1>1. TransferInv /\ [Next]_vars => TransferInv' BY InStepStep
<1> QED BY <1>1, InStepInit, PTL DEF Spec

(* An upload reported complete is what the client's file is, for files of  *)
(* any length, unless a read was torn and a size wrong on the same         *)
(* connection.                                                             *)
THEOREM CompleteIsExact == Spec => []AckedIsExact
<1>1. TransferInv => AckedIsExact
  <2> SUFFICES ASSUME TransferInv, fate = "complete", Whole \/ Sized
               PROVE  HoldsFile(disk, upload.file)
    BY DEF AckedIsExact, Whole, Sized
  <2>1. disk \in Seq(Items) /\ upload.file \in Nat BY TypesKnown DEF TransferInv
  <2>2. Wrote(disk, upload.file, Chunks(upload.file))
    BY DEF TransferInv, Consistent, Stored
  <2> QED BY <2>1, <2>2, WroteFile
<1> QED BY <1>1, TransferInvariant, PTL

(* A download whose blocks were all counted is the file that was sent.     *)
THEOREM DownloadIsExact == Spec => []DownloadExact
<1>1. TransferInv => DownloadExact
  <2> SUFFICES ASSUME TransferInv, client = "prompt", AllCounted(download),
                      Whole, Sized, Calm
               PROVE  HoldsFile(saved, download.file)
    BY DEF DownloadExact, Whole, Sized, Calm
  <2>1. saved \in Seq(Items) /\ download.file \in Nat BY TypesKnown DEF TransferInv
  <2>2. Wrote(saved, download.file, Chunks(download.file))
    BY DEF TransferInv, Consistent, Fetched
  <2> QED BY <2>1, <2>2, WroteFile
<1> QED BY <1>1, TransferInvariant, PTL

(* The provider never takes raw bytes for a command, nor anything else that*)
(* ends it, unless something was torn, missized or malformed, another      *)
(* session disturbed it, or the client is gone.                            *)
THEOREM OnlyMishapsKill == Spec => []DiesOfMishaps
<1>1. TransferInv => DiesOfMishaps
  <2> SUFFICES ASSUME TransferInv, provider = "dead", Whole, Sized, Calm
               PROVE  client = "gone" \/ "malformed" \in mishaps
    BY DEF DiesOfMishaps, Whole, Sized, Calm
  <2>1. Dead BY DEF TransferInv, Consistent, InStep
  <2> QED BY <2>1 DEF Dead
<1> QED BY <1>1, TransferInvariant, PTL

(* The two never wait for each other, unless one of the named mishaps has  *)
(* happened.                                                               *)
THEOREM NeverBothWait == Spec => []NoMutualWait
<1>1. TransferInv => NoMutualWait
  <2> SUFFICES ASSUME TransferInv, client \notin {"prompt", "chunk", "gone"}, down = <<>>,
                      provider \in {"command", "chunks", "final", "dead"}, up = <<>>,
                      mishaps = {}
               PROVE  FALSE
    BY DEF NoMutualWait
  <2>1. Whole /\ Sized /\ Calm /\ ~Doomed /\ Consistent
    BY DEF Whole, Sized, Calm, Doomed, TransferInv
  <2>2. /\ down \in Seq(Items) /\ up \in Seq(Items) /\ client \in ClientPCs
        /\ upload.count \in Nat /\ Chunks(upload.file) \in Nat /\ Chunks(upload.size) \in Nat
        /\ Chunks(serving.file) \in Nat /\ Chunks(download.size) \in Nat
        /\ Chunks(download.file) \in Nat /\ download.count \in Nat
    BY TypesKnown DEF TransferInv
  <2>3. ASSUME Uploading PROVE FALSE
    <3>1. ~Starting /\ ~Over BY <2>1 DEF Starting, Over
    <3>2. PICK a \in Nat, u \in Nat, e \in 0..1 : UnderWay(a, u, e)
      BY <2>3, <3>1 DEF Uploading, Transmitting
    <3>3. u = 2 * a /\ e = 0 /\ u = 2 * upload.count BY <2>1, <3>2 DEF UnderWay
    <3>4. client = "ack" BY <3>2, <3>3 DEF UnderWay
    <3>5. Len(down) = upload.count + 1 - a BY <3>2, <3>4 DEF UnderWay, Acks
    <3> QED BY <2>2, <3>3, <3>5
  <2>4. ASSUME Between, provider = "command" PROVE FALSE
    <3>1. ASSUME NEW o \in Nat, NEW v \in Nat, Blocks(o, v), provider = "command"
          PROVE  o = 0 /\ v = 2 * Chunks(serving.file)
      <4>1. PICK b \in Nat : BlocksSent(o, v, b) BY <3>1 DEF Blocks
      <4>2. /\ Len(down) = o + (2 * b - v) /\ v <= 2 * b /\ b <= Chunks(serving.file)
            /\ ~(b < Chunks(serving.file))
        BY <3>1, <4>1 DEF BlocksSent, ReaderAt
      <4> QED BY <2>2, <4>2
    <3>2. client # "reply"
      <4>1. ~Replied BY <2>1 DEF Replied
      <4>2. ~Announced BY <2>4, <3>1 DEF Announced
      <4> QED BY <2>1, <2>4, <4>1, <4>2 DEF Between
    <3>3. client # "intro" BY <2>4, <3>1 DEF Between
    <3>4. client # "blocks"
      <4> SUFFICES ASSUME NEW v \in Nat, Fetching(v) PROVE FALSE BY <2>4 DEF Between
      <4>1. v = 2 * Chunks(serving.file) BY <2>4, <3>1 DEF Fetching
      <4>2. /\ download.count < Chunks(download.size) /\ v = 2 * download.count
            /\ Chunks(download.size) = Chunks(serving.file)
        BY <2>1 DEF Fetching, SizeOf
      <4> QED BY <2>2, <4>1, <4>2
    <3>5. client \notin {"viewing", "final"} BY <2>4 DEF Between
    <3> QED BY <2>4, <3>2, <3>3, <3>4, <3>5 DEF Between
  <2>5. ~Dead BY <2>1 DEF Dead
  <2> QED BY <2>1, <2>3, <2>4, <2>5 DEF Consistent, InStep
<1> QED BY <1>1, TransferInvariant, PTL
=============================================================================
