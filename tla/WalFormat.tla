----------------------------- MODULE WalFormat ------------------------------
(***************************************************************************)
(* The write-ahead log file (wal.go, encrypt.go): its header, its record   *)
(* framing, replay, and the scan that tells a torn tail from corruption.   *)
(*                                                                         *)
(* A file is a sequence of cells; a cell stands for the bytes of one field *)
(* and is the unit that is torn or damaged.  A checksum cell holds exactly *)
(* the cells it was computed over, a sealed cell names the key and the     *)
(* additional data it was sealed with, and Junk is any cell whose bytes    *)
(* are not what was written.                                               *)
(***************************************************************************)
EXTENDS Naturals, Sequences, FiniteSets

CONSTANT NoKey   \* a nil *walCipher: the log is plaintext

Junk == [junk |-> 0]
Crc(cells) == [crc |-> cells]
-----------------------------------------------------------------------------
(***************************************************************************)
(* Headers.                                                                *)
(***************************************************************************)
Magic == [magic |-> 0]
Version(n) == [version |-> n]

plainFormatVersion == 1
encFormatVersion == 2
logFormatVersion == 2
logHeaderSize == 3     \* magic, version, crc
logHeaderSizeV2 == 5   \* magic, version, crc, flags, kcv

\* The compatibility prefix, identical in every format.
Prefix(version) == <<Magic, Version(version), Crc(<<Magic, Version(version)>>)>>

logHeader == Prefix(plainFormatVersion)

\* walCipher.header: the flags and the key-check value, which is a function
\* of the key.
header(key) == Prefix(encFormatVersion) \o <<[flags |-> 0], [kcv |-> key]>>

headerFor(key) == IF key = NoKey THEN logHeader ELSE header(key)
-----------------------------------------------------------------------------
(***************************************************************************)
(* Records: a head with the op and the lengths of key and value, the key,  *)
(* the value, and the checksum of all of them.  Nothing bounds a length    *)
(* that is written.                                                        *)
(***************************************************************************)
maxPartLen == 4   \* the largest klen or vlen that is read back

appendRecord(op, key, val) ==
  LET framed == <<[op |-> op, klen |-> Len(key), vlen |-> Len(val)]>> \o key \o val
  IN  Append(framed, Crc(framed))

\* The value under a key, bound to the op and the record's key.
sealValue(key, rec) ==
  [i \in DOMAIN rec.val |->
     [sealed |-> rec.val[i], under |-> key, aad |-> <<rec.op, rec.key>>]]

appendSealedRecord(key, rec) ==
  appendRecord(rec.op, <<[key |-> rec.key]>>,
               IF key = NoKey \/ rec.op = "delete" THEN rec.val ELSE sealValue(key, rec))

\* A value with an expiry carries its deadline in front.
prependDeadline(deadline, val) == <<[deadline |-> deadline]>> \o val

\* Mutant: the count leaves out the last member.
batchHeaderShort(n) == appendRecord("batch", <<>>, <<[count |-> n - 1]>>)

\* The header record of a batch, whose body is the number of its members.
batchHeader(n) == appendRecord("batch", <<>>, <<[count |-> n]>>)

SizeAt(data, i) == data[i].klen + data[i].vlen + 2

\* An intact record starts at cell i: its head, key, value and checksum are
\* there and agree.
IntactAt(data, i) ==
  /\ i \in DOMAIN data
  /\ "op" \in DOMAIN data[i]
  /\ data[i].klen <= maxPartLen /\ data[i].vlen <= maxPartLen
  /\ LET end == i + SizeAt(data, i) - 1 IN
       end <= Len(data) /\ data[end] = Crc(SubSeq(data, i, end - 1))

\* readRecord, where IntactAt.
readRecord(data, i) ==
  LET keyEnd == i + data[i].klen IN
  [op  |-> data[i].op,
   key |-> SubSeq(data, i + 1, keyEnd),
   val |-> SubSeq(data, keyEnd + 1, keyEnd + data[i].vlen)]

\* Mutant: no remainder is taken for corruption.
scanForRecordNever(data) == FALSE

\* An intact record begins at some offset.
scanForRecord(data) == \E i \in DOMAIN data : IntactAt(data, i)

MemberAt(data, i) == IntactAt(data, i) /\ data[i].op # "batch"

\* Where each of the n members of a batch ends that starts at cell i; once a
\* member is missing, the cell where it should start.
memberEnds(data, i, n) ==
  LET ends[m \in 0 .. n] ==
        IF m = 0 THEN i
        ELSE IF MemberAt(data, ends[m - 1])
             THEN ends[m - 1] + SizeAt(data, ends[m - 1])
             ELSE ends[m - 1]
  IN  ends

\* The records replay applies, the cells up to the last one applied
\* (validLen) and the cells up to the last one that framed (parsedLen).  A
\* batch is applied whole or not at all.
replayLog(data) ==
  LET stop(valid, parsed) == [validLen |-> valid, parsedLen |-> parsed, recs |-> <<>>]
      from[i \in 1 .. Len(data) + 1] ==
        IF ~IntactAt(data, i) THEN stop(i - 1, i - 1)
        ELSE LET next == i + SizeAt(data, i)
                 rec == readRecord(data, i) IN
             IF rec.op # "batch"
             THEN [from[next] EXCEPT !.recs = <<rec>> \o @]
             ELSE IF ~(Len(rec.val) = 1 /\ "count" \in DOMAIN rec.val[1])
             THEN stop(i - 1, next - 1)
             ELSE LET n == rec.val[1].count
                      ends == memberEnds(data, next, n)
                      members == [m \in 1 .. n |-> readRecord(data, ends[m - 1])] IN
                  IF n = 0 \/ MemberAt(data, ends[n - 1])
                  THEN [from[ends[n]] EXCEPT !.recs = members \o @]
                  ELSE stop(i - 1, ends[n] - 1)
  IN  from[1]

\* openRecord succeeds, and the key and value it gives.
opens(key, rec) ==
  \/ key = NoKey \/ rec.op = "delete"
  \/ \A i \in DOMAIN rec.val :
       /\ "sealed" \in DOMAIN rec.val[i]
       /\ rec.val[i].under = key
       /\ rec.val[i].aad = <<rec.op, rec.key[1].key>>

openRecord(key, rec) ==
  [op  |-> rec.op,
   key |-> rec.key[1].key,
   val |-> IF key = NoKey \/ rec.op = "delete" THEN rec.val
           ELSE [i \in DOMAIN rec.val |-> rec.val[i].sealed]]
-----------------------------------------------------------------------------
(***************************************************************************)
(* prepareHeader: the offset where the records begin; or an order to write *)
(* the file afresh; or the error Open returns.                             *)
(***************************************************************************)
Replay(start) == [do |-> "replay", start |-> start]
writeFresh == [do |-> "fresh"]
Refuse(err) == [do |-> "refuse", err |-> err]

\* Mutant: a key opens a plaintext log.
classifyMixing(file, key) ==
  IF file[3] # Crc(SubSeq(file, 1, 2))
  THEN IF scanForRecord(SubSeq(file, logHeaderSize + 1, Len(file)))
       THEN Refuse("ErrCorrupt") ELSE writeFresh
  ELSE LET version == file[2].version IN
       IF version > logFormatVersion THEN Refuse("ErrNewerFormat")
       ELSE IF version = encFormatVersion /\ key = NoKey THEN Refuse("ErrKeyRequired")
       ELSE IF version = plainFormatVersion THEN Replay(logHeaderSize)
       ELSE IF Len(file) < logHeaderSizeV2 THEN writeFresh
       ELSE IF file[4] # header(key)[4] THEN Refuse("ErrCipherMismatch")
       ELSE IF file[5] # header(key)[5] THEN Refuse("ErrWrongKey")
       ELSE Replay(logHeaderSizeV2)

\* A file that opens with the magic and has a whole prefix.
classify(file, key) ==
  IF file[3] # Crc(SubSeq(file, 1, 2))
  THEN IF scanForRecord(SubSeq(file, logHeaderSize + 1, Len(file)))
       THEN Refuse("ErrCorrupt") ELSE writeFresh
  ELSE LET version == file[2].version IN
       IF version > logFormatVersion THEN Refuse("ErrNewerFormat")
       ELSE IF version = encFormatVersion /\ key = NoKey THEN Refuse("ErrKeyRequired")
       ELSE IF version = plainFormatVersion /\ key # NoKey THEN Refuse("ErrNotEncrypted")
       ELSE IF key = NoKey THEN Replay(logHeaderSize)
       ELSE IF Len(file) < logHeaderSizeV2 THEN writeFresh
       ELSE IF file[4] # header(key)[4] THEN Refuse("ErrCipherMismatch")
       ELSE IF file[5] # header(key)[5] THEN Refuse("ErrWrongKey")
       ELSE Replay(logHeaderSizeV2)

prepareHeader(file, key) ==
  LET expected == headerFor(key) IN
  IF Len(file) < Len(expected) /\ file = SubSeq(expected, 1, Len(file))
  THEN writeFresh          \* empty, or torn while it was created
  ELSE IF Len(file) < logHeaderSize \/ file[1] # Magic
  THEN IF key = NoKey THEN Replay(0) ELSE Refuse("ErrNotEncrypted")
  ELSE classify(file, key)

=============================================================================
