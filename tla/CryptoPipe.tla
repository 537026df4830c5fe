---------------------------- MODULE CryptoPipe ----------------------------
(***************************************************************************)
(* cryptofile.writerTo (src/pkg/cryptofile/writerto.go, cryptofile.go):    *)
(* WriteTo reads blocks, cryptLoop seals or opens them, writeLoop writes   *)
(* them, three goroutines joined by two bounded channels, an error channel *)
(* and a cancel channel.                                                   *)
(*                                                                         *)
(* A block is its number, which is also its nonce; sizes are bytes.  What  *)
(* Seal and Open do to the bytes is left out, but for whether Open finds   *)
(* the block authentic.                                                    *)
(***************************************************************************)
EXTENDS Integers, Sequences

CONSTANTS
  Block,      \* plaintext bytes of a full block (Header.BlockKB)
  Tag,        \* poly1305.TagSize
  HeaderLen,
  BlockQueue, \* capacity of cryptCh and writeCh
  MaxLen      \* bound on the length of the source

ASSUME CryptoAssumption ==
  /\ Block \in Nat \ {0} /\ Tag \in Nat \ {0} /\ HeaderLen \in Nat
  /\ BlockQueue \in Nat \ {0} /\ MaxLen \in Nat

VARIABLES
  encrypt,   \* writerTo.encrypt
  srcLen,    \* bytes the source holds (after the header, to decrypt)
  bad,       \* blocks of the source Open rejects
  pos,       \* bytes read
  nonce,     \* blocks read
  nn,        \* writerTo.nn
  readPc,    \* WriteTo: init, get, send, last, eof, wait, done
  readBuf,   \* the buffer it fills
  cryptCh,
  cryptPc,   \* cryptLoop: none, recv, reject, send, done
  cryptBuf,
  writeCh,
  writePc,   \* writeLoop: none, recv, report, done
  report,    \* what it sends on doneCh: nil or err
  out,       \* the blocks written, the last one perhaps in part
  closed,    \* the channels that were closed
  result,    \* what WriteTo returned: none, nil, err
  failed,    \* history: a read, a write or an Open has failed
  panicked   \* cryptLoop has sent on a closed channel

readVars == <<pos, nonce, readPc, readBuf>>
cryptVars == <<cryptPc, cryptBuf>>
writeVars == <<writePc, report, out, nn>>
inputs == <<encrypt, srcLen, bad>>
vars == <<inputs, readVars, cryptCh, cryptVars, writeCh, writeVars, closed,
          result, failed, panicked>>

---------------------------------------------------------------------------
(* buffer: plen is len(plaintext), n what was read into src.               *)

(* The lengths a buffer that comes from the pool may have kept.            *)
PoolBuffers == {[plen |-> p, short |-> p # Block] : p \in 1 .. Block}

WithRead(n) ==
  LET size == IF encrypt THEN n ELSE n - Tag
      plen == IF size <= 0 THEN Block ELSE size
  IN  [plen |-> plen, short |-> plen # Block]

(* Mutant: the length of a short buffer is not restored.                   *)
InitBuffer_KeepsShort(b) == b

InitBuffer(b) == IF b.short THEN WithRead(0) ELSE b

SrcSize(b) == IF encrypt THEN b.plen ELSE b.plen + Tag
ResultSize(b) == IF encrypt THEN b.plen + Tag ELSE b.plen

Numbered(b, i, n) == [plen |-> b.plen, short |-> b.short, idx |-> i, n |-> n]

(* Open accepts a block that was not tampered with and that is all there.  *)
Authentic(b) == b.idx \notin bad /\ SrcSize(b) = b.n

(* How WriteTo cuts the source into blocks.                                *)
ReadSize == IF encrypt THEN Block ELSE Block + Tag
Blocks == (srcLen + ReadSize - 1) \div ReadSize

---------------------------------------------------------------------------
NoBuf == [plen |-> 0, short |-> FALSE, idx |-> 0, n |-> 0]
Buffers == [plen : 0 .. Block, short : BOOLEAN, idx : 0 .. MaxLen, n : 0 .. Block + Tag]
Chans == {"cryptCh", "writeCh", "cryptErrCh", "doneCh", "cancelCh"}

TypeOK ==
  /\ encrypt \in BOOLEAN /\ srcLen \in 0 .. MaxLen /\ bad \in SUBSET (1 .. MaxLen)
  /\ pos \in 0 .. srcLen /\ nonce \in 0 .. MaxLen + 1 /\ nn \in Int
  /\ readPc \in {"init", "get", "send", "last", "eof", "wait", "done"}
  /\ cryptPc \in {"none", "recv", "reject", "send", "done"}
  /\ writePc \in {"none", "recv", "report", "done"}
  /\ readBuf \in Buffers /\ cryptBuf \in Buffers
  /\ cryptCh \in Seq(Buffers) /\ Len(cryptCh) <= BlockQueue
  /\ writeCh \in Seq(Buffers) /\ Len(writeCh) <= BlockQueue
  /\ report \in {"none", "nil", "err"}
  /\ out \in Seq([idx : 1 .. MaxLen, len : 0 .. Block + Tag, whole : BOOLEAN])
  /\ closed \in SUBSET Chans
  /\ result \in {"none", "nil", "err"}
  /\ failed \in SUBSET {"read", "write", "open"}
  /\ panicked \in BOOLEAN

Init ==
  /\ encrypt \in BOOLEAN
  /\ srcLen \in 0 .. MaxLen
  /\ bad \in IF encrypt THEN {{}} ELSE SUBSET (1 .. Blocks)
  /\ pos = 0 /\ nonce = 0 /\ nn = 0
  /\ readPc = "init" /\ readBuf = NoBuf
  /\ cryptCh = <<>> /\ cryptPc = "none" /\ cryptBuf = NoBuf
  /\ writeCh = <<>> /\ writePc = "none" /\ report = "none" /\ out = <<>>
  /\ closed = {} /\ result = "none" /\ failed = {} /\ panicked = FALSE

---------------------------------------------------------------------------
(* WriteTo.                                                                *)

(* It returns v; the deferred calls close cryptErrCh and doneCh.           *)
ReturnClosing(v, chans) ==
  /\ readPc' = "done"
  /\ result' = v
  /\ closed' = closed \cup {"cryptErrCh", "doneCh"} \cup chans

(* Encryption starts by writing the header, which may fail; to decrypt,    *)
(* the header was read before and counts.                                  *)
WriteHeaderFails ==
  /\ readPc = "init" /\ encrypt
  /\ readPc' = "done" /\ result' = "err"
  /\ failed' = failed \cup {"write"}
  /\ UNCHANGED <<inputs, pos, nonce, readBuf, cryptCh, cryptVars, writeCh,
                 writeVars, closed, panicked>>

GoLoops ==
  /\ readPc = "init"
  /\ nn' = IF encrypt THEN 0 ELSE HeaderLen
  /\ readPc' = "get" /\ cryptPc' = "recv" /\ writePc' = "recv"
  /\ UNCHANGED <<inputs, pos, nonce, readBuf, cryptCh, cryptBuf, writeCh,
                 report, out, closed, result, failed, panicked>>

(* A buffer of the pool is filled: a block, the last block, or nothing.    *)
ReadBlock ==
  /\ readPc = "get"
  /\ \E p \in PoolBuffers :
       LET b == InitBuffer(p)
           left == srcLen - pos
       IN  \/ /\ left >= SrcSize(b)
              /\ readBuf' = Numbered(b, nonce + 1, SrcSize(b))
              /\ pos' = pos + SrcSize(b)
              /\ readPc' = "send"
           \/ /\ 0 < left /\ left < SrcSize(b)       \* io.ErrUnexpectedEOF
              /\ readBuf' = Numbered(WithRead(left), nonce + 1, left)
              /\ pos' = srcLen
              /\ readPc' = "last"
           \/ /\ left = 0                            \* io.EOF
              /\ readPc' = "eof"
              /\ UNCHANGED <<readBuf, pos>>
  /\ nonce' = nonce + 1
  /\ UNCHANGED <<inputs, cryptCh, cryptVars, writeCh, writeVars, closed, result,
                 failed, panicked>>

(* Mutant: the other loops are not told.                                   *)
ReadFails_NoCancel ==
  /\ readPc = "get"
  /\ readPc' = "wait"
  /\ failed' = failed \cup {"read"}
  /\ UNCHANGED <<inputs, pos, nonce, readBuf, cryptCh, cryptVars, writeCh,
                 writeVars, closed, result, panicked>>

(* The read fails: the buffer goes back and the other loops are cancelled. *)
ReadFails ==
  /\ readPc = "get"
  /\ readPc' = "wait"
  /\ closed' = closed \cup {"cancelCh"}
  /\ failed' = failed \cup {"read"}
  /\ UNCHANGED <<inputs, pos, nonce, readBuf, cryptCh, cryptVars, writeCh,
                 writeVars, result, panicked>>

(* A block is queued; after the last one the source is at its end.         *)
SendBlock ==
  /\ readPc \in {"send", "last"}
  /\ Len(cryptCh) < BlockQueue
  /\ cryptCh' = Append(cryptCh, readBuf)
  /\ readPc' = IF readPc = "send" THEN "get" ELSE "eof"
  /\ UNCHANGED <<inputs, pos, nonce, readBuf, cryptVars, writeCh, writeVars,
                 closed, result, failed, panicked>>

(* writeLoop has stopped while WriteTo still has blocks to send.           *)
DoneWhileSending ==
  /\ readPc \in {"send", "last"}
  /\ writePc = "report"
  /\ writePc' = "done"
  /\ ReturnClosing(report, {"cancelCh"})
  /\ UNCHANGED <<inputs, pos, nonce, readBuf, cryptCh, cryptVars, writeCh, nn,
                 report, out, failed, panicked>>

(* Mutant: cancelCh is closed at the end of the source too.                *)
CloseCryptCh_Cancels ==
  /\ readPc = "eof"
  /\ readPc' = "wait"
  /\ closed' = closed \cup {"cryptCh", "cancelCh"}
  /\ UNCHANGED <<inputs, pos, nonce, readBuf, cryptCh, cryptVars, writeCh,
                 writeVars, result, failed, panicked>>

CloseCryptCh ==
  /\ readPc = "eof"
  /\ readPc' = "wait"
  /\ closed' = closed \cup {"cryptCh"}
  /\ UNCHANGED <<inputs, pos, nonce, readBuf, cryptCh, cryptVars, writeCh,
                 writeVars, result, failed, panicked>>

(* The answer of writeLoop; a read error is only kept if it is nil.        *)
DoneReceived ==
  /\ readPc = "wait"
  /\ writePc = "report"
  /\ writePc' = "done"
  /\ ReturnClosing(IF "read" \in failed THEN "err" ELSE report, {})
  /\ UNCHANGED <<inputs, pos, nonce, readBuf, cryptCh, cryptVars, writeCh, nn,
                 report, out, failed, panicked>>

---------------------------------------------------------------------------
(* cryptLoop; when it ends the deferred call closes writeCh.               *)
CryptEnds(chans) ==
  /\ cryptPc' = "done"
  /\ closed' = closed \cup {"writeCh"} \cup chans

Crypt ==
  /\ cryptPc = "recv"
  /\ cryptCh # <<>>
  /\ cryptBuf' = Head(cryptCh)
  /\ cryptCh' = Tail(cryptCh)
  /\ LET ok == encrypt \/ Authentic(cryptBuf') IN
       /\ cryptPc' = IF ok THEN "send" ELSE "reject"
       /\ failed' = IF ok THEN failed ELSE failed \cup {"open"}
  /\ UNCHANGED <<inputs, readVars, writeCh, writeVars, closed, result, panicked>>

CryptSends ==
  /\ cryptPc = "send"
  /\ Len(writeCh) < BlockQueue
  /\ writeCh' = Append(writeCh, cryptBuf)
  /\ cryptPc' = "recv"
  /\ UNCHANGED <<inputs, readVars, cryptCh, cryptBuf, writeVars, closed, result,
                 failed, panicked>>

(* cryptErrCh is unbuffered and writeLoop receives from it.                *)
CryptErrSent ==
  /\ cryptPc = "reject"
  /\ writePc = "recv"
  /\ writePc' = "report" /\ report' = "err"
  /\ CryptEnds({})
  /\ UNCHANGED <<inputs, readVars, cryptCh, cryptBuf, writeCh, out, nn, result,
                 failed, panicked>>

(* The select may choose the send even when cryptErrCh is closed.          *)
CryptErrPanics ==
  /\ cryptPc = "reject"
  /\ "cryptErrCh" \in closed
  /\ panicked' = TRUE
  /\ UNCHANGED <<inputs, readVars, cryptCh, cryptVars, writeCh, writeVars, closed,
                 result, failed>>

CryptCancelled ==
  /\ cryptPc \in {"recv", "send", "reject"}
  /\ "cancelCh" \in closed
  /\ CryptEnds({})
  /\ UNCHANGED <<inputs, readVars, cryptCh, cryptBuf, writeCh, writeVars, result,
                 failed, panicked>>

(* Mutant: cryptLoop closes cryptErrCh as well when the source is at its   *)
(* end.                                                                    *)
CryptEnd_ClosesErr ==
  /\ cryptPc = "recv" /\ cryptCh = <<>> /\ "cryptCh" \in closed
  /\ CryptEnds({"cryptErrCh"})
  /\ UNCHANGED <<inputs, readVars, cryptCh, cryptBuf, writeCh, writeVars, result,
                 failed, panicked>>

CryptEnd ==
  /\ cryptPc = "recv" /\ cryptCh = <<>> /\ "cryptCh" \in closed
  /\ CryptEnds({})
  /\ UNCHANGED <<inputs, readVars, cryptCh, cryptBuf, writeCh, writeVars, result,
                 failed, panicked>>

---------------------------------------------------------------------------
(* writeLoop.                                                              *)
Report(v) == writePc' = "report" /\ report' = v

(* A Write of n bytes, all of them unless it fails; nn is counted before   *)
(* the error is looked at.                                                 *)
Write(n, ok) ==
  LET b == Head(writeCh) IN
  /\ writePc = "recv"
  /\ writeCh # <<>>
  /\ n <= ResultSize(b) /\ (ok => n = ResultSize(b))
  /\ writeCh' = Tail(writeCh)
  /\ out' = Append(out, [idx |-> b.idx, len |-> n, whole |-> ok])
  /\ nn' = nn + (IF encrypt THEN n - Tag ELSE n + Tag)
  /\ IF ok THEN UNCHANGED <<writePc, report, failed>>
           ELSE Report("err") /\ failed' = failed \cup {"write"}
  /\ UNCHANGED <<inputs, readVars, cryptCh, cryptVars, closed, result, panicked>>

(* writeCh is closed and drained.                                          *)
WriteEnd ==
  /\ writePc = "recv" /\ writeCh = <<>> /\ "writeCh" \in closed
  /\ Report("nil")
  /\ UNCHANGED <<inputs, readVars, cryptCh, cryptVars, writeCh, out, nn, closed,
                 result, failed, panicked>>

WriteCancelled ==
  /\ writePc = "recv" /\ "cancelCh" \in closed
  /\ Report("nil")
  /\ UNCHANGED <<inputs, readVars, cryptCh, cryptVars, writeCh, out, nn, closed,
                 result, failed, panicked>>

---------------------------------------------------------------------------
Reader ==
  \/ WriteHeaderFails \/ GoLoops \/ ReadBlock \/ ReadFails \/ SendBlock
  \/ DoneWhileSending \/ CloseCryptCh \/ DoneReceived

Crypter ==
  Crypt \/ CryptSends \/ CryptErrSent \/ CryptErrPanics \/ CryptCancelled \/ CryptEnd

Writer ==
  \/ \E n \in 0 .. Block + Tag, ok \in BOOLEAN : Write(n, ok)
  \/ WriteEnd \/ WriteCancelled

Next == ~panicked /\ (Reader \/ Crypter \/ Writer)

Spec == Init /\ [][Next]_vars

(* The three goroutines run, and reads and writes return.                  *)
FairSpec ==
  /\ Spec
  /\ WF_vars(~panicked /\ Reader)
  /\ WF_vars(~panicked /\ Crypter)
  /\ WF_vars(~panicked /\ Writer)

---------------------------------------------------------------------------
(* Whatever the order the three goroutines run in, the destination gets    *)
(* the blocks of the source in order and none twice, each as long as the   *)
(* file format asks: only the last one may be shorter than a block         *)
(* (WriteTo, cryptLoop, writeLoop, buffer.Init).                           *)
OutInOrder ==
  \A i \in 1 .. Len(out) :
     /\ out[i].idx = i
     /\ out[i].whole =>
          out[i].len = LET left == srcLen - (i - 1) * ReadSize
                           read == IF left < ReadSize THEN left ELSE ReadSize
                       IN  IF encrypt THEN read + Tag ELSE read - Tag
     /\ ~out[i].whole => i = Len(out)

(* When WriteTo returns no error, nothing has failed, the whole source was *)
(* written, and nn is the length of the source, with its header when it    *)
(* was decrypted.                                                          *)
SuccessMeansAll ==
  result = "nil" =>
    /\ failed = {}
    /\ Len(out) = Blocks
    /\ nn = IF encrypt THEN srcLen ELSE HeaderLen + srcLen

(* cryptErrCh stays open as long as writeLoop may receive from it ("do not *)
(* close cryptErrCh, because write may not be done", writerto.go:189).     *)
(* Hence its receive never yields the nil of a closed channel.             *)
ErrChannelOutlivesWriter ==
  "cryptErrCh" \in closed => writePc = "done"

(* What WriteTo promises, with the blocks that were written whole.         *)
Promise == INSTANCE BlockCopy WITH
  total <- Blocks,
  copied <- IF out # <<>> /\ ~out[Len(out)].whole THEN Len(out) - 1 ELSE Len(out),
  outcome <- CASE result = "none" -> "running" [] result = "nil" -> "ok"
               [] OTHER -> "err"
CopiesBlocks == Promise!CopySpec

(* WriteTo returns: it never waits for ever on a full channel or on the    *)
(* answer of writeLoop.                                                    *)
WriteToReturns == <>(panicked \/ result # "none")

(* Unless a write has failed, cryptLoop and writeLoop end too.  After a    *)
(* failed write at the end of the source cancelCh stays open, and          *)
(* cryptLoop may wait for room in writeCh for ever.                        *)
LoopsEnd == [](~panicked /\ "write" \notin failed) => <>(cryptPc = "done" /\ writePc = "done")

(* No goroutine sends on cryptErrCh once it is closed: the comment keeps   *)
(* it open for those that may not be done (writerto.go:189).               *)
NoSendOnClosed == ~panicked

(* nn is "total read from new" (writerto.go:19).                           *)
NnIsRead == 0 <= nn /\ nn <= (IF encrypt THEN 0 ELSE HeaderLen) + pos
===========================================================================
